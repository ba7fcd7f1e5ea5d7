------------------------- MODULE MCRequestLifecycle -------------------------
(* Instances of RequestLifecycle for TLC: two backends, of which b1 allows *)
(* one request at a time.                                                  *)
EXTENDS RequestLifecycle

CONSTANTS b1, b2, G1, G2, r1, r2

Limits == [b \in Backends |-> IF b = b1 THEN 1 ELSE 0]

\* One client of single-backend routes, one of unrouted models; both use a
\* group as well.
Mixed    == [r \in Reqs |-> IF r = r1 THEN {"group", "direct"}
                                    ELSE {"group", "passthrough"}]
OnlyGroup == [r \in Reqs |-> {"group"}]

(* Two reloads: the first drops all groups, leaving b1 with the group      *)
(* field of one that was declared empty; the second brings the group G1    *)
(* back with another backend and leaves G2 undeclared.                     *)
SwapKnown    == [g \in Gens |-> IF g < 2 THEN {b1} ELSE {b1, b2}]
SwapDefault  == [g \in Gens |-> IF g < 2 THEN b1 ELSE b2]
SwapMembers  == [g \in Gens |-> [G \in Groups |->
    IF G = G1 THEN (CASE g = 0 -> {b1} [] g = 1 -> {} [] OTHER -> {b2})
              ELSE IF g = 0 THEN {} ELSE {b1}]]
SwapDeclared == [g \in Gens |-> CASE g = 0 -> Groups [] g = 1 -> {} [] OTHER -> {G1}]

\* One reload, which drops the only group.
DropKnown    == [g \in Gens |-> {b1}]
DropDefault  == [g \in Gens |-> b1]
DropMembers  == [g \in Gens |-> [G \in Groups |-> IF g = 0 THEN {b1} ELSE {}]]
DropDeclared == [g \in Gens |-> IF g = 0 THEN Groups ELSE {}]
=============================================================================
