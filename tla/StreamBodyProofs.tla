---------------------------- MODULE StreamBodyProofs ----------------------------
(***************************************************************************)
(* Proofs about StreamBody and the idle timeout inside it, for bodies,     *)
(* buffers and caps of every size.                                         *)
(***************************************************************************)
EXTENDS StreamBody, SequenceTheorems, FiniteSetTheorems, WellFoundedInduction, TLAPS

Errs == {"none", "eof", "reset", "netTimeout", "canceled", "closed"}

Results == [buf : Seq(Nat), err : Errs]

\* The bytes a + 1, ..., b.
Stretch(a, b) == [i \in 1 .. b - a |-> a + i]

SType ==
    /\ sent \in 0 .. Bytes /\ end \in {"none", "eof", "reset", "netTimeout", "canceled"}
    /\ rcClosed \in BOOLEAN
    /\ loop \in {"reading", "sending", "exited"}
    /\ hand \in Results /\ read \in 0 .. sent
    /\ ch \in Seq(Results) /\ Len(ch) \in {0, 1}
    /\ pending \in Seq(Nat) /\ pendErr \in Errs
    /\ caller \in {"idle", "waiting", "closed"}
    /\ got \in Seq(Nat) /\ result \in Errs \cup {"timeout"}
    /\ body \in Bodies

\* What was read lies in four adjacent stretches: with the caller, left over, in
\* the channel, in readLoop's hand.
InStretches(g, p, c, h, n) ==
    \E i, j, k \in 0 .. n :
        /\ i <= j /\ j <= k
        /\ g = Stretch(0, i) /\ p = Stretch(i, j)
        /\ c = Stretch(j, k) /\ h = Stretch(k, n)

Stretches == InStretches(got, pending, InChannel, hand.buf, read)

BackendEnds == {"eof", "reset", "netTimeout", "canceled"}

\* The end of the body travels behind its last byte, and nothing follows it.
AtEnd(e) == e \in BackendEnds => read = sent /\ end = e

EndLast ==
    /\ loop # "sending" => hand = NoHand
    /\ AtEnd(hand.err)
    /\ ch # <<>> => /\ AtEnd(Head(ch).err)
                    /\ Head(ch).err \in BackendEnds => loop = "exited"
    /\ AtEnd(pendErr)
    /\ pendErr \in BackendEnds => loop = "exited" /\ ch = <<>>
    /\ AtEnd(result)
    /\ result \in BackendEnds => loop = "exited" /\ ch = <<>> /\ pending = <<>>
    /\ caller = "waiting" => pending = <<>> /\ result = "none"

BodyInv == SType /\ Stretches /\ EndLast
-----------------------------------------------------------------------------
(* Stretches.                                                              *)

LEMMA LeastProperties ==
  ASSUME NEW a \in Int, NEW b \in Int
  PROVE  /\ Least(a, b) \in Int /\ Least(a, b) <= a /\ Least(a, b) <= b
         /\ a <= b => Least(a, b) = a
         /\ b <= a => Least(a, b) = b
  BY DEF Least

LEMMA StretchType ==
  ASSUME NEW a \in Nat, NEW b \in Nat, a <= b
  PROVE  /\ Stretch(a, b) \in Seq(Nat) /\ Len(Stretch(a, b)) = b - a
         /\ \A i \in 1 .. b - a : Stretch(a, b)[i] = a + i
  BY DEF Stretch

LEMMA EmptyStretch ==
  ASSUME NEW a \in Nat
  PROVE  Stretch(a, a) = << >>
<1>1. Stretch(a, a) \in Seq(Nat) /\ Len(Stretch(a, a)) = 0
  BY StretchType
<1> QED
  BY <1>1, EmptySeq

\* A concatenation, element by element.
LEMMA Joined ==
  ASSUME NEW S, NEW s \in Seq(S), NEW t \in Seq(S), NEW u \in Seq(S),
         Len(u) = Len(s) + Len(t),
         \A i \in 1 .. Len(s) : u[i] = s[i],
         \A i \in 1 .. Len(t) : u[Len(s) + i] = t[i]
  PROVE  s \o t = u
<1> DEFINE a == Len(s)
           b == Len(t)
<1>1. /\ s \o t \in Seq(S) /\ Len(s \o t) = a + b
      /\ \A i \in 1 .. a + b : (s \o t)[i] = IF i <= a THEN s[i] ELSE t[i - a]
  BY ConcatProperties
<1>2. a \in Nat /\ b \in Nat
  BY LenProperties
<1>3. /\ \A i \in 1 .. a : u[i] = s[i]
      /\ \A i \in 1 .. b : u[a + i] = t[i]
  OBVIOUS
<1>4. Len(s \o t) = Len(u)
  BY <1>1
<1> HIDE DEF a, b
<1>5. ASSUME NEW i \in 1 .. a + b PROVE (s \o t)[i] = u[i]
  <2>1. CASE i <= a
    BY <1>1, <1>2, <1>3, <2>1
  <2>2. CASE ~(i <= a)
    <3>1. i - a \in 1 .. b /\ a + (i - a) = i
      BY <1>2, <2>2
    <3> QED
      BY <1>1, <1>3, <2>2, <3>1
  <2> QED
    BY <2>1, <2>2
<1> QED
  BY <1>1, <1>4, <1>5, SeqEqual

\* Adjacent stretches make one.
LEMMA Adjacent ==
  ASSUME NEW a \in Nat, NEW b \in Nat, NEW c \in Nat, a <= b, b <= c
  PROVE  Stretch(a, b) \o Stretch(b, c) = Stretch(a, c)
<1> DEFINE s == Stretch(a, b)
           t == Stretch(b, c)
           u == Stretch(a, c)
<1>1. s \in Seq(Nat) /\ Len(s) = b - a /\ \A i \in 1 .. b - a : s[i] = a + i
  BY StretchType
<1>2. t \in Seq(Nat) /\ Len(t) = c - b /\ \A i \in 1 .. c - b : t[i] = b + i
  BY StretchType
<1>3. u \in Seq(Nat) /\ Len(u) = c - a /\ \A i \in 1 .. c - a : u[i] = a + i
  BY StretchType
<1> HIDE DEF s, t, u
<1>4. Len(u) = Len(s) + Len(t)
  BY <1>1, <1>2, <1>3
<1>5. \A i \in 1 .. Len(s) : u[i] = s[i]
  BY <1>1, <1>3
<1>6. \A i \in 1 .. Len(t) : u[Len(s) + i] = t[i]
  <2> SUFFICES ASSUME NEW i \in 1 .. c - b PROVE u[b - a + i] = t[i]
    BY <1>1, <1>2
  <2>1. b - a + i \in 1 .. c - a /\ a + (b - a + i) = b + i
    OBVIOUS
  <2> QED
    BY <1>2, <1>3, <2>1
<1>7. s \o t = u
  BY <1>1, <1>2, <1>3, <1>4, <1>5, <1>6, Joined
<1> QED
  BY <1>7 DEF s, t, u

\* A stretch cut in two.
LEMMA CutStretch ==
  ASSUME NEW a \in Nat, NEW b \in Nat, a <= b, NEW n \in 0 .. b - a
  PROVE  /\ SubSeq(Stretch(a, b), 1, n) = Stretch(a, a + n)
         /\ SubSeq(Stretch(a, b), n + 1, b - a) = Stretch(a + n, b)
<1> DEFINE s == Stretch(a, b)
<1>1. s \in Seq(Nat) /\ Len(s) = b - a /\ \A i \in 1 .. b - a : s[i] = a + i
  BY StretchType
<1> HIDE DEF s
<1>2. SubSeq(s, 1, n) = Stretch(a, a + n)
  BY <1>1 DEF Stretch
<1>3. SubSeq(s, n + 1, b - a) = Stretch(a + n, b)
  BY <1>1 DEF Stretch
<1> QED
  BY <1>2, <1>3 DEF s
-----------------------------------------------------------------------------
(* The steps of the backend, of readLoop and of the caller.                *)

LEMMA InitBodyInv == StreamInit => BodyInv
<1> SUFFICES ASSUME StreamInit PROVE BodyInv
  OBVIOUS
<1> USE DEF StreamInit, Init, NoHand
<1>1. SType
  <2>1. hand \in Results
    BY DEF Results, Errs
  <2>2. ch \in Seq(Results) /\ Len(ch) = 0 /\ pending \in Seq(Nat) /\ got \in Seq(Nat)
    OBVIOUS
  <2>3. sent \in 0 .. Bytes /\ read \in 0 .. sent
    BY BodyAssumption
  <2> QED
    BY <2>1, <2>2, <2>3 DEF SType, Errs
<1>2. Stretches
  BY EmptyStretch DEF Stretches, InStretches, InChannel
<1>3. EndLast
  BY DEF EndLast, AtEnd, BackendEnds
<1> QED
  BY <1>1, <1>2, <1>3 DEF BodyInv

LEMMA SendBodyInv ==
  ASSUME BodyInv, body' = body, Send
  PROVE  BodyInv'
<1> USE DEF Send, reader
<1>1. SType'
  BY BodyAssumption DEF BodyInv, SType
<1>2. Stretches'
  BY DEF BodyInv, Stretches, InChannel
<1>3. EndLast'
  BY DEF BodyInv, EndLast, AtEnd, BackendEnds
<1> QED
  BY <1>1, <1>2, <1>3 DEF BodyInv

LEMMA EndBodyInv ==
  ASSUME BodyInv, body' = body, End
  PROVE  BodyInv'
<1> USE DEF End, reader
<1>1. SType'
  BY DEF BodyInv, SType
<1>2. Stretches'
  BY DEF BodyInv, Stretches, InChannel
<1>3. EndLast'
  BY DEF BodyInv, EndLast, AtEnd, BackendEnds
<1> QED
  BY <1>1, <1>2, <1>3 DEF BodyInv

\* Steps that touch neither the bytes nor the end.
LEMMA OtherBodyInv ==
  ASSUME BodyInv, UNCHANGED <<sent, loop, hand, read, ch, pending, pendErr, got, body>>,
         end' = end \/ end' = "canceled", end # "none" => end' = end,
         rcClosed' \in BOOLEAN,
         \/ caller' \in {"idle", "closed"} /\ result' \in {result, "timeout"}
         \/ caller' = caller /\ result' = result
         \/ caller' = "waiting" /\ pending = <<>> /\ result = "none" /\ result' = result
  PROVE  BodyInv'
<1>1. SType'
  BY DEF BodyInv, SType
<1>2. Stretches'
  BY DEF BodyInv, Stretches, InChannel
<1>3. EndLast'
  BY DEF BodyInv, EndLast, AtEnd, BackendEnds
<1> QED
  BY <1>1, <1>2, <1>3 DEF BodyInv

LEMMA LoopReadBodyInv ==
  ASSUME BodyInv, body' = body, LoopRead
  PROVE  BodyInv'
<1>0. SType /\ Stretches /\ EndLast
  BY DEF BodyInv
<1>1. /\ loop = "reading" /\ loop' = "sending" /\ hand = NoHand
      /\ UNCHANGED <<sent, end, rcClosed, ch, pending, pendErr, caller, got, result, body>>
  BY <1>0 DEF LoopRead, upstream, EndLast
<1>2. PICK i, j, k \in 0 .. read :
        /\ i <= j /\ j <= k
        /\ got = Stretch(0, i) /\ pending = Stretch(i, j)
        /\ InChannel = Stretch(j, k) /\ hand.buf = Stretch(k, read)
  BY <1>0 DEF Stretches, InStretches
<1>3. read \in Nat /\ sent \in Nat /\ k = read
  <2>1. read \in Nat /\ sent \in Nat
    BY <1>0, BodyAssumption DEF SType
  <2>2. Len(Stretch(k, read)) = read - k
    BY <2>1, StretchType
  <2>3. Len(hand.buf) = 0
    BY <1>1 DEF NoHand
  <2> QED
    BY <1>2, <2>1, <2>2, <2>3
<1>4. PICK m \in read .. sent : /\ read' = m /\ hand'.buf = Stretch(read, m)
                                /\ hand' \in [buf : {Stretch(read, m)}, err : Errs]
                                /\ hand'.err \in BackendEnds => m = sent /\ end = hand'.err
  <2>1. CASE ~rcClosed /\ read < sent /\
             LET n == Least(sent - read, Buf) IN
             /\ hand' \in [buf : {[l \in 1 .. n |-> read + l]},
                           err : {"none"} \cup (IF read + n = sent THEN {end} ELSE {})]
             /\ read' = read + n
    <3> DEFINE n == Least(sent - read, Buf)
    <3>1. n \in 1 .. sent - read
      BY <1>3, <2>1, BodyAssumption DEF Least
    <3>2. /\ hand' \in [buf : {[l \in 1 .. n |-> read + l]},
                        err : {"none"} \cup (IF read + n = sent THEN {end} ELSE {})]
          /\ read' = read + n
      BY <2>1
    <3> HIDE DEF n
    <3>3. [l \in 1 .. n |-> read + l] = Stretch(read, read + n)
      BY <1>3, <3>1 DEF Stretch
    <3>4. read + n \in read .. sent
      BY <1>3, <3>1
    <3>5. /\ hand' \in [buf : {Stretch(read, read + n)}, err : Errs]
          /\ hand'.err \in BackendEnds => read + n = sent /\ end = hand'.err
      BY <1>0, <3>2, <3>3 DEF SType, Errs, BackendEnds
    <3> QED
      BY <3>2, <3>4, <3>5
  <2>2. CASE /\ ~rcClosed /\ read = sent /\ end # "none"
             /\ hand' = [buf |-> <<>>, err |-> end] /\ UNCHANGED read
    BY <2>2, <1>0, <1>3, EmptyStretch DEF SType, Errs, BackendEnds
  <2>3. CASE rcClosed /\ hand' = [buf |-> <<>>, err |-> "closed"] /\ UNCHANGED read
    BY <2>3, <1>0, <1>3, EmptyStretch DEF SType, Errs, BackendEnds
  <2> QED
    BY <2>1, <2>2, <2>3 DEF LoopRead
<1>5. m \in Nat /\ Stretch(read, m) \in Seq(Nat)
  BY <1>3, <1>4, StretchType
<1>6. SType'
  BY <1>0, <1>1, <1>3, <1>4, <1>5 DEF SType, Results
<1>7. Stretches'
  <2>1. InChannel' = InChannel
    BY <1>1 DEF InChannel
  <2>2. i \in 0 .. m /\ j \in 0 .. m /\ read \in 0 .. m /\ j <= read
    BY <1>2, <1>3, <1>4
  <2> QED
    BY <1>1, <1>2, <1>3, <1>4, <2>1, <2>2 DEF Stretches, InStretches
<1>8. EndLast'
  BY <1>0, <1>1, <1>3, <1>4 DEF EndLast, AtEnd, BackendEnds
<1> QED
  BY <1>6, <1>7, <1>8 DEF BodyInv

LEMMA LoopSendBodyInv ==
  ASSUME BodyInv, body' = body, LoopSend
  PROVE  BodyInv'
<1>0. SType /\ Stretches /\ EndLast
  BY DEF BodyInv
<1>1. /\ loop = "sending" /\ ch = <<>> /\ ch' = <<hand>> /\ hand' = NoHand
      /\ loop' = IF hand.err = "none" THEN "reading" ELSE "exited"
      /\ UNCHANGED <<sent, end, rcClosed, read, pending, pendErr, caller, got, result, body>>
  BY DEF LoopSend, upstream
<1>2. /\ ch' \in Seq(Results) /\ Len(ch') = 1 /\ ch' # <<>>
      /\ Head(ch') = hand
  BY <1>0, <1>1 DEF SType
<1>3. NoHand \in Results
  BY DEF NoHand, Errs, Results
<1>4. SType'
  BY <1>0, <1>1, <1>2, <1>3 DEF SType
<1>5. PICK i, j, k \in 0 .. read :
        /\ i <= j /\ j <= k
        /\ got = Stretch(0, i) /\ pending = Stretch(i, j)
        /\ InChannel = Stretch(j, k) /\ hand.buf = Stretch(k, read)
  BY <1>0 DEF Stretches, InStretches
<1>6. read \in Nat /\ k \in Nat /\ j = k
  <2>1. read \in Nat /\ j \in Nat /\ k \in Nat
    BY <1>0, <1>5, BodyAssumption DEF SType
  <2>2. Len(Stretch(j, k)) = k - j
    BY <2>1, <1>5, StretchType
  <2>3. Len(InChannel) = 0
    BY <1>1 DEF InChannel
  <2> QED
    BY <1>5, <2>1, <2>2, <2>3
<1>7. Stretches'
  <2>1. InChannel' = Stretch(k, read) /\ hand'.buf = Stretch(read, read)
    BY <1>1, <1>2, <1>5, <1>6, EmptyStretch DEF InChannel, NoHand
  <2>2. read \in 0 .. read /\ k <= read
    BY <1>5, <1>6
  <2> QED
    BY <1>1, <1>5, <1>6, <2>1, <2>2 DEF Stretches, InStretches
<1>8. EndLast'
  BY <1>0, <1>1, <1>2 DEF EndLast, AtEnd, BackendEnds, NoHand
<1> QED
  BY <1>4, <1>7, <1>8 DEF BodyInv

\* A Read gives the caller the first part of a stretch and keeps the rest.
LEMMA DeliverStretch ==
  ASSUME NEW a \in Nat, NEW b \in Nat, a <= b, NEW e \in Errs,
         got = Stretch(0, a), Deliver(Stretch(a, b), e)
  PROVE  \E c \in a .. b : /\ got' = Stretch(0, c) /\ pending' = Stretch(c, b)
                           /\ \/ c < b /\ pendErr' = e /\ result' = result
                              \/ c = b /\ pendErr' = "none" /\ result' = e
<1> DEFINE n == Least(b - a, PSize)
<1>1. n \in 0 .. b - a
  BY BodyAssumption DEF Least
<1>2. Len(Stretch(a, b)) = b - a
  BY StretchType
<1>3. /\ got' = got \o SubSeq(Stretch(a, b), 1, n)
      /\ pending' = SubSeq(Stretch(a, b), n + 1, b - a)
      /\ IF n < b - a THEN pendErr' = e /\ UNCHANGED result
                      ELSE pendErr' = "none" /\ result' = e
  BY <1>2 DEF Deliver
<1> HIDE DEF n
<1>4. got' = Stretch(0, a + n) /\ pending' = Stretch(a + n, b)
  <2>1. got' = Stretch(0, a) \o Stretch(a, a + n) /\ pending' = Stretch(a + n, b)
    BY <1>1, <1>3, CutStretch
  <2>2. a + n \in Nat /\ 0 \in Nat /\ 0 <= a /\ a <= a + n
    BY <1>1
  <2>3. Stretch(0, a) \o Stretch(a, a + n) = Stretch(0, a + n)
    BY <2>2, Adjacent
  <2> QED
    BY <2>1, <2>3
<1>5. a + n \in a .. b /\ (n < b - a <=> a + n < b) /\ (~(n < b - a) => a + n = b)
  BY <1>1
<1> QED
  BY <1>3, <1>4, <1>5

LEMMA ReadPendingBodyInv ==
  ASSUME BodyInv, body' = body, ReadPending
  PROVE  BodyInv'
<1>0. SType /\ Stretches /\ EndLast
  BY DEF BodyInv
<1>1. /\ caller = "idle" /\ result = "none" /\ Deliver(pending, pendErr)
      /\ UNCHANGED <<sent, end, rcClosed, loop, hand, read, ch, caller, body>>
  BY DEF ReadPending, upstream, reader
<1>2. PICK i, j, k \in 0 .. read :
        /\ i <= j /\ j <= k
        /\ got = Stretch(0, i) /\ pending = Stretch(i, j)
        /\ InChannel = Stretch(j, k) /\ hand.buf = Stretch(k, read)
  BY <1>0 DEF Stretches, InStretches
<1>3. read \in Nat /\ i \in Nat /\ j \in Nat /\ pendErr \in Errs
  BY <1>0, <1>2, BodyAssumption DEF SType
<1>4. PICK c \in i .. j : /\ got' = Stretch(0, c) /\ pending' = Stretch(c, j)
                          /\ \/ c < j /\ pendErr' = pendErr /\ result' = result
                             \/ c = j /\ pendErr' = "none" /\ result' = pendErr
  BY <1>1, <1>2, <1>3, DeliverStretch
<1>5. c \in Nat /\ c \in 0 .. read /\ c <= j
  BY <1>2, <1>3, <1>4
<1>6. got' \in Seq(Nat) /\ pending' \in Seq(Nat)
  BY <1>3, <1>4, <1>5, StretchType
<1>7. SType'
  BY <1>0, <1>1, <1>3, <1>4, <1>6 DEF SType, Errs
<1>8. Stretches'
  <2>1. InChannel' = InChannel
    BY <1>1 DEF InChannel
  <2> QED
    BY <1>1, <1>2, <1>4, <1>5, <2>1 DEF Stretches, InStretches
<1>9. c = j => pending' = <<>>
  BY <1>3, <1>4, EmptyStretch
<1>10. EndLast'
  BY <1>0, <1>1, <1>4, <1>9 DEF EndLast, AtEnd, BackendEnds
<1> QED
  BY <1>7, <1>8, <1>10 DEF BodyInv

LEMMA ReceiveBodyInv ==
  ASSUME BodyInv, body' = body, Receive
  PROVE  BodyInv'
<1>0. SType /\ Stretches /\ EndLast
  BY DEF BodyInv
<1>1. /\ caller = "waiting" /\ ch # <<>> /\ Deliver(Head(ch).buf, Head(ch).err)
      /\ ch' = <<>> /\ caller' = "idle" /\ InChannel = Head(ch).buf
      /\ UNCHANGED <<sent, end, rcClosed, loop, hand, read, body>>
  BY DEF Receive, upstream, reader, InChannel
<1>2. PICK i, j, k \in 0 .. read :
        /\ i <= j /\ j <= k
        /\ got = Stretch(0, i) /\ pending = Stretch(i, j)
        /\ InChannel = Stretch(j, k) /\ hand.buf = Stretch(k, read)
  BY <1>0 DEF Stretches, InStretches
<1>3. /\ read \in Nat /\ i \in Nat /\ j \in Nat /\ k \in Nat /\ Head(ch).err \in Errs
      /\ i = j
  <2>1. read \in Nat /\ i \in Nat /\ j \in Nat /\ k \in Nat
    BY <1>0, <1>2, BodyAssumption DEF SType
  <2>2. Head(ch) \in Results
    BY <1>0, <1>1, HeadTailProperties DEF SType
  <2>3. Len(pending) = j - i
    BY <2>1, <1>2, StretchType
  <2>4. Len(pending) = 0
    BY <1>0, <1>1 DEF EndLast
  <2> QED
    BY <2>1, <2>2, <2>3, <2>4 DEF Results
<1>4. PICK c \in j .. k : /\ got' = Stretch(0, c) /\ pending' = Stretch(c, k)
                          /\ \/ c < k /\ pendErr' = Head(ch).err /\ result' = result
                             \/ c = k /\ pendErr' = "none" /\ result' = Head(ch).err
  BY <1>1, <1>2, <1>3, DeliverStretch
<1>5. c \in Nat /\ c \in 0 .. read /\ c <= k
  BY <1>2, <1>3, <1>4
<1>6. got' \in Seq(Nat) /\ pending' \in Seq(Nat)
  BY <1>3, <1>4, <1>5, StretchType
<1>7. SType'
  <2>1. ch' \in Seq(Results) /\ Len(ch') = 0
    BY <1>1
  <2> QED
    BY <1>0, <1>1, <1>3, <1>4, <1>6, <2>1 DEF SType, Errs
<1>8. Stretches'
  <2>1. InChannel' = Stretch(k, k)
    BY <1>1, <1>3, EmptyStretch DEF InChannel
  <2> QED
    BY <1>1, <1>2, <1>3, <1>4, <1>5, <2>1 DEF Stretches, InStretches
<1>9. c = k => pending' = <<>>
  BY <1>3, <1>4, EmptyStretch
<1>10. EndLast'
  BY <1>0, <1>1, <1>4, <1>9 DEF EndLast, AtEnd, BackendEnds
<1> QED
  BY <1>7, <1>8, <1>10 DEF BodyInv

LEMMA NextBodyInv == BodyInv /\ [StreamNext]_all => BodyInv'
<1> SUFFICES ASSUME BodyInv, [StreamNext]_all PROVE BodyInv'
  OBVIOUS
<1>0. result \in Errs \cup {"timeout"} /\ rcClosed \in BOOLEAN /\ caller \in {"idle", "waiting", "closed"}
  BY DEF BodyInv, SType
<1>1. CASE UNCHANGED all
  BY <1>0, <1>1, OtherBodyInv DEF all, vars, streamVars
<1>2. CASE Backend
  <2>1. CASE Send /\ UNCHANGED streamVars
    BY <2>1, SendBodyInv DEF streamVars
  <2>2. CASE End /\ UNCHANGED streamVars
    BY <2>2, EndBodyInv DEF streamVars
  <2>3. CASE Tick /\ UNCHANGED streamVars
    BY <1>0, <2>3, OtherBodyInv DEF Tick, upstream, reader, streamVars
  <2> QED
    BY <1>2, <2>1, <2>2, <2>3 DEF Backend
<1>3. CASE ReadLoop
  BY <1>3, LoopReadBodyInv, LoopSendBodyInv DEF ReadLoop, Loop, streamVars
<1>4. CASE InterceptedRead
  <2>1. body' = body
    BY <1>4 DEF InterceptedRead, Intercept
  <2>2. CASE ReadPending
    BY <2>1, <2>2, ReadPendingBodyInv
  <2>3. CASE Receive
    BY <2>1, <2>3, ReceiveBodyInv
  <2>4. CASE GiveUp
    BY <2>1, <2>4, OtherBodyInv DEF GiveUp, upstream, reader
  <2> QED
    BY <1>4, <2>2, <2>3, <2>4 DEF InterceptedRead
<1>5. CASE StartRead
  BY <1>0, <1>5, OtherBodyInv DEF StartRead, ReadWait, upstream, reader, streamVars
<1>6. CASE FirstClose
  BY <1>0, <1>6, OtherBodyInv DEF FirstClose, Close, upstream, reader
<1>7. CASE CloseAgain
  BY <1>0, <1>7, OtherBodyInv DEF CloseAgain, vars
<1>8. CASE ClientLeaves
  BY <1>0, <1>8, OtherBodyInv DEF ClientLeaves, reader
<1> QED
  BY <1>1, <1>2, <1>3, <1>4, <1>5, <1>6, <1>7, <1>8 DEF StreamNext, Client

LEMMA AlwaysBodyInv == StreamSpec => []BodyInv
  BY InitBodyInv, NextBodyInv, PTL DEF StreamSpec

\* An end of the backend is reported when the caller has all the bytes.
LEMMA ResultLast ==
  BodyInv => (result \in BackendEnds => Len(got) = sent /\ result = end)
<1> SUFFICES ASSUME BodyInv, result \in BackendEnds PROVE Len(got) = sent /\ result = end
  OBVIOUS
<1>1. PICK i, j, k \in 0 .. read :
        /\ i <= j /\ j <= k
        /\ got = Stretch(0, i) /\ pending = Stretch(i, j)
        /\ InChannel = Stretch(j, k) /\ hand.buf = Stretch(k, read)
  BY DEF BodyInv, Stretches, InStretches
<1>2. /\ read \in Nat /\ i \in Nat /\ j \in Nat /\ k \in Nat /\ 0 \in Nat
      /\ 0 <= i /\ k <= read
  BY <1>1, BodyAssumption DEF BodyInv, SType
<1>3. read = sent /\ result = end /\ pending = <<>> /\ ch = <<>> /\ hand = NoHand
  BY DEF BodyInv, EndLast, AtEnd
<1>4. Len(pending) = 0 /\ Len(InChannel) = 0 /\ Len(hand.buf) = 0
  BY <1>3 DEF InChannel, NoHand
<1>5. Len(pending) = j - i /\ Len(InChannel) = k - j /\ Len(hand.buf) = read - k
  BY <1>1, <1>2, StretchType
<1>6. Len(got) = i
  BY <1>1, <1>2, StretchType
<1> QED
  BY <1>2, <1>3, <1>4, <1>5, <1>6

\* For every length of the body, of readLoop's buffer and of the caller's, and for
\* every interleaving of readLoop, the timer, Read and Close: no byte is lost,
\* repeated or overtaken, and an end is reported only behind the last byte.
THEOREM InOrderHolds == StreamSpec => []InOrder
<1>1. BodyInv => InOrder
  <2> SUFFICES ASSUME BodyInv PROVE InOrder
    OBVIOUS
  <2>1. PICK i, j, k \in 0 .. read :
          /\ i <= j /\ j <= k
          /\ got = Stretch(0, i) /\ pending = Stretch(i, j)
          /\ InChannel = Stretch(j, k) /\ hand.buf = Stretch(k, read)
    BY DEF BodyInv, Stretches, InStretches
  <2>2. /\ read \in Nat /\ i \in Nat /\ j \in Nat /\ k \in Nat /\ 0 \in Nat
        /\ 0 <= i /\ 0 <= j /\ 0 <= k /\ k <= read
    BY <2>1, BodyAssumption DEF BodyInv, SType
  <2>3. Stretch(0, i) \o Stretch(i, j) = Stretch(0, j)
    BY <2>1, <2>2, Adjacent
  <2>4. Stretch(0, j) \o Stretch(j, k) = Stretch(0, k)
    BY <2>1, <2>2, Adjacent
  <2>5. Stretch(0, k) \o Stretch(k, read) = Stretch(0, read)
    BY <2>2, Adjacent
  <2>6. Stretch(0, read) = [l \in 1 .. read |-> l]
    BY <2>2 DEF Stretch
  <2>7. ASSUME result \in {"eof", "reset", "netTimeout"} PROVE Len(got) = sent
    BY <2>7, ResultLast DEF BackendEnds
  <2> QED
    BY <2>1, <2>3, <2>4, <2>5, <2>6, <2>7 DEF InOrder
<1> QED
  BY <1>1, AlwaysBodyInv, PTL
-----------------------------------------------------------------------------
(* The copy for the capture.                                               *)

Chunk == Events \cup {NL}

\* The characters b[a + 1], ..., b[c].
Part(b, a, c) == [i \in 1 .. c - a |-> b[a + i]]

LEMMA PartType ==
  ASSUME NEW b \in [1 .. Bytes -> Chunk], NEW a \in Nat, NEW c \in Nat, a <= c, c <= Bytes
  PROVE  /\ Part(b, a, c) \in Seq(Chunk) /\ Len(Part(b, a, c)) = c - a
         /\ \A i \in 1 .. c - a : Part(b, a, c)[i] = b[a + i]
  BY BodyAssumption DEF Part

LEMMA PartExtended ==
  ASSUME NEW b \in [1 .. Bytes -> Chunk], NEW a \in Nat, NEW c \in Nat, a <= c, c <= Bytes,
         NEW n \in 0 .. c - a
  PROVE  Part(b, 0, a) \o SubSeq(Part(b, a, c), 1, n) = Part(b, 0, a + n)
<1> DEFINE e == a + n
           s == Part(b, 0, a)
           t == Part(b, a, e)
           u == Part(b, 0, e)
<1>0. 0 \in Nat /\ 0 <= a /\ a <= Bytes /\ a - 0 = a
  BY BodyAssumption
<1>1. e \in Nat /\ 0 <= e /\ a <= e /\ e <= Bytes /\ e - 0 = e /\ e - a = n
  BY BodyAssumption
<1>2. SubSeq(Part(b, a, c), 1, n) = t
  <2> DEFINE v == Part(b, a, c)
  <2>1. v \in Seq(Chunk) /\ Len(v) = c - a /\ \A i \in 1 .. c - a : v[i] = b[a + i]
    BY PartType
  <2> HIDE DEF v, e
  <2>2. SubSeq(v, 1, n) = [i \in 1 .. n |-> b[a + i]]
    BY <2>1
  <2> QED
    BY <1>1, <2>2 DEF v, Part
<1> HIDE DEF e
<1>3. s \in Seq(Chunk) /\ Len(s) = a - 0 /\ \A i \in 1 .. a - 0 : s[i] = b[0 + i]
  BY <1>0, PartType
<1>4. t \in Seq(Chunk) /\ Len(t) = e - a /\ \A i \in 1 .. e - a : t[i] = b[a + i]
  BY <1>1, PartType
<1>5. u \in Seq(Chunk) /\ Len(u) = e - 0 /\ \A i \in 1 .. e - 0 : u[i] = b[0 + i]
  BY <1>0, <1>1, PartType
<1> HIDE DEF s, t, u
<1>6. Len(u) = Len(s) + Len(t)
  BY <1>1, <1>3, <1>4, <1>5
<1>7. \A i \in 1 .. Len(s) : u[i] = s[i]
  BY <1>1, <1>3, <1>5
<1>8. \A i \in 1 .. Len(t) : u[Len(s) + i] = t[i]
  <2> SUFFICES ASSUME NEW i \in 1 .. e - a PROVE u[a + i] = t[i]
    BY <1>0, <1>3, <1>4
  <2>1. a + i \in 1 .. e - 0 /\ 0 + (a + i) = a + i
    BY <1>1
  <2> QED
    BY <1>4, <1>5, <2>1
<1>9. s \o t = u
  BY <1>3, <1>4, <1>5, <1>6, <1>7, <1>8, Joined
<1> QED
  BY <1>2, <1>9 DEF s, t, u, e

\* The client's bytes are the beginning of the body.
LEMMA GotPart ==
  ASSUME BodyInv
  PROVE  /\ Len(got) \in Nat /\ Len(got) <= Bytes /\ got = Stretch(0, Len(got))
         /\ body \in [1 .. Bytes -> Chunk]
         /\ Received = Part(body, 0, Len(got))
<1>1. PICK i, j, k \in 0 .. read : got = Stretch(0, i)
  BY DEF BodyInv, Stretches, InStretches
<1>2. i \in Nat /\ 0 \in Nat /\ 0 <= i /\ i <= Bytes /\ i - 0 = i
  BY <1>1, BodyAssumption DEF BodyInv, SType
<1>3. Len(got) = i
  BY <1>1, <1>2, StretchType
<1>4. DOMAIN got = 1 .. i /\ \A l \in 1 .. i : got[l] = l
  BY <1>1, <1>2 DEF Stretch
<1>5. Received = Part(body, 0, i)
  BY <1>2, <1>4 DEF Received, Chars, Part
<1>6. body \in [1 .. Bytes -> Chunk]
  BY StreamAssumption DEF BodyInv, SType, Chunk
<1> QED
  BY <1>1, <1>2, <1>3, <1>5, <1>6

\* Read only adds to what the caller has, and no more than the caller has room for.
LEMMA GotGrows ==
  ASSUME BodyInv, ReadPending \/ Receive \/ GiveUp
  PROVE  Len(got) <= Len(got') /\ Len(got') <= Len(got) + PSize
<1>0. SType
  BY DEF BodyInv
<1>1. ASSUME NEW b \in Seq(Nat), NEW e, Deliver(b, e)
      PROVE  Len(got) <= Len(got') /\ Len(got') <= Len(got) + PSize
  <2> DEFINE n == Least(Len(b), PSize)
  <2>1. n \in 0 .. Len(b) /\ n <= PSize
    BY BodyAssumption DEF Least
  <2>2. got' = got \o SubSeq(b, 1, n)
    BY <1>1 DEF Deliver
  <2> HIDE DEF n
  <2>3. SubSeq(b, 1, n) \in Seq(Nat) /\ got \in Seq(Nat)
    <3>1. n \in Int /\ \A i \in 1 .. n : b[i] \in Nat
      BY <2>1, LenProperties
    <3>2. SubSeq(b, 1, n) \in Seq(Nat)
      BY <3>1, SubSeqProperties
    <3> QED
      BY <1>0, <3>2 DEF SType
  <2>4. Len(SubSeq(b, 1, n)) = n
    BY <2>1
  <2> QED
    BY <2>1, <2>2, <2>3, <2>4, BodyAssumption
<1>2. CASE ReadPending
  BY <1>0, <1>1, <1>2 DEF ReadPending, SType
<1>3. CASE Receive
  <2>1. Head(ch) \in Results
    BY <1>0, <1>3, HeadTailProperties DEF SType, Receive
  <2> QED
    BY <1>1, <1>3, <2>1 DEF Receive, Results
<1>4. CASE GiveUp
  BY <1>0, <1>4, BodyAssumption DEF GiveUp, SType
<1> QED
  BY <1>2, <1>3, <1>4

\* What Intercept hands on is the part of the body that this read added.
LEMMA FedPart ==
  ASSUME BodyInv, BodyInv', InterceptedRead
  PROVE  /\ Chars(SubSeq(got', Len(got) + 1, Len(got'))) = Part(body, Len(got), Len(got'))
         /\ Len(got) \in Nat /\ Len(got') \in Nat /\ Len(got) <= Len(got')
         /\ Len(got') <= Bytes /\ body \in [1 .. Bytes -> Chunk] /\ body' = body
<1> DEFINE a == Len(got)
           c == Len(got')
           data == Chars(SubSeq(got', Len(got) + 1, Len(got')))
<1>1. body' = body /\ a <= c
  BY GotGrows DEF InterceptedRead, Intercept
<1>2. /\ a \in Nat /\ a <= Bytes /\ body \in [1 .. Bytes -> Chunk]
      /\ c \in Nat /\ c <= Bytes /\ got' = Stretch(0, c)
  <2>1. c \in Nat /\ c <= Bytes /\ got' = Stretch(0, c)
    <3>1. PICK i, j, k \in 0 .. read' : got' = Stretch(0, i)
      BY DEF BodyInv, Stretches, InStretches
    <3>2. i \in Nat /\ 0 \in Nat /\ 0 <= i /\ i <= Bytes /\ i - 0 = i
      BY <3>1, BodyAssumption DEF BodyInv, SType
    <3> QED
      BY <3>1, <3>2, StretchType
  <2> QED
    BY <2>1, GotPart
<1>3. data = Part(body, a, c)
  <2> DEFINE fresh == SubSeq(got', a + 1, c)
  <2>1. fresh = Stretch(a, c)
    <3>1. 0 \in Nat /\ 0 <= c /\ a \in 0 .. c - 0 /\ c - 0 = c /\ 0 + a = a
      BY <1>1, <1>2
    <3>2. SubSeq(Stretch(0, c), a + 1, c - 0) = Stretch(0 + a, c)
      BY <1>2, <3>1, CutStretch
    <3> QED
      BY <1>2, <3>1, <3>2
  <2>2. DOMAIN fresh = 1 .. c - a /\ \A i \in 1 .. c - a : fresh[i] = a + i
    BY <2>1, <1>1, <1>2 DEF Stretch
  <2> HIDE DEF fresh
  <2>3. Chars(fresh) = Part(body, a, c)
    BY <2>2 DEF Chars, Part
  <2> QED
    BY <2>3 DEF fresh
<1> QED
  BY <1>1, <1>2, <1>3

\* TeePrefix, with the characters named by their place in the body.
TeeAt ==
    /\ tee = Part(body, 0, Least(MaxResponse, Len(got)))
    /\ cut = (Len(got) > MaxResponse)

LEMMA TeeAtPrefix == ASSUME BodyInv PROVE TeeAt <=> TeePrefix
<1> DEFINE n == Least(MaxResponse, Len(got))
<1>1. /\ Len(got) \in Nat /\ 0 \in Nat /\ 0 <= Len(got) /\ Len(got) <= Bytes
      /\ body \in [1 .. Bytes -> Chunk] /\ Received = Part(body, 0, Len(got))
  BY GotPart
<1>2. /\ Received \in Seq(Chunk) /\ Len(Received) = Len(got)
      /\ \A i \in 1 .. Len(got) : Received[i] = body[0 + i]
  <2>1. /\ Part(body, 0, Len(got)) \in Seq(Chunk) /\ Len(Part(body, 0, Len(got))) = Len(got) - 0
        /\ \A i \in 1 .. Len(got) - 0 : Part(body, 0, Len(got))[i] = body[0 + i]
    BY <1>1, PartType
  <2>2. Len(got) - 0 = Len(got)
    BY <1>1
  <2> QED
    BY <1>1, <2>1, <2>2, Zenon
<1>3. n \in 0 .. Len(got)
  BY <1>1, StreamAssumption DEF Least
<1>4. Least(MaxResponse, Len(Received)) = n
  BY <1>2
<1> HIDE DEF n
<1>5. SubSeq(Received, 1, n) = [i \in 1 .. n |-> body[0 + i]]
  BY <1>1, <1>2, <1>3
<1>6. SubSeq(Received, 1, n) = Part(body, 0, n)
  BY <1>3, <1>5 DEF Part
<1> QED
  BY <1>2, <1>4, <1>6 DEF TeeAt, TeePrefix, n

LEMMA NextTee == BodyInv /\ BodyInv' /\ TeeAt /\ [StreamNext]_all => TeeAt'
<1> SUFFICES ASSUME BodyInv, BodyInv', TeeAt, [StreamNext]_all PROVE TeeAt'
  OBVIOUS
<1>1. ASSUME UNCHANGED <<got, body, tee, cut>> PROVE TeeAt'
  BY <1>1 DEF TeeAt
<1>2. CASE InterceptedRead
  <2> DEFINE a == Len(got)
             c == Len(got')
             data == Chars(SubSeq(got', Len(got) + 1, Len(got')))
  <2>1. CappedWrite(data) /\ body' = body /\ a <= c
    BY <1>2, FedPart DEF InterceptedRead, Intercept
  <2>2. a \in Nat /\ a <= Bytes /\ body \in [1 .. Bytes -> Chunk] /\ c \in Nat /\ c <= Bytes
    BY <1>2, FedPart, BodyAssumption
  <2>3. data = Part(body, a, c)
    BY <1>2, FedPart
  <2>4. Len(data) = c - a
    BY <2>1, <2>2, <2>3, PartType
  <2> HIDE DEF data
  <2>5. MaxResponse \in Nat
    BY StreamAssumption
  <2>6. CASE cut
    <3>1. a > MaxResponse /\ tee' = tee /\ cut' = cut
      BY <2>1, <2>6 DEF TeeAt, CappedWrite
    <3>2. Least(MaxResponse, c) = MaxResponse /\ Least(MaxResponse, a) = MaxResponse
          /\ c > MaxResponse
      BY <2>1, <2>2, <2>5, <3>1 DEF Least
    <3> QED
      BY <2>1, <2>6, <3>1, <3>2 DEF TeeAt
  <2>7. CASE ~cut
    <3> DEFINE n == Least(MaxResponse - a, c - a)
    <3>1. ~(a > MaxResponse)
      BY <2>7 DEF TeeAt
    <3>2. Least(MaxResponse, a) = a /\ n \in 0 .. c - a /\ a + n = Least(MaxResponse, c)
          /\ (c - a > MaxResponse - a <=> c > MaxResponse)
      BY <2>1, <2>2, <2>5, <3>1 DEF Least
    <3>3. tee = Part(body, 0, a)
      BY <3>2 DEF TeeAt
    <3>4. Len(tee) = a
      <4>1. 0 \in Nat /\ 0 <= a /\ a - 0 = a
        BY <2>2
      <4> QED
        BY <3>3, <4>1, <2>2, PartType
    <3>5. tee' = tee \o SubSeq(data, 1, n) /\ cut' = (c - a > MaxResponse - a)
      BY <2>1, <2>4, <2>7, <3>4 DEF CappedWrite
    <3> HIDE DEF n
    <3>6. tee' = Part(body, 0, a + n)
      BY <2>1, <2>2, <2>3, <3>2, <3>3, <3>5, PartExtended
    <3>7. (c - a > MaxResponse - a) = (c > MaxResponse)
      BY <3>2
    <3> QED
      BY <2>1, <3>2, <3>5, <3>6, <3>7, Zenon DEF TeeAt
  <2> QED
    BY <2>6, <2>7
<1>3. CASE UNCHANGED all
  BY <1>1, <1>3 DEF all, vars, streamVars
<1>4. CASE Backend
  BY <1>1, <1>4 DEF Backend, Send, End, Tick, streamVars
<1>5. CASE ReadLoop
  BY <1>1, <1>5 DEF ReadLoop, Loop, LoopRead, LoopSend, streamVars
<1>6. CASE StartRead \/ FirstClose
  BY <1>1, <1>6 DEF StartRead, ReadWait, FirstClose, Close, streamVars
<1>7. CASE CloseAgain \/ ClientLeaves
  BY <1>1, <1>7 DEF CloseAgain, ClientLeaves, vars
<1> QED
  BY <1>2, <1>3, <1>4, <1>5, <1>6, <1>7 DEF StreamNext, Client

\* For every cap, and however the bytes were cut into reads, CappedBuffer holds
\* the first MaxResponse bytes the client was given, and says when there were more.
THEOREM TeePrefixHolds == StreamSpec => []TeePrefix
<1>1. StreamInit => TeeAt
  <2> SUFFICES ASSUME StreamInit PROVE TeeAt
    OBVIOUS
  <2>1. Least(MaxResponse, Len(got)) = 0 /\ ~(Len(got) > MaxResponse)
    BY StreamAssumption DEF StreamInit, Init, Least
  <2>2. Part(body, 0, 0) = <<>>
    BY DEF Part
  <2>3. (Len(got) > MaxResponse) = FALSE
    BY <2>1
  <2> QED
    BY <2>1, <2>2, <2>3, Zenon DEF TeeAt, StreamInit
<1>2. BodyInv /\ TeeAt => TeePrefix
  BY TeeAtPrefix
<1>3. StreamSpec => []TeeAt
  BY <1>1, AlwaysBodyInv, NextTee, PTL DEF StreamSpec
<1> QED
  BY <1>2, <1>3, AlwaysBodyInv, PTL

\* What the client has been given is, byte for byte, the beginning of the body, and
\* the whole of what the backend sent once Read reports its end.
ClientPrefix ==
    /\ Received = SubSeq(body, 1, Len(got))
    /\ result \in {"eof", "reset", "netTimeout"} => Received = SubSeq(body, 1, sent)

\* The wrapper and the idle timeout change nothing in the stream.
THEOREM ClientPrefixHolds == StreamSpec => []ClientPrefix
<1>1. BodyInv /\ InOrder => ClientPrefix
  <2> SUFFICES ASSUME BodyInv, InOrder PROVE ClientPrefix
    OBVIOUS
  <2> DEFINE n == Len(got)
  <2>1. n \in 0 .. Bytes /\ body \in [1 .. Bytes -> Chunk] /\ Received = Part(body, 0, n)
    BY GotPart, BodyAssumption
  <2> HIDE DEF n
  <2>2. SubSeq(body, 1, n) = [i \in 1 .. n |-> body[i]]
    BY <2>1
  <2>3. Part(body, 0, n) = [i \in 1 .. n |-> body[i]]
    BY <2>1 DEF Part
  <2> QED
    BY <2>1, <2>2, <2>3 DEF ClientPrefix, InOrder, n
<1> QED
  BY <1>1, AlwaysBodyInv, InOrderHolds, PTL
-----------------------------------------------------------------------------
(* The loop of feed.  Induction over the bytes it scans takes the least    *)
(* number of bytes for which the claim fails.                              *)

\* Every set of naturals that is not empty has a least member.
LEMMA HasLeast ==
  ASSUME NEW S \in SUBSET Nat, S # {}
  PROVE  \E x \in S : \A y \in S : x <= y
<1> DEFINE R == {s \in Nat \X Nat : s[1] < s[2]}
<1>1. IsWellFoundedOn(R, Nat)
  BY NatLessThanWellFounded DEF OpToRel
<1>2. PICK x \in S : \A y \in S : ~(<<y, x>> \in R)
  <2> HIDE DEF R
  <2> QED
    BY <1>1, WFMin
<1>3. ASSUME NEW y \in S PROVE x <= y
  <2>1. x \in Nat /\ y \in Nat /\ (<<y, x>> \in R <=> y < x)
    OBVIOUS
  <2>2. ~(<<y, x>> \in R)
    BY <1>2
  <2> HIDE DEF R
  <2> QED
    BY <2>1, <2>2
<1> QED
  BY <1>3

\* One byte of Scan.
Byte(q, d, n) == IF d[n] = NL THEN Line(q, LineAt(d, n)) ELSE q

IsScan(g, p, d, N) ==
  g = [n \in 0 .. N |-> IF n = 0 THEN p ELSE Byte(g[n - 1], d, n)]

\* A scan goes on from any number of bytes to one more.
LEMMA ScanGrows ==
  ASSUME NEW p, NEW d, NEW N \in Nat, NEW g, IsScan(g, p, d, N)
  PROVE  \E h : IsScan(h, p, d, N + 1)
<1> DEFINE v == Byte(g[N], d, N + 1)
           h == [n \in 0 .. N + 1 |-> IF n = N + 1 THEN v ELSE g[n]]
<1>1. h[N + 1] = v /\ \A n \in 0 .. N : h[n] = g[n]
  OBVIOUS
<1>2. ASSUME NEW n \in 0 .. N + 1
      PROVE  h[n] = IF n = 0 THEN p ELSE Byte(h[n - 1], d, n)
  <2>1. CASE n = N + 1
    <3>1. n # 0 /\ n - 1 = N /\ N \in 0 .. N
      BY <2>1
    <3>2. h[n - 1] = g[N] /\ h[n] = v
      BY <1>1, <2>1, <3>1
    <3> HIDE DEF h
    <3> QED
      BY <2>1, <3>1, <3>2
  <2>2. CASE n # N + 1
    <3>1. n \in 0 .. N /\ (n # 0 => n - 1 \in 0 .. N)
      BY <2>2
    <3>2. h[n] = g[n] /\ (n # 0 => h[n - 1] = g[n - 1])
      BY <1>1, <3>1
    <3>3. g[n] = IF n = 0 THEN p ELSE Byte(g[n - 1], d, n)
      BY <3>1 DEF IsScan
    <3> HIDE DEF h
    <3> QED
      BY <3>2, <3>3
  <2> QED
    BY <2>1, <2>2
<1>3. h = [n \in 0 .. N + 1 |-> h[n]]
  OBVIOUS
<1> HIDE DEF h
<1>4. h = [n \in 0 .. N + 1 |-> IF n = 0 THEN p ELSE Byte(h[n - 1], d, n)]
  BY <1>2, <1>3
<1> QED
  BY <1>4 DEF IsScan

LEMMA ScanExists ==
  ASSUME NEW p, NEW d, NEW N \in Nat
  PROVE  \E g : IsScan(g, p, d, N)
<1> DEFINE Without == {m \in Nat : ~ \E g : IsScan(g, p, d, m)}
<1>1. SUFFICES ASSUME Without # {} PROVE FALSE
  OBVIOUS
<1>2. PICK m \in Without : \A k \in Without : m <= k
  <2>1. Without \in SUBSET Nat
    OBVIOUS
  <2> HIDE DEF Without
  <2> QED
    BY <1>1, <2>1, HasLeast
<1>3. CASE m = 0
  <2> DEFINE g == [n \in 0 .. 0 |-> p]
  <2>1. g = [n \in 0 .. 0 |-> IF n = 0 THEN p ELSE Byte(g[n - 1], d, n)]
    <3>1. \A n \in 0 .. 0 : n = 0
      OBVIOUS
    <3> QED
      BY <3>1, Zenon
  <2> QED
    BY <1>2, <1>3, <2>1 DEF IsScan
<1>4. CASE m # 0
  <2>1. m - 1 \in Nat /\ ~(m <= m - 1) /\ (m - 1) + 1 = m
    BY <1>4
  <2>2. PICK g : IsScan(g, p, d, m - 1)
    BY <1>2, <2>1
  <2>3. \E h : IsScan(h, p, d, (m - 1) + 1)
    BY <2>1, <2>2, ScanGrows
  <2> QED
    BY <1>2, <2>1, <2>3
<1> QED
  BY <1>3, <1>4

\* The loop of feed takes one byte after the other.
LEMMA ScanSteps ==
  ASSUME NEW p, NEW d, Len(d) \in Nat
  PROVE  /\ Scan(p, d)[0] = p
         /\ \A n \in 1 .. Len(d) : Scan(p, d)[n] = Byte(Scan(p, d)[n - 1], d, n)
<1>1. \E g : IsScan(g, p, d, Len(d))
  BY ScanExists
<1>2. IsScan(Scan(p, d), p, d, Len(d))
  BY <1>1, Zenon DEF Scan, IsScan, Byte
<1>3. 0 \in 0 .. Len(d) /\ \A n \in 1 .. Len(d) : n \in 0 .. Len(d) /\ n # 0
  OBVIOUS
<1> QED
  BY <1>2, <1>3, Zenon DEF IsScan
-----------------------------------------------------------------------------
(* What the lines that end in the first n bytes of the body say.           *)

EndMarks == {"stop", "done"}

SeenIn(b, n, E) == {i \in 1 .. n : i + 1 <= n /\ b[i] \in E /\ b[i + 1] = NL}

\* An event of E has come since the last end of a message.
Open(b, n, E) == \E i \in SeenIn(b, n, E) : \A k \in SeenIn(b, n, EndMarks) : k <= i

SettledIn(b, n, E) ==
    {j \in SeenIn(b, n, EndMarks) : \E i \in SeenIn(b, n, E) :
        i < j /\ ~\E k \in SeenIn(b, n, EndMarks) : i < k /\ k < j}

LEMMA SeenType ==
  ASSUME NEW b, NEW n \in Nat, NEW E
  PROVE  /\ SeenIn(b, n, E) \subseteq 1 .. n
         /\ IsFiniteSet(SeenIn(b, n, E)) /\ Cardinality(SeenIn(b, n, E)) \in Nat
         /\ n \notin SeenIn(b, n, E)
         /\ \A i \in SeenIn(b, n, E) : i \in Nat /\ i < n
<1>1. SeenIn(b, n, E) \subseteq 1 .. n /\ \A i \in SeenIn(b, n, E) : i \in Nat /\ i < n
  BY DEF SeenIn
<1>2. IsFiniteSet(1 .. n)
  BY FS_Interval
<1>3. IsFiniteSet(SeenIn(b, n, E))
  BY <1>1, <1>2, FS_Subset
<1> QED
  BY <1>1, <1>3, FS_CardinalityType

LEMMA SettledType ==
  ASSUME NEW b, NEW n \in Nat, NEW E
  PROVE  /\ IsFiniteSet(SettledIn(b, n, E)) /\ Cardinality(SettledIn(b, n, E)) \in Nat
         /\ n \notin SettledIn(b, n, E)
<1>1. SettledIn(b, n, E) \subseteq SeenIn(b, n, EndMarks)
  BY DEF SettledIn
<1> QED
  BY <1>1, SeenType, FS_Subset, FS_CardinalityType

\* A byte that ends no line says nothing.
LEMMA SeenInside ==
  ASSUME NEW b, NEW n \in Nat, NEW E, b[n + 1] # NL
  PROVE  SeenIn(b, n + 1, E) = SeenIn(b, n, E)
  BY DEF SeenIn

\* A newline adds the line it ends.
LEMMA SeenAtEnd ==
  ASSUME NEW b, NEW n \in Nat, NEW E, b[n + 1] = NL, NL \notin E, "junk" \notin E
  PROVE  SeenIn(b, n + 1, E) =
           IF LineAt(b, n + 1) \in E THEN SeenIn(b, n, E) \cup {n} ELSE SeenIn(b, n, E)
<1>1. LineAt(b, n + 1) = IF n > 0 /\ b[n] # NL THEN b[n] ELSE "junk"
  BY DEF LineAt
<1>2. LineAt(b, n + 1) \in E <=> n \in 1 .. n + 1 /\ b[n] \in E
  BY <1>1
<1>3. ASSUME NEW i PROVE i \in SeenIn(b, n + 1, E) <=>
                         i \in SeenIn(b, n, E) \/ (i = n /\ n \in 1 .. n + 1 /\ b[n] \in E)
  <2>1. i \in 1 .. n + 1 /\ i + 1 <= n + 1 <=> (i \in 1 .. n /\ i + 1 <= n) \/ (i = n /\ n \in 1 .. n + 1)
    OBVIOUS
  <2> QED
    BY <2>1 DEF SeenIn
<1>4. CASE LineAt(b, n + 1) \in E
  <2>1. \A i : i \in SeenIn(b, n + 1, E) <=> i \in SeenIn(b, n, E) \cup {n}
    BY <1>2, <1>3, <1>4
  <2>2. SeenIn(b, n + 1, E) = SeenIn(b, n, E) \cup {n}
    BY <2>1, Zenon
  <2> QED
    BY <1>4, <2>2
<1>5. CASE LineAt(b, n + 1) \notin E
  <2>1. \A i : i \in SeenIn(b, n + 1, E) <=> i \in SeenIn(b, n, E)
    BY <1>2, <1>3, <1>5
  <2>2. SeenIn(b, n + 1, E) = SeenIn(b, n, E)
    BY <2>1, Zenon
  <2> QED
    BY <1>5, <2>2
<1> QED
  BY <1>4, <1>5

LEMMA SeenCount ==
  ASSUME NEW b, NEW n \in Nat, NEW E, b[n + 1] = NL, NL \notin E, "junk" \notin E
  PROVE  Cardinality(SeenIn(b, n + 1, E)) =
           IF LineAt(b, n + 1) \in E THEN Cardinality(SeenIn(b, n, E)) + 1
                                     ELSE Cardinality(SeenIn(b, n, E))
<1> DEFINE S == SeenIn(b, n, E)
<1>1. IsFiniteSet(S) /\ n \notin S
  BY SeenType
<1>2. SeenIn(b, n + 1, E) = IF LineAt(b, n + 1) \in E THEN S \cup {n} ELSE S
  BY SeenAtEnd
<1> HIDE DEF S
<1>3. Cardinality(S \cup {n}) = Cardinality(S) + 1
  BY <1>1, FS_AddElement
<1> QED
  BY <1>2, <1>3 DEF S

\* What a line makes of the open message, for the events of E.
LEMMA OpenAtEnd ==
  ASSUME NEW b, NEW n \in Nat, NEW E, b[n + 1] = NL, NL \notin E, "junk" \notin E,
         E \cap EndMarks = {}
  PROVE  /\ LineAt(b, n + 1) \in E => Open(b, n + 1, E)
         /\ LineAt(b, n + 1) \in EndMarks => ~Open(b, n + 1, E)
         /\ LineAt(b, n + 1) \notin E \cup EndMarks => (Open(b, n + 1, E) <=> Open(b, n, E))
<1> DEFINE e == LineAt(b, n + 1)
<1>1. SeenIn(b, n + 1, E) = IF e \in E THEN SeenIn(b, n, E) \cup {n} ELSE SeenIn(b, n, E)
  BY SeenAtEnd
<1>2. SeenIn(b, n + 1, EndMarks) =
        IF e \in EndMarks THEN SeenIn(b, n, EndMarks) \cup {n} ELSE SeenIn(b, n, EndMarks)
  BY SeenAtEnd DEF EndMarks, NL
<1>3. /\ \A i \in SeenIn(b, n, E) : i \in Nat /\ i < n
      /\ \A i \in SeenIn(b, n, EndMarks) : i \in Nat /\ i < n
  BY SeenType
<1> HIDE DEF e
<1>4. e \in E => Open(b, n + 1, E)
  <2> SUFFICES ASSUME e \in E PROVE Open(b, n + 1, E)
    OBVIOUS
  <2>1. n \in SeenIn(b, n + 1, E) /\ SeenIn(b, n + 1, EndMarks) = SeenIn(b, n, EndMarks)
    BY <1>1, <1>2
  <2>2. \A k \in SeenIn(b, n + 1, EndMarks) : k <= n
    BY <1>3, <2>1
  <2> QED
    BY <2>1, <2>2 DEF Open
<1>5. e \in EndMarks => ~Open(b, n + 1, E)
  <2> SUFFICES ASSUME e \in EndMarks, NEW i \in SeenIn(b, n + 1, E),
                      \A k \in SeenIn(b, n + 1, EndMarks) : k <= i
               PROVE  FALSE
    BY DEF Open
  <2>1. i \in SeenIn(b, n, E) /\ n \in SeenIn(b, n + 1, EndMarks)
    BY <1>1, <1>2
  <2>2. i \in Nat /\ i < n /\ n <= i
    BY <1>3, <2>1
  <2> QED
    BY <2>2
<1>6. e \notin E \cup EndMarks => (Open(b, n + 1, E) <=> Open(b, n, E))
  BY <1>1, <1>2 DEF Open
<1> QED
  BY <1>4, <1>5, <1>6 DEF e

\* An end settles an open message, and nothing else does.
LEMMA SettledAtEnd ==
  ASSUME NEW b, NEW n \in Nat, NEW E, b[n + 1] = NL, NL \notin E, "junk" \notin E,
         E \cap EndMarks = {}
  PROVE  SettledIn(b, n + 1, E) =
           IF LineAt(b, n + 1) \in EndMarks /\ Open(b, n, E)
           THEN SettledIn(b, n, E) \cup {n} ELSE SettledIn(b, n, E)
<1> DEFINE e == LineAt(b, n + 1)
           S == SeenIn(b, n, E)
           T == SeenIn(b, n, EndMarks)
           Before(i, j, U) == i < j /\ ~\E k \in U : i < k /\ k < j
<1>1. SeenIn(b, n + 1, E) = IF e \in E THEN S \cup {n} ELSE S
  BY SeenAtEnd
<1>2. SeenIn(b, n + 1, EndMarks) = IF e \in EndMarks THEN T \cup {n} ELSE T
  BY SeenAtEnd DEF EndMarks, NL
<1>3. (\A i \in S : i \in Nat /\ i < n) /\ (\A j \in T : j \in Nat /\ j < n)
  BY SeenType
<1>4. SettledIn(b, n, E) = {j \in T : \E i \in S : Before(i, j, T)}
  BY DEF SettledIn
<1>5. CASE e \in EndMarks
  <2>1. SeenIn(b, n + 1, E) = S /\ SeenIn(b, n + 1, EndMarks) = T \cup {n}
    BY <1>1, <1>2, <1>5
  <2>2. SettledIn(b, n + 1, E) = {j \in T \cup {n} : \E i \in S : Before(i, j, T \cup {n})}
    BY <2>1 DEF SettledIn
  <2>3. Open(b, n, E) <=> \E i \in S : \A k \in T : k <= i
    BY DEF Open
  <2> HIDE DEF e, S, T
  <2>4. ASSUME NEW i \in S, NEW j \in T PROVE Before(i, j, T \cup {n}) <=> Before(i, j, T)
    <3>1. j < n /\ j \in Nat /\ ~(n < j)
      BY <1>3
    <3> QED
      BY <3>1
  <2>5. ASSUME NEW i \in S PROVE Before(i, n, T \cup {n}) <=> \A k \in T : k <= i
    BY <1>3
  <2>6. n \notin T
    BY <1>3
  <2> HIDE DEF Before
  <2>7. {j \in T \cup {n} : \E i \in S : Before(i, j, T \cup {n})}
          = {j \in T : \E i \in S : Before(i, j, T)} \cup
            (IF \E i \in S : \A k \in T : k <= i THEN {n} ELSE {})
    BY <2>4, <2>5, <2>6
  <2> QED
    BY <1>4, <1>5, <2>2, <2>3, <2>7 DEF e
<1>6. CASE e \notin EndMarks
  <2>1. SeenIn(b, n + 1, EndMarks) = T /\ (SeenIn(b, n + 1, E) = S \/ SeenIn(b, n + 1, E) = S \cup {n})
    BY <1>1, <1>2, <1>6
  <2>2. SettledIn(b, n + 1, E) = {j \in T : \E i \in SeenIn(b, n + 1, E) : Before(i, j, T)}
    BY <2>1 DEF SettledIn
  <2> HIDE DEF S, T
  <2>3. \A j \in T : ~Before(n, j, T)
    BY <1>3
  <2> HIDE DEF Before
  <2> QED
    BY <1>4, <1>6, <2>1, <2>2, <2>3
<1> QED
  BY <1>5, <1>6

LEMMA SettledCount ==
  ASSUME NEW b, NEW n \in Nat, NEW E, b[n + 1] = NL, NL \notin E, "junk" \notin E,
         E \cap EndMarks = {}
  PROVE  Cardinality(SettledIn(b, n + 1, E)) =
           IF LineAt(b, n + 1) \in EndMarks /\ Open(b, n, E)
           THEN Cardinality(SettledIn(b, n, E)) + 1 ELSE Cardinality(SettledIn(b, n, E))
<1> DEFINE S == SettledIn(b, n, E)
           settles == LineAt(b, n + 1) \in EndMarks /\ Open(b, n, E)
<1>1. IsFiniteSet(S) /\ n \notin S
  BY SettledType
<1>2. SettledIn(b, n + 1, E) = IF settles THEN S \cup {n} ELSE S
  BY SettledAtEnd
<1> HIDE DEF S, settles
<1>3. Cardinality(S \cup {n}) = Cardinality(S) + 1
  BY <1>1, FS_AddElement
<1> QED
  BY <1>2, <1>3 DEF S, settles
-----------------------------------------------------------------------------
(* What one line does to the parser's fields.                              *)

ParserType(q) ==
    /\ DOMAIN q = {"lineBuf", "ttft", "content", "think", "text", "truncated", "input",
                   "output", "toks", "prompt", "completion", "ratio"}
    /\ q.lineBuf \in Seq(Chunk)
    /\ q.ttft \in BOOLEAN /\ q.truncated \in BOOLEAN /\ q.ratio \in BOOLEAN
    /\ q.content \in Nat /\ q.think \in Nat /\ q.text \in Nat
    /\ q.input \in Nat /\ q.output \in Nat /\ q.toks \in Nat
    /\ q.prompt \in Nat /\ q.completion \in Nat

\* The fields that count tokens are alike, and so are the ones no line changes.
SameTokens(q, r) ==
    /\ r.input = q.input /\ r.output = q.output /\ r.toks = q.toks
    /\ r.prompt = q.prompt /\ r.completion = q.completion

SameTexts(q, r) ==
    /\ r.ttft = q.ttft /\ r.content = q.content /\ r.think = q.think
    /\ r.text = q.text /\ r.truncated = q.truncated

\* What a line that says e does to the fields that describe the text.
TextStep(q, r, e) ==
    /\ r.ttft = (q.ttft \/ e \in {"text", "think"})
    /\ r.content = IF e = "text" THEN q.content + TextLen ELSE q.content
    /\ r.think = IF e = "think" THEN q.think + 1 ELSE q.think
    /\ r.text = IF e = "text" /\ ~q.truncated /\ q.text < MaxContent
                THEN Least(q.text + TextLen, MaxContent) ELSE q.text
    /\ r.truncated = (q.truncated \/ (e = "text" /\ q.text + TextLen > MaxContent))

LEMMA AppendEffect ==
  ASSUME NEW q, ParserType(q), NEW r, r = appendContent(q)
  PROVE  /\ ParserType(r) /\ SameTokens(q, r) /\ r.lineBuf = q.lineBuf
         /\ r.ttft = q.ttft /\ r.content = q.content /\ r.think = q.think
         /\ r.text = IF ~q.truncated /\ q.text < MaxContent
                     THEN Least(q.text + TextLen, MaxContent) ELSE q.text
         /\ r.truncated = (q.truncated \/ q.text + TextLen > MaxContent)
<1>0. q.truncated \in BOOLEAN /\ q.text \in Nat /\ MaxContent \in Nat
  BY StreamAssumption DEF ParserType
<1>1. CASE q.truncated
  <2>1. r = q
    BY <1>1 DEF appendContent
  <2>2. r.truncated = (q.truncated \/ q.text + TextLen > MaxContent)
    BY <1>1, <2>1, <1>0, Zenon
  <2> QED
    BY <1>1, <2>1, <2>2 DEF SameTokens
<1>2. CASE ~q.truncated /\ q.text + TextLen > MaxContent
  <2> DEFINE kept == IF MaxContent - q.text > 0 THEN MaxContent ELSE q.text
  <2>0. /\ kept \in Nat /\ ~(TextLen <= MaxContent - q.text)
        /\ kept = IF q.text < MaxContent THEN Least(q.text + TextLen, MaxContent) ELSE q.text
    BY <1>0, <1>2 DEF Least, TextLen
  <2>1. r = [q EXCEPT !.text = kept, !.truncated = TRUE]
    BY <1>2, <2>0 DEF appendContent
  <2> HIDE DEF kept
  <2>2. ParserType(r) /\ SameTokens(q, r) /\ r.lineBuf = q.lineBuf
    BY <2>0, <2>1 DEF ParserType, SameTokens
  <2>3. /\ r.ttft = q.ttft /\ r.content = q.content /\ r.think = q.think
        /\ r.text = kept /\ r.truncated = TRUE
    BY <2>1 DEF ParserType
  <2>4. r.truncated = (q.truncated \/ q.text + TextLen > MaxContent)
    BY <1>2, <2>3, Zenon
  <2> QED
    BY <1>2, <2>0, <2>2, <2>3, <2>4
<1>3. CASE ~q.truncated /\ ~(q.text + TextLen > MaxContent)
  <2>0. /\ TextLen <= MaxContent - q.text /\ q.text + TextLen \in Nat
        /\ q.text < MaxContent /\ Least(q.text + TextLen, MaxContent) = q.text + TextLen
    BY <1>0, <1>3 DEF Least, TextLen
  <2>1. r = [q EXCEPT !.text = @ + TextLen]
    BY <1>3, <2>0 DEF appendContent
  <2>2. ParserType(r) /\ SameTokens(q, r) /\ r.lineBuf = q.lineBuf
    BY <2>0, <2>1 DEF ParserType, SameTokens
  <2>3. /\ r.ttft = q.ttft /\ r.content = q.content /\ r.think = q.think
        /\ r.text = q.text + TextLen /\ r.truncated = q.truncated
    BY <2>1 DEF ParserType
  <2>5. r.truncated = (q.truncated \/ q.text + TextLen > MaxContent)
    BY <1>3, <2>3, <1>0, Zenon
  <2> QED
    BY <1>3, <2>0, <2>2, <2>3, <2>5
<1> QED
  BY <1>0, <1>1, <1>2, <1>3

\* A text or a reasoning delta, for both kinds of parser.
LEMMA DeltaEffect ==
  ASSUME NEW q, ParserType(q), NEW e \in {"text", "think"}, NEW r, r = Delta(q, e)
  PROVE  ParserType(r) /\ SameTokens(q, r) /\ r.lineBuf = q.lineBuf /\ TextStep(q, r, e)
<1>1. CASE e = "text"
  <2> DEFINE s == [q EXCEPT !.ttft = TRUE, !.content = @ + TextLen]
  <2>1. /\ s.lineBuf = q.lineBuf /\ s.ttft = TRUE /\ s.content = q.content + TextLen
        /\ s.think = q.think /\ s.text = q.text /\ s.truncated = q.truncated
        /\ s.ratio = q.ratio
    BY DEF ParserType
  <2>2. SameTokens(q, s)
    BY DEF ParserType, SameTokens
  <2>3. DOMAIN s = DOMAIN q
    OBVIOUS
  <2>4. r = appendContent(s)
    BY <1>1 DEF Delta
  <2> HIDE DEF s
  <2>5. ParserType(s)
    <3>1. s.ttft \in BOOLEAN /\ s.truncated \in BOOLEAN /\ s.ratio \in BOOLEAN
      BY <2>1, Zenon DEF ParserType
    <3>2. s.content \in Nat /\ s.think \in Nat /\ s.text \in Nat
      BY <2>1 DEF ParserType, TextLen
    <3>3. /\ s.input \in Nat /\ s.output \in Nat /\ s.toks \in Nat
          /\ s.prompt \in Nat /\ s.completion \in Nat
      BY <2>2 DEF ParserType, SameTokens
    <3>4. s.lineBuf \in Seq(Chunk)
      BY <2>1 DEF ParserType
    <3> QED
      BY <2>3, <3>1, <3>2, <3>3, <3>4, Zenon DEF ParserType
  <2>6. /\ ParserType(r) /\ SameTokens(s, r) /\ r.lineBuf = s.lineBuf
        /\ r.ttft = s.ttft /\ r.content = s.content /\ r.think = s.think
        /\ r.text = IF ~s.truncated /\ s.text < MaxContent
                    THEN Least(s.text + TextLen, MaxContent) ELSE s.text
        /\ r.truncated = (s.truncated \/ s.text + TextLen > MaxContent)
    BY <2>4, <2>5, AppendEffect
  <2>7. SameTokens(q, r)
    BY <2>2, <2>6 DEF SameTokens
  <2>8. r.truncated = (q.truncated \/ (e = "text" /\ q.text + TextLen > MaxContent))
    BY <1>1, <2>1, <2>6, Zenon
  <2>9. r.ttft = (q.ttft \/ e \in {"text", "think"})
    BY <2>1, <2>6, Zenon
  <2> QED
    BY <1>1, <2>1, <2>6, <2>7, <2>8, <2>9 DEF TextStep
<1>2. CASE e = "think"
  <2>1. r = [q EXCEPT !.ttft = TRUE, !.think = @ + 1]
    BY <1>2 DEF Delta
  <2>2. /\ r.lineBuf = q.lineBuf /\ r.ttft = TRUE /\ r.content = q.content
        /\ r.think = q.think + 1 /\ r.text = q.text /\ r.truncated = q.truncated
        /\ r.ratio = q.ratio
    BY <2>1 DEF ParserType
  <2>3. SameTokens(q, r)
    BY <2>1 DEF ParserType, SameTokens
  <2>4. DOMAIN r = DOMAIN q
    BY <2>1
  <2>5. ParserType(r)
    <3>1. r.ttft \in BOOLEAN /\ r.truncated \in BOOLEAN /\ r.ratio \in BOOLEAN
      BY <2>2, Zenon DEF ParserType
    <3>2. r.content \in Nat /\ r.think \in Nat /\ r.text \in Nat
      BY <2>2 DEF ParserType
    <3>3. /\ r.input \in Nat /\ r.output \in Nat /\ r.toks \in Nat
          /\ r.prompt \in Nat /\ r.completion \in Nat
      BY <2>3 DEF ParserType, SameTokens
    <3>4. r.lineBuf \in Seq(Chunk)
      BY <2>2 DEF ParserType
    <3> QED
      BY <2>4, <3>1, <3>2, <3>3, <3>4, Zenon DEF ParserType
  <2>6. r.truncated = (q.truncated \/ (e = "text" /\ q.text + TextLen > MaxContent))
    BY <1>2, <2>2, Zenon DEF ParserType
  <2>7. r.ttft = (q.ttft \/ e \in {"text", "think"})
    BY <2>2, Zenon
  <2> QED
    BY <1>2, <2>2, <2>3, <2>5, <2>6, <2>7 DEF TextStep
<1> QED
  BY <1>1, <1>2

\* What it does to the fields that count tokens.
AnthropicStep(q, r, e) ==
    /\ r.input = IF e = "start" THEN 1 ELSE IF e \in EndMarks THEN 0 ELSE q.input
    /\ r.output = IF e = "usage" THEN 1 ELSE IF e \in EndMarks THEN 0 ELSE q.output
    /\ r.prompt = IF e \in EndMarks THEN q.prompt + q.input ELSE q.prompt
    /\ r.completion = IF e \in EndMarks THEN q.completion + q.output ELSE q.completion

OpenAIStep(q, r, e) ==
    /\ r.toks = IF e = "usage" THEN 1 ELSE q.toks
    /\ r.output = IF e = "usage" THEN 1 ELSE q.output
    /\ r.prompt = q.prompt /\ r.completion = q.completion

LEMMA TypeKept ==
  ASSUME NEW q, ParserType(q), NEW r, DOMAIN r = DOMAIN q, r.lineBuf = q.lineBuf,
         r.ratio = q.ratio, SameTexts(q, r),
         /\ r.input \in Nat /\ r.output \in Nat /\ r.toks \in Nat
         /\ r.prompt \in Nat /\ r.completion \in Nat
  PROVE  ParserType(r)
  BY Zenon DEF ParserType, SameTexts

LEMMA NoTextStep ==
  ASSUME NEW q, ParserType(q), NEW r, SameTexts(q, r), NEW e, e \notin {"text", "think"}
  PROVE  TextStep(q, r, e)
<1>1. e # "text" /\ e # "think" /\ q.ttft \in BOOLEAN /\ q.truncated \in BOOLEAN
  BY DEF ParserType
<1>2. /\ r.ttft = (q.ttft \/ e \in {"text", "think"})
      /\ r.truncated = (q.truncated \/ (e = "text" /\ q.text + TextLen > MaxContent))
  BY <1>1, Zenon DEF SameTexts
<1> QED
  BY <1>1, <1>2, Zenon DEF SameTexts, TextStep

LEMMA DeltaStep ==
  ASSUME NEW q, ParserType(q), NEW e \in {"text", "think"}, NEW r, r = Delta(q, e)
  PROVE  /\ ParserType(r) /\ r.lineBuf = q.lineBuf /\ TextStep(q, r, e)
         /\ AnthropicStep(q, r, e) /\ OpenAIStep(q, r, e)
<1>1. ParserType(r) /\ SameTokens(q, r) /\ r.lineBuf = q.lineBuf /\ TextStep(q, r, e)
  BY DeltaEffect
<1>2. e # "start" /\ e # "usage" /\ e \notin EndMarks
  BY DEF EndMarks
<1>3. AnthropicStep(q, r, e) /\ OpenAIStep(q, r, e)
  BY <1>1, <1>2, Zenon DEF SameTokens, AnthropicStep, OpenAIStep
<1> QED
  BY <1>1, <1>3

LEMMA RecordEffect ==
  ASSUME NEW q, ParserType(q), NEW r, r = recordAnthropicTokens(q)
  PROVE  /\ ParserType(r) /\ r.lineBuf = q.lineBuf /\ SameTexts(q, r)
         /\ r.input = 0 /\ r.output = 0
         /\ r.prompt = q.prompt + q.input /\ r.completion = q.completion + q.output
<1>1. r = [q EXCEPT !.prompt = @ + q.input, !.completion = @ + q.output,
              !.toks = IF q.input > 0 THEN q.input ELSE @,
              !.input = 0, !.output = 0]
  BY DEF recordAnthropicTokens
<1>2. DOMAIN r = DOMAIN q
  BY <1>1
<1>3. r.input = 0 /\ r.output = 0
  BY <1>1 DEF ParserType
<1>4. r.prompt = q.prompt + q.input /\ r.completion = q.completion + q.output
  BY <1>1 DEF ParserType
<1>5. r.toks = IF q.input > 0 THEN q.input ELSE q.toks
  BY <1>1 DEF ParserType
<1>6. SameTexts(q, r) /\ r.lineBuf = q.lineBuf /\ r.ratio = q.ratio
  BY <1>1 DEF ParserType, SameTexts
<1>7. /\ r.input \in Nat /\ r.output \in Nat /\ r.toks \in Nat
      /\ r.prompt \in Nat /\ r.completion \in Nat
  BY <1>3, <1>4, <1>5 DEF ParserType
<1>8. ParserType(r)
  BY <1>2, <1>6, <1>7, TypeKept
<1> QED
  BY <1>3, <1>4, <1>6, <1>8

LEMMA AnthropicEffect ==
  ASSUME NEW q, ParserType(q), NEW e \in Events, NEW r, r = handleAnthropicEvent(q, e)
  PROVE  ParserType(r) /\ r.lineBuf = q.lineBuf /\ TextStep(q, r, e) /\ AnthropicStep(q, r, e)
<1>1. CASE e = "start"
  <2>1. r = [q EXCEPT !.input = 1]
    BY <1>1 DEF handleAnthropicEvent
  <2>2. ParserType(r) /\ r.lineBuf = q.lineBuf /\ SameTexts(q, r)
    BY <2>1 DEF ParserType, SameTexts
  <2>3. r.input = 1 /\ r.output = q.output /\ r.prompt = q.prompt /\ r.completion = q.completion
    BY <2>1 DEF ParserType
  <2> QED
    BY <1>1, <2>2, <2>3, NoTextStep DEF AnthropicStep, EndMarks
<1>2. CASE e = "usage"
  <2>1. r = [q EXCEPT !.output = 1]
    BY <1>2 DEF handleAnthropicEvent
  <2>2. ParserType(r) /\ r.lineBuf = q.lineBuf /\ SameTexts(q, r)
    BY <2>1 DEF ParserType, SameTexts
  <2>3. r.input = q.input /\ r.output = 1 /\ r.prompt = q.prompt /\ r.completion = q.completion
    BY <2>1 DEF ParserType
  <2> QED
    BY <1>2, <2>2, <2>3, NoTextStep DEF AnthropicStep, EndMarks
<1>3. CASE e \in {"text", "think"}
  <2>1. r = Delta(q, e)
    BY <1>3 DEF handleAnthropicEvent
  <2> QED
    BY <1>3, <2>1, DeltaStep
<1>4. CASE e \in EndMarks
  <2>1. r = recordAnthropicTokens(q) /\ e # "start" /\ e # "usage" /\ e \notin {"text", "think"}
    BY <1>4 DEF handleAnthropicEvent, EndMarks
  <2>2. /\ ParserType(r) /\ r.lineBuf = q.lineBuf /\ SameTexts(q, r)
        /\ r.input = 0 /\ r.output = 0
        /\ r.prompt = q.prompt + q.input /\ r.completion = q.completion + q.output
    BY <2>1, RecordEffect
  <2> QED
    BY <1>4, <2>1, <2>2, NoTextStep DEF AnthropicStep
<1>5. CASE e = "junk"
  <2>1. r = q /\ e # "start" /\ e # "usage" /\ e \notin {"text", "think"} /\ e \notin EndMarks
    BY <1>5 DEF handleAnthropicEvent, EndMarks
  <2> QED
    BY <2>1, NoTextStep DEF AnthropicStep, SameTexts
<1> QED
  BY <1>1, <1>2, <1>3, <1>4, <1>5 DEF Events, EndMarks

LEMMA OpenAIEffect ==
  ASSUME NEW q, ParserType(q), NEW e \in Events, NEW r, r = handleOpenAIEvent(q, e)
  PROVE  ParserType(r) /\ r.lineBuf = q.lineBuf /\ TextStep(q, r, e) /\ OpenAIStep(q, r, e)
<1>1. CASE e = "usage"
  <2>1. r = [q EXCEPT !.toks = 1, !.output = 1]
    BY <1>1 DEF handleOpenAIEvent
  <2>2. r.lineBuf = q.lineBuf /\ r.ratio = q.ratio /\ SameTexts(q, r) /\ DOMAIN r = DOMAIN q
    BY <2>1 DEF ParserType, SameTexts
  <2>3. /\ r.toks = 1 /\ r.output = 1 /\ r.prompt = q.prompt /\ r.completion = q.completion
        /\ r.input = q.input
    BY <2>1 DEF ParserType
  <2>4. /\ r.input \in Nat /\ r.output \in Nat /\ r.toks \in Nat
        /\ r.prompt \in Nat /\ r.completion \in Nat
    BY <2>3 DEF ParserType
  <2>5. ParserType(r)
    BY <2>2, <2>4, TypeKept
  <2> QED
    BY <1>1, <2>2, <2>3, <2>5, NoTextStep DEF OpenAIStep
<1>2. CASE e \in {"text", "think"}
  <2>1. r = Delta(q, e)
    BY <1>2 DEF handleOpenAIEvent
  <2> QED
    BY <1>2, <2>1, DeltaStep
<1>3. CASE e # "usage" /\ e \notin {"text", "think"}
  <2>1. r = q
    BY <1>3 DEF handleOpenAIEvent
  <2> QED
    BY <1>3, <2>1, NoTextStep DEF OpenAIStep, SameTexts
<1> QED
  BY <1>1, <1>2, <1>3
-----------------------------------------------------------------------------
(* The parser's fields are counts over the lines that have ended.          *)

TextCounts(q, b, n) ==
    LET texts == Cardinality(SeenIn(b, n, {"text"})) IN
    /\ q.ttft = (SeenIn(b, n, {"text", "think"}) # {})
    /\ q.content = TextLen * texts
    /\ q.think = Cardinality(SeenIn(b, n, {"think"}))
    /\ q.text = Least(TextLen * texts, MaxContent)
    /\ q.truncated = (TextLen * texts > MaxContent)

\* Between two ends of a message the Anthropic parser holds what it will settle.
AnthropicCounts(q, b, n) ==
    /\ q.prompt = Cardinality(SettledIn(b, n, {"start"}))
    /\ q.completion = Cardinality(SettledIn(b, n, {"usage"}))
    /\ q.input = IF Open(b, n, {"start"}) THEN 1 ELSE 0
    /\ q.output = IF Open(b, n, {"usage"}) THEN 1 ELSE 0

OpenAICounts(q, b, n) ==
    /\ q.toks = IF SeenIn(b, n, {"usage"}) # {} THEN 1 ELSE 0
    /\ q.output = IF SeenIn(b, n, {"usage"}) # {} THEN 1 ELSE 0

Counts(q, b, n) ==
    /\ TextCounts(q, b, n)
    /\ type = "anthropic" => AnthropicCounts(q, b, n)
    /\ type = "openai" => OpenAICounts(q, b, n)

\* Counts depend on the lines that have ended alone.
LEMMA CountsInside ==
  ASSUME NEW q, NEW b, NEW n, NEW m, \A E : SeenIn(b, m, E) = SeenIn(b, n, E)
  PROVE  Counts(q, b, m) <=> Counts(q, b, n)
<1>1. ASSUME NEW E
      PROVE  SettledIn(b, m, E) = SettledIn(b, n, E) /\ (Open(b, m, E) <=> Open(b, n, E))
  <2>1. SeenIn(b, m, E) = SeenIn(b, n, E) /\ SeenIn(b, m, EndMarks) = SeenIn(b, n, EndMarks)
    OBVIOUS
  <2> QED
    BY <2>1 DEF SettledIn, Open
<1>2. TextCounts(q, b, m) <=> TextCounts(q, b, n)
  BY Zenon DEF TextCounts
<1>3. AnthropicCounts(q, b, m) <=> AnthropicCounts(q, b, n)
  <2>1. /\ SettledIn(b, m, {"start"}) = SettledIn(b, n, {"start"})
        /\ SettledIn(b, m, {"usage"}) = SettledIn(b, n, {"usage"})
        /\ Open(b, m, {"start"}) <=> Open(b, n, {"start"})
        /\ Open(b, m, {"usage"}) <=> Open(b, n, {"usage"})
    BY <1>1, Zenon
  <2> QED
    BY <2>1 DEF AnthropicCounts
<1>4. OpenAICounts(q, b, m) <=> OpenAICounts(q, b, n)
  BY Zenon DEF OpenAICounts
<1> QED
  BY <1>2, <1>3, <1>4 DEF Counts

LEMMA TextCounted ==
  ASSUME NEW q, NEW r, NEW b, NEW n \in Nat, b[n + 1] = NL, ParserType(q),
         TextCounts(q, b, n), TextStep(q, r, LineAt(b, n + 1))
  PROVE  TextCounts(r, b, n + 1)
<1> DEFINE e == LineAt(b, n + 1)
           t == Cardinality(SeenIn(b, n, {"text"}))
           u == Cardinality(SeenIn(b, n + 1, {"text"}))
<1>0. t \in Nat /\ MaxContent \in Nat
  BY SeenType, StreamAssumption
<1>1. u = IF e = "text" THEN t + 1 ELSE t
  BY SeenCount DEF NL
<1>2. Cardinality(SeenIn(b, n + 1, {"think"})) =
        IF e = "think" THEN Cardinality(SeenIn(b, n, {"think"})) + 1
                       ELSE Cardinality(SeenIn(b, n, {"think"}))
  BY SeenCount DEF NL
<1>3. SeenIn(b, n + 1, {"text", "think"}) =
        IF e \in {"text", "think"} THEN SeenIn(b, n, {"text", "think"}) \cup {n}
                                   ELSE SeenIn(b, n, {"text", "think"})
  BY SeenAtEnd DEF NL
<1>4. r.ttft = (SeenIn(b, n + 1, {"text", "think"}) # {})
  <2> DEFINE S == SeenIn(b, n, {"text", "think"})
  <2>1. r.ttft = (q.ttft \/ e \in {"text", "think"}) /\ q.ttft = (S # {})
    BY Zenon DEF TextStep, TextCounts
  <2> HIDE DEF S, e
  <2>2. (SeenIn(b, n + 1, {"text", "think"}) # {}) = (S # {} \/ e \in {"text", "think"})
    BY <1>3 DEF S
  <2> QED
    BY <2>1, <2>2, Zenon
<1>5. /\ q.content = TextLen * t /\ q.text = Least(TextLen * t, MaxContent)
      /\ q.truncated = (TextLen * t > MaxContent)
  BY Zenon DEF TextCounts
<1>6. /\ r.content = IF e = "text" THEN q.content + TextLen ELSE q.content
      /\ r.think = IF e = "think" THEN q.think + 1 ELSE q.think
      /\ r.text = IF e = "text" /\ ~q.truncated /\ q.text < MaxContent
                  THEN Least(q.text + TextLen, MaxContent) ELSE q.text
      /\ r.truncated = (q.truncated \/ (e = "text" /\ q.text + TextLen > MaxContent))
  BY Zenon DEF TextStep
<1>7. q.think = Cardinality(SeenIn(b, n, {"think"}))
  BY Zenon DEF TextCounts
<1> HIDE DEF e, t, u
<1>8. r.content = TextLen * u /\ r.think = Cardinality(SeenIn(b, n + 1, {"think"}))
  BY <1>0, <1>1, <1>2, <1>5, <1>6, <1>7 DEF TextLen
<1>9. r.text = Least(TextLen * u, MaxContent)
  <2>1. CASE e = "text"
    <3>1. q.truncated <=> TextLen * t > MaxContent
      BY <1>5, Zenon
    <3>2. u = t + 1 /\ q.text = Least(TextLen * t, MaxContent)
      BY <1>1, <1>5, <2>1
    <3>3. r.text = IF ~(TextLen * t > MaxContent) /\ q.text < MaxContent
                   THEN Least(q.text + TextLen, MaxContent) ELSE q.text
      BY <1>6, <2>1, <3>1
    <3> QED
      BY <1>0, <3>2, <3>3 DEF Least, TextLen
  <2>2. CASE e # "text"
    BY <1>1, <1>5, <1>6, <2>2
  <2> QED
    BY <2>1, <2>2
<1>10. r.truncated = (TextLen * u > MaxContent)
  <2> DEFINE full == TextLen * t > MaxContent
                       \/ (e = "text" /\ Least(TextLen * t, MaxContent) + TextLen > MaxContent)
  <2>1. full <=> TextLen * u > MaxContent
    <3>1. CASE e = "text"
      <4>1. u = t + 1
        BY <1>1, <3>1
      <4> QED
        BY <1>0, <3>1, <4>1 DEF Least, TextLen
    <3>2. CASE e # "text"
      BY <1>1, <3>2
    <3> QED
      BY <3>1, <3>2
  <2>2. full = (TextLen * u > MaxContent)
    BY <2>1
  <2> QED
    BY <1>5, <1>6, <2>2, Zenon
<1> QED
  BY <1>4, <1>8, <1>9, <1>10, Zenon DEF TextCounts, u

LEMMA AnthropicCounted ==
  ASSUME NEW q, NEW r, NEW b, NEW n \in Nat, b[n + 1] = NL, ParserType(q),
         AnthropicCounts(q, b, n), AnthropicStep(q, r, LineAt(b, n + 1))
  PROVE  AnthropicCounts(r, b, n + 1)
<1> DEFINE e == LineAt(b, n + 1)
<1>1. ASSUME NEW a \in {"start", "usage"}
      PROVE  /\ Cardinality(SettledIn(b, n + 1, {a})) =
                   IF e \in EndMarks /\ Open(b, n, {a})
                   THEN Cardinality(SettledIn(b, n, {a})) + 1
                   ELSE Cardinality(SettledIn(b, n, {a}))
             /\ e = a => Open(b, n + 1, {a})
             /\ e \in EndMarks => ~Open(b, n + 1, {a})
             /\ e # a /\ e \notin EndMarks => (Open(b, n + 1, {a}) <=> Open(b, n, {a}))
             /\ Cardinality(SettledIn(b, n, {a})) \in Nat
  <2>1. NL \notin {a} /\ "junk" \notin {a} /\ {a} \cap EndMarks = {}
    BY DEF NL, EndMarks
  <2>2. /\ e \in {a} => Open(b, n + 1, {a})
        /\ e \in EndMarks => ~Open(b, n + 1, {a})
        /\ e \notin {a} \cup EndMarks => (Open(b, n + 1, {a}) <=> Open(b, n, {a}))
    BY <2>1, OpenAtEnd
  <2>3. Cardinality(SettledIn(b, n + 1, {a})) =
          IF e \in EndMarks /\ Open(b, n, {a})
          THEN Cardinality(SettledIn(b, n, {a})) + 1 ELSE Cardinality(SettledIn(b, n, {a}))
    BY <2>1, SettledCount
  <2>4. Cardinality(SettledIn(b, n, {a})) \in Nat
    BY SettledType
  <2> QED
    BY <2>2, <2>3, <2>4
<1> HIDE DEF e
<1>2. r.prompt = Cardinality(SettledIn(b, n + 1, {"start"}))
  BY <1>1 DEF AnthropicCounts, AnthropicStep, e
<1>3. r.completion = Cardinality(SettledIn(b, n + 1, {"usage"}))
  BY <1>1 DEF AnthropicCounts, AnthropicStep, e
<1>4. "start" \notin EndMarks /\ "usage" \notin EndMarks
  BY DEF EndMarks
<1>5. r.input = IF Open(b, n + 1, {"start"}) THEN 1 ELSE 0
  BY <1>1, <1>4 DEF AnthropicCounts, AnthropicStep, e
<1>6. r.output = IF Open(b, n + 1, {"usage"}) THEN 1 ELSE 0
  BY <1>1, <1>4 DEF AnthropicCounts, AnthropicStep, e
<1> QED
  BY <1>2, <1>3, <1>5, <1>6 DEF AnthropicCounts

LEMMA OpenAICounted ==
  ASSUME NEW q, NEW r, NEW b, NEW n \in Nat, b[n + 1] = NL, ParserType(q),
         OpenAICounts(q, b, n), OpenAIStep(q, r, LineAt(b, n + 1))
  PROVE  OpenAICounts(r, b, n + 1)
<1> DEFINE e == LineAt(b, n + 1)
<1>1. SeenIn(b, n + 1, {"usage"}) =
        IF e \in {"usage"} THEN SeenIn(b, n, {"usage"}) \cup {n} ELSE SeenIn(b, n, {"usage"})
  BY SeenAtEnd DEF NL
<1> HIDE DEF e
<1> QED
  BY <1>1 DEF OpenAICounts, OpenAIStep, e

\* One byte of the body: from the counts over n bytes to those over n + 1.
LEMMA ByteCounted ==
  ASSUME NEW b \in [1 .. Bytes -> Chunk], NEW n \in Nat, n < Bytes, NEW q, ParserType(q), Counts(q, b, n),
         type \in {"openai", "anthropic"},
         NEW r, r = Byte(q, b, n + 1)
  PROVE  /\ ParserType(r) /\ Counts(r, b, n + 1) /\ r.lineBuf = q.lineBuf
         /\ type = "openai" => r.prompt = q.prompt /\ r.completion = q.completion
<1>1. CASE b[n + 1] # NL
  <2>1. r = q
    BY <1>1 DEF Byte
  <2>2. \A E : SeenIn(b, n + 1, E) = SeenIn(b, n, E)
    BY <1>1, SeenInside
  <2> QED
    BY <2>1, <2>2, CountsInside
<1>2. CASE b[n + 1] = NL
  <2> DEFINE e == LineAt(b, n + 1)
  <2>1. e \in Events
    <3>1. n + 1 > 1 => n \in 1 .. Bytes
      BY BodyAssumption
    <3>2. n + 1 > 1 => b[n] \in Events \cup {NL}
      BY <3>1 DEF Chunk
    <3> QED
      BY <3>2 DEF LineAt, Events
  <2>2. r = Line(q, e)
    BY <1>2 DEF Byte
  <2>3. CASE type = "anthropic"
    <3>1. r = handleAnthropicEvent(q, e)
      BY <2>2, <2>3 DEF Line
    <3>2. ParserType(r) /\ r.lineBuf = q.lineBuf /\ TextStep(q, r, e) /\ AnthropicStep(q, r, e)
      BY <2>1, <3>1, AnthropicEffect
    <3>3. TextCounts(r, b, n + 1)
      BY <1>2, <3>2, TextCounted DEF Counts
    <3>4. AnthropicCounts(r, b, n + 1)
      BY <1>2, <2>3, <3>2, AnthropicCounted DEF Counts
    <3> QED
      BY <2>3, <3>2, <3>3, <3>4 DEF Counts
  <2>4. CASE type = "openai"
    <3>1. r = handleOpenAIEvent(q, e)
      BY <2>2, <2>4 DEF Line
    <3>2. ParserType(r) /\ r.lineBuf = q.lineBuf /\ TextStep(q, r, e) /\ OpenAIStep(q, r, e)
      BY <2>1, <3>1, OpenAIEffect
    <3>3. TextCounts(r, b, n + 1)
      BY <1>2, <3>2, TextCounted DEF Counts
    <3>4. OpenAICounts(r, b, n + 1)
      BY <1>2, <2>4, <3>2, OpenAICounted DEF Counts
    <3>5. r.prompt = q.prompt /\ r.completion = q.completion
      BY <3>2 DEF OpenAIStep
    <3> QED
      BY <2>4, <3>2, <3>3, <3>4, <3>5 DEF Counts
  <2> QED
    BY <2>3, <2>4
<1> QED
  BY <1>1, <1>2
-----------------------------------------------------------------------------
(* feed, for a read that begins and ends anywhere in a line.               *)

\* The scan starts at the beginning of a line, so it sees the lines of the body.
LEMMA SameByte ==
  ASSUME NEW b \in [1 .. Bytes -> Chunk], NEW c \in Nat, NEW m \in Nat, c <= m, m <= Bytes,
         c = 0 \/ b[c] = NL, NEW k \in 1 .. m - c, NEW q
  PROVE  Byte(q, Part(b, c, m), k) = Byte(q, b, c + k)
<1> DEFINE d == Part(b, c, m)
<1>1. \A i \in 1 .. m - c : d[i] = b[c + i]
  BY PartType
<1> HIDE DEF d
<1>2. d[k] = b[c + k]
  BY <1>1
<1>3. LineAt(d, k) = LineAt(b, c + k)
  <2>1. CASE k = 1
    <3>1. LineAt(d, k) = "junk"
      BY <2>1 DEF LineAt
    <3>2. (c + k) - 1 = c /\ (c + k > 1 => c # 0)
      BY <2>1
    <3> QED
      BY <3>1, <3>2 DEF LineAt
  <2>2. CASE k # 1
    <3>1. k - 1 \in 1 .. m - c /\ c + (k - 1) = (c + k) - 1 /\ k > 1 /\ c + k > 1
      BY <2>2
    <3>2. d[k - 1] = b[(c + k) - 1]
      BY <1>1, <3>1
    <3> QED
      BY <3>1, <3>2 DEF LineAt
  <2> QED
    BY <2>1, <2>2
<1> QED
  BY <1>2, <1>3 DEF Byte, d

\* What the scan of d leaves of the parser p, which had counted the first c bytes.
Scanned(q, p, b, n) ==
    /\ ParserType(q) /\ Counts(q, b, n) /\ q.lineBuf = p.lineBuf
    /\ type = "openai" => q.prompt = p.prompt /\ q.completion = p.completion

LEMMA ScanCounted ==
  ASSUME NEW b \in [1 .. Bytes -> Chunk], NEW c \in Nat, NEW m \in Nat, c <= m, m <= Bytes,
         c = 0 \/ b[c] = NL, NEW p, ParserType(p), Counts(p, b, c),
         type \in {"openai", "anthropic"}
  PROVE  Scanned(Scan(p, Part(b, c, m))[m - c], p, b, m)
<1> DEFINE d == Part(b, c, m)
           g == Scan(p, d)
           Wrong == {k \in 0 .. m - c : ~Scanned(g[k], p, b, c + k)}
<1>0. Len(d) = m - c /\ m - c \in Nat
  BY PartType
<1>1. g[0] = p /\ \A k \in 1 .. m - c : g[k] = Byte(g[k - 1], d, k)
  BY <1>0, ScanSteps
<1> HIDE DEF g
<1>2. Wrong = {}
  <2> SUFFICES ASSUME Wrong # {} PROVE FALSE
    OBVIOUS
  <2>1. PICK k \in Wrong : \A j \in Wrong : k <= j
    <3>1. Wrong \in SUBSET Nat
      BY <1>0
    <3> HIDE DEF Wrong
    <3> QED
      BY <3>1, HasLeast
  <2>2. k \in 0 .. m - c /\ ~Scanned(g[k], p, b, c + k)
    OBVIOUS
  <2>3. CASE k = 0
    <3>1. c + k = c
      BY <2>3
    <3>2. Scanned(p, p, b, c)
      BY DEF Scanned
    <3> QED
      BY <1>1, <2>2, <2>3, <3>1, <3>2
  <2>4. CASE k # 0
    <3>1. /\ k - 1 \in 0 .. m - c /\ k \in 1 .. m - c /\ ~(k <= k - 1)
          /\ c + (k - 1) \in Nat /\ c + (k - 1) < Bytes /\ (c + (k - 1)) + 1 = c + k
      BY <2>2, <2>4, BodyAssumption
    <3>2. Scanned(g[k - 1], p, b, c + (k - 1))
      BY <2>1, <3>1
    <3>3. g[k] = Byte(g[k - 1], d, k)
      BY <1>1, <3>1
    <3>4. g[k] = Byte(g[k - 1], b, (c + (k - 1)) + 1)
      <4>1. Byte(g[k - 1], d, k) = Byte(g[k - 1], b, c + k)
        BY <3>1, SameByte, ZenonT(30)
      <4> QED
        BY <3>1, <3>3, <4>1
    <3> DEFINE n == c + (k - 1)
    <3>5. n \in Nat /\ n < Bytes /\ n + 1 = c + k /\ g[k] = Byte(g[k - 1], b, n + 1)
      BY <3>1, <3>4
    <3>6. ParserType(g[k - 1]) /\ Counts(g[k - 1], b, n)
      BY <3>2 DEF Scanned
    <3> HIDE DEF n
    <3>7. /\ ParserType(g[k]) /\ Counts(g[k], b, n + 1) /\ g[k].lineBuf = g[k - 1].lineBuf
          /\ type = "openai" => /\ g[k].prompt = g[k - 1].prompt
                                /\ g[k].completion = g[k - 1].completion
      BY <3>5, <3>6, ByteCounted
    <3>8. Scanned(g[k], p, b, c + k)
      BY <3>2, <3>5, <3>7 DEF Scanned
    <3> QED
      BY <2>2, <3>8
  <2> QED
    BY <2>3, <2>4
<1>3. m - c \in 0 .. m - c /\ c + (m - c) = m
  BY <1>0
<1>4. Scanned(g[m - c], p, b, c + (m - c))
  BY <1>2, <1>3
<1> QED
  BY <1>3, <1>4 DEF g

\* Complete is the last newline.
LEMMA CompleteIs ==
  ASSUME NEW d \in Seq(Chunk), NEW n, n = Complete(d)
  PROVE  /\ n \in 0 .. Len(d) /\ (n = 0 \/ d[n] = NL)
         /\ \A i \in n + 1 .. Len(d) : d[i] # NL
<1> DEFINE ends == {i \in DOMAIN d : d[i] = NL}
<1>0. Len(d) \in Nat /\ DOMAIN d = 1 .. Len(d)
  BY LenProperties
<1>1. CASE ends = {}
  <2>1. n = 0
    BY <1>1 DEF Complete
  <2> QED
    BY <1>0, <1>1, <2>1
<1>2. CASE ends # {}
  <2>1. n = SetExt!Max(ends)
    BY <1>2 DEF Complete
  <2> DEFINE bounds == {k \in Nat : \A i \in ends : i <= k}
  <2>2. PICK k \in bounds : \A j \in bounds : k <= j
    <3>1. bounds \in SUBSET Nat /\ Len(d) \in bounds
      BY <1>0
    <3> HIDE DEF bounds
    <3> QED
      BY <3>1, HasLeast
  <2>3. k \in ends
    <3> SUFFICES ASSUME k \notin ends PROVE FALSE
      OBVIOUS
    <3>1. PICK i \in ends : TRUE
      BY <1>2
    <3>2. i \in Nat /\ i # 0 /\ i <= k /\ k \in Nat
      BY <1>0, <2>2
    <3>3. k - 1 \in Nat /\ ~(k <= k - 1)
      BY <3>2
    <3>4. ASSUME NEW j \in ends PROVE j <= k - 1
      <4>1. j \in Nat /\ j <= k /\ j # k
        BY <1>0, <2>2
      <4> QED
        BY <3>2, <4>1
    <3> QED
      BY <2>2, <3>3, <3>4
  <2>4. \A y \in ends : k >= y
    BY <1>0, <2>2
  <2> HIDE DEF ends
  <2>5. n \in ends /\ \A y \in ends : n >= y
    BY <2>1, <2>3, <2>4, Zenon DEF SetExt!Max
  <2> QED
    BY <1>0, <2>5 DEF ends
<1> QED
  BY <1>1, <1>2

\* Two adjoining parts are one part.
LEMMA PartsJoined ==
  ASSUME NEW b \in [1 .. Bytes -> Chunk], NEW a \in Nat, NEW n \in Nat, NEW m \in Nat,
         a <= n, n <= m, m <= Bytes
  PROVE  Part(b, a, n) \o Part(b, n, m) = Part(b, a, m)
<1> DEFINE s == Part(b, a, n)
           t == Part(b, n, m)
           u == Part(b, a, m)
<1>0. n <= Bytes /\ a <= m
  BY BodyAssumption
<1>1. s \in Seq(Chunk) /\ Len(s) = n - a /\ \A i \in 1 .. n - a : s[i] = b[a + i]
  BY <1>0, PartType
<1>2. t \in Seq(Chunk) /\ Len(t) = m - n /\ \A i \in 1 .. m - n : t[i] = b[n + i]
  BY <1>0, PartType
<1>3. u \in Seq(Chunk) /\ Len(u) = m - a /\ \A i \in 1 .. m - a : u[i] = b[a + i]
  BY <1>0, PartType
<1> HIDE DEF s, t, u
<1>4. Len(u) = Len(s) + Len(t)
  BY <1>1, <1>2, <1>3
<1>5. \A i \in 1 .. Len(s) : u[i] = s[i]
  BY <1>1, <1>3
<1>6. \A i \in 1 .. Len(t) : u[Len(s) + i] = t[i]
  <2> SUFFICES ASSUME NEW i \in 1 .. m - n PROVE u[(n - a) + i] = t[i]
    BY <1>1, <1>2
  <2>1. (n - a) + i \in 1 .. m - a /\ a + ((n - a) + i) = n + i
    OBVIOUS
  <2> QED
    BY <1>2, <1>3, <2>1
<1>7. s \o t = u
  BY <1>1, <1>2, <1>3, <1>4, <1>5, <1>6, Joined
<1> QED
  BY <1>7 DEF s, t, u

\* The end of a part is a part.
LEMMA PartEnd ==
  ASSUME NEW b \in [1 .. Bytes -> Chunk], NEW a \in Nat, NEW m \in Nat, a <= m, m <= Bytes,
         NEW k \in 0 .. m - a
  PROVE  SubSeq(Part(b, a, m), k + 1, m - a) = Part(b, a + k, m)
<1> DEFINE u == Part(b, a, m)
<1>1. u \in Seq(Chunk) /\ Len(u) = m - a /\ \A i \in 1 .. m - a : u[i] = b[a + i]
  BY PartType
<1> HIDE DEF u
<1>2. SubSeq(u, k + 1, m - a) = [i \in 1 .. m - (a + k) |-> u[i + k]]
  <2>1. SubSeq(u, k + 1, m - a) = [i \in 1 .. (1 + (m - a)) - (k + 1) |-> u[i + (k + 1) - 1]]
    BY <1>1
  <2>2. (1 + (m - a)) - (k + 1) = m - (a + k)
    OBVIOUS
  <2>3. \A i \in 1 .. m - (a + k) : i + (k + 1) - 1 = i + k
    OBVIOUS
  <2> QED
    BY <2>1, <2>2, <2>3
<1>3. \A i \in 1 .. m - (a + k) : u[i + k] = b[(a + k) + i]
  <2> TAKE i \in 1 .. m - (a + k)
  <2>1. i + k \in 1 .. m - a /\ a + (i + k) = (a + k) + i
    OBVIOUS
  <2> QED
    BY <1>1, <2>1
<1> QED
  BY <1>2, <1>3 DEF Part, u

\* lineBuf is the line that has not ended.
KeptLine(q, b, m) ==
    \E c \in 0 .. m : /\ c = 0 \/ b[c] = NL
                      /\ \A i \in c + 1 .. m : b[i] # NL
                      /\ q.lineBuf = Part(b, c, m)

LEMMA FeedCounted ==
  ASSUME NEW b \in [1 .. Bytes -> Chunk], NEW n \in Nat, NEW m \in Nat, n <= m, m <= Bytes,
         type \in {"openai", "anthropic"},
         NEW q, ParserType(q), Counts(q, b, n), KeptLine(q, b, n),
         NEW r, r = feed(q, Part(b, n, m))
  PROVE  /\ ParserType(r) /\ Counts(r, b, m) /\ KeptLine(r, b, m)
         /\ type = "openai" => r.prompt = q.prompt /\ r.completion = q.completion
<1> DEFINE data == Part(b, n, m)
<1>0. data \in Seq(Chunk) /\ Len(data) = m - n
  BY PartType
<1>1. CASE data = <<>>
  <2>1. r = q
    BY <1>1 DEF feed
  <2>2. n = m
    BY <1>0, <1>1
  <2> QED
    BY <2>1, <2>2
<1>2. CASE data # <<>>
  <2>1. r = feedLines(q, data)
    BY <1>2 DEF feed
  <2>2. PICK c \in 0 .. n : /\ c = 0 \/ b[c] = NL
                            /\ \A i \in c + 1 .. n : b[i] # NL
                            /\ q.lineBuf = Part(b, c, n)
    BY DEF KeptLine
  <2>3. c \in Nat /\ c <= n /\ c <= m
    BY <2>2
  <2> DEFINE d == Part(b, c, m)
             k == Complete(d)
             p == [q EXCEPT !.lineBuf = SubSeq(d, k + 1, Len(d))]
  <2>4. q.lineBuf \o data = d
    BY <2>2, <2>3, PartsJoined
  <2>5. r = Scan(p, d)[Len(d)]
    BY <2>1, <2>4 DEF feedLines
  <2>6. /\ d \in Seq(Chunk) /\ Len(d) = m - c
        /\ \A i \in 1 .. m - c : d[i] = b[c + i]
    BY <2>3, PartType
  <2> HIDE DEF d
  <2>7. /\ k \in 0 .. Len(d) /\ (k = 0 \/ d[k] = NL)
        /\ \A i \in k + 1 .. Len(d) : d[i] # NL
    BY <2>6, CompleteIs
  <2> HIDE DEF k
  <2>8. SubSeq(d, k + 1, Len(d)) = Part(b, c + k, m) /\ c + k \in Nat /\ c + k <= m
    <3>1. k \in 0 .. m - c /\ c + k \in Nat /\ c + k <= m
      BY <2>3, <2>6, <2>7
    <3>2. SubSeq(Part(b, c, m), k + 1, m - c) = Part(b, c + k, m)
      BY <2>3, <3>1, PartEnd
    <3> QED
      BY <2>6, <3>1, <3>2 DEF d
  <2>9. p.lineBuf = Part(b, c + k, m) /\ p.lineBuf \in Seq(Chunk)
    <3>1. p.lineBuf = SubSeq(d, k + 1, Len(d))
      BY DEF ParserType
    <3>2. Part(b, c + k, m) \in Seq(Chunk)
      BY <2>8, PartType
    <3> QED
      BY <2>8, <3>1, <3>2
  <2>10. DOMAIN p = DOMAIN q /\ SameTexts(q, p) /\ SameTokens(q, p) /\ p.ratio = q.ratio
    BY DEF ParserType, SameTexts, SameTokens
  <2> HIDE DEF p
  <2>11. ParserType(p)
    BY <2>9, <2>10, Zenon DEF ParserType, SameTexts, SameTokens
  <2>12. \A E : SeenIn(b, n, E) = SeenIn(b, c, E)
    BY <2>2, <2>3 DEF SeenIn
  <2>13. Counts(q, b, c)
    BY <2>12, CountsInside
  <2>14. Counts(p, b, c)
    BY <2>10, <2>13, Zenon
       DEF SameTexts, SameTokens, Counts, TextCounts, AnthropicCounts, OpenAICounts
  <2>15. Scanned(Scan(p, d)[m - c], p, b, m)
    BY <2>2, <2>3, <2>11, <2>14, ScanCounted DEF d
  <2>16. Scanned(r, p, b, m)
    BY <2>5, <2>6, <2>15
  <2>17. KeptLine(r, b, m)
    <3>1. c + k \in 0 .. m
      BY <2>8
    <3>2. c + k = 0 \/ b[c + k] = NL
      <4>1. CASE k = 0
        BY <2>2, <2>3, <4>1
      <4>2. CASE k # 0
        BY <2>6, <2>7, <4>2
      <4> QED
        BY <4>1, <4>2
    <3>3. ASSUME NEW i \in (c + k) + 1 .. m PROVE b[i] # NL
      <4>1. i - c \in k + 1 .. Len(d) /\ i - c \in 1 .. m - c /\ c + (i - c) = i
        BY <2>3, <2>6, <2>7
      <4> QED
        BY <2>6, <2>7, <4>1
    <3>4. r.lineBuf = Part(b, c + k, m)
      BY <2>9, <2>16 DEF Scanned
    <3> QED
      BY <3>1, <3>2, <3>3, <3>4 DEF KeptLine
  <2> QED
    BY <2>10, <2>16, <2>17 DEF Scanned, SameTokens
<1> QED
  BY <1>1, <1>2
-----------------------------------------------------------------------------
(* The parser, in every state.                                             *)

ParserInv ==
    /\ type \in {"openai", "anthropic", "ollama"} /\ closes \in {0, 1, 2}
    /\ closes > 0 => caller = "closed"
    /\ ParserType(parser)
    /\ type # "ollama" => Counts(parser, body, Len(got)) /\ KeptLine(parser, body, Len(got))
    /\ type = "openai" => /\ parser.prompt = IF closes = 0 THEN 0 ELSE parser.toks
                          /\ parser.completion = IF closes = 0 THEN 0 ELSE parser.output
    /\ type = "ollama" => parser.prompt = 0 /\ parser.completion = 0

LEMMA InitParser == StreamInit => ParserInv
<1> SUFFICES ASSUME StreamInit PROVE ParserInv
  OBVIOUS
<1>1. parser = NewParser /\ closes = 0 /\ got = <<>> /\ type \in {"openai", "anthropic", "ollama"}
  BY StreamAssumption DEF StreamInit, Init
<1>2. ParserType(parser)
  BY <1>1 DEF ParserType, NewParser
<1>3. Len(got) = 0
  BY <1>1
<1>4. \A E : SeenIn(body, 0, E) = {} /\ SettledIn(body, 0, E) = {} /\ ~Open(body, 0, E)
  BY DEF SeenIn, SettledIn, Open
<1>5. Cardinality({}) = 0
  BY FS_EmptySet
<1>6. TextCounts(parser, body, 0)
  <2>1. TextLen * 0 = 0 /\ Least(0, MaxContent) = 0 /\ ~(0 > MaxContent)
    BY StreamAssumption DEF Least, TextLen
  <2>2. /\ parser.ttft = FALSE /\ parser.content = 0 /\ parser.think = 0 /\ parser.text = 0
        /\ parser.truncated = FALSE
    BY <1>1 DEF NewParser
  <2>3. (SeenIn(body, 0, {"text", "think"}) # {}) = FALSE /\ (0 > MaxContent) = FALSE
    BY <1>4, <2>1
  <2> QED
    BY <1>4, <1>5, <2>1, <2>2, <2>3, Zenon DEF TextCounts
<1>7. AnthropicCounts(parser, body, 0) /\ OpenAICounts(parser, body, 0)
  <2>1. /\ parser.input = 0 /\ parser.output = 0 /\ parser.prompt = 0
        /\ parser.completion = 0 /\ parser.toks = 0
    BY <1>1 DEF NewParser
  <2> QED
    BY <1>4, <1>5, <2>1, Zenon DEF AnthropicCounts, OpenAICounts
<1>8. KeptLine(parser, body, 0)
  <2>1. parser.lineBuf = Part(body, 0, 0)
    BY <1>1 DEF NewParser, Part
  <2>2. 0 \in 0 .. 0 /\ \A i \in 0 + 1 .. 0 : body[i] # NL
    OBVIOUS
  <2> QED
    BY <2>1, <2>2 DEF KeptLine
<1>9. parser.prompt = 0 /\ parser.completion = 0
  BY <1>1 DEF NewParser
<1> QED
  BY <1>1, <1>2, <1>3, <1>6, <1>7, <1>8, <1>9 DEF ParserInv, Counts

LEMMA NextParser == BodyInv /\ BodyInv' /\ ParserInv /\ [StreamNext]_all => ParserInv'
<1> SUFFICES ASSUME BodyInv, BodyInv', ParserInv, [StreamNext]_all PROVE ParserInv'
  OBVIOUS
<1>1. ASSUME UNCHANGED <<got, body, type, parser, closes>>,
             caller = "closed" => caller' = "closed"
      PROVE  ParserInv'
  <2>1. Len(got') = Len(got)
    BY <1>1
  <2>2. Counts(parser, body, Len(got))' <=> Counts(parser, body, Len(got))
    BY <1>1 DEF Counts, TextCounts, AnthropicCounts, OpenAICounts
  <2> QED
    BY <1>1, <2>1, <2>2 DEF ParserInv
<1>2. CASE InterceptedRead
  <2> DEFINE n == Len(got)
             m == Len(got')
  <2>1. /\ parser' = feed(parser, Part(body, n, m)) /\ n \in Nat /\ m \in Nat /\ n <= m
        /\ m <= Bytes /\ body \in [1 .. Bytes -> Chunk] /\ body' = body
    BY <1>2, FedPart DEF InterceptedRead, Intercept
  <2>2. type' = type /\ closes' = closes /\ caller # "closed"
    BY <1>2 DEF InterceptedRead, Intercept, ReadPending, Receive, GiveUp
  <2>3. closes = 0
    BY <2>2 DEF ParserInv
  <2>4. CASE type = "ollama"
    <3>1. parser' = parser \/ parser' = [parser EXCEPT !.ttft = TRUE]
      BY <2>1, <2>4 DEF feed
    <3>2. ParserType(parser') /\ parser'.prompt = parser.prompt /\ parser'.completion = parser.completion
      <4>1. CASE parser' = parser
        BY <4>1 DEF ParserInv
      <4>2. CASE parser' = [parser EXCEPT !.ttft = TRUE]
        BY <4>2 DEF ParserInv, ParserType
      <4> QED
        BY <3>1, <4>1, <4>2
    <3> QED
      BY <2>2, <2>3, <2>4, <3>2 DEF ParserInv
  <2>5. CASE type # "ollama"
    <3>1. type \in {"openai", "anthropic"}
      BY <2>5 DEF ParserInv
    <3>2. ParserType(parser) /\ Counts(parser, body, n) /\ KeptLine(parser, body, n)
      BY <2>5 DEF ParserInv
    <3> HIDE DEF n, m
    <3>3. /\ ParserType(parser') /\ Counts(parser', body, m) /\ KeptLine(parser', body, m)
          /\ type = "openai" => /\ parser'.prompt = parser.prompt
                                /\ parser'.completion = parser.completion
      BY <2>1, <3>1, <3>2, FeedCounted
    <3>4. Counts(parser, body, Len(got))'
      BY <2>1, <2>2, <3>3 DEF Counts, m
    <3>5. KeptLine(parser, body, Len(got))'
      BY <2>1, <3>3 DEF m
    <3> QED
      BY <2>2, <2>3, <3>1, <3>3, <3>4, <3>5 DEF ParserInv
  <2> QED
    BY <2>4, <2>5
<1>3. CASE FirstClose
  <2>1. /\ parser' = recordFinal(parser) /\ closes = 0 /\ closes' = 1 /\ caller' = "closed"
        /\ got' = got /\ body' = body /\ type' = type
    BY <1>3 DEF FirstClose, onClose, Close
  <2>2. ParserType(parser)
    BY DEF ParserInv
  <2>3. CASE type = "ollama"
    <3>1. parser' = parser
      BY <2>1, <2>3 DEF recordFinal
    <3> QED
      BY <2>1, <2>3, <3>1 DEF ParserInv
  <2>4. CASE type # "ollama"
    <3> DEFINE p == parser
               r == parser'
               some == parser.content + parser.think > 0
    <3>1. CASE type = "anthropic"
      <4>1. r = [p EXCEPT !.ratio = some]
        BY <2>1, <3>1 DEF recordFinal
      <4> HIDE DEF some
      <4>2. DOMAIN r = DOMAIN p /\ SameTexts(p, r) /\ SameTokens(p, r) /\ r.lineBuf = p.lineBuf
        BY <2>2, <4>1 DEF ParserType, SameTexts, SameTokens
      <4>3. r.ratio = some /\ some \in BOOLEAN
        BY <2>2, <4>1 DEF ParserType, some
      <4>4. ParserType(r)
        BY <2>2, <4>2, <4>3, Zenon DEF ParserType, SameTexts, SameTokens
      <4>5. TextCounts(p, body, Len(got)) /\ AnthropicCounts(p, body, Len(got))
            /\ KeptLine(p, body, Len(got))
        BY <2>4, <3>1 DEF ParserInv, Counts
      <4>6. TextCounts(r, body, Len(got)) /\ AnthropicCounts(r, body, Len(got))
            /\ KeptLine(r, body, Len(got))
        BY <4>2, <4>5, Zenon DEF SameTexts, SameTokens, TextCounts, AnthropicCounts, KeptLine
      <4> QED
        BY <2>1, <3>1, <4>4, <4>6, Zenon DEF ParserInv, Counts
    <3>2. CASE type = "openai"
      <4>1. r = [p EXCEPT !.prompt = @ + p.toks, !.completion = @ + p.output, !.ratio = some]
        BY <2>1, <3>2 DEF recordFinal
      <4> HIDE DEF some
      <4>2. /\ DOMAIN r = DOMAIN p /\ SameTexts(p, r) /\ r.lineBuf = p.lineBuf
            /\ r.input = p.input /\ r.output = p.output /\ r.toks = p.toks
        BY <2>2, <4>1 DEF ParserType, SameTexts
      <4>3. r.ratio = some /\ some \in BOOLEAN
        BY <2>2, <4>1 DEF ParserType, some
      <4>4. r.prompt = p.prompt + p.toks /\ r.completion = p.completion + p.output
        BY <2>2, <4>1 DEF ParserType
      <4>5. p.prompt = 0 /\ p.completion = 0
        BY <2>1, <3>2 DEF ParserInv
      <4>6. r.prompt = r.toks /\ r.completion = r.output
        BY <2>2, <4>2, <4>4, <4>5 DEF ParserType
      <4>7. ParserType(r)
        BY <2>2, <4>2, <4>3, <4>6, Zenon DEF ParserType, SameTexts
      <4>8. TextCounts(p, body, Len(got)) /\ OpenAICounts(p, body, Len(got))
            /\ KeptLine(p, body, Len(got))
        BY <2>4, <3>2 DEF ParserInv, Counts
      <4>9. TextCounts(r, body, Len(got)) /\ OpenAICounts(r, body, Len(got))
            /\ KeptLine(r, body, Len(got))
        BY <4>2, <4>8, Zenon DEF SameTexts, TextCounts, OpenAICounts, KeptLine
      <4>10. closes' # 0
        BY <2>1
      <4> QED
        BY <2>1, <3>2, <4>6, <4>7, <4>9, <4>10, Zenon DEF ParserInv, Counts
    <3> QED
      BY <2>4, <3>1, <3>2 DEF ParserInv
  <2> QED
    BY <2>3, <2>4
<1>4. CASE CloseAgain
  <2>1. /\ parser' = parser /\ closes = 1 /\ closes' = 2 /\ caller' = caller
        /\ got' = got /\ body' = body /\ type' = type
    BY <1>4 DEF CloseAgain, vars
  <2>2. Counts(parser, body, Len(got))' <=> Counts(parser, body, Len(got))
    BY <2>1 DEF Counts, TextCounts, AnthropicCounts, OpenAICounts
  <2> QED
    BY <2>1, <2>2 DEF ParserInv
<1>5. CASE UNCHANGED all
  BY <1>1, <1>5 DEF all, vars, streamVars
<1>6. CASE Backend
  BY <1>1, <1>6 DEF Backend, Send, End, Tick, streamVars
<1>7. CASE ReadLoop
  BY <1>1, <1>7 DEF ReadLoop, Loop, LoopRead, LoopSend, streamVars
<1>8. CASE StartRead
  BY <1>1, <1>8 DEF StartRead, ReadWait, streamVars
<1>9. CASE ClientLeaves
  BY <1>1, <1>9 DEF ClientLeaves
<1> QED
  BY <1>2, <1>3, <1>4, <1>5, <1>6, <1>7, <1>8, <1>9 DEF StreamNext, Client

LEMMA AlwaysParserInv == StreamSpec => []ParserInv
  BY InitParser, AlwaysBodyInv, NextParser, PTL DEF StreamSpec

\* The property's view of the received lines is the body's, up to what was read.
LEMMA SeenIsSeenIn ==
  ASSUME BodyInv, NEW E
  PROVE  /\ Seen(E) = SeenIn(body, Len(got), E)
         /\ Settled(E) = Cardinality(SettledIn(body, Len(got), E))
<1> DEFINE n == Len(got)
<1>1. /\ n \in Nat /\ n <= Bytes /\ body \in [1 .. Bytes -> Chunk]
      /\ Received = Part(body, 0, n)
  BY GotPart
<1>2. DOMAIN Received = 1 .. n /\ \A i \in 1 .. n : Received[i] = body[i]
  BY <1>1 DEF Part
<1> HIDE DEF n
<1>3. LineEnds = {i \in 1 .. n : body[i] = NL}
  BY <1>2 DEF LineEnds
<1>4. ASSUME NEW F PROVE Seen(F) = SeenIn(body, n, F)
  BY <1>1, <1>2, <1>3 DEF Seen, SeenIn
<1>5. Settled(E) = Cardinality(SettledIn(body, n, E))
  BY <1>4 DEF Settled, SettledIn, EndMarks
<1> QED
  BY <1>4, <1>5 DEF n

\* For every body, buffer and cap, and however the bytes were cut into reads, the
\* parser's first token, text, reasoning and kept text are those of the complete
\* lines received.
THEOREM SplitFreeHolds == StreamSpec => []SplitFree
<1>1. BodyInv /\ ParserInv => SplitFree
  <2> SUFFICES ASSUME BodyInv, ParserInv, type # "ollama" PROVE SplitFree
    BY DEF SplitFree
  <2>1. TextCounts(parser, body, Len(got))
    BY DEF ParserInv, Counts
  <2>2. \A E : Seen(E) = SeenIn(body, Len(got), E)
    BY SeenIsSeenIn
  <2> QED
    BY <2>1, <2>2, Zenon DEF SplitFree, TextCounts
<1> QED
  BY <1>1, AlwaysBodyInv, AlwaysParserInv, PTL

\* Whatever messages a stream holds, repeated or left open, and however often Close
\* is called, the token counters are raised once for each message that ended.
THEOREM CountedOnceHolds == StreamSpec => []CountedOnce
<1>1. BodyInv /\ ParserInv => CountedOnce
  <2> SUFFICES ASSUME BodyInv, ParserInv PROVE CountedOnce
    OBVIOUS
  <2>1. \A E : Seen(E) = SeenIn(body, Len(got), E)
                /\ Settled(E) = Cardinality(SettledIn(body, Len(got), E))
    BY SeenIsSeenIn
  <2>2. CASE type = "anthropic"
    <3>1. AnthropicCounts(parser, body, Len(got))
      BY <2>2 DEF ParserInv, Counts
    <3> QED
      BY <2>1, <2>2, <3>1 DEF CountedOnce, PromptTotal, CompletionTotal, AnthropicCounts
  <2>3. CASE type = "openai"
    <3>1. OpenAICounts(parser, body, Len(got))
      BY <2>3 DEF ParserInv, Counts
    <3>2. /\ parser.prompt = IF closes = 0 THEN 0 ELSE parser.toks
          /\ parser.completion = IF closes = 0 THEN 0 ELSE parser.output
      BY <2>3 DEF ParserInv
    <3>3. closes > 0 <=> closes # 0
      BY DEF ParserInv
    <3>4. Seen({"usage"}) = SeenIn(body, Len(got), {"usage"})
      BY <2>1
    <3> QED
      BY <2>3, <3>1, <3>2, <3>3, <3>4 DEF CountedOnce, PromptTotal, CompletionTotal, OpenAICounts
  <2>4. CASE type = "ollama"
    <3>1. parser.prompt = 0 /\ parser.completion = 0
      BY <2>4 DEF ParserInv
    <3> QED
      BY <2>4, <3>1 DEF CountedOnce, PromptTotal, CompletionTotal
  <2> QED
    BY <2>2, <2>3, <2>4 DEF ParserInv
<1> QED
  BY <1>1, AlwaysBodyInv, AlwaysParserInv, PTL
-----------------------------------------------------------------------------
(* What the balancer hears.                                                *)

Outcomes == {"success", "timeout"}

Told ==
    /\ closes \in {0, 1, 2} /\ (closes = 0 <=> caller # "closed")
    /\ told \in Seq(Outcomes) /\ gone \in BOOLEAN
    /\ Len(told) = IF closes = 0 THEN 0 ELSE 1
    /\ \A i \in 1 .. Len(told) : told[i] = "success" \/ gone \/ TimedOut

LEMMA NextTold == Told /\ [StreamNext]_all => Told'
<1> SUFFICES ASSUME Told, [StreamNext]_all PROVE Told'
  OBVIOUS
<1>1. ASSUME UNCHANGED <<closes, told, gone>>, caller' # "closed" <=> caller # "closed",
             result' = result \/ caller # "closed"
      PROVE  Told'
  <2>1. caller # "closed" => Len(told') = 0
    BY <1>1 DEF Told
  <2>2. \A i \in 1 .. Len(told') : (told'[i] = "success" \/ gone' \/ TimedOut')
    BY <1>1, <2>1 DEF Told, TimedOut
  <2> QED
    BY <1>1, <2>2 DEF Told
<1>2. CASE UNCHANGED all
  BY <1>1, <1>2 DEF all, vars, streamVars
<1>3. CASE Backend
  BY <1>1, <1>3 DEF Backend, Send, End, Tick, streamVars
<1>4. CASE ReadLoop
  BY <1>1, <1>4 DEF ReadLoop, Loop, LoopRead, LoopSend, streamVars
<1>5. CASE InterceptedRead
  BY <1>1, <1>5 DEF InterceptedRead, Intercept, ReadPending, Receive, GiveUp
<1>6. CASE StartRead
  BY <1>1, <1>6 DEF StartRead, ReadWait, streamVars
<1>7. CASE FirstClose
  <2> DEFINE o == IF TimedOut \/ gone THEN "timeout" ELSE "success"
  <2>1. /\ caller' = "closed" /\ closes' = 1 /\ told' = Append(told, o) /\ gone' = gone
        /\ closes = 0 /\ (TimedOut' <=> TimedOut)
    BY <1>7 DEF FirstClose, Close, onClose, TimedOut
  <2>2. o \in Outcomes /\ (o = "success" \/ gone \/ TimedOut)
    BY DEF Outcomes
  <2> HIDE DEF o
  <2>3. told \in Seq(Outcomes) /\ Len(told) = 0
    BY <2>1 DEF Told
  <2>4. told' \in Seq(Outcomes) /\ Len(told') = 1 /\ told'[1] = o
    BY <2>1, <2>2, <2>3
  <2>5. \A i \in 1 .. Len(told') : told'[i] = "success" \/ gone' \/ TimedOut'
    BY <2>1, <2>2, <2>4
  <2> QED
    BY <2>1, <2>4, <2>5 DEF Told
<1>8. CASE CloseAgain
  <2>1. /\ closes = 1 /\ closes' = 2 /\ told' = told /\ gone' = gone /\ caller' = caller
        /\ (TimedOut' <=> TimedOut)
    BY <1>8 DEF CloseAgain, vars, TimedOut
  <2>2. closes' \in {0, 1, 2} /\ (closes' = 0 <=> caller' # "closed")
    BY <2>1 DEF Told
  <2>3. Len(told') = IF closes' = 0 THEN 0 ELSE 1
    BY <2>1 DEF Told
  <2>4. \A i \in 1 .. Len(told') : told'[i] = "success" \/ gone' \/ TimedOut'
    BY <2>1, Zenon DEF Told
  <2> QED
    BY <2>1, <2>2, <2>3, <2>4, Zenon DEF Told
<1>9. CASE ClientLeaves
  <2>1. gone' = TRUE /\ UNCHANGED <<closes, told, caller>>
    BY <1>9 DEF ClientLeaves
  <2> QED
    BY <2>1 DEF Told
<1> QED
  BY <1>2, <1>3, <1>4, <1>5, <1>6, <1>7, <1>8, <1>9 DEF StreamNext, Client

LEMMA AlwaysTold == StreamSpec => []Told
<1>1. StreamInit => Told
  <2> SUFFICES ASSUME StreamInit PROVE Told
    OBVIOUS
  <2>1. told \in Seq(Outcomes) /\ Len(told) = 0
    BY DEF StreamInit
  <2>2. \A i \in 1 .. Len(told) : told[i] = "success" \/ gone \/ TimedOut
    BY <2>1
  <2>3. closes \in {0, 1, 2} /\ (closes = 0 <=> caller # "closed")
    BY DEF StreamInit, Init
  <2>4. Len(told) = IF closes = 0 THEN 0 ELSE 1
    BY <2>1 DEF StreamInit
  <2> QED
    BY <2>1, <2>2, <2>3, <2>4, Zenon DEF StreamInit, Told
<1> QED
  BY <1>1, NextTold, PTL DEF StreamSpec

\* However Close is repeated and the client's departure interleaves with it,
\* closeOnce lets onClose report one outcome, and a timeout only of a client that
\* has left or of a connection that timed out.
THEOREM SettledOnceHolds == StreamSpec => []SettledOnce
<1>1. Told => SettledOnce
  <2> SUFFICES ASSUME Told PROVE SettledOnce
    OBVIOUS
  <2>1. Len(told) = Least(closes, 1)
    BY DEF Told, Least
  <2>2. DOMAIN told = 1 .. Len(told)
    BY LenProperties DEF Told
  <2> QED
    BY <2>1, <2>2 DEF Told, SettledOnce
<1> QED
  BY <1>1, AlwaysTold, PTL
-----------------------------------------------------------------------------
(* The wrapped body implements a plain stream.                             *)

\* The error of a body the wrapper closed itself reaches nobody: the caller that
\* closed it reads no more.
ClosedUnseen ==
    /\ hand.err = "closed" => rcClosed
    /\ ch # <<>> /\ Head(ch).err = "closed" => rcClosed
    /\ pendErr = "closed" => rcClosed
    /\ rcClosed => result # "none" \/ caller = "closed"

LEMMA NextClosedUnseen ==
  BodyInv /\ BodyInv' /\ ClosedUnseen /\ [StreamNext]_all => ClosedUnseen'
<1> SUFFICES ASSUME BodyInv, BodyInv', ClosedUnseen, [StreamNext]_all PROVE ClosedUnseen'
  OBVIOUS
<1>0. SType /\ EndLast
  BY DEF BodyInv
<1>1. ASSUME UNCHANGED <<rcClosed, hand, ch, pendErr, result, caller>> PROVE ClosedUnseen'
  BY <1>1 DEF ClosedUnseen
<1>2. CASE UNCHANGED all \/ CloseAgain
  BY <1>1, <1>2 DEF all, vars, streamVars, CloseAgain
<1>3. CASE Backend
  BY <1>1, <1>3 DEF Backend, Send, End, Tick, reader, streamVars
<1>4. CASE ClientLeaves
  BY <1>1, <1>4 DEF ClientLeaves, reader
<1>5. CASE LoopRead
  <2>1. UNCHANGED <<rcClosed, ch, pendErr, result, caller>>
    BY <1>5 DEF LoopRead, upstream
  <2>2. hand'.err = "closed" => rcClosed
    BY <1>0, <1>5 DEF LoopRead, SType
  <2> QED
    BY <2>1, <2>2 DEF ClosedUnseen
<1>6. CASE LoopSend
  <2>1. ch' = <<hand>> /\ hand' = NoHand /\ UNCHANGED <<rcClosed, pendErr, result, caller>>
    BY <1>6 DEF LoopSend, upstream
  <2>2. Head(ch') = hand
    BY <2>1
  <2> QED
    BY <2>1, <2>2 DEF ClosedUnseen, NoHand
<1>7. CASE ReadPending
  <2>1. /\ UNCHANGED <<rcClosed, ch, hand, caller>> /\ result = "none"
        /\ caller = "idle" /\ pendErr' \in {pendErr, "none"}
    BY <1>7 DEF ReadPending, Deliver, reader
  <2> QED
    BY <2>1 DEF ClosedUnseen
<1>8. CASE Receive
  <2>1. /\ UNCHANGED <<rcClosed, hand>> /\ ch' = <<>> /\ caller = "waiting" /\ result = "none"
        /\ pendErr' \in {Head(ch).err, "none"} /\ ch # <<>>
    BY <1>0, <1>8 DEF Receive, Deliver, reader, EndLast
  <2> QED
    BY <2>1 DEF ClosedUnseen
<1>9. CASE GiveUp \/ Close
  BY <1>9 DEF GiveUp, Close, ClosedUnseen, reader
<1>10. CASE ReadWait
  BY <1>10 DEF ReadWait, ClosedUnseen, reader
<1> QED
  BY <1>2, <1>3, <1>4, <1>5, <1>6, <1>7, <1>8, <1>9, <1>10
     DEF StreamNext, Client, ReadLoop, Loop, InterceptedRead, StartRead, FirstClose

\* A Read that returns is a read of the plain stream.
LEMMA ReadMaps ==
  ASSUME BodyInv, BodyInv', ClosedUnseen, Told, InterceptedRead, ReadPending \/ Receive
  PROVE  \E n \in 0 .. PSize : Stream!Read(n)
<1> DEFINE n == Len(got') - Len(got)
<1>1. /\ Len(got) \in Nat /\ Len(got') \in Nat /\ Len(got) <= Len(got')
      /\ Len(got') <= Len(got) + PSize
  BY FedPart, GotGrows
<1>2. n \in 0 .. PSize /\ Len(got) + n = Len(got')
  BY <1>1, BodyAssumption
<1>3. /\ result = "none" /\ caller # "closed"
      /\ UNCHANGED <<sent, end, gone, told>>
  BY DEF ReadPending, Receive, upstream, InterceptedRead, Intercept, BodyInv, EndLast
<1>4. told = <<>>
  BY <1>3 DEF Told
<1>5. result' \in {"none", pendErr} \/ (ch # <<>> /\ result' \in {"none", Head(ch).err})
  BY <1>3 DEF ReadPending, Receive, Deliver
<1>6. result' # "closed" /\ result' # "timeout"
  <2>1. ~rcClosed
    BY <1>3 DEF ClosedUnseen
  <2>2. pendErr \in Errs /\ (ch # <<>> => Head(ch).err \in Errs)
    <3>1. pendErr \in Errs /\ ch \in Seq(Results)
      BY DEF BodyInv, SType
    <3>2. ASSUME ch # <<>> PROVE Head(ch) \in Results
      BY <3>1, <3>2, HeadTailProperties
    <3> QED
      BY <3>1, <3>2 DEF Results
  <2> QED
    BY <1>5, <2>1, <2>2 DEF ClosedUnseen, Errs
<1>7. result' \in {"none"} \cup BackendEnds
  BY <1>6 DEF BodyInv, SType, Errs, BackendEnds
<1>8. got' = Stretch(0, Len(got')) /\ Len(got') <= sent
  <2>1. PICK i, j, k \in 0 .. read' : got' = Stretch(0, i)
    BY DEF BodyInv, Stretches, InStretches
  <2>2. i \in Nat /\ 0 \in Nat /\ 0 <= i /\ i <= sent' /\ i - 0 = i
    BY <2>1, BodyAssumption DEF BodyInv, SType
  <2>3. Len(got') = i
    BY <2>1, <2>2, StretchType
  <2> QED
    BY <1>3, <2>1, <2>2, <2>3
<1>9. got' = Stream!Beginning(Len(got'))
  BY <1>1, <1>8 DEF Stretch, Stream!Beginning
<1>10. result' \in BackendEnds => Len(got') = sent /\ result' = end
  <2>1. (result \in BackendEnds => Len(got) = sent /\ result = end)'
    BY ResultLast, PTL
  <2> QED
    BY <1>3, <2>1
<1> HIDE DEF n
<1>11. Stream!Read(n)
  BY <1>2, <1>3, <1>4, <1>7, <1>8, <1>9, <1>10 DEF Stream!Read, Stream!Reading
<1> QED
  BY <1>2, <1>11

LEMMA StreamStep ==
  ASSUME BodyInv, BodyInv', ClosedUnseen, Told, [StreamNext]_all
  PROVE  [Stream!Next]_Stream!vars
<1> USE DEF Stream!vars
<1>1. CASE InterceptedRead
  <2>1. CASE ReadPending \/ Receive
    BY <1>1, <2>1, ReadMaps DEF Stream!Next
  <2>2. CASE GiveUp
    <3>1. /\ caller = "waiting" /\ result' = "timeout" /\ result = "none"
          /\ UNCHANGED <<sent, end, got, gone, told>>
      BY <1>1, <2>2 DEF GiveUp, upstream, InterceptedRead, Intercept, BodyInv, EndLast
    <3>2. told = <<>>
      BY <3>1 DEF Told
    <3> QED
      BY <3>1, <3>2 DEF Stream!Next, Stream!GiveUp, Stream!Reading
  <2> QED
    BY <1>1, <2>1, <2>2 DEF InterceptedRead
<1>2. CASE FirstClose
  <2> DEFINE o == IF gone \/ result = "netTimeout" THEN "timeout" ELSE "success"
  <2>1. /\ closes = 0 /\ told' = Append(told, o)
        /\ UNCHANGED <<sent, end, got, result, gone>>
    BY <1>2 DEF FirstClose, Close, onClose, TimedOut, upstream
  <2>2. told = <<>>
    BY <2>1 DEF Told
  <2>3. told' = <<o>>
    BY <2>1, <2>2
  <2> QED
    BY <2>1, <2>2, <2>3 DEF Stream!Next, Stream!Close
<1>3. CASE ClientLeaves
  <2>1. /\ ~gone /\ caller # "closed" /\ gone' = TRUE
        /\ end' = IF end = "none" THEN "canceled" ELSE end
        /\ UNCHANGED <<sent, got, result, told>>
    BY <1>3 DEF ClientLeaves
  <2>2. told = <<>>
    BY <2>1 DEF Told
  <2> QED
    BY <2>1, <2>2 DEF Stream!Next, Stream!Leave
<1>4. CASE Backend
  <2>1. CASE Tick
    BY <1>4, <2>1 DEF Backend, Tick, upstream, streamVars
  <2>2. CASE Send \/ End
    BY <1>4, <2>2 DEF Backend, Send, End, streamVars, Stream!Next, Stream!Send
  <2> QED
    BY <1>4, <2>1, <2>2 DEF Backend
<1>5. CASE ReadLoop
  BY <1>5 DEF ReadLoop, Loop, LoopRead, LoopSend, upstream, streamVars
<1>6. CASE StartRead
  BY <1>6 DEF StartRead, ReadWait, upstream, streamVars
<1>7. CASE CloseAgain \/ UNCHANGED all
  BY <1>7 DEF CloseAgain, all, vars, streamVars
<1> QED
  BY <1>1, <1>2, <1>3, <1>4, <1>5, <1>6, <1>7 DEF StreamNext, Client

\* For every length of the body and of the buffers, and every interleaving of
\* readLoop, the timer, the client and Close, the wrapped body does nothing that
\* ByteStream does not allow: the goroutine and its channel are not visible.
THEOREM DeliversHolds == StreamSpec => Delivers
<1>1. StreamInit => Stream!Init
  BY DEF StreamInit, Init, Stream!Init
<1>2. StreamInit => ClosedUnseen
  BY DEF StreamInit, Init, ClosedUnseen, NoHand
<1>3. StreamSpec => []ClosedUnseen
  BY <1>2, AlwaysBodyInv, NextClosedUnseen, PTL DEF StreamSpec
<1>4. BodyInv /\ BodyInv' /\ ClosedUnseen /\ Told /\ [StreamNext]_all
        => [Stream!Next]_Stream!vars
  BY StreamStep
<1> QED
  BY <1>1, <1>3, <1>4, AlwaysBodyInv, AlwaysTold, PTL DEF StreamSpec, Delivers, Stream!Spec
-----------------------------------------------------------------------------
(* What Ends and ReaderFreed rest on besides fairness.                     *)

\* A caller that waits can be answered: its timer runs and will fire, and an end
\* that readLoop has handed over before it exited is not lost, so that nobody
\* waits for the timeout of a stream that is over.
Answerable ==
    caller = "waiting" => /\ timer \in 0 .. Timeout
                          /\ loop = "exited" => ch # <<>>

\* The error readLoop exited with is in the channel, left over behind bytes, or
\* reported; the timer is stopped only for a caller that reads no more.
EndKept ==
    /\ timer \in 0 .. Timeout \cup {Stopped}
    /\ timer = Stopped => result # "none" \/ caller = "closed"
    /\ pendErr # "none" => pending # <<>>
    /\ loop = "exited" => \/ ch # <<>> /\ Head(ch).err # "none"
                          \/ pendErr # "none"
                          \/ result # "none"

\* Bytes are handed over with their error, or the error is kept behind the rest.
LEMMA DeliverKeepsEnd ==
  ASSUME NEW buf \in Seq(Nat), NEW err \in Errs, Deliver(buf, err)
  PROVE  /\ pendErr' # "none" => pending' # <<>>
         /\ err # "none" => pendErr' = err \/ result' = err
         /\ pendErr' = err \/ pendErr' = "none"
<1> DEFINE n == Least(Len(buf), PSize)
<1>1. Len(buf) \in Nat /\ n \in Nat /\ n <= Len(buf)
  BY LenProperties, BodyAssumption DEF Least
<1>2. pending' = SubSeq(buf, n + 1, Len(buf))
  BY DEF Deliver
<1>3. CASE n < Len(buf)
  <2>1. Len(pending') = Len(buf) - n
    BY <1>1, <1>2, <1>3
  <2>2. pending' # <<>>
    BY <1>1, <1>3, <2>1
  <2> QED
    BY <1>3, <2>2 DEF Deliver
<1>4. CASE ~(n < Len(buf))
  BY <1>4 DEF Deliver
<1> QED
  BY <1>3, <1>4

LEMMA NextEndKept == BodyInv /\ EndKept /\ [StreamNext]_all => EndKept'
<1> SUFFICES ASSUME BodyInv, EndKept, [StreamNext]_all PROVE EndKept'
  OBVIOUS
<1>0. SType /\ EndLast
  BY DEF BodyInv
<1>1. ASSUME UNCHANGED <<timer, loop, ch, pending, pendErr, result, caller>> PROVE EndKept'
  BY <1>1 DEF EndKept
<1>2. CASE UNCHANGED all \/ CloseAgain
  BY <1>1, <1>2 DEF all, vars, streamVars, CloseAgain
<1>3. CASE Backend
  <2>1. CASE Tick
    <3>1. UNCHANGED <<loop, ch, pending, pendErr, result, caller>>
      BY <2>1 DEF Tick, reader
    <3>2. timer' \in 0 .. Timeout /\ timer' # Stopped
      BY <2>1, BodyAssumption DEF Tick, EndKept, Stopped
    <3> QED
      BY <3>1, <3>2 DEF EndKept
  <2> QED
    BY <1>1, <1>3, <2>1 DEF Backend, Send, End, reader
<1>4. CASE ClientLeaves
  BY <1>1, <1>4 DEF ClientLeaves, reader
<1>5. CASE LoopRead
  BY <1>5 DEF LoopRead, EndKept
<1>6. CASE LoopSend
  <2>1. /\ ch' = <<hand>> /\ loop' = IF hand.err = "none" THEN "reading" ELSE "exited"
        /\ UNCHANGED <<timer, pending, pendErr, result, caller>>
    BY <1>6 DEF LoopSend
  <2>2. ch' # <<>> /\ Head(ch') = hand
    BY <2>1
  <2> QED
    BY <2>1, <2>2 DEF EndKept
<1>7. CASE ReadPending
  <2>1. /\ UNCHANGED <<timer, loop, ch, caller>> /\ result = "none"
        /\ Deliver(pending, pendErr)
    BY <1>7 DEF ReadPending, reader
  <2>2. /\ pendErr' # "none" => pending' # <<>>
        /\ pendErr # "none" => pendErr' = pendErr \/ result' = pendErr
    BY <1>0, <2>1, DeliverKeepsEnd DEF SType
  <2>3. timer # Stopped \/ caller = "closed"
    BY <2>1 DEF EndKept
  <2> QED
    BY <2>1, <2>2, <2>3 DEF EndKept
<1>8. CASE Receive
  <2> DEFINE h == Head(ch)
  <2>1. /\ ch # <<>> /\ ch' = <<>> /\ caller = "waiting" /\ caller' = "idle"
        /\ loop' = loop /\ Deliver(h.buf, h.err)
        /\ timer' = IF h.buf # <<>> THEN 0 ELSE timer
    BY <1>8 DEF Receive, reader
  <2>2. h \in Results
    BY <1>0, <2>1 DEF SType
  <2>3. h.buf \in Seq(Nat) /\ h.err \in Errs
    BY <2>2 DEF Results
  <2>4. pending = <<>> /\ result = "none"
    BY <1>0, <2>1 DEF EndLast
  <2>5. pendErr = "none"
    BY <2>4 DEF EndKept
  <2> HIDE DEF h
  <2>6. /\ pendErr' # "none" => pending' # <<>>
        /\ h.err # "none" => pendErr' = h.err \/ result' = h.err
    BY <2>1, <2>3, DeliverKeepsEnd
  <2>7. loop = "exited" => h.err # "none"
    BY <2>4, <2>5 DEF EndKept, h
  <2>8. timer' \in 0 .. Timeout /\ timer' # Stopped
    BY <2>1, <2>4, BodyAssumption DEF EndKept, Stopped
  <2> QED
    BY <2>1, <2>6, <2>7, <2>8 DEF EndKept
<1>9. CASE GiveUp \/ Close
  BY <1>9 DEF GiveUp, Close, EndKept, reader
<1>10. CASE ReadWait
  BY <1>10 DEF ReadWait, EndKept, reader
<1> QED
  BY <1>2, <1>3, <1>4, <1>5, <1>6, <1>7, <1>8, <1>9, <1>10
     DEF StreamNext, Client, ReadLoop, Loop, InterceptedRead, StartRead, FirstClose

\* However bytes, ends, timer and reads interleave, a Read that waits has a timer
\* that will fire, and never waits behind a readLoop that has exited without an
\* answer in the channel.
THEOREM AnswerableHolds == StreamSpec => []Answerable
<1>1. StreamInit => EndKept
  BY BodyAssumption DEF StreamInit, Init, EndKept, Stopped
<1>2. StreamSpec => []EndKept
  BY <1>1, AlwaysBodyInv, NextEndKept, PTL DEF StreamSpec
<1>3. BodyInv /\ EndKept => Answerable
  BY DEF BodyInv, EndLast, EndKept, Answerable
<1> QED
  BY <1>2, <1>3, AlwaysBodyInv, PTL

\* Steps readLoop still has before it when the body is closed.
StepsLeft ==
    CASE loop = "exited" \/ (loop = "sending" /\ ch # <<>>) -> 0
      [] loop = "reading" /\ ch # <<>> -> 1
      [] loop = "sending" /\ ch = <<>> -> 2
      [] OTHER -> 3

\* A closed body stays closed, and every step of anybody that concerns readLoop or
\* its channel brings readLoop nearer to where it stops: it takes three at most.
WindsDown ==
    [][caller = "closed" =>
         /\ caller' = "closed"
         /\ \/ StepsLeft' < StepsLeft
            \/ UNCHANGED <<loop, ch>>]_all

\* After Close readLoop takes at most three more steps, whatever it was about and
\* whatever the backend sends: it cannot keep reading for a client that is gone.
\* (Whether the last of them is its exit is another matter: see ReaderFreed.)
THEOREM WindsDownHolds == StreamSpec => WindsDown
<1>1. ASSUME [StreamNext]_all, caller = "closed"
      PROVE  /\ caller' = "closed"
             /\ StepsLeft' < StepsLeft \/ UNCHANGED <<loop, ch>>
  <2>1. CASE UNCHANGED all \/ CloseAgain \/ Backend \/ ClientLeaves
    BY <1>1, <2>1 DEF all, vars, streamVars, CloseAgain, Backend, Send, End, Tick,
       ClientLeaves, reader
  <2>2. CASE Client
    BY <1>1, <2>2 DEF Client, InterceptedRead, ReadPending, Receive, GiveUp, StartRead,
       ReadWait, FirstClose, Close
  <2>3. CASE LoopRead
    BY <1>1, <2>3 DEF LoopRead, StepsLeft
  <2>4. CASE LoopSend
    <3>1. ch = <<>> /\ ch' # <<>> /\ loop = "sending" /\ loop' \in {"reading", "exited"}
      BY <2>4 DEF LoopSend
    <3> QED
      BY <1>1, <2>4, <3>1 DEF LoopSend, StepsLeft
  <2> QED
    BY <1>1, <2>1, <2>2, <2>3, <2>4 DEF StreamNext, ReadLoop, Loop
<1>2. [StreamNext]_all
        => [caller = "closed" =>
              /\ caller' = "closed"
              /\ StepsLeft' < StepsLeft \/ UNCHANGED <<loop, ch>>]_all
  BY <1>1
<1> QED
  BY <1>2, PTL DEF StreamSpec, WindsDown
=============================================================================
