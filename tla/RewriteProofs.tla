----------------------------- MODULE RewriteProofs -----------------------------
(***************************************************************************)
(* Proofs about Rewrite, for every set of requests, every route and every  *)
(* combination of parameters and maps the requests send.                   *)
(***************************************************************************)
EXTENDS Rewrite, TLAPS

Values == Reqs \cup {None, "default", "clamp", "inject", "required", "usage"}

Steps == {"merge", "inject", "copying", "usage", "counting", "translate", "writing",
          "encode", "encoding", "sent"}

RType ==
    /\ route \in Routes /\ input \in [Reqs -> Inputs]
    /\ pc \in [Reqs -> Steps]
    /\ body \in [Reqs -> [Keys -> Values]]
    /\ ollamaKeys \in [Reqs -> SUBSET Keys] /\ nested \in [Reqs -> SUBSET Keys]
    /\ held \in [Reqs -> [Maps -> {"absent", "own", "shared"}]]
    /\ entry \in [Reqs -> [Maps -> Values]] /\ shared \in [Maps -> Values]
    /\ crashed \in BOOLEAN

\* The value of one key after the merge, before and after max_completion_tokens
\* has given way, and after the inject.
Before(r, k) ==
    CASE k \in route.clamp -> "clamp"
      [] k \in (input[r].sends \cap Sampling) \ route.clamp -> r
      [] k \in route.defaults \ (route.clamp \cup (input[r].sends \cap Sampling)) -> "default"
      [] k \in input[r].sends \ (route.clamp \cup route.defaults \cup Sampling) -> r
      [] OTHER -> None

Merged(r, k) ==
    IF k = "max_completion_tokens" /\ Before(r, "max_tokens") # None
    THEN None ELSE Before(r, k)

Final(r, k) == IF k \in route.inject THEN "inject" ELSE Merged(r, k)

\* The body of a request at every step is a function of the route and of what
\* the request sent, except for Anthropic's temperature.
BodyAt(r) ==
    /\ pc[r] = "inject" => \A k \in Keys : body[r][k] = Merged(r, k)
    /\ pc[r] \in {"copying", "usage", "counting", "translate"} =>
         \A k \in Keys : body[r][k] = Final(r, k)
    /\ pc[r] \in {"writing", "encode", "encoding", "sent"} =>
         /\ body[r]["enable_thinking"] = None
         /\ \A k \in Keys \ {"enable_thinking"} :
              \/ body[r][k] = Final(r, k)
              \/ /\ k = "temperature" /\ body[r][k] = "required" /\ route.type = "anthropic"
                 /\ Final(r, "enable_thinking") # None

\* Every key of an Ollama request is marked before it is in the body, and
\* nested once the body is read.
OptionsAt(r) ==
    input[r].ollama /\ route.type = "ollama" =>
        /\ pc[r] # "merge" => \A k \in Keys : body[r][k] # None => k \in ollamaKeys[r]
        /\ pc[r] \in {"encoding", "sent"} => \A k \in Keys : body[r][k] # None => k \in nested[r]

\* Whose map a request holds: its own, or the route's when it sent none.
MapAt(r, m) ==
    /\ pc[r] = "inject" => held[r][m] = OwnHeld(r)[m]
    /\ pc[r] \notin {"merge", "inject"} =>
         (held[r][m] = "shared" <=> (route.maps[m] # "absent" /\ input[r].maps[m] = "absent"))
    /\ Writing(r, m) => Intrudes(r, m)

\* An entry some request wrote into the route's map.
Left(m, v) == \E q \in Reqs : Intrudes(q, m) /\ v = Written(q, m)

\* What a request sends when translateParams does not write.
Base(r, m) == IF Filed(m) # None THEN Filed(m) ELSE OwnEntry(r, m)

\* Before and after translateParams has written to map m.
Until(m) == {"copying", "usage"} \cup (IF m = Kwargs THEN {"counting", "translate"} ELSE {})
After(m) == {"writing", "encode"} \cup (IF m = Options THEN {"counting", "translate"} ELSE {})

SentLaw(r, m) ==
    entry[r][m] # Expected(r, m) =>
        /\ \E q \in Reqs \ {r} : Intrudes(q, m) /\ entry[r][m] = Written(q, m)
        /\ input[r].maps[m] # "absent" => Written(r, m) = None

\* What a request has in its map, and that the route's map has an entry of some
\* request once this one has written to it.
EntryAt(r, m) ==
    /\ pc[r] = "inject" => entry[r][m] = OwnEntry(r, m)
    /\ pc[r] \in Until(m) /\ held[r][m] # "shared" =>
         entry[r][m] = Base(r, m) \/ Left(m, entry[r][m])
    /\ pc[r] \in After(m) /\ held[r][m] # "shared" =>
         \/ entry[r][m] = Expected(r, m)
         \/ Written(r, m) = None /\ Left(m, entry[r][m])
    /\ pc[r] \in After(m) /\ Intrudes(r, m) => Left(m, shared[m])
    /\ pc[r] \in {"encoding", "sent"} => SentLaw(r, m)

SharedLaw(m) == shared[m] = Filed(m) \/ Left(m, shared[m])

CrashLaw == crashed => \E r \in Reqs, m \in Maps : Intrudes(r, m)

At(r) == BodyAt(r) /\ OptionsAt(r) /\ \A m \in Maps : MapAt(r, m) /\ EntryAt(r, m)

RInv ==
    /\ RType /\ CrashLaw /\ \A m \in Maps : SharedLaw(m)
    /\ \A r \in Reqs : At(r)
-----------------------------------------------------------------------------
\* The two maps are not the same.
LEMMA TwoMaps == Options \in Maps /\ Kwargs \in Maps /\ Options # Kwargs
  BY DEF Maps, Options, Kwargs

\* The layers yield values.
LEMMA LayerType ==
  ASSUME NEW r \in Reqs, NEW k \in Keys
  PROVE  /\ Before(r, k) \in Values /\ Merged(r, k) \in Values /\ Final(r, k) \in Values
  BY DEF Before, Merged, Final, Values

\* For the sampling keys the merge and the inject yield the documented layer.
LEMMA FinalLayer ==
  ASSUME NEW r \in Reqs, NEW k \in Sampling
  PROVE  /\ k # "max_completion_tokens" => Final(r, k) = Layer(r, k)
         /\ Layer(r, "max_tokens") = None => Final(r, k) = Layer(r, k)
<1>1. \A j \in Sampling : (IF j \in route.inject THEN "inject" ELSE Before(r, j)) = Layer(r, j)
  BY DEF Before, Layer
<1>2. Layer(r, "max_tokens") = None => Before(r, "max_tokens") = None
  BY <1>1 DEF Sampling, None
<1> QED
  BY <1>1, <1>2 DEF Final, Merged

\* What translateParams writes into chat_template_kwargs is the request's final
\* value of enable_thinking, on an OpenAI backend.
LEMMA WrittenFinal ==
  ASSUME NEW r \in Reqs
  PROVE  /\ route.type = "openai" => Written(r, Kwargs) = Final(r, "enable_thinking")
         /\ route.type # "openai" => Written(r, Kwargs) = None
         /\ Written(r, Options) = IF Counts(r) THEN "usage" ELSE None
<1>1. Final(r, "enable_thinking") = Layer(r, "enable_thinking")
  BY FinalLayer DEF Sampling
<1> QED
  BY <1>1, TwoMaps DEF Written

\* Entries are values.
LEMMA EntryType ==
  ASSUME NEW r \in Reqs, NEW m \in Maps
  PROVE  /\ OwnEntry(r, m) \in Values /\ Filed(m) \in Values /\ Base(r, m) \in Values
         /\ Written(r, m) \in Values
<1>1. Layer(r, "enable_thinking") \in Values
  BY DEF Layer, Values
<1> QED
  BY <1>1 DEF OwnEntry, Filed, Base, Written, Values

\* What a request should send.
LEMMA ExpectedBase ==
  ASSUME NEW r \in Reqs, NEW m \in Maps
  PROVE  Expected(r, m) = IF Written(r, m) # None THEN Written(r, m) ELSE Base(r, m)
  BY DEF Expected, Base

\* Nothing the layers depend on changes.
LEMMA LayersKept ==
  ASSUME route' = route, input' = input
  PROVE  /\ \A r \in Reqs, k \in Keys : Merged(r, k)' = Merged(r, k) /\ Final(r, k)' = Final(r, k)
         /\ \A r \in Reqs, m \in Maps :
              /\ Expected(r, m)' = Expected(r, m) /\ Written(r, m)' = Written(r, m)
              /\ Intrudes(r, m)' = Intrudes(r, m) /\ Base(r, m)' = Base(r, m)
              /\ OwnEntry(r, m)' = OwnEntry(r, m) /\ OwnHeld(r)'[m] = OwnHeld(r)[m]
         /\ \A m \in Maps : Filed(m)' = Filed(m)
<1>1. \A r \in Reqs, k \in Keys : Merged(r, k)' = Merged(r, k) /\ Final(r, k)' = Final(r, k)
  BY DEF Final, Merged, Before
<1>2. \A r \in Reqs : Layer(r, "enable_thinking")' = Layer(r, "enable_thinking") /\ Counts(r)' = Counts(r)
  BY DEF Layer, Counts
<1>3. \A m \in Maps : Filed(m)' = Filed(m)
  BY DEF Filed
<1>4. \A r \in Reqs, m \in Maps : OwnEntry(r, m)' = OwnEntry(r, m) /\ OwnHeld(r)'[m] = OwnHeld(r)[m]
  BY DEF OwnEntry, OwnHeld
<1>5. \A r \in Reqs, m \in Maps : Written(r, m)' = Written(r, m)
  BY <1>2 DEF Written
<1>6. \A r \in Reqs, m \in Maps : Intrudes(r, m)' = Intrudes(r, m)
  BY <1>5 DEF Intrudes
<1>7. \A r \in Reqs, m \in Maps : Base(r, m)' = Base(r, m) /\ Expected(r, m)' = Expected(r, m)
  BY <1>3, <1>4, <1>5 DEF Base, Expected
<1> QED
  BY <1>1, <1>3, <1>4, <1>5, <1>6, <1>7

\* Nor what a request may have left.
LEMMA LeftKept ==
  ASSUME route' = route, input' = input, NEW m \in Maps, NEW v
  PROVE  (\E q \in Reqs : Intrudes(q, m)' /\ v = Written(q, m)') <=> Left(m, v)
  BY LayersKept DEF Left

\* What is true of an entry that stays.
LEMMA EntryStays ==
  ASSUME route' = route, input' = input, NEW r \in Reqs, NEW m \in Maps
  PROVE  /\ entry'[r][m] = entry[r][m] =>
              /\ Left(m, entry[r][m])' = Left(m, entry[r][m])
              /\ SentLaw(r, m) => SentLaw(r, m)'
         /\ shared'[m] = shared[m] => Left(m, shared[m])' = Left(m, shared[m])
         /\ Left(m, shared'[m]) => Left(m, shared[m])'
  BY LayersKept DEF Left, SentLaw

\* A step of another request disturbs a request only through the route's maps,
\* in which it leaves an entry some request wrote.
LEMMA OthersKept ==
  ASSUME RInv, NEW q \in Reqs, route' = route, input' = input,
         pc'[q] = pc[q], body'[q] = body[q], ollamaKeys'[q] = ollamaKeys[q],
         held'[q] = held[q], entry'[q] = entry[q], nested'[q] = nested[q],
         \A m \in Maps : shared'[m] = shared[m] \/ Left(m, shared'[m])
  PROVE  At(q)'
<1>1. At(q)
  BY DEF RInv
<1>2. BodyAt(q)'
  BY <1>1, LayersKept DEF BodyAt, At, Keys, Sampling
<1>3. OptionsAt(q)'
  BY <1>1 DEF OptionsAt, At
<1>4. ASSUME NEW m \in Maps PROVE MapAt(q, m)' /\ EntryAt(q, m)'
  <2>1. MapAt(q, m) /\ EntryAt(q, m)
    BY <1>1 DEF At
  <2>2. MapAt(q, m)'
    BY <2>1, LayersKept DEF MapAt, Writing
  <2>3. SentLaw(q, m) => SentLaw(q, m)'
    BY LayersKept DEF SentLaw
  <2>4. EntryAt(q, m)'
    BY <2>1, <2>3, LayersKept, LeftKept DEF EntryAt, Left
  <2> QED
    BY <2>2, <2>4
<1> QED
  BY <1>2, <1>3, <1>4 DEF At

\* What remains to be shown of a step of request r.
LEMMA StepOf ==
  ASSUME RInv, NEW r \in Reqs, RType', route' = route, input' = input,
         \A m \in Maps : shared'[m] = shared[m] \/ Left(m, shared'[m]),
         crashed' = crashed,
         \A q \in Reqs \ {r} :
             /\ pc'[q] = pc[q] /\ body'[q] = body[q] /\ ollamaKeys'[q] = ollamaKeys[q]
             /\ held'[q] = held[q] /\ entry'[q] = entry[q] /\ nested'[q] = nested[q],
         BodyAt(r)', OptionsAt(r)', \A m \in Maps : MapAt(r, m)' /\ EntryAt(r, m)'
  PROVE  RInv'
<1>1. \A m \in Maps : SharedLaw(m)'
  BY LayersKept, LeftKept DEF RInv, SharedLaw, Left
<1>2. CrashLaw'
  BY LayersKept DEF RInv, CrashLaw
<1>3. ASSUME NEW q \in Reqs PROVE At(q)'
  <2>1. CASE q = r
    BY <2>1 DEF At
  <2>2. CASE q # r
    BY <2>2, OthersKept
  <2> QED
    BY <2>1, <2>2
<1> QED
  BY <1>1, <1>2, <1>3 DEF RInv
-----------------------------------------------------------------------------
\* It holds when a configuration is loaded and no request has come.
LEMMA InitRInv == Init => RInv
<1> SUFFICES ASSUME Init PROVE RInv
  OBVIOUS
<1>1. RType
  <2>1. shared \in [Maps -> Values]
    BY DEF Init, Filed, Values
  <2> QED
    BY <2>1 DEF Init, RType, Values, Steps, None
<1>2. CrashLaw /\ \A m \in Maps : SharedLaw(m)
  BY DEF Init, SharedLaw, CrashLaw
<1>3. ASSUME NEW r \in Reqs PROVE At(r)
  <2>1. pc[r] = "merge"
    BY DEF Init
  <2>2. BodyAt(r) /\ OptionsAt(r)
    BY <2>1 DEF Init, BodyAt, OptionsAt
  <2>3. ASSUME NEW m \in Maps PROVE MapAt(r, m) /\ EntryAt(r, m)
    BY <2>1 DEF MapAt, Writing, EntryAt, Until, After
  <2> QED
    BY <2>2, <2>3 DEF At
<1> QED
  BY <1>1, <1>2, <1>3 DEF RInv

\* mergeParams and the rule of max_completion_tokens.
LEMMA MergeRInv ==
  ASSUME RInv, NEW r \in Reqs, Merge(r)
  PROVE  RInv'
<1> DEFINE params == mergeParams(route.defaults, r, route.clamp)
<1> DEFINE merged == [k \in Keys |-> IF k \in DOMAIN params THEN params[k]
                                     ELSE IF k \in input[r].sends THEN r ELSE None]
<1> DEFINE new == IF merged["max_tokens"] # None
                  THEN [merged EXCEPT !["max_completion_tokens"] = None] ELSE merged
<1>0. RType
  BY DEF RInv
<1>1. /\ route.defaults \subseteq Keys /\ route.clamp \subseteq Keys
      /\ input[r].sends \subseteq Keys
  BY <1>0, RewriteAssumption DEF RType
<1>2. ASSUME NEW k \in Keys PROVE merged[k] = Before(r, k)
  BY <1>1 DEF mergeParams, Before
<1>3. merged \in [Keys -> Values]
  BY <1>2, LayerType
<1>4. new \in [Keys -> Values] /\ \A k \in Keys : new[k] = Merged(r, k)
  BY <1>2, <1>3, LayerType DEF Merged, Keys, Sampling, Values
<1>5. \A k \in Keys : new[k] # None => k \in input[r].sends \cup DOMAIN params
  BY <1>2 DEF Keys, Sampling
<1>6. input[r].sends \cup DOMAIN params \subseteq Keys
  BY <1>1 DEF mergeParams
<1>7. /\ ~crashed /\ pc[r] = "merge" /\ pc' = [pc EXCEPT ![r] = "inject"]
      /\ body' = [body EXCEPT ![r] = new]
      /\ ollamaKeys' = [ollamaKeys EXCEPT ![r] =
           IF input[r].ollama THEN input[r].sends \cup DOMAIN params ELSE {}]
      /\ held' = [held EXCEPT ![r] = OwnHeld(r)]
      /\ entry' = [entry EXCEPT ![r] = [m \in Maps |-> OwnEntry(r, m)]]
      /\ UNCHANGED <<route, shared, input, nested, crashed>>
  BY DEF Merge, Step
<1> HIDE DEF params, merged, new
<1>8. /\ OwnHeld(r) \in [Maps -> {"absent", "own", "shared"}]
      /\ [m \in Maps |-> OwnEntry(r, m)] \in [Maps -> Values]
  BY EntryType DEF OwnHeld
<1>9. RType'
  BY <1>0, <1>4, <1>6, <1>7, <1>8 DEF RType, Steps
<1>10. /\ pc'[r] = "inject" /\ body'[r] = new
       /\ held'[r] = OwnHeld(r) /\ entry'[r] = [m \in Maps |-> OwnEntry(r, m)]
       /\ ollamaKeys'[r] = IF input[r].ollama THEN input[r].sends \cup DOMAIN params ELSE {}
  BY <1>0, <1>7 DEF RType
<1>11. BodyAt(r)'
  BY <1>4, <1>7, <1>10, LayersKept DEF BodyAt
<1>12. OptionsAt(r)'
  BY <1>5, <1>7, <1>10 DEF OptionsAt
<1>13. ASSUME NEW m \in Maps PROVE MapAt(r, m)' /\ EntryAt(r, m)'
  <2>1. MapAt(r, m)'
    BY <1>7, <1>10, LayersKept DEF MapAt, Writing
  <2>2. EntryAt(r, m)'
    BY <1>7, <1>10, LayersKept DEF EntryAt, Until, After
  <2> QED
    BY <2>1, <2>2
<1> QED
  BY <1>0, <1>7, <1>9, <1>11, <1>12, <1>13, StepOf DEF RType

\* deepMergeInto: the keys of inject, and its maps.
LEMMA InjectRInv ==
  ASSUME RInv, NEW r \in Reqs, Inject(r)
  PROVE  RInv'
<1>0. /\ RType /\ BodyAt(r) /\ OptionsAt(r)
      /\ \A m \in Maps : MapAt(r, m) /\ EntryAt(r, m) /\ SharedLaw(m)
  BY DEF RInv, At
<1> DEFINE newHeld == [m \in Maps |-> IF route.maps[m] # "absent" /\ held[r][m] = "absent"
                                      THEN "shared" ELSE held[r][m]]
<1> DEFINE newEntry == [m \in Maps |-> IF Copies(r, m) /\ shared[m] # None
                                       THEN shared[m] ELSE entry[r][m]]
<1>1. /\ ~crashed /\ pc[r] = "inject" /\ pc' = [pc EXCEPT ![r] = "copying"]
      /\ body' = [body EXCEPT ![r] = Injected(r)]
      /\ ollamaKeys' = [ollamaKeys EXCEPT ![r] =
           IF input[r].ollama THEN @ \cup route.inject ELSE @]
      /\ held' = [held EXCEPT ![r] = newHeld] /\ entry' = [entry EXCEPT ![r] = newEntry]
      /\ UNCHANGED <<route, shared, input, nested, crashed>>
  BY <1>0 DEF Inject, Step, RType
<1>2. newHeld \in [Maps -> {"absent", "own", "shared"}] /\ newEntry \in [Maps -> Values]
  BY <1>0 DEF RType
<1>3. Injected(r) \in [Keys -> Values] /\ \A k \in Keys : Injected(r)[k] = Final(r, k)
  BY <1>0, <1>1 DEF Injected, BodyAt, Final, RType, Values
<1>4. route.inject \subseteq Keys
  BY <1>0, RewriteAssumption DEF RType
<1>5. \A m \in Maps : input[r].maps[m] = "absent" => OwnEntry(r, m) = None
  BY DEF OwnEntry
<1>6. ASSUME NEW m \in Maps
      PROVE  /\ newHeld[m] = "shared" <=> (route.maps[m] # "absent" /\ input[r].maps[m] = "absent")
             /\ newHeld[m] # "shared" => newEntry[m] = Base(r, m) \/ Left(m, newEntry[m])
  <2>1. held[r][m] = OwnHeld(r)[m] /\ entry[r][m] = OwnEntry(r, m) /\ SharedLaw(m)
    BY <1>0, <1>1 DEF MapAt, EntryAt
  <2>2. newHeld[m] = "shared" <=> (route.maps[m] # "absent" /\ input[r].maps[m] = "absent")
    BY <2>1 DEF OwnHeld
  <2>3. CASE Copies(r, m) /\ shared[m] # None
    BY <2>1, <2>2, <2>3 DEF SharedLaw, Base
  <2>4. CASE Copies(r, m) /\ shared[m] = None
    <3>1. newEntry[m] = OwnEntry(r, m)
      BY <2>1, <2>4
    <3>2. CASE Filed(m) = None
      BY <2>2, <3>1, <3>2 DEF Base
    <3>3. CASE Filed(m) # None
      <4>1. PICK q \in Reqs : Intrudes(q, m) /\ shared[m] = Written(q, m)
        BY <2>1, <2>4, <3>3 DEF SharedLaw, Left
      <4> QED
        BY <4>1, <2>4 DEF Intrudes
    <3> QED
      BY <3>2, <3>3
  <2>5. CASE ~Copies(r, m)
    <3>1. newEntry[m] = OwnEntry(r, m)
      BY <2>1, <2>5
    <3>2. newHeld[m] # "shared" => route.maps[m] = "absent"
      BY <2>2, <2>5 DEF Copies
    <3>3. route.maps[m] = "absent" => Filed(m) = None
      BY DEF Filed
    <3> QED
      BY <2>2, <3>1, <3>2, <3>3 DEF Base
  <2> QED
    BY <2>2, <2>3, <2>4, <2>5
<1> HIDE DEF newHeld, newEntry
<1>7. RType'
  BY <1>0, <1>1, <1>2, <1>3, <1>4 DEF RType, Steps
<1>8. /\ pc'[r] = "copying" /\ body'[r] = Injected(r) /\ held'[r] = newHeld /\ entry'[r] = newEntry
      /\ ollamaKeys'[r] = IF input[r].ollama THEN ollamaKeys[r] \cup route.inject ELSE ollamaKeys[r]
  BY <1>0, <1>1 DEF RType
<1>9. BodyAt(r)'
  BY <1>1, <1>3, <1>8, LayersKept DEF BodyAt
<1>10. OptionsAt(r)'
  BY <1>0, <1>1, <1>8 DEF OptionsAt, Injected
<1>11. ASSUME NEW m \in Maps PROVE MapAt(r, m)' /\ EntryAt(r, m)'
  <2>1. MapAt(r, m)'
    BY <1>1, <1>6, <1>8 DEF MapAt, Writing
  <2>2. pc'[r] \notin After(m)
    BY <1>8 DEF After
  <2>3. EntryAt(r, m)'
    BY <1>1, <1>6, <1>8, <2>2, LayersKept, LeftKept DEF EntryAt, Left, After, Until
  <2> QED
    BY <2>1, <2>3
<1> QED
  BY <1>0, <1>1, <1>7, <1>9, <1>10, <1>11, StepOf DEF RType
-----------------------------------------------------------------------------
\* A step that leaves the body and its maps alone.
LEMMA MovesRInv ==
  ASSUME RInv, NEW r \in Reqs, NEW to \in Steps, pc' = [pc EXCEPT ![r] = to],
         UNCHANGED <<route, shared, input, body, ollamaKeys, held, entry, nested, crashed>>,
         \/ pc[r] = "copying" /\ to = "usage"
         \/ pc[r] = "usage" /\ to = "translate" /\ ~Counts(r)
         \/ pc[r] = "counting" /\ to = "translate"
         \/ pc[r] = "writing" /\ to = "encode"
         \/ pc[r] = "encoding" /\ to = "sent"
  PROVE  RInv'
<1>0. /\ RType /\ BodyAt(r) /\ OptionsAt(r)
      /\ \A m \in Maps : MapAt(r, m) /\ EntryAt(r, m)
  BY DEF RInv, At
<1>1. RType' /\ pc'[r] = to
  BY <1>0 DEF RType
<1>2. BodyAt(r)'
  BY <1>0, <1>1, LayersKept DEF BodyAt, Keys, Sampling
<1>3. OptionsAt(r)'
  BY <1>0, <1>1 DEF OptionsAt
<1>4. ASSUME NEW m \in Maps PROVE MapAt(r, m)' /\ EntryAt(r, m)'
  <2>0. MapAt(r, m) /\ EntryAt(r, m)
    BY <1>0
  <2>1. MapAt(r, m)'
    BY <2>0, <1>1, LayersKept DEF MapAt, Writing
  <2>2. /\ Left(m, entry[r][m])' = Left(m, entry[r][m]) /\ (SentLaw(r, m) => SentLaw(r, m)')
        /\ Left(m, shared[m])' = Left(m, shared[m])
        /\ Expected(r, m)' = Expected(r, m) /\ Written(r, m)' = Written(r, m)
        /\ Intrudes(r, m)' = Intrudes(r, m) /\ Base(r, m)' = Base(r, m)
    BY EntryStays, LayersKept
  <2>3. CASE pc[r] \in {"copying", "counting", "writing", "encoding"}
    <3>1. /\ to \in Until(m) => pc[r] \in Until(m)
          /\ to \in After(m) => pc[r] \in After(m)
          /\ to # "inject" /\ (to \in {"encoding", "sent"} => pc[r] = "encoding")
      BY <2>3 DEF Until, After
    <3> QED
      BY <2>0, <2>1, <2>2, <3>1, <1>1 DEF EntryAt
  <2>4. CASE pc[r] = "usage" /\ to = "translate" /\ ~Counts(r)
    <3>1. CASE m = Kwargs
      <4>1. pc[r] \in Until(m) /\ to \notin After(m) \cup {"inject", "encoding", "sent"}
        BY <3>1, <2>4, TwoMaps DEF Until, After
      <4> QED
        BY <2>0, <2>1, <2>2, <4>1, <1>1 DEF EntryAt
    <3>2. CASE m = Options
      <4>1. Written(r, m) = None
        BY <3>2, <2>4, WrittenFinal
      <4>2. Expected(r, m) = Base(r, m) /\ ~Intrudes(r, m)
        BY <4>1, ExpectedBase DEF Intrudes
      <4>3. pc[r] \in Until(m) /\ to \notin Until(m) \cup {"inject", "encoding", "sent"}
        BY <3>2, <2>4, TwoMaps DEF Until, After
      <4> QED
        BY <2>0, <2>1, <2>2, <4>1, <4>2, <4>3, <1>1 DEF EntryAt
    <3> QED
      BY <3>1, <3>2 DEF Maps
  <2> QED
    BY <2>1, <2>3, <2>4
<1> QED
  BY <1>0, <1>1, <1>2, <1>3, <1>4, StepOf DEF RType

\* A request that leaves the body's enable_thinking to the maps, or drops it.
LEMMA TranslatedBody ==
  ASSUME RInv, NEW r \in Reqs, pc[r] = "translate",
         route' = route, input' = input, ollamaKeys' = ollamaKeys,
         NEW to \in {"encode", "writing"}, pc' = [pc EXCEPT ![r] = to],
         body' = [body EXCEPT ![r]["enable_thinking"] = None]
  PROVE  /\ pc' \in [Reqs -> Steps] /\ pc'[r] = to
         /\ body' \in [Reqs -> [Keys -> Values]] /\ BodyAt(r)' /\ OptionsAt(r)'
         /\ \A q \in Reqs \ {r} : pc'[q] = pc[q] /\ body'[q] = body[q]
<1>0. RType /\ BodyAt(r) /\ OptionsAt(r)
  BY DEF RInv, At
<1>1. pc' \in [Reqs -> Steps] /\ pc'[r] = to
  BY <1>0 DEF RType, Steps
<1>2. /\ body' \in [Reqs -> [Keys -> Values]] /\ body'[r]["enable_thinking"] = None
      /\ \A k \in Keys \ {"enable_thinking"} : body'[r][k] = body[r][k]
  BY <1>0 DEF RType, Values, Keys, Sampling
<1>3. BodyAt(r)'
  BY <1>0, <1>1, <1>2, LayersKept DEF BodyAt, Keys, Sampling
<1>4. OptionsAt(r)'
  BY <1>0, <1>1, <1>2 DEF OptionsAt
<1> QED
  BY <1>0, <1>1, <1>2, <1>3, <1>4 DEF RType

\* The value translateParams finds.
LEMMA FoundThinking ==
  ASSUME RInv, NEW r \in Reqs, pc[r] = "translate"
  PROVE  /\ Thinking(r) = Final(r, "enable_thinking") /\ Thinking(r) \in Values
         /\ route.type = "openai" => Written(r, Kwargs) = Thinking(r)
         /\ route.type # "openai" => Written(r, Kwargs) = None
<1>1. Thinking(r) = Final(r, "enable_thinking")
  BY DEF RInv, At, BodyAt, Thinking, Keys, Sampling
<1> QED
  BY <1>1, WrittenFinal, LayerType DEF Keys, Sampling

\* No entry is written into chat_template_kwargs.
LEMMA UnwrittenMaps ==
  ASSUME RInv, NEW r \in Reqs, pc[r] = "translate", Written(r, Kwargs) = None,
         pc'[r] = "encode", UNCHANGED <<route, shared, input, held, entry>>
  PROVE  \A m \in Maps : MapAt(r, m)' /\ EntryAt(r, m)'
<1> TAKE m \in Maps
<1>0. MapAt(r, m) /\ EntryAt(r, m)
  BY DEF RInv, At
<1>1. MapAt(r, m)'
  BY <1>0, LayersKept DEF MapAt, Writing
<1>2. /\ Left(m, entry[r][m])' = Left(m, entry[r][m])
      /\ Left(m, shared[m])' = Left(m, shared[m])
      /\ Expected(r, m)' = Expected(r, m) /\ Written(r, m)' = Written(r, m)
      /\ Intrudes(r, m)' = Intrudes(r, m) /\ Base(r, m)' = Base(r, m)
  BY EntryStays, LayersKept
<1>3. pc'[r] \in After(m) /\ pc'[r] \notin Until(m) \cup {"inject", "encoding", "sent"}
  BY DEF Until, After
<1>4. CASE m = Options
  <2>1. pc[r] \in After(m)
    BY <1>4, TwoMaps DEF After
  <2> QED
    BY <1>0, <1>1, <1>2, <1>3, <2>1 DEF EntryAt
<1>5. CASE m = Kwargs
  <2>1. Expected(r, m) = Base(r, m) /\ ~Intrudes(r, m)
    BY <1>5, ExpectedBase DEF Intrudes
  <2>2. pc[r] \in Until(m)
    BY <1>5, TwoMaps DEF Until
  <2> QED
    BY <1>0, <1>1, <1>2, <1>3, <1>5, <2>1, <2>2 DEF EntryAt
<1> QED
  BY <1>4, <1>5 DEF Maps

LEMMA DropRInv ==
  ASSUME RInv, NEW r \in Reqs, Drop(r)
  PROVE  RInv'
<1>0. RType
  BY DEF RInv
<1>1. /\ Thinking(r) = None \/ route.type = "ollama"
      /\ ~crashed /\ pc[r] = "translate" /\ pc' = [pc EXCEPT ![r] = "encode"]
      /\ body' = [body EXCEPT ![r]["enable_thinking"] = None]
      /\ UNCHANGED <<route, shared, input, ollamaKeys, held, entry, nested, crashed>>
  BY DEF Drop, Step
<1>2. Written(r, Kwargs) = None
  BY <1>1, FoundThinking
<1>3. RType'
  BY <1>0, <1>1, TranslatedBody DEF RType
<1>4. pc'[r] = "encode" /\ BodyAt(r)' /\ OptionsAt(r)'
  BY <1>1, TranslatedBody
<1>5. \A m \in Maps : MapAt(r, m)' /\ EntryAt(r, m)'
  BY <1>1, <1>2, <1>4, UnwrittenMaps
<1> QED
  BY <1>0, <1>1, <1>3, <1>4, <1>5, StepOf DEF RType

LEMMA AnthropicRInv ==
  ASSUME RInv, NEW r \in Reqs, NEW on \in BOOLEAN, TranslateAnthropic(r, on)
  PROVE  RInv'
<1>0. RType /\ BodyAt(r) /\ OptionsAt(r)
  BY DEF RInv, At
<1>1. /\ Thinking(r) # None /\ route.type = "anthropic"
      /\ ~crashed /\ pc[r] = "translate" /\ pc' = [pc EXCEPT ![r] = "encode"]
      /\ body' = [body EXCEPT ![r]["enable_thinking"] = None,
                              ![r]["temperature"] = IF on THEN "required" ELSE @]
      /\ UNCHANGED <<route, shared, input, ollamaKeys, held, entry, nested, crashed>>
  BY DEF TranslateAnthropic, Step
<1>2. pc' \in [Reqs -> Steps] /\ pc'[r] = "encode"
  BY <1>0, <1>1 DEF RType, Steps
<1>3. /\ body' \in [Reqs -> [Keys -> Values]] /\ body'[r]["enable_thinking"] = None
      /\ body'[r]["temperature"] \in {body[r]["temperature"], "required"}
      /\ \A k \in Keys \ {"enable_thinking", "temperature"} : body'[r][k] = body[r][k]
  <2>1. PICK v : v = IF on THEN "required" ELSE body[r]["temperature"]
    OBVIOUS
  <2>2. v \in Values /\ None \in Values
    BY <1>0, <2>1 DEF RType, Values, Keys, Sampling
  <2>3. body' = [body EXCEPT ![r] = [body[r] EXCEPT !["enable_thinking"] = None, !["temperature"] = v]]
    BY <1>0, <1>1, <2>1 DEF RType, Keys, Sampling
  <2> QED
    BY <1>0, <2>1, <2>2, <2>3 DEF RType, Keys, Sampling
<1>4. RType'
  BY <1>0, <1>1, <1>2, <1>3 DEF RType
<1>5. Final(r, "enable_thinking") # None /\ Written(r, Kwargs) = None
  BY <1>1, FoundThinking
<1>6. BodyAt(r)'
  BY <1>0, <1>1, <1>2, <1>3, <1>5, LayersKept DEF BodyAt, Keys, Sampling
<1>7. OptionsAt(r)'
  BY <1>0, <1>1, <1>2 DEF OptionsAt
<1>8. \A m \in Maps : MapAt(r, m)' /\ EntryAt(r, m)'
  BY <1>1, <1>2, <1>5, UnwrittenMaps
<1> QED
  BY <1>0, <1>1, <1>2, <1>3, <1>4, <1>6, <1>7, <1>8, StepOf DEF RType
-----------------------------------------------------------------------------
\* A write into a map of the request's own: the request has what it should send.
LEMMA OwnMaps ==
  ASSUME RInv, NEW r \in Reqs, NEW n \in Maps, PutOwn(r, n, Written(r, n)), Written(r, n) # None,
         UNCHANGED <<route, input>>,
         \/ pc[r] = "usage" /\ pc'[r] = "translate" /\ n = Options
         \/ pc[r] = "translate" /\ pc'[r] = "encode" /\ n = Kwargs
  PROVE  /\ held' \in [Reqs -> [Maps -> {"absent", "own", "shared"}]]
         /\ entry' \in [Reqs -> [Maps -> Values]]
         /\ \A q \in Reqs \ {r} : held'[q] = held[q] /\ entry'[q] = entry[q]
         /\ \A m \in Maps : MapAt(r, m)' /\ EntryAt(r, m)'
<1>0. RType
  BY DEF RInv
<1>1. /\ held[r][n] # "shared" /\ shared' = shared
      /\ held' = [held EXCEPT ![r][n] = "own"] /\ entry' = [entry EXCEPT ![r][n] = Written(r, n)]
  BY DEF PutOwn
<1>2. /\ held' \in [Reqs -> [Maps -> {"absent", "own", "shared"}]]
      /\ entry' \in [Reqs -> [Maps -> Values]]
      /\ \A q \in Reqs \ {r} : held'[q] = held[q] /\ entry'[q] = entry[q]
      /\ held'[r][n] = "own" /\ entry'[r][n] = Written(r, n)
      /\ \A m \in Maps \ {n} : held'[r][m] = held[r][m] /\ entry'[r][m] = entry[r][m]
  BY <1>0, <1>1, EntryType DEF RType
<1>3. ASSUME NEW m \in Maps PROVE MapAt(r, m)' /\ EntryAt(r, m)'
  <2>0. MapAt(r, m) /\ EntryAt(r, m)
    BY DEF RInv, At
  <2>1. MapAt(r, m)'
    BY <2>0, <1>1, <1>2, LayersKept DEF MapAt, Writing
  <2>2. CASE m = n
    <3>1. Expected(r, m) = Written(r, m)
      BY <2>2, ExpectedBase
    <3>2. ~Intrudes(r, m)
      BY <2>0, <2>2, <1>1 DEF MapAt, Intrudes
    <3> QED
      BY <2>1, <2>2, <3>1, <3>2, <1>2, LayersKept, TwoMaps DEF EntryAt, Until, After
  <2>3. CASE m # n
    <3>1. /\ pc[r] \in Until(m) <=> pc'[r] \in Until(m)
          /\ pc[r] \in After(m) <=> pc'[r] \in After(m)
          /\ pc'[r] \notin {"inject", "encoding", "sent"}
      BY <2>3, TwoMaps DEF Until, After, Maps
    <3>2. /\ entry'[r][m] = entry[r][m] /\ held'[r][m] = held[r][m] /\ shared'[m] = shared[m]
      BY <2>3, <1>1, <1>2
    <3>3. /\ Left(m, entry[r][m])' = Left(m, entry[r][m])
          /\ Left(m, shared[m])' = Left(m, shared[m])
          /\ Expected(r, m)' = Expected(r, m) /\ Written(r, m)' = Written(r, m)
          /\ Intrudes(r, m)' = Intrudes(r, m) /\ Base(r, m)' = Base(r, m)
      BY <3>2, EntryStays, LayersKept
    <3> QED
      BY <2>0, <2>1, <3>1, <3>2, <3>3 DEF EntryAt
  <2> QED
    BY <2>1, <2>2, <2>3
<1> QED
  BY <1>2, <1>3

\* A write into a map of the route: it leaves the entry of the request.
LEMMA SharedMaps ==
  ASSUME RInv, NEW r \in Reqs, NEW n \in Maps, PutShared(r, n, Written(r, n)), Written(r, n) # None,
         UNCHANGED <<route, input>>,
         \/ pc[r] = "usage" /\ pc'[r] = "counting" /\ n = Options
         \/ pc[r] = "translate" /\ pc'[r] = "writing" /\ n = Kwargs
  PROVE  /\ shared' \in [Maps -> Values]
         /\ \A m \in Maps : shared'[m] = shared[m] \/ Left(m, shared'[m])
         /\ \A m \in Maps : MapAt(r, m)' /\ EntryAt(r, m)'
<1>0. RType
  BY DEF RInv
<1>1. /\ held[r][n] = "shared" /\ shared' = [shared EXCEPT ![n] = Written(r, n)]
      /\ UNCHANGED <<held, entry>>
  BY DEF PutShared
<1>2. Intrudes(r, n)
  BY <1>1 DEF RInv, At, MapAt, Intrudes
<1>3. /\ shared' \in [Maps -> Values] /\ shared'[n] = Written(r, n)
      /\ \A m \in Maps \ {n} : shared'[m] = shared[m]
  BY <1>0, <1>1, EntryType DEF RType
<1>4. Left(n, shared'[n])
  BY <1>2, <1>3 DEF Left
<1>5. ASSUME NEW m \in Maps PROVE MapAt(r, m)' /\ EntryAt(r, m)'
  <2>0. MapAt(r, m) /\ EntryAt(r, m)
    BY DEF RInv, At
  <2>1. MapAt(r, m)'
    BY <2>0, <1>1, <1>2, LayersKept, TwoMaps DEF MapAt, Writing
  <2>2. CASE m = n
    <3>1. /\ pc'[r] \in After(m) /\ pc'[r] \notin Until(m) \cup {"inject", "encoding", "sent"}
      BY <2>2, TwoMaps DEF Until, After
    <3>2. Left(m, shared[m])' /\ held'[r][m] = "shared"
      BY <2>2, <1>1, <1>4, EntryStays
    <3> QED
      BY <2>1, <3>1, <3>2 DEF EntryAt
  <2>3. CASE m # n
    <3>1. /\ pc[r] \in Until(m) <=> pc'[r] \in Until(m)
          /\ pc[r] \in After(m) <=> pc'[r] \in After(m)
          /\ pc'[r] \notin {"inject", "encoding", "sent"}
      BY <2>3, TwoMaps DEF Until, After, Maps
    <3>2. /\ entry'[r][m] = entry[r][m] /\ held'[r][m] = held[r][m] /\ shared'[m] = shared[m]
      BY <2>3, <1>1, <1>3
    <3>3. /\ Left(m, entry[r][m])' = Left(m, entry[r][m])
          /\ Left(m, shared[m])' = Left(m, shared[m])
          /\ Expected(r, m)' = Expected(r, m) /\ Written(r, m)' = Written(r, m)
          /\ Intrudes(r, m)' = Intrudes(r, m) /\ Base(r, m)' = Base(r, m)
      BY <3>2, EntryStays, LayersKept
    <3> QED
      BY <2>0, <2>1, <3>1, <3>2, <3>3 DEF EntryAt
  <2> QED
    BY <2>1, <2>2, <2>3
<1> QED
  BY <1>3, <1>4, <1>5

LEMMA UsageOwnRInv ==
  ASSUME RInv, NEW r \in Reqs, UsageOwn(r)
  PROVE  RInv'
<1>0. RType /\ BodyAt(r) /\ OptionsAt(r)
  BY DEF RInv, At
<1>1. /\ Counts(r) /\ pc[r] = "usage" /\ pc' = [pc EXCEPT ![r] = "translate"]
      /\ PutOwn(r, Options, "usage") /\ shared' = shared
      /\ UNCHANGED <<route, input, body, ollamaKeys, nested, crashed>>
  BY DEF UsageOwn, Step, PutOwn
<1>2. pc' \in [Reqs -> Steps] /\ pc'[r] = "translate" /\ \A q \in Reqs \ {r} : pc'[q] = pc[q]
  BY <1>0, <1>1 DEF RType, Steps
<1>3. Written(r, Options) = "usage" /\ "usage" # None
  BY <1>1, WrittenFinal DEF None
<1>4. /\ held' \in [Reqs -> [Maps -> {"absent", "own", "shared"}]]
      /\ entry' \in [Reqs -> [Maps -> Values]]
      /\ \A q \in Reqs \ {r} : held'[q] = held[q] /\ entry'[q] = entry[q]
      /\ \A m \in Maps : MapAt(r, m)' /\ EntryAt(r, m)'
  BY <1>1, <1>2, <1>3, OwnMaps, TwoMaps
<1>5. RType'
  BY <1>0, <1>1, <1>2, <1>4 DEF RType
<1>6. BodyAt(r)'
  BY <1>0, <1>1, <1>2, LayersKept DEF BodyAt
<1>7. OptionsAt(r)'
  BY <1>0, <1>1, <1>2 DEF OptionsAt
<1> QED
  BY <1>1, <1>2, <1>4, <1>5, <1>6, <1>7, StepOf

LEMMA BeginUsageRInv ==
  ASSUME RInv, NEW r \in Reqs, BeginUsage(r)
  PROVE  RInv'
<1>0. RType /\ BodyAt(r) /\ OptionsAt(r)
  BY DEF RInv, At
<1>1. /\ Counts(r) /\ pc[r] = "usage" /\ pc' = [pc EXCEPT ![r] = "counting"]
      /\ PutShared(r, Options, "usage") /\ UNCHANGED <<held, entry>>
      /\ UNCHANGED <<route, input, body, ollamaKeys, nested, crashed>>
  BY DEF BeginUsage, Step, PutShared
<1>2. pc' \in [Reqs -> Steps] /\ pc'[r] = "counting" /\ \A q \in Reqs \ {r} : pc'[q] = pc[q]
  BY <1>0, <1>1 DEF RType, Steps
<1>3. Written(r, Options) = "usage" /\ "usage" # None
  BY <1>1, WrittenFinal DEF None
<1>4. /\ shared' \in [Maps -> Values]
      /\ \A m \in Maps : shared'[m] = shared[m] \/ Left(m, shared'[m])
      /\ \A m \in Maps : MapAt(r, m)' /\ EntryAt(r, m)'
  BY <1>1, <1>2, <1>3, SharedMaps, TwoMaps
<1>5. RType'
  BY <1>0, <1>1, <1>2, <1>4 DEF RType
<1>6. BodyAt(r)'
  BY <1>0, <1>1, <1>2, LayersKept DEF BodyAt
<1>7. OptionsAt(r)'
  BY <1>0, <1>1, <1>2 DEF OptionsAt
<1> QED
  BY <1>1, <1>2, <1>4, <1>5, <1>6, <1>7, StepOf

LEMMA TranslateOwnRInv ==
  ASSUME RInv, NEW r \in Reqs, TranslateOwn(r)
  PROVE  RInv'
<1>0. RType
  BY DEF RInv
<1>1. /\ Thinking(r) # None /\ route.type = "openai"
      /\ pc[r] = "translate" /\ pc' = [pc EXCEPT ![r] = "encode"]
      /\ PutOwn(r, Kwargs, Thinking(r)) /\ shared' = shared
      /\ body' = [body EXCEPT ![r]["enable_thinking"] = None]
      /\ UNCHANGED <<route, input, ollamaKeys, nested, crashed>>
  BY DEF TranslateOwn, Step, PutOwn
<1>2. /\ pc' \in [Reqs -> Steps] /\ pc'[r] = "encode"
      /\ body' \in [Reqs -> [Keys -> Values]] /\ BodyAt(r)' /\ OptionsAt(r)'
      /\ \A q \in Reqs \ {r} : pc'[q] = pc[q] /\ body'[q] = body[q]
  BY <1>1, TranslatedBody
<1>3. Written(r, Kwargs) = Thinking(r)
  BY <1>1, FoundThinking
<1>4. /\ held' \in [Reqs -> [Maps -> {"absent", "own", "shared"}]]
      /\ entry' \in [Reqs -> [Maps -> Values]]
      /\ \A q \in Reqs \ {r} : held'[q] = held[q] /\ entry'[q] = entry[q]
      /\ \A m \in Maps : MapAt(r, m)' /\ EntryAt(r, m)'
  BY <1>1, <1>2, <1>3, OwnMaps, TwoMaps
<1>5. RType'
  BY <1>0, <1>1, <1>2, <1>4 DEF RType
<1> QED
  BY <1>1, <1>2, <1>4, <1>5, StepOf

\* The write to the route's map leaves a value some request resolved.
LEMMA BeginWriteRInv ==
  ASSUME RInv, NEW r \in Reqs, BeginWrite(r)
  PROVE  RInv'
<1>0. RType
  BY DEF RInv
<1>1. /\ Thinking(r) # None /\ route.type = "openai"
      /\ pc[r] = "translate" /\ pc' = [pc EXCEPT ![r] = "writing"]
      /\ PutShared(r, Kwargs, Thinking(r)) /\ UNCHANGED <<held, entry>>
      /\ body' = [body EXCEPT ![r]["enable_thinking"] = None]
      /\ UNCHANGED <<route, input, ollamaKeys, nested, crashed>>
  BY DEF BeginWrite, Step, PutShared
<1>2. /\ pc' \in [Reqs -> Steps] /\ pc'[r] = "writing"
      /\ body' \in [Reqs -> [Keys -> Values]] /\ BodyAt(r)' /\ OptionsAt(r)'
      /\ \A q \in Reqs \ {r} : pc'[q] = pc[q] /\ body'[q] = body[q]
  BY <1>1, TranslatedBody
<1>3. Written(r, Kwargs) = Thinking(r)
  BY <1>1, FoundThinking
<1>4. /\ shared' \in [Maps -> Values]
      /\ \A m \in Maps : shared'[m] = shared[m] \/ Left(m, shared'[m])
      /\ \A m \in Maps : MapAt(r, m)' /\ EntryAt(r, m)'
  BY <1>1, <1>2, <1>3, SharedMaps, TwoMaps
<1>5. RType'
  BY <1>0, <1>1, <1>2, <1>4 DEF RType
<1> QED
  BY <1>1, <1>2, <1>4, <1>5, StepOf
-----------------------------------------------------------------------------
\* What the encoder reads from the route's maps is the request's own entry, or
\* one another request has written since.
LEMMA BeginEncodeRInv ==
  ASSUME RInv, NEW r \in Reqs, BeginEncode(r)
  PROVE  RInv'
<1>0. /\ RType /\ BodyAt(r) /\ OptionsAt(r)
      /\ \A m \in Maps : MapAt(r, m) /\ EntryAt(r, m) /\ SharedLaw(m)
  BY DEF RInv, At
<1> DEFINE read == [m \in Maps |-> IF held[r][m] = "shared" THEN shared[m] ELSE entry[r][m]]
<1>1. /\ pc[r] = "encode" /\ pc' = [pc EXCEPT ![r] = "encoding"]
      /\ nested' = [nested EXCEPT ![r] = {k \in ollamaKeys[r] : body[r][k] # None}]
      /\ entry' = [entry EXCEPT ![r] = read]
      /\ UNCHANGED <<route, shared, input, body, ollamaKeys, held, crashed>>
  BY <1>0 DEF BeginEncode, Step, RType
<1>2. read \in [Maps -> Values]
  BY <1>0 DEF RType
<1>3. {k \in ollamaKeys[r] : body[r][k] # None} \in SUBSET Keys
  BY <1>0 DEF RType
<1>4. ASSUME NEW m \in Maps, read[m] # Expected(r, m)
      PROVE  /\ \E q \in Reqs \ {r} : Intrudes(q, m) /\ read[m] = Written(q, m)
             /\ input[r].maps[m] # "absent" => Written(r, m) = None
  <2>0. MapAt(r, m) /\ EntryAt(r, m) /\ SharedLaw(m) /\ pc[r] \in After(m)
    BY <1>0, <1>1 DEF After
  <2>1. \A q \in Reqs : Intrudes(q, m) /\ read[m] = Written(q, m) => q # r
    BY <1>4, ExpectedBase DEF Intrudes
  <2>2. CASE held[r][m] = "shared"
    <3>1. route.maps[m] # "absent" /\ input[r].maps[m] = "absent" /\ read[m] = shared[m]
      BY <2>0, <2>2, <1>1 DEF MapAt
    <3>2. CASE Written(r, m) # None
      <4>1. Left(m, shared[m])
        BY <3>1, <3>2, <2>0 DEF EntryAt, Intrudes
      <4> QED
        BY <4>1, <3>1, <2>1 DEF Left
    <3>3. CASE Written(r, m) = None
      <4>1. Expected(r, m) = Filed(m)
        BY <3>1, <3>3, ExpectedBase DEF Base, OwnEntry
      <4> QED
        BY <4>1, <3>1, <2>0, <2>1, <1>4 DEF SharedLaw, Left
    <3> QED
      BY <3>2, <3>3
  <2>3. CASE held[r][m] # "shared"
    BY <2>0, <2>1, <2>3, <1>4 DEF EntryAt, Left
  <2> QED
    BY <2>2, <2>3
<1> HIDE DEF read
<1>5. /\ nested' \in [Reqs -> SUBSET Keys]
      /\ nested'[r] = {k \in ollamaKeys[r] : body[r][k] # None}
  BY <1>0, <1>1, <1>3 DEF RType
<1>6. RType' /\ pc'[r] = "encoding" /\ entry'[r] = read
  BY <1>0, <1>1, <1>2, <1>5 DEF RType, Steps
<1>7. BodyAt(r)'
  BY <1>0, <1>1, <1>6, LayersKept DEF BodyAt, Keys, Sampling
<1>8. OptionsAt(r)'
  BY <1>0, <1>1, <1>5, <1>6 DEF OptionsAt
<1>9. ASSUME NEW m \in Maps PROVE MapAt(r, m)' /\ EntryAt(r, m)'
  <2>1. MapAt(r, m)'
    BY <1>0, <1>1, <1>6, LayersKept DEF MapAt, Writing
  <2>2. SentLaw(r, m)'
    BY <1>1, <1>4, <1>6, LayersKept DEF SentLaw
  <2>3. EntryAt(r, m)'
    BY <1>6, <2>2 DEF EntryAt, Until, After
  <2> QED
    BY <2>1, <2>3
<1> QED
  BY <1>0, <1>1, <1>6, <1>7, <1>8, <1>9, StepOf DEF RType

\* The process ends only while some request writes to a map of the route.
LEMMA CrashRInv ==
  ASSUME RInv, ConcurrentMapAccess
  PROVE  RInv'
<1>1. PICK r \in Reqs, m \in Maps : Writing(r, m)
  BY DEF ConcurrentMapAccess
<1>2. /\ crashed' = TRUE
      /\ UNCHANGED <<route, shared, input, pc, body, ollamaKeys, held, entry, nested>>
  BY DEF ConcurrentMapAccess
<1>3. MapAt(r, m) /\ RType
  BY DEF RInv, At
<1>4. CrashLaw'
  BY <1>1, <1>2, <1>3, LayersKept DEF CrashLaw, MapAt
<1>5. RType'
  BY <1>2, <1>3 DEF RType
<1>6. \A n \in Maps : SharedLaw(n)'
  BY <1>2, LayersKept, LeftKept DEF RInv, SharedLaw, Left
<1>7. \A q \in Reqs : At(q)'
  BY <1>2, OthersKept
<1> QED
  BY <1>4, <1>5, <1>6, <1>7 DEF RInv

LEMMA NextRInv == RInv /\ [Next]_vars => RInv'
<1> SUFFICES ASSUME RInv, [Next]_vars PROVE RInv'
  OBVIOUS
<1>1. CASE UNCHANGED vars
  <2>1. /\ UNCHANGED <<route, shared, input, pc, body, ollamaKeys, held>>
        /\ UNCHANGED <<entry, nested, crashed>>
    BY <1>1 DEF vars
  <2>2. RType' /\ CrashLaw'
    BY <2>1, LayersKept DEF RInv, RType, CrashLaw
  <2>3. \A n \in Maps : SharedLaw(n)'
    BY <2>1, LayersKept, LeftKept DEF RInv, SharedLaw, Left
  <2>4. \A q \in Reqs : At(q)'
    BY <2>1, OthersKept
  <2> QED
    BY <2>2, <2>3, <2>4 DEF RInv
<1>2. CASE ConcurrentMapAccess
  BY <1>2, CrashRInv
<1>3. ASSUME NEW r \in Reqs, Handle(r) PROVE RInv'
  <2>1. CASE EndInject(r) \/ SkipUsage(r) \/ EndUsage(r) \/ EndWrite(r) \/ EndEncode(r)
    BY <2>1, MovesRInv DEF EndInject, SkipUsage, EndUsage, EndWrite, EndEncode, Step, Steps
  <2> QED
    BY <1>3, <2>1, MergeRInv, InjectRInv, UsageOwnRInv, BeginUsageRInv, DropRInv, AnthropicRInv,
       TranslateOwnRInv, BeginWriteRInv, BeginEncodeRInv DEF Handle
<1> QED
  BY <1>1, <1>2, <1>3 DEF Next

LEMMA AlwaysRInv == Spec => []RInv
  BY InitRInv, NextRInv, PTL DEF Spec
-----------------------------------------------------------------------------
\* However many requests a route serves at once, and whatever the route and the
\* requests set, mergeParams, deepMergeInto and translateParams keep the order of
\* the layers in every body that proxyRequest sends, for the keys none of them
\* drops.
THEOREM LayerLawHolds == Spec => []LayerLaw
<1>1. RInv => LayerLaw
  <2> SUFFICES ASSUME RInv PROVE LayerLaw
    OBVIOUS
  <2>1. ASSUME NEW r \in Reqs, pc[r] = "sent", NEW k \in Plain(r)
        PROVE  body[r][k] = Layer(r, k)
    <3>1. k \in Sampling \ {"enable_thinking"}
      BY <2>1 DEF Plain, Sampling
    <3>2. \/ body[r][k] = Final(r, k)
          \/ /\ k = "temperature" /\ route.type = "anthropic"
             /\ Final(r, "enable_thinking") # None
      BY <2>1, <3>1 DEF RInv, At, BodyAt, Keys
    <3>3. Final(r, "enable_thinking") = Layer(r, "enable_thinking")
      BY FinalLayer DEF Sampling
    <3>4. Final(r, k) = Layer(r, k)
      BY <2>1, <3>1, FinalLayer DEF Plain, Sampling
    <3> QED
      BY <2>1, <3>2, <3>3, <3>4 DEF Plain
  <2>2. ASSUME NEW r \in Reqs, pc[r] = "sent", input[r].ollama, route.type = "ollama"
        PROVE  \A k \in Keys : body[r][k] # None => k \in nested[r]
    BY <2>2 DEF RInv, At, OptionsAt
  <2> QED
    BY <2>1, <2>2 DEF LayerLaw
<1> QED
  BY <1>1, AlwaysRInv, PTL

\* The maps of the configuration that deepMergeInto hands out are the only way an
\* entry of one request reaches another, and the only maps whose writes can end
\* the process.
THEOREM LeakLawHolds == Spec => []LeakLaw
<1>1. RInv => LeakLaw
  BY DEF RInv, At, LeakLaw, CrashLaw, EntryAt, SentLaw
<1> QED
  BY <1>1, AlwaysRInv, PTL
=============================================================================
