-------------------------------- MODULE Rewrite --------------------------------
(***************************************************************************)
(* What becomes of a request's parameters on the way to the backend: the   *)
(* router's merge of a route's defaults, the caller's values and its clamp *)
(* (router.mergeParams), and in Server.proxyRequest the flattening of      *)
(* Ollama's options, the route's inject (deepMergeInto), translateParams   *)
(* and the encoding of the body.                                           *)
(*                                                                         *)
(* Requests of one route run concurrently.  They share the maps of the     *)
(* configuration: deepMergeInto stores the map found in inject itself in a *)
(* body that has none, and translateParams then writes into it.  It writes *)
(* one entry of each of two maps: stream_options.include_usage and         *)
(* chat_template_kwargs.enable_thinking.  Of a value only the origin is    *)
(* kept: the layer, the request that sent it, or translateParams.          *)
(***************************************************************************)
EXTENDS Integers, FiniteSets

CONSTANTS
    Reqs,      \* requests to the route
    Routes,    \* routes: [type, defaults, clamp, inject, maps]
    Inputs     \* requests: [ollama, stream, sends, maps]

\* Sampling keys of the model, and one that is not in samplingKeys.
Sampling == {"temperature", "max_tokens", "max_completion_tokens", "enable_thinking"}
Keys == Sampling \cup {"num_ctx"}

\* The maps translateParams writes to.
Options == "stream_options"
Kwargs == "chat_template_kwargs"
Maps == {Options, Kwargs}

\* A map that is not there, is there without the entry that translateParams
\* writes, or is there with it.
Contents == {"absent", "bare", "set"}

None == "none"

ASSUME RewriteAssumption ==
    /\ Reqs \cap {None, "default", "clamp", "inject", "required", "usage"} = {}
    /\ Routes \subseteq [type : {"openai", "anthropic", "ollama"},
                         defaults : SUBSET Keys, clamp : SUBSET Keys,
                         inject : SUBSET Keys,          \* inject besides the maps
                         maps : [Maps -> Contents]]     \* the maps of inject
    /\ Inputs \subseteq [ollama : BOOLEAN,      \* protocol, parameters under options
                         stream : BOOLEAN,
                         sends : SUBSET Keys,
                         maps : [Maps -> Contents]]     \* the caller's own

VARIABLES
    route,   \* the route
    shared,  \* shared[m]: the entry in the route's own map m
    input,   \* input[r]: what r sends
    pc,      \* pc[r]: its next step
    body,    \* body[r]: the value of every key, None if absent
    ollamaKeys,  \* ollamaKeys[r]: the keys to nest under options
    held,    \* held[r][m]: map m of the body: "absent", "own" or the route's, "shared"
    entry,   \* entry[r][m]: the entry in it while it is not the shared one
    nested,  \* nested[r]: keys sent under options
    crashed  \* the runtime found a concurrent map access and ended the process

vars == <<route, shared, input, pc, body, ollamaKeys, held, entry, nested, crashed>>

\* The entry as the file has it.
Filed(m) == IF route.maps[m] = "set" THEN "inject" ELSE None

Init ==
    /\ route \in Routes
    /\ shared = [m \in Maps |-> Filed(m)]
    /\ input \in [Reqs -> Inputs]
    /\ pc = [r \in Reqs |-> "merge"]
    /\ body = [r \in Reqs |-> [k \in Keys |-> None]]
    /\ ollamaKeys = [r \in Reqs |-> {}]
    /\ held = [r \in Reqs |-> [m \in Maps |-> "absent"]]
    /\ entry = [r \in Reqs |-> [m \in Maps |-> None]]
    /\ nested = [r \in Reqs |-> {}]
    /\ crashed = FALSE

Step(r, from, to) == ~crashed /\ pc[r] = from /\ pc' = [pc EXCEPT ![r] = to]
-----------------------------------------------------------------------------
(* Router.Resolve and the application of its parameters.                   *)

\* Mutated form: the caller's values come last.
mergeParamsCallerLast(defaults, r, clamp) ==
    [k \in defaults \cup clamp \cup (input[r].sends \cap Sampling) |->
       CASE k \in input[r].sends \cap Sampling -> r
         [] k \in clamp \ (input[r].sends \cap Sampling) -> "clamp"
         [] OTHER -> "default"]

\* Only the sampling keys of the caller take part, so a default of any other
\* key is among the parameters whatever the caller sent.
mergeParams(defaults, r, clamp) ==
    [k \in defaults \cup clamp \cup (input[r].sends \cap Sampling) |->
       CASE k \in clamp -> "clamp"
         [] k \in (input[r].sends \cap Sampling) \ clamp -> r
         [] OTHER -> "default"]

\* The maps of the body are the caller's.
OwnHeld(r) == [m \in Maps |-> IF input[r].maps[m] = "absent" THEN "absent" ELSE "own"]
OwnEntry(r, m) == IF input[r].maps[m] = "set" THEN r ELSE None

\* The parameters overwrite the body; max_completion_tokens goes when there is
\* a max_tokens.
Merge(r) ==
    LET params == mergeParams(route.defaults, r, route.clamp)
        merged == [k \in Keys |-> IF k \in DOMAIN params THEN params[k]
                                  ELSE IF k \in input[r].sends THEN r ELSE None]
    IN /\ Step(r, "merge", "inject")
       /\ body' = [body EXCEPT ![r] =
            IF merged["max_tokens"] # None
            THEN [merged EXCEPT !["max_completion_tokens"] = None] ELSE merged]
       /\ ollamaKeys' = [ollamaKeys EXCEPT ![r] =
            IF input[r].ollama THEN input[r].sends \cup DOMAIN params ELSE {}]
       /\ held' = [held EXCEPT ![r] = OwnHeld(r)]
       /\ entry' = [entry EXCEPT ![r] = [m \in Maps |-> OwnEntry(r, m)]]
       /\ UNCHANGED <<route, shared, input, nested, crashed>>
-----------------------------------------------------------------------------
(* deepMergeInto(body, res.Inject)                                         *)

Injected(r) == [k \in Keys |-> IF k \in route.inject THEN "inject" ELSE body[r][k]]

\* A map the caller sent as well: the route's entries are copied into it.
Copies(r, m) == route.maps[m] # "absent" /\ input[r].maps[m] # "absent"

\* The keys and the maps of inject.  A map the caller did not send is not copied:
\* the route's is stored.  An entry some request left in a route's map is copied
\* like the file's own, and reading the map takes time.
Inject(r) ==
    /\ Step(r, "inject", "copying")
    /\ body' = [body EXCEPT ![r] = Injected(r)]
    /\ ollamaKeys' = [ollamaKeys EXCEPT ![r] =
         IF input[r].ollama THEN @ \cup route.inject ELSE @]
    /\ held' = [held EXCEPT ![r] =
         [m \in Maps |-> IF route.maps[m] # "absent" /\ @[m] = "absent" THEN "shared" ELSE @[m]]]
    /\ entry' = [entry EXCEPT ![r] =
         [m \in Maps |-> IF Copies(r, m) /\ shared[m] # None THEN shared[m] ELSE @[m]]]
    /\ UNCHANGED <<route, shared, input, nested, crashed>>

EndInject(r) ==
    /\ Step(r, "copying", "usage")
    /\ UNCHANGED <<route, shared, input, body, ollamaKeys, held, entry, nested, crashed>>
-----------------------------------------------------------------------------
(* translateParams                                                         *)

\* An entry goes into the caller's map or a new one, or into the route's: a
\* write to the configuration.
PutOwn(r, m, v) ==
    /\ held[r][m] # "shared"
    /\ entry' = [entry EXCEPT ![r][m] = v]
    /\ held' = [held EXCEPT ![r][m] = "own"]
    /\ UNCHANGED shared

PutShared(r, m, v) ==
    /\ held[r][m] = "shared"
    /\ shared' = [shared EXCEPT ![m] = v]
    /\ UNCHANGED <<entry, held>>

\* A streaming request to an OpenAI backend asks for the token counts.
Counts(r) == input[r].stream /\ route.type = "openai"

SkipUsage(r) ==
    /\ ~Counts(r)
    /\ Step(r, "usage", "translate")
    /\ UNCHANGED <<route, shared, input, body, ollamaKeys, held, entry, nested, crashed>>

UsageOwn(r) ==
    /\ Counts(r)
    /\ Step(r, "usage", "translate")
    /\ PutOwn(r, Options, "usage")
    /\ UNCHANGED <<route, input, body, ollamaKeys, nested, crashed>>

BeginUsage(r) ==
    /\ Counts(r)
    /\ Step(r, "usage", "counting")
    /\ PutShared(r, Options, "usage")
    /\ UNCHANGED <<route, input, body, ollamaKeys, nested, crashed>>

EndUsage(r) ==
    /\ Step(r, "counting", "translate")
    /\ UNCHANGED <<route, shared, input, body, ollamaKeys, held, entry, nested, crashed>>

Thinking(r) == body[r]["enable_thinking"]

\* Nothing to translate, or a type without a translation: the key is dropped.
Drop(r) ==
    /\ Thinking(r) = None \/ route.type = "ollama"
    /\ Step(r, "translate", "encode")
    /\ body' = [body EXCEPT ![r]["enable_thinking"] = None]
    /\ UNCHANGED <<route, shared, input, ollamaKeys, held, entry, nested, crashed>>

\* Anthropic: with thinking switched on, temperature 1 is required.
TranslateAnthropic(r, on) ==
    /\ Thinking(r) # None /\ route.type = "anthropic"
    /\ Step(r, "translate", "encode")
    /\ body' = [body EXCEPT ![r]["enable_thinking"] = None,
                            ![r]["temperature"] = IF on THEN "required" ELSE @]
    /\ UNCHANGED <<route, shared, input, ollamaKeys, held, entry, nested, crashed>>

\* Mutated form: a caller's own map is left as it is.
TranslateOwnOnlyNew(r) ==
    /\ Thinking(r) # None /\ route.type = "openai" /\ held[r][Kwargs] # "shared"
    /\ Step(r, "translate", "encode")
    /\ entry' = [entry EXCEPT ![r][Kwargs] = IF held[r][Kwargs] = "absent" THEN Thinking(r) ELSE @]
    /\ held' = [held EXCEPT ![r][Kwargs] = "own"]
    /\ body' = [body EXCEPT ![r]["enable_thinking"] = None]
    /\ UNCHANGED <<route, shared, input, ollamaKeys, nested, crashed>>

\* OpenAI: into the request's own chat_template_kwargs ...
TranslateOwn(r) ==
    /\ Thinking(r) # None /\ route.type = "openai"
    /\ Step(r, "translate", "encode")
    /\ PutOwn(r, Kwargs, Thinking(r))
    /\ body' = [body EXCEPT ![r]["enable_thinking"] = None]
    /\ UNCHANGED <<route, input, ollamaKeys, nested, crashed>>

\* ... or into the route's.
BeginWrite(r) ==
    /\ Thinking(r) # None /\ route.type = "openai"
    /\ Step(r, "translate", "writing")
    /\ PutShared(r, Kwargs, Thinking(r))
    /\ body' = [body EXCEPT ![r]["enable_thinking"] = None]
    /\ UNCHANGED <<route, input, ollamaKeys, nested, crashed>>

EndWrite(r) ==
    /\ Step(r, "writing", "encode")
    /\ UNCHANGED <<route, shared, input, body, ollamaKeys, held, entry, nested, crashed>>
-----------------------------------------------------------------------------
\* The keys of Ollama are nested again and json.Marshal reads the whole body.
BeginEncode(r) ==
    /\ Step(r, "encode", "encoding")
    /\ nested' = [nested EXCEPT ![r] = {k \in ollamaKeys[r] : body[r][k] # None}]
    /\ entry' = [entry EXCEPT ![r] =
         [m \in Maps |-> IF held[r][m] = "shared" THEN shared[m] ELSE @[m]]]
    /\ UNCHANGED <<route, shared, input, body, ollamaKeys, held, crashed>>

EndEncode(r) ==
    /\ Step(r, "encoding", "sent")
    /\ UNCHANGED <<route, shared, input, body, ollamaKeys, held, entry, nested, crashed>>

\* Requests in the middle of an access to the route's map m.
Writing(r, m) == \/ pc[r] = "counting" /\ m = Options
                 \/ pc[r] = "writing" /\ m = Kwargs
Touching(r, m) == \/ Writing(r, m)
                  \/ pc[r] = "copying" /\ Copies(r, m)
                  \/ pc[r] = "encoding" /\ held[r][m] = "shared"

\* Go's runtime may notice that a map is written during another access; it then
\* ends the process, and no handler can recover.
ConcurrentMapAccess ==
    /\ ~crashed
    /\ \E r, q \in Reqs, m \in Maps : r # q /\ Writing(r, m) /\ Touching(q, m)
    /\ crashed' = TRUE
    /\ UNCHANGED <<route, shared, input, pc, body, ollamaKeys, held, entry, nested>>

Handle(r) == \/ Merge(r) \/ Inject(r) \/ EndInject(r)
             \/ SkipUsage(r) \/ UsageOwn(r) \/ BeginUsage(r) \/ EndUsage(r)
             \/ Drop(r) \/ \E on \in BOOLEAN : TranslateAnthropic(r, on)
             \/ TranslateOwn(r) \/ BeginWrite(r) \/ EndWrite(r)
             \/ BeginEncode(r) \/ EndEncode(r)

Next == ConcurrentMapAccess \/ \E r \in Reqs : Handle(r)

Spec == Init /\ [][Next]_vars
-----------------------------------------------------------------------------
(* Properties.                                                             *)

\* The documented order, defaults < caller < clamp, with inject coming last.
Layer(r, k) ==
    CASE k \in route.inject -> "inject"
      [] k \in route.clamp \ route.inject -> "clamp"
      [] k \in input[r].sends \ (route.clamp \cup route.inject) -> r
      [] k \in route.defaults \ (route.clamp \cup route.inject \cup input[r].sends) -> "default"
      [] OTHER -> None

\* The sampling keys that nothing after the merge drops or replaces.
Plain(r) ==
    {"max_tokens"}
    \cup (IF Layer(r, "max_tokens") = None THEN {"max_completion_tokens"} ELSE {})
    \cup (IF route.type # "anthropic" \/ Layer(r, "enable_thinking") = None
          THEN {"temperature"} ELSE {})

\* What reaches the backend has the value of the documented layer, although the
\* merge, the flattening of Ollama's options, the inject and translateParams each
\* rewrite the body, and an Ollama backend gets all of it under options.  (Of the
\* other keys the documents say more than the code does: see the README.)
LayerLaw ==
    \A r \in Reqs : pc[r] = "sent" =>
        /\ \A k \in Plain(r) : body[r][k] = Layer(r, k)
        /\ input[r].ollama /\ route.type = "ollama" =>
             \A k \in Keys : body[r][k] # None => k \in nested[r]

\* The entry translateParams writes into map m of a request, None if it does not.
Written(r, m) ==
    CASE m = Options /\ Counts(r) -> "usage"
      [] m = Kwargs /\ route.type = "openai" -> Layer(r, "enable_thinking")
      [] OTHER -> None

\* The entry a request sends when it has the route's configuration for itself.
Expected(r, m) ==
    IF Written(r, m) # None THEN Written(r, m)
    ELSE IF Filed(m) # None THEN Filed(m) ELSE OwnEntry(r, m)

\* A request that writes into the route's own map m.
Intrudes(r, m) ==
    route.maps[m] # "absent" /\ input[r].maps[m] = "absent" /\ Written(r, m) # None

\* Requests disturb each other in one way only: through a map of the route that
\* a request without such a map of its own writes to.  What a request then sends
\* is the entry another one wrote, never if the request brought the map and
\* translateParams wrote to it, and only such a map can end the process.
LeakLaw ==
    /\ \A r \in Reqs, m \in Maps : pc[r] = "sent" /\ entry[r][m] # Expected(r, m) =>
         /\ \E q \in Reqs \ {r} : Intrudes(q, m) /\ entry[r][m] = Written(q, m)
         /\ input[r].maps[m] # "absent" => Written(r, m) = None
    /\ crashed => \E r \in Reqs, m \in Maps : Intrudes(r, m)

\* "inject deep-merges a config-supplied object into the request body": what a
\* request sends on is decided by the request and the configuration.
Isolated == \A r \in Reqs, m \in Maps : pc[r] = "sent" => entry[r][m] = Expected(r, m)
=============================================================================
