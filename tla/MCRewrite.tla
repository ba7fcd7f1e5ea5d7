------------------------------- MODULE MCRewrite -------------------------------
(* Routes and requests for TLC.                                            *)
EXTENDS Rewrite, TLC

In(options, kwargs) == (Options :> options) @@ (Kwargs :> kwargs)

NoMaps == In("absent", "absent")

\* Routes that differ in their layers, and OpenAI routes that differ in the maps
\* they inject.
MCRoutes ==
    [type : {"openai", "anthropic", "ollama"},
     defaults : {{}, {"enable_thinking", "num_ctx"}, {"max_tokens"}},
     clamp : {{}, {"temperature", "max_completion_tokens"}, {"enable_thinking"}},
     inject : {{}, {"temperature"}},
     maps : {NoMaps}]
    \cup
    [type : {"openai", "ollama"}, defaults : {{}, {"enable_thinking"}}, clamp : {{}}, inject : {{}},
     maps : {In("bare", "absent"), In("absent", "bare"), In("set", "set"), In("bare", "bare")}]

MCInputs ==
    [ollama : {FALSE}, stream : {FALSE}, maps : {NoMaps},
     sends : {{"temperature", "max_tokens", "num_ctx"},
              {"enable_thinking", "max_completion_tokens"}}]
    \cup
    [ollama : {TRUE}, stream : {TRUE}, maps : {NoMaps},
     sends : {{"temperature", "max_tokens", "enable_thinking"}}]
    \cup
    [ollama : {FALSE}, stream : BOOLEAN, sends : {{}, {"enable_thinking"}},
     maps : {NoMaps, In("bare", "bare"), In("set", "set")}]

Symmetry == Permutations(Reqs)

\* A route as the documentation shows it: only a map is injected.
Documented == {[type |-> "openai", defaults |-> {}, clamp |-> {}, inject |-> {},
                maps |-> In("absent", "bare")]}
Simple == [ollama : {FALSE}, stream : {FALSE}, sends : {{}, {"enable_thinking"}}, maps : {NoMaps}]
=============================================================================
