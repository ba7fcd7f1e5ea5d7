------------------------------- MODULE StreamBody -------------------------------
(***************************************************************************)
(* The body of a streamed response as the reverse proxy reads it           *)
(* (interceptedBody, sseParser and ollamaParser of internal/proxy/stream.go*)
(* and the onClose callback of modifyResponse) around the idle timeout: as *)
(* bytes pass to the client they are fed to a parser that counts tokens,   *)
(* and copied to a capped buffer; closing the body settles the request.    *)
(*                                                                         *)
(* A line of the body is some characters and a newline.  Its last character*)
(* stands for what the line says: "data: " and a payload, or nothing.      *)
(***************************************************************************)
EXTENDS IdleTimeoutBody

SetExt == INSTANCE FiniteSetsExt

CONSTANTS
    Bodies,       \* bodies in this instance: sequences of Bytes events and newlines
    Types,        \* backend types: "openai", "anthropic", "ollama"
    MaxContent,   \* maxContentCapture, in characters
    MaxResponse   \* capture.MaxResponseBytes, in bytes

Events == {"start", "text", "think", "usage", "stop", "done", "junk"}
NL == "nl"

ASSUME StreamAssumption ==
    /\ Bodies \subseteq [1 .. Bytes -> Events \cup {NL}]
    /\ Types \subseteq {"openai", "anthropic", "ollama"}
    /\ MaxContent \in Nat /\ MaxResponse \in Nat

VARIABLES
    body, type,  \* what the backend sends, and its type
    parser,      \* the parser's fields
    tee, cut,    \* CappedBuffer: buf, Truncated
    gone,        \* the client has left: reqCtx is canceled
    closes,      \* calls of Close, at most two
    told         \* what onClose told the balancer, call by call

streamVars == <<body, type, parser, tee, cut, gone, closes, told>>
all == <<vars, streamVars>>

NewParser ==
    [lineBuf |-> <<>>, ttft |-> FALSE, content |-> 0, think |-> 0,
     text |-> 0, truncated |-> FALSE,         \* contentBuf
     input |-> 0, output |-> 0,               \* anthropic*Tokens; completionToks
     toks |-> 0,                              \* promptToks
     prompt |-> 0, completion |-> 0,          \* added to the token counters
     ratio |-> FALSE]                         \* ThinkContentRatio was recorded

StreamInit ==
    /\ Init
    /\ body \in Bodies /\ type \in Types
    /\ parser = NewParser
    /\ tee = <<>> /\ cut = FALSE
    /\ gone = FALSE /\ closes = 0 /\ told = <<>>
-----------------------------------------------------------------------------
(* The parsers.  A token count is 1: an event that carries one sets it.    *)

\* Characters of a text event.
TextLen == 2

\* appendContent, with captureContent set (below that log level nothing is kept):
\* what does not fit is cut off.
appendContent(p) ==
    LET room == MaxContent - p.text IN
    CASE p.truncated -> p
      [] ~p.truncated /\ TextLen <= room -> [p EXCEPT !.text = @ + TextLen]
      [] OTHER -> [p EXCEPT !.text = IF room > 0 THEN MaxContent ELSE @, !.truncated = TRUE]

\* Mutated form: the counts are not set back once recorded.
recordAnthropicTokensAgain(p) ==
    [p EXCEPT !.prompt = @ + p.input, !.completion = @ + p.output,
              !.toks = IF p.input > 0 THEN p.input ELSE @]

recordAnthropicTokens(p) ==
    [p EXCEPT !.prompt = @ + p.input, !.completion = @ + p.output,
              !.toks = IF p.input > 0 THEN p.input ELSE @,
              !.input = 0, !.output = 0]

Delta(p, e) ==
    IF e = "text" THEN appendContent([p EXCEPT !.ttft = TRUE, !.content = @ + TextLen])
                  ELSE [p EXCEPT !.ttft = TRUE, !.think = @ + 1]

handleOpenAIEvent(p, e) ==
    CASE e \in {"text", "think"} -> Delta(p, e)
      [] e = "usage" -> [p EXCEPT !.toks = 1, !.output = 1]
      [] OTHER -> p

handleAnthropicEvent(p, e) ==
    CASE e = "start" -> [p EXCEPT !.input = 1]
      [] e \in {"text", "think"} -> Delta(p, e)
      [] e = "usage" -> [p EXCEPT !.output = 1]
      [] e \in {"stop", "done"} -> recordAnthropicTokens(p)
      [] OTHER -> p

\* One complete line of the body.
Line(p, e) == IF type = "anthropic" THEN handleAnthropicEvent(p, e)
                                    ELSE handleOpenAIEvent(p, e)

\* What the line that the newline at n ends says: an empty one, nothing.
LineAt(d, n) == IF n > 1 /\ d[n - 1] # NL THEN d[n - 1] ELSE "junk"

\* The loop of feed: the parser after the lines that end in the first n bytes of d.
Scan(p, d) ==
    LET after[n \in 0 .. Len(d)] ==
            IF n = 0 THEN p
            ELSE IF d[n] = NL THEN Line(after[n - 1], LineAt(d, n)) ELSE after[n - 1]
    IN after

\* The length of the complete lines of d; the rest is a line that has not ended.
Complete(d) ==
    LET ends == {i \in DOMAIN d : d[i] = NL}
    IN IF ends = {} THEN 0 ELSE SetExt!Max(ends)

\* Mutated form: a partial line is not kept for the next call.
feedForgets(p, data) == Scan(p, data)[Len(data)]

feedLines(p, data) ==
    LET d == p.lineBuf \o data
    IN Scan([p EXCEPT !.lineBuf = SubSeq(d, Complete(d) + 1, Len(d))], d)[Len(d)]

feed(p, data) ==
    CASE data = <<>> -> p
      [] type = "ollama" /\ data # <<>> -> [p EXCEPT !.ttft = TRUE]
      [] OTHER -> feedLines(p, data)

recordFinal(p) ==
    CASE type = "ollama" -> p
      [] type = "anthropic" -> [p EXCEPT !.ratio = p.content + p.think > 0]
      [] OTHER -> [p EXCEPT !.prompt = @ + p.toks, !.completion = @ + p.output,
                            !.ratio = p.content + p.think > 0]
-----------------------------------------------------------------------------
(* CappedBuffer.Write                                                      *)

\* Mutated form: bytes that do not fit as a whole are dropped as a whole.
CappedWriteWhole(data) ==
    IF cut \/ Len(data) > MaxResponse - Len(tee)
    THEN cut' = TRUE /\ UNCHANGED tee
    ELSE tee' = tee \o data /\ UNCHANGED cut

CappedWrite(data) ==
    LET room == MaxResponse - Len(tee) IN
    IF cut THEN UNCHANGED <<tee, cut>>
    ELSE /\ tee' = tee \o SubSeq(data, 1, Least(room, Len(data)))
         /\ cut' = (Len(data) > room)
-----------------------------------------------------------------------------
(* interceptedBody.                                                        *)

Chars(bytes) == [i \in DOMAIN bytes |-> body[bytes[i]]]

\* Read: the bytes the inner Read returned go to the parser and the tee.
Intercept ==
    LET data == Chars(SubSeq(got', Len(got) + 1, Len(got'))) IN
    /\ parser' = feed(parser, data)
    /\ CappedWrite(data)
    /\ UNCHANGED <<body, type, gone, closes, told>>

InterceptedRead == (ReadPending \/ Receive \/ GiveUp) /\ Intercept

StartRead == ReadWait /\ UNCHANGED streamVars

\* readErr.Timeout(): neither the wrapper's own idle timeout nor a canceled
\* request's error says so of itself.
TimedOut == result = "netTimeout"

\* onClose: the final metrics, and the balancer's CompleteAndDecr.
onClose ==
    /\ parser' = recordFinal(parser)
    /\ told' = Append(told, IF TimedOut \/ gone THEN "timeout" ELSE "success")

FirstClose ==
    /\ Close /\ closes = 0
    /\ closes' = 1
    /\ onClose
    /\ UNCHANGED <<body, type, tee, cut, gone>>

\* Mutated form: onClose runs for every Close.
CloseAgainSettles ==
    /\ caller = "closed" /\ closes = 1
    /\ closes' = 2
    /\ onClose
    /\ UNCHANGED <<vars, body, type, tee, cut, gone>>

\* closeOnce: a further Close only closes the inner body again.
CloseAgain ==
    /\ caller = "closed" /\ closes = 1
    /\ closes' = 2
    /\ UNCHANGED <<vars, body, type, parser, tee, cut, gone, told>>

\* The client leaves: reqCtx ends, and with it the request to the backend.
ClientLeaves ==
    /\ ~gone /\ caller # "closed"
    /\ gone' = TRUE
    /\ end' = IF end = "none" THEN "canceled" ELSE end
    /\ UNCHANGED <<sent, rcClosed, reader, ch, pending, pendErr, timer, caller, got,
                   result, body, type, parser, tee, cut, closes, told>>

Backend == (Send \/ End \/ Tick) /\ UNCHANGED streamVars
ReadLoop == Loop /\ UNCHANGED streamVars
Client == InterceptedRead \/ StartRead \/ FirstClose

StreamNext == Backend \/ ReadLoop \/ Client \/ CloseAgain \/ ClientLeaves

StreamSpec == /\ StreamInit /\ [][StreamNext]_all
              /\ WF_all(ReadLoop) /\ WF_all(Client)
              /\ WF_all(Tick /\ UNCHANGED streamVars)
-----------------------------------------------------------------------------
(* What the whole of the received bytes says, line by line.                *)

Received == Chars(got)
LineEnds == {i \in DOMAIN Received : Received[i] = NL}
Seen(E)  == {i \in DOMAIN Received : Received[i] \in E /\ i + 1 \in LineEnds}

\* Times an event of E is followed by the end of a message, counted once for
\* each end that has one since the end before it.
Settled(E) ==
    Cardinality({j \in Seen({"stop", "done"}) :
        \E i \in Seen(E) : i < j /\ ~\E k \in Seen({"stop", "done"}) : i < k /\ k < j})

PromptTotal == CASE type = "anthropic" -> Settled({"start"})
                 [] type = "openai" /\ closes > 0 /\ Seen({"usage"}) # {} -> 1
                 [] OTHER -> 0
CompletionTotal == CASE type = "anthropic" -> Settled({"usage"})
                     [] type = "openai" /\ closes > 0 /\ Seen({"usage"}) # {} -> 1
                     [] OTHER -> 0

\* However the bytes were cut into reads (feed keeps a partial line for the
\* next one), the parser has seen exactly the complete lines received: first
\* token, text and reasoning, and the text kept for the log up to its cap.
SplitFree ==
    type # "ollama" =>
        LET texts == Cardinality(Seen({"text"})) IN
        /\ parser.ttft = (Seen({"text", "think"}) # {})
        /\ parser.content = TextLen * texts
        /\ parser.think = Cardinality(Seen({"think"}))
        /\ parser.text = Least(TextLen * texts, MaxContent)
        /\ parser.truncated = (TextLen * texts > MaxContent)

\* The token counters are raised once per message and not again by a repeated
\* end marker (message_stop and [DONE]) or by a second Close; a stream that
\* breaks off before its last message ends counts nothing for it.
CountedOnce == parser.prompt = PromptTotal /\ parser.completion = CompletionTotal

\* The capture's copy is the first MaxResponse bytes the client received, and is
\* marked truncated exactly when there were more.
TeePrefix == /\ tee = SubSeq(Received, 1, Least(MaxResponse, Len(Received)))
             /\ cut = (Len(Received) > MaxResponse)

\* However the goroutine, the timer, the client's departure and repeated Closes
\* interleave, the wrapped body is a plain stream: its bytes in order, its own end
\* behind the last of them, no read after an error, and one settlement, which is a
\* timeout only for a client that has left or a connection that timed out.
Stream == INSTANCE ByteStream WITH given <- got, outcome <- result
Delivers == Stream!Spec

\* The balancer hears of a closed stream once, and of a timeout only when the
\* client has left or the connection timed out.
SettledOnce == /\ Len(told) = Least(closes, 1)
               /\ \A i \in DOMAIN told : told[i] = "success" \/ gone \/ TimedOut
=============================================================================
