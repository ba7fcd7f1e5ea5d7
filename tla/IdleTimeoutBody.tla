---------------------------- MODULE IdleTimeoutBody ----------------------------
(***************************************************************************)
(* idleTimeoutBody (internal/proxy/stream.go): the wrapper that ends a     *)
(* response whose backend falls silent.  A goroutine (readLoop) reads the  *)
(* upstream body and hands each result over a channel of capacity one; the *)
(* caller's Read takes it from there, or gives up when the timer fires.    *)
(* The bytes of the body are the numbers 1, 2, ...  StreamBody composes    *)
(* these steps with the wrapper around them.                               *)
(***************************************************************************)
EXTENDS Integers, Sequences, FiniteSets

CONSTANTS
    Bytes,     \* bound: length of the body
    Buf,       \* bytes readLoop takes at once (32 KiB)
    PSize,     \* len(p) of the caller's Read
    Timeout    \* timeout_seconds, in ticks

ASSUME BodyAssumption ==
    /\ Bytes \in Nat /\ Buf \in Nat \ {0} /\ PSize \in Nat \ {0}
    /\ Timeout \in Nat \ {0}

VARIABLES
    sent, end,          \* upstream: bytes sent, how it ended
    rcClosed,           \* rc.Close() was called
    loop, hand, read,   \* readLoop: where it is, its result, bytes it has read
    ch,                 \* ch
    pending, pendErr,   \* pending, pendErr
    timer,              \* ticks since the timer was armed, Stopped if stopped
    caller, got, result \* caller: "idle"/"waiting"/"closed", its bytes, its error

upstream == <<sent, end>>
reader   == <<loop, hand, read>>
vars     == <<sent, end, rcClosed, loop, hand, read, ch, pending, pendErr,
              timer, caller, got, result>>

Stopped == -1
NoHand  == [buf |-> <<>>, err |-> "none"]

Least(a, b) == IF a < b THEN a ELSE b

Init ==
    /\ sent = 0 /\ end = "none" /\ rcClosed = FALSE
    /\ loop = "reading" /\ hand = NoHand /\ read = 0
    /\ ch = <<>> /\ pending = <<>> /\ pendErr = "none"
    /\ timer = 0
    /\ caller = "idle" /\ got = <<>> /\ result = "none"
-----------------------------------------------------------------------------
(* The backend, and the clock.                                             *)

Send ==
    /\ end = "none" /\ sent < Bytes
    /\ sent' = sent + 1
    /\ UNCHANGED <<end, rcClosed, reader, ch, pending, pendErr, timer,
                   caller, got, result>>

\* The body ends, the connection breaks, or the kernel gives it up after
\* unanswered keep-alives: only that error has a Timeout() that is true.
End ==
    /\ end = "none"
    /\ end' \in {"eof", "reset", "netTimeout"}
    /\ UNCHANGED <<sent, rcClosed, reader, ch, pending, pendErr, timer,
                   caller, got, result>>

Fired == timer = Timeout

Tick ==
    /\ timer # Stopped /\ timer < Timeout
    /\ timer' = timer + 1
    /\ UNCHANGED <<upstream, rcClosed, reader, ch, pending, pendErr, caller, got, result>>
-----------------------------------------------------------------------------
(* readLoop.                                                               *)

\* rc.Read returns bytes, the end of the body (with the last bytes or alone),
\* or the error of a closed body; it blocks when there is none of these.
LoopRead ==
    /\ loop = "reading"
    /\ \/ /\ ~rcClosed /\ read < sent
          /\ LET n == Least(sent - read, Buf) IN
             /\ hand' \in [buf : {[i \in 1 .. n |-> read + i]},
                           err : {"none"} \cup (IF read + n = sent THEN {end} ELSE {})]
             /\ read' = read + n
       \/ /\ ~rcClosed /\ read = sent /\ end # "none"
          /\ hand' = [buf |-> <<>>, err |-> end]
          /\ UNCHANGED read
       \/ /\ rcClosed
          /\ hand' = [buf |-> <<>>, err |-> "closed"]
          /\ UNCHANGED read
    /\ loop' = "sending"
    /\ UNCHANGED <<upstream, rcClosed, ch, pending, pendErr, timer, caller, got, result>>

\* The send blocks while the channel is full.
LoopSend ==
    /\ loop = "sending" /\ ch = <<>>
    /\ ch' = <<hand>>
    /\ loop' = IF hand.err = "none" THEN "reading" ELSE "exited"
    /\ hand' = NoHand
    /\ UNCHANGED <<upstream, rcClosed, read, pending, pendErr, timer,
                   caller, got, result>>
-----------------------------------------------------------------------------
(* The caller.                                                             *)

\* Hand the caller the first bytes of buf; what does not fit stays pending
\* together with the error.
Deliver(buf, err) ==
    LET n == Least(Len(buf), PSize) IN
    /\ got' = got \o SubSeq(buf, 1, n)
    /\ pending' = SubSeq(buf, n + 1, Len(buf))
    /\ IF n < Len(buf) THEN pendErr' = err /\ UNCHANGED result
                       ELSE pendErr' = "none" /\ result' = err

\* Read with bytes left over.
ReadPending ==
    /\ caller = "idle" /\ result = "none" /\ pending # <<>>
    /\ Deliver(pending, pendErr)
    /\ UNCHANGED <<upstream, rcClosed, reader, ch, timer, caller>>

\* Mutated form: Read does not look at the left-over bytes.
ReadWaitAlways ==
    /\ caller = "idle" /\ result = "none"
    /\ caller' = "waiting"
    /\ UNCHANGED <<upstream, rcClosed, reader, ch, pending, pendErr, timer,
                   got, result>>

ReadWait ==
    /\ caller = "idle" /\ result = "none" /\ pending = <<>>
    /\ caller' = "waiting"
    /\ UNCHANGED <<upstream, rcClosed, reader, ch, pending, pendErr, timer,
                   got, result>>

\* Mutated form: the timer is stopped, and not armed again, by a read.
ReceiveStopsTimer ==
    /\ caller = "waiting" /\ ch # <<>>
    /\ timer' = IF Head(ch).buf # <<>> THEN Stopped ELSE timer
    /\ Deliver(Head(ch).buf, Head(ch).err)
    /\ ch' = <<>>
    /\ caller' = "idle"
    /\ UNCHANGED <<upstream, rcClosed, reader>>

\* select, first case.  Resetting the timer also takes back a firing.
Receive ==
    /\ caller = "waiting" /\ ch # <<>>
    /\ timer' = IF Head(ch).buf # <<>> THEN 0 ELSE timer
    /\ Deliver(Head(ch).buf, Head(ch).err)
    /\ ch' = <<>>
    /\ caller' = "idle"
    /\ UNCHANGED <<upstream, rcClosed, reader>>

\* select, second case: either may be taken when both are ready.
GiveUp ==
    /\ caller = "waiting" /\ Fired
    /\ timer' = Stopped
    /\ rcClosed' = TRUE
    /\ result' = "timeout"
    /\ caller' = "idle"
    /\ UNCHANGED <<upstream, reader, ch, pending, pendErr, got>>

\* Mutated form: the backend's body is not closed.
CloseKeepsBody ==
    /\ caller = "idle"
    /\ timer' = Stopped
    /\ caller' = "closed"
    /\ UNCHANGED <<upstream, rcClosed, reader, ch, pending, pendErr, got, result>>

Close ==
    /\ caller = "idle"
    /\ timer' = Stopped
    /\ rcClosed' = TRUE
    /\ caller' = "closed"
    /\ UNCHANGED <<upstream, reader, ch, pending, pendErr, got, result>>
-----------------------------------------------------------------------------
Loop == LoopRead \/ LoopSend
-----------------------------------------------------------------------------
(* Properties.                                                             *)

InChannel == IF ch = <<>> THEN <<>> ELSE Head(ch).buf

(* Every byte readLoop took from the backend is with the caller, left      *)
(* over, in the channel or in readLoop's hand, once and in order, however  *)
(* reads of different sizes, the timer and Close interleave; and the end   *)
(* of the body comes last: an error that arrived with bytes waits until    *)
(* the last of them is read.                                               *)
InOrder ==
    /\ got \o pending \o InChannel \o hand.buf = [i \in 1 .. read |-> i]
    /\ result \in {"eof", "reset", "netTimeout"} => Len(got) = sent

(* A caller that reads on is answered: with the end of the body, or with   *)
(* the timeout when the backend falls silent.                              *)
Ends == <>(result # "none" \/ caller = "closed")

(* Closing the backend's body unblocks a readLoop that is stuck reading    *)
(* from it with nothing in the channel, the usual end of a silent stream:  *)
(* the goroutine exits although nobody reads any more.  (One that has      *)
(* handed over a result already stays, blocked in its next send.)          *)
ReaderFreed ==
    caller = "closed" /\ loop = "reading" /\ ch = <<>> ~> loop = "exited"
=============================================================================
