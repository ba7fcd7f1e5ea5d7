-------------------------------- MODULE Capture --------------------------------
(***************************************************************************)
(* The SIGUSR1 message capture (internal/capture, and its callers in       *)
(* internal/proxy/server.go): a handle with a window of slots that Arm     *)
(* opens and Reserve claims with a load and a compare-and-swap, requests   *)
(* that write their slot on whichever path they end, and reloads that      *)
(* replace the handle.  A handle is named by the generation of the         *)
(* configuration it was built from.                                        *)
(***************************************************************************)
EXTENDS Integers, Sequences, FiniteSets

CONSTANTS
    Reqs,        \* requests that pass validation, each arriving once
    MaxGen,      \* bound: number of reloads
    MaxArm,      \* bound: number of SIGUSR1 handled
    Settings,    \* Settings[g]: sig_message_capture of configuration g, and whether
                 \* it has groups and so a balancer
    DefaultMaxMessages,
    MaxAllowedMessages

Gens == 0 .. MaxGen
None == -1

ASSUME CaptureAssumption ==
    /\ MaxGen \in Nat /\ MaxArm \in Nat
    /\ DefaultMaxMessages \in Nat \ {0} /\ MaxAllowedMessages \in Nat
    /\ Settings \in [Gens -> [enabled : BOOLEAN, max : Int,
                              folder : {"unset", "usable", "unusable"},
                              groups : BOOLEAN]]

VARIABLES
    gen,        \* generation of the configuration in force
    current,    \* s.capture: its handle, None = nil
    remaining,  \* remaining[g]: the counter of handle g
    usr1,       \* handle the SIGUSR1 goroutine is about to arm, or None
    pc,         \* where each request is
    handle,     \* c, the handle startCapture loaded
    seen,       \* n, the value Reserve loaded
    slot,       \* seq of the slot in its captureCtx, None = no captureCtx
    writes,     \* calls of Slot.Write by the request
    file,       \* its file: "none", "error" or "response"
    arms,       \* history: Arm calls per handle
    issued      \* history: seqs handed out by a handle since its last Arm

window  == <<remaining, arms, issued>>
locals  == <<handle, seen, slot>>
outcome == <<writes, file>>
vars    == <<gen, current, window, usr1, pc, locals, outcome>>

\* capture.New: the window of a handle, 0 when there is none.  A hardened
\* build always has 0.
MaxMessages(s) ==
    IF ~s.enabled \/ s.folder # "usable" THEN 0
    ELSE IF s.max <= 0 THEN DefaultMaxMessages
    ELSE IF s.max > MaxAllowedMessages THEN 0
    ELSE s.max

Window(g) == MaxMessages(Settings[g])

HandleOf(g) == IF Window(g) = 0 THEN None ELSE g

Init ==
    /\ gen = 0 /\ current = HandleOf(0)
    /\ remaining = [g \in Gens |-> 0]
    /\ usr1 = None
    /\ pc = [r \in Reqs |-> "validated"]
    /\ handle = [r \in Reqs |-> None]
    /\ seen = [r \in Reqs |-> 0]
    /\ slot = [r \in Reqs |-> None]
    /\ writes = [r \in Reqs |-> 0]
    /\ file = [r \in Reqs |-> "none"]
    /\ arms = [g \in Gens |-> 0]
    /\ issued = [g \in Gens |-> <<>>]

Goto(r, here, there) == pc[r] = here /\ pc' = [pc EXCEPT ![r] = there]
-----------------------------------------------------------------------------
(* The server and the signal handler.                                      *)

\* Requests that may stand between the nil test and the use of the balancer with
\* which they settle; their capture is finished after that.
AtBalancer == {r \in Reqs : pc[r] \in {"upstream", "unread", "streaming"}}

\* Reload calls applyCaptureConfig: a new handle, its window closed.  If it also
\* drops the balancer, the requests that have just tested it panic.
ApplyCaptureConfig ==
    /\ gen < MaxGen
    /\ gen' = gen + 1
    /\ current' = HandleOf(gen + 1)
    /\ \E dead \in IF Settings[gen].groups /\ ~Settings[gen + 1].groups
                   THEN SUBSET AtBalancer ELSE {{}} :
         pc' = [r \in Reqs |-> IF r \in dead THEN "panicked" ELSE pc[r]]
    /\ UNCHANGED <<window, usr1, locals, outcome>>

\* SIGUSR1: srv.Capture() loads the handle; nil is logged and ignored.
LoadForArm ==
    /\ usr1 = None /\ current # None /\ arms[current] < MaxArm
    /\ usr1' = current
    /\ UNCHANGED <<gen, current, window, pc, locals, outcome>>

\* Arm stores the full window into the handle, which a reload may have
\* replaced meanwhile.
Arm ==
    /\ usr1 # None
    /\ remaining' = [remaining EXCEPT ![usr1] = Window(usr1)]
    /\ arms' = [arms EXCEPT ![usr1] = @ + 1]
    /\ issued' = [issued EXCEPT ![usr1] = <<>>]
    /\ usr1' = None
    /\ UNCHANGED <<gen, current, pc, locals, outcome>>
-----------------------------------------------------------------------------
(* startCapture and Capture.Reserve.                                       *)

StartCapture(r) ==
    /\ Goto(r, "validated", IF current = None THEN "queued" ELSE "reserving")
    /\ handle' = [handle EXCEPT ![r] = current]
    /\ UNCHANGED <<gen, current, window, usr1, seen, slot, outcome>>

\* Mutated form: the last slot is claimed once too often.
ReserveLoadAtZero(r) ==
    /\ pc[r] = "reserving"
    /\ seen' = [seen EXCEPT ![r] = remaining[handle[r]]]
    /\ pc' = [pc EXCEPT ![r] = IF seen'[r] < 0 THEN "queued" ELSE "swapping"]
    /\ UNCHANGED <<gen, current, window, usr1, handle, slot, outcome>>

ReserveLoad(r) ==
    /\ pc[r] = "reserving"
    /\ seen' = [seen EXCEPT ![r] = remaining[handle[r]]]
    /\ pc' = [pc EXCEPT ![r] = IF seen'[r] <= 0 THEN "queued" ELSE "swapping"]
    /\ UNCHANGED <<gen, current, window, usr1, handle, slot, outcome>>

\* Claim the slot that the loaded value stands for.
Claim(r) ==
    LET g   == handle[r]
        seq == Window(g) - seen[r] + 1
    IN
    /\ Goto(r, "swapping", "queued")
    /\ remaining' = [remaining EXCEPT ![g] = seen[r] - 1]
    /\ issued' = [issued EXCEPT ![g] = Append(@, seq)]
    /\ slot' = [slot EXCEPT ![r] = seq]
    /\ UNCHANGED <<gen, current, arms, usr1, handle, seen, outcome>>

\* Mutated form: a plain store in place of the compare-and-swap.
ReserveStore(r) == Claim(r)

\* The compare-and-swap fails if the counter moved, and Reserve starts over.
ReserveSwap(r) ==
    /\ pc[r] = "swapping"
    /\ \/ seen[r] = remaining[handle[r]] /\ Claim(r)
       \/ /\ seen[r] # remaining[handle[r]]
          /\ Goto(r, "swapping", "reserving")
          /\ UNCHANGED <<gen, current, window, usr1, locals, outcome>>
-----------------------------------------------------------------------------
(* The ends of the request.  A nil captureCtx makes both finishes no-ops.  *)

\* finishSuccess and finishError: Slot.Write renames a complete file into
\* place, over an earlier one of the same request; a failure is only logged.
Finish(r, what) ==
    IF slot[r] = None THEN UNCHANGED <<writes, file>>
    ELSE /\ writes' = [writes EXCEPT ![r] = @ + 1]
         /\ \/ file' = [file EXCEPT ![r] = what]
            \/ UNCHANGED file

Rest == UNCHANGED <<gen, current, window, usr1, locals>>

AcquireSlot(r) == Goto(r, "queued", "upstream") /\ UNCHANGED outcome /\ Rest

\* Mutated form: the refused request leaves its slot unwritten.
CancelUnwritten(r) == Goto(r, "queued", "done") /\ UNCHANGED outcome /\ Rest

\* The client leaves the queue for a concurrency slot.
CancelWait(r) == Goto(r, "queued", "done") /\ Finish(r, "error") /\ Rest

\* modifyResponse cannot read the body: it finishes the capture and returns
\* the error, on which the reverse proxy calls ErrorHandler.
ReadBodyFails(r) == Goto(r, "upstream", "unread") /\ Finish(r, "error") /\ Rest

\* For an unread body this is the second write of the slot.
ErrorHandler(r) ==
    /\ \E here \in {"upstream", "unread"} : Goto(r, here, "done")
    /\ Finish(r, "error") /\ Rest

BufferResponse(r) == Goto(r, "upstream", "done") /\ Finish(r, "response") /\ Rest

StartStream(r) == Goto(r, "upstream", "streaming") /\ UNCHANGED outcome /\ Rest

\* The reverse proxy closes the body it copied, once: onClose.
CloseStream(r) == Goto(r, "streaming", "done") /\ Finish(r, "response") /\ Rest

\* The stream breaks off (an upstream error, the idle timer, the client).  onClose
\* is given the error, yet calls finishSuccess: the file is that of a response.
BreakStream(r) == Goto(r, "streaming", "done") /\ Finish(r, "response") /\ Rest
-----------------------------------------------------------------------------
Reserve(r) == StartCapture(r) \/ ReserveLoad(r) \/ ReserveSwap(r)
Respond(r) == \/ AcquireSlot(r) \/ ReadBodyFails(r) \/ ErrorHandler(r)
              \/ BufferResponse(r) \/ StartStream(r) \/ CloseStream(r) \/ BreakStream(r)

Next ==
    \/ ApplyCaptureConfig \/ LoadForArm \/ Arm
    \/ \E r \in Reqs : Reserve(r) \/ Respond(r) \/ CancelWait(r)

\* Handlers and the signal goroutine run on; signals, reloads and
\* cancellations need not come.
Fairness == WF_vars(Arm) /\ \A r \in Reqs : WF_vars(Reserve(r)) /\ WF_vars(Respond(r))

Spec == Init /\ [][Next]_vars /\ Fairness
-----------------------------------------------------------------------------
(* Properties.                                                             *)

(* The counters of every handle stay within its window, and a slot's seq   *)
(* within 1 .. max_messages.                                               *)
TypeOK ==
    /\ gen \in Gens /\ current \in Gens \cup {None}
    /\ usr1 \in Gens \cup {None}
    /\ \A g \in Gens : remaining[g] \in 0 .. Window(g)
    /\ pc \in [Reqs -> {"validated", "reserving", "swapping", "queued",
                        "upstream", "unread", "streaming", "done", "panicked"}]
    /\ \A r \in Reqs :
          slot[r] # None => handle[r] \in Gens /\ slot[r] \in 1 .. Window(handle[r])
    /\ arms \in [Gens -> Nat] /\ writes \in [Reqs -> Nat]
    /\ file \in [Reqs -> {"none", "error", "response"}]

(* "Reserve atomically claims one capture slot": since a handle was last   *)
(* armed it has handed out the slots 1, 2, ... up to what it counts as     *)
(* taken, each once, although reserving takes a load and a swap between    *)
(* which other requests reserve and the operator arms again.  A handle     *)
(* that was never armed hands out nothing: a reload closes the window.     *)
WindowLaw ==
    \A g \in Gens :
        IF arms[g] = 0
        THEN remaining[g] = 0 /\ issued[g] = <<>>
        ELSE issued[g] = [i \in 1 .. Window(g) - remaining[g] |-> i]

(* A signal is worth max_messages captures: a handle armed n times has     *)
(* given slots to at most n windows of requests, although a request may    *)
(* have loaded the counter before the handle was armed again and swap it   *)
(* afterwards, and keeps its handle over a reload.                         *)
Holders(g) == {r \in Reqs : slot[r] # None /\ handle[r] = g}
SlotBound == \A g \in Gens : Cardinality(Holders(g)) <= arms[g] * Window(g)

(* A claimed slot of the window is not lost: its request writes it in the  *)
(* end, also when the client gives up in the queue, when the upstream call *)
(* fails, and when a reload has replaced the handle meanwhile.  Only a     *)
(* reload that drops the balancer under a request that is settling makes   *)
(* it panic before.                                                        *)
SlotWritten == \A r \in Reqs : slot[r] # None ~> writes[r] > 0 \/ pc[r] = "panicked"
=============================================================================
