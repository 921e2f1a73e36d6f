--------------------------- MODULE CommandChannel ---------------------------
(***************************************************************************)
(* One USB session with the dongle (cmdctl.go, submitter.go, loop.go,      *)
(* bulksource.go, session.go): the pump of every bulk-IN endpoint feeds a  *)
(* bounded channel, the event loop turns chunks into frames and tees the   *)
(* message ids of config frames into the bounded ACK channel, Submit       *)
(* writes a command and waits there for an id of its task, and close tears *)
(* everything down.                                                        *)
(*                                                                         *)
(* A frame is its task and the command it confirms (0: none, a message the *)
(* firmware sends of its own accord).  One transfer carries one frame.     *)
(***************************************************************************)
EXTENDS Naturals, Sequences, FiniteSets

CONSTANTS
    Helpers,       \* goroutines that outlive the set-up: subset of {"groupKey", "bridge"}
    Endpoints,     \* bulk-IN endpoints: the data one and, on most dongles, a command one
    Tasks,         \* firmware tasks a command can address (MM, ME, DBG, ...)
    ChunkCap,      \* capacity of bulkCh and msgCh, 256 in the code
    AckCap,        \* capacity of ackCh, 64 in the code
    MaxCommands,   \* bound of the model: commands written in one session
    MaxStrays      \* bound of the model: frames the firmware sends unasked

ASSUME CapsAssumption == ChunkCap \in Nat \ {0} /\ AckCap \in Nat \ {0}
ASSUME BoundsAssumption == MaxCommands \in Nat /\ MaxStrays \in Nat
ASSUME TasksAssumption == "data" \notin Tasks
ASSUME HelpersAssumption == Helpers \subseteq {"groupKey", "bridge"}

(* Who writes to the dongle: the bring-up itself, the goroutine that        *)
(* answers group rekeys, and the bridge's two, which submit no commands.    *)
Writers == {"bringup"} \cup Helpers
Submitters == Writers \ {"bridge"}

Command == 0 .. MaxCommands
Frame == [task : Tasks \cup {"data"}, cfm : Command]

VARIABLES
    phase,     \* where the bring-up is in the life of the session
    ctxDone,   \* is the context of the attempt cancelled?
    loopCtx,   \* is the context of the event loop cancelled?
    loop,      \* the event loop: "next", "handling" or "ended"
    done,      \* is the pumps' done channel closed?
    pump,      \* the pump of every endpoint: "check", "reading" or "ended"
    chunks,    \* bulkCh and msgCh
    ackCh,     \* frames whose ids wait for a submitter
    pc,        \* every writer: "off", "idle", "writing" or "await"
    task,      \* the task its current command addresses, "data" without one
    cmd,       \* the number of its current command, or 0
    count,     \* commands numbered so far
    strays,    \* frames sent unasked so far
    pending,   \* commands the firmware has received and not dealt with
    wire,      \* frames on their way to the host, per endpoint
    spoilt,    \* history: tasks with a Submit that gave up, or a stray
    misread    \* history: tasks a Submit took another command's frame for

host == <<phase, ctxDone, loopCtx>>
receivers == <<loop, done, pump, chunks>>
writers == <<pc, task, cmd, count>>
firmware == <<strays, pending, wire>>
ghosts == <<spoilt, misread>>
vars == <<host, receivers, ackCh, writers, firmware, ghosts>>

Phases == {"init", "serve", "cancel", "waitLoop", "stop", "wait", "release", "closed"}

TypeOK ==
    /\ phase \in Phases /\ ctxDone \in BOOLEAN /\ loopCtx \in BOOLEAN
    /\ loop \in {"next", "handling", "ended"}
    /\ done \in BOOLEAN
    /\ pump \in [Endpoints -> {"check", "reading", "ended"}]
    /\ chunks \in [Endpoints -> Seq(Frame)]
    /\ \A e \in Endpoints : Len(chunks[e]) <= ChunkCap
    /\ ackCh \in Seq(Frame) /\ Len(ackCh) <= AckCap
    /\ pc \in [Writers -> {"off", "idle", "writing", "await"}]
    /\ task \in [Writers -> Tasks \cup {"data"}]
    /\ cmd \in [Writers -> Command]
    /\ count \in Command
    /\ strays \in 0 .. MaxStrays
    /\ pending \in Seq([task : Tasks, cfm : Command])
    /\ wire \in [Endpoints -> Seq(Frame)]
    /\ spoilt \subseteq Tasks /\ misread \subseteq Tasks

(* openSessionWith: the loop runs and has started the pumps *)
Init ==
    /\ phase = "init" /\ ctxDone = FALSE /\ loopCtx = FALSE
    /\ loop = "next" /\ done = FALSE
    /\ pump = [e \in Endpoints |-> "check"]
    /\ chunks = [e \in Endpoints |-> << >>]
    /\ ackCh = << >>
    /\ pc = [w \in Writers |-> IF w = "bringup" THEN "idle" ELSE "off"]
    /\ task = [w \in Writers |-> "data"]
    /\ cmd = [w \in Writers |-> 0]
    /\ count = 0 /\ strays = 0
    /\ pending = << >>
    /\ wire = [e \in Endpoints |-> << >>]
    /\ spoilt = {} /\ misread = {}

open == phase # "closed"   \* is s.dev still there?

OfferedAnyway(ch, cap, f) == Append(ch, f)   \* mutant: the send grows the queue

(* A non-blocking send on a bounded channel: full means dropped. *)
Offered(ch, cap, f) == IF Len(ch) < cap THEN Append(ch, f) ELSE ch

-----------------------------------------------------------------------------
(* The firmware.  Commands arrive in order; a confirmation may be skipped   *)
(* (this one often does) and may leave on either endpoint.                  *)
Confirm(e) ==
    /\ open /\ pending # << >>
    /\ pending' = Tail(pending)
    /\ wire' = [wire EXCEPT ![e] = Append(@, Head(pending))]
    /\ UNCHANGED <<host, receivers, ackCh, writers, strays, ghosts>>

SkipConfirm ==
    /\ pending # << >>
    /\ pending' = Tail(pending)
    /\ UNCHANGED <<host, receivers, ackCh, writers, strays, wire, ghosts>>

(* a data frame, or an indication of some task *)
Stray(e, t) ==
    /\ open /\ strays < MaxStrays
    /\ strays' = strays + 1
    /\ wire' = [wire EXCEPT ![e] = Append(@, [task |-> t, cfm |-> 0])]
    /\ spoilt' = spoilt \cup ({t} \cap Tasks)
    /\ UNCHANGED <<host, receivers, ackCh, writers, pending, misread>>

-----------------------------------------------------------------------------
(* The pumps.  Read errors and timeouts are the same to them: try again.    *)
PumpRead(e) ==
    /\ pump[e] = "check" /\ ~done
    /\ pump' = [pump EXCEPT ![e] = "reading"]
    /\ UNCHANGED <<host, loop, done, chunks, ackCh, writers, firmware, ghosts>>

PumpEnd(e) ==
    /\ pump[e] = "check" /\ done
    /\ pump' = [pump EXCEPT ![e] = "ended"]
    /\ UNCHANGED <<host, loop, done, chunks, ackCh, writers, firmware, ghosts>>

PumpTimeout(e) ==
    /\ pump[e] = "reading"
    /\ pump' = [pump EXCEPT ![e] = "check"]
    /\ UNCHANGED <<host, loop, done, chunks, ackCh, writers, firmware, ghosts>>

PumpChunk(e) ==
    /\ pump[e] = "reading"
    /\ wire[e] # << >>
    /\ wire' = [wire EXCEPT ![e] = Tail(@)]
    /\ pump' = [pump EXCEPT ![e] = "check"]
    /\ chunks' = [chunks EXCEPT ![e] =
                      IF done THEN @ ELSE Offered(@, ChunkCap, Head(wire[e]))]
    /\ UNCHANGED <<host, loop, done, ackCh, writers, strays, pending, ghosts>>

-----------------------------------------------------------------------------
(* The event loop: Next of the teed source, then the handler. *)
LoopFrame(e) ==
    /\ loop = "next" /\ ~loopCtx
    /\ chunks[e] # << >>
    /\ chunks' = [chunks EXCEPT ![e] = Tail(@)]
    /\ ackCh' = IF Head(chunks[e]).task = "data" THEN ackCh
                ELSE Offered(ackCh, AckCap, Head(chunks[e]))
    /\ loop' = "handling"
    /\ UNCHANGED <<host, done, pump, writers, firmware, ghosts>>

LoopHandled ==
    /\ loop = "handling"
    /\ loop' = "next"
    /\ UNCHANGED <<host, done, pump, chunks, ackCh, writers, firmware, ghosts>>

(* Any error of the source ends the loop: a record that is out of alignment *)
(* and whose length makes no sense ...                                      *)
LoopCorrupt(e) ==
    /\ loop = "next" /\ ~loopCtx
    /\ chunks[e] # << >>
    /\ chunks' = [chunks EXCEPT ![e] = Tail(@)]
    /\ loop' = "ended"
    /\ UNCHANGED <<host, done, pump, ackCh, writers, firmware, ghosts>>

(* ... or the end of its context. *)
LoopCancelled ==
    /\ loop = "next" /\ loopCtx
    /\ loop' = "ended"
    /\ UNCHANGED <<host, done, pump, chunks, ackCh, writers, firmware, ghosts>>

-----------------------------------------------------------------------------
(* The writers.  Every write first looks whether the device is still there; *)
(* a transfer may take a second and sees no context.                        *)
MayWrite(w) ==
    /\ pc[w] = "idle" /\ open
    /\ CASE w = "bringup"  -> phase = "init"
         [] w = "bridge"   -> phase = "serve"
         [] w = "groupKey" -> ~ctxDone

Submit(w, t) ==
    /\ MayWrite(w)
    /\ count < MaxCommands
    /\ count' = count + 1
    /\ pc' = [pc EXCEPT ![w] = "writing"]
    /\ task' = [task EXCEPT ![w] = t]
    /\ cmd' = [cmd EXCEPT ![w] = count']
    /\ UNCHANGED <<host, receivers, ackCh, firmware, ghosts>>

(* raw records: register writes, EAPOL frames, the bridge's packets *)
SendData(w) ==
    /\ MayWrite(w)
    /\ pc' = [pc EXCEPT ![w] = "writing"]
    /\ UNCHANGED <<host, receivers, ackCh, task, cmd, count, firmware, ghosts>>

Finished(w) ==
    /\ pc' = [pc EXCEPT ![w] = "idle"]
    /\ task' = [task EXCEPT ![w] = "data"]
    /\ cmd' = [cmd EXCEPT ![w] = 0]
    /\ UNCHANGED <<host, receivers, count>>

(* the data record is out, or the transfer failed: Submit passes that on    *)
WriteReturns(w) ==
    /\ pc[w] = "writing"
    /\ Finished(w)
    /\ UNCHANGED <<ackCh, firmware, ghosts>>

Delivered(w) ==
    /\ pc[w] = "writing" /\ cmd[w] # 0
    /\ pc' = [pc EXCEPT ![w] = "await"]
    /\ pending' = Append(pending, [task |-> task[w], cfm |-> cmd[w]])
    /\ UNCHANGED <<host, receivers, ackCh, task, cmd, count, strays, wire, ghosts>>

AckedByAnyTask(w) ==   \* mutant: the task is not compared
    /\ pc[w] = "await"
    /\ ackCh # << >>
    /\ ackCh' = Tail(ackCh)
    /\ Finished(w)
    /\ misread' = IF Head(ackCh).cfm = cmd[w] THEN misread
                  ELSE misread \cup {task[w]}
    /\ UNCHANGED <<firmware, spoilt>>

(* An id of the same task ends the wait, whichever command it confirms. *)
Acked(w) ==
    /\ pc[w] = "await"
    /\ ackCh # << >>
    /\ Head(ackCh).task = task[w]
    /\ ackCh' = Tail(ackCh)
    /\ Finished(w)
    /\ misread' = IF Head(ackCh).cfm = cmd[w] THEN misread
                  ELSE misread \cup {task[w]}
    /\ UNCHANGED <<firmware, spoilt>>

AckOfOtherTask(w) ==
    /\ pc[w] = "await"
    /\ ackCh # << >>
    /\ Head(ackCh).task # task[w]
    /\ ackCh' = Tail(ackCh)
    /\ UNCHANGED <<host, receivers, writers, firmware, ghosts>>

AckTimeoutNever(w) == FALSE   \* mutant: NextACK waits for the channel alone

(* the caller's few seconds, or the attempt's context *)
AckTimeout(w) ==
    /\ pc[w] = "await"
    /\ Finished(w)
    /\ spoilt' = spoilt \cup {task[w]}
    /\ UNCHANGED <<ackCh, firmware, misread>>

-----------------------------------------------------------------------------
(* The bring-up: its commands, then the link it serves, then session.close. *)
Serve ==
    /\ phase = "init" /\ pc["bringup"] = "idle"
    /\ phase' = "serve"
    /\ pc' = [w \in Writers |-> "idle"]
    /\ UNCHANGED <<ctxDone, loopCtx, receivers, ackCh, task, cmd, count, firmware, ghosts>>

Cancel ==   \* a Stop: the loop's context is derived from the attempt's
    /\ ~ctxDone
    /\ ctxDone' = TRUE /\ loopCtx' = TRUE
    /\ UNCHANGED <<phase, receivers, ackCh, writers, firmware, ghosts>>

ToPhase(from, to) ==
    /\ phase = from /\ phase' = to
    /\ UNCHANGED <<ctxDone, ackCh, writers, firmware, ghosts>>

Leave ==   \* an error, a lost link or the context ends runCmdBringup
    /\ pc["bringup"] = "idle"
    /\ \E from \in {"init", "serve"} : ToPhase(from, "cancel")
    /\ UNCHANGED <<loopCtx, receivers>>

CloseCancel ==
    /\ ToPhase("cancel", "waitLoop")
    /\ loopCtx' = TRUE
    /\ UNCHANGED receivers

CloseLoopDone ==
    /\ ToPhase("waitLoop", "stop")
    /\ loop = "ended"
    /\ UNCHANGED <<loopCtx, receivers>>

CloseLoopTimeoutNever == FALSE   \* mutant: close waits for the loop for ever

CloseLoopTimeout ==   \* three seconds: a handler hangs
    /\ ToPhase("waitLoop", "stop")
    /\ loop = "handling"
    /\ UNCHANGED <<loopCtx, receivers>>

CloseStop ==
    /\ ToPhase("stop", "wait")
    /\ done' = TRUE
    /\ UNCHANGED <<loopCtx, loop, pump, chunks>>

CloseNoWait ==   \* mutant: Stop does not wait for the pumps
    /\ ToPhase("wait", "release")
    /\ UNCHANGED <<loopCtx, receivers>>

CloseWait ==
    /\ ToPhase("wait", "release")
    /\ \A e \in Endpoints : pump[e] = "ended"
    /\ UNCHANGED <<loopCtx, receivers>>

CloseRelease ==   \* release the interface, close the handle, libusb_exit
    /\ ToPhase("release", "closed")
    /\ UNCHANGED <<loopCtx, receivers>>

-----------------------------------------------------------------------------
Firmware ==
    \/ SkipConfirm
    \/ \E e \in Endpoints : Confirm(e)
    \/ \E e \in Endpoints, t \in Tasks \cup {"data"} : Stray(e, t)

Pump(e) == PumpRead(e) \/ PumpEnd(e) \/ PumpTimeout(e) \/ PumpChunk(e)

Loop == LoopCancelled \/ \E e \in Endpoints : LoopFrame(e) \/ LoopCorrupt(e)

Wait(w) == Acked(w) \/ AckOfOtherTask(w) \/ AckTimeout(w)

Writer(w) ==
    \/ SendData(w) \/ WriteReturns(w)
    \/ w \in Submitters /\ (Delivered(w) \/ Wait(w) \/ \E t \in Tasks : Submit(w, t))

Close ==
    \/ CloseCancel \/ CloseLoopDone \/ CloseLoopTimeout
    \/ CloseStop \/ CloseWait \/ CloseRelease

Next ==
    \/ Firmware
    \/ \E e \in Endpoints : Pump(e)
    \/ Loop \/ LoopHandled
    \/ \E w \in Writers : Writer(w)
    \/ Serve \/ Cancel \/ Leave \/ Close

Spec == Init /\ [][Next]_vars

(* Goroutines run, transfers and timers end.  The firmware need not answer, *)
(* and a handler of the event loop, which prints and takes locks, may hang. *)
FairSpec ==
    /\ Spec
    /\ \A e \in Endpoints : WF_vars(Pump(e))
    /\ WF_vars(Loop)
    /\ \A w \in Writers : WF_vars(WriteReturns(w)) /\ WF_vars(AckTimeout(w))
    /\ WF_vars(Close)

-----------------------------------------------------------------------------
(* "libusb_exit with a transfer in flight segfaults": when the session is   *)
(* released both pumps are gone, however late they saw the end.             *)
PumpsQuiesced == phase \in {"release", "closed"} => \A e \in Endpoints : pump[e] = "ended"

(* Submit compares tasks, not commands.  It never takes a foreign frame for *)
(* its own as long as no Submit of that task has given up and the firmware  *)
(* has not spoken for that task unasked: dropped, late and skipped          *)
(* confirmations of the other tasks do no harm.                             *)
AcksSound == misread \subseteq spoilt

(* Every Submit and every data send returns, even when the loop is dead.    *)
WriteEnds == \A w \in Writers : pc[w] \in {"writing", "await"} ~> pc[w] = "idle"

(* close comes back, even when a handler of the loop hangs.                 *)
CloseReturns == phase = "cancel" ~> phase = "closed"
=============================================================================
