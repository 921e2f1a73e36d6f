---------------------------- MODULE LinkService ----------------------------
(***************************************************************************)
(* The daemon's link service (cmd/usbwifi/linkservice.go): API clients     *)
(* call Start and Stop concurrently, each accepted Start spawns a          *)
(* goroutine that drives one bring-up (an "attempt"), and everybody writes *)
(* the one status record.                                                  *)
(*                                                                         *)
(* The body of a bring-up is left open here: while it works it may report  *)
(* any progress state, and it may return zero or non-zero at any moment,   *)
(* or never.  LinkRun spells that body out.                                *)
(***************************************************************************)
EXTENDS Naturals, Sequences

CONSTANTS
    Clients,         \* concurrent callers of the API (requests, MCP, shutdown)
    MaxAttempts,     \* bound of the model: accepted Starts in one behaviour
    MaxHistory,      \* maxLinkHistory, 64 in the code
    ProgressStates   \* states a bring-up reports through reportLink

LinkStates == {"idle", "no_dongle", "needs_replug", "flashing", "associating",
               "handshaking", "configuring", "up", "down", "failed"}

ASSUME BoundsAssumption == MaxAttempts \in Nat /\ MaxHistory \in Nat \ {0}
ASSUME ProgressAssumption == ProgressStates \subseteq LinkStates

Attempt == 1 .. MaxAttempts
Nil == 0

VARIABLES
    state,          \* status.State
    history,        \* recorded transitions, oldest first
    attempts,       \* status.Attempts
    cancel,         \* the attempt whose CancelFunc is stored, or Nil
    linkProgress,   \* is the package variable linkProgress non-nil?
    runPc,          \* program counter of every attempt's goroutine
    runRc,          \* the code its run() returned
    runReport,      \* the state it is about to report
    ctxDone,        \* has its context been cancelled?
    clientPc,       \* program counter of every client
    clientRun       \* the attempt a client works on

statusVars == <<state, history>>
runVars == <<runPc, runRc, runReport, ctxDone>>
clientVars == <<clientPc, clientRun>>
vars == <<state, history, attempts, cancel, linkProgress, runVars, clientVars>>

RunPcs == {"none", "begin", "working", "reporting", "setUp", "complete",
           "clear", "close", "ended"}
ClientPcs == {"ready", "publish", "cancel", "wait", "setIdle"}

TypeOK ==
    /\ state \in LinkStates
    /\ history \in Seq([from : LinkStates, to : LinkStates])
    /\ Len(history) <= MaxHistory
    /\ attempts \in 0 .. MaxAttempts
    /\ cancel \in Attempt \cup {Nil}
    /\ linkProgress \in BOOLEAN
    /\ runPc \in [Attempt -> RunPcs]
    /\ runRc \in [Attempt -> {0, 1}]
    /\ runReport \in [Attempt -> LinkStates]
    /\ ctxDone \in [Attempt -> BOOLEAN]
    /\ clientPc \in [Clients -> ClientPcs]
    /\ clientRun \in [Clients -> Attempt \cup {Nil}]

Init ==
    /\ state = "idle"
    /\ history = << >>
    /\ attempts = 0
    /\ cancel = Nil
    /\ linkProgress = FALSE
    /\ runPc = [a \in Attempt |-> "none"]
    /\ runRc = [a \in Attempt |-> 0]
    /\ runReport = [a \in Attempt |-> "idle"]
    /\ ctxDone = [a \in Attempt |-> FALSE]
    /\ clientPc = [c \in Clients |-> "ready"]
    /\ clientRun = [c \in Clients |-> Nil]

-----------------------------------------------------------------------------
RecordedUnbounded(to) == Append(history, [from |-> state, to |-> to])  \* mutant

(* set / setLocked: record the transition, drop the oldest beyond the bound *)
Recorded(to) ==
    LET h == Append(history, [from |-> state, to |-> to])
    IN  IF Len(h) > MaxHistory THEN Tail(h) ELSE h

Set(to) == state' = to /\ history' = Recorded(to)

RunAt(a, from, to) == runPc[a] = from /\ runPc' = [runPc EXCEPT ![a] = to]
ClientAt(c, from, to) == clientPc[c] = from /\ clientPc' = [clientPc EXCEPT ![c] = to]

-----------------------------------------------------------------------------
(* Mutant of StartAccept: the test for a stored CancelFunc is dropped.      *)
StartAcceptAlways(c) ==
    /\ attempts < MaxAttempts
    /\ ClientAt(c, "ready", "publish")
    /\ attempts' = attempts + 1
    /\ cancel' = attempts'
    /\ clientRun' = [clientRun EXCEPT ![c] = attempts']
    /\ state' = "flashing"
    /\ UNCHANGED <<history, linkProgress, runVars>>

(* Start, the locked half.  With a CancelFunc stored the call is refused    *)
(* and changes nothing; otherwise it takes the slot and resets the status   *)
(* without recording the transition.                                        *)
StartAccept(c) ==
    /\ cancel = Nil
    /\ attempts < MaxAttempts
    /\ ClientAt(c, "ready", "publish")
    /\ attempts' = attempts + 1
    /\ cancel' = attempts'
    /\ clientRun' = [clientRun EXCEPT ![c] = attempts']
    /\ state' = "flashing"
    /\ UNCHANGED <<history, linkProgress, runVars>>

(* Start, after the unlock: publish the progress hook, spawn the goroutine. *)
StartPublish(c) ==
    /\ ClientAt(c, "publish", "ready")
    /\ clientRun' = [clientRun EXCEPT ![c] = Nil]
    /\ linkProgress' = TRUE
    /\ RunAt(clientRun[c], "none", "begin")
    /\ UNCHANGED <<statusVars, attempts, cancel, runRc, runReport, ctxDone>>

(* Stop: snapshot cancel and done under the lock; nothing to do without one *)
StopSnapshot(c) ==
    /\ cancel # Nil
    /\ ClientAt(c, "ready", "cancel")
    /\ clientRun' = [clientRun EXCEPT ![c] = cancel]
    /\ UNCHANGED <<statusVars, attempts, cancel, linkProgress, runVars>>

(* Mutant of StopCancel: Stop frees the slot itself.                        *)
StopCancelAndClear(c) ==
    /\ ClientAt(c, "cancel", "wait")
    /\ ctxDone' = [ctxDone EXCEPT ![clientRun[c]] = TRUE]
    /\ cancel' = Nil
    /\ UNCHANGED <<statusVars, attempts, linkProgress, runPc, runRc, runReport, clientRun>>

StopCancel(c) ==
    /\ ClientAt(c, "cancel", "wait")
    /\ ctxDone' = [ctxDone EXCEPT ![clientRun[c]] = TRUE]
    /\ UNCHANGED <<statusVars, attempts, cancel, linkProgress, runPc, runRc, runReport, clientRun>>

StopDone(c) ==
    /\ ClientAt(c, "wait", "setIdle")
    /\ runPc[clientRun[c]] = "ended"
    /\ UNCHANGED <<statusVars, attempts, cancel, linkProgress, runVars, clientRun>>

StopTimeoutNever(c) == FALSE   \* mutant: Stop waits for done alone

StopTimeout(c) ==   \* ten seconds have passed
    /\ ClientAt(c, "wait", "setIdle")
    /\ UNCHANGED <<statusVars, attempts, cancel, linkProgress, runVars, clientRun>>

StopSetIdle(c) ==
    /\ ClientAt(c, "setIdle", "ready")
    /\ clientRun' = [clientRun EXCEPT ![c] = Nil]
    /\ Set("idle")
    /\ UNCHANGED <<attempts, cancel, linkProgress, runVars>>

-----------------------------------------------------------------------------
(* The goroutine of attempt a: run(), then the completion handler, then the *)
(* two deferred calls.                                                      *)
RunBegin(a) ==
    /\ RunAt(a, "begin", "working")
    /\ Set("associating")
    /\ UNCHANGED <<attempts, cancel, linkProgress, runRc, runReport, ctxDone, clientVars>>

(* reportLink: the hook is loaded once; without one the report is dropped.  *)
RunReport(a, s) ==
    /\ linkProgress
    /\ RunAt(a, "working", "reporting")
    /\ runReport' = [runReport EXCEPT ![a] = s]
    /\ UNCHANGED <<statusVars, attempts, cancel, linkProgress, runRc, ctxDone, clientVars>>

RunReportSet(a) ==
    /\ RunAt(a, "reporting", "working")
    /\ Set(runReport[a])
    /\ runReport' = [runReport EXCEPT ![a] = "idle"]
    /\ UNCHANGED <<attempts, cancel, linkProgress, runRc, ctxDone, clientVars>>

(* The event loop of the attempt's session reports a disconnect from its    *)
(* own goroutine, whatever the attempt is about to report.                  *)
LoopReport(a) ==
    /\ linkProgress
    /\ runPc[a] \in {"working", "reporting"}
    /\ Set("down")
    /\ UNCHANGED <<attempts, cancel, linkProgress, runVars, clientVars>>

RunReturn(a, rc) ==
    /\ RunAt(a, "working", IF rc = 0 THEN "setUp" ELSE "complete")
    /\ runRc' = [runRc EXCEPT ![a] = rc]
    /\ UNCHANGED <<statusVars, attempts, cancel, linkProgress, runReport, ctxDone, clientVars>>

RunSetUp(a) ==
    /\ RunAt(a, "setUp", "complete")
    /\ Set("up")
    /\ UNCHANGED <<attempts, cancel, linkProgress, runRc, runReport, ctxDone, clientVars>>

(* Mutant of FinalState: a zero return leaves the state alone, as it once   *)
(* did, whatever it last reached.                                           *)
FinalStateOnFailureOnly(a) == IF ~ctxDone[a] /\ runRc[a] # 0 THEN "failed" ELSE state

(* The state an attempt that has returned leaves behind. *)
FinalState(a) ==
    IF ctxDone[a] THEN state
    ELSE IF runRc[a] # 0 THEN "failed" ELSE "down"

RunComplete(a) ==
    /\ RunAt(a, "complete", "clear")
    /\ cancel' = Nil
    /\ state' = FinalState(a)
    /\ UNCHANGED <<history, attempts, linkProgress, runRc, runReport, ctxDone, clientVars>>

RunClearProgress(a) ==
    /\ RunAt(a, "clear", "close")
    /\ linkProgress' = FALSE
    /\ UNCHANGED <<statusVars, attempts, cancel, runRc, runReport, ctxDone, clientVars>>

RunCloseDone(a) ==
    /\ RunAt(a, "close", "ended")
    /\ UNCHANGED <<statusVars, attempts, cancel, linkProgress, runRc, runReport, ctxDone, clientVars>>

-----------------------------------------------------------------------------
ClientStep(c) ==
    \/ StartPublish(c)
    \/ StopCancel(c)
    \/ StopDone(c)
    \/ StopTimeout(c)
    \/ StopSetIdle(c)

ClientCall(c) == StartAccept(c) \/ StopSnapshot(c)

(* Steps a goroutine takes without waiting for the dongle or the air. *)
RunStep(a) ==
    \/ RunBegin(a)
    \/ RunReportSet(a)
    \/ RunSetUp(a)
    \/ RunComplete(a)
    \/ RunClearProgress(a)
    \/ RunCloseDone(a)

RunBody(a) ==
    \/ \E s \in ProgressStates : RunReport(a, s)
    \/ LoopReport(a)
    \/ \E rc \in {0, 1} : RunReturn(a, rc)

Next ==
    \/ \E c \in Clients : ClientCall(c) \/ ClientStep(c)
    \/ \E a \in Attempt : RunStep(a) \/ RunBody(a)

Spec == Init /\ [][Next]_vars

(* The Go scheduler runs every runnable goroutine and fires expired timers; *)
(* clients need not call, and a bring-up need not return.                   *)
FairSpec ==
    /\ Spec
    /\ \A c \in Clients : WF_vars(ClientStep(c))
    /\ \A a \in Attempt : WF_vars(RunStep(a))

-----------------------------------------------------------------------------
(* An attempt owns the radio from the moment its Start is accepted until    *)
(* its completion handler has run.                                          *)
Spawning(a) == \E c \in Clients : clientPc[c] = "publish" /\ clientRun[c] = a
Driving(a) == runPc[a] \in {"begin", "working", "reporting", "setUp", "complete"}
Active(a) == Spawning(a) \/ Driving(a)

(* One link at a time: two bring-ups never drive the radio together,        *)
(* whatever Starts and Stops race.  Start only tests the stored CancelFunc, *)
(* so this rests on the completion handler alone clearing it.               *)
OneLink == \A a, b \in Attempt : Active(a) /\ Active(b) => a = b

(* The stored CancelFunc is exactly the active attempt's: a Stop can always *)
(* reach a bring-up that is running, and never cancels thin air.            *)
CancelReachesRun == \A a \in Attempt : cancel = a <=> Active(a)

(* A link that ended by itself is never left looking alive: with nothing    *)
(* running, the latest attempt unstopped, the status is a terminal one (or  *)
(* the idle of a Stop that was still busy with an earlier attempt).         *)
EndedLooksEnded ==
    cancel = Nil /\ attempts > 0 /\ ~ctxDone[attempts]
        => state \in {"failed", "down", "idle"}

(* The inductive invariant behind the three: who may hold which attempt.    *)
SpawnsFresh ==
    \A c \in Clients : clientPc[c] = "publish" =>
        /\ clientRun[c] \in Attempt
        /\ runPc[clientRun[c]] = "none"
        /\ \A d \in Clients : clientPc[d] = "publish" => d = c

WorksOnAttempt ==
    \A c \in Clients : clientPc[c] # "ready" => clientRun[c] \in 1 .. attempts

FutureUntouched == \A a \in Attempt : a > attempts => runPc[a] = "none"

CancelIsLatest == cancel # Nil => cancel = attempts

IndInv ==
    /\ SpawnsFresh
    /\ WorksOnAttempt
    /\ FutureUntouched
    /\ CancelIsLatest
    /\ CancelReachesRun
    /\ EndedLooksEnded

(* Every Stop comes back, even when the bring-up never notices the cancel.  *)
StopReturns == \A c \in Clients : clientPc[c] = "cancel" ~> clientPc[c] = "ready"
=============================================================================
