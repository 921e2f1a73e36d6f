----------------------------- MODULE LinkProofs -----------------------------
(***************************************************************************)
(* Proofs about the link: first LinkService, for any number of clients and *)
(* attempts and any history bound, then LinkRun, the whole daemon, which   *)
(* implements it and resets no firmware instance twice.                    *)
(***************************************************************************)
EXTENDS LinkRun, TLAPS

-----------------------------------------------------------------------------
(* The service.                                                             *)


(* Recording a transition keeps the history a sequence within its bound.    *)
LEMMA RecordedType ==
    ASSUME TypeOK, NEW to \in LinkStates
    PROVE  /\ Recorded(to) \in Seq([from : LinkStates, to : LinkStates])
           /\ Len(Recorded(to)) <= MaxHistory
<1> DEFINE E == [from : LinkStates, to : LinkStates]
           h == Append(history, [from |-> state, to |-> to])
<1>1. [from |-> state, to |-> to] \in E
  BY DEF TypeOK
<1>2. h \in Seq(E) /\ Len(h) = Len(history) + 1 /\ Len(history) \in Nat
  BY <1>1 DEF TypeOK
<1>3. Tail(h) \in Seq(E) /\ Len(Tail(h)) = Len(h) - 1
  BY <1>2
<1>4. QED
  <2>1. Recorded(to) = IF Len(h) > MaxHistory THEN Tail(h) ELSE h
    BY DEF Recorded
  <2>2. Len(history) <= MaxHistory
    BY DEF TypeOK
  <2> HIDE DEF h
  <2>3. CASE Len(h) > MaxHistory
    BY <1>2, <1>3, <2>1, <2>2, <2>3, BoundsAssumption
  <2>4. CASE ~(Len(h) > MaxHistory)
    BY <1>2, <2>1, <2>4, BoundsAssumption
  <2>5. QED
    BY <2>3, <2>4

(* Type correctness: every state of every behaviour has the declared types. *)
THEOREM TypeCorrect == Spec => []TypeOK
<1>1. Init => TypeOK
  <2> SUFFICES ASSUME Init PROVE TypeOK
    OBVIOUS
  <2>1. history \in Seq([from : LinkStates, to : LinkStates]) /\ Len(history) = 0
    BY DEF Init
  <2>2. Len(history) <= MaxHistory
    BY <2>1, BoundsAssumption
  <2>3. state \in LinkStates /\ attempts \in 0 .. MaxAttempts
    BY BoundsAssumption DEF Init, LinkStates
  <2>4. /\ cancel \in Attempt \cup {Nil}
        /\ linkProgress \in BOOLEAN
        /\ runPc \in [Attempt -> RunPcs]
        /\ runRc \in [Attempt -> {0, 1}]
        /\ runReport \in [Attempt -> LinkStates]
        /\ ctxDone \in [Attempt -> BOOLEAN]
        /\ clientPc \in [Clients -> ClientPcs]
        /\ clientRun \in [Clients -> Attempt \cup {Nil}]
    BY DEF Init, LinkStates, RunPcs, ClientPcs
  <2>5. QED
    BY <2>1, <2>2, <2>3, <2>4 DEF TypeOK
<1>2. TypeOK /\ [Next]_vars => TypeOK'
  <2> SUFFICES ASSUME TypeOK, [Next]_vars PROVE TypeOK'
    OBVIOUS
  <2> USE DEF Attempt, Nil, RunPcs, ClientPcs, RunAt, ClientAt,
              statusVars, runVars, clientVars
  <2>1. ASSUME NEW c \in Clients, StartAccept(c) PROVE TypeOK'
    BY <2>1, BoundsAssumption DEF TypeOK, StartAccept, LinkStates
  <2>2. ASSUME NEW c \in Clients, StopSnapshot(c) PROVE TypeOK'
    BY <2>2 DEF TypeOK, StopSnapshot
  <2>3. ASSUME NEW c \in Clients, StartPublish(c) PROVE TypeOK'
    BY <2>3 DEF TypeOK, StartPublish
  <2>4. ASSUME NEW c \in Clients, StopCancel(c) PROVE TypeOK'
    BY <2>4 DEF TypeOK, StopCancel
  <2>5. ASSUME NEW c \in Clients, StopDone(c) PROVE TypeOK'
    BY <2>5 DEF TypeOK, StopDone
  <2>6. ASSUME NEW c \in Clients, StopTimeout(c) PROVE TypeOK'
    BY <2>6 DEF TypeOK, StopTimeout
  <2>7. ASSUME NEW c \in Clients, StopSetIdle(c) PROVE TypeOK'
    <3>1. "idle" \in LinkStates
      BY DEF LinkStates
    <3>2. state' \in LinkStates /\ history' = Recorded("idle")
      BY <2>7, <3>1 DEF StopSetIdle, Set
    <3>3. QED
      BY <2>7, <3>1, <3>2, RecordedType DEF TypeOK, StopSetIdle
  <2>8. ASSUME NEW a \in Attempt, RunBegin(a) PROVE TypeOK'
    <3>1. "associating" \in LinkStates
      BY DEF LinkStates
    <3>2. state' \in LinkStates /\ history' = Recorded("associating")
      BY <2>8, <3>1 DEF RunBegin, Set
    <3>3. QED
      BY <2>8, <3>1, <3>2, RecordedType DEF TypeOK, RunBegin
  <2>9. ASSUME NEW a \in Attempt, NEW s \in ProgressStates, RunReport(a, s) PROVE TypeOK'
    BY <2>9, ProgressAssumption DEF TypeOK, RunReport
  <2>10. ASSUME NEW a \in Attempt, RunReportSet(a) PROVE TypeOK'
    <3>1. runReport[a] \in LinkStates /\ "idle" \in LinkStates
      BY DEF TypeOK, LinkStates
    <3>2. state' \in LinkStates /\ history' = Recorded(runReport[a])
      BY <2>10, <3>1 DEF RunReportSet, Set
    <3>3. QED
      BY <2>10, <3>1, <3>2, RecordedType DEF TypeOK, RunReportSet
  <2>11. ASSUME NEW a \in Attempt, NEW rc \in {0, 1}, RunReturn(a, rc) PROVE TypeOK'
    BY <2>11 DEF TypeOK, RunReturn
  <2>12. ASSUME NEW a \in Attempt, RunSetUp(a) PROVE TypeOK'
    <3>1. "up" \in LinkStates
      BY DEF LinkStates
    <3>2. state' \in LinkStates /\ history' = Recorded("up")
      BY <2>12, <3>1 DEF RunSetUp, Set
    <3>3. QED
      BY <2>12, <3>1, <3>2, RecordedType DEF TypeOK, RunSetUp
  <2>13. ASSUME NEW a \in Attempt, RunComplete(a) PROVE TypeOK'
    <3>1. FinalState(a) \in LinkStates
      BY DEF FinalState, TypeOK, LinkStates
    <3>2. QED
      BY <2>13, <3>1 DEF TypeOK, RunComplete
  <2>14. ASSUME NEW a \in Attempt, RunClearProgress(a) PROVE TypeOK'
    BY <2>14 DEF TypeOK, RunClearProgress
  <2>15. ASSUME NEW a \in Attempt, RunCloseDone(a) PROVE TypeOK'
    BY <2>15 DEF TypeOK, RunCloseDone
  <2>16. ASSUME NEW a \in Attempt, LoopReport(a) PROVE TypeOK'
    <3>1. "down" \in LinkStates
      BY DEF LinkStates
    <3>2. state' \in LinkStates /\ history' = Recorded("down")
      BY <2>16, <3>1 DEF LoopReport, Set
    <3>3. QED
      BY <2>16, <3>1, <3>2, RecordedType DEF TypeOK, LoopReport
  <2>17. CASE UNCHANGED vars
    BY <2>17 DEF TypeOK, vars
  <2>18. QED
    BY <2>17, <2>1, <2>2, <2>3, <2>4, <2>5, <2>6, <2>7, <2>8, <2>9, <2>10, <2>11,
       <2>12, <2>13, <2>14, <2>15, <2>16
       DEF Next, ClientCall, ClientStep, RunStep, RunBody
<1>3. QED
  BY <1>1, <1>2, PTL DEF Spec

-----------------------------------------------------------------------------
(* A step that leaves the program counters and the bookkeeping of the slot  *)
(* alone preserves every part of IndInv but EndedLooksEnded.                *)
LEMMA BookkeepingUnchanged ==
    ASSUME IndInv, UNCHANGED <<attempts, cancel, runPc, clientPc, clientRun>>
    PROVE  /\ SpawnsFresh' /\ WorksOnAttempt' /\ FutureUntouched'
           /\ CancelIsLatest' /\ CancelReachesRun'
BY DEF IndInv, SpawnsFresh, WorksOnAttempt, FutureUntouched, CancelIsLatest,
       CancelReachesRun, Active, Spawning, Driving

(* A Stop's own steps move one client between counters that spawn nothing.  *)
LEMMA StopStepBookkeeping ==
    ASSUME TypeOK, IndInv, NEW c \in Clients,
           clientPc[c] # "publish", NEW pc \in ClientPcs, pc # "publish",
           clientPc' = [clientPc EXCEPT ![c] = pc],
           \A d \in Clients : d # c => clientRun'[d] = clientRun[d],
           pc # "ready" => clientRun'[c] \in 1 .. attempts,
           UNCHANGED <<attempts, cancel, runPc>>
    PROVE  /\ SpawnsFresh' /\ WorksOnAttempt' /\ FutureUntouched'
           /\ CancelIsLatest' /\ CancelReachesRun'
<1>1. \A d \in Clients : clientPc'[d] = IF d = c THEN pc ELSE clientPc[d]
  BY DEF TypeOK
<1>2. \A d \in Clients : clientPc'[d] = "publish" <=> clientPc[d] = "publish"
  BY <1>1
<1>3. \A d \in Clients : clientPc[d] = "publish" => clientRun'[d] = clientRun[d]
  OBVIOUS
<1>4. \A a \in Attempt : Active(a)' <=> Active(a)
  BY <1>2, <1>3 DEF Active, Spawning, Driving
<1>5. SpawnsFresh'
  BY <1>2, <1>3 DEF IndInv, SpawnsFresh
<1>6. WorksOnAttempt'
  BY <1>1 DEF IndInv, WorksOnAttempt
<1>7. CancelReachesRun'
  BY <1>4 DEF IndInv, CancelReachesRun
<1>8. FutureUntouched' /\ CancelIsLatest'
  BY DEF IndInv, FutureUntouched, CancelIsLatest
<1>9. QED
  BY <1>5, <1>6, <1>7, <1>8

(* A goroutine's step between two counters on the same side of its          *)
(* completion handler moves no ownership.                                   *)
LEMMA RunStepBookkeeping ==
    ASSUME TypeOK, IndInv, NEW a \in Attempt, NEW pc \in RunPcs,
           runPc[a] # "none", pc # "none",
           runPc' = [runPc EXCEPT ![a] = pc],
           pc \in {"begin", "working", "reporting", "setUp", "complete"} <=> Driving(a),
           UNCHANGED <<attempts, cancel, clientPc, clientRun>>
    PROVE  /\ SpawnsFresh' /\ WorksOnAttempt' /\ FutureUntouched'
           /\ CancelIsLatest' /\ CancelReachesRun'
<1>1. \A b \in Attempt : runPc'[b] = IF b = a THEN pc ELSE runPc[b]
  BY DEF TypeOK
<1>2. \A b \in Attempt : Driving(b)' <=> Driving(b)
  BY <1>1 DEF Driving
<1>3. \A b \in Attempt : runPc'[b] = "none" <=> runPc[b] = "none"
  BY <1>1
<1>4. CancelReachesRun'
  BY <1>2 DEF IndInv, CancelReachesRun, Active, Spawning
<1>5. SpawnsFresh' /\ WorksOnAttempt' /\ FutureUntouched' /\ CancelIsLatest'
  BY <1>3 DEF IndInv, SpawnsFresh, WorksOnAttempt, FutureUntouched, CancelIsLatest
<1>6. QED
  BY <1>4, <1>5

(* While an attempt drives the radio the slot is taken, so the status of a  *)
(* finished link is not at stake.                                           *)
LEMMA DrivingHoldsSlot ==
    ASSUME IndInv, NEW a \in Attempt, Driving(a)
    PROVE  cancel = a /\ cancel # Nil
BY DEF IndInv, CancelReachesRun, Active, Attempt, Nil

-----------------------------------------------------------------------------
(* The inductive invariant holds: ownership of the radio follows the stored *)
(* CancelFunc through every interleaving of Starts, Stops and completions.  *)
THEOREM Inductive == Spec => []IndInv
<1> USE DEF Attempt, Nil, RunAt, ClientAt
<1>1. Init => IndInv
  BY DEF Init, IndInv, SpawnsFresh, WorksOnAttempt, FutureUntouched, CancelIsLatest,
         CancelReachesRun, EndedLooksEnded, Active, Spawning, Driving
<1>2. TypeOK /\ IndInv /\ [Next]_vars => IndInv'
  <2> SUFFICES ASSUME TypeOK, IndInv, [Next]_vars PROVE IndInv'
    OBVIOUS
  <2> DEFINE Book == /\ SpawnsFresh' /\ WorksOnAttempt' /\ FutureUntouched'
                     /\ CancelIsLatest' /\ CancelReachesRun'
  <2>1. ASSUME NEW c \in Clients, StartAccept(c) PROVE IndInv'
    <3> DEFINE n == attempts + 1
    <3>1. /\ n \in Attempt /\ runPc[n] = "none" /\ attempts' = n /\ cancel' = n
          /\ cancel = Nil /\ runPc' = runPc
      BY <2>1, BoundsAssumption DEF StartAccept, TypeOK, IndInv, FutureUntouched, runVars
    <3>a. /\ clientPc' = [clientPc EXCEPT ![c] = "publish"]
          /\ clientRun' = [clientRun EXCEPT ![c] = n]
      BY <2>1, <3>1 DEF StartAccept
    <3> HIDE DEF n
    <3>2. \A d \in Clients : /\ clientPc'[d] = (IF d = c THEN "publish" ELSE clientPc[d])
                             /\ clientRun'[d] = (IF d = c THEN n ELSE clientRun[d])
      BY <3>a DEF TypeOK
    <3>3. \A a \in Attempt : ~Active(a)
      BY <3>1 DEF IndInv, CancelReachesRun
    <3>4. \A d \in Clients : clientPc[d] # "publish"
      BY <3>3 DEF IndInv, SpawnsFresh, Active, Spawning
    <3>5. SpawnsFresh'
      BY <3>1, <3>2, <3>4 DEF SpawnsFresh
    <3>6. WorksOnAttempt'
      BY <3>1, <3>2 DEF IndInv, WorksOnAttempt, TypeOK, n
    <3>7. FutureUntouched' /\ CancelIsLatest'
      BY <3>1 DEF IndInv, FutureUntouched, CancelIsLatest, TypeOK, n
    <3>8. CancelReachesRun'
      <4>1. \A a \in Attempt : Driving(a)' <=> Driving(a)
        BY <3>1 DEF Driving
      <4>2. \A a \in Attempt : Spawning(a)' <=> a = n
        BY <3>2, <3>4 DEF Spawning
      <4>3. QED
        BY <3>1, <3>3, <4>1, <4>2 DEF CancelReachesRun, Active
    <3>9. EndedLooksEnded'
      BY <3>1 DEF EndedLooksEnded, TypeOK
    <3>10. QED
      BY <3>5, <3>6, <3>7, <3>8, <3>9 DEF IndInv
  <2>2. ASSUME NEW c \in Clients, StopSnapshot(c) PROVE IndInv'
    <3>1. /\ clientPc[c] # "publish" /\ clientRun'[c] \in 1 .. attempts
          /\ \A d \in Clients : d # c => clientRun'[d] = clientRun[d]
      BY <2>2 DEF StopSnapshot, TypeOK, IndInv, CancelIsLatest
    <3>2. Book
      BY <2>2, <3>1, StopStepBookkeeping DEF StopSnapshot, runVars, ClientPcs
    <3>3. EndedLooksEnded'
      BY <2>2 DEF StopSnapshot, IndInv, EndedLooksEnded, statusVars, runVars
    <3>4. QED
      BY <3>2, <3>3 DEF IndInv
  <2>3. ASSUME NEW c \in Clients, StartPublish(c) PROVE IndInv'
    <3> DEFINE n == clientRun[c]
    <3>1. n \in Attempt /\ runPc[n] = "none" /\ n <= attempts /\ n \in Nat \ {0}
      BY <2>3, BoundsAssumption
         DEF StartPublish, IndInv, SpawnsFresh, WorksOnAttempt, TypeOK
    <3>a. /\ clientPc' = [clientPc EXCEPT ![c] = "ready"]
          /\ clientRun' = [clientRun EXCEPT ![c] = Nil]
          /\ runPc' = [runPc EXCEPT ![n] = "begin"]
          /\ UNCHANGED <<state, attempts, cancel, ctxDone>>
      BY <2>3 DEF StartPublish, statusVars
    <3> HIDE DEF n
    <3>2. /\ \A d \in Clients : /\ clientPc'[d] = (IF d = c THEN "ready" ELSE clientPc[d])
                                /\ clientRun'[d] = (IF d = c THEN Nil ELSE clientRun[d])
          /\ \A a \in Attempt : runPc'[a] = (IF a = n THEN "begin" ELSE runPc[a])
          /\ UNCHANGED <<state, attempts, cancel, ctxDone>>
      BY <3>1, <3>a DEF TypeOK
    <3>3. \A d \in Clients : clientPc[d] = "publish" => d = c
      BY <2>3 DEF StartPublish, IndInv, SpawnsFresh
    <3>4. SpawnsFresh' /\ WorksOnAttempt' /\ FutureUntouched' /\ CancelIsLatest'
      BY <3>1, <3>2, <3>3
         DEF IndInv, SpawnsFresh, WorksOnAttempt, FutureUntouched, CancelIsLatest, TypeOK
    <3>5. \A a \in Attempt : Active(a)' <=> Active(a)
      <4>1. \A a \in Attempt : ~Spawning(a)'
        BY <3>2, <3>3 DEF Spawning
      <4>2. \A a \in Attempt : Driving(a)' <=> Driving(a) \/ a = n
        BY <3>1, <3>2 DEF Driving
      <4>3. \A a \in Attempt : Spawning(a) <=> a = n
        BY <2>3, <3>3 DEF Spawning, StartPublish, n
      <4>4. QED
        BY <4>1, <4>2, <4>3 DEF Active
    <3>6. CancelReachesRun'
      BY <3>2, <3>5 DEF IndInv, CancelReachesRun
    <3>7. EndedLooksEnded'
      BY <3>2 DEF IndInv, EndedLooksEnded
    <3>8. QED
      BY <3>4, <3>6, <3>7 DEF IndInv
  <2>4. ASSUME NEW c \in Clients, StopCancel(c) PROVE IndInv'
    <3>1. Book
      BY <2>4, StopStepBookkeeping DEF StopCancel, IndInv, WorksOnAttempt, ClientPcs
    <3>2. EndedLooksEnded'
      BY <2>4 DEF StopCancel, IndInv, EndedLooksEnded, statusVars, TypeOK
    <3>3. QED
      BY <3>1, <3>2 DEF IndInv
  <2>5. ASSUME NEW c \in Clients, StopDone(c) \/ StopTimeout(c) PROVE IndInv'
    <3>1. Book
      BY <2>5, StopStepBookkeeping
         DEF StopDone, StopTimeout, IndInv, WorksOnAttempt, runVars, ClientPcs
    <3>2. EndedLooksEnded'
      BY <2>5 DEF StopDone, StopTimeout, IndInv, EndedLooksEnded, statusVars, runVars
    <3>3. QED
      BY <3>1, <3>2 DEF IndInv
  <2>6. ASSUME NEW c \in Clients, StopSetIdle(c) PROVE IndInv'
    <3>1. \A d \in Clients : d # c => clientRun'[d] = clientRun[d]
      BY <2>6 DEF StopSetIdle, TypeOK
    <3>2. Book
      BY <2>6, <3>1, StopStepBookkeeping DEF StopSetIdle, runVars, ClientPcs
    <3>3. EndedLooksEnded'
      BY <2>6 DEF StopSetIdle, Set, EndedLooksEnded
    <3>4. QED
      BY <3>2, <3>3 DEF IndInv
  <2>7. ASSUME NEW a \in Attempt,
               \/ RunBegin(a) \/ RunReportSet(a) \/ RunSetUp(a)
               \/ \E s \in ProgressStates : RunReport(a, s)
               \/ \E rc \in {0, 1} : RunReturn(a, rc)
        PROVE  IndInv'
    <3>1. Driving(a)
      BY <2>7 DEF Driving, RunBegin, RunReport, RunReportSet, RunReturn, RunSetUp
    <3>2. PICK pc \in {"working", "reporting", "setUp", "complete"} :
             runPc' = [runPc EXCEPT ![a] = pc]
      BY <2>7 DEF RunBegin, RunReport, RunReportSet, RunReturn, RunSetUp
    <3>3. UNCHANGED <<attempts, cancel, clientPc, clientRun>>
      BY <2>7 DEF RunBegin, RunReport, RunReportSet, RunReturn, RunSetUp, clientVars
    <3>4. Book
      BY <3>1, <3>2, <3>3, RunStepBookkeeping DEF RunPcs, Driving
    <3>5. cancel' # Nil
      BY <3>1, <3>3, DrivingHoldsSlot
    <3>6. EndedLooksEnded'
      BY <3>5 DEF EndedLooksEnded
    <3>7. QED
      BY <3>4, <3>6 DEF IndInv
  <2>8. ASSUME NEW a \in Attempt, RunComplete(a) PROVE IndInv'
    <3>1. Driving(a) /\ cancel = a /\ a = attempts
      BY <2>8, DrivingHoldsSlot DEF RunComplete, Driving, IndInv, CancelIsLatest
    <3>2. /\ cancel' = Nil /\ UNCHANGED <<attempts, clientPc, clientRun, ctxDone>>
          /\ \A b \in Attempt : runPc'[b] = IF b = a THEN "clear" ELSE runPc[b]
          /\ state' = FinalState(a)
      BY <2>8 DEF RunComplete, clientVars, TypeOK
    <3>3. runPc[a] = "complete"
      BY <2>8 DEF RunComplete
    <3>4. \A b \in Attempt : Driving(b) => b = a
      BY <3>1 DEF IndInv, CancelReachesRun, Active
    <3>5. \A b \in Attempt : ~Spawning(b)
      BY <3>1, <3>3 DEF IndInv, CancelReachesRun, Active, Spawning, SpawnsFresh
    <3>6. \A b \in Attempt : ~Active(b)'
      BY <3>2, <3>4, <3>5 DEF Active, Spawning, Driving
    <3>7. CancelReachesRun' /\ CancelIsLatest'
      BY <3>2, <3>6 DEF CancelReachesRun, CancelIsLatest
    <3>8. SpawnsFresh' /\ WorksOnAttempt' /\ FutureUntouched'
      BY <3>1, <3>2, <3>3 DEF IndInv, SpawnsFresh, WorksOnAttempt, FutureUntouched, TypeOK
    <3>9. EndedLooksEnded'
      BY <3>1, <3>2 DEF EndedLooksEnded, FinalState
    <3>10. QED
      BY <3>7, <3>8, <3>9 DEF IndInv
  <2>9. ASSUME NEW a \in Attempt, RunClearProgress(a) \/ RunCloseDone(a) PROVE IndInv'
    <3>1. ~Driving(a) /\ runPc[a] # "none"
      BY <2>9 DEF Driving, RunClearProgress, RunCloseDone
    <3>2. PICK pc \in {"close", "ended"} : runPc' = [runPc EXCEPT ![a] = pc]
      BY <2>9 DEF RunClearProgress, RunCloseDone
    <3>3. UNCHANGED <<state, attempts, cancel, ctxDone, clientPc, clientRun>>
      BY <2>9 DEF RunClearProgress, RunCloseDone, statusVars, clientVars
    <3>4. Book
      BY <3>1, <3>2, <3>3, RunStepBookkeeping DEF RunPcs
    <3>5. EndedLooksEnded'
      BY <3>3 DEF IndInv, EndedLooksEnded
    <3>6. QED
      BY <3>4, <3>5 DEF IndInv
  <2>10. ASSUME NEW a \in Attempt, LoopReport(a) PROVE IndInv'
    <3>1. Driving(a)
      BY <2>10 DEF Driving, LoopReport
    <3>2. UNCHANGED <<attempts, cancel, runPc, clientPc, clientRun>>
      BY <2>10 DEF LoopReport, runVars, clientVars
    <3>3. Book
      BY <3>2, BookkeepingUnchanged
    <3>4. cancel' # Nil
      BY <3>1, <3>2, DrivingHoldsSlot
    <3>5. EndedLooksEnded'
      BY <3>4 DEF EndedLooksEnded
    <3>6. QED
      BY <3>3, <3>5 DEF IndInv
  <2>11. CASE UNCHANGED vars
    <3>1. Book
      BY <2>11, BookkeepingUnchanged DEF vars, runVars, clientVars
    <3>2. EndedLooksEnded'
      BY <2>11 DEF vars, statusVars, runVars, IndInv, EndedLooksEnded
    <3>3. QED
      BY <3>1, <3>2 DEF IndInv
  <2>12. QED
    BY <2>1, <2>2, <2>3, <2>4, <2>5, <2>6, <2>7, <2>8, <2>9, <2>10, <2>11
       DEF Next, ClientCall, ClientStep, RunStep, RunBody
<1>3. QED
  BY <1>1, <1>2, TypeCorrect, PTL DEF Spec

(* One link at a time, for any number of racing callers.                    *)
THEOREM OneLinkAlways == Spec => []OneLink
<1>1. IndInv => OneLink
  BY DEF IndInv, CancelReachesRun, OneLink
<1>2. QED
  BY <1>1, Inductive, PTL

(* A Stop can always reach the bring-up that is running.                    *)
THEOREM CancelAlwaysReachesRun == Spec => []CancelReachesRun
<1>1. IndInv => CancelReachesRun
  BY DEF IndInv
<1>2. QED
  BY <1>1, Inductive, PTL

(* A link that ended by itself is never left showing a live state.          *)
THEOREM EndedAlwaysLooksEnded == Spec => []EndedLooksEnded
<1>1. IndInv => EndedLooksEnded
  BY DEF IndInv
<1>2. QED
  BY <1>1, Inductive, PTL


-----------------------------------------------------------------------------
(* What the body of a bring-up may do to the service's variables.           *)
LEMMA TellIsService ==
    ASSUME NEW a \in Attempt, NEW r \in ProgressStates, NEW s, Tell(a, r, s)
    PROVE  RunBody(a) \/ UNCHANGED vars
BY DEF Tell, RunBody

LEMMA EndIsService ==
    ASSUME NEW a \in Attempt, NEW rc \in {0, 1}, End(a, rc)
    PROVE  RunBody(a)
BY DEF End, RunBody

LEMMA ReportNames ==
    /\ "flashing" \in ProgressStates /\ "needs_replug" \in ProgressStates
    /\ "associating" \in ProgressStates /\ "handshaking" \in ProgressStates
    /\ "configuring" \in ProgressStates /\ "up" \in ProgressStates
    /\ "down" \in ProgressStates
BY ReportsAssumption

LEMMA FlashIsService ==
    ASSUME NEW a \in Attempt, Flash(a)
    PROVE  RunBody(a) \/ UNCHANGED vars
<1>1. CASE Refuse(a) \/ WaitOver(a) \/ EjectFails(a)
  BY <1>1, EndIsService DEF Refuse, WaitOver, EjectFails
<1>2. CASE DetectFlashable(a) \/ DetectUsed(a)
  BY <1>2, TellIsService, ReportNames DEF DetectFlashable, DetectUsed
<1>3. CASE \/ SawGone(a) \/ SawBack(a) \/ BootEject(a)
           \/ EjectedSeen(a) \/ Upload(a) \/ UploadFails(a) \/ BootReplugged(a)
  BY <1>3 DEF SawGone, SawBack, BootEject, EjectedSeen, Upload,
              UploadFails, BootReplugged, Silently
<1>4. QED
  BY <1>1, <1>2, <1>3 DEF Flash

LEMMA ConnectIsService ==
    ASSUME NEW a \in Attempt, Connect(a)
    PROVE  RunBody(a) \/ UNCHANGED vars
<1>1. CASE \/ OpenFails(a) \/ StackStartFails(a) \/ SettleCancelled(a)
           \/ MacInitFails(a) \/ AssociationFails(a) \/ OpenNetworkDone(a)
           \/ SetupFails(a) \/ BridgeGivesUp(a) \/ BridgeCancelled(a)
  BY <1>1, EndIsService
     DEF OpenFails, StackStartFails, SettleCancelled, MacInitFails, AssociationFails,
         OpenNetworkDone, SetupFails, BridgeGivesUp, BridgeCancelled
<1>2. CASE Settled(a) \/ Associated(a) \/ HandshakeDone(a) \/ BridgeUp(a) \/ BridgeTick(a)
  BY <1>2, TellIsService, ReportNames
     DEF Settled, Associated, HandshakeDone, BridgeUp, BridgeTick
<1>3. CASE \/ OpenSession(a, "stack", "stackCmd") \/ OpenSession(a, "open", "init")
           \/ StackStart(a) \/ MacInit(a) \/ Configured(a)
  BY <1>3 DEF OpenSession, StackStart, MacInit, Configured, Silently
<1>4. QED
  BY <1>1, <1>2, <1>3 DEF Connect

(* The daemon is a LinkService: with bootstrap, sessions, bridge and dongle *)
(* spelt out, every step is a step of LinkService or leaves it alone.       *)
THEOREM Refinement == LinkSpec => ImplementsLinkService
<1>1. LinkInit => Init
  BY DEF LinkInit
<1>2. [LinkNext]_allVars => [Next]_vars
  <2> SUFFICES ASSUME [LinkNext]_allVars PROVE [Next]_vars
    OBVIOUS
  <2>1. CASE ServiceStep
    BY <2>1 DEF ServiceStep, Next, RunStep
  <2>2. CASE Environment
    BY <2>2 DEF Environment, Unplug, Plug, Wedge
  <2>3. ASSUME NEW a \in Attempt, Begin(a) PROVE [Next]_vars
    BY <2>3 DEF Begin, Next, RunStep
  <2>4. ASSUME NEW a \in Attempt, Body(a) PROVE [Next]_vars
    <3>1. RunBody(a) \/ UNCHANGED vars
      BY <2>4, FlashIsService, ConnectIsService DEF Body
    <3>2. QED
      BY <3>1 DEF Next
  <2>5. ASSUME NEW a \in Attempt, BridgeUtunFails(a) PROVE [Next]_vars
    BY <2>5, EndIsService DEF BridgeUtunFails, Next
  <2>6. ASSUME NEW a \in Attempt, Disconnected(a) PROVE [Next]_vars
    BY <2>6 DEF Disconnected, Next, RunBody
  <2>7. CASE UNCHANGED allVars
    BY <2>7 DEF allVars
  <2>8. QED
    BY <2>1, <2>2, <2>3, <2>4, <2>5, <2>6, <2>7 DEF LinkNext
<1>3. QED
  BY <1>1, <1>2, PTL DEF LinkSpec, Spec, ImplementsLinkService

-----------------------------------------------------------------------------
(* InstInv is InstCore, about the dongle and the step, and StepOwned.       *)
InstCore ==
    /\ stage # "operational" => resets = 0 /\ ~stack
    /\ claim => stage = "operational" /\ step \in SessionSteps
    /\ step \in BootSteps \cup {"stack", "stackCmd"} => BusFresh
    /\ step \in {"settle", "open", "init"} =>
          BusFresh /\ (stage = "operational" => stack)
    /\ OneResetPerInstance

LEMMA EndKeeps ==
    ASSUME LinkTypeOK, InstInv, TypeOK, NEW a \in Attempt, NEW rc \in {0, 1},
           End(a, rc), UNCHANGED dongle
    PROVE  LinkTypeOK' /\ InstCore' /\ StepOwned'
BY DEF LinkTypeOK, InstInv, InstCore, StepOwned, End, dongle, BusFresh, Steps, BootSteps,
       SessionSteps, OneResetPerInstance

LEMMA SilentlyOwned ==
    ASSUME NEW a \in Attempt, NEW s \in Steps, runPc[a] = "working", Silently(s)
    PROVE  StepOwned' /\ step' = s
BY DEF StepOwned, Silently, vars, runVars

LEMMA TellOwned ==
    ASSUME TypeOK, NEW a \in Attempt, NEW s \in Steps, runPc[a] = "working",
           NEW r \in ProgressStates, Tell(a, r, s)
    PROVE  StepOwned' /\ step' = s
BY DEF TypeOK, StepOwned, Tell, RunReport, RunAt, vars, runVars

LEMMA FlashKeeps ==
    ASSUME LinkTypeOK, InstInv, TypeOK, NEW a \in Attempt, Flash(a)
    PROVE  LinkTypeOK' /\ InstCore' /\ StepOwned'
<1> USE DEF At
<1>1. CASE Refuse(a) \/ WaitOver(a) \/ EjectFails(a)
  BY <1>1, EndKeeps DEF Refuse, WaitOver, EjectFails
<1>2. CASE DetectFlashable(a)
  <2>1. StepOwned' /\ step' = "boot"
    BY <1>2, TellOwned, ReportNames DEF DetectFlashable, Steps, BootSteps
  <2>2. QED
    BY <1>2, <2>1 DEF DetectFlashable, LinkTypeOK, InstInv, InstCore, dongle, BusFresh, Steps,
                      BootSteps, SessionSteps, OneResetPerInstance
<1>3. CASE DetectUsed(a)
  <2>1. StepOwned' /\ step' = "waitGone"
    BY <1>3, TellOwned, ReportNames DEF DetectUsed, Steps
  <2>2. QED
    BY <1>3, <2>1 DEF DetectUsed, LinkTypeOK, InstInv, InstCore, dongle, BusFresh, Steps,
                      BootSteps, SessionSteps, OneResetPerInstance
<1>4. CASE \/ SawGone(a) \/ SawBack(a) \/ EjectedSeen(a)
           \/ BootReplugged(a)
  <2>1. PICK s \in {"waitBack", "boot"} :
           Silently(s) /\ runPc[a] = "working" /\ UNCHANGED <<dongle, claim, linkDown>>
           /\ step \notin SessionSteps
           /\ (s = "boot" => stage # "operational")
    BY <1>4 DEF SawGone, SawBack, EjectedSeen, BootReplugged, SessionSteps
  <2>2. StepOwned' /\ step' = s
    BY <2>1, SilentlyOwned DEF Steps, BootSteps
  <2>3. QED
    BY <2>1, <2>2 DEF LinkTypeOK, InstInv, InstCore, dongle, BusFresh, Steps, BootSteps,
                      SessionSteps, OneResetPerInstance
<1>5. CASE BootEject(a)
  <2>1. StepOwned' /\ step' = "ejected"
    BY <1>5, SilentlyOwned DEF BootEject, Steps, BootSteps
  <2>2. QED
    BY <1>5, <2>1 DEF BootEject, LinkTypeOK, InstInv, InstCore, firmware, BusFresh, Steps, Stages,
                      BootSteps, SessionSteps, OneResetPerInstance
<1>6. CASE Upload(a)
  <2>1. StepOwned' /\ step' = "stack"
    BY <1>6, SilentlyOwned DEF Upload, Steps
  <2>2. QED
    BY <1>6, <2>1 DEF Upload, LinkTypeOK, InstInv, InstCore, BusFresh, Steps, Stages,
                      BootSteps, SessionSteps, OneResetPerInstance
<1>7. CASE UploadFails(a)
  <2>1. StepOwned' /\ step' = "bootReplug"
    BY <1>7, SilentlyOwned DEF UploadFails, Steps, BootSteps
  <2>2. QED
    BY <1>7, <2>1 DEF UploadFails, LinkTypeOK, InstInv, InstCore, BusFresh, Steps, Stages,
                      BootSteps, SessionSteps, OneResetPerInstance
<1>8. QED
  BY <1>1, <1>2, <1>3, <1>4, <1>5, <1>6, <1>7 DEF Flash

LEMMA ConnectKeeps ==
    ASSUME LinkTypeOK, InstInv, TypeOK, NEW a \in Attempt, Connect(a)
    PROVE  LinkTypeOK' /\ InstCore' /\ StepOwned'
<1> USE DEF At
<1>1. CASE \/ OpenFails(a) \/ SettleCancelled(a) \/ MacInitFails(a) \/ AssociationFails(a)
           \/ OpenNetworkDone(a) \/ SetupFails(a) \/ BridgeGivesUp(a) \/ BridgeCancelled(a)
  BY <1>1, EndKeeps
     DEF OpenFails, SettleCancelled, MacInitFails, AssociationFails, OpenNetworkDone,
         SetupFails, BridgeGivesUp, BridgeCancelled
<1>2. CASE StackStartFails(a)
  <2>1. step' = "off" /\ claim' = FALSE /\ linkDown' = FALSE
    BY <1>2 DEF StackStartFails, End
  <2>2. QED
    BY <1>2, <2>1 DEF StackStartFails, LinkTypeOK, InstInv, InstCore, StepOwned, BusFresh,
                      Steps, BootSteps, SessionSteps, OneResetPerInstance
<1>3. CASE Settled(a)
  <2>1. StepOwned' /\ step' = "open"
    BY <1>3, TellOwned, ReportNames DEF Settled, Steps
  <2>2. QED
    BY <1>3, <2>1 DEF Settled, LinkTypeOK, InstInv, InstCore, dongle, BusFresh, Steps,
                      BootSteps, SessionSteps, OneResetPerInstance
<1>4. CASE Associated(a) \/ HandshakeDone(a) \/ BridgeUp(a) \/ BridgeTick(a)
  <2>1. PICK s \in {"hand", "joined", "dhcp", "bridge", "bridgeDown"} :
           /\ \E r \in ProgressStates : Tell(a, r, s)
           /\ runPc[a] = "working"
           /\ UNCHANGED <<dongle, claim, linkDown>>
    BY <1>4, ReportNames DEF Associated, HandshakeDone, BridgeUp, BridgeTick
  <2>2. StepOwned' /\ step' = s
    BY <2>1, TellOwned DEF Steps, SessionSteps
  <2>3. QED
    BY <2>1, <2>2 DEF LinkTypeOK, InstInv, InstCore, dongle, BusFresh, Steps, BootSteps,
                      SessionSteps, OneResetPerInstance
<1>5. CASE OpenSession(a, "stack", "stackCmd")
  <2>1. StepOwned' /\ step' = "stackCmd"
    BY <1>5, SilentlyOwned DEF OpenSession, Steps, SessionSteps
  <2>2. QED
    BY <1>5, <2>1 DEF OpenSession, LinkTypeOK, InstInv, InstCore, dongle, BusFresh, Steps,
                      BootSteps, SessionSteps, OneResetPerInstance
<1>6. CASE OpenSession(a, "open", "init")
  <2>1. StepOwned' /\ step' = "init"
    BY <1>6, SilentlyOwned DEF OpenSession, Steps, SessionSteps
  <2>2. QED
    BY <1>6, <2>1 DEF OpenSession, LinkTypeOK, InstInv, InstCore, dongle, BusFresh, Steps,
                      BootSteps, SessionSteps, OneResetPerInstance
<1>7. CASE StackStart(a)
  <2>1. StepOwned' /\ step' = "settle"
    BY <1>7, SilentlyOwned DEF StackStart, Steps
  <2>2. QED
    BY <1>7, <2>1 DEF StackStart, LinkTypeOK, InstInv, InstCore, BusFresh, Steps,
                      BootSteps, SessionSteps, OneResetPerInstance
<1>8. CASE MacInit(a)
  <2>1. StepOwned' /\ step' = "assoc"
    BY <1>8, SilentlyOwned DEF MacInit, Steps, SessionSteps
  <2>2. resets = 0 /\ stack
    BY <1>8 DEF MacInit, InstInv, BusFresh
  <2>3. QED
    BY <1>8, <2>1, <2>2 DEF MacInit, LinkTypeOK, InstInv, InstCore, BusFresh, Steps,
                      BootSteps, SessionSteps, OneResetPerInstance
<1>9. CASE Configured(a)
  <2>1. StepOwned' /\ step' = "bridging"
    BY <1>9, SilentlyOwned DEF Configured, Steps, SessionSteps
  <2>2. QED
    BY <1>9, <2>1 DEF Configured, LinkTypeOK, InstInv, InstCore, dongle, BusFresh, Steps,
                      BootSteps, SessionSteps, OneResetPerInstance
<1>10. QED
  BY <1>1, <1>2, <1>3, <1>4, <1>5, <1>6, <1>7, <1>8, <1>9 DEF Connect

-----------------------------------------------------------------------------
(* The untouched-instance invariant.  A bring-up that begins finds no other *)
(* one under way: that is LinkService's OneLink, brought in by Refinement.  *)
LEMMA BeginAlone ==
    ASSUME InstInv, OneLink, NEW a \in Attempt, Begin(a)
    PROVE  step = "off"
BY DEF InstInv, StepOwned, OneLink, Active, Driving, Begin, RunBegin, RunAt

(* Types and the instance invariant hold in every reachable state.          *)
THEOREM InstInductive == LinkSpec => [](LinkTypeOK /\ InstInv)
<1>1. LinkInit => LinkTypeOK /\ InstInv
  <2> SUFFICES ASSUME LinkInit PROVE LinkTypeOK /\ InstInv
    OBVIOUS
  <2>1. /\ stack \in BOOLEAN /\ (stage # "operational" => ~stack)
        /\ resets \in {0, 1} /\ (~stack => resets = 0)
    <3>1. CASE stage = "operational"
      BY <3>1 DEF LinkInit
    <3>2. CASE stage # "operational"
      BY <3>2 DEF LinkInit
    <3>3. QED
      BY <3>1, <3>2
  <2>2. /\ stage \in Stages /\ romLive \in BOOLEAN
        /\ step = "off" /\ claim = FALSE /\ linkDown = FALSE
    BY DEF LinkInit
  <2> HIDE DEF LinkInit
  <2>3. LinkTypeOK
    <3>1. resets \in 0 .. 2
      BY <2>1
    <3>2. step \in Steps
      BY <2>2 DEF Steps
    <3>3. claim \in BOOLEAN /\ linkDown \in BOOLEAN
      BY <2>2, Zenon
    <3>4. QED
      BY <2>1, <2>2, <3>1, <3>2, <3>3, Zenon DEF LinkTypeOK
  <2>4. OneResetPerInstance /\ StepOwned /\ ~claim
    BY <2>1, <2>2 DEF OneResetPerInstance, StepOwned
  <2>5. step \notin BootSteps \cup {"stack", "stackCmd"} /\ step \notin {"settle", "open", "init"}
    BY <2>2 DEF BootSteps
  <2>6. stage # "operational" => (resets = 0 /\ ~stack)
    BY <2>1
  <2>7. QED
    BY <2>3, <2>4, <2>5, <2>6 DEF InstInv
<1>2. TypeOK /\ OneLink /\ LinkTypeOK /\ InstInv /\ [LinkNext]_allVars
         => (LinkTypeOK /\ InstInv)'
  <2> SUFFICES ASSUME TypeOK, OneLink, LinkTypeOK, InstInv, [LinkNext]_allVars
               PROVE  LinkTypeOK' /\ InstCore' /\ StepOwned'
    BY DEF InstInv, InstCore
  <2>1. CASE ServiceStep
    <3>1. LinkTypeOK' /\ InstCore'
      BY <2>1 DEF ServiceStep, linkVars, dongle, LinkTypeOK, InstInv, InstCore, BusFresh,
                  OneResetPerInstance
    <3> DEFINE StillWorking ==
          \A b \in Attempt : runPc[b] \in {"working", "reporting"} =>
             runPc'[b] \in {"working", "reporting"}
    <3>2. StillWorking
      <4>1. ASSUME NEW c \in Clients, ClientCall(c) \/ ClientStep(c)
            PROVE  StillWorking
        BY <4>1 DEF TypeOK, ClientCall, ClientStep, StartAccept, StartPublish, StopSnapshot,
                    StopCancel, StopDone, StopTimeout, StopSetIdle, RunAt, runVars
      <4>2. ASSUME NEW a \in Attempt,
                   \/ RunReportSet(a) \/ RunSetUp(a) \/ RunComplete(a)
                   \/ RunClearProgress(a) \/ RunCloseDone(a)
            PROVE  StillWorking
        BY <4>2 DEF TypeOK, RunReportSet, RunSetUp, RunComplete, RunClearProgress,
                    RunCloseDone, RunAt
      <4>3. QED
        BY <2>1, <4>1, <4>2 DEF ServiceStep
    <3>3. QED
      BY <2>1, <3>1, <3>2 DEF ServiceStep, linkVars, InstInv, StepOwned
  <2>2. CASE Environment
    <3>1. StepOwned' /\ step' = step /\ linkDown' = linkDown
      BY <2>2 DEF Environment, Unplug, Plug, Wedge, InstInv, StepOwned, vars, runVars
    <3>2. CASE Plug
      BY <3>1, <3>2 DEF Plug, firmware, LinkTypeOK, InstInv, InstCore, BusFresh, Stages,
                        OneResetPerInstance
    <3>3. CASE Unplug \/ Wedge
      <4>1. /\ stage' \in {"absent", "bootrom"} /\ romLive' = FALSE
            /\ stack' = FALSE /\ resets' = 0 /\ claim' = FALSE
        BY <3>3 DEF Unplug, Wedge
      <4>2. LinkTypeOK'
        <5>1. stage' \in Stages /\ resets' \in 0 .. 2
          BY <4>1 DEF Stages
        <5>2. romLive' \in BOOLEAN /\ stack' \in BOOLEAN /\ claim' \in BOOLEAN
          BY <4>1, Zenon
        <5>3. QED
          BY <3>1, <5>1, <5>2, Zenon DEF LinkTypeOK
      <4>3. ~stack' /\ ~claim' /\ stage' # "operational" /\ resets' = 0
        BY <4>1
      <4>4. OneResetPerInstance' /\ BusFresh'
        BY <4>1, <4>3 DEF OneResetPerInstance, BusFresh
      <4>5. InstCore'
        BY <4>3, <4>4 DEF InstCore
      <4>6. QED
        BY <3>1, <4>2, <4>5
    <3>4. QED
      BY <2>2, <3>2, <3>3 DEF Environment
  <2>3. ASSUME NEW a \in Attempt, Begin(a) PROVE LinkTypeOK' /\ InstCore' /\ StepOwned'
    <3>1. step = "off" /\ ~claim
      BY <2>3, BeginAlone DEF InstInv, SessionSteps
    <3>2. runPc'[a] = "working"
      BY <2>3 DEF Begin, RunBegin, RunAt, TypeOK
    <3>3. QED
      BY <2>3, <3>1, <3>2 DEF Begin, LinkTypeOK, InstInv, InstCore, StepOwned, dongle,
           BusFresh, Steps, BootSteps, SessionSteps, OneResetPerInstance
  <2>4. ASSUME NEW a \in Attempt, Body(a) PROVE LinkTypeOK' /\ InstCore' /\ StepOwned'
    BY <2>4, FlashKeeps, ConnectKeeps DEF Body
  <2>5. ASSUME NEW a \in Attempt, BridgeUtunFails(a)
        PROVE  LinkTypeOK' /\ InstCore' /\ StepOwned'
    BY <2>5, EndKeeps DEF BridgeUtunFails
  <2>6. ASSUME NEW a \in Attempt, Disconnected(a) PROVE LinkTypeOK' /\ InstCore' /\ StepOwned'
    <3>1. runPc' = runPc
      BY <2>6 DEF Disconnected, LoopReport, vars, runVars
    <3>2. QED
      BY <2>6, <3>1 DEF Disconnected, LinkTypeOK, InstInv, InstCore, StepOwned, dongle,
           BusFresh, OneResetPerInstance
  <2>7. CASE UNCHANGED allVars
    BY <2>7 DEF allVars, linkVars, dongle, vars, runVars, LinkTypeOK, InstInv, InstCore,
                StepOwned, BusFresh, OneResetPerInstance
  <2>8. QED
    BY <2>1, <2>2, <2>3, <2>4, <2>5, <2>6, <2>7 DEF LinkNext
<1>3. QED
  BY <1>1, <1>2, Refinement, TypeCorrect, OneLinkAlways, PTL
     DEF LinkSpec, ImplementsLinkService

(* No firmware instance is ever reset twice, nor with its stack down.       *)
THEOREM OneResetAlways == LinkSpec => []OneResetPerInstance
<1>1. InstInv => OneResetPerInstance
  BY DEF InstInv
<1>2. QED
  BY <1>1, InstInductive, PTL

(* The dongle, the session and the place in runCmdLink keep their types: no *)
(* firmware takes a third MM_RESET, and every step of a bring-up is one of  *)
(* runCmdLink, its bootstrap and its two sessions.                          *)
THEOREM LinkTypeCorrect == LinkSpec => []LinkTypeOK
BY InstInductive, PTL
=============================================================================
