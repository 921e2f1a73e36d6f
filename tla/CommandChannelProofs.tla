------------------------ MODULE CommandChannelProofs ------------------------
(* What holds of CommandChannel for any number of endpoints, any channel    *)
(* capacities and any number of commands: its types, that the pumps are     *)
(* gone when the session is released, and that no Submit takes a frame that *)
(* answers another command.                                                 *)
EXTENDS CommandChannel, SequenceTheorems, TLAPS

LEMMA OfferedType ==
    ASSUME NEW S, NEW ch \in Seq(S), NEW f \in S, NEW cap \in Nat, Len(ch) <= cap
    PROVE  Offered(ch, cap, f) \in Seq(S) /\ Len(Offered(ch, cap, f)) <= cap
BY DEF Offered

LEMMA TailType ==
    ASSUME NEW S, NEW ch \in Seq(S), ch # << >>
    PROVE  /\ Tail(ch) \in Seq(S) /\ Len(Tail(ch)) = Len(ch) - 1
           /\ Head(ch) \in S
OBVIOUS

(* The parts of TypeOK that the receiving half, the writers and the         *)
(* firmware change, so that each step has to show only its own.             *)
HostType == phase \in Phases /\ ctxDone \in BOOLEAN /\ loopCtx \in BOOLEAN

ReceiverType ==
    /\ loop \in {"next", "handling", "ended"}
    /\ done \in BOOLEAN
    /\ pump \in [Endpoints -> {"check", "reading", "ended"}]
    /\ chunks \in [Endpoints -> Seq(Frame)]
    /\ \A e \in Endpoints : Len(chunks[e]) <= ChunkCap

AckType == ackCh \in Seq(Frame) /\ Len(ackCh) <= AckCap

WriterType ==
    /\ pc \in [Writers -> {"off", "idle", "writing", "await"}]
    /\ task \in [Writers -> Tasks \cup {"data"}]
    /\ cmd \in [Writers -> Command]
    /\ count \in Command

FirmwareType ==
    /\ strays \in 0 .. MaxStrays
    /\ pending \in Seq([task : Tasks, cfm : Command])
    /\ wire \in [Endpoints -> Seq(Frame)]

GhostType == spoilt \subseteq Tasks /\ misread \subseteq Tasks

(* A writer that waits, or is about to, has addressed a task. *)
Addressed ==
    \A w \in Writers : /\ pc[w] = "await" => cmd[w] # 0
                       /\ cmd[w] # 0 => task[w] \in Tasks

(* Everything the last states of a session rest on: done is closed before   *)
(* close waits, and a pump that has ended stays ended.                      *)
Quiescing ==
    /\ phase \in {"wait", "release", "closed"} => done
    /\ PumpsQuiesced

TypeInv == /\ HostType /\ ReceiverType /\ AckType /\ WriterType
           /\ FirmwareType /\ GhostType /\ Addressed

LEMMA TypeParts == TypeInv => TypeOK
<1> SUFFICES ASSUME TypeInv PROVE TypeOK
  OBVIOUS
<1>1. HostType /\ ReceiverType /\ AckType /\ WriterType /\ FirmwareType /\ GhostType
  BY Zenon DEF TypeInv
<1>2. QED
  BY Zenon, <1>1 DEF TypeOK, HostType, ReceiverType, AckType, WriterType, FirmwareType,
                     GhostType

LEMMA InitType == Init => TypeInv /\ Quiescing
<1> SUFFICES ASSUME Init PROVE TypeInv /\ Quiescing
  OBVIOUS
<1>1. HostType
  BY DEF Init, HostType, Phases
<1>2. WriterType /\ GhostType /\ Addressed
  BY BoundsAssumption DEF Init, WriterType, GhostType, Addressed, Command
<1>3. Quiescing
  BY DEF Init, Quiescing, PumpsQuiesced
<1>4. ReceiverType /\ AckType /\ FirmwareType
  <2>1. << >> \in Seq(Frame) /\ << >> \in Seq([task : Tasks, cfm : Command]) /\ Len(<< >>) = 0
    OBVIOUS
  <2>2. ReceiverType
    <3>1. done \in BOOLEAN
      BY Zenon DEF Init
    <3>2. /\ chunks \in [Endpoints -> Seq(Frame)]
          /\ \A e \in Endpoints : Len(chunks[e]) <= ChunkCap
      BY <2>1, CapsAssumption DEF Init
    <3>3. QED
      BY <3>1, <3>2 DEF Init, ReceiverType
  <2>3. AckType /\ FirmwareType
    BY <2>1, CapsAssumption, BoundsAssumption DEF Init, AckType, FirmwareType
  <2>4. QED
    BY <2>2, <2>3
<1>5. QED
  BY <1>1, <1>2, <1>3, <1>4 DEF TypeInv

LEMMA FinishedType ==
    ASSUME TypeInv, NEW w \in Writers, Finished(w)
    PROVE  WriterType' /\ Addressed' /\ HostType' /\ ReceiverType'
BY BoundsAssumption
   DEF TypeInv, Finished, WriterType, Addressed, HostType, ReceiverType, host, receivers,
       Command

LEMMA FirmwareStep ==
    ASSUME TypeInv, Firmware
    PROVE  TypeInv'
<1> USE DEF TypeInv
<1>1. CASE SkipConfirm
  <2>1. FirmwareType'
    BY <1>1 DEF SkipConfirm, FirmwareType
  <2>2. QED
    BY <1>1, <2>1 DEF SkipConfirm, host, receivers, writers, ghosts, HostType, ReceiverType,
                      AckType, WriterType, GhostType, Addressed
<1>2. ASSUME NEW e \in Endpoints, Confirm(e) PROVE TypeInv'
  <2>1. Head(pending) \in Frame /\ Tail(pending) \in Seq([task : Tasks, cfm : Command])
    <3>1. pending \in Seq([task : Tasks, cfm : Command]) /\ pending # << >>
      BY <1>2 DEF Confirm, FirmwareType
    <3>2. Head(pending) \in [task : Tasks, cfm : Command]
      BY <3>1, TailType
    <3>3. QED
      BY <3>1, <3>2, TailType DEF Frame
  <2>2. FirmwareType'
    BY <1>2, <2>1 DEF Confirm, FirmwareType
  <2>3. QED
    BY <1>2, <2>2 DEF Confirm, host, receivers, writers, ghosts, HostType, ReceiverType,
                      AckType, WriterType, GhostType, Addressed
<1>3. ASSUME NEW e \in Endpoints, NEW t \in Tasks \cup {"data"}, Stray(e, t) PROVE TypeInv'
  <2>1. [task |-> t, cfm |-> 0] \in Frame
    BY BoundsAssumption DEF Frame, Command
  <2>2. FirmwareType' /\ GhostType'
    BY <1>3, <2>1, BoundsAssumption DEF Stray, FirmwareType, GhostType
  <2>3. QED
    BY <1>3, <2>2 DEF Stray, host, receivers, writers, HostType, ReceiverType,
                      AckType, WriterType, Addressed
<1>4. QED
  BY <1>1, <1>2, <1>3 DEF Firmware

LEMMA PumpStep ==
    ASSUME TypeInv, NEW e \in Endpoints, Pump(e)
    PROVE  TypeInv'
<1> USE DEF TypeInv
<1>1. CASE PumpRead(e) \/ PumpEnd(e) \/ PumpTimeout(e)
  BY <1>1 DEF PumpRead, PumpEnd, PumpTimeout, host, writers, firmware, ghosts, HostType,
              ReceiverType, AckType, WriterType, FirmwareType, GhostType, Addressed
<1>2. CASE PumpChunk(e)
  <2>1. Head(wire[e]) \in Frame /\ Tail(wire[e]) \in Seq(Frame)
    BY <1>2 DEF PumpChunk, FirmwareType
  <2>2. FirmwareType'
    BY <1>2, <2>1 DEF PumpChunk, FirmwareType
  <2>3. /\ Offered(chunks[e], ChunkCap, Head(wire[e])) \in Seq(Frame)
        /\ Len(Offered(chunks[e], ChunkCap, Head(wire[e]))) <= ChunkCap
    BY <2>1, CapsAssumption, OfferedType DEF ReceiverType
  <2>4. ReceiverType'
    BY <1>2, <2>3 DEF PumpChunk, ReceiverType
  <2>5. QED
    BY <1>2, <2>2, <2>4 DEF PumpChunk, host, writers, ghosts, HostType, AckType, WriterType,
                            GhostType, Addressed
<1>3. QED
  BY <1>1, <1>2 DEF Pump

LEMMA LoopStep ==
    ASSUME TypeInv, Loop \/ LoopHandled
    PROVE  TypeInv'
<1> USE DEF TypeInv
<1>1. CASE LoopCancelled \/ LoopHandled
  BY <1>1 DEF LoopCancelled, LoopHandled, host, writers, firmware, ghosts, HostType,
              ReceiverType, AckType, WriterType, FirmwareType, GhostType, Addressed
<1>2. ASSUME NEW e \in Endpoints, LoopFrame(e) \/ LoopCorrupt(e) PROVE TypeInv'
  <2>1. chunks[e] \in Seq(Frame) /\ chunks[e] # << >> /\ Len(chunks[e]) <= ChunkCap
    BY <1>2 DEF LoopFrame, LoopCorrupt, ReceiverType
  <2>2. /\ Head(chunks[e]) \in Frame /\ Tail(chunks[e]) \in Seq(Frame)
        /\ Len(Tail(chunks[e])) <= ChunkCap
    BY <2>1, TailType, CapsAssumption
  <2>3. ReceiverType'
    BY <1>2, <2>2 DEF LoopFrame, LoopCorrupt, ReceiverType
  <2>4. AckType'
    BY <1>2, <2>2, OfferedType, CapsAssumption DEF LoopFrame, LoopCorrupt, AckType
  <2>5. QED
    BY <1>2, <2>3, <2>4 DEF LoopFrame, LoopCorrupt, host, writers, firmware, ghosts, HostType,
                            WriterType, FirmwareType, GhostType, Addressed
<1>3. QED
  BY <1>1, <1>2 DEF Loop

LEMMA WriterStep ==
    ASSUME TypeInv, NEW w \in Writers, Writer(w)
    PROVE  TypeInv'
<1> USE DEF TypeInv
<1>1. CASE SendData(w)
  BY <1>1 DEF SendData, MayWrite, host, receivers, firmware, ghosts, HostType, ReceiverType,
              AckType, WriterType, FirmwareType, GhostType, Addressed
<1>2. CASE WriteReturns(w)
  BY <1>2, FinishedType DEF WriteReturns, firmware, ghosts, AckType, FirmwareType, GhostType
<1>3. ASSUME NEW t \in Tasks, Submit(w, t) PROVE TypeInv'
  <2>1. WriterType' /\ Addressed'
    BY <1>3, BoundsAssumption DEF Submit, MayWrite, WriterType, Addressed, Command
  <2>2. QED
    BY <1>3, <2>1 DEF Submit, host, receivers, firmware, ghosts, HostType, ReceiverType,
                      AckType, FirmwareType, GhostType
<1>4. CASE Delivered(w)
  <2>1. [task |-> task[w], cfm |-> cmd[w]] \in [task : Tasks, cfm : Command]
    BY <1>4 DEF Delivered, WriterType, Addressed
  <2>2. FirmwareType'
    BY <1>4, <2>1 DEF Delivered, FirmwareType
  <2>3. QED
    BY <1>4, <2>2 DEF Delivered, host, receivers, ghosts, HostType, ReceiverType, AckType,
                      WriterType, GhostType, Addressed
<1>5. CASE Wait(w)
  <2>1. pc[w] = "await" /\ task[w] \in Tasks
    BY <1>5 DEF Wait, Acked, AckOfOtherTask, AckTimeout, Addressed
  <2>2. AckType'
    <3>1. CASE Acked(w) \/ AckOfOtherTask(w)
      <4>1. ackCh' = Tail(ackCh) /\ ackCh # << >> /\ ackCh \in Seq(Frame) /\ Len(ackCh) <= AckCap
        BY <3>1 DEF Acked, AckOfOtherTask, AckType
      <4>2. QED
        BY <4>1, TailType, CapsAssumption DEF AckType
    <3>2. CASE AckTimeout(w)
      BY <3>2 DEF AckTimeout, AckType
    <3>3. QED
      BY <1>5, <3>1, <3>2 DEF Wait
  <2>3. GhostType' /\ FirmwareType'
    BY <1>5, <2>1 DEF Wait, Acked, AckOfOtherTask, AckTimeout, GhostType, firmware, ghosts,
                      FirmwareType
  <2>4. HostType' /\ ReceiverType' /\ WriterType' /\ Addressed'
    <3>1. CASE AckOfOtherTask(w)
      BY <3>1 DEF AckOfOtherTask, host, receivers, writers, HostType, ReceiverType,
                  WriterType, Addressed
    <3>2. CASE Acked(w) \/ AckTimeout(w)
      BY <3>2, FinishedType DEF Acked, AckTimeout
    <3>3. QED
      BY <1>5, <3>1, <3>2 DEF Wait
  <2>5. QED
    BY <2>2, <2>3, <2>4
<1>6. QED
  BY <1>1, <1>2, <1>3, <1>4, <1>5 DEF Writer

LEMMA SessionStep ==
    ASSUME TypeInv, Serve \/ Cancel \/ Leave \/ Close
    PROVE  TypeInv'
<1> USE DEF TypeInv
<1>1. CASE Serve
  BY <1>1 DEF Serve, receivers, firmware, ghosts, HostType, ReceiverType, AckType, WriterType,
              FirmwareType, GhostType, Addressed, Phases
<1>2. CASE Cancel \/ Leave \/ Close
  BY <1>2 DEF Cancel, Leave, Close, CloseCancel, CloseLoopDone, CloseLoopTimeout, CloseStop,
              CloseWait, CloseRelease, ToPhase, receivers, writers, firmware, ghosts,
              HostType, ReceiverType, AckType, WriterType, FirmwareType, GhostType,
              Addressed, Phases
<1>3. QED
  BY <1>1, <1>2

LEMMA TypeStep == TypeInv /\ [Next]_vars => TypeInv'
<1>1. ASSUME TypeInv, Next PROVE TypeInv'
  BY <1>1, FirmwareStep, PumpStep, LoopStep, WriterStep, SessionStep DEF Next
<1>2. ASSUME TypeInv, UNCHANGED vars PROVE TypeInv'
  BY <1>2 DEF TypeInv, HostType, ReceiverType, AckType, WriterType, FirmwareType, GhostType,
              Addressed, vars, host, receivers, writers, firmware, ghosts
<1>3. QED
  BY <1>1, <1>2

(* Every reachable state is well typed: no burst, however long, takes a     *)
(* chunk channel or the ACK channel past its capacity (bulksource.go:58,    *)
(* cmdctl.go:133), for any number of endpoints, commands and strays.        *)
THEOREM TypeCorrect == Spec => []TypeOK
<1>1. Spec => []TypeInv
  BY InitType, TypeStep, PTL DEF Spec
<1>2. QED
  BY <1>1, TypeParts, PTL

LEMMA QuiescingStep == TypeInv /\ Quiescing /\ [Next]_vars => Quiescing'
<1> SUFFICES ASSUME TypeInv, Quiescing, [Next]_vars PROVE Quiescing'
  OBVIOUS
<1> USE DEF Quiescing, PumpsQuiesced
<1>1. CASE UNCHANGED <<phase, done, pump>>
  BY <1>1
<1>2. ASSUME NEW e \in Endpoints, Pump(e) PROVE Quiescing'
  BY <1>2 DEF Pump, PumpRead, PumpEnd, PumpTimeout, PumpChunk, host, TypeInv, HostType, ReceiverType
<1>3. CASE Serve \/ Leave \/ Close
  BY <1>3 DEF Serve, Leave, Close, CloseCancel, CloseLoopDone, CloseLoopTimeout, CloseStop,
              CloseWait, CloseRelease, ToPhase, receivers, TypeInv, HostType, ReceiverType, Phases
<1>4. CASE Firmware \/ Loop \/ LoopHandled \/ Cancel
  BY <1>4, <1>1 DEF Firmware, Confirm, SkipConfirm, Stray, Loop, LoopFrame, LoopCorrupt,
                    LoopCancelled, LoopHandled, Cancel, host, receivers
<1>5. ASSUME NEW w \in Writers, Writer(w) PROVE Quiescing'
  BY <1>5, <1>1 DEF Writer, SendData, WriteReturns, Submit, Delivered, Wait, Acked,
                    AckOfOtherTask, AckTimeout, Finished, host, receivers
<1>6. CASE UNCHANGED vars
  BY <1>6, <1>1 DEF vars, host, receivers
<1>7. QED
  BY <1>2, <1>3, <1>4, <1>5, <1>6 DEF Next

(* When the session is released no pump is inside a transfer, however many  *)
(* endpoints there are and however late each pump saw the end               *)
(* (session.close, bulkFrameSource.Stop).                                   *)
THEOREM PumpsAlwaysQuiesced == Spec => []PumpsQuiesced
<1>1. Spec => [](TypeInv /\ Quiescing)
  BY InitType, TypeStep, QuiescingStep, PTL DEF Spec
<1>2. QED
  BY <1>1, PTL DEF Quiescing

-----------------------------------------------------------------------------
(* No Submit takes the frame of another command.                            *)

(* The queues a frame passes on its way from the firmware to a submitter.   *)
Places == {<<"pending", "all">>, <<"acks", "all">>} \cup ({"wire", "chunks"} \X Endpoints)
InFlight ==
    [p \in Places |->
        IF p[1] = "pending" THEN pending
        ELSE IF p[1] = "acks" THEN ackCh
        ELSE IF p[1] = "wire" THEN wire[p[2]] ELSE chunks[p[2]]]

(* There is at most one frame of task t in the queues q.                    *)
Lone(q, t) ==
    \A a, b \in DOMAIN q : \A i \in 1 .. Len(q[a]), j \in 1 .. Len(q[b]) :
        q[a][i].task = t /\ q[b][j].task = t => a = b /\ i = j

(* Every frame of task t confirms the command of a writer that waits.       *)
Owned(t) ==
    \A a \in Places : \A i \in 1 .. Len(InFlight[a]) : InFlight[a][i].task = t =>
        \E w \in Writers :
            pc[w] = "await" /\ task[w] = t /\ cmd[w] = InFlight[a][i].cfm

(* One submitter at a time: the group key's is off until the bring-up has   *)
(* no more commands to give, and the bridge has none.                       *)
OneSubmitter ==
    /\ phase = "init" => \A w \in Helpers : pc[w] = "off"
    /\ phase # "init" => pc["bringup"] = "idle"
    /\ \A w \in Writers \ Submitters : pc[w] # "await"

SoundInv ==
    /\ OneSubmitter
    /\ \A t \in Tasks \ spoilt : Lone(InFlight, t) /\ Owned(t)
    /\ AcksSound

(* A frame leaves the head of queue a, for the end of queue b or for good.  *)
Moves(q, r, a, b) ==
    /\ q[a] # << >> /\ r[a] = Tail(q[a])
    /\ \A p \in Places \ {a} : r[p] = q[p] \/ (p = b /\ r[p] = Append(q[p], Head(q[a])))

(* There is no frame of task t in the queues q.                             *)
None(q, t) == \A p \in Places : \A i \in 1 .. Len(q[p]) : q[p][i].task # t

(* Frames only move from the head of one queue to the end of another, or    *)
(* are dropped: what is in flight afterwards was in flight before.          *)
LEMMA MovedIsLone ==
    ASSUME NEW q \in [Places -> Seq(Frame)], NEW r \in [Places -> Seq(Frame)],
           NEW a \in Places, NEW b, Moves(q, r, a, b), NEW t
    PROVE  /\ Lone(q, t) => Lone(r, t)
           /\ \A p \in Places : \A i \in 1 .. Len(r[p]) :
                 \E o \in Places : \E j \in 1 .. Len(q[o]) : r[p][i] = q[o][j]
           /\ Lone(q, t) /\ Head(q[a]).task = t /\ a = b => None(r, t)
<1> DEFINE Place(p, i) == IF p # a /\ i = Len(q[p]) + 1 THEN a ELSE p
           Index(p, i) == IF p = a THEN i + 1
                          ELSE IF i = Len(q[p]) + 1 THEN 1 ELSE i
<1>1. /\ DOMAIN q = Places /\ DOMAIN r = Places
      /\ \A p \in Places : q[p] \in Seq(Frame) /\ Len(q[p]) \in Nat
      /\ q[a] # << >> /\ r[a] = Tail(q[a])
      /\ \A p \in Places \ {a} : r[p] = q[p] \/ (p = b /\ r[p] = Append(q[p], Head(q[a])))
  BY DEF Moves
<1>2. /\ Len(q[a]) \in Nat \ {0} /\ Head(q[a]) = q[a][1] /\ Len(r[a]) = Len(q[a]) - 1
      /\ \A i \in 1 .. Len(r[a]) : r[a][i] = q[a][i + 1]
  BY <1>1
<1>3. ASSUME NEW p \in Places, NEW i \in 1 .. Len(r[p])
      PROVE  /\ Place(p, i) \in Places /\ Index(p, i) \in 1 .. Len(q[Place(p, i)])
             /\ r[p][i] = q[Place(p, i)][Index(p, i)]
             /\ Place(p, i) # p => p = b /\ i = Len(q[p]) + 1 /\ r[p] # q[p]
  <2>1. CASE p = a
    <3>1. i \in 1 .. Len(r[a]) /\ i \in Nat /\ i + 1 \in 1 .. Len(q[a])
      BY <1>2, <1>3, <2>1
    <3>2. Place(p, i) = a /\ Index(p, i) = i + 1
      BY <2>1
    <3>3. r[a][i] = q[a][i + 1]
      BY <1>2, <3>1
    <3> HIDE DEF Place, Index
    <3>4. QED
      BY <2>1, <3>1, <3>2, <3>3
  <2>2. CASE p # a /\ r[p] = q[p]
    BY <1>1, <1>3, <2>2
  <2>3. CASE p # a /\ p = b /\ r[p] = Append(q[p], Head(q[a]))
    <3>1. q[p] \in Seq(Frame) /\ Len(q[p]) \in Nat
      BY <1>1
    <3>2. /\ Len(r[p]) = Len(q[p]) + 1 /\ r[p][Len(q[p]) + 1] = q[a][1]
          /\ \A j \in 1 .. Len(q[p]) : r[p][j] = q[p][j]
      BY <1>2, <2>3, <3>1
    <3>3. r[p] # q[p]
      BY <3>1, <3>2
    <3>4. CASE i = Len(q[p]) + 1
      BY <1>2, <2>3, <3>2, <3>3, <3>4
    <3>5. CASE i # Len(q[p]) + 1
      <4>1. i \in 1 .. Len(q[p])
        BY <1>3, <3>1, <3>2, <3>5
      <4>2. QED
        BY <2>3, <3>2, <3>5, <4>1
    <3>6. QED
      BY <3>4, <3>5
  <2>4. QED
    BY <1>1, <2>1, <2>2, <2>3
<1>4. ASSUME NEW p \in Places, NEW i \in 1 .. Len(r[p]), NEW v \in Places, NEW j \in 1 .. Len(r[v]),
             Place(p, i) = Place(v, j), Index(p, i) = Index(v, j)
      PROVE  p = v /\ i = j
  <2>1. i \in Nat \ {0} /\ j \in Nat \ {0}
    <3>1. Len(r[p]) \in Nat /\ Len(r[v]) \in Nat
      OBVIOUS
    <3>2. QED
      BY <3>1
  <2>2. /\ Place(p, i) # p => p = b /\ i = Len(q[p]) + 1
        /\ Place(v, j) # v => v = b /\ j = Len(q[v]) + 1
    BY <1>3
  <2>3. QED
    BY <1>4, <2>1, <2>2
<1> HIDE DEF Place, Index
<1>5. ASSUME Lone(q, t) PROVE Lone(r, t)
  <2> SUFFICES ASSUME NEW p \in Places, NEW v \in Places, NEW i \in 1 .. Len(r[p]), NEW j \in 1 .. Len(r[v]),
                      r[p][i].task = t, r[v][j].task = t
               PROVE  p = v /\ i = j
    BY <1>1 DEF Lone
  <2>1. q[Place(p, i)][Index(p, i)].task = t /\ q[Place(v, j)][Index(v, j)].task = t
    BY <1>3
  <2>2. Place(p, i) = Place(v, j) /\ Index(p, i) = Index(v, j)
    BY <1>1, <1>3, <1>5, <2>1 DEF Lone
  <2>3. QED
    BY <1>4, <2>2
<1>6. ASSUME Lone(q, t), Head(q[a]).task = t, a = b,
             NEW p \in Places, NEW i \in 1 .. Len(r[p]), r[p][i].task = t
      PROVE  FALSE
  <2>1. Place(p, i) = p
    BY <1>1, <1>3, <1>6 DEF Place
  <2>2. q[p][Index(p, i)].task = t /\ Index(p, i) \in 1 .. Len(q[p])
    BY <1>3, <1>6, <2>1
  <2>3. q[a][1].task = t /\ 1 \in 1 .. Len(q[a])
    BY <1>2, <1>6
  <2>4. p = a /\ Index(p, i) = 1
    BY <1>1, <1>6, <2>2, <2>3 DEF Lone
  <2>5. i + 1 = 1 /\ i \in Nat \ {0}
    <3>1. Len(r[p]) \in Nat
      OBVIOUS
    <3>2. QED
      BY <2>4, <3>1 DEF Index
  <2>6. QED
    BY <2>5
<1>7. ASSUME NEW p \in Places, NEW i \in 1 .. Len(r[p])
      PROVE  \E o \in Places : \E j \in 1 .. Len(q[o]) : r[p][i] = q[o][j]
  <2> DEFINE o == Place(p, i)
             j == Index(p, i)
  <2>1. o \in Places /\ j \in 1 .. Len(q[o]) /\ r[p][i] = q[o][j]
    BY <1>3, <1>7
  <2> HIDE DEF o, j
  <2>2. QED
    BY <2>1
<1>8. QED
  BY <1>5, <1>6, <1>7 DEF None

(* A frame is sent into queue a.                                            *)
Adds(q, r, a, f) ==
    r[a] = Append(q[a], f) /\ \A p \in Places \ {a} : r[p] = q[p]

(* All that is in the queues is as it was, or the frame f.                  *)
Grown(q, r, f) ==
    \A p \in Places : \A i \in 1 .. Len(r[p]) :
        r[p][i] = f \/ (i \in 1 .. Len(q[p]) /\ r[p][i] = q[p][i])

(* A command that goes out is the only one of its task.                     *)
LEMMA AddedIsLone ==
    ASSUME NEW q \in [Places -> Seq(Frame)], NEW r \in [Places -> Seq(Frame)],
           NEW a \in Places, NEW f \in Frame, Adds(q, r, a, f)
    PROVE  /\ \A t : f.task # t /\ Lone(q, t) => Lone(r, t)
           /\ \A t : None(q, t) => Lone(r, t)
           /\ Grown(q, r, f)
<1>1. /\ DOMAIN q = Places /\ DOMAIN r = Places
      /\ \A p \in Places : q[p] \in Seq(Frame) /\ Len(q[p]) \in Nat
      /\ r[a] = Append(q[a], f) /\ \A p \in Places \ {a} : r[p] = q[p]
  BY DEF Adds
<1>2. /\ Len(r[a]) = Len(q[a]) + 1 /\ r[a][Len(q[a]) + 1] = f
      /\ \A i \in 1 .. Len(q[a]) : r[a][i] = q[a][i]
  BY <1>1
<1>3. ASSUME NEW p \in Places, NEW i \in 1 .. Len(r[p])
      PROVE  \/ r[p][i] = f /\ p = a /\ i = Len(q[a]) + 1
             \/ i \in 1 .. Len(q[p]) /\ r[p][i] = q[p][i]
  <2>1. CASE p = a
    <3>1. i = Len(q[a]) + 1 \/ i \in 1 .. Len(q[a])
      BY <1>1, <1>2, <1>3, <2>1
    <3>2. QED
      BY <1>2, <2>1, <3>1
  <2>2. CASE p # a
    BY <1>1, <1>3, <2>2
  <2>3. QED
    BY <2>1, <2>2
<1>4. ASSUME NEW t, f.task # t, Lone(q, t) PROVE Lone(r, t)
  <2> SUFFICES ASSUME NEW p \in Places, NEW v \in Places, NEW i \in 1 .. Len(r[p]), NEW j \in 1 .. Len(r[v]),
                      r[p][i].task = t, r[v][j].task = t
               PROVE  p = v /\ i = j
    BY <1>1 DEF Lone
  <2>1. i \in 1 .. Len(q[p]) /\ q[p][i].task = t /\ j \in 1 .. Len(q[v]) /\ q[v][j].task = t
    BY <1>3, <1>4
  <2>2. QED
    BY <1>1, <1>4, <2>1 DEF Lone
<1>5. ASSUME NEW t, None(q, t) PROVE Lone(r, t)
  <2> SUFFICES ASSUME NEW p \in Places, NEW v \in Places, NEW i \in 1 .. Len(r[p]), NEW j \in 1 .. Len(r[v]),
                      r[p][i].task = t, r[v][j].task = t
               PROVE  p = v /\ i = j
    BY <1>1 DEF Lone
  <2>1. p = a /\ i = Len(q[a]) + 1 /\ v = a /\ j = Len(q[a]) + 1
    BY <1>3, <1>5 DEF None
  <2>2. QED
    BY <2>1
<1>6. QED
  BY <1>3, <1>4, <1>5 DEF Grown

LEMMA FlightIs ==
    ASSUME TypeInv
    PROVE  /\ InFlight \in [Places -> Seq(Frame)]
           /\ InFlight[<<"pending", "all">>] = pending /\ InFlight[<<"acks", "all">>] = ackCh
           /\ \A e \in Endpoints : /\ InFlight[<<"wire", e>>] = wire[e]
                                   /\ InFlight[<<"chunks", e>>] = chunks[e]
<1>1. /\ ackCh \in Seq(Frame)
      /\ \A e \in Endpoints : wire[e] \in Seq(Frame) /\ chunks[e] \in Seq(Frame)
  BY DEF TypeInv, AckType, FirmwareType, ReceiverType
<1>2. pending \in Seq(Frame)
  <2>1. [task : Tasks, cfm : Command] \subseteq Frame
    BY DEF Frame
  <2>2. QED
    BY <2>1, SeqMonotonic DEF TypeInv, FirmwareType
<1>3. \A p \in Places : InFlight[p] \in Seq(Frame)
  BY <1>1, <1>2 DEF InFlight, Places
<1>4. QED
  BY <1>3 DEF InFlight, Places

LEMMA FlightType == TypeInv => InFlight \in [Places -> Seq(Frame)]
BY FlightIs

(* Two writers that write or wait, and may have a command, are one.         *)
LEMMA SameSubmitter ==
    ASSUME OneSubmitter, NEW v \in Submitters, NEW w \in Submitters,
           pc[v] \in {"writing", "await"}, pc[w] \in {"writing", "await"}
    PROVE  v = w
BY HelpersAssumption DEF OneSubmitter, Submitters, Writers

LEMMA OneSubmitterKept ==
    ASSUME TypeInv, OneSubmitter, [Next]_vars
    PROVE  OneSubmitter'
<1> USE DEF OneSubmitter
<1>0. /\ "bringup" \in Writers /\ Helpers = Writers \ {"bringup"}
      /\ pc \in [Writers -> {"off", "idle", "writing", "await"}]
  BY HelpersAssumption DEF Writers, TypeInv, WriterType
<1>1. CASE UNCHANGED <<phase, pc>>
  BY <1>1
<1>2. CASE Firmware \/ Loop \/ LoopHandled \/ Cancel
  BY <1>1, <1>2 DEF Firmware, Confirm, SkipConfirm, Stray, Loop, LoopFrame, LoopCorrupt,
                    LoopCancelled, LoopHandled, Cancel, host, writers
<1>3. ASSUME NEW e \in Endpoints, Pump(e) PROVE OneSubmitter'
  BY <1>1, <1>3 DEF Pump, PumpRead, PumpEnd, PumpTimeout, PumpChunk, host, writers
<1>4. CASE Leave \/ Close
  BY <1>4 DEF Leave, Close, CloseCancel, CloseLoopDone, CloseLoopTimeout, CloseStop, CloseWait,
              CloseRelease, ToPhase, writers
<1>5. CASE Serve
  BY <1>0, <1>5 DEF Serve
<1>6. ASSUME NEW w \in Writers, Writer(w) PROVE OneSubmitter'
  <2>1. UNCHANGED phase
    BY <1>6 DEF Writer, SendData, WriteReturns, Submit, Delivered, Wait, Acked,
                AckOfOtherTask, AckTimeout, Finished, host
  <2>2. CASE AckOfOtherTask(w)
    BY <1>1, <2>1, <2>2 DEF AckOfOtherTask, writers
  <2>3. CASE pc[w] = "idle" /\ MayWrite(w) /\ pc' = [pc EXCEPT ![w] = "writing"]
    BY <1>0, <2>1, <2>3 DEF MayWrite
  <2>4. CASE pc[w] \in {"writing", "await"} /\ pc' = [pc EXCEPT ![w] = "idle"]
    BY <1>0, <2>1, <2>4
  <2>5. CASE w \in Submitters /\ pc[w] = "writing" /\ pc' = [pc EXCEPT ![w] = "await"]
    BY <1>0, <2>1, <2>5
  <2>6. QED
    BY <1>6, <2>2, <2>3, <2>4, <2>5
       DEF Writer, SendData, MayWrite, WriteReturns, Submit, Delivered, Wait, Acked, AckTimeout,
           Finished
<1>7. CASE UNCHANGED vars
  BY <1>1, <1>7 DEF vars, host, writers
<1>8. QED
  BY <1>2, <1>3, <1>4, <1>5, <1>6, <1>7 DEF Next

(* The writers that wait for a confirmation of task t go on waiting.        *)
KeepWaiting(t) ==
    \A w \in Writers : pc[w] = "await" /\ task[w] = t =>
        pc'[w] = "await" /\ task'[w] = t /\ cmd'[w] = cmd[w]

LEMMA StillIsSound ==
    ASSUME NEW t, Lone(InFlight, t), Owned(t), InFlight' = InFlight, KeepWaiting(t)
    PROVE  Lone(InFlight', t) /\ Owned(t)'
BY DEF Owned, KeepWaiting

(* Frames move, or are lost.                                                *)
LEMMA MovedIsSound ==
    ASSUME TypeInv, TypeInv', NEW t, Lone(InFlight, t), Owned(t),
           NEW a \in Places, NEW b, Moves(InFlight, InFlight', a, b), KeepWaiting(t)
    PROVE  Lone(InFlight', t) /\ Owned(t)'
<1>1. (TypeInv => InFlight \in [Places -> Seq(Frame)])'
  BY FlightType, PTL
<1>2. InFlight \in [Places -> Seq(Frame)] /\ InFlight' \in [Places -> Seq(Frame)]
  BY <1>1, FlightType
<1>3. /\ Lone(InFlight', t)
      /\ \A p \in Places : \A i \in 1 .. Len(InFlight'[p]) :
            \E o \in Places : \E j \in 1 .. Len(InFlight[o]) : InFlight'[p][i] = InFlight[o][j]
  BY <1>2, MovedIsLone
<1>4. ASSUME NEW p \in Places, NEW i \in 1 .. Len(InFlight'[p]), InFlight'[p][i].task = t
      PROVE  \E w \in Writers : pc'[w] = "await" /\ task'[w] = t /\ cmd'[w] = InFlight'[p][i].cfm
  <2>1. PICK o \in Places : \E j \in 1 .. Len(InFlight[o]) : InFlight'[p][i] = InFlight[o][j]
    BY <1>3
  <2>2. PICK j \in 1 .. Len(InFlight[o]) : InFlight'[p][i] = InFlight[o][j]
    BY <2>1
  <2>3. PICK w \in Writers : pc[w] = "await" /\ task[w] = t /\ cmd[w] = InFlight[o][j].cfm
    BY <1>4, <2>2 DEF Owned
  <2>4. QED
    BY <2>2, <2>3 DEF KeepWaiting
<1>5. Owned(t)'
  BY <1>4 DEF Owned
<1>6. QED
  BY <1>3, <1>4, <1>5

(* A frame is sent, of another task or the only one of its own.             *)
LEMMA AddedIsSound ==
    ASSUME TypeInv, TypeInv', NEW t, Lone(InFlight, t), Owned(t), NEW a \in Places,
           NEW f \in Frame, Adds(InFlight, InFlight', a, f), KeepWaiting(t),
           \/ f.task # t
           \/ /\ None(InFlight, t)
              /\ \E w \in Writers : pc'[w] = "await" /\ task'[w] = t /\ cmd'[w] = f.cfm
    PROVE  Lone(InFlight', t) /\ Owned(t)'
<1>1. (TypeInv => InFlight \in [Places -> Seq(Frame)])'
  BY FlightType, PTL
<1>2. InFlight \in [Places -> Seq(Frame)] /\ InFlight' \in [Places -> Seq(Frame)]
  BY <1>1, FlightType
<1>3. Grown(InFlight, InFlight', f)
  BY <1>2, AddedIsLone
<1>4. Lone(InFlight', t)
  BY <1>2, AddedIsLone
<1>5. ASSUME NEW p \in Places, NEW i \in 1 .. Len(InFlight'[p]), InFlight'[p][i].task = t
      PROVE  \E w \in Writers : pc'[w] = "await" /\ task'[w] = t /\ cmd'[w] = InFlight'[p][i].cfm
  <2>1. CASE InFlight'[p][i] = f
    BY <1>5, <2>1
  <2>2. CASE i \in 1 .. Len(InFlight[p]) /\ InFlight'[p][i] = InFlight[p][i]
    <3>1. PICK w \in Writers : pc[w] = "await" /\ task[w] = t /\ cmd[w] = InFlight[p][i].cfm
      BY <1>5, <2>2 DEF Owned
    <3>2. QED
      BY <2>2, <3>1 DEF KeepWaiting
  <2>3. QED
    BY <1>3, <1>5, <2>1, <2>2 DEF Grown
<1>6. Owned(t)'
  BY <1>5 DEF Owned
<1>7. QED
  BY <1>4, <1>6

(* The frame that is taken was the last of its task.                        *)
LEMMA TakenIsLast ==
    ASSUME TypeInv, TypeInv', NEW t, Lone(InFlight, t), NEW a \in Places,
           Moves(InFlight, InFlight', a, a)
    PROVE  Head(InFlight[a]).task = t => Lone(InFlight', t) /\ Owned(t)'
<1>1. (TypeInv => InFlight \in [Places -> Seq(Frame)])'
  BY FlightType, PTL
<1>2. InFlight \in [Places -> Seq(Frame)] /\ InFlight' \in [Places -> Seq(Frame)]
  BY <1>1, FlightType
<1>3. Lone(InFlight', t)
  BY <1>2, MovedIsLone
<1>4. Head(InFlight[a]).task = t => None(InFlight', t)
  BY <1>2, MovedIsLone
<1>5. None(InFlight', t) => Owned(t)'
  BY DEF None, Owned
<1>6. QED
  BY <1>3, <1>4, <1>5

(* The firmware confirms, skips a confirmation, or speaks unasked.          *)
LEMMA FirmwareIsSound ==
    ASSUME TypeInv, TypeInv', Firmware, NEW t \in Tasks \ spoilt', Lone(InFlight, t), Owned(t)
    PROVE  Lone(InFlight', t) /\ Owned(t)'
<1>1. KeepWaiting(t)
  BY DEF Firmware, Confirm, SkipConfirm, Stray, writers, KeepWaiting
<1>2. CASE SkipConfirm
  <2>1. /\ Moves(InFlight, InFlight', <<"pending", "all">>, <<"pending", "all">>)
        /\ <<"pending", "all">> \in Places
    BY <1>2 DEF SkipConfirm, Moves, InFlight, Places, receivers
  <2>2. QED
    BY <1>1, <2>1, MovedIsSound
<1>3. ASSUME NEW e \in Endpoints, Confirm(e) PROVE Lone(InFlight', t) /\ Owned(t)'
  <2>1. wire' = [wire EXCEPT ![e] = Append(wire[e], Head(pending))] /\ wire \in [Endpoints -> Seq(Frame)]
    BY <1>3 DEF Confirm, TypeInv, FirmwareType
  <2>2. /\ Moves(InFlight, InFlight', <<"pending", "all">>, <<"wire", e>>)
        /\ <<"pending", "all">> \in Places
    BY <1>3, <2>1 DEF Confirm, Moves, InFlight, Places, receivers
  <2>3. QED
    BY <1>1, <2>2, MovedIsSound
<1>4. ASSUME NEW e \in Endpoints, NEW u \in Tasks \cup {"data"}, Stray(e, u)
      PROVE  Lone(InFlight', t) /\ Owned(t)'
  <2> DEFINE f == [task |-> u, cfm |-> 0]
             a == <<"wire", e>>
  <2>1. u # t /\ f.task = u /\ f \in Frame
    BY <1>4, BoundsAssumption DEF Stray, Frame, Command
  <2>2. wire' = [wire EXCEPT ![e] = Append(wire[e], f)] /\ wire \in [Endpoints -> Seq(Frame)]
    BY <1>4 DEF Stray, TypeInv, FirmwareType
  <2> HIDE DEF f
  <2>3. Adds(InFlight, InFlight', a, f) /\ a \in Places
    BY <1>4, <2>2 DEF Stray, Adds, InFlight, Places, receivers
  <2> HIDE DEF a
  <2>4. QED
    BY <1>1, <2>1, <2>3, AddedIsSound
<1>5. QED
  BY <1>2, <1>3, <1>4 DEF Firmware

(* A pump or the event loop passes a frame on, or drops it.                 *)
LEMMA ReceiversAreSound ==
    ASSUME TypeInv, TypeInv', Loop \/ LoopHandled \/ \E e \in Endpoints : Pump(e),
           NEW t, Lone(InFlight, t), Owned(t)
    PROVE  Lone(InFlight', t) /\ Owned(t)'
<1>1. KeepWaiting(t)
  BY DEF Pump, PumpRead, PumpEnd, PumpTimeout, PumpChunk, Loop, LoopFrame, LoopCorrupt,
         LoopCancelled, LoopHandled, writers, KeepWaiting
<1>2. wire \in [Endpoints -> Seq(Frame)] /\ chunks \in [Endpoints -> Seq(Frame)]
  BY DEF TypeInv, FirmwareType, ReceiverType
<1>3. ASSUME NEW e \in Endpoints, PumpChunk(e) PROVE Lone(InFlight', t) /\ Owned(t)'
  <2>1. /\ wire[e] # << >> /\ wire' = [wire EXCEPT ![e] = Tail(wire[e])]
        /\ UNCHANGED <<pending, ackCh>>
    BY <1>3 DEF PumpChunk
  <2>2. \/ chunks' = chunks
        \/ chunks' = [chunks EXCEPT ![e] = Append(chunks[e], Head(wire[e]))]
    BY <1>2, <1>3 DEF PumpChunk, Offered
  <2>3. Moves(InFlight, InFlight', <<"wire", e>>, <<"chunks", e>>) /\ <<"wire", e>> \in Places
    BY <1>2, <2>1, <2>2 DEF Moves, InFlight, Places
  <2>4. QED
    BY <1>1, <2>3, MovedIsSound
<1>4. ASSUME NEW e \in Endpoints, LoopFrame(e) \/ LoopCorrupt(e)
      PROVE  Lone(InFlight', t) /\ Owned(t)'
  <2>1. /\ chunks[e] # << >> /\ chunks' = [chunks EXCEPT ![e] = Tail(chunks[e])]
        /\ UNCHANGED <<pending, wire>>
    BY <1>4 DEF LoopFrame, LoopCorrupt, firmware
  <2>2. ackCh' = ackCh \/ ackCh' = Append(ackCh, Head(chunks[e]))
    BY <1>4 DEF LoopFrame, LoopCorrupt, Offered
  <2>3. Moves(InFlight, InFlight', <<"chunks", e>>, <<"acks", "all">>) /\ <<"chunks", e>> \in Places
    BY <1>2, <2>1, <2>2 DEF Moves, InFlight, Places
  <2>4. QED
    BY <1>1, <2>3, MovedIsSound
<1>5. CASE LoopCancelled \/ LoopHandled
  <2>1. InFlight' = InFlight
    BY <1>5 DEF LoopCancelled, LoopHandled, firmware, InFlight
  <2>2. QED
    BY <1>1, <2>1, StillIsSound
<1>6. ASSUME NEW e \in Endpoints, PumpRead(e) \/ PumpEnd(e) \/ PumpTimeout(e)
      PROVE  Lone(InFlight', t) /\ Owned(t)'
  <2>1. InFlight' = InFlight
    BY <1>6 DEF PumpRead, PumpEnd, PumpTimeout, firmware, InFlight
  <2>2. QED
    BY <1>1, <2>1, StillIsSound
<1>7. QED
  BY <1>3, <1>4, <1>5, <1>6 DEF Pump, Loop

(* A command that is delivered is the only one of its task under way, as    *)
(* the writer of any other would still be waiting.                          *)
LEMMA DeliveredIsSound ==
    ASSUME TypeInv, TypeInv', OneSubmitter, NEW w \in Submitters, Delivered(w), NEW t,
           Lone(InFlight, t), Owned(t)
    PROVE  Lone(InFlight', t) /\ Owned(t)'
<1> DEFINE f == [task |-> task[w], cfm |-> cmd[w]]
           a == <<"pending", "all">>
<1>1. /\ w \in Writers /\ pc[w] = "writing" /\ pending' = Append(pending, f)
      /\ UNCHANGED <<task, cmd, wire, chunks, ackCh>> /\ pc' = [pc EXCEPT ![w] = "await"]
      /\ pc \in [Writers -> {"off", "idle", "writing", "await"}]
  BY DEF Delivered, receivers, Submitters, TypeInv, WriterType
<1>2. KeepWaiting(t)
  BY <1>1 DEF KeepWaiting
<1>3. f \in Frame /\ f.task = task[w] /\ f.cfm = cmd[w]
  BY <1>1 DEF TypeInv, WriterType, Frame
<1> HIDE DEF f
<1>4. Adds(InFlight, InFlight', a, f) /\ a \in Places
  BY <1>1 DEF Adds, InFlight, Places
<1> HIDE DEF a
<1>5. CASE task[w] # t
  BY <1>2, <1>3, <1>4, <1>5, AddedIsSound
<1>6. CASE task[w] = t
  <2>1. ASSUME NEW p \in Places, NEW i \in 1 .. Len(InFlight[p]), InFlight[p][i].task = t
        PROVE  FALSE
    <3>1. PICK v \in Writers : pc[v] = "await"
      BY <2>1 DEF Owned
    <3>2. v \in Submitters
      BY <3>1 DEF OneSubmitter
    <3>3. v = w
      BY <1>1, <3>1, <3>2, SameSubmitter
    <3>4. QED
      BY <1>1, <3>1, <3>3
  <2>2. None(InFlight, t)
    BY <2>1 DEF None
  <2>3. pc'[w] = "await" /\ task'[w] = t /\ cmd'[w] = f.cfm
    BY <1>1, <1>3, <1>6
  <2>4. \E v \in Writers : pc'[v] = "await" /\ task'[v] = t /\ cmd'[v] = f.cfm
    BY <1>1, <2>3
  <2>5. QED
    BY <1>2, <1>3, <1>4, <2>2, <2>4, AddedIsSound
<1>7. QED
  BY <1>5, <1>6

(* A confirmation that ends a wait is the last frame of its task.           *)
LEMMA WritersAreSound ==
    ASSUME TypeInv, TypeInv', OneSubmitter, NEW w \in Writers, Writer(w),
           NEW t \in Tasks \ spoilt', Lone(InFlight, t), Owned(t)
    PROVE  Lone(InFlight', t) /\ Owned(t)'
<1> DEFINE a == <<"acks", "all">>
<1>1. /\ pc \in [Writers -> {"off", "idle", "writing", "await"}]
      /\ task \in [Writers -> Tasks \cup {"data"}] /\ cmd \in [Writers -> Command]
  BY DEF TypeInv, WriterType
<1>2. CASE SendData(w) \/ WriteReturns(w) \/ \E u \in Tasks : Submit(w, u)
  <2>1. InFlight' = InFlight
    BY <1>2 DEF SendData, WriteReturns, Submit, Finished, receivers, firmware, InFlight
  <2>2. KeepWaiting(t)
    BY <1>1, <1>2 DEF SendData, WriteReturns, Submit, MayWrite, Finished, KeepWaiting
  <2>3. QED
    BY <2>1, <2>2, StillIsSound
<1>3. CASE w \in Submitters /\ Delivered(w)
  BY <1>3, DeliveredIsSound
<1>4. ASSUME ackCh # << >>, ackCh' = Tail(ackCh), UNCHANGED <<pending, wire, chunks>>
      PROVE  Moves(InFlight, InFlight', a, a) /\ a \in Places /\ InFlight[a] = ackCh
  <2>1. Moves(InFlight, InFlight', a, a) /\ a \in Places
    BY <1>4 DEF Moves, InFlight, Places
  <2>2. QED
    BY <2>1, FlightIs
<1> HIDE DEF a
<1>5. CASE AckOfOtherTask(w)
  <2>1. ackCh # << >> /\ ackCh' = Tail(ackCh) /\ UNCHANGED <<pending, wire, chunks>>
    BY <1>5 DEF AckOfOtherTask, receivers, firmware
  <2>2. KeepWaiting(t)
    BY <1>5 DEF AckOfOtherTask, writers, KeepWaiting
  <2>3. QED
    BY <1>4, <2>1, <2>2, MovedIsSound
<1>6. CASE AckTimeout(w)
  <2>1. task[w] # t
    BY <1>6 DEF AckTimeout
  <2>2. InFlight' = InFlight /\ KeepWaiting(t)
    BY <1>1, <1>6, <2>1 DEF AckTimeout, Finished, receivers, firmware, InFlight, KeepWaiting
  <2>3. QED
    BY <2>2, StillIsSound
<1>7. CASE Acked(w)
  <2>1. /\ ackCh # << >> /\ ackCh' = Tail(ackCh) /\ UNCHANGED <<pending, wire, chunks>>
        /\ Head(ackCh).task = task[w]
    BY <1>7 DEF Acked, Finished, receivers, firmware
  <2>2. CASE task[w] # t
    <3>1. KeepWaiting(t)
      BY <1>1, <1>7, <2>2 DEF Acked, Finished, KeepWaiting
    <3>2. QED
      BY <1>4, <2>1, <3>1, MovedIsSound
  <2>3. CASE task[w] = t
    BY <1>4, <2>1, <2>3, TakenIsLast
  <2>4. QED
    BY <2>2, <2>3
<1>8. QED
  BY <1>2, <1>3, <1>5, <1>6, <1>7 DEF Writer, Wait

(* The steps of the bring-up; it serves only when nobody waits.             *)
LEMMA SessionIsSound ==
    ASSUME TypeInv, OneSubmitter, Serve \/ Cancel \/ Leave \/ Close \/ UNCHANGED vars,
           NEW t, Lone(InFlight, t), Owned(t)
    PROVE  Lone(InFlight', t) /\ Owned(t)'
<1>1. InFlight' = InFlight
  BY DEF Serve, Cancel, Leave, Close, CloseCancel, CloseLoopDone, CloseLoopTimeout, CloseStop,
         CloseWait, CloseRelease, ToPhase, vars, receivers, firmware, InFlight
<1>2. KeepWaiting(t)
  <2>1. CASE UNCHANGED writers
    BY <2>1 DEF KeepWaiting, writers
  <2>2. CASE Serve
    <3>1. \A w \in Writers : pc[w] # "await"
      BY <2>2, HelpersAssumption DEF Serve, OneSubmitter, Writers
    <3>2. QED
      BY <3>1 DEF KeepWaiting
  <2>3. QED
    BY <2>1, <2>2 DEF Cancel, Leave, Close, CloseCancel, CloseLoopDone, CloseLoopTimeout,
         CloseStop, CloseWait, CloseRelease, ToPhase, vars
<1>3. QED
  BY <1>1, <1>2, StillIsSound

(* What a Submit takes for its own is, or its task was spoilt before.       *)
LEMMA AcksSoundKept ==
    ASSUME TypeInv, SoundInv, [Next]_vars
    PROVE  AcksSound' /\ spoilt \subseteq spoilt'
<1>1. misread \subseteq spoilt
  BY DEF SoundInv, AcksSound
<1>2. CASE UNCHANGED ghosts
  BY <1>1, <1>2 DEF ghosts, AcksSound
<1>3. CASE Firmware
  BY <1>1, <1>3 DEF Firmware, Confirm, SkipConfirm, Stray, ghosts, AcksSound
<1>4. ASSUME NEW w \in Writers, Acked(w) PROVE AcksSound' /\ spoilt \subseteq spoilt'
  <2> DEFINE a == <<"acks", "all">>
             f == Head(ackCh)
  <2>1. /\ pc[w] = "await" /\ ackCh # << >> /\ f.task = task[w] /\ spoilt' = spoilt
        /\ misread' = IF f.cfm = cmd[w] THEN misread ELSE misread \cup {task[w]}
    BY <1>4 DEF Acked
  <2>2. f.cfm # cmd[w] => task[w] \in spoilt
    <3> SUFFICES ASSUME f.cfm # cmd[w], task[w] \notin spoilt PROVE FALSE
      OBVIOUS
    <3>1. task[w] \in Tasks
      BY <2>1 DEF TypeInv, Addressed
    <3>2. Owned(task[w])
      BY <3>1 DEF SoundInv
    <3>3. a \in Places /\ InFlight[a] = ackCh
      BY FlightIs DEF Places
    <3>4. f = ackCh[1] /\ 1 \in 1 .. Len(ackCh)
      BY <2>1 DEF TypeInv, AckType
    <3> HIDE DEF a, f
    <3>5. PICK v \in Writers : pc[v] = "await" /\ cmd[v] = f.cfm
      BY <2>1, <3>2, <3>3, <3>4 DEF Owned
    <3>6. v \in Submitters /\ w \in Submitters /\ OneSubmitter
      BY <2>1, <3>5 DEF SoundInv, OneSubmitter
    <3>7. v = w
      BY <2>1, <3>5, <3>6, SameSubmitter
    <3>8. QED
      BY <3>5, <3>7
  <2>3. QED
    BY <1>1, <2>1, <2>2 DEF AcksSound
<1>5. ASSUME NEW w \in Writers, Writer(w), ~Acked(w) PROVE AcksSound' /\ spoilt \subseteq spoilt'
  BY <1>1, <1>5 DEF Writer, SendData, WriteReturns, Submit, Delivered, Wait, AckOfOtherTask,
                    AckTimeout, ghosts, AcksSound
<1>6. ASSUME NEW e \in Endpoints, Pump(e) PROVE UNCHANGED ghosts
  BY <1>6 DEF Pump, PumpRead, PumpEnd, PumpTimeout, PumpChunk
<1>7. CASE Loop \/ LoopHandled \/ Serve \/ Cancel \/ Leave \/ Close \/ UNCHANGED vars
  BY <1>2, <1>7 DEF Loop, LoopFrame, LoopCorrupt, LoopCancelled, LoopHandled, Serve, Cancel,
                    Leave, Close, CloseCancel, CloseLoopDone, CloseLoopTimeout, CloseStop,
                    CloseWait, CloseRelease, ToPhase, vars
<1>8. QED
  BY <1>2, <1>3, <1>4, <1>5, <1>6, <1>7 DEF Next

LEMMA SoundKept ==
    ASSUME TypeInv, TypeInv', SoundInv, [Next]_vars PROVE SoundInv'
<1>1. AcksSound' /\ spoilt \subseteq spoilt'
  BY AcksSoundKept
<1>2. OneSubmitter /\ OneSubmitter'
  BY OneSubmitterKept DEF SoundInv
<1>3. ASSUME NEW t \in Tasks \ spoilt' PROVE Lone(InFlight', t) /\ Owned(t)'
  <2>1. Lone(InFlight, t) /\ Owned(t)
    BY <1>1, <1>3 DEF SoundInv
  <2>2. CASE Firmware
    BY <2>1, <2>2, FirmwareIsSound
  <2>3. CASE Loop \/ LoopHandled \/ \E e \in Endpoints : Pump(e)
    BY <2>1, <2>3, ReceiversAreSound
  <2>4. CASE \E w \in Writers : Writer(w)
    BY <1>2, <2>1, <2>4, WritersAreSound
  <2>5. CASE Serve \/ Cancel \/ Leave \/ Close \/ UNCHANGED vars
    BY <1>2, <2>1, <2>5, SessionIsSound
  <2>6. QED
    BY <2>2, <2>3, <2>4, <2>5 DEF Next
<1>4. QED
  BY <1>1, <1>2, <1>3 DEF SoundInv

LEMMA SoundInit == Init /\ TypeInv => SoundInv
<1> SUFFICES ASSUME Init, TypeInv PROVE SoundInv
  OBVIOUS
<1>1. OneSubmitter
  BY HelpersAssumption DEF Init, OneSubmitter, Writers, Submitters
<1>2. AcksSound
  BY DEF Init, AcksSound
<1>3. \A p \in Places : InFlight[p] = << >>
  BY DEF Init, InFlight, Places
<1>4. DOMAIN InFlight = Places
  BY DEF InFlight
<1>5. \A p \in Places : Len(InFlight[p]) = 0
  BY <1>3
<1>6. \A t : Lone(InFlight, t) /\ Owned(t)
  BY <1>4, <1>5 DEF Lone, Owned
<1>7. QED
  BY <1>1, <1>2, <1>6 DEF SoundInv

(* Submit takes a frame of its task for its own (submitter.go compares the  *)
(* task of an id, not the command).  As long as no Submit of that task has  *)
(* given up and the firmware has not spoken for it unasked, that is right,  *)
(* whatever is dropped on the way, for any number of endpoints and commands.*)
THEOREM AcksAlwaysSound == Spec => []AcksSound
<1>1. Spec => []TypeInv
  BY InitType, TypeStep, PTL DEF Spec
<1>2. TypeInv /\ TypeInv' /\ SoundInv /\ [Next]_vars => SoundInv'
  BY SoundKept
<1>3. Init => TypeInv /\ SoundInv
  BY InitType, SoundInit
<1>4. Spec => []SoundInv
  BY <1>1, <1>2, <1>3, PTL DEF Spec
<1>5. SoundInv => AcksSound
  BY DEF SoundInv
<1>6. QED
  BY <1>4, <1>5, PTL
=============================================================================
