------------------------- MODULE KeyExchangeProofs -------------------------
(* What holds of KeyExchange for any capacity of eapolCh, any number of     *)
(* repetitions, rekeys and faults: its types, that a completed handshake    *)
(* installed the access point's keys, that an acknowledged group key is in   *)
(* the firmware, and that losses alone make the access point give up only   *)
(* when there were as many of them as it has tries.                         *)
EXTENDS KeyExchange, SequenceTheorems, TLAPS

(* The parts of TypeOK. *)
StationType ==
    /\ sta \in Working \cup Ended
    /\ ptk \in Nat /\ kck \in Nat
    /\ held \in Frames
    /\ gk \in {"off", "wait", "add", "reply"}

FlagType == allOk \in BOOLEAN /\ early \in BOOLEAN /\ msg4Lost \in BOOLEAN

FwType == fw \in [ptk : Nat, gtk : [1..2 -> Nat], port : BOOLEAN]

AirType ==
    /\ eapolCh \in Seq(Frames) /\ Len(eapolCh) <= EapolCap
    /\ uplink \in Seq(Replies)

ApType ==
    /\ ap \in {"wait2", "wait4", "done", "rekey", "gone"}
    /\ anonce \in Nat /\ replay \in Nat
    /\ first \in 1 .. replay /\ replay < first + Tries
    /\ gtk \in 1 .. MaxRekeys + 1 /\ acked \in 0 .. MaxRekeys + 1

FaultType == faults \in 0 .. MaxFaults

TypeInv == StationType /\ FlagType /\ FwType /\ AirType /\ ApType /\ FaultType

(* What the pairwise keys rest on.  The nonce changes only on an empty air, *)
(* so every frame under way carries the current one; and once the access    *)
(* point has accepted message 2 it changes no more.                         *)
AirKeys ==
    \A i \in 1 .. Len(eapolCh) : /\ eapolCh[i].key = anonce
                                 /\ eapolCh[i].kind # "msg1" => ap # "wait2"

StaKeys ==
    /\ ptk = kck
    /\ sta \in {"addPtk", "addGtk", "openPort", "done"} => ptk = anonce /\ ap # "wait2"
    /\ gk \in {"wait", "add"} => sta = "done"
    /\ gk = "reply" => sta \in {"done", "cancelled"}

FwKeys ==
    /\ sta \in {"addGtk", "openPort"} /\ allOk => fw.ptk = ptk
    /\ sta = "done" => fw.ptk = ptk /\ fw.port = TRUE

KeyInv == AirKeys /\ StaKeys /\ FwKeys

(* What the group keys rest on.  Frames arrive in order, so the one held is *)
(* never newer than one under way; a frame with an outstanding counter      *)
(* carries the newest key, and so did the frame an answer with such a       *)
(* counter was given to.                                                    *)
Current(r) == r >= first

HeldGroup ==
    /\ held.gtk <= gtk /\ held.replay <= replay
    /\ Current(held.replay) => held.gtk = gtk

AirGroup ==
    \A i \in 1 .. Len(eapolCh) :
        /\ held.gtk <= eapolCh[i].gtk /\ eapolCh[i].gtk <= gtk
        /\ eapolCh[i].replay <= replay
        /\ Current(eapolCh[i].replay) => eapolCh[i].gtk = gtk
        /\ \A j \in 1 .. i : eapolCh[j].gtk <= eapolCh[i].gtk

UpGroup ==
    \A i \in 1 .. Len(uplink) :
        /\ uplink[i].replay <= replay
        /\ uplink[i].kind # "msg2" /\ Current(uplink[i].replay) => held.gtk = gtk
        /\ uplink[i].kind = "reply" /\ Current(uplink[i].replay) => fw.gtk[Index(gtk)] = gtk

FwGroup ==
    /\ gk = "reply" => fw.gtk[Index(held.gtk)] = held.gtk
    /\ AckedIsInstalled

ApGroup ==
    /\ acked <= held.gtk /\ gtk <= acked + 1
    /\ ap = "done" => acked = gtk
    /\ ap \in {"wait2", "wait4"} => gtk = 1

GroupInv == HeldGroup /\ AirGroup /\ UpGroup /\ FwGroup /\ ApGroup

-----------------------------------------------------------------------------
(* What the ends of a queue do to its elements. *)
LEMMA Pushed ==
    ASSUME NEW S, NEW q \in Seq(S), NEW f \in S
    PROVE  /\ Append(q, f) \in Seq(S) /\ Len(Append(q, f)) = Len(q) + 1
           /\ \A i \in 1 .. Len(q) + 1 : Append(q, f)[i] = IF i <= Len(q) THEN q[i] ELSE f
OBVIOUS

LEMMA Popped ==
    ASSUME NEW S, NEW q \in Seq(S), q # << >>
    PROVE  /\ Tail(q) \in Seq(S) /\ Len(Tail(q)) = Len(q) - 1 /\ Len(q) \in Nat \ {0}
           /\ Head(q) \in S /\ Head(q) = q[1]
           /\ \A i \in 1 .. Len(q) - 1 : Tail(q)[i] = q[i + 1]
OBVIOUS

LEMMA Elements ==
    ASSUME NEW S, NEW q \in Seq(S)
    PROVE  \A i \in 1 .. Len(q) : q[i] \in S
OBVIOUS

(* Neighbouring group keys have different indexes. *)
LEMMA IndexDiffers ==
    ASSUME NEW g \in Nat
    PROVE  Index(g) \in 1..2 /\ Index(g + 1) # Index(g)
BY DEF Index

LEMMA TypeParts == TypeInv => TypeOK
<1> SUFFICES ASSUME TypeInv PROVE TypeOK
  OBVIOUS
<1>1. StationType /\ FlagType /\ FwType /\ AirType /\ ApType /\ FaultType
  BY Zenon DEF TypeInv
<1>2. QED
  BY Zenon, <1>1 DEF TypeOK, StationType, FlagType, FwType, AirType, ApType, FaultType

(* the flags on their own: TLAPS' arithmetic provers do not see Booleans     *)
LEMMA FlagStep ==
    ASSUME FlagType, [Next]_vars
    PROVE  FlagType'
<1>1. CASE UNCHANGED vars
  BY Zenon, <1>1 DEF vars, station, ghosts, FlagType
<1>2. CASE AccessPoint
  <2>1. UNCHANGED allOk /\ UNCHANGED early /\ UNCHANGED msg4Lost
    BY Zenon, <1>2 DEF AccessPoint, ApRepeat, ApGiveUp, ApTakeMsg2, ApTakeAnswer, ApIgnore,
                       ApRekey, station, ghosts
  <2>2. QED
    BY Zenon, <2>1 DEF FlagType
<1>3. CASE Handshake
  <2>1. CASE Preopen
    BY Zenon, <2>1 DEF Preopen, FlagType
  <2>2. CASE TakeMsg1
    BY Zenon, <2>2 DEF TakeMsg1, FlagType
  <2>3. CASE TakeMsg3
    BY Zenon, <2>3 DEF TakeMsg3, FlagType
  <2>4. CASE Ignore
    BY Zenon, <2>4 DEF Ignore, station, ghosts, FlagType
  <2>5. CASE AddPtk \/ AddGtk
    BY Zenon, <2>5 DEF AddPtk, AddGtk, Install, FlagType
  <2>6. CASE OpenPort
    BY Zenon, <2>6 DEF OpenPort, FlagType
  <2>7. QED
    BY Zenon, <1>3, <2>1, <2>2, <2>3, <2>4, <2>5, <2>6 DEF Handshake
<1>4. CASE Timeout
  BY Zenon, <1>4 DEF Timeout, FlagType
<1>5. CASE Cancel
  BY Zenon, <1>5 DEF Cancel, ghosts, FlagType
<1>6. CASE GroupKey
  BY Zenon, <1>6 DEF GroupKey, TakeGroup, GroupAdd, GroupReply, station, FlagType
<1>7. QED
  BY Zenon, <1>1, <1>2, <1>3, <1>4, <1>5, <1>6 DEF Next

(* A command, carried out or not, changes the port, the pairwise key or the *)
(* group key at the index of the held frame.                                *)
LEMMA Commanded ==
    ASSUME StationType, FwType, fw' \in {fw, WithCommand}
    PROVE  /\ FwType'
           /\ \/ fw'.gtk = fw.gtk
              \/ fw'.gtk = [fw.gtk EXCEPT ![Index(held.gtk)] = held.gtk]
<1>1. held.gtk \in Nat /\ Index(held.gtk) \in 1..2
  BY IndexDiffers DEF StationType, Frames
<1>2. QED
  BY <1>1 DEF WithCommand, WithGtk, FwType, StationType

LEMMA InitType == Init => TypeInv
<1> SUFFICES ASSUME Init PROVE TypeInv
  OBVIOUS
<1>1. FlagType
  BY Zenon DEF Init, FlagType
<1>2. StationType /\ FwType /\ ApType /\ FaultType
  BY KeyAssumption DEF Init, StationType, FwType, ApType, FaultType, Working, Frames
<1>3. AirType
  BY KeyAssumption DEF Init, AirType, Frames
<1>4. QED
  BY <1>1, <1>2, <1>3 DEF TypeInv

LEMMA ToStationType ==
    ASSUME AirType, FaultType, NEW f \in Frames, ToStation(f)
    PROVE  eapolCh' \in Seq(Frames) /\ Len(eapolCh') <= EapolCap /\ FaultType'
<1>1. CASE Len(eapolCh) < EapolCap /\ eapolCh' = Append(eapolCh, f) /\ UNCHANGED faults
  <2>1. Append(eapolCh, f) \in Seq(Frames) /\ Len(Append(eapolCh, f)) = Len(eapolCh) + 1
    BY Pushed DEF AirType
  <2>2. QED
    BY <1>1, <2>1, KeyAssumption DEF AirType, FaultType
<1>2. CASE Fault /\ UNCHANGED eapolCh
  BY <1>2, KeyAssumption DEF AirType, FaultType, Fault
<1>3. QED
  BY <1>1, <1>2 DEF ToStation

LEMMA AccessPointType ==
    ASSUME TypeInv, AccessPoint
    PROVE  StationType' /\ FwType' /\ AirType' /\ ApType' /\ FaultType'
<1> USE KeyAssumption DEF TypeInv
<1>1. CASE ApRepeat
  <2>1. StationType' /\ FwType' /\ ApType'
    BY <1>1 DEF ApRepeat, station, StationType, FwType, ApType
  <2>2. Down(Message) \in Frames
    BY <1>1, <2>1 DEF ApRepeat, Down, Message, Frames, ApType
  <2>3. QED
    BY <1>1, <2>1, <2>2, ToStationType DEF ApRepeat, AirType
<1>2. CASE ApGiveUp
  BY <1>2 DEF ApGiveUp, station, air, ghosts, StationType, FwType, AirType, ApType, FaultType
<1>3. CASE ApTakeMsg2
  <2>1. StationType' /\ FwType' /\ ApType'
    BY <1>3 DEF ApTakeMsg2, station, StationType, FwType, ApType
  <2>2. Down("msg3") \in Frames
    BY <2>1 DEF Down, Frames, ApType
  <2>3. Tail(uplink) \in Seq(Replies)
    BY <1>3, Popped DEF ApTakeMsg2, AirType
  <2>4. QED
    BY <1>3, <2>1, <2>2, <2>3, ToStationType DEF ApTakeMsg2, AirType
<1>4. CASE ApTakeAnswer
  <2>1. Tail(uplink) \in Seq(Replies)
    BY <1>4, Popped DEF ApTakeAnswer, AirType
  <2>2. QED
    BY <1>4, <2>1 DEF ApTakeAnswer, station, ghosts, StationType, FwType, AirType, ApType,
                      FaultType
<1>5. CASE ApIgnore
  <2>1. Tail(uplink) \in Seq(Replies)
    BY <1>5, Popped DEF ApIgnore, AirType
  <2>2. QED
    BY <1>5, <2>1 DEF ApIgnore, station, accessPoint, ghosts, StationType, FwType, AirType,
                      ApType, FaultType
<1>6. CASE ApRekey
  <2>1. StationType' /\ FwType' /\ ApType'
    BY <1>6 DEF ApRekey, station, StationType, FwType, ApType
  <2>2. Down("group") \in Frames
    BY <2>1 DEF Down, Frames, ApType
  <2>3. QED
    BY <1>6, <2>1, <2>2, ToStationType DEF ApRekey, AirType
<1>7. QED
  BY Zenon, <1>1, <1>2, <1>3, <1>4, <1>5, <1>6 DEF AccessPoint

LEMMA TakeType ==
    ASSUME AirType, eapolCh # << >>, Take
    PROVE  /\ held' \in Frames /\ held' = eapolCh[1]
           /\ eapolCh' \in Seq(Frames) /\ Len(eapolCh') = Len(eapolCh) - 1
           /\ Len(eapolCh) \in Nat \ {0}
           /\ \A i \in 1 .. Len(eapolCh) - 1 : eapolCh'[i] = eapolCh[i + 1]
BY Popped DEF Take, AirType

LEMMA SendType ==
    ASSUME AirType, FaultType, held' \in Frames, kck' \in Nat,
           NEW kind \in {"msg2", "msg4", "reply"},
           Arrives(Up(kind)) \/ IsLost
    PROVE  uplink' \in Seq(Replies) /\ FaultType'
<1>1. Up(kind) \in Replies
  BY DEF Up, Replies, Frames
<1>2. CASE Arrives(Up(kind))
  BY <1>1, <1>2, Pushed DEF Arrives, AirType, FaultType
<1>3. CASE IsLost
  BY <1>3, KeyAssumption DEF IsLost, Fault, AirType, FaultType
<1>4. QED
  BY <1>2, <1>3

LEMMA StationStepType ==
    ASSUME TypeInv, Handshake \/ Timeout \/ Cancel \/ GroupKey
    PROVE  StationType' /\ FwType' /\ AirType' /\ ApType' /\ FaultType'
<1> USE KeyAssumption DEF TypeInv
<1>1. CASE Preopen
  BY <1>1, Commanded DEF Preopen, Submit, Fault, air, accessPoint, StationType, AirType, ApType,
                         FaultType, Working
<1>2. CASE TakeMsg1
  <2>1. eapolCh # << >> /\ Take
    BY <1>2 DEF TakeMsg1, Got
  <2>2. StationType' /\ FwType' /\ ApType'
    BY <1>2, <2>1, TakeType
       DEF TakeMsg1, StationType, FwType, ApType, accessPoint, Frames, Working, Ended
  <2>3. uplink' \in Seq(Replies) /\ FaultType'
    <3>1. CASE Arrives(Up("msg2")) \/ IsLost
      BY <3>1, <2>2, SendType DEF StationType
    <3>2. CASE UNCHANGED uplink /\ Fault
      BY <3>2 DEF AirType, FaultType, Fault
    <3>3. QED
      BY <1>2, <3>1, <3>2 DEF TakeMsg1
  <2>4. QED
    BY <2>1, <2>2, <2>3, TakeType DEF AirType
<1>3. CASE TakeMsg3
  <2>1. eapolCh # << >> /\ Take
    BY <1>3 DEF TakeMsg3, Got
  <2>2. StationType' /\ FwType' /\ ApType'
    BY <1>3, <2>1, TakeType
       DEF TakeMsg3, StationType, FwType, ApType, accessPoint, Working, Ended
  <2>3. uplink' \in Seq(Replies) /\ FaultType'
    <3>1. CASE Arrives(Up("msg4")) \/ IsLost
      BY <3>1, <2>2, SendType DEF StationType
    <3>2. CASE UNCHANGED uplink /\ Fault
      BY <3>2 DEF AirType, FaultType, Fault
    <3>3. QED
      BY <1>3, <3>1, <3>2 DEF TakeMsg3
  <2>4. QED
    BY <2>1, <2>2, <2>3, TakeType DEF AirType
<1>4. CASE Ignore
  <2>1. Tail(eapolCh) \in Seq(Frames) /\ Len(Tail(eapolCh)) <= EapolCap
    BY <1>4, Popped DEF Ignore, AirType
  <2>2. QED
    BY <1>4, <2>1 DEF Ignore, station, accessPoint, ghosts, StationType, FwType, AirType,
                      ApType, FaultType
<1>5. CASE AddPtk \/ AddGtk
  <2>1. /\ sta' \in {"addGtk", "openPort"}
        /\ UNCHANGED <<ptk, kck, held, gk, air, accessPoint>>
    BY <1>5 DEF AddPtk, AddGtk, Install
  <2>2. fw' \in {fw, WithCommand} /\ FaultType'
    <3>1. PICK ok \in BOOLEAN : Submit(ok)
      BY Zenon, <1>5 DEF AddPtk, AddGtk, Install
    <3>2. QED
      BY <3>1 DEF Submit, Fault, FaultType
  <2>3. QED
    BY <2>1, <2>2, Commanded DEF air, accessPoint, StationType, AirType, ApType, Working
<1>6. CASE OpenPort
  <2>1. /\ sta' \in {"done", "keysFailed"} /\ gk' \in {"wait", "off"}
        /\ UNCHANGED <<ptk, kck, held, air, accessPoint>>
    BY Zenon, <1>6 DEF OpenPort
  <2>2. fw' \in {fw, WithCommand} /\ FaultType'
    <3>1. PICK ok \in BOOLEAN : Submit(ok)
      BY Zenon, <1>6 DEF OpenPort
    <3>2. QED
      BY <3>1 DEF Submit, Fault, FaultType
  <2>3. QED
    BY <2>1, <2>2, Commanded DEF air, accessPoint, StationType, AirType, ApType, Ended
<1>7. CASE Timeout
  BY <1>7 DEF Timeout, air, accessPoint, StationType, FwType, AirType, ApType, FaultType, Ended
<1>8. CASE Cancel
  BY <1>8, Commanded DEF Cancel, air, accessPoint, ghosts, StationType, AirType, ApType,
                         FaultType, Ended
<1>9. CASE TakeGroup
  <2>1. eapolCh # << >> /\ Take
    BY <1>9 DEF TakeGroup, Got
  <2>2. QED
    BY <1>9, <2>1, TakeType DEF TakeGroup, Fault, StationType, FwType, AirType, ApType,
                                FaultType, accessPoint
<1>10. CASE GroupAdd
  BY <1>10, Commanded DEF GroupAdd, Submit, Fault, station, air, accessPoint, StationType,
                          AirType, ApType, FaultType
<1>11. CASE GroupReply
  <2>1. StationType' /\ FwType' /\ ApType'
    BY <1>11 DEF GroupReply, station, accessPoint, StationType, FwType, ApType
  <2>2. QED
    BY <1>11, <2>1, SendType DEF GroupReply, StationType, AirType
<1>12. QED
  BY Zenon, <1>1, <1>2, <1>3, <1>4, <1>5, <1>6, <1>7, <1>8, <1>9, <1>10, <1>11
     DEF Handshake, GroupKey

LEMMA TypeStep == TypeInv /\ [Next]_vars => TypeInv'
<1> SUFFICES ASSUME TypeInv, [Next]_vars PROVE TypeInv'
  OBVIOUS
<1>1. FlagType'
  BY FlagStep DEF TypeInv
<1>2. CASE AccessPoint
  BY <1>1, <1>2, AccessPointType DEF TypeInv
<1>3. CASE Handshake \/ Timeout \/ Cancel \/ GroupKey
  BY <1>1, <1>3, StationStepType DEF TypeInv
<1>4. CASE UNCHANGED vars
  BY <1>1, <1>4 DEF vars, station, air, accessPoint, ghosts, TypeInv, StationType, FwType,
                    AirType, ApType, FaultType
<1>5. QED
  BY Zenon, <1>2, <1>3, <1>4 DEF Next

(* Every reachable state is well typed, and eapolCh never holds more than   *)
(* its capacity, whatever the access point sends.                           *)
THEOREM TypeCorrect == Spec => []TypeOK
<1>1. Init => TypeInv
  BY InitType
<1>2. TypeInv /\ [Next]_vars => TypeInv'
  BY TypeStep
<1>3. TypeInv => TypeOK
  BY TypeParts
<1>4. QED
  BY <1>1, <1>2, <1>3, PTL DEF Spec

-----------------------------------------------------------------------------
LEMMA ToStationElements ==
    ASSUME AirType, NEW f \in Frames, ToStation(f)
    PROVE  \/ UNCHANGED eapolCh
           \/ /\ Len(eapolCh') = Len(eapolCh) + 1
              /\ \A i \in 1 .. Len(eapolCh) : eapolCh'[i] = eapolCh[i]
              /\ eapolCh'[Len(eapolCh) + 1] = f
              /\ Len(eapolCh) \in Nat
<1>1. CASE Len(eapolCh) < EapolCap /\ eapolCh' = Append(eapolCh, f) /\ UNCHANGED faults
  <2>1. /\ Len(Append(eapolCh, f)) = Len(eapolCh) + 1 /\ Len(eapolCh) \in Nat
        /\ \A i \in 1 .. Len(eapolCh) + 1 :
              Append(eapolCh, f)[i] = IF i <= Len(eapolCh) THEN eapolCh[i] ELSE f
    BY Pushed DEF AirType
  <2>2. QED
    BY <1>1, <2>1
<1>2. CASE Fault /\ UNCHANGED eapolCh
  BY <1>2
<1>3. QED
  BY <1>1, <1>2 DEF ToStation

LEMMA InitKeys == Init => KeyInv
<1> SUFFICES ASSUME Init PROVE KeyInv
  OBVIOUS
<1>1. Len(eapolCh) = 1 /\ eapolCh[1].key = 1 /\ eapolCh[1].kind = "msg1"
  BY DEF Init
<1>2. AirKeys
  BY <1>1 DEF Init, AirKeys
<1>3. QED
  BY <1>2 DEF Init, KeyInv, StaKeys, FwKeys

LEMMA AccessPointKeys ==
    ASSUME TypeInv, TypeInv', KeyInv, AccessPoint
    PROVE  KeyInv'
<1> USE DEF TypeInv, KeyInv
<1>1. FwKeys'
  <2>1. UNCHANGED <<sta, allOk, fw, ptk>>
    BY DEF AccessPoint, ApRepeat, ApGiveUp, ApTakeMsg2, ApTakeAnswer, ApIgnore, ApRekey, station
  <2>2. QED
    BY Zenon, <2>1 DEF FwKeys
<1>2. CASE ApRepeat
  <2>1. Down(Message) \in Frames /\ Down(Message).key = anonce'
        /\ (Down(Message).kind # "msg1" => ap # "wait2")
    BY <1>2 DEF ApRepeat, Down, Message, Frames, ApType
  <2>2. anonce' = anonce \/ (ap = "wait2" /\ eapolCh = << >>)
    BY <1>2 DEF ApRepeat, Quiet
  <2>3. AirKeys'
    <3>1. CASE eapolCh = << >> /\ anonce' # anonce
      BY <1>2, <2>1, <3>1, ToStationElements DEF ApRepeat, AirKeys, AirType
    <3>2. CASE anonce' = anonce
      BY <1>2, <2>1, <3>2, ToStationElements DEF ApRepeat, AirKeys, AirType
    <3>3. QED
      BY <2>2, <3>1, <3>2
  <2>4. StaKeys'
    BY <1>2, <2>2 DEF ApRepeat, StaKeys, station
  <2>5. QED
    BY <1>1, <2>3, <2>4
<1>3. CASE ApTakeMsg2
  <2>1. Down("msg3") \in Frames /\ Down("msg3").key = anonce'
    BY DEF Down, Frames, ApType
  <2>2. AirKeys'
    BY <1>3, <2>1, ToStationElements DEF ApTakeMsg2, AirKeys, AirType
  <2>3. QED
    BY <1>1, <1>3, <2>2 DEF ApTakeMsg2, StaKeys, station
<1>4. CASE ApRekey
  <2>1. Down("group") \in Frames /\ Down("group").key = anonce'
    BY DEF Down, Frames, ApType
  <2>2. ToStation(Down("group")) /\ UNCHANGED anonce /\ ap' # "wait2" /\ ap # "wait2"
    BY <1>4 DEF ApRekey
  <2>3. AirKeys'
    BY <2>1, <2>2, ToStationElements DEF AirKeys
  <2>4. QED
    BY <1>1, <1>4, <2>3 DEF ApRekey, StaKeys, station
<1>5. CASE ApGiveUp \/ ApTakeAnswer \/ ApIgnore
  BY <1>1, <1>5 DEF ApGiveUp, ApTakeAnswer, ApIgnore, AirKeys, StaKeys, station, air, accessPoint
<1>6. QED
  BY Zenon, <1>2, <1>3, <1>4, <1>5 DEF AccessPoint

LEMMA StationKeys ==
    ASSUME TypeInv, TypeInv', KeyInv, Handshake \/ Timeout \/ Cancel \/ GroupKey
    PROVE  KeyInv'
<1> USE DEF TypeInv, KeyInv
<1>1. UNCHANGED <<ap, anonce>>
  BY DEF Handshake, Preopen, TakeMsg1, TakeMsg3, Ignore, AddPtk, AddGtk, Install, OpenPort,
         Timeout, Cancel, GroupKey, TakeGroup, GroupAdd, GroupReply, accessPoint
<1>2. AirKeys'
  <2>1. CASE UNCHANGED eapolCh
    BY <1>1, <2>1 DEF AirKeys
  <2>2. CASE eapolCh # << >> /\ eapolCh' = Tail(eapolCh)
    BY <1>1, <2>2, Popped DEF AirKeys, AirType
  <2>3. QED
    BY <2>1, <2>2 DEF Handshake, Preopen, TakeMsg1, TakeMsg3, Ignore, AddPtk, AddGtk, Install,
       OpenPort, Timeout, Cancel, GroupKey, TakeGroup, GroupAdd, GroupReply, Take, Got, air
<1>3. StaKeys' /\ FwKeys'
  <2>1. CASE Preopen
    BY <1>1, <2>1 DEF Preopen, StaKeys, FwKeys
  <2>2. CASE TakeMsg1
    BY <1>1, <2>2 DEF TakeMsg1, StaKeys, FwKeys
  <2>3. CASE TakeMsg3
    <3>1. Head(eapolCh).key = anonce /\ ap # "wait2" /\ kck = anonce
      BY <2>3, Popped DEF TakeMsg3, Got, Verified, AirKeys, AirType
    <3>2. QED
      BY <1>1, <2>3, <3>1 DEF TakeMsg3, StaKeys, FwKeys
  <2>4. CASE Ignore
    <3>1. UNCHANGED <<sta, ptk, kck, allOk, gk, fw>>
      BY <2>4 DEF Ignore, station
    <3>2. QED
      BY Zenon, <1>1, <3>1 DEF StaKeys, FwKeys
  <2>5. CASE AddPtk
    <3>1. /\ sta = "addPtk" /\ sta' = "addGtk"
          /\ UNCHANGED <<ptk, kck, gk>>
      BY <2>5 DEF AddPtk, Install
    <3>2. PICK ok \in BOOLEAN : Submit(ok) /\ allOk' = (allOk /\ ok)
      BY Zenon, <2>5 DEF AddPtk, Install
    <3>3. ok => fw' = WithCommand
      BY Zenon, <3>2 DEF Submit
    <3>4. WithCommand.ptk = ptk
      BY <3>1 DEF WithCommand, FwType, StaKeys
    <3>5. allOk' => fw'.ptk = ptk'
      BY Zenon, <3>1, <3>2, <3>3, <3>4
    <3>6. QED
      BY <1>1, <3>1, <3>5 DEF StaKeys, FwKeys
  <2>6. CASE AddGtk
    <3>1. /\ sta = "addGtk" /\ sta' = "openPort"
          /\ UNCHANGED <<ptk, kck, gk>>
      BY <2>6 DEF AddGtk, Install
    <3>2. PICK ok \in BOOLEAN : Submit(ok) /\ allOk' = (allOk /\ ok)
      BY Zenon, <2>6 DEF AddGtk, Install
    <3>3. fw'.ptk = fw.ptk
      BY <3>1, <3>2 DEF Submit, WithCommand, WithGtk, FwType
    <3>4. allOk' => allOk
      BY Zenon, <3>2
    <3>5. QED
      BY <1>1, <3>1, <3>3, <3>4 DEF StaKeys, FwKeys
  <2>7. CASE OpenPort
    <3>1. sta = "openPort" /\ UNCHANGED <<ptk, kck>>
      BY <2>7 DEF OpenPort
    <3>2. PICK ok \in BOOLEAN : Submit(ok) /\ allOk' = (allOk /\ ok)
      BY Zenon, <2>7 DEF OpenPort
    <3>3. fw' \in {fw, WithCommand} /\ (ok => fw' = WithCommand)
      BY Zenon, <3>2 DEF Submit
    <3>4. WithCommand = [fw EXCEPT !.port = TRUE]
      BY <3>1 DEF WithCommand, StaKeys
    <3>5. fw'.ptk = fw.ptk /\ (ok => fw'.port)
      BY <3>3, <3>4 DEF FwType
    <3>6. CASE allOk'
      <4>1. allOk /\ ok
        BY Zenon, <3>2, <3>6
      <4>2. sta' = "done" /\ gk' = "wait"
        BY Zenon, <2>7, <3>6 DEF OpenPort
      <4>3. QED
        BY <1>1, <3>1, <3>5, <4>1, <4>2 DEF StaKeys, FwKeys
    <3>7. CASE ~allOk'
      <4>1. sta' = "keysFailed" /\ gk' = "off"
        BY Zenon, <2>7, <3>7 DEF OpenPort
      <4>2. QED
        BY <1>1, <3>1, <4>1 DEF StaKeys, FwKeys
    <3>8. QED
      BY <3>6, <3>7
  <2>8. CASE Timeout
    BY <1>1, <2>8 DEF Timeout, StaKeys, FwKeys
  <2>9. CASE Cancel
    BY <1>1, <2>9 DEF Cancel, StaKeys, FwKeys
  <2>10. CASE TakeGroup
    BY <1>1, <2>10 DEF TakeGroup, StaKeys, FwKeys
  <2>11. CASE GroupAdd
    <3>1. /\ sta = "done" /\ gk = "add" /\ gk' \in {"reply", "wait"}
          /\ UNCHANGED <<sta, ptk, kck>> /\ fw' \in {fw, WithCommand}
      BY <2>11 DEF GroupAdd, station, Submit, StaKeys
    <3>2. fw'.ptk = fw.ptk /\ fw'.port = fw.port
      BY <3>1 DEF WithCommand, WithGtk, FwType
    <3>3. QED
      BY <1>1, <3>1, <3>2 DEF StaKeys, FwKeys
  <2>12. CASE GroupReply
    BY <1>1, <2>12 DEF GroupReply, station, StaKeys, FwKeys
  <2>13. QED
    BY Zenon, <2>1, <2>2, <2>3, <2>4, <2>5, <2>6, <2>7, <2>8, <2>9, <2>10, <2>11, <2>12
       DEF Handshake, GroupKey
<1>4. QED
  BY <1>2, <1>3

LEMMA KeyStep == TypeInv /\ KeyInv /\ [Next]_vars => KeyInv'
<1> SUFFICES ASSUME TypeInv, KeyInv, [Next]_vars PROVE KeyInv'
  OBVIOUS
<1>1. TypeInv'
  BY TypeStep
<1>2. CASE UNCHANGED vars
  BY <1>2 DEF vars, station, air, accessPoint, KeyInv, AirKeys, StaKeys, FwKeys
<1>3. CASE Next
  BY Zenon, <1>1, <1>3, AccessPointKeys, StationKeys DEF Next
<1>4. QED
  BY <1>2, <1>3

-----------------------------------------------------------------------------
LEMMA InitGroup == Init => GroupInv
<1> SUFFICES ASSUME Init PROVE GroupInv
  OBVIOUS
<1>1. Len(eapolCh) = 1 /\ eapolCh[1].gtk = 1 /\ eapolCh[1].replay = 1 /\ Len(uplink) = 0
  BY DEF Init
<1>2. AirGroup /\ UpGroup
  BY <1>1 DEF Init, AirGroup, UpGroup
<1>3. HeldGroup /\ FwGroup
  BY DEF Init, HeldGroup, Current, FwGroup, AckedIsInstalled
<1>4. ap = "wait2" /\ gtk = 1 /\ acked = 0 /\ held.gtk = 0
  BY DEF Init
<1>5. ApGroup
  BY <1>4 DEF ApGroup
<1>6. QED
  BY <1>2, <1>3, <1>5 DEF GroupInv

(* The access point takes nothing, or the first frame, from its queue.      *)
Answered == uplink' = uplink \/ (uplink # << >> /\ uplink' = Tail(uplink))

LEMMA AnsweredGroup ==
    ASSUME TypeInv, GroupInv, Answered, UNCHANGED <<held, fw, replay, first, gtk>>
    PROVE  UpGroup'
<1>1. CASE uplink' = uplink
  BY <1>1 DEF GroupInv, UpGroup, Current
<1>2. CASE uplink # << >> /\ uplink' = Tail(uplink)
  BY <1>2, Popped DEF TypeInv, AirType, GroupInv, UpGroup, Current
<1>3. QED
  BY <1>1, <1>2 DEF Answered

(* The access point sends a message: none of the counters it still accepts  *)
(* belongs to an older group key.                                           *)
LEMMA SentGroup ==
    ASSUME TypeInv, TypeInv', GroupInv, Answered,
           UNCHANGED <<held, gk, fw, acked>>,
           NEW f \in Frames, f.gtk = gtk', f.replay = replay', ToStation(f),
           gtk <= gtk', replay <= replay',
           first <= first', gtk' = gtk \/ first' > replay
    PROVE  HeldGroup' /\ AirGroup' /\ UpGroup' /\ FwGroup'
<1>a. HeldGroup /\ AirGroup /\ UpGroup /\ FwGroup /\ AirType
  BY Zenon DEF GroupInv, TypeInv
<1>b. held' = held /\ gk' = gk /\ fw' = fw /\ acked' = acked
  OBVIOUS
<1>1. held.gtk \in Nat /\ held.replay \in Nat /\ gtk \in Nat /\ replay \in Nat
      /\ gtk' \in Nat /\ replay' \in Nat /\ first \in Nat /\ first' \in Nat
  BY KeyAssumption DEF TypeInv, StationType, ApType, Frames
<1>2. HeldGroup'
  BY <1>a, <1>b, <1>1 DEF HeldGroup, Current
<1>3. \A i \in 1 .. Len(eapolCh) : eapolCh[i].gtk \in Nat /\ eapolCh[i].replay \in Nat
  <2>1. \A i \in 1 .. Len(eapolCh) : eapolCh[i] \in Frames
    BY <1>a, Elements DEF AirType
  <2>2. QED
    BY <2>1 DEF Frames
<1>4. AirGroup'
  <2>1. CASE UNCHANGED eapolCh
    BY <1>a, <1>b, <1>1, <1>3, <2>1 DEF AirGroup, Current
  <2>2. CASE /\ Len(eapolCh') = Len(eapolCh) + 1
             /\ \A i \in 1 .. Len(eapolCh) : eapolCh'[i] = eapolCh[i]
             /\ eapolCh'[Len(eapolCh) + 1] = f
             /\ Len(eapolCh) \in Nat
    <3> SUFFICES ASSUME NEW i \in 1 .. Len(eapolCh')
                 PROVE  /\ held.gtk <= eapolCh'[i].gtk /\ eapolCh'[i].gtk <= gtk'
                        /\ eapolCh'[i].replay <= replay'
                        /\ eapolCh'[i].replay >= first' => eapolCh'[i].gtk = gtk'
                        /\ \A j \in 1 .. i : eapolCh'[j].gtk <= eapolCh'[i].gtk
      BY <1>b DEF AirGroup, Current
    <3>1. CASE i <= Len(eapolCh)
      <4>1. i \in 1 .. Len(eapolCh) /\ eapolCh'[i] = eapolCh[i]
        BY <2>2, <3>1
      <4>2. \A j \in 1 .. i : j \in 1 .. Len(eapolCh) /\ eapolCh'[j] = eapolCh[j]
        BY <2>2, <3>1
      <4>3. /\ held.gtk <= eapolCh[i].gtk /\ eapolCh[i].gtk <= gtk
            /\ eapolCh[i].replay <= replay
            /\ eapolCh[i].replay >= first => eapolCh[i].gtk = gtk
            /\ \A j \in 1 .. i : eapolCh[j].gtk <= eapolCh[i].gtk
        BY <1>a, <4>1 DEF AirGroup, Current
      <4>4. eapolCh[i].gtk \in Nat /\ eapolCh[i].replay \in Nat
        BY <1>3, <4>1
      <4>5. /\ eapolCh[i].gtk <= gtk' /\ eapolCh[i].replay <= replay'
            /\ eapolCh[i].replay >= first' => eapolCh[i].gtk = gtk'
        BY <1>1, <4>3, <4>4
      <4>6. QED
        BY <4>1, <4>2, <4>3, <4>5
    <3>2. CASE i = Len(eapolCh) + 1
      BY <1>a, <1>1, <1>3, <2>2, <3>2 DEF AirGroup, HeldGroup
    <3>3. QED
      BY <2>2, <3>1, <3>2
  <2>3. QED
    BY <2>1, <2>2, ToStationElements DEF TypeInv
<1>5. UpGroup'
  <2>1. \A i \in 1 .. Len(uplink) : uplink[i].replay \in Nat
    <3>1. \A i \in 1 .. Len(uplink) : uplink[i] \in Replies
      BY <1>a, Elements DEF AirType
    <3>2. QED
      BY <3>1 DEF Replies
  <2>2. CASE uplink' = uplink
    BY <1>a, <1>b, <1>1, <2>1, <2>2 DEF UpGroup, Current
  <2>3. CASE uplink # << >> /\ uplink' = Tail(uplink)
    <3>1. /\ Len(uplink') = Len(uplink) - 1 /\ Len(uplink) \in Nat
          /\ \A i \in 1 .. Len(uplink) - 1 : uplink'[i] = uplink[i + 1]
      BY <2>3, Popped DEF TypeInv, AirType
    <3>2. ASSUME NEW i \in 1 .. Len(uplink')
          PROVE  /\ uplink'[i].replay <= replay'
                 /\ uplink'[i].kind # "msg2" /\ uplink'[i].replay >= first' => held.gtk = gtk'
                 /\ uplink'[i].kind = "reply" /\ uplink'[i].replay >= first'
                       => fw.gtk[Index(gtk')] = gtk'
      <4>1. i + 1 \in 1 .. Len(uplink) /\ uplink'[i] = uplink[i + 1]
        BY <3>1
      <4>2. uplink[i + 1].replay \in Nat /\ uplink[i + 1].replay <= replay
        BY <1>a, <2>1, <4>1 DEF UpGroup
      <4>3. uplink[i + 1].replay >= first'
              => uplink[i + 1].replay >= first /\ gtk' = gtk
        BY <1>1, <4>2
      <4>4. QED
        BY <1>a, <1>1, <4>1, <4>2, <4>3 DEF UpGroup, Current
    <3>3. QED
      BY <1>b, <3>2 DEF UpGroup, Current
  <2>4. QED
    BY <2>2, <2>3 DEF Answered
<1>6. FwGroup'
  BY <1>a, <1>b DEF FwGroup, AckedIsInstalled
<1>7. QED
  BY <1>2, <1>4, <1>5, <1>6

LEMMA AccessPointGroup ==
    ASSUME TypeInv, TypeInv', GroupInv, AccessPoint
    PROVE  GroupInv'
<1>1. held.gtk \in Nat /\ gtk \in Nat /\ first <= replay /\ replay \in Nat /\ first \in Nat /\ acked \in Nat
  BY KeyAssumption DEF TypeInv, StationType, ApType, Frames
<1>2. CASE ApRepeat
  <2>1. Down(Message) \in Frames /\ Down(Message).gtk = gtk' /\ Down(Message).replay = replay'
    BY <1>2 DEF ApRepeat, Down, Message, Frames, TypeInv, ApType
  <2>2. first' = first /\ gtk' = gtk /\ replay <= replay'
    BY <1>1, <1>2 DEF ApRepeat
  <2>3. HeldGroup' /\ AirGroup' /\ UpGroup' /\ FwGroup'
    BY <1>1, <1>2, <2>1, <2>2, SentGroup DEF ApRepeat, Answered, station
  <2>4. QED
    BY <1>2, <2>3 DEF ApRepeat, station, GroupInv, ApGroup
<1>3. CASE ApTakeMsg2
  <2>1. Down("msg3") \in Frames /\ Down("msg3").gtk = gtk' /\ Down("msg3").replay = replay'
    BY DEF Down, Frames, TypeInv, ApType
  <2>2. first' > replay /\ first <= first' /\ replay <= replay' /\ gtk' = gtk
    BY <1>1, <1>3 DEF ApTakeMsg2
  <2>3. HeldGroup' /\ AirGroup' /\ UpGroup' /\ FwGroup'
    BY <1>1, <1>3, <2>1, <2>2, SentGroup DEF ApTakeMsg2, Answered, station
  <2>4. QED
    BY <1>3, <2>3 DEF ApTakeMsg2, station, GroupInv, ApGroup
<1>4. CASE ApRekey
  <2>1. Down("group") \in Frames /\ Down("group").gtk = gtk' /\ Down("group").replay = replay'
    BY DEF Down, Frames, TypeInv, ApType
  <2>2. first' > replay /\ first <= first' /\ replay <= replay' /\ gtk' = gtk + 1
    BY <1>1, <1>4 DEF ApRekey
  <2>3. HeldGroup' /\ AirGroup' /\ UpGroup' /\ FwGroup'
    BY <1>1, <1>4, <2>1, <2>2, SentGroup DEF ApRekey, Answered, station
  <2>4. QED
    BY <1>1, <1>4, <2>2, <2>3 DEF ApRekey, station, GroupInv, ApGroup
<1>5. CASE ApTakeAnswer
  <2>1. Head(uplink) = uplink[1] /\ 1 \in 1 .. Len(uplink) /\ uplink[1].replay \in Nat
    <3>1. uplink # << >> /\ uplink \in Seq(Replies)
      BY <1>5 DEF ApTakeAnswer, TypeInv, AirType
    <3>2. Head(uplink) = uplink[1] /\ 1 \in 1 .. Len(uplink) /\ Head(uplink) \in Replies
      BY <3>1, Popped
    <3>3. QED
      BY <3>2 DEF Replies
  <2>2. /\ uplink[1].replay >= first
        /\ (ap = "wait4" /\ uplink[1].kind = "msg4") \/ (ap = "rekey" /\ uplink[1].kind = "reply")
    <3>1. Expects(uplink[1]) /\ ap \in {"wait4", "rekey"}
      BY <1>5, <2>1 DEF ApTakeAnswer
    <3>2. uplink[1].replay \in first .. replay
      BY <3>1 DEF Expects
    <3>3. (ap = "wait4" /\ uplink[1].kind = "msg4") \/ (ap = "rekey" /\ uplink[1].kind = "reply")
      BY <3>1 DEF Expects
    <3>4. QED
      BY <1>1, <2>1, <3>2, <3>3
  <2>3. held.gtk = gtk /\ (ap = "rekey" => fw.gtk[Index(gtk)] = gtk)
    BY <2>1, <2>2 DEF GroupInv, UpGroup, Current
  <2>4. UpGroup'
    BY <1>5, AnsweredGroup DEF ApTakeAnswer, Answered, station
  <2>5. HeldGroup' /\ AirGroup' /\ ApGroup'
    BY <1>1, <1>5, <2>3 DEF ApTakeAnswer, station, GroupInv, HeldGroup, AirGroup, ApGroup, Current
  <2>6. FwGroup'
    BY <1>1, <1>5, <2>2, <2>3
       DEF ApTakeAnswer, station, GroupInv, FwGroup, ApGroup, AckedIsInstalled
  <2>7. QED
    BY <2>4, <2>5, <2>6 DEF GroupInv
<1>6. CASE ApGiveUp \/ ApIgnore
  <2>1. UpGroup'
    BY <1>6, AnsweredGroup DEF ApGiveUp, ApIgnore, Answered, station, air, accessPoint
  <2>2. QED
    BY <1>6, <2>1 DEF ApGiveUp, ApIgnore, station, air, accessPoint, GroupInv, HeldGroup,
                      AirGroup, FwGroup, ApGroup, Current, AckedIsInstalled
<1>7. QED
  BY Zenon, <1>2, <1>3, <1>4, <1>5, <1>6 DEF AccessPoint

(* What a station's step does to the queues and to the firmware.            *)
Reads ==
    \/ UNCHANGED <<eapolCh, held>>
    \/ eapolCh # << >> /\ eapolCh' = Tail(eapolCh) /\ held' \in {held, Head(eapolCh)}

Installs ==
    \/ fw'.gtk = fw.gtk
    \/ held' = held /\ fw'.gtk = [fw.gtk EXCEPT ![Index(held.gtk)] = held.gtk]

Sends ==
    \/ UNCHANGED uplink
    \/ \E f \in Replies :
          /\ uplink' = Append(uplink, f) /\ f.replay = held'.replay
          /\ f.kind = "reply" => gk = "reply" /\ held' = held /\ fw' = fw

MayReply ==
    gk' = "reply" =>
        /\ held' = held
        /\ \/ gk = "reply" /\ fw' = fw
           \/ fw'.gtk = [fw.gtk EXCEPT ![Index(held.gtk)] = held.gtk]

LEMMA EffectsKeepGroup ==
    ASSUME TypeInv, TypeInv', GroupInv, UNCHANGED accessPoint, Reads, Installs, Sends, MayReply
    PROVE  GroupInv'
<1>1. HeldGroup /\ AirGroup /\ UpGroup /\ FwGroup /\ ApGroup /\ AirType /\ FwType
  BY Zenon DEF GroupInv, TypeInv
<1>2. /\ ap' = ap /\ gtk' = gtk /\ replay' = replay /\ first' = first /\ acked' = acked
  BY DEF accessPoint
<1>3. /\ held.gtk \in Nat /\ held'.gtk \in Nat /\ gtk \in Nat /\ acked \in Nat
      /\ held.replay \in Nat /\ replay \in Nat /\ first \in Nat
  BY DEF TypeInv, StationType, ApType, Frames
<1>4. \A i \in 1 .. Len(eapolCh) : eapolCh[i].gtk \in Nat
  <2>1. \A i \in 1 .. Len(eapolCh) : eapolCh[i] \in Frames
    BY <1>1, Elements DEF AirType
  <2>2. QED
    BY <2>1 DEF Frames
<1>5. HeldGroup' /\ AirGroup' /\ held.gtk <= held'.gtk
  <2>1. CASE UNCHANGED <<eapolCh, held>>
    BY <1>1, <1>2, <1>3, <2>1 DEF HeldGroup, AirGroup, Current
  <2>2. CASE eapolCh # << >> /\ eapolCh' = Tail(eapolCh) /\ held' \in {held, Head(eapolCh)}
    <3>1. /\ Len(eapolCh') = Len(eapolCh) - 1 /\ Len(eapolCh) \in Nat \ {0}
          /\ Head(eapolCh) = eapolCh[1] /\ 1 \in 1 .. Len(eapolCh)
          /\ \A i \in 1 .. Len(eapolCh) - 1 : eapolCh'[i] = eapolCh[i + 1]
      BY <1>1, <2>2, Popped DEF AirType
    <3>2. HeldGroup' /\ held.gtk <= held'.gtk
      BY <1>1, <1>2, <1>3, <2>2, <3>1 DEF HeldGroup, AirGroup, Current
    <3>3. ASSUME NEW i \in 1 .. Len(eapolCh')
          PROVE  /\ held'.gtk <= eapolCh'[i].gtk /\ eapolCh'[i].gtk <= gtk
                 /\ eapolCh'[i].replay <= replay
                 /\ eapolCh'[i].replay >= first => eapolCh'[i].gtk = gtk
                 /\ \A j \in 1 .. i : eapolCh'[j].gtk <= eapolCh'[i].gtk
      <4>1. i + 1 \in 1 .. Len(eapolCh) /\ 1 \in 1 .. i + 1 /\ eapolCh'[i] = eapolCh[i + 1]
        BY <3>1
      <4>2. \A j \in 1 .. i : j + 1 \in 1 .. i + 1 /\ eapolCh'[j] = eapolCh[j + 1]
        BY <3>1
      <4>3. /\ held.gtk <= eapolCh[i + 1].gtk /\ eapolCh[i + 1].gtk <= gtk
            /\ eapolCh[i + 1].replay <= replay
            /\ eapolCh[i + 1].replay >= first => eapolCh[i + 1].gtk = gtk
            /\ \A j \in 1 .. i + 1 : eapolCh[j].gtk <= eapolCh[i + 1].gtk
        BY <1>1, <4>1 DEF AirGroup, Current
      <4>4. held'.gtk <= eapolCh[i + 1].gtk
        BY <2>2, <3>1, <4>1, <4>3
      <4>5. QED
        BY <4>1, <4>2, <4>3, <4>4
    <3>4. QED
      BY <1>2, <3>2, <3>3 DEF AirGroup, Current
  <2>3. QED
    BY <2>1, <2>2 DEF Reads
<1>6. held'.gtk <= gtk /\ (held.gtk = gtk => held'.gtk = gtk)
  BY <1>2, <1>3, <1>5 DEF HeldGroup
<1>7. ApGroup'
  BY <1>1, <1>2, <1>3, <1>5 DEF ApGroup
<1>8. /\ Index(held.gtk) \in 1..2 /\ Index(gtk) \in 1..2 /\ Index(acked) \in 1..2
      /\ Index(acked + 1) # Index(acked)
  BY <1>3, IndexDiffers
<1>9. fw.gtk \in [1..2 -> Nat]
  BY <1>1 DEF FwType
<1>10. AckedIsInstalled'
  <2>1. CASE fw'.gtk = fw.gtk
    BY <1>1, <1>2, <2>1 DEF FwGroup, AckedIsInstalled
  <2>2. CASE fw'.gtk = [fw.gtk EXCEPT ![Index(held.gtk)] = held.gtk]
    <3>1. held.gtk = acked \/ held.gtk = acked + 1
      BY <1>1, <1>3 DEF HeldGroup, ApGroup
    <3>2. QED
      BY <1>1, <1>2, <1>8, <1>9, <2>2, <3>1 DEF FwGroup, AckedIsInstalled
  <2>3. QED
    BY <2>1, <2>2 DEF Installs
<1>11. gk' = "reply" => fw'.gtk[Index(held'.gtk)] = held'.gtk
  BY <1>1, <1>8, <1>9 DEF MayReply, FwGroup
<1>12. held.gtk = gtk /\ fw.gtk[Index(gtk)] = gtk => fw'.gtk[Index(gtk)] = gtk
  BY <1>8, <1>9 DEF Installs
<1>13. ASSUME NEW i \in 1 .. Len(uplink)
       PROVE  /\ uplink[i].replay <= replay
              /\ uplink[i].kind # "msg2" /\ uplink[i].replay >= first => held'.gtk = gtk
              /\ uplink[i].kind = "reply" /\ uplink[i].replay >= first
                    => fw'.gtk[Index(gtk)] = gtk
  <2>1. uplink[i] \in Replies
    BY <1>1, Elements DEF AirType
  <2>2. uplink[i].kind = "reply" => uplink[i].kind # "msg2"
    OBVIOUS
  <2>3. QED
    BY <1>1, <1>6, <1>12, <2>2 DEF UpGroup, Current
<1>14. UpGroup'
  <2>1. CASE UNCHANGED uplink
    BY <1>2, <1>13, <2>1 DEF UpGroup, Current
  <2>2. ASSUME NEW f \in Replies, uplink' = Append(uplink, f), f.replay = held'.replay,
               f.kind = "reply" => gk = "reply" /\ held' = held /\ fw' = fw
        PROVE  UpGroup'
    <3>1. /\ f.replay <= replay
          /\ f.replay >= first => held'.gtk = gtk
      BY <1>2, <1>5, <2>2 DEF HeldGroup, Current
    <3>2. f.kind = "reply" /\ f.replay >= first => fw'.gtk[Index(gtk)] = gtk
      BY <1>1, <2>2, <3>1 DEF FwGroup
    <3>3. /\ Len(uplink') = Len(uplink) + 1 /\ Len(uplink) \in Nat
          /\ \A i \in 1 .. Len(uplink) + 1 :
                uplink'[i] = IF i <= Len(uplink) THEN uplink[i] ELSE f
      BY <1>1, <2>2, Pushed DEF AirType
    <3>4. QED
      BY <1>2, <1>13, <3>1, <3>2, <3>3 DEF UpGroup, Current
  <2>3. QED
    BY <2>1, <2>2 DEF Sends
<1>15. QED
  BY <1>5, <1>7, <1>10, <1>11, <1>14 DEF GroupInv, FwGroup

LEMMA StationEffects ==
    ASSUME TypeInv, TypeInv', KeyInv, Handshake \/ Timeout \/ Cancel \/ GroupKey
    PROVE  UNCHANGED accessPoint /\ Reads /\ Installs /\ Sends /\ MayReply
<1>1. UNCHANGED accessPoint
  BY DEF Handshake, Preopen, TakeMsg1, TakeMsg3, Ignore, AddPtk, AddGtk, Install, OpenPort,
         Timeout, Cancel, GroupKey, TakeGroup, GroupAdd, GroupReply, accessPoint
<1>2. StationType /\ FwType /\ StaKeys /\ StationType' /\ AirType
  BY Zenon DEF TypeInv, KeyInv
<1>3. fw' \in {fw, WithCommand} =>
          fw'.gtk = fw.gtk \/ fw'.gtk = [fw.gtk EXCEPT ![Index(held.gtk)] = held.gtk]
  BY <1>2, Commanded
<1>4. held' \in Frames /\ kck' \in Nat
  BY <1>2 DEF StationType
<1>5. ASSUME NEW kind \in {"msg2", "msg4"}, Arrives(Up(kind)) \/ IsLost \/ UNCHANGED uplink
      PROVE  Sends
  <2>1. Up(kind) \in Replies /\ Up(kind).replay = held'.replay /\ Up(kind).kind # "reply"
    BY <1>4 DEF Up, Replies, Frames
  <2>2. QED
    BY Zenon, <1>5, <2>1 DEF Arrives, IsLost, Sends
<1>6. CASE Preopen \/ AddPtk \/ AddGtk \/ OpenPort
  <2>1. UNCHANGED <<eapolCh, held, uplink>> /\ gk' # "reply"
    BY <1>2, <1>6 DEF Preopen, AddPtk, AddGtk, Install, OpenPort, air, StaKeys
  <2>2. PICK ok \in BOOLEAN : Submit(ok)
    BY Zenon, <1>6 DEF Preopen, AddPtk, AddGtk, Install, OpenPort
  <2>3. Installs
    BY <1>3, <2>1, <2>2 DEF Submit, Installs
  <2>4. QED
    BY <1>1, <2>1, <2>3 DEF Reads, Sends, MayReply
<1>7. CASE TakeMsg1 \/ TakeMsg3
  <2>1. /\ eapolCh # << >> /\ Take /\ fw' = fw /\ gk' = gk /\ sta \in {"wait1", "wait3"}
    BY <1>7 DEF TakeMsg1, TakeMsg3, Got
  <2>2. gk' # "reply"
    BY <1>2, <2>1 DEF StaKeys
  <2>3. Sends
    BY <1>5, <1>7 DEF TakeMsg1, TakeMsg3
  <2>4. QED
    BY <1>1, <2>1, <2>2, <2>3 DEF Take, Reads, Installs, MayReply
<1>8. CASE Ignore \/ Timeout
  BY <1>1, <1>8 DEF Ignore, Timeout, station, air, ghosts, Reads, Installs, Sends, MayReply
<1>9. CASE Cancel
  <2>1. UNCHANGED <<eapolCh, held, uplink>> /\ fw' \in {fw, WithCommand}
    BY <1>9 DEF Cancel, air
  <2>2. gk' = "reply" => gk = "reply" /\ fw' = fw
    <3>1. ASSUME gk' = "reply" PROVE gk = "reply" /\ sta = "done"
      BY <1>2, <1>9, <3>1 DEF Cancel, StaKeys, Working
    <3>2. gk = "reply" /\ sta = "done" => WithCommand = fw
      BY DEF WithCommand
    <3>3. QED
      BY <2>1, <3>1, <3>2
  <2>3. QED
    BY <1>1, <1>3, <2>1, <2>2 DEF Reads, Installs, Sends, MayReply
<1>10. CASE TakeGroup
  BY <1>1, <1>10 DEF TakeGroup, Got, Take, Reads, Installs, Sends, MayReply
<1>11. CASE GroupAdd
  <2>1. UNCHANGED <<eapolCh, held, uplink>> /\ gk = "add"
    BY <1>11 DEF GroupAdd, station, air
  <2>2. PICK ok \in BOOLEAN : Submit(ok) /\ gk' = IF ok THEN "reply" ELSE "wait"
    BY Zenon, <1>11 DEF GroupAdd
  <2>3. fw' \in {fw, WithCommand} /\ (gk' = "reply" => fw' = WithCommand)
    BY <2>2 DEF Submit
  <2>4. WithCommand = WithGtk
    BY <1>2, <2>1 DEF WithCommand, StaKeys
  <2>5. WithGtk.gtk = [fw.gtk EXCEPT ![Index(held.gtk)] = held.gtk]
    BY <1>2 DEF WithGtk, FwType
  <2>6. QED
    BY <1>1, <2>1, <2>3, <2>4, <2>5 DEF Reads, Installs, Sends, MayReply
<1>12. CASE GroupReply
  <2>1. UNCHANGED <<eapolCh, held, fw>> /\ gk = "reply" /\ gk' # "reply"
    BY <1>12 DEF GroupReply, station
  <2>2. Up("reply") \in Replies /\ Up("reply").replay = held'.replay
    BY <1>4 DEF Up, Replies, Frames
  <2>3. Sends
    BY Zenon, <1>12, <2>1, <2>2 DEF GroupReply, Arrives, IsLost, Sends
  <2>4. QED
    BY <1>1, <2>1, <2>3 DEF Reads, Installs, MayReply
<1>13. QED
  BY Zenon, <1>6, <1>7, <1>8, <1>9, <1>10, <1>11, <1>12 DEF Handshake, GroupKey

LEMMA GroupStep == TypeInv /\ KeyInv /\ GroupInv /\ [Next]_vars => GroupInv'
<1> SUFFICES ASSUME TypeInv, KeyInv, GroupInv, [Next]_vars PROVE GroupInv'
  OBVIOUS
<1>1. TypeInv'
  BY TypeStep
<1>2. CASE UNCHANGED vars
  BY <1>2 DEF vars, station, air, accessPoint, GroupInv, HeldGroup, AirGroup, UpGroup, FwGroup,
              ApGroup, Current, AckedIsInstalled
<1>3. CASE AccessPoint
  BY Zenon, <1>1, <1>3, AccessPointGroup
<1>4. CASE Handshake \/ Timeout \/ Cancel \/ GroupKey
  BY Zenon, <1>1, <1>4, StationEffects, EffectsKeepGroup
<1>5. QED
  BY Zenon, <1>2, <1>3, <1>4 DEF Next

(* The newest group key the access point has seen acknowledged is in the    *)
(* firmware at its index, through any number of rekeys, losses and          *)
(* repetitions: an old answer is never taken for one to a newer key, and a  *)
(* later key never overwrites the acknowledged one.                         *)
THEOREM AckedAlwaysInstalled == Spec => []AckedIsInstalled
<1>1. Init => TypeInv /\ KeyInv /\ GroupInv
  BY InitType, InitKeys, InitGroup
<1>2. TypeInv /\ KeyInv /\ GroupInv /\ [Next]_vars => (TypeInv /\ KeyInv /\ GroupInv)'
  BY TypeStep, KeyStep, GroupStep
<1>3. GroupInv => AckedIsInstalled
  BY DEF GroupInv, FwGroup
<1>4. QED
  BY <1>1, <1>2, <1>3, PTL DEF Spec

-----------------------------------------------------------------------------
(* What the first group key rests on: until the first rekey there is no     *)
(* other, the station holds it while it installs it, and the next one has   *)
(* another index.                                                           *)
FirstAir ==
    \A i \in 1 .. Len(eapolCh) :
        eapolCh[i].gtk >= 1 /\ (eapolCh[i].kind # "group" => eapolCh[i].gtk = 1)

FirstHeld ==
    /\ sta \in {"addPtk", "addGtk"} => held.gtk = 1
    /\ gk = "add" => held.gtk >= 1

FirstIn == acked <= 1 => fw.gtk[Index(1)] = 1
FirstDone == (sta = "openPort" /\ allOk) \/ sta = "done" => FirstIn
FirstInv == FirstAir /\ FirstHeld /\ FirstDone

LEMMA InitFirst == Init => FirstInv
<1> SUFFICES ASSUME Init PROVE FirstInv
  OBVIOUS
<1>1. Len(eapolCh) = 1 /\ eapolCh[1].kind = "msg1" /\ eapolCh[1].gtk = 1
  BY DEF Init
<1>2. FirstAir
  BY <1>1 DEF FirstAir
<1>3. QED
  BY <1>2 DEF Init, FirstInv, FirstHeld, FirstDone

LEMMA AccessPointFirst ==
    ASSUME TypeInv, TypeInv', GroupInv, FirstInv, AccessPoint
    PROVE  FirstInv'
<1>1. UNCHANGED <<sta, allOk, held, gk, fw>>
  BY DEF AccessPoint, ApRepeat, ApGiveUp, ApTakeMsg2, ApTakeAnswer, ApIgnore, ApRekey, station
<1>2. FirstHeld'
  BY Zenon, <1>1 DEF FirstInv, FirstHeld
<1>3. acked' <= 1 => acked <= 1
  <2>1. acked \in Nat /\ gtk \in Nat /\ held.gtk \in Nat /\ acked <= held.gtk /\ held.gtk <= gtk
    BY DEF TypeInv, ApType, StationType, Frames, GroupInv, ApGroup, HeldGroup
  <2>2. acked' = acked \/ acked' = gtk
    BY DEF AccessPoint, ApRepeat, ApGiveUp, ApTakeMsg2, ApTakeAnswer, ApIgnore, ApRekey, accessPoint
  <2>3. QED
    BY <2>1, <2>2
<1>4. FirstDone'
  BY Zenon, <1>1, <1>3 DEF FirstInv, FirstDone, FirstIn
<1>5. FirstAir'
  <2>1. CASE UNCHANGED eapolCh
    BY Zenon, <2>1 DEF FirstInv, FirstAir
  <2>2. ASSUME NEW f \in Frames, ToStation(f), f.gtk >= 1, f.kind # "group" => f.gtk = 1
        PROVE  FirstAir'
    BY <2>2, ToStationElements DEF FirstInv, FirstAir, TypeInv
  <2>3. CASE ApRepeat
    <3>1. /\ Down(Message) \in Frames /\ Down(Message).gtk = gtk' /\ Down(Message).kind = Message
          /\ ToStation(Down(Message)) /\ gtk' = gtk
      BY <2>3 DEF ApRepeat, Down, Message, Frames, TypeInv, ApType
    <3>2. gtk \in Nat /\ gtk >= 1 /\ (Message # "group" => gtk = 1)
      BY <2>3, KeyAssumption DEF ApRepeat, Message, GroupInv, ApGroup, TypeInv, ApType
    <3>3. QED
      BY <2>2, <3>1, <3>2
  <2>4. CASE ApTakeMsg2
    <3>1. /\ Down("msg3") \in Frames /\ Down("msg3").gtk = gtk' /\ ToStation(Down("msg3"))
          /\ gtk' = gtk /\ ap = "wait2"
      BY <2>4 DEF ApTakeMsg2, Down, Frames, TypeInv, ApType
    <3>2. gtk = 1
      BY <3>1 DEF GroupInv, ApGroup
    <3>3. QED
      BY <2>2, <3>1, <3>2
  <2>5. CASE ApRekey
    <3>1. /\ Down("group") \in Frames /\ Down("group").gtk = gtk' /\ Down("group").kind = "group"
          /\ ToStation(Down("group")) /\ gtk' \in 1 .. MaxRekeys + 1
      BY <2>5 DEF ApRekey, Down, Frames, TypeInv, ApType
    <3>2. gtk' >= 1
      BY <3>1, KeyAssumption
    <3>3. QED
      BY <2>2, <3>1, <3>2
  <2>6. QED
    BY <2>1, <2>3, <2>4, <2>5 DEF AccessPoint, ApGiveUp, ApTakeAnswer, ApIgnore, air
<1>6. QED
  BY <1>2, <1>4, <1>5 DEF FirstInv

(* A group key that is installed is the first, or has the other index while *)
(* the access point has seen none but the first acknowledged.               *)
LEMMA FirstStays ==
    ASSUME TypeInv, GroupInv, FirstIn, held.gtk >= 1, acked' = acked,
           fw'.gtk = fw.gtk \/ fw'.gtk = [fw.gtk EXCEPT ![Index(held.gtk)] = held.gtk]
    PROVE  FirstIn'
<1>1. fw.gtk \in [1..2 -> Nat] /\ held.gtk \in Nat /\ gtk \in Nat /\ acked \in Nat
  BY DEF TypeInv, FwType, StationType, Frames, ApType
<1>2. held.gtk <= gtk /\ gtk <= acked + 1
  BY DEF GroupInv, HeldGroup, ApGroup
<1>3. acked <= 1 => held.gtk \in {1, 2}
  BY <1>1, <1>2
<1>4. Index(1) = 2 /\ Index(2) = 1
  BY DEF Index
<1>5. QED
  BY <1>1, <1>3, <1>4 DEF FirstIn

LEMMA StationFirst ==
    ASSUME TypeInv, TypeInv', KeyInv, GroupInv, FirstInv, Handshake \/ Timeout \/ Cancel \/ GroupKey
    PROVE  FirstInv'
<1>1. Reads /\ acked' = acked
  BY StationEffects DEF accessPoint
<1>2. FirstAir /\ FirstHeld /\ FirstDone /\ StaKeys /\ AirType /\ FwType /\ StationType
  BY Zenon DEF FirstInv, TypeInv, KeyInv
<1>3. FirstAir'
  <2>1. CASE UNCHANGED eapolCh
    BY Zenon, <1>2, <2>1 DEF FirstAir
  <2>2. CASE eapolCh # << >> /\ eapolCh' = Tail(eapolCh)
    BY <1>2, <2>2, Popped DEF FirstAir, AirType
  <2>3. QED
    BY <1>1, <2>1, <2>2 DEF Reads
<1>4. ASSUME eapolCh # << >> PROVE /\ Head(eapolCh).gtk >= 1
                                   /\ Head(eapolCh).kind # "group" => Head(eapolCh).gtk = 1
  BY <1>2, <1>4, Popped DEF FirstAir, AirType
<1>5. FirstHeld' /\ FirstDone'
  <2>1. CASE Preopen
    BY <1>2, <2>1 DEF Preopen, FirstHeld, FirstDone, StaKeys
  <2>2. CASE TakeMsg1
    BY <1>2, <2>2 DEF TakeMsg1, FirstHeld, FirstDone, StaKeys
  <2>3. CASE TakeMsg3
    BY <1>2, <1>4, <2>3 DEF TakeMsg3, Got, Take, FirstHeld, FirstDone, StaKeys
  <2>4. CASE Ignore
    <3>1. UNCHANGED <<sta, allOk, held, gk, fw>>
      BY <2>4 DEF Ignore, station
    <3>2. QED
      BY Zenon, <1>1, <1>2, <3>1 DEF FirstHeld, FirstDone, FirstIn
  <2>5. CASE AddPtk
    BY <1>2, <2>5 DEF AddPtk, Install, FirstHeld, FirstDone, StaKeys
  <2>6. CASE AddGtk
    <3>1. sta = "addGtk" /\ sta' = "openPort" /\ gk' # "add" /\ held.gtk = 1
      BY <1>2, <2>6 DEF AddGtk, Install, FirstHeld, StaKeys
    <3>2. PICK ok \in BOOLEAN : Submit(ok) /\ allOk' = (allOk /\ ok)
      BY Zenon, <2>6 DEF AddGtk, Install
    <3>3. ok => fw' = WithCommand
      BY Zenon, <3>2 DEF Submit
    <3>4. WithCommand.gtk[Index(1)] = 1
      BY <1>2, <3>1 DEF WithCommand, WithGtk, FwType, Index
    <3>5. allOk' => fw'.gtk[Index(1)] = 1
      BY Zenon, <3>2, <3>3, <3>4
    <3>6. QED
      BY <3>1, <3>5 DEF FirstHeld, FirstDone, FirstIn
  <2>7. CASE OpenPort
    <3>1. /\ sta = "openPort" /\ sta' \notin {"addPtk", "addGtk", "openPort"}
          /\ gk # "add" /\ gk' # "add"
      BY <1>2, <2>7 DEF OpenPort, StaKeys
    <3>2. PICK ok \in BOOLEAN : Submit(ok) /\ allOk' = (allOk /\ ok)
      BY Zenon, <2>7 DEF OpenPort
    <3>3. fw' \in {fw, WithCommand}
      BY Zenon, <3>2 DEF Submit
    <3>4. fw'.gtk = fw.gtk
      <4>1. WithCommand = [fw EXCEPT !.port = TRUE]
        BY <3>1 DEF WithCommand
      <4>2. [fw EXCEPT !.port = TRUE].gtk = fw.gtk
        BY <1>2 DEF FwType
      <4>3. QED
        BY Zenon, <3>3, <4>1, <4>2
    <3>5. sta' = "done" => allOk'
      BY Zenon, <2>7 DEF OpenPort
    <3>6. sta' = "done" => FirstIn
      BY Zenon, <1>2, <3>1, <3>2, <3>5 DEF FirstDone
    <3>7. FirstIn => FirstIn'
      BY Zenon, <1>1, <3>4 DEF FirstIn
    <3>8. QED
      BY <3>1, <3>6, <3>7 DEF FirstHeld, FirstDone
  <2>8. CASE Timeout
    BY <1>2, <2>8 DEF Timeout, FirstHeld, FirstDone, StaKeys
  <2>9. CASE Cancel
    BY <2>9 DEF Cancel, FirstHeld, FirstDone
  <2>10. CASE TakeGroup
    <3>1. sta = "done" /\ sta' = "done" /\ held'.gtk >= 1 /\ fw' = fw
      BY <1>2, <1>4, <2>10 DEF TakeGroup, Got, Take, StaKeys
    <3>2. FirstIn => FirstIn'
      BY Zenon, <1>1, <3>1 DEF FirstIn
    <3>3. QED
      BY <1>2, <3>1, <3>2 DEF FirstHeld, FirstDone
  <2>11. CASE GroupAdd
    <3>1. /\ sta = "done" /\ sta' = "done" /\ gk = "add" /\ gk' # "add"
          /\ fw' \in {fw, WithCommand}
      BY <1>2, <2>11 DEF GroupAdd, station, Submit, StaKeys
    <3>2. FirstIn'
      BY <1>1, <1>2, <3>1, Commanded, FirstStays DEF FirstHeld, FirstDone
    <3>3. QED
      BY <3>1, <3>2 DEF FirstHeld, FirstDone
  <2>12. CASE GroupReply
    <3>1. UNCHANGED <<sta, allOk, held, fw>> /\ gk' # "add"
      BY <2>12 DEF GroupReply, station
    <3>2. QED
      BY Zenon, <1>1, <1>2, <3>1 DEF FirstHeld, FirstDone, FirstIn
  <2>13. QED
    BY Zenon, <2>1, <2>2, <2>3, <2>4, <2>5, <2>6, <2>7, <2>8, <2>9, <2>10, <2>11, <2>12
       DEF Handshake, GroupKey
<1>6. QED
  BY <1>3, <1>5 DEF FirstInv

LEMMA FirstStep == TypeInv /\ KeyInv /\ GroupInv /\ FirstInv /\ [Next]_vars => FirstInv'
<1> SUFFICES ASSUME TypeInv, KeyInv, GroupInv, FirstInv, [Next]_vars PROVE FirstInv'
  OBVIOUS
<1>1. TypeInv'
  BY TypeStep
<1>2. CASE UNCHANGED vars
  BY Zenon, <1>2 DEF vars, station, air, accessPoint, FirstInv, FirstAir, FirstHeld, FirstDone, FirstIn
<1>3. CASE Next
  BY Zenon, <1>1, <1>3, AccessPointFirst, StationFirst DEF Next
<1>4. QED
  BY <1>2, <1>3

(* A handshake reported as complete has the access point's pairwise key in  *)
(* the firmware, the port open and, until a rekey is acknowledged, the      *)
(* group key of message 3, after any number of losses, repetitions, rekeys  *)
(* and changes of nonce.                                                    *)
THEOREM KeysAlwaysAgree == Spec => []KeysAgree
<1>1. Init => TypeInv /\ KeyInv /\ GroupInv /\ FirstInv
  BY InitType, InitKeys, InitGroup, InitFirst
<1>2. TypeInv /\ KeyInv /\ GroupInv /\ FirstInv /\ [Next]_vars
        => (TypeInv /\ KeyInv /\ GroupInv /\ FirstInv)'
  BY TypeStep, KeyStep, GroupStep, FirstStep
<1>3. KeyInv /\ FirstInv => KeysAgree
  BY DEF KeyInv, StaKeys, FwKeys, FirstInv, FirstDone, FirstIn, KeysAgree
<1>4. QED
  BY <1>1, <1>2, <1>3, PTL DEF Spec

-----------------------------------------------------------------------------
(* What the survival of losses rests on.  Every copy of the message the     *)
(* access point waits on is accounted for: a fault, one still under way, or *)
(* the one the group-key loop is working on; or else its answer is on the   *)
(* way back.  A frame the station reads while it can answer is answered.    *)
Bad == {"sendFailed", "noGtk", "keysFailed", "cancelled"}
Excused == early \/ msg4Lost \/ sta \in Bad

(* message 3 has been answered *)
Through == {"addPtk", "addGtk", "openPort", "done"}

Answering == \E i \in 1 .. Len(uplink) : Expects(uplink[i])

(* An answer, what the access point does on it and the group-key loop show  *)
(* that the station has the nonce; an answer to a later message, that it is *)
(* past message 3.                                                          *)
Heard ==
    ap \in {"wait4", "done", "rekey"} \/ uplink # << >> \/ gk # "off"
        => kck = anonce /\ sta \notin {"preopen", "wait1"}

Later == ap \in {"done", "rekey"} \/ \E i \in 1 .. Len(uplink) : uplink[i].kind # "msg2"

PastMsg3 ==
    /\ Later => sta \in Through \/ Excused
    /\ sta = "done" => gk # "off"
    /\ ap = "wait4" /\ sta \in Through => Answering \/ Excused

(* The frames that count are those the access point is repeating.           *)
Kinds ==
    \A i \in 1 .. Len(eapolCh) :
        /\ ap = "wait2" => eapolCh[i].kind = "msg1"
        /\ ap = "wait4" => (Current(eapolCh[i].replay) <=> eapolCh[i].kind = "msg3")
        /\ ap = "rekey" /\ Current(eapolCh[i].replay) => eapolCh[i].kind = "group"

Busy == IF gk \in {"add", "reply"} /\ Current(held.replay) THEN 1 ELSE 0

(* the last k frames under way are the current ones *)
Newest(k) == \A i \in 1 .. Len(eapolCh) : Current(eapolCh[i].replay) <=> i > Len(eapolCh) - k

Count(k) == k \in 0 .. Len(eapolCh) /\ Newest(k)

Sent == replay + 1 - first

Counted ==
    ap \in {"wait2", "wait4", "rekey"} =>
        \/ Excused
        \/ Answering
        \/ \E k \in 0 .. Len(eapolCh) : Count(k) /\ Sent <= faults + k + Busy

LossInv == Heard /\ PastMsg3 /\ Kinds /\ Counted /\ LossSurvived

LEMMA InitLoss == Init => LossInv
<1> SUFFICES ASSUME Init PROVE LossInv
  OBVIOUS
<1>1. /\ Len(eapolCh) = 1 /\ eapolCh[1].kind = "msg1" /\ eapolCh[1].replay = 1
      /\ uplink = << >> /\ Len(uplink) = 0 /\ replay = 1 /\ first = 1 /\ faults = 0
      /\ ap = "wait2" /\ sta = "preopen" /\ gk = "off"
  BY DEF Init
<1>2. Heard /\ PastMsg3 /\ LossSurvived
  BY <1>1 DEF Heard, PastMsg3, Later, Through, LossSurvived
<1>3. Kinds /\ Count(1)
  BY <1>1 DEF Kinds, Count, Newest, Current
<1>4. Sent <= faults + 1 + Busy
  BY <1>1 DEF Sent, Busy
<1>5. Counted
  <2>1. 1 \in 0 .. Len(eapolCh)
    BY <1>1
  <2>2. QED
    BY <2>1, <1>3, <1>4 DEF Counted
<1>6. QED
  BY <1>2, <1>3, <1>5 DEF LossInv

-----------------------------------------------------------------------------
(* Faults only grow, and an excuse remains one.                             *)
LEMMA FaultsGrow ==
    ASSUME TypeInv, TypeInv', [Next]_vars
    PROVE  faults \in Nat /\ faults' \in Nat /\ faults <= faults'
<1>1. faults \in Nat /\ faults' \in Nat
  BY KeyAssumption DEF TypeInv, FaultType
<1>2. faults' = faults \/ faults' = faults + 1
  <2>1. CASE UNCHANGED vars
    BY <2>1 DEF vars, ghosts
  <2>2. CASE AccessPoint
    BY <2>2 DEF AccessPoint, ApRepeat, ApGiveUp, ApTakeMsg2, ApTakeAnswer, ApIgnore, ApRekey,
                ToStation, Fault, ghosts
  <2>3. CASE Handshake
    BY <2>3 DEF Handshake, Preopen, TakeMsg1, TakeMsg3, Ignore, AddPtk, AddGtk, Install,
                OpenPort, Submit, Arrives, IsLost, Fault, ghosts
  <2>4. CASE Timeout \/ Cancel \/ GroupKey
    BY <2>4 DEF Timeout, Cancel, GroupKey, TakeGroup, GroupAdd, GroupReply, Submit, Arrives,
                IsLost, Fault, ghosts
  <2>5. QED
    BY Zenon, <2>1, <2>2, <2>3, <2>4 DEF Next
<1>3. QED
  BY <1>1, <1>2

LEMMA ExcusedKept ==
    ASSUME Excused, [Next]_vars
    PROVE  Excused'
<1>1. sta \in Bad => sta' \in Bad
  <2>1. CASE UNCHANGED vars \/ AccessPoint \/ GroupKey
    BY <2>1 DEF vars, station, AccessPoint, ApRepeat, ApGiveUp, ApTakeMsg2, ApTakeAnswer,
                ApIgnore, ApRekey, GroupKey, TakeGroup, GroupAdd, GroupReply
  <2>2. CASE Handshake \/ Timeout \/ Cancel
    BY <2>2 DEF Handshake, Preopen, TakeMsg1, TakeMsg3, Ignore, AddPtk, AddGtk, Install,
                OpenPort, Timeout, Cancel, Working, Bad, station
  <2>3. QED
    BY Zenon, <2>1, <2>2 DEF Next
<1>2. CASE UNCHANGED vars \/ AccessPoint \/ Cancel \/ GroupKey
  <2>1. UNCHANGED early /\ UNCHANGED msg4Lost
    BY <1>2 DEF vars, ghosts, AccessPoint, ApRepeat, ApGiveUp, ApTakeMsg2, ApTakeAnswer,
                ApIgnore, ApRekey, Cancel, GroupKey, TakeGroup, GroupAdd, GroupReply
  <2>2. QED
    BY Zenon, <1>1, <2>1 DEF Excused
<1>3. CASE Preopen \/ TakeMsg1 \/ Ignore \/ AddPtk \/ AddGtk \/ OpenPort
  <2>1. UNCHANGED early /\ UNCHANGED msg4Lost
    BY <1>3 DEF ghosts, Preopen, TakeMsg1, Ignore, AddPtk, AddGtk, Install, OpenPort
  <2>2. QED
    BY Zenon, <1>1, <2>1 DEF Excused
<1>4. CASE TakeMsg3
  <2>1. UNCHANGED early
    BY Zenon, <1>4 DEF TakeMsg3
  <2>2. UNCHANGED msg4Lost \/ msg4Lost' = TRUE
    BY Zenon, <1>4 DEF TakeMsg3
  <2>3. QED
    BY Zenon, <1>1, <2>1, <2>2 DEF Excused
<1>5. CASE Timeout
  <2>1. UNCHANGED msg4Lost
    BY Zenon, <1>5 DEF Timeout
  <2>2. early => early'
    BY Zenon, <1>5 DEF Timeout
  <2>3. QED
    BY Zenon, <1>1, <2>1, <2>2 DEF Excused
<1>6. QED
  BY Zenon, <1>2, <1>3, <1>4, <1>5 DEF Next, Handshake

(* An answer under way stays one while the access point waits for it.       *)
LEMMA AnsweringKept ==
    ASSUME TypeInv, TypeInv', Answering,
           ap' = ap, first' = first, anonce' = anonce, replay <= replay',
           \/ uplink' = uplink
           \/ uplink # << >> /\ ~Expects(Head(uplink)) /\ uplink' = Tail(uplink)
           \/ \E f \in Replies : uplink' = Append(uplink, f)
    PROVE  Answering'
<1>1. PICK i \in 1 .. Len(uplink) : Expects(uplink[i])
  BY DEF Answering
<1>2. /\ uplink \in Seq(Replies) /\ first \in Nat /\ replay \in Nat /\ replay' \in Nat
  BY DEF TypeInv, AirType, ApType
<1>3. ASSUME NEW j \in 1 .. Len(uplink'), uplink'[j] = uplink[i]
      PROVE  Answering'
  <2>1. Expects(uplink[j])'
    BY <1>1, <1>2, <1>3 DEF Expects
  <2>2. QED
    BY <2>1 DEF Answering
<1>4. CASE uplink' = uplink
  BY <1>3, <1>4
<1>5. CASE uplink # << >> /\ ~Expects(Head(uplink)) /\ uplink' = Tail(uplink)
  <2>1. /\ Len(uplink') = Len(uplink) - 1 /\ Head(uplink) = uplink[1]
        /\ \A j \in 1 .. Len(uplink) - 1 : uplink'[j] = uplink[j + 1]
    BY <1>2, <1>5, Popped
  <2>2. i # 1
    BY <1>1, <1>5, <2>1
  <2>3. i - 1 \in 1 .. Len(uplink') /\ uplink'[i - 1] = uplink[i]
    BY <1>2, <2>1, <2>2
  <2>4. QED
    BY <1>3, <2>3
<1>6. ASSUME NEW f \in Replies, uplink' = Append(uplink, f)
      PROVE  Answering'
  <2>1. i \in 1 .. Len(uplink') /\ uplink'[i] = uplink[i]
    BY <1>2, <1>6, Pushed
  <2>2. QED
    BY <1>3, <2>1
<1>7. QED
  BY <1>4, <1>5, <1>6

(* An answer the access point waits for is put on its way.                  *)
LEMMA AnswerSent ==
    ASSUME TypeInv, TypeInv', UNCHANGED accessPoint,
           NEW f \in Replies, uplink' = Append(uplink, f),
           first <= f.replay, f.replay <= replay, f.key = anonce,
           \/ ap = "wait2" /\ f.kind = "msg2"
           \/ ap = "wait4" /\ f.kind = "msg4"
           \/ ap = "rekey" /\ f.kind = "reply"
    PROVE  Answering'
<1>1. uplink \in Seq(Replies) /\ first \in Nat /\ replay \in Nat /\ f.replay \in Nat
  BY DEF TypeInv, AirType, ApType, Replies
<1>2. Len(uplink) + 1 \in 1 .. Len(uplink') /\ uplink'[Len(uplink) + 1] = f
  BY <1>1, Pushed
<1>3. Expects(f)'
  BY <1>1 DEF Expects, accessPoint
<1>4. QED
  BY <1>2, <1>3 DEF Answering

-----------------------------------------------------------------------------
(* The number of current frames under way, as the queue changes.            *)
LEMMA AirReplays ==
    ASSUME TypeInv
    PROVE  /\ eapolCh \in Seq(Frames) /\ Len(eapolCh) \in Nat /\ first \in Nat
           /\ \A i \in 1 .. Len(eapolCh) : eapolCh[i].replay \in Nat
<1>1. eapolCh \in Seq(Frames) /\ first \in Nat
  BY DEF TypeInv, AirType, ApType
<1>2. \A i \in 1 .. Len(eapolCh) : eapolCh[i] \in Frames
  BY <1>1, Elements
<1>3. QED
  BY <1>1, <1>2 DEF Frames

LEMMA CountUnchanged ==
    ASSUME NEW k, Count(k), UNCHANGED <<eapolCh, first>>
    PROVE  Count(k)'
BY DEF Count, Newest, Current

LEMMA CountPopped ==
    ASSUME TypeInv, NEW k, Count(k), eapolCh # << >>, eapolCh' = Tail(eapolCh), first' = first
    PROVE  IF Current(Head(eapolCh).replay) THEN k >= 1 /\ Count(k - 1)' ELSE Count(k)'
<1>1. k \in 0 .. Len(eapolCh) /\ Newest(k)
  BY DEF Count
<1>0. Len(eapolCh) \in Nat /\ k \in Int /\ k <= Len(eapolCh)
  BY <1>1, AirReplays
<1>2. /\ Len(eapolCh') = Len(eapolCh) - 1 /\ Len(eapolCh) \in Nat \ {0}
      /\ Head(eapolCh) = eapolCh[1] /\ 1 \in 1 .. Len(eapolCh)
      /\ \A i \in 1 .. Len(eapolCh) - 1 : eapolCh'[i] = eapolCh[i + 1]
  BY Popped, AirReplays
<1>3. \A i \in 1 .. Len(eapolCh') : /\ i + 1 \in 1 .. Len(eapolCh)
                                    /\ eapolCh'[i] = eapolCh[i + 1]
                                    /\ eapolCh'[i].replay >= first' <=> i + 1 > Len(eapolCh) - k
  BY <1>1, <1>2 DEF Newest, Current
<1>4. CASE Current(Head(eapolCh).replay)
  <2>0. 1 > Len(eapolCh) - k
    BY <1>1, <1>2, <1>4 DEF Newest, Current
  <2>1. k = Len(eapolCh)
    BY <1>0, <2>0
  <2>2. Count(k - 1)'
    BY <1>1, <1>2, <1>3, <2>1 DEF Count, Newest, Current
  <2>3. QED
    BY <1>2, <1>4, <2>1, <2>2
<1>5. CASE ~Current(Head(eapolCh).replay)
  <2>1. k <= Len(eapolCh')
    BY <1>1, <1>2, <1>5 DEF Newest, Current
  <2>2. Count(k)'
    BY <1>1, <1>2, <1>3, <2>1 DEF Count, Newest, Current
  <2>3. QED
    BY <1>5, <2>2
<1>6. QED
  BY <1>4, <1>5

LEMMA CountPushed ==
    ASSUME TypeInv, NEW k, Count(k), NEW f \in Frames, eapolCh' = Append(eapolCh, f),
           first' = first, first <= f.replay
    PROVE  Count(k + 1)'
<1>1. k \in 0 .. Len(eapolCh) /\ Newest(k)
  BY DEF Count
<1>2. /\ Len(eapolCh') = Len(eapolCh) + 1 /\ Len(eapolCh) \in Nat
      /\ \A i \in 1 .. Len(eapolCh) + 1 :
            eapolCh'[i] = IF i <= Len(eapolCh) THEN eapolCh[i] ELSE f
  BY Pushed, AirReplays
<1>3. f.replay \in Nat /\ first \in Nat
  BY AirReplays DEF Frames
<1>4. \A i \in 1 .. Len(eapolCh') : eapolCh'[i].replay >= first' <=> i > Len(eapolCh') - (k + 1)
  BY <1>1, <1>2, <1>3 DEF Newest, Current
<1>5. QED
  BY <1>1, <1>2, <1>4 DEF Count, Newest, Current

(* With a new first counter no frame under way is current but the new one.  *)
LEMMA CountRestarts ==
    ASSUME TypeInv, AirGroup, replay \in Nat, first' \in Nat, replay < first',
           NEW f \in Frames, f.replay = first', ToStation(f)
    PROVE  Count(1)' \/ (Count(0)' /\ Fault)
<1>1. \A i \in 1 .. Len(eapolCh) : eapolCh[i].replay \in Nat /\ eapolCh[i].replay < first'
  BY AirReplays DEF AirGroup
<1>2. CASE eapolCh' = Append(eapolCh, f)
  <2>1. /\ Len(eapolCh') = Len(eapolCh) + 1 /\ Len(eapolCh) \in Nat
        /\ \A i \in 1 .. Len(eapolCh) + 1 :
              eapolCh'[i] = IF i <= Len(eapolCh) THEN eapolCh[i] ELSE f
    BY <1>2, Pushed, AirReplays
  <2>2. \A i \in 1 .. Len(eapolCh') : eapolCh'[i].replay >= first' <=> i > Len(eapolCh') - 1
    BY <1>1, <2>1 DEF Current
  <2>3. QED
    BY <2>1, <2>2 DEF Count, Newest, Current
<1>3. CASE Fault /\ UNCHANGED eapolCh
  BY <1>1, <1>3, AirReplays DEF Count, Newest, Current
<1>4. QED
  BY <1>2, <1>3 DEF ToStation

-----------------------------------------------------------------------------
(* Where the station stands with the access point. *)
LEMMA HeardStep ==
    ASSUME TypeInv, KeyInv, Heard, [Next]_vars
    PROVE  Heard'
<1>1. AirKeys /\ StaKeys /\ AirType
  BY Zenon DEF TypeInv, KeyInv
<1>2. CASE UNCHANGED vars
  BY <1>2 DEF vars, station, air, accessPoint, Heard
<1>3. CASE ApRepeat
  <2>1. CASE anonce' = anonce
    BY <1>3, <2>1 DEF ApRepeat, station, Heard
  <2>2. CASE ap = "wait2" /\ Quiet
    BY <1>1, <1>3, <2>2 DEF ApRepeat, Quiet, station, Heard, StaKeys
  <2>3. QED
    BY <1>3, <2>1, <2>2 DEF ApRepeat
<1>4. CASE ApGiveUp \/ ApTakeMsg2 \/ ApTakeAnswer \/ ApIgnore \/ ApRekey
  <2>1. (uplink' # << >> => uplink # << >>) /\ UNCHANGED <<kck, sta, gk, anonce>>
    BY <1>4 DEF ApGiveUp, ApTakeMsg2, ApTakeAnswer, ApIgnore, ApRekey, station, air, accessPoint
  <2>2. ap' \in {"wait4", "done", "rekey"} =>
            ap \in {"wait4", "done", "rekey"} \/ uplink # << >>
    BY <1>4 DEF ApGiveUp, ApTakeMsg2, ApTakeAnswer, ApIgnore, ApRekey, accessPoint
  <2>3. QED
    BY <2>1, <2>2 DEF Heard
<1>5. CASE TakeMsg1
  <2>1. Head(eapolCh) = eapolCh[1] /\ 1 \in 1 .. Len(eapolCh)
    BY <1>1, <1>5, Popped DEF TakeMsg1, Got, AirType
  <2>2. kck' = anonce /\ sta' \in {"wait3", "sendFailed"}
    BY <1>1, <1>5, <2>1 DEF TakeMsg1, Take, AirKeys
  <2>3. QED
    BY <1>5, <2>2 DEF TakeMsg1, accessPoint, Heard
<1>6. CASE TakeMsg3
  <2>1. Head(eapolCh) = eapolCh[1] /\ 1 \in 1 .. Len(eapolCh)
    BY <1>1, <1>6, Popped DEF TakeMsg3, Got, AirType
  <2>2. kck' = anonce /\ sta' \in {"addPtk", "noGtk", "sendFailed"}
    BY <1>1, <1>6, <2>1 DEF TakeMsg3, Verified, AirKeys
  <2>3. QED
    BY <1>6, <2>2 DEF TakeMsg3, accessPoint, Heard
<1>7. CASE Preopen
  BY <1>7 DEF Preopen, air, accessPoint, Heard
<1>8. CASE Ignore \/ AddPtk \/ AddGtk \/ Timeout \/ Cancel
  BY <1>8 DEF Ignore, AddPtk, AddGtk, Install, Timeout, Cancel, station, air, accessPoint, Heard
<1>9. CASE OpenPort
  BY <1>1, <1>9 DEF OpenPort, air, accessPoint, Heard, StaKeys
<1>10. CASE GroupKey
  <2>1. gk # "off"
    BY <1>10 DEF GroupKey, TakeGroup, GroupAdd, GroupReply
  <2>2. UNCHANGED <<kck, sta, anonce>>
    BY <1>10 DEF GroupKey, TakeGroup, GroupAdd, GroupReply, station, accessPoint
  <2>3. QED
    BY <2>1, <2>2 DEF Heard
<1>11. QED
  BY Zenon, <1>2, <1>3, <1>4, <1>5, <1>6, <1>7, <1>8, <1>9, <1>10
     DEF Next, AccessPoint, Handshake

(* a step on which it shows no more than before, and nobody forgets it *)
LaterOnlyIf == (Later' => Later) /\ (sta \in Through => sta' \in Through \cup Bad)

LEMMA LaterUplink ==
    ASSUME AirType, ap' \in {"done", "rekey"} => Later,
           \/ uplink' = uplink
           \/ uplink # << >> /\ uplink' = Tail(uplink)
           \/ \E f \in Replies : uplink' = Append(uplink, f) /\ f.kind = "msg2"
    PROVE  Later' => Later
<1>1. CASE uplink' = uplink
  BY <1>1 DEF Later
<1>2. CASE uplink # << >> /\ uplink' = Tail(uplink)
  BY <1>2, Popped DEF Later, AirType
<1>3. ASSUME NEW f \in Replies, uplink' = Append(uplink, f), f.kind = "msg2"
      PROVE  Later' => Later
  BY <1>3, Pushed DEF Later, AirType
<1>4. QED
  BY <1>1, <1>2, <1>3

LEMMA LaterStep ==
    ASSUME TypeInv, TypeInv', KeyInv, Later => sta \in Through \/ Excused, [Next]_vars
    PROVE  Later' => sta' \in Through \/ Excused'
<1>1. StaKeys /\ AirType /\ held' \in Frames /\ kck' \in Nat
  BY DEF TypeInv, KeyInv, StationType
<1>2. ASSUME LaterOnlyIf
      PROVE  Later' => sta' \in Through \/ Excused'
  BY Zenon, <1>2, ExcusedKept DEF LaterOnlyIf, Excused
<1>3. CASE UNCHANGED vars
  BY <1>1, <1>2, <1>3, LaterUplink DEF vars, station, air, accessPoint, LaterOnlyIf, Later
<1>4. CASE AccessPoint
  <2>1. sta' = sta
    BY <1>4 DEF AccessPoint, ApRepeat, ApGiveUp, ApTakeMsg2, ApTakeAnswer, ApIgnore, ApRekey,
                station
  <2>2. uplink' = uplink \/ (uplink # << >> /\ uplink' = Tail(uplink))
    BY <1>4 DEF AccessPoint, ApRepeat, ApGiveUp, ApTakeMsg2, ApTakeAnswer, ApIgnore, ApRekey, air
  <2>3. ap' \in {"done", "rekey"} => Later
    <3>1. CASE ApTakeAnswer
      <4>1. Head(uplink) = uplink[1] /\ 1 \in 1 .. Len(uplink)
        BY <1>1, <3>1, Popped DEF ApTakeAnswer, AirType
      <4>2. uplink[1].kind # "msg2"
        BY <3>1, <4>1 DEF ApTakeAnswer, Expects
      <4>3. QED
        BY <4>1, <4>2 DEF Later
    <3>2. CASE ApRepeat \/ ApGiveUp \/ ApTakeMsg2 \/ ApIgnore \/ ApRekey
      BY <3>2 DEF ApRepeat, ApGiveUp, ApTakeMsg2, ApIgnore, ApRekey, accessPoint, Later
    <3>3. QED
      BY Zenon, <1>4, <3>1, <3>2 DEF AccessPoint
  <2>4. QED
    BY <1>1, <1>2, <2>1, <2>2, <2>3, LaterUplink DEF LaterOnlyIf
<1>5. CASE TakeMsg1
  <2>1. uplink' = uplink \/ \E f \in Replies : uplink' = Append(uplink, f) /\ f.kind = "msg2"
    <3>1. Up("msg2") \in Replies /\ Up("msg2").kind = "msg2"
      BY <1>1 DEF Up, Replies, Frames
    <3>2. QED
      BY <1>5, <3>1 DEF TakeMsg1, Arrives, IsLost
  <2>2. ap' = ap /\ sta \notin Through
    BY <1>5 DEF TakeMsg1, accessPoint, Through
  <2>3. QED
    BY <1>1, <1>2, <2>1, <2>2, LaterUplink DEF LaterOnlyIf, Later
<1>6. CASE TakeMsg3
  BY <1>6 DEF TakeMsg3, Through, Excused, Bad
<1>7. CASE Preopen \/ Ignore \/ AddPtk \/ AddGtk \/ OpenPort \/ Timeout \/ Cancel
  <2>1. uplink' = uplink /\ ap' = ap
    BY <1>7 DEF Preopen, Ignore, AddPtk, AddGtk, Install, OpenPort, Timeout, Cancel, air, accessPoint
  <2>2. sta \in Through => sta' \in Through \cup Bad
    BY <1>7 DEF Preopen, Ignore, AddPtk, AddGtk, Install, OpenPort, Timeout, Cancel, station,
                Through, Bad
  <2>3. QED
    BY <1>2, <2>1, <2>2 DEF LaterOnlyIf, Later
<1>8. CASE TakeGroup \/ GroupAdd
  BY <1>2, <1>8 DEF TakeGroup, GroupAdd, station, air, accessPoint, LaterOnlyIf, Later
<1>9. CASE GroupReply
  BY <1>1, <1>9 DEF GroupReply, station, StaKeys, Through, Excused, Bad
<1>10. QED
  BY Zenon, <1>3, <1>4, <1>5, <1>6, <1>7, <1>8, <1>9 DEF Next, Handshake, GroupKey

LEMMA PastMsg3Step ==
    ASSUME TypeInv, TypeInv', KeyInv, GroupInv, Heard, PastMsg3, Kinds, [Next]_vars
    PROVE  PastMsg3'
<1>1. /\ StaKeys /\ AirKeys /\ AirGroup /\ AirType
      /\ held' \in Frames /\ kck' \in Nat /\ replay \in Nat /\ replay' \in Nat /\ first \in Nat
  BY DEF TypeInv, KeyInv, GroupInv, StationType, ApType
<1>2. Later' => sta' \in Through \/ Excused'
  BY Zenon, LaterStep DEF PastMsg3
<1>3. sta' = "done" => gk' # "off"
  <2>1. CASE UNCHANGED vars \/ AccessPoint
    BY <2>1 DEF vars, station, AccessPoint, ApRepeat, ApGiveUp, ApTakeMsg2, ApTakeAnswer,
                ApIgnore, ApRekey, PastMsg3
  <2>2. CASE Handshake \/ Timeout \/ Cancel \/ GroupKey
    BY <2>2 DEF Handshake, Preopen, TakeMsg1, TakeMsg3, Ignore, AddPtk, AddGtk, Install,
                OpenPort, Timeout, Cancel, GroupKey, TakeGroup, GroupAdd, GroupReply, station,
                PastMsg3
  <2>3. QED
    BY Zenon, <2>1, <2>2 DEF Next
<1>4. ASSUME ap' = "wait4", sta' \in Through
      PROVE  Answering' \/ Excused'
  <2>1. ASSUME ap = "wait4", sta \in Through,
               first' = first, anonce' = anonce, replay <= replay',
               \/ uplink' = uplink
               \/ uplink # << >> /\ ~Expects(Head(uplink)) /\ uplink' = Tail(uplink)
               \/ \E f \in Replies : uplink' = Append(uplink, f)
        PROVE  Answering' \/ Excused'
    BY Zenon, <1>4, <2>1, AnsweringKept, ExcusedKept DEF PastMsg3
  <2>2. CASE UNCHANGED vars
    BY <1>1, <1>4, <2>1, <2>2 DEF vars, station, air, accessPoint
  <2>3. CASE ApRepeat
    BY <1>1, <1>4, <2>1, <2>3 DEF ApRepeat, station
  <2>4. CASE ApTakeMsg2
    BY <1>1, <1>4, <2>4 DEF ApTakeMsg2, station, StaKeys, Through
  <2>5. CASE ApGiveUp \/ ApTakeAnswer \/ ApRekey
    BY <1>4, <2>5 DEF ApGiveUp, ApTakeAnswer, ApRekey
  <2>6. CASE ApIgnore
    BY <1>1, <1>4, <2>1, <2>6 DEF ApIgnore, station, accessPoint
  <2>7. CASE TakeMsg3
    <3>1. CASE sta' = "addPtk" /\ Arrives(Up("msg4"))
      <4>1. Head(eapolCh) = eapolCh[1] /\ 1 \in 1 .. Len(eapolCh)
        BY <1>1, <2>7, Popped DEF TakeMsg3, Got, AirType
      <4>2. ap = "wait4" /\ Current(eapolCh[1].replay)
        BY <1>4, <2>7, <4>1 DEF TakeMsg3, Got, Kinds, accessPoint
      <4>3. held' = eapolCh[1] /\ kck' = anonce /\ eapolCh[1].replay <= replay
        BY <1>1, <2>7, <4>1 DEF TakeMsg3, Take, Verified, AirKeys, AirGroup
      <4>4. /\ Up("msg4") \in Replies /\ Up("msg4").kind = "msg4"
            /\ first <= Up("msg4").replay /\ Up("msg4").replay <= replay /\ Up("msg4").key = anonce
        BY <1>1, <4>2, <4>3 DEF Up, Replies, Frames, Current
      <4>5. UNCHANGED accessPoint /\ uplink' = Append(uplink, Up("msg4"))
        BY <2>7, <3>1 DEF TakeMsg3, Arrives
      <4>6. QED
        BY Zenon, <4>2, <4>4, <4>5, AnswerSent
    <3>2. CASE msg4Lost' = TRUE
      BY Zenon, <3>2 DEF Excused
    <3>3. CASE sta' \in {"noGtk", "sendFailed"}
      BY <3>3 DEF Excused, Bad
    <3>4. QED
      BY Zenon, <2>7, <3>1, <3>2, <3>3 DEF TakeMsg3
  <2>8. CASE Preopen \/ TakeMsg1 \/ Timeout \/ Cancel
    BY <1>4, <2>8 DEF Preopen, TakeMsg1, Timeout, Cancel, Through
  <2>9. CASE Ignore \/ AddPtk \/ AddGtk \/ OpenPort
    BY <1>1, <1>4, <2>1, <2>9 DEF Ignore, AddPtk, AddGtk, Install, OpenPort, station, air,
                                  accessPoint, Through
  <2>10. CASE TakeGroup \/ GroupAdd
    BY <1>1, <1>4, <2>1, <2>10 DEF TakeGroup, GroupAdd, station, air, accessPoint
  <2>11. CASE GroupReply
    <3>1. Up("reply") \in Replies
      BY <1>1 DEF Up, Replies, Frames
    <3>2. QED
      BY <1>1, <1>4, <2>1, <2>11, <3>1 DEF GroupReply, Arrives, IsLost, station, accessPoint
  <2>12. QED
    BY Zenon, <2>2, <2>3, <2>4, <2>5, <2>6, <2>7, <2>8, <2>9, <2>10, <2>11
       DEF Next, AccessPoint, Handshake, GroupKey
<1>5. QED
  BY Zenon, <1>2, <1>3, <1>4 DEF PastMsg3

LEMMA KindsStep ==
    ASSUME TypeInv, GroupInv, Kinds, [Next]_vars
    PROVE  Kinds'
<1>1. /\ AirGroup /\ eapolCh \in Seq(Frames) /\ Len(eapolCh) \in Nat /\ first \in Nat
      /\ replay \in Nat
      /\ \A i \in 1 .. Len(eapolCh) : eapolCh[i].replay \in Nat
  BY AirReplays DEF TypeInv, GroupInv, ApType
<1>2. ASSUME NEW f, ToStation(f)
      PROVE  \A i \in 1 .. Len(eapolCh') :
                \/ i \in 1 .. Len(eapolCh) /\ eapolCh'[i] = eapolCh[i]
                \/ eapolCh'[i] = f
  BY <1>1, <1>2 DEF ToStation
<1>3. CASE eapolCh' = eapolCh /\ ap' = ap /\ first' = first
  BY <1>3 DEF Kinds, Current
<1>4. CASE eapolCh # << >> /\ eapolCh' = Tail(eapolCh) /\ ap' = ap /\ first' = first
  BY <1>1, <1>4, Popped DEF Kinds, Current
<1>5. CASE ApRepeat
  <2>1. /\ Down(Message).kind = Message /\ Down(Message).replay = replay + 1
        /\ first <= replay /\ ap' = ap /\ first' = first
        /\ ap \in {"wait2", "wait4", "rekey"}
    BY <1>5 DEF ApRepeat, Down, TypeInv, ApType
  <2>2. /\ ap = "wait2" => Message = "msg1"
        /\ ap = "wait4" => Message = "msg3"
        /\ ap = "rekey" => Message = "group"
    BY DEF Message
  <2>3. ToStation(Down(Message))
    BY <1>5 DEF ApRepeat
  <2>4. QED
    BY <1>1, <1>2, <2>1, <2>2, <2>3 DEF Kinds, Current
<1>6. CASE ApTakeMsg2
  <2>1. /\ Down("msg3").kind = "msg3" /\ Down("msg3").replay = replay + 1
        /\ first' = replay + 1 /\ ap' = "wait4" /\ ap = "wait2"
    BY <1>6 DEF ApTakeMsg2, Down
  <2>2. ToStation(Down("msg3"))
    BY <1>6 DEF ApTakeMsg2
  <2>3. \A i \in 1 .. Len(eapolCh) : eapolCh[i].replay < replay + 1 /\ eapolCh[i].kind = "msg1"
    BY <1>1, <2>1 DEF AirGroup, Kinds
  <2>4. QED
    BY <1>1, <1>2, <2>1, <2>2, <2>3 DEF Kinds, Current
<1>7. CASE ApRekey
  <2>1. /\ Down("group").kind = "group"
        /\ first' = replay + 1 /\ ap' = "rekey"
    BY <1>7 DEF ApRekey, Down
  <2>2. ToStation(Down("group"))
    BY <1>7 DEF ApRekey
  <2>3. \A i \in 1 .. Len(eapolCh) : eapolCh[i].replay < replay + 1
    BY <1>1 DEF AirGroup
  <2>4. QED
    BY <1>1, <1>2, <2>1, <2>2, <2>3 DEF Kinds, Current
<1>8. CASE ApGiveUp \/ ApTakeAnswer
  BY <1>8 DEF ApGiveUp, ApTakeAnswer, Kinds
<1>9. CASE UNCHANGED vars \/ ApIgnore
  BY <1>3, <1>9 DEF vars, air, ApIgnore, accessPoint
<1>10. CASE Handshake \/ Timeout \/ Cancel \/ GroupKey
  BY <1>3, <1>4, <1>10
     DEF Handshake, Preopen, TakeMsg1, TakeMsg3, Ignore, AddPtk, AddGtk, Install, OpenPort,
         Timeout, Cancel, GroupKey, TakeGroup, GroupAdd, GroupReply, Take, Got, air, accessPoint
<1>11. QED
  BY Zenon, <1>5, <1>6, <1>7, <1>8, <1>9, <1>10 DEF Next, AccessPoint

(* The arithmetic of the account: s copies sent, f faults and then g, k of  *)
(* them under way and then m, the loop busy with b of them and then with c. *)
LEMMA Account ==
    ASSUME NEW s \in Int, NEW f \in Nat, NEW g \in Nat, NEW b \in 0 .. 1, NEW c \in 0 .. 1,
           NEW k \in Nat, NEW m \in Nat, f <= g, s <= f + k + b,
           \/ m = k /\ (b = 0 \/ c = b \/ g = f + 1)
           \/ m = k - 1 /\ b = 0 /\ (c = 1 \/ g = f + 1)
    PROVE  s <= g + m + c
OBVIOUS

LEMMA OneMore ==
    ASSUME NEW s \in Int, NEW f \in Nat, NEW b \in 0 .. 1, NEW k \in Nat, s <= f + k + b
    PROVE  s + 1 <= f + (k + 1) + b /\ s + 1 <= (f + 1) + k + b
OBVIOUS

LEMMA FirstOne ==
    ASSUME NEW f \in Nat, NEW b \in 0 .. 1
    PROVE  1 <= f + 1 + b /\ 1 <= (f + 1) + 0 + b
OBVIOUS

(* The account as the station goes on: a message that stops being on its    *)
(* way has cost a fault or keeps the group-key loop busy.                   *)
LEMMA Balanced ==
    ASSUME TypeInv, TypeInv', UNCHANGED accessPoint, faults <= faults',
           NEW k \in Nat, Count(k), Sent <= faults + k + Busy, NEW m \in Nat, Count(m)',
           \/ m = k /\ (Busy = 0 \/ Busy' = Busy \/ faults' = faults + 1)
           \/ m = k - 1 /\ Busy = 0 /\ (Busy' = 1 \/ faults' = faults + 1)
    PROVE  Counted'
<1>1. Sent \in Int /\ Sent' = Sent
  BY DEF Sent, accessPoint, TypeInv, ApType
<1>2. faults \in Nat /\ faults' \in Nat
  BY KeyAssumption DEF TypeInv, FaultType
<1>3. Busy \in 0 .. 1 /\ Busy' \in 0 .. 1
  BY DEF Busy
<1>4. Sent <= faults' + m + Busy'
  BY Zenon, <1>1, <1>2, <1>3, Account
<1>5. m \in (0 .. Len(eapolCh))'
  BY DEF Count
<1>6. Sent' <= faults' + m + Busy'
  BY Zenon, <1>1, <1>4
<1>7. QED
  BY Zenon, <1>5, <1>6 DEF Counted

LEMMA CountedByStation ==
    ASSUME TypeInv, TypeInv', KeyInv, GroupInv, Heard, PastMsg3, Kinds, [Next]_vars,
           ap \in {"wait2", "wait4", "rekey"}, ~Excused, ~Answering,
           Handshake \/ Timeout \/ Cancel \/ GroupKey,
           NEW k \in Nat, Count(k), Sent <= faults + k + Busy
    PROVE  Counted'
<1>1. /\ StaKeys /\ AirKeys /\ AirGroup /\ HeldGroup /\ AirType
      /\ held \in Frames /\ held' \in Frames /\ kck' \in Nat
      /\ replay \in Nat /\ first \in Nat
      /\ faults \in Nat /\ faults' \in Nat /\ faults <= faults' /\ k \in Nat
  <2>1. k \in Nat
    BY AirReplays DEF Count
  <2>2. QED
    BY <2>1, FaultsGrow DEF TypeInv, KeyInv, GroupInv, StationType, ApType
<1>2. UNCHANGED accessPoint
  BY DEF Handshake, Preopen, TakeMsg1, TakeMsg3, Ignore, AddPtk, AddGtk, Install, OpenPort,
         Timeout, Cancel, GroupKey, TakeGroup, GroupAdd, GroupReply, accessPoint
<1>3. Excused' \/ Answering' => Counted'
  BY Zenon DEF Counted
<1>4. ASSUME UNCHANGED eapolCh, Busy = 0 \/ Busy' = Busy \/ faults' = faults + 1
      PROVE  Counted'
  <2>1. Count(k)'
    BY <1>2, <1>4, CountUnchanged DEF accessPoint
  <2>2. QED
    BY Zenon, <1>1, <1>2, <1>4, <2>1, Balanced
<1>5. ASSUME eapolCh # << >>, eapolCh' = Tail(eapolCh), Busy = 0,
             Current(Head(eapolCh).replay) => Busy' = 1 \/ faults' = faults + 1
      PROVE  Counted'
  <2>1. first' = first
    BY <1>2 DEF accessPoint
  <2>2. CASE Current(Head(eapolCh).replay)
    <3>1. Count(k - 1)' /\ k >= 1
      BY <1>5, <2>1, <2>2, CountPopped
    <3>2. k - 1 \in Nat
      BY <3>1
    <3>3. QED
      BY Zenon, <1>1, <1>2, <1>5, <2>2, <3>1, <3>2, Balanced
  <2>3. CASE ~Current(Head(eapolCh).replay)
    <3>1. Count(k)'
      BY <1>5, <2>1, <2>3, CountPopped
    <3>2. QED
      BY Zenon, <1>1, <1>2, <1>5, <3>1, Balanced
  <2>4. QED
    BY <2>2, <2>3
(* what is known of the first frame when it is one that counts *)
<1>6. ASSUME eapolCh # << >>
      PROVE  /\ Head(eapolCh).key = anonce /\ Head(eapolCh).replay <= replay
             /\ ap = "wait2" => Head(eapolCh).kind = "msg1"
             /\ ap = "wait4" => (Current(Head(eapolCh).replay) <=> Head(eapolCh).kind = "msg3")
             /\ ap = "rekey" /\ Current(Head(eapolCh).replay) => Head(eapolCh).kind = "group"
  <2>1. Head(eapolCh) = eapolCh[1] /\ 1 \in 1 .. Len(eapolCh)
    BY <1>1, <1>6, Popped DEF AirType
  <2>2. QED
    BY <1>1, <2>1 DEF AirKeys, AirGroup, Kinds
<1>7. /\ ap = "rekey" => sta \in Through
      /\ ap = "wait4" => sta \notin Through
      /\ ap = "wait2" => sta \notin Through
  BY <1>1 DEF PastMsg3, Later, StaKeys, Through
<1>8. sta \notin Bad
  BY Zenon DEF Excused
<1>9. gk \in {"wait", "add", "reply"} => sta = "done" /\ ap = "rekey"
  BY <1>1, <1>7, <1>8 DEF StaKeys, Through, Bad
<1>10. CASE Preopen \/ AddPtk \/ AddGtk \/ OpenPort \/ Timeout
  <2>1. UNCHANGED <<eapolCh, held>>
    BY <1>10 DEF Preopen, AddPtk, AddGtk, Install, OpenPort, Timeout, air
  <2>2. gk' = gk \/ gk \notin {"add", "reply"}
    BY <1>1, <1>10 DEF Preopen, AddPtk, AddGtk, Install, OpenPort, Timeout, StaKeys
  <2>3. Busy = 0 \/ Busy' = Busy
    BY <1>1, <1>2, <2>1, <2>2 DEF Busy, Current, accessPoint
  <2>4. QED
    BY <1>1, <1>4, <2>1, <2>3
<1>11. CASE TakeMsg1
  <2>1. /\ eapolCh # << >> /\ eapolCh' = Tail(eapolCh) /\ Head(eapolCh).kind = "msg1"
        /\ held' = Head(eapolCh) /\ kck' = held'.key /\ sta \in {"wait1", "wait3"} /\ gk' = gk
    BY <1>11 DEF TakeMsg1, Got, Take
  <2>2. Busy = 0
    BY <1>9, <2>1 DEF Busy
  <2>3. CASE Current(Head(eapolCh).replay)
    <3>1. ap = "wait2"
      BY <1>6, <2>1, <2>3
    <3>2. CASE Arrives(Up("msg2"))
      <4>1. /\ Up("msg2") \in Replies /\ Up("msg2").kind = "msg2"
            /\ first <= Up("msg2").replay /\ Up("msg2").replay <= replay /\ Up("msg2").key = anonce
        BY <1>1, <1>6, <2>1, <2>3 DEF Up, Replies, Frames, Current
      <4>2. QED
        BY Zenon, <1>2, <1>3, <3>1, <3>2, <4>1, AnswerSent DEF Arrives
    <3>3. CASE Fault
      BY <1>1, <1>5, <2>1, <2>2, <3>3 DEF Fault
    <3>4. QED
      BY Zenon, <1>11, <3>2, <3>3 DEF TakeMsg1, IsLost
  <2>4. CASE ~Current(Head(eapolCh).replay)
    BY <1>1, <1>5, <2>1, <2>2, <2>4
  <2>5. QED
    BY <2>3, <2>4
<1>12. CASE TakeMsg3
  <2>1. /\ eapolCh # << >> /\ Head(eapolCh).kind = "msg3" /\ sta = "wait3"
        /\ held' = Head(eapolCh) /\ kck' = kck /\ Verified
    BY <1>12 DEF TakeMsg3, Got, Take
  <2>2. ap = "wait4" /\ Current(Head(eapolCh).replay)
    BY <1>6, <1>7, <2>1 DEF Through
  <2>3. CASE Arrives(Up("msg4"))
    <3>1. /\ Up("msg4") \in Replies /\ Up("msg4").kind = "msg4"
          /\ first <= Up("msg4").replay /\ Up("msg4").replay <= replay /\ Up("msg4").key = anonce
      BY <1>1, <1>6, <2>1, <2>2 DEF Up, Replies, Frames, Current, Verified
    <3>2. QED
      BY Zenon, <1>2, <1>3, <2>2, <2>3, <3>1, AnswerSent DEF Arrives
  <2>4. CASE msg4Lost' = TRUE
    BY Zenon, <1>3, <2>4 DEF Excused
  <2>5. CASE sta' \in {"noGtk", "sendFailed"}
    BY <1>3, <2>5 DEF Excused, Bad
  <2>6. QED
    BY Zenon, <1>12, <2>3, <2>4, <2>5 DEF TakeMsg3
<1>13. CASE Ignore
  <2>1. /\ eapolCh # << >> /\ eapolCh' = Tail(eapolCh) /\ UNCHANGED <<held, gk, faults>>
        /\ ~Wanted /\ (sta \in {"wait1", "wait3"} \/ gk = "wait")
    BY <1>13 DEF Ignore, station, ghosts
  <2>2. Busy = 0
    BY <1>9, <2>1 DEF Busy
  <2>3. ASSUME Current(Head(eapolCh).replay)
        PROVE  FALSE
    <3>1. CASE ap = "wait2"
      BY <1>6, <1>9, <2>1, <3>1 DEF Wanted, Got
    <3>2. CASE ap = "wait4"
      BY <1>6, <1>9, <2>1, <2>3, <3>2 DEF Wanted, Got, Verified, Heard
    <3>3. CASE ap = "rekey"
      BY <1>6, <1>7, <1>9, <2>1, <2>3, <3>3 DEF Wanted, Got, Verified, Heard, Through
    <3>4. QED
      BY <3>1, <3>2, <3>3
  <2>4. QED
    BY <1>1, <1>5, <2>1, <2>2, <2>3
<1>14. CASE Cancel
  BY <1>3, <1>14 DEF Cancel, Excused, Bad
<1>15. CASE TakeGroup
  <2>1. /\ eapolCh # << >> /\ eapolCh' = Tail(eapolCh) /\ held' = Head(eapolCh) /\ gk = "wait"
        /\ (gk' = "add" /\ faults' = faults) \/ (gk' = "wait" /\ faults' = faults + 1)
    BY <1>15 DEF TakeGroup, Got, Take, Fault
  <2>2. Busy = 0
    BY <2>1 DEF Busy
  <2>3. Current(Head(eapolCh).replay) /\ gk' = "add" => Busy' = 1
    BY <1>2, <2>1 DEF Busy, Current, accessPoint
  <2>4. QED
    BY <1>1, <1>5, <2>1, <2>2, <2>3
<1>16. CASE GroupAdd
  <2>1. UNCHANGED <<eapolCh, held>> /\ gk = "add"
    BY <1>16 DEF GroupAdd, station, air
  <2>2. gk' = "reply" \/ faults' = faults + 1
    BY <1>16 DEF GroupAdd, Submit, Fault
  <2>3. gk' = "reply" => Busy' = Busy
    BY <1>2, <2>1 DEF Busy, Current, accessPoint
  <2>4. QED
    BY <1>1, <1>4, <2>1, <2>2, <2>3
<1>17. CASE GroupReply
  <2>1. UNCHANGED <<eapolCh, held, kck>> /\ gk = "reply"
    BY <1>17 DEF GroupReply, station
  <2>2. CASE Current(held.replay) /\ Arrives(Up("reply"))
    <3>1. ap = "rekey" /\ kck = anonce
      BY <1>9, <2>1 DEF Heard
    <3>2. /\ Up("reply") \in Replies /\ Up("reply").kind = "reply"
          /\ first <= Up("reply").replay /\ Up("reply").replay <= replay
          /\ Up("reply").key = anonce
      BY <1>1, <2>1, <2>2, <3>1 DEF Up, Replies, Frames, Current, HeldGroup
    <3>3. QED
      BY Zenon, <1>2, <1>3, <2>2, <3>1, <3>2, AnswerSent DEF Arrives
  <2>3. CASE ~Current(held.replay)
    <3>1. Busy = 0
      BY <2>3 DEF Busy
    <3>2. QED
      BY <1>1, <1>4, <2>1, <3>1
  <2>4. CASE faults' = faults + 1
    BY <1>1, <1>4, <2>1, <2>4
  <2>5. QED
    BY <1>17, <2>2, <2>3, <2>4 DEF GroupReply, IsLost, Fault
<1>18. QED
  BY Zenon, <1>10, <1>11, <1>12, <1>13, <1>14, <1>15, <1>16, <1>17 DEF Handshake, GroupKey

LEMMA CountedByAp ==
    ASSUME TypeInv, TypeInv', GroupInv, Counted, AccessPoint, [Next]_vars
    PROVE  Counted'
<1>1. /\ AirGroup /\ replay \in Nat /\ replay' \in Nat /\ first \in Nat /\ first' \in Nat
      /\ faults \in Nat /\ faults' \in Nat /\ anonce \in Nat /\ gtk' \in Nat
      /\ anonce' \in Nat /\ first <= replay
  <2>1. faults \in Nat /\ faults' \in Nat
    BY FaultsGrow
  <2>2. ApType /\ ApType' /\ AirGroup
    BY Zenon DEF TypeInv, GroupInv
  <2>3. QED
    BY KeyAssumption, <2>1, <2>2 DEF ApType
<1>2. Excused' \/ Answering' => Counted'
  BY Zenon DEF Counted
<1>3. ASSUME Excused
      PROVE  Counted'
  BY Zenon, <1>2, <1>3, ExcusedKept
<1>4. ASSUME first' = replay + 1, replay' = replay + 1,
             NEW f \in Frames, f.replay = replay', ToStation(f)
      PROVE  Counted'
  <2>1. replay < first'
    BY <1>1, <1>4
  <2>2. Count(1)' \/ (Count(0)' /\ Fault)
    BY Zenon, <1>1, <1>4, <2>1, CountRestarts
  <2>3. Sent' = 1 /\ Busy' \in 0 .. 1
    BY <1>1, <1>4 DEF Sent, Busy
  <2>4. CASE Count(1)'
    <3>1. 1 \in (0 .. Len(eapolCh))'
      BY <2>4 DEF Count
    <3>2. Sent' <= faults' + 1 + Busy'
      BY Zenon, <1>1, <2>3, FirstOne
    <3>3. QED
      BY Zenon, <2>4, <3>1, <3>2 DEF Counted
  <2>5. CASE Count(0)' /\ Fault
    <3>1. 0 \in (0 .. Len(eapolCh))' /\ faults' = faults + 1
      BY <2>5 DEF Count, Fault
    <3>2. Sent' <= faults' + 0 + Busy'
      BY Zenon, <1>1, <2>3, <3>1, FirstOne
    <3>3. QED
      BY Zenon, <2>5, <3>1, <3>2 DEF Counted
  <2>6. QED
    BY Zenon, <2>2, <2>4, <2>5
<1>5. CASE ApTakeMsg2
  <2>1. Down("msg3") \in Frames /\ Down("msg3").replay = replay'
    BY <1>1 DEF Down, Frames
  <2>2. QED
    BY <1>4, <1>5, <2>1 DEF ApTakeMsg2
<1>6. CASE ApRekey
  <2>1. Down("group") \in Frames /\ Down("group").replay = replay'
    BY <1>1 DEF Down, Frames
  <2>2. QED
    BY <1>4, <1>6, <2>1 DEF ApRekey
<1>7. CASE ApGiveUp \/ ApTakeAnswer
  BY <1>7 DEF ApGiveUp, ApTakeAnswer, Counted
<1>8. CASE ApIgnore
  <2>1. /\ UNCHANGED accessPoint /\ UNCHANGED <<eapolCh, held, gk, faults>>
        /\ uplink # << >> /\ ~Expects(Head(uplink)) /\ uplink' = Tail(uplink)
    BY <1>8 DEF ApIgnore, station, ghosts
  <2>2. CASE Answering
    BY <1>1, <1>2, <2>1, <2>2, AnsweringKept DEF accessPoint
  <2>3. ASSUME NEW k \in 0 .. Len(eapolCh), Count(k), Sent <= faults + k + Busy
        PROVE  Counted'
    <3>1. Count(k)'
      BY <2>1, <2>3, CountUnchanged DEF accessPoint
    <3>2. Busy' = Busy
      BY <2>1 DEF Busy, Current, accessPoint
    <3>3. k \in Nat
      BY AirReplays
    <3>4. faults <= faults'
      BY FaultsGrow
    <3>5. QED
      BY Zenon, <2>1, <2>3, <3>1, <3>2, <3>3, <3>4, Balanced
  <2>4. CASE ap \notin {"wait2", "wait4", "rekey"}
    BY <2>1, <2>4 DEF accessPoint, Counted
  <2>5. QED
    BY Zenon, <1>3, <2>2, <2>3, <2>4 DEF Counted
<1>9. CASE ApRepeat
  <2>1. /\ ap' = ap /\ first' = first /\ replay' = replay + 1 /\ UNCHANGED <<held, gk, uplink>>
        /\ ToStation(Down(Message)) /\ ap \in {"wait2", "wait4", "rekey"}
    BY <1>9 DEF ApRepeat, station
  <2>2. CASE Answering
    <3>1. uplink # << >>
      BY <2>2 DEF Answering
    <3>2. anonce' = anonce
      BY <1>9, <3>1 DEF ApRepeat, Quiet
    <3>3. QED
      BY <1>1, <1>2, <2>1, <2>2, <3>2, AnsweringKept
  <2>3. ASSUME NEW k \in 0 .. Len(eapolCh), Count(k), Sent <= faults + k + Busy
        PROVE  Counted'
    <3>1. Busy' = Busy /\ Busy \in 0 .. 1
      BY <2>1 DEF Busy, Current
    <3>2. k \in Nat
      BY AirReplays
    <3>3. Sent' = Sent + 1 /\ Sent \in Int
      BY <1>1, <2>1 DEF Sent
    <3>4. CASE eapolCh' = Append(eapolCh, Down(Message)) /\ faults' = faults
      <4>1. Down(Message) \in Frames /\ first <= Down(Message).replay
        BY <1>1, <2>1 DEF Down, Message, Frames
      <4>2. Count(k + 1)'
        BY <2>1, <2>3, <3>4, <4>1, CountPushed
      <4>3. k + 1 \in (0 .. Len(eapolCh))'
        BY <4>2 DEF Count
      <4>4. Sent + 1 <= faults + (k + 1) + Busy
        BY Zenon, <1>1, <2>3, <3>1, <3>2, <3>3, OneMore
      <4>5. Sent' <= faults' + (k + 1) + Busy'
        BY Zenon, <3>1, <3>3, <3>4, <4>4
      <4>6. QED
        BY Zenon, <4>2, <4>3, <4>5 DEF Counted
    <3>5. CASE eapolCh' = eapolCh /\ faults' = faults + 1
      <4>1. Count(k)'
        BY <2>1, <2>3, <3>5, CountUnchanged
      <4>2. k \in (0 .. Len(eapolCh))'
        BY <4>1 DEF Count
      <4>3. Sent + 1 <= (faults + 1) + k + Busy
        BY Zenon, <1>1, <2>3, <3>1, <3>2, <3>3, OneMore
      <4>4. Sent' <= faults' + k + Busy'
        BY Zenon, <3>1, <3>3, <3>5, <4>3
      <4>5. QED
        BY Zenon, <4>1, <4>2, <4>4 DEF Counted
    <3>6. QED
      BY <2>1, <3>4, <3>5 DEF ToStation, Fault
  <2>4. QED
    BY Zenon, <1>3, <2>1, <2>2, <2>3 DEF Counted
<1>10. QED
  BY Zenon, <1>5, <1>6, <1>7, <1>8, <1>9 DEF AccessPoint

LEMMA CountedStep ==
    ASSUME TypeInv, TypeInv', KeyInv, GroupInv, Heard, PastMsg3, Kinds, Counted, [Next]_vars
    PROVE  Counted'
<1>1. CASE UNCHANGED vars
  BY <1>1 DEF vars, station, air, accessPoint, ghosts, Counted, Count, Newest, Sent, Busy,
              Answering, Expects, Excused, Current
<1>2. CASE AccessPoint
  BY Zenon, <1>2, CountedByAp
<1>3. CASE Handshake \/ Timeout \/ Cancel \/ GroupKey
  <2>1. UNCHANGED accessPoint
    BY <1>3 DEF Handshake, Preopen, TakeMsg1, TakeMsg3, Ignore, AddPtk, AddGtk, Install, OpenPort,
         Timeout, Cancel, GroupKey, TakeGroup, GroupAdd, GroupReply, accessPoint
  <2>2. CASE ap \notin {"wait2", "wait4", "rekey"}
    BY <2>1, <2>2 DEF accessPoint, Counted
  <2>3. CASE Excused
    BY Zenon, <2>3, ExcusedKept DEF Counted
  <2>4. CASE Answering
    <3>1. held' \in Frames /\ kck' \in Nat
      BY DEF TypeInv, StationType
    <3>2. \A kind \in {"msg2", "msg4", "reply"} : Up(kind) \in Replies
      BY <3>1 DEF Up, Replies, Frames
    <3>3. uplink' = uplink \/ \E f \in Replies : uplink' = Append(uplink, f)
      BY <1>3, <3>2
         DEF Handshake, Preopen, TakeMsg1, TakeMsg3, Ignore, AddPtk, AddGtk, Install, OpenPort,
             Timeout, Cancel, GroupKey, TakeGroup, GroupAdd, GroupReply, Arrives, IsLost, air
    <3>4. replay <= replay'
      BY <2>1 DEF accessPoint, TypeInv, ApType
    <3>5. Answering'
      BY <2>1, <2>4, <3>3, <3>4, AnsweringKept DEF accessPoint
    <3>6. QED
      BY Zenon, <3>5 DEF Counted
  <2>5. ASSUME ap \in {"wait2", "wait4", "rekey"}, ~Excused, ~Answering,
               NEW k \in 0 .. Len(eapolCh), Count(k), Sent <= faults + k + Busy
        PROVE  Counted'
    <3>1. k \in Nat
      BY AirReplays
    <3>2. QED
      BY Zenon, <1>3, <2>5, <3>1, CountedByStation
  <2>6. QED
    BY Zenon, <2>2, <2>3, <2>4, <2>5 DEF Counted
<1>4. QED
  BY Zenon, <1>1, <1>2, <1>3 DEF Next

LEMMA SurvivedStep ==
    ASSUME TypeInv, TypeInv', Counted, LossSurvived, [Next]_vars
    PROVE  LossSurvived'
<1>1. faults \in Nat /\ faults' \in Nat /\ faults <= faults'
  BY FaultsGrow
<1>2. ASSUME faults >= Tries \/ Excused
      PROVE  LossSurvived'
  <2>1. faults >= Tries => faults' >= Tries
    BY <1>1, KeyAssumption
  <2>2. QED
    BY Zenon, <1>2, <2>1, ExcusedKept DEF LossSurvived, Excused, Bad
<1>3. CASE ap = "gone"
  BY Zenon, <1>2, <1>3 DEF LossSurvived, Excused, Bad
<1>4. CASE ApGiveUp
  <2>1. /\ ap \in {"wait2", "wait4", "rekey"} /\ replay + 1 = first + Tries
        /\ eapolCh = << >> /\ uplink = << >> /\ gk \in {"off", "wait"}
    BY <1>4 DEF ApGiveUp, Quiet
  <2>2. ~Answering
    BY <2>1 DEF Answering
  <2>3. ASSUME NEW k \in 0 .. Len(eapolCh), Sent <= faults + k + Busy
        PROVE  faults >= Tries
    <3>1. k = 0 /\ Busy = 0
      BY <2>1 DEF Busy
    <3>2. Sent = Tries
      BY <2>1, KeyAssumption DEF Sent, TypeInv, ApType
    <3>3. Tries <= faults + 0 + 0
      BY Zenon, <2>3, <3>1, <3>2
    <3>4. QED
      BY <1>1, <3>3, KeyAssumption
  <2>4. QED
    BY Zenon, <1>2, <2>1, <2>2, <2>3 DEF Counted
<1>5. CASE ap # "gone" /\ ~ApGiveUp
  <2>1. ap' # "gone"
    <3>1. CASE UNCHANGED vars
      BY <1>5, <3>1 DEF vars, accessPoint
    <3>2. CASE AccessPoint
      BY <1>5, <3>2 DEF AccessPoint, ApRepeat, ApTakeMsg2, ApTakeAnswer, ApIgnore, ApRekey,
                        accessPoint
    <3>3. CASE Handshake \/ Timeout \/ Cancel \/ GroupKey
      BY <1>5, <3>3
         DEF Handshake, Preopen, TakeMsg1, TakeMsg3, Ignore, AddPtk, AddGtk, Install, OpenPort,
             Timeout, Cancel, GroupKey, TakeGroup, GroupAdd, GroupReply, accessPoint
    <3>4. QED
      BY Zenon, <3>1, <3>2, <3>3 DEF Next
  <2>2. QED
    BY <2>1 DEF LossSurvived
<1>6. QED
  BY <1>3, <1>4, <1>5

LEMMA LossStep == TypeInv /\ KeyInv /\ GroupInv /\ LossInv /\ [Next]_vars => LossInv'
<1> SUFFICES ASSUME TypeInv, KeyInv, GroupInv, LossInv, [Next]_vars PROVE LossInv'
  OBVIOUS
<1>1. TypeInv'
  BY TypeStep
<1>2. Heard /\ PastMsg3 /\ Kinds /\ Counted /\ LossSurvived
  BY Zenon DEF LossInv
<1>3. Heard' /\ PastMsg3' /\ Kinds' /\ Counted' /\ LossSurvived'
  BY Zenon, <1>1, <1>2, HeardStep, PastMsg3Step, KindsStep, CountedStep, SurvivedStep
<1>4. QED
  BY Zenon, <1>3 DEF LossInv

(* The access point gives the station up only after as many faults as it    *)
(* has tries, or where the code has no answer: for any number of tries,     *)
(* faults and rekeys and any capacity of eapolCh, a single answered copy of *)
(* each message is enough.                                                  *)
THEOREM LossAlwaysSurvived == Spec => []LossSurvived
<1>1. Init => TypeInv /\ KeyInv /\ GroupInv /\ LossInv
  BY InitType, InitKeys, InitGroup, InitLoss
<1>2. TypeInv /\ KeyInv /\ GroupInv /\ LossInv /\ [Next]_vars
        => (TypeInv /\ KeyInv /\ GroupInv /\ LossInv)'
  BY TypeStep, KeyStep, GroupStep, LossStep
<1>3. LossInv => LossSurvived
  BY DEF LossInv
<1>4. QED
  BY <1>1, <1>2, <1>3, PTL DEF Spec
=============================================================================
