--------------------------- MODULE PresenceProofs ---------------------------
(***************************************************************************)
(* Proofs about Presence, for any histories of the bus, any passes over it *)
(* and any number of them that hang or fail.                               *)
(***************************************************************************)
EXTENDS Presence, TLAPS

(* The type invariant in three parts: the bus and its passes, the cache,    *)
(* and what the readers hold.                                               *)
PassType ==
    /\ hist \in Histories /\ now \in 1 .. Len(hist)
    /\ pass \in [Slots -> Pass] /\ \A s \in Slots : pass[s].seen \in 0 .. now
    /\ current \in Slots \cup {NoPass} /\ (current # NoPass => pass[current].at # "free")
    /\ overdue \in BOOLEAN /\ hung \in 0 .. MaxHung /\ failed \in 0 .. MaxFailures

CacheType ==
    /\ devs \in SUBSET Devices /\ shown \in 0 .. now
    /\ ok \in BOOLEAN /\ fresh \in BOOLEAN

ReaderType ==
    /\ isHardwareUp \in BOOLEAN /\ isTunUp \in BOOLEAN /\ healed \in BOOLEAN
    /\ req \in Request /\ view \in {"none", "dead", "alive"}
    /\ named \in BOOLEAN /\ switching \in BOOLEAN

Types == PassType /\ CacheType /\ ReaderType

(* A pass over the bus: every way the passes and their moment change.       *)
PassSteps == \E s \in Slots : Enumerate(s) \/ EnumerateFails(s) \/ Hang(s) \/ Publish(s)

(* The present is a natural number within a history.                        *)
LEMMA Present ==
    ASSUME PassType
    PROVE  /\ hist \in Seq(Moment) /\ Len(hist) \in Nat
           /\ now \in Nat /\ now >= 1 /\ now <= Len(hist)
BY PresenceAssumption DEF PassType

(* The next moment keeps the types of the passes.                           *)
LEMMA NextMoment ==
    ASSUME PassType, shown \in 0 .. now, now < Len(hist), now' = now + 1, UNCHANGED <<hist, passes>>
    PROVE  PassType' /\ shown \in 0 .. now'
<1>1. now' \in 1 .. Len(hist)
  BY Present
<1>2. ASSUME NEW s \in Slots PROVE pass[s].seen \in 0 .. now'
  BY Present DEF PassType
<1>3. shown \in 0 .. now'
  BY Present
<1>4. QED
  BY <1>1, <1>2, <1>3 DEF PassType, passes

(* A call of CachedDongles puts a free slot to work, or nothing.            *)
LEMMA BeginType ==
    ASSUME PassType, Begin, UNCHANGED bus
    PROVE  PassType'
<1>1. CASE UNCHANGED passes
  BY <1>1 DEF PassType, passes, bus
<1>2. CASE ~UNCHANGED passes
  <2>1. PICK s \in Slots :
          /\ current' = s /\ pass' = [pass EXCEPT ![s] = [Free EXCEPT !.at = "begun"]]
          /\ overdue' = FALSE /\ UNCHANGED <<hung, failed>>
    BY <1>2 DEF Begin
  <2> DEFINE p == [Free EXCEPT !.at = "begun"]
  <2>3. p \in Pass /\ p.seen = 0 /\ p.at # "free"
    BY DEF Pass, Free
  <2>4. pass' = [pass EXCEPT ![s] = p]
    BY <2>1
  <2>5. 0 \in 0 .. now
    BY Present
  <2> HIDE DEF p
  <2>6. QED
    BY <2>1, <2>3, <2>4, <2>5 DEF PassType, bus
<1>3. QED
  BY <1>1, <1>2

(* A pass that reads, hangs or is published stays one.                      *)
LEMMA PassKept ==
    ASSUME PassType, PassSteps
    PROVE  PassType' /\ UNCHANGED bus
<1>1. PICK s \in Slots : Enumerate(s) \/ EnumerateFails(s) \/ Hang(s) \/ Publish(s)
  BY DEF PassSteps
<1>2. pass[s] \in Pass /\ pass[s].seen \in 0 .. now
  BY DEF PassType
<1>3. now \in 0 .. now /\ 0 \in 0 .. now /\ now \in Nat
  BY Present
<1>4. CASE Enumerate(s)
  <2> DEFINE p == [pass[s] EXCEPT !.at = "read", !.seen = now]
  <2>1. pass' = [pass EXCEPT ![s] = p]
    BY <1>4 DEF Enumerate, PassType
  <2>2. p \in Pass /\ p.seen = now /\ p.at = "read"
    BY <1>2, <1>3 DEF Pass
  <2>3. UNCHANGED <<bus, current, overdue, hung, failed>>
    BY <1>4 DEF Enumerate
  <2> HIDE DEF p
  <2>4. QED
    BY <1>3, <2>1, <2>2, <2>3 DEF PassType, bus
<1>5. CASE EnumerateFails(s)
  <2> DEFINE p == [pass[s] EXCEPT !.at = "read", !.seen = 0]
  <2>1. pass' = [pass EXCEPT ![s] = p]
    BY <1>5 DEF EnumerateFails, PassType
  <2>2. p \in Pass /\ p.seen = 0 /\ p.at = "read"
    BY <1>2, <1>3 DEF Pass
  <2>3. UNCHANGED <<bus, current, overdue, hung>> /\ failed' \in 0 .. MaxFailures
    BY <1>5, PresenceAssumption DEF EnumerateFails, PassType
  <2> HIDE DEF p
  <2>4. QED
    BY <1>3, <2>1, <2>2, <2>3 DEF PassType, bus
<1>6. CASE Hang(s)
  <2> DEFINE p == [pass[s] EXCEPT !.hangs = TRUE]
  <2>1. pass' = [pass EXCEPT ![s] = p]
    BY <1>6 DEF Hang, PassType
  <2>2. p \in Pass /\ p.seen = pass[s].seen /\ p.at = pass[s].at
    BY <1>2, <1>3 DEF Pass
  <2>3. UNCHANGED <<bus, current, overdue, failed>> /\ hung' \in 0 .. MaxHung
    BY <1>6, PresenceAssumption DEF Hang, PassType
  <2> HIDE DEF p
  <2>4. QED
    BY <1>2, <1>3, <2>1, <2>2, <2>3 DEF PassType, bus
<1>7. CASE Publish(s)
  <2>1. pass' = [pass EXCEPT ![s] = Free] /\ UNCHANGED <<bus, overdue, hung, failed>>
    BY <1>7 DEF Publish
  <2>2. current' = IF s = current THEN NoPass ELSE current
    BY <1>7 DEF Publish, cache
  <2>3. Free \in Pass /\ Free.seen = 0
    BY DEF Free, Pass
  <2>4. QED
    BY <1>3, <2>1, <2>2, <2>3 DEF PassType, bus
<1>8. QED
  BY <1>1, <1>4, <1>5, <1>6, <1>7

(* Only a pass that is published changes the cache.                         *)
LEMMA CacheKept ==
    ASSUME PassType, CacheType, PassSteps
    PROVE  CacheType'
<1>1. PICK s \in Slots : Enumerate(s) \/ EnumerateFails(s) \/ Hang(s) \/ Publish(s)
  BY DEF PassSteps
<1>2. CASE UNCHANGED <<bus, cache>>
  BY <1>2 DEF CacheType, bus, cache
<1>3. CASE Publish(s) /\ s = current
  <2>1. Listed(pass[s]) \in SUBSET Devices
    BY DEF Listed, Classified, Devices
  <2>2. pass[s].seen \in 0 .. now
    BY DEF PassType
  <2>3. /\ devs' = Listed(pass[s]) /\ ok' = TRUE /\ fresh' = TRUE
        /\ shown' = IF pass[s].seen = 0 THEN shown ELSE pass[s].seen
        /\ now' = now
    BY <1>3 DEF Publish, bus
  <2>4. QED
    BY <2>1, <2>2, <2>3 DEF CacheType
<1>4. QED
  BY <1>1, <1>2, <1>3 DEF Enumerate, EnumerateFails, Hang, Publish

(* The readers' steps keep the types of what they hold.                     *)
LEMMA ReaderKept ==
    ASSUME Types, Tick \/ StatusBegins \/ StatusAnswered \/ ViewExpires
    PROVE  ReaderType'
<1>1. CASE Tick
  <2>1. isHardwareUp' \in BOOLEAN
    BY <1>1, Zenon DEF Tick, HardwarePresent
  <2>2. isTunUp' \in BOOLEAN
    BY <1>1, Zenon DEF Tick, TunUp
  <2>3. healed' \in BOOLEAN
    <3>1. healed' = healed \/ healed' \in BOOLEAN
      BY <1>1 DEF Tick, Heal
    <3>2. QED
      BY <3>1 DEF Types, ReaderType
  <2>4. QED
    BY <1>1, <2>1, <2>2, <2>3 DEF Tick, Types, ReaderType, status
<1>2. CASE StatusBegins
  <2>1. (devs # {} /\ named) \in BOOLEAN
    BY Zenon
  <2>2. ok \in BOOLEAN /\ devs \in SUBSET Devices
    BY DEF Types, CacheType
  <2>3. req' = [busy |-> TRUE, list |-> devs, probed |-> ok, ssid |-> (devs # {} /\ named)]
    BY <1>2 DEF StatusBegins
  <2>4. req' \in Request
    BY <2>1, <2>2, <2>3, Zenon DEF Request
  <2>5. QED
    BY <1>2, <2>4 DEF StatusBegins, Types, ReaderType, watchdog
<1>3. CASE StatusAnswered
  <2>1. NoReq \in Request
    BY DEF NoReq, Request, Devices
  <2>2. view' \in {"none", "dead", "alive"}
    BY <1>3 DEF StatusAnswered, ReadRecord, Types, ReaderType
  <2>3. QED
    BY <1>3, <2>1, <2>2 DEF StatusAnswered, Types, ReaderType, watchdog
<1>4. CASE ViewExpires
  BY <1>4 DEF ViewExpires, Types, ReaderType, watchdog
<1>5. QED
  BY <1>1, <1>2, <1>3, <1>4

(* The parts of the type invariant hold together in every state.            *)
LEMMA TypesHold == Spec => []Types
<1>1. Init => Types
  <2> SUFFICES ASSUME Init PROVE Types
    OBVIOUS
  <2>1. hist \in Histories /\ Len(hist) \in Nat /\ Len(hist) > 0
    BY PresenceAssumption DEF Init
  <2>2. Free \in Pass /\ Free.seen = 0 /\ NoReq \in Request
    BY DEF Free, Pass, NoReq, Request, Devices
  <2>3. PassType
    <3>1. pass = [s \in Slots |-> Free] /\ now = 1 /\ current = NoPass
      BY DEF Init
    <3>2. pass \in [Slots -> Pass] /\ \A s \in Slots : pass[s].seen \in 0 .. now
      BY <2>2, <3>1
    <3>3. now \in 1 .. Len(hist)
      BY <2>1, <3>1
    <3>4. hung \in 0 .. MaxHung /\ failed \in 0 .. MaxFailures
      BY PresenceAssumption DEF Init
    <3>5. overdue \in BOOLEAN
      BY Zenon DEF Init
    <3>6. QED
      BY <2>1, <3>1, <3>2, <3>3, <3>4, <3>5 DEF PassType
  <2>4. CacheType
    <3>1. devs = {} /\ shown = 0 /\ now = 1 /\ ok = FALSE /\ fresh = FALSE
      BY DEF Init
    <3>2. shown \in 0 .. now /\ devs \in SUBSET Devices
      BY <3>1
    <3>3. QED
      BY <3>1, <3>2 DEF CacheType
  <2>5. ReaderType
    BY <2>2 DEF Init, ReaderType
  <2>6. QED
    BY <2>3, <2>4, <2>5 DEF Types
<1>2. Types /\ [Next]_vars => Types'
  <2> SUFFICES ASSUME Types, [Next]_vars PROVE Types'
    OBVIOUS
  <2> USE DEF Types
  <2>1. CASE Changes \/ SwitchEjects
    <3>1. /\ now < Len(hist) /\ now' = now + 1 /\ UNCHANGED <<hist, passes, cache>>
          /\ healed' = FALSE /\ UNCHANGED <<isHardwareUp, isTunUp, status>>
          /\ switching' = FALSE \/ switching' = switching
      BY <2>1 DEF Changes, SwitchEjects
    <3>2. PassType' /\ CacheType'
      BY <3>1, NextMoment DEF CacheType, cache
    <3>3. QED
      BY <3>1, <3>2 DEF ReaderType, status
  <2>2. CASE Expires
    BY <2>2 DEF Expires, PassType, CacheType, ReaderType, bus, passes, watchdog, status
  <2>3. CASE Overdue
    BY <2>3 DEF Overdue, PassType, CacheType, ReaderType, bus, cache, watchdog, status
  <2>4. CASE ViewExpires \/ StatusAnswered
    <3>1. UNCHANGED <<bus, passes, cache>>
      BY <2>4 DEF ViewExpires, StatusAnswered
    <3>2. QED
      BY <2>4, <3>1, ReaderKept DEF PassType, CacheType, bus, passes, cache
  <2>5. CASE PassSteps
    <3>1. UNCHANGED <<watchdog, status, switching>>
      BY <2>5 DEF PassSteps, Enumerate, EnumerateFails, Hang, Publish
    <3>2. QED
      BY <2>5, <3>1, PassKept, CacheKept DEF ReaderType, watchdog, status
  <2>6. CASE Tick \/ StatusBegins
    <3>1. Begin /\ UNCHANGED <<bus, cache>>
      BY <2>6 DEF Tick, StatusBegins
    <3>2. PassType'
      BY <3>1, BeginType
    <3>3. QED
      BY <2>6, <3>1, <3>2, ReaderKept DEF CacheType, bus, cache
  <2>7. CASE TopologyRead
    <3>1. Begin /\ UNCHANGED <<bus, cache, watchdog, status, switching>>
      BY <2>7 DEF TopologyRead
    <3>2. PassType'
      BY <3>1, BeginType
    <3>3. QED
      BY <3>1, <3>2 DEF CacheType, ReaderType, bus, cache, watchdog, status
  <2>8. CASE Connect \/ Disconnect
    BY <2>8 DEF Connect, Disconnect, PassType, CacheType, ReaderType, bus, passes, cache, watchdog
  <2>9. CASE SwitchFinds \/ SwitchFails
    BY <2>9 DEF SwitchFinds, SwitchFails, PassType, CacheType, ReaderType, bus, passes, cache,
                watchdog, status
  <2>10. CASE UNCHANGED vars
    BY <2>10 DEF vars, PassType, CacheType, ReaderType, bus, passes, cache, watchdog, status
  <2>11. QED
    BY <2>1, <2>2, <2>3, <2>4, <2>5, <2>6, <2>7, <2>8, <2>9, <2>10 DEF Next, PassSteps
<1>3. QED
  BY <1>1, <1>2, PTL DEF Spec

(* Type correctness: every state of every behaviour has the declared types. *)
THEOREM TypeCorrect == Spec => []TypeOK
<1>1. Types => TypeOK
  BY DEF Types, PassType, CacheType, ReaderType, TypeOK
<1>2. QED
  BY <1>1, TypesHold, PTL

(* The generation at work: what the current pass has read is at least as    *)
(* late as what the list shows.                                             *)
CurrentInv ==
    current # NoPass /\ pass[current].at = "read" /\ pass[current].seen # 0
        => shown <= pass[current].seen

(* A pass becomes the current one before it reads the bus, and the moment   *)
(* shown moves only when the current pass gives its place up.               *)
LEMMA CurrentHolds == Spec => []CurrentInv
<1>1. Init => CurrentInv
  BY DEF Init, CurrentInv
<1>2. Types /\ CurrentInv /\ [Next]_vars => CurrentInv'
  <2> SUFFICES ASSUME Types, CurrentInv, [Next]_vars PROVE CurrentInv'
    OBVIOUS
  <2>1. CASE UNCHANGED <<passes, shown>>
    BY <2>1 DEF CurrentInv, passes
  <2>2. CASE Overdue
    BY <2>2 DEF Overdue, CurrentInv, cache
  <2>3. CASE Begin /\ UNCHANGED shown
    <3>1. CASE ~UNCHANGED passes
      <4>1. PICK s \in Slots :
              current' = s /\ pass' = [pass EXCEPT ![s] = [Free EXCEPT !.at = "begun"]]
        BY <2>3, <3>1 DEF Begin
      <4>2. pass'[s].at = "begun"
        BY <4>1 DEF Types, PassType, Free
      <4>3. QED
        BY <4>1, <4>2 DEF CurrentInv
    <3>2. QED
      BY <2>1, <2>3, <3>1
  <2>4. ASSUME NEW s \in Slots, Enumerate(s) PROVE CurrentInv'
    <3>1. shown' <= now /\ shown' = shown /\ current' = current
      BY <2>4, Present DEF Enumerate, Types, CacheType, cache
    <3>2. pass'[s].seen = now /\ \A r \in Slots \ {s} : pass'[r] = pass[r]
      BY <2>4 DEF Enumerate, Types, PassType, Pass
    <3>3. QED
      BY <3>1, <3>2 DEF CurrentInv, Types, PassType
  <2>5. ASSUME NEW s \in Slots, EnumerateFails(s) PROVE CurrentInv'
    <3>1. shown' = shown /\ current' = current
      BY <2>5 DEF EnumerateFails, cache
    <3>2. pass'[s].seen = 0 /\ \A r \in Slots \ {s} : pass'[r] = pass[r]
      BY <2>5 DEF EnumerateFails, Types, PassType, Pass
    <3>3. QED
      BY <3>1, <3>2 DEF CurrentInv, Types, PassType
  <2>6. ASSUME NEW s \in Slots, Hang(s) PROVE CurrentInv'
    <3>1. shown' = shown /\ current' = current
      BY <2>6 DEF Hang, cache
    <3>2. \A r \in Slots : pass'[r].at = pass[r].at /\ pass'[r].seen = pass[r].seen
      BY <2>6 DEF Hang, Types, PassType, Pass
    <3>3. QED
      BY <3>1, <3>2 DEF CurrentInv, Types, PassType
  <2>7. ASSUME NEW s \in Slots, Publish(s) PROVE CurrentInv'
    <3>1. CASE s = current
      BY <2>7, <3>1 DEF Publish, CurrentInv
    <3>2. CASE s # current
      <4>1. shown' = shown /\ current' = current
        BY <2>7, <3>2 DEF Publish, cache
      <4>2. \A r \in Slots \ {s} : pass'[r] = pass[r]
        BY <2>7 DEF Publish, Types, PassType
      <4>3. QED
        BY <3>2, <4>1, <4>2 DEF CurrentInv, Types, PassType
    <3>3. QED
      BY <3>1, <3>2
  <2>8. QED
    <3>1. CASE PassSteps
      BY <3>1, <2>4, <2>5, <2>6, <2>7 DEF PassSteps
    <3>2. CASE ~PassSteps
      BY <3>2, <2>1, <2>2, <2>3
         DEF Next, PassSteps, Changes, Expires, ViewExpires, Tick, StatusBegins, StatusAnswered,
             TopologyRead, Connect, Disconnect, SwitchFinds, SwitchEjects, SwitchFails, vars, cache
    <3>3. QED
      BY <3>1, <3>2
<1>3. QED
  BY <1>1, <1>2, TypesHold, PTL DEF Spec

(* The cache with its passes implements the promise made to its readers:    *)
(* the list is the bus of one moment, never an earlier one than before.     *)
THEOREM Refinement == Spec => ImplementsObserver
<1>1. Init => O!Init
  BY DEF Init, O!Init
<1>2. Types /\ CurrentInv /\ [Next]_vars => [O!Next]_(O!vars)
  <2> SUFFICES ASSUME Types, CurrentInv, [Next]_vars PROVE [O!Next]_(O!vars)
    OBVIOUS
  <2>1. CASE UNCHANGED <<hist, now, shown, devs>>
    BY <2>1 DEF O!vars
  <2>2. CASE Changes \/ SwitchEjects
    <3>1. O!Pass
      BY <2>2 DEF Changes, SwitchEjects, O!Pass, cache
    <3>2. QED
      BY <3>1 DEF O!Next
  <2>3. ASSUME NEW s \in Slots, Publish(s), s = current PROVE [O!Next]_(O!vars)
    <3>1. /\ devs' = Listed(pass[s]) /\ UNCHANGED <<hist, now>>
          /\ shown' = IF pass[s].seen = 0 THEN shown ELSE pass[s].seen
      BY <2>3 DEF Publish, bus
    <3>2. CASE pass[s].seen = 0
      BY <3>1, <3>2 DEF Listed, O!Fail, O!Next
    <3>3. CASE pass[s].seen # 0
      <4> DEFINE m == pass[s].seen
      <4>1. m \in 1 .. now
        BY <3>3, Present DEF Types, PassType
      <4>2. shown <= m
        BY <2>3, <3>3, PresenceAssumption DEF CurrentInv, Publish
      <4>3. shown' = m /\ devs' = Classified(hist[m].bus)
        BY <3>1, <3>3 DEF Listed
      <4>4. O!Show
        BY <3>1, <4>1, <4>2, <4>3 DEF O!Show
      <4>5. QED
        BY <4>4 DEF O!Next
    <3>4. QED
      BY <3>2, <3>3
  <2>4. ASSUME NEW s \in Slots, Publish(s), s # current PROVE [O!Next]_(O!vars)
    BY <2>1, <2>4 DEF Publish, bus, cache
  <2>5. CASE PassSteps
    BY <2>1, <2>3, <2>4, <2>5 DEF PassSteps, Enumerate, EnumerateFails, Hang, bus, cache
  <2>6. CASE UNCHANGED <<bus, cache>> \/ Expires
    BY <2>1, <2>6 DEF Expires, bus, cache
  <2>7. QED
    BY <2>2, <2>5, <2>6
       DEF Next, PassSteps, Overdue, ViewExpires, Tick, StatusBegins, StatusAnswered,
           TopologyRead, Connect, Disconnect, SwitchFinds, SwitchFails, vars
<1>3. QED
  BY <1>1, <1>2, TypesHold, CurrentHolds, PTL DEF Spec, ImplementsObserver, O!Spec
=============================================================================
