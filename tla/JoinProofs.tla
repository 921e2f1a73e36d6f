----------------------------- MODULE JoinProofs -----------------------------
(* What holds of Join for any BSSIDs, servers, addresses and counts: its    *)
(* types, that no BSSID is taken twice, that the address in use is the one  *)
(* its server has committed, and that every echo counted is a different     *)
(* one.                                                                     *)
EXTENDS Join, SequenceTheorems, FiniteSetTheorems, TLAPS

Unleased == Associating \cup {"handshake", "discover"}
Addressed == {"arp", "ping", "up"}

(* The parts of TypeOK. *)
PcType == pc \in Associating \cup {"handshake"} \cup Leasing \cup Ended

QueueType ==
    /\ queue \in Seq(Bss \cup {0}) /\ asked \in Seq(Bss \cup {0})
    /\ tried \subseteq Bss /\ results \subseteq Bss

(* Every refusal taken and every report still in connIndCh was sent. *)
ReportType ==
    /\ connInd \in Seq(BOOLEAN) /\ Len(connInd) <= IndCap
    /\ inds \in 0 .. MaxInds /\ refused \in Nat /\ refused + Len(connInd) <= inds

(* One scan before the first refusal, one after it. *)
ScanType == scanned \in BOOLEAN /\ scans \in 0 .. 2 /\ (~scanned => scans <= 1)

LeaseType ==
    /\ offer \in [server : Servers, ip : Ips \cup {0}]
    /\ myIP \in Ips \cup {0}
    /\ sends \in 0 .. Sends
    /\ air \subseteq Frames
    /\ reserved \in [Servers -> Ips \cup {0}] /\ leased \in [Servers -> Ips \cup {0}]

(* A reply is counted at most once a request. *)
PingType ==
    /\ seq \in 0 .. Pings + 1 /\ rx \in 0 .. Pings /\ echoed \subseteq 1 .. Pings
    /\ rx <= seq /\ (seq > 0 => rx < seq)

TypeInv == PcType /\ QueueType /\ ReportType /\ ScanType /\ LeaseType /\ PingType

(* The echo requests begin with the first ping and not before. *)
PhaseInv == seq \in 0 .. Pings + 1 /\ (pc \in {"ping", "up", "noPing"} <=> seq > 0)

(* What the address rests on: until an offer is taken nobody can commit to  *)
(* us, afterwards only the server of the offer can, and only its address.   *)
AckedAsOffered ==
    \A f \in air : f.kind = "ack" =>
        offer.ip # 0 /\ f.ip = offer.ip /\ leased[offer.server] = offer.ip

LeaseInv ==
    /\ pc \in Unleased => offer.ip = 0
    /\ AckedAsOffered
    /\ pc \in Addressed => myIP = offer.ip /\ leased[offer.server] = offer.ip

LEMMA Pushed ==
    ASSUME NEW S, NEW q \in Seq(S), NEW f \in S
    PROVE  /\ Append(q, f) \in Seq(S) /\ Len(Append(q, f)) = Len(q) + 1
           /\ \A i \in 1 .. Len(q) + 1 : Append(q, f)[i] = IF i <= Len(q) THEN q[i] ELSE f
OBVIOUS

LEMMA Popped ==
    ASSUME NEW S, NEW q \in Seq(S), q # << >>
    PROVE  /\ Tail(q) \in Seq(S) /\ Len(Tail(q)) = Len(q) - 1 /\ Len(q) \in Nat \ {0}
           /\ Head(q) \in S /\ Head(q) = q[1]
           /\ \A i \in 1 .. Len(q) - 1 : Tail(q)[i] = q[i + 1]
OBVIOUS

LEMMA Joined ==
    ASSUME NEW S, NEW p \in Seq(S), NEW q \in Seq(S)
    PROVE  /\ p \o q \in Seq(S) /\ Len(p \o q) = Len(p) + Len(q)
           /\ \A i \in 1 .. Len(p) + Len(q) :
                 (p \o q)[i] = IF i <= Len(p) THEN p[i] ELSE q[i - Len(p)]
OBVIOUS

-----------------------------------------------------------------------------
(* A batch of siblings: one or two different BSSIDs, none of them tried.    *)
LEMMA Batch ==
    ASSUME tried \subseteq Bss, NEW b \in Ranked(Siblings)
    PROVE  /\ b \in Seq(Bss) /\ Len(b) \in 1 .. 2
           /\ \A i \in 1 .. Len(b) : b[i] \in Bss \ tried
           /\ Len(b) = 2 => b[1] # b[2]
<1>1. Siblings \subseteq Bss \ tried
  BY JoinAssumption DEF Siblings
<1>2. CASE \E x \in Strongest(Siblings) : b = <<x>>
  BY <1>1, <1>2 DEF Strongest
<1>3. CASE \E x \in Strongest(Siblings) :
               \E y \in Strongest(Siblings \ Strongest(Siblings)) : b = <<x, y>>
  <2>1. PICK x \in Strongest(Siblings), y \in Strongest(Siblings \ Strongest(Siblings)) :
            b = <<x, y>>
    BY <1>3
  <2>2. x \in Siblings /\ y \in Siblings /\ x # y
    BY <2>1 DEF Strongest
  <2>3. Len(b) = 2 /\ b[1] = x /\ b[2] = y
    BY <2>1
  <2>4. x \in Bss \ tried /\ y \in Bss \ tried
    BY <1>1, <2>2
  <2>5. b \in Seq(Bss)
    BY <2>1, <2>4
  <2>6. \A i \in 1 .. Len(b) : b[i] \in Bss \ tried
    <3>1. 1 .. Len(b) = {1, 2}
      BY <2>3
    <3>2. QED
      BY <3>1, <2>3, <2>4
  <2>7. b[1] # b[2]
    BY <2>2, <2>3
  <2>8. Len(b) \in 1 .. 2
    BY <2>3
  <2>9. Len(b) = 2 => b[1] # b[2]
    BY <2>7, Zenon
  <2>10. QED
    BY <2>5, <2>6, <2>8, <2>9, Zenon
<1>4. QED
  BY <1>2, <1>3 DEF Ranked

LEMMA TypeInit == Init => TypeInv
<1> SUFFICES ASSUME Init PROVE TypeInv
  OBVIOUS
<1> USE JoinAssumption DEF Init
<1>0. PcType
  BY DEF PcType, Associating
<1>1. ScanType
  <2>1. scanned \in BOOLEAN
    BY Zenon
  <2>2. scans \in 0 .. 2 /\ scans <= 1
    OBVIOUS
  <2>3. QED
    BY <2>1, <2>2, Zenon DEF ScanType
<1>2. PICK b \in Asked : queue = <<b>> /\ tried = {b} \ {0}
  OBVIOUS
<1>3. QueueType
  BY <1>2 DEF QueueType
<1>4. ReportType
  BY DEF ReportType
<1>5. (CHOOSE s \in Servers : TRUE) \in Servers
  OBVIOUS
<1>6. LeaseType
  BY <1>5 DEF LeaseType
<1>7. PingType
  BY DEF PingType
<1>8. QED
  BY <1>0, <1>1, <1>3, <1>4, <1>6, <1>7 DEF TypeInv

(* What the association leaves alone of the rest, and the rest of it. *)
LEMMA Apart ==
    ASSUME TypeInv
    PROVE  /\ UNCHANGED assocVars => QueueType' /\ ReportType' /\ ScanType'
           /\ UNCHANGED <<leaseVars, sends>> => LeaseType'
           /\ UNCHANGED pingVars => PingType'
BY DEF TypeInv, assocVars, leaseVars, pingVars, QueueType, ReportType, ScanType, LeaseType, PingType

LEMMA Queued ==
    ASSUME TypeInv, QueueSiblings, UNCHANGED <<asked, results>>
    PROVE  QueueType' /\ pc' \in {"wait", "noSiblings"}
<1>1. CASE Siblings = {}
  BY <1>1 DEF QueueSiblings, TypeInv, QueueType
<1>2. CASE Siblings # {}
  <2>1. PICK b \in Ranked(Siblings) :
            /\ pc' = "wait" /\ queue' = queue \o b
            /\ tried' = tried \cup {b[i] : i \in 1 .. Len(b)}
    BY <1>2 DEF QueueSiblings
  <2>2. tried \subseteq Bss /\ queue \in Seq(Bss \cup {0})
    BY DEF TypeInv, QueueType
  <2>3. b \in Seq(Bss) /\ \A i \in 1 .. Len(b) : b[i] \in Bss
    BY <2>2, Batch
  <2>4. b \in Seq(Bss \cup {0})
    BY <2>3
  <2>5. queue' \in Seq(Bss \cup {0})
    BY <2>1, <2>2, <2>4, Joined
  <2>6. tried' \subseteq Bss
    BY <2>1, <2>2, <2>3
  <2>7. QED
    BY <2>1, <2>5, <2>6 DEF TypeInv, QueueType
<1>3. QED
  BY <1>1, <1>2

LEMMA AssocType ==
    ASSUME TypeInv, Firmware \/ Associate
    PROVE  TypeInv'
<1> USE JoinAssumption
<1>1. CASE ScanResult
  <2>1. UNCHANGED <<leaseVars, sends, pingVars>>
    BY <1>1 DEF ScanResult
  <2>2. QueueType' /\ ReportType' /\ ScanType' /\ PcType'
    BY <1>1 DEF ScanResult, TypeInv, PcType, QueueType, ReportType, ScanType
  <2>3. QED
    BY <2>1, <2>2, Apart DEF TypeInv
<1>2. CASE ConnectInd
  <2>1. UNCHANGED <<leaseVars, sends, pingVars>>
    BY <1>2 DEF ConnectInd
  <2>2. QueueType' /\ ScanType' /\ PcType'
    BY <1>2 DEF ConnectInd, TypeInv, PcType, QueueType, ScanType
  <2>3. PICK ok \in BOOLEAN : connInd' = Offered(ok)
    BY <1>2 DEF ConnectInd
  <2>4. connInd' \in Seq(BOOLEAN) /\ Len(connInd') <= IndCap /\ Len(connInd') <= Len(connInd) + 1
    <3>1. connInd \in Seq(BOOLEAN) /\ Len(connInd) <= IndCap
      BY DEF TypeInv, ReportType
    <3>2. Append(connInd, ok) \in Seq(BOOLEAN) /\ Len(Append(connInd, ok)) = Len(connInd) + 1
      BY <3>1, Pushed
    <3>3. Len(connInd) \in Nat /\ IndCap \in Nat
      BY <3>1
    <3>4. connInd' = IF Len(connInd) < IndCap THEN Append(connInd, ok) ELSE connInd
      BY <2>3 DEF Offered
    <3>5. CASE Len(connInd) < IndCap
      BY <3>2, <3>3, <3>4, <3>5
    <3>6. CASE ~(Len(connInd) < IndCap)
      BY <3>1, <3>3, <3>4, <3>6
    <3>7. QED
      BY <3>5, <3>6
  <2>5. ReportType'
    BY <1>2, <2>4 DEF ConnectInd, TypeInv, ReportType
  <2>6. QED
    BY <2>1, <2>2, <2>5, Apart DEF TypeInv
<1>3. CASE ScanFirst
  <2>1. UNCHANGED <<leaseVars, sends, pingVars>>
    BY <1>3 DEF ScanFirst
  <2>2. QueueType' /\ ReportType' /\ ScanType' /\ PcType'
    BY <1>3 DEF ScanFirst, TypeInv, PcType, QueueType, ReportType, ScanType, Associating
  <2>3. QED
    BY <2>1, <2>2, Apart DEF TypeInv
<1>4. CASE Ask
  <2>1. UNCHANGED <<leaseVars, sends, pingVars>>
    BY <1>4 DEF Ask
  <2>2. ReportType' /\ ScanType' /\ PcType'
    BY <1>4 DEF Ask, TypeInv, PcType, ReportType, ScanType, Associating, Ended
  <2>3. queue' \in Seq(Bss \cup {0}) /\ Head(queue) \in Bss \cup {0}
    BY <1>4, Popped DEF Ask, TypeInv, QueueType
  <2>4. Append(asked, Head(queue)) \in Seq(Bss \cup {0})
    BY <2>3, Pushed DEF TypeInv, QueueType
  <2>5. QueueType'
    BY <1>4, <2>3, <2>4 DEF Ask, TypeInv, QueueType
  <2>6. QED
    BY <2>1, <2>2, <2>5, Apart DEF TypeInv
<1>5. CASE Associated
  <2>1. UNCHANGED <<leaseVars, sends, pingVars>>
    BY <1>5 DEF Associated
  <2>2. QueueType' /\ ScanType' /\ PcType'
    BY <1>5 DEF Associated, TypeInv, PcType, QueueType, ScanType
  <2>3. /\ connInd' \in Seq(BOOLEAN) /\ Len(connInd) \in Nat \ {0}
        /\ Len(connInd') = Len(connInd) - 1
    BY <1>5, Popped DEF Associated, TypeInv, ReportType
  <2>4. ReportType'
    <3>1. /\ refused' = refused /\ inds' = inds
          /\ inds \in 0 .. MaxInds /\ refused \in Nat
          /\ refused + Len(connInd) <= inds /\ Len(connInd) <= IndCap
      BY <1>5 DEF Associated, TypeInv, ReportType
    <3>2. QED
      BY <2>3, <3>1 DEF ReportType
  <2>5. QED
    BY <2>1, <2>2, <2>4, Apart DEF TypeInv
<1>6. CASE Refused
  <2>1. UNCHANGED <<leaseVars, sends, pingVars>>
    BY <1>6 DEF Refused
  <2>2. /\ connInd' \in Seq(BOOLEAN) /\ Len(connInd) \in Nat \ {0}
        /\ Len(connInd') = Len(connInd) - 1
    BY <1>6, Popped DEF Refused, TypeInv, ReportType
  <2>3. ReportType'
    <3>1. /\ refused' = refused + 1 /\ inds' = inds
          /\ inds \in 0 .. MaxInds /\ refused \in Nat
          /\ refused + Len(connInd) <= inds /\ Len(connInd) <= IndCap
      BY <1>6 DEF Refused, TypeInv, ReportType
    <3>2. QED
      BY <2>2, <3>1 DEF ReportType
  <2>4. CASE ~scanned /\ results = {}
    <3>1. QueueType' /\ PcType'
      BY <1>6, <2>4 DEF Refused, TypeInv, PcType, QueueType, Associating
    <3>2. scanned = FALSE /\ scanned' = TRUE /\ scans' = scans + 1
      BY <1>6, <2>4 DEF Refused, TypeInv, ScanType
    <3>3. ScanType'
      BY <3>2 DEF TypeInv, ScanType
    <3>4. QED
      BY <2>1, <2>3, <3>1, <3>3, Apart DEF TypeInv
  <2>5. CASE ~(~scanned /\ results = {})
    <3>1. QueueType' /\ PcType'
      BY <1>6, <2>5, Queued DEF Refused, TypeInv, PcType, Associating, Ended
    <3>2. ScanType'
      BY <1>6, <2>5 DEF Refused, TypeInv, ScanType
    <3>3. QED
      BY <2>1, <2>3, <3>1, <3>2, Apart DEF TypeInv
  <2>6. QED
    BY <2>4, <2>5
<1>7. CASE Collect
  <2>1. UNCHANGED <<leaseVars, sends, pingVars>>
    BY <1>7 DEF Collect
  <2>2. QueueType' /\ PcType'
    BY <1>7, Queued DEF Collect, PcType, Associating, Ended
  <2>3. ReportType' /\ ScanType'
    BY <1>7 DEF Collect, TypeInv, ReportType, ScanType
  <2>4. QED
    BY <2>1, <2>2, <2>3, Apart DEF TypeInv
<1>8. CASE Silence
  BY <1>8, Apart DEF Silence, TypeInv, PcType, Ended
<1>9. CASE HandshakeEnds
  <2>1. PcType'
    BY <1>9 DEF HandshakeEnds, PcType, Leasing, Ended
  <2>2. LeaseType'
    BY <1>9 DEF HandshakeEnds, TypeInv, LeaseType, leaseVars
  <2>3. QED
    BY <1>9, <2>1, <2>2, Apart DEF HandshakeEnds, TypeInv
<1>10. QED
  BY <1>1, <1>2, <1>3, <1>4, <1>5, <1>6, <1>7, <1>8, <1>9 DEF Firmware, Associate

LEMMA NetworkType ==
    ASSUME TypeInv, Network
    PROVE  TypeInv'
<1> USE JoinAssumption
<1>1. ASSUME NEW s \in Servers, Offer(s) PROVE TypeInv'
  <2>1. UNCHANGED <<pc, assocVars, pingVars>>
    BY <1>1 DEF Offer
  <2>2. PICK ip \in Ips : /\ reserved' = [reserved EXCEPT ![s] = ip]
                          /\ air' = air \cup {[kind |-> "offer", server |-> s, ip |-> ip]}
    BY <1>1 DEF Offer
  <2>3. [kind |-> "offer", server |-> s, ip |-> ip] \in Frames
    BY DEF Frames
  <2>4. LeaseType'
    BY <1>1, <2>2, <2>3 DEF Offer, TypeInv, LeaseType
  <2>5. QED
    BY <2>1, <2>4, Apart DEF TypeInv, PcType
<1>2. ASSUME NEW s \in Servers, Commit(s) PROVE TypeInv'
  <2>1. UNCHANGED <<pc, assocVars, pingVars>>
    BY <1>2 DEF Commit
  <2>2. offer.ip \in Ips
    BY <1>2 DEF Commit, TypeInv, LeaseType
  <2>3. [kind |-> "ack", server |-> s, ip |-> offer.ip] \in Frames
    BY <2>2 DEF Frames
  <2>4. leased' \in [Servers -> Ips \cup {0}] /\ reserved' \in [Servers -> Ips \cup {0}]
    BY <1>2, <2>2 DEF Commit, TypeInv, LeaseType
  <2>5. LeaseType'
    BY <1>2, <2>3, <2>4 DEF Commit, TypeInv, LeaseType
  <2>6. QED
    BY <2>1, <2>5, Apart DEF TypeInv, PcType
<1>3. CASE ArpReply
  <2>1. UNCHANGED <<pc, assocVars, pingVars>>
    BY <1>3 DEF ArpReply
  <2>2. [kind |-> "arp"] \in Frames
    BY DEF Frames
  <2>3. LeaseType'
    BY <1>3, <2>2 DEF ArpReply, TypeInv, LeaseType
  <2>4. QED
    BY <2>1, <2>3, Apart DEF TypeInv, PcType
<1>4. CASE Echo
  <2>1. UNCHANGED <<pc, assocVars>>
    BY <1>4 DEF Echo
  <2>2. PICK i \in 1 .. seq \cap 1 .. Pings :
            /\ echoed' = echoed \cup {i}
            /\ air' = air \cup {[kind |-> "echo", seq |-> i]}
    BY <1>4 DEF Echo
  <2>3. [kind |-> "echo", seq |-> i] \in Frames
    BY DEF Frames
  <2>4. LeaseType'
    BY <1>4, <2>2, <2>3 DEF Echo, TypeInv, LeaseType
  <2>5. PingType'
    BY <1>4, <2>2 DEF Echo, TypeInv, PingType
  <2>6. QED
    BY <2>1, <2>4, <2>5, Apart DEF TypeInv, PcType
<1>5. QED
  BY <1>1, <1>2, <1>3, <1>4 DEF Network

LEMMA LeaseStepType ==
    ASSUME TypeInv, PhaseInv, Lease \/ Cancel
    PROVE  TypeInv'
<1> USE JoinAssumption
<1>1. UNCHANGED assocVars
  BY DEF Lease, Cancel, Repeat, TakeOffer, TakeAck, TakeArp, TakeEcho, NextPing, PingsDone,
         Deadline
<1>2. PcType'
  BY DEF Lease, Cancel, Repeat, TakeOffer, TakeAck, TakeArp, TakeEcho, NextPing, PingsDone,
         Deadline, TypeInv, PcType, Leasing, Ended
<1>3. LeaseType'
  <2>1. CASE Repeat
    BY <2>1 DEF Repeat, TypeInv, LeaseType, leaseVars
  <2>2. CASE TakeOffer
    <3>1. PICK f \in air : IsOffer(f) /\ offer' = [server |-> f.server, ip |-> f.ip]
      BY <2>2 DEF TakeOffer
    <3>2. f \in Frames /\ f.kind = "offer"
      BY <3>1 DEF IsOffer, TypeInv, LeaseType
    <3>3. f.server \in Servers /\ f.ip \in Ips
      BY <3>2 DEF Frames
    <3>4. QED
      BY <2>2, <3>1, <3>3 DEF TakeOffer, TypeInv, LeaseType
  <2>3. CASE TakeAck
    <3>1. PICK f \in air : IsAck(f) /\ myIP' = f.ip
      BY <2>3 DEF TakeAck
    <3>2. f \in Frames /\ f.kind = "ack"
      BY <3>1 DEF IsAck, TypeInv, LeaseType
    <3>3. f.ip \in Ips
      BY <3>2 DEF Frames
    <3>4. QED
      BY <2>3, <3>1, <3>3 DEF TakeAck, TypeInv, LeaseType
  <2>4. CASE UNCHANGED <<leaseVars, sends>>
    BY <2>4, Apart
  <2>5. QED
    BY <2>1, <2>2, <2>3, <2>4
       DEF Lease, Cancel, TakeArp, TakeEcho, NextPing, PingsDone, Deadline
<1>4. PingType'
  <2>1. CASE TakeEcho
    BY <2>1 DEF TakeEcho, TypeInv, PingType, PhaseInv
  <2>2. CASE NextPing
    BY <2>2 DEF NextPing, TypeInv, PingType
  <2>3. CASE TakeArp
    BY <2>3 DEF TakeArp, TypeInv, PingType, PhaseInv
  <2>4. CASE Cancel
    BY <2>4 DEF Cancel, TypeInv, PingType
  <2>5. CASE UNCHANGED pingVars
    BY <2>5, Apart
  <2>6. QED
    BY <2>1, <2>2, <2>3, <2>4, <2>5
       DEF Lease, Repeat, TakeOffer, TakeAck, PingsDone, Deadline
<1>5. QED
  BY <1>1, <1>2, <1>3, <1>4, Apart DEF TypeInv

LEMMA PhaseInit == Init => PhaseInv
BY JoinAssumption DEF Init, PhaseInv

LEMMA PhaseStep == PhaseInv /\ [Next]_vars => PhaseInv'
<1> SUFFICES ASSUME PhaseInv, [Next]_vars PROVE PhaseInv'
  OBVIOUS
<1> USE JoinAssumption DEF PhaseInv
<1>1. CASE Firmware
  BY <1>1 DEF Firmware, ScanResult, ConnectInd, Associating, pingVars
<1>2. CASE Associate
  BY <1>2 DEF Associate, ScanFirst, Ask, Associated, Refused, QueueSiblings, Collect, Silence,
              HandshakeEnds, pingVars
<1>3. CASE Network
  BY <1>3 DEF Network, Offer, Commit, ArpReply, Echo, pingVars
<1>4. CASE Lease \/ Cancel
  BY <1>4 DEF Lease, Cancel, Repeat, TakeOffer, TakeAck, TakeArp, TakeEcho, NextPing,
              PingsDone, Deadline, pingVars
<1>5. CASE UNCHANGED vars
  BY <1>5 DEF vars, pingVars
<1>6. QED
  BY <1>1, <1>2, <1>3, <1>4, <1>5 DEF Next

LEMMA TypeStep == TypeInv /\ PhaseInv /\ [Next]_vars => TypeInv'
<1> SUFFICES ASSUME TypeInv, PhaseInv, [Next]_vars PROVE TypeInv'
  OBVIOUS
<1>1. CASE UNCHANGED vars
  BY <1>1, Apart DEF vars, TypeInv, PcType
<1>2. QED
  BY <1>1, AssocType, NetworkType, LeaseStepType DEF Next

(* The types, with connIndCh within its capacity, whatever the firmware     *)
(* reports and the servers offer.                                           *)
THEOREM TypeCorrect == Spec => []TypeOK
<1>1. TypeInv => TypeOK
  <2> SUFFICES ASSUME TypeInv PROVE TypeOK
    OBVIOUS
  <2>1. refused \in 0 .. MaxInds
    BY JoinAssumption DEF TypeInv, ReportType
  <2>2. QED
    BY <2>1 DEF TypeInv, PcType, QueueType, ReportType, ScanType, LeaseType, PingType, TypeOK
<1>2. QED
  BY <1>1, TypeInit, TypeStep, PhaseInit, PhaseStep, PTL DEF Spec

-----------------------------------------------------------------------------
(* Only Commit and TakeOffer touch what the address rests on; no step but   *)
(* Commit puts an acknowledgement on the air.                               *)
LEMMA LeaseInit == Init => LeaseInv
BY DEF Init, LeaseInv, AckedAsOffered, Addressed

LEMMA LeaseStep == TypeInv /\ LeaseInv /\ [Next]_vars => LeaseInv'
<1> SUFFICES ASSUME TypeInv, LeaseInv, [Next]_vars PROVE LeaseInv'
  OBVIOUS
<1> USE JoinAssumption
<1>1. ASSUME UNCHANGED leaseVars,
             (pc \in Unleased) \/ (pc' \notin Unleased),
             (pc \in Addressed) \/ (pc' \notin Addressed)
      PROVE  LeaseInv'
  BY <1>1 DEF leaseVars, LeaseInv, AckedAsOffered
<1>2. CASE Firmware
  BY <1>1, <1>2 DEF Firmware, ScanResult, ConnectInd
<1>3. CASE Associate
  <2>1. UNCHANGED leaseVars /\ pc \in Unleased /\ pc' \notin Addressed
    BY <1>3 DEF Associate, ScanFirst, Ask, Associated, Refused, QueueSiblings, Collect, Silence,
              HandshakeEnds, Unleased, Addressed, Associating
  <2>2. QED
    BY <1>1, <2>1
<1>4. ASSUME NEW s \in Servers, Offer(s) PROVE LeaseInv'
  <2>1. PICK ip \in Ips : air' = air \cup {[kind |-> "offer", server |-> s, ip |-> ip]}
    BY <1>4 DEF Offer
  <2>2. \A f \in air' : f.kind = "ack" => f \in air
    BY <2>1
  <2>3. UNCHANGED <<pc, offer, myIP, leased>>
    BY <1>4 DEF Offer
  <2>4. QED
    BY <2>2, <2>3 DEF LeaseInv, AckedAsOffered
<1>5. ASSUME NEW s \in Servers, Commit(s) PROVE LeaseInv'
  <2>1. /\ UNCHANGED <<pc, offer, myIP>> /\ offer.ip # 0
        /\ leased' = [leased EXCEPT ![offer.server] = offer.ip]
        /\ air' = air \cup {[kind |-> "ack", server |-> s, ip |-> offer.ip]}
    BY <1>5 DEF Commit
  <2>2. leased'[offer.server] = offer.ip
    BY <2>1 DEF TypeInv, LeaseType
  <2>3. AckedAsOffered'
    BY <2>1, <2>2 DEF LeaseInv, AckedAsOffered
  <2>4. QED
    BY <2>1, <2>2, <2>3 DEF LeaseInv
<1>6. CASE ArpReply
  <2>1. \A f \in air' : f.kind = "ack" => f \in air
    BY <1>6 DEF ArpReply
  <2>2. QED
    BY <1>6, <2>1 DEF ArpReply, LeaseInv, AckedAsOffered
<1>7. CASE Echo
  <2>1. \A f \in air' : f.kind = "ack" => f \in air
    BY <1>7 DEF Echo
  <2>2. QED
    BY <1>7, <2>1 DEF Echo, LeaseInv, AckedAsOffered
<1>8. CASE TakeOffer
  <2>1. \A f \in air : f.kind # "ack"
    BY <1>8 DEF TakeOffer, LeaseInv, AckedAsOffered, Unleased
  <2>2. pc' = "request" /\ UNCHANGED air
    BY <1>8 DEF TakeOffer
  <2>3. QED
    BY <2>1, <2>2 DEF LeaseInv, AckedAsOffered, Unleased, Addressed, Associating
<1>9. CASE TakeAck
  <2>1. PICK f \in air : f.kind = "ack" /\ myIP' = f.ip
    BY <1>9 DEF TakeAck, IsAck
  <2>2. pc' = "arp" /\ UNCHANGED <<offer, air, leased>>
    BY <1>9 DEF TakeAck
  <2>3. myIP' = offer.ip /\ leased[offer.server] = offer.ip
    BY <2>1 DEF LeaseInv, AckedAsOffered
  <2>4. QED
    BY <2>2, <2>3 DEF LeaseInv, AckedAsOffered, Unleased, Associating
<1>10. CASE Repeat \/ TakeArp \/ TakeEcho \/ NextPing \/ PingsDone \/ Deadline \/ Cancel
  <2>1. /\ UNCHANGED leaseVars
        /\ (pc \in Unleased) \/ (pc' \notin Unleased)
        /\ (pc \in Addressed) \/ (pc' \notin Addressed)
    BY <1>10 DEF Repeat, TakeArp, TakeEcho, NextPing, PingsDone, Deadline, Cancel,
                 Unleased, Addressed, Associating
  <2>2. QED
    BY <1>1, <2>1
<1>11. CASE UNCHANGED vars
  BY <1>1, <1>11 DEF vars
<1>12. QED
  BY <1>2, <1>3, <1>4, <1>5, <1>6, <1>7, <1>8, <1>9, <1>10, <1>11 DEF Next, Network, Lease

(* The address in use is the one its server has committed, for any number   *)
(* of servers and addresses and however the air repeats and reorders.       *)
THEOREM LeaseAlwaysAgrees == Spec => []LeaseAgrees
<1>1. LeaseInv => LeaseAgrees
  BY DEF LeaseInv, LeaseAgrees, Addressed
<1>2. QED
  BY <1>1, TypeInit, TypeStep, PhaseInit, PhaseStep, LeaseInit, LeaseStep, PTL DEF Spec

-----------------------------------------------------------------------------
(* What was asked and what is queued is tried (or is the 0 that asks for    *)
(* any), and no two of them are the same.                                   *)
TriedInv ==
    /\ \A i \in 1 .. Len(asked) : asked[i] \in tried \cup {0}
    /\ \A i \in 1 .. Len(queue) : queue[i] \in tried \cup {0}
    /\ \A i, j \in 1 .. Len(asked) : i # j => asked[i] # asked[j]
    /\ \A i, j \in 1 .. Len(queue) : i # j => queue[i] # queue[j]
    /\ \A i \in 1 .. Len(asked), j \in 1 .. Len(queue) : asked[i] # queue[j]

LEMMA TriedInit == Init => TriedInv
<1> SUFFICES ASSUME Init PROVE TriedInv
  OBVIOUS
<1>1. PICK b \in Asked : queue = <<b>> /\ tried = {b} \ {0}
  BY DEF Init
<1>2. Len(asked) = 0 /\ Len(queue) = 1 /\ queue[1] = b
  BY <1>1 DEF Init
<1>3. QED
  BY <1>1, <1>2 DEF TriedInv

LEMMA QueuedTried ==
    ASSUME TypeInv, TriedInv, QueueSiblings, UNCHANGED asked
    PROVE  TriedInv'
<1>1. CASE Siblings = {}
  BY <1>1 DEF QueueSiblings, TriedInv
<1>2. CASE Siblings # {}
  <2>1. PICK b \in Ranked(Siblings) :
            /\ queue' = queue \o b
            /\ tried' = tried \cup {b[i] : i \in 1 .. Len(b)}
    BY <1>2 DEF QueueSiblings
  <2>2. tried \subseteq Bss /\ queue \in Seq(Bss \cup {0})
    BY DEF TypeInv, QueueType
  <2>3. /\ b \in Seq(Bss) /\ Len(b) \in 1 .. 2
        /\ \A i \in 1 .. Len(b) : b[i] \in Bss \ tried
        /\ Len(b) = 2 => b[1] # b[2]
    BY <2>2, Batch
  <2>4. \A i \in 1 .. Len(b) : b[i] \notin tried \cup {0} /\ b[i] \in tried'
    BY <2>1, <2>3, JoinAssumption
  <2>5. \A i, j \in 1 .. Len(b) : i # j => b[i] # b[j]
    BY <2>3
  <2>6. /\ Len(queue') = Len(queue) + Len(b) /\ Len(queue) \in Nat /\ Len(b) \in Nat
        /\ \A i \in 1 .. Len(queue) + Len(b) :
              queue'[i] = IF i <= Len(queue) THEN queue[i] ELSE b[i - Len(queue)]
    <3>1. b \in Seq(Bss \cup {0})
      BY <2>3
    <3>2. QED
      BY <2>1, <2>2, <3>1, Joined
  <2>7. \A i \in 1 .. Len(queue') :
            \/ i \in 1 .. Len(queue) /\ queue'[i] = queue[i] /\ queue'[i] \in tried \cup {0}
            \/ /\ i \notin 1 .. Len(queue) /\ i - Len(queue) \in 1 .. Len(b)
               /\ queue'[i] = b[i - Len(queue)] /\ queue'[i] \notin tried \cup {0}
    BY <2>4, <2>6 DEF TriedInv
  <2>8. \A i \in 1 .. Len(queue') : queue'[i] \in tried' \cup {0}
    BY <2>1, <2>4, <2>7
  <2>9. \A i, j \in 1 .. Len(queue') : i # j => queue'[i] # queue'[j]
    <3> SUFFICES ASSUME NEW i \in 1 .. Len(queue'), NEW j \in 1 .. Len(queue'), i # j
                 PROVE  queue'[i] # queue'[j]
      OBVIOUS
    <3>1. CASE i \in 1 .. Len(queue) /\ j \in 1 .. Len(queue)
      BY <2>7, <3>1 DEF TriedInv
    <3>2. CASE i \notin 1 .. Len(queue) /\ j \notin 1 .. Len(queue)
      <4>1. i - Len(queue) # j - Len(queue)
        BY <2>6
      <4>2. QED
        BY <2>5, <2>7, <3>2, <4>1
    <3>3. QED
      BY <2>7, <3>1, <3>2
  <2>10. \A i \in 1 .. Len(asked), j \in 1 .. Len(queue') : asked[i] # queue'[j]
    BY <2>7 DEF TriedInv
  <2>11. \A i \in 1 .. Len(asked) : asked[i] \in tried' \cup {0}
    BY <2>1 DEF TriedInv
  <2>12. QED
    BY <2>8, <2>9, <2>10, <2>11 DEF TriedInv
<1>3. QED
  BY <1>1, <1>2

LEMMA TriedStep == TypeInv /\ TriedInv /\ [Next]_vars => TriedInv'
<1> SUFFICES ASSUME TypeInv, TriedInv, [Next]_vars PROVE TriedInv'
  OBVIOUS
<1>1. ASSUME UNCHANGED <<asked, queue, tried>> PROVE TriedInv'
  BY <1>1 DEF TriedInv
<1>2. CASE Ask
  <2>1. /\ queue \in Seq(Bss \cup {0}) /\ queue # << >> /\ queue' = Tail(queue)
        /\ asked \in Seq(Bss \cup {0}) /\ tried' = tried
    BY <1>2 DEF Ask, TypeInv, QueueType
  <2>2. /\ Len(queue) \in Nat \ {0} /\ Len(queue') = Len(queue) - 1
        /\ Head(queue) = queue[1] /\ Head(queue) \in Bss \cup {0}
        /\ \A i \in 1 .. Len(queue) - 1 : queue'[i] = queue[i + 1]
    BY <2>1, Popped
  <2>3. \A i \in 1 .. Len(queue') : i + 1 \in 1 .. Len(queue) /\ queue'[i] = queue[i + 1]
    BY <2>2
  <2>4. /\ \A i \in 1 .. Len(queue') : queue'[i] \in tried \cup {0} /\ queue'[i] # queue[1]
        /\ \A i, j \in 1 .. Len(queue') : i # j => queue'[i] # queue'[j]
    BY <2>2, <2>3 DEF TriedInv
  <2>5. CASE asked' = asked
    BY <2>1, <2>3, <2>4, <2>5 DEF TriedInv
  <2>6. CASE asked' = Append(asked, Head(queue))
    <3>1. /\ Len(asked) \in Nat /\ Len(asked') = Len(asked) + 1
          /\ \A i \in 1 .. Len(asked) + 1 :
                asked'[i] = IF i <= Len(asked) THEN asked[i] ELSE queue[1]
      BY <2>1, <2>2, <2>6, Pushed
    <3>2. \A i \in 1 .. Len(asked') :
              \/ i \in 1 .. Len(asked) /\ asked'[i] = asked[i]
              \/ i = Len(asked) + 1 /\ asked'[i] = queue[1]
      BY <3>1
    <3>3. 1 \in 1 .. Len(queue)
      BY <2>2
    <3>4. \A i \in 1 .. Len(asked') : asked'[i] \in tried' \cup {0}
      BY <2>1, <3>2, <3>3 DEF TriedInv
    <3>5. \A i, j \in 1 .. Len(asked') : i # j => asked'[i] # asked'[j]
      BY <3>2, <3>3 DEF TriedInv
    <3>6. \A i \in 1 .. Len(asked'), j \in 1 .. Len(queue') : asked'[i] # queue'[j]
      BY <2>3, <2>4, <3>2 DEF TriedInv
    <3>7. QED
      BY <2>1, <2>4, <3>4, <3>5, <3>6 DEF TriedInv
  <2>7. QED
    BY <1>2, <2>5, <2>6 DEF Ask
<1>3. CASE Refused
  <2>1. CASE ~scanned /\ results = {}
    BY <1>1, <1>3, <2>1 DEF Refused
  <2>2. CASE ~(~scanned /\ results = {})
    BY <1>3, <2>2, QueuedTried DEF Refused
  <2>3. QED
    BY <2>1, <2>2
<1>4. CASE Collect
  BY <1>4, QueuedTried DEF Collect
<1>5. CASE Firmware \/ ScanFirst \/ Associated \/ Silence \/ HandshakeEnds
  BY <1>1, <1>5 DEF Firmware, ScanResult, ConnectInd, ScanFirst, Associated, Silence,
                    HandshakeEnds, assocVars
<1>6. CASE Network \/ Lease \/ Cancel
  <2>1. UNCHANGED assocVars
    BY <1>6 DEF Network, Offer, Commit, ArpReply, Echo, Lease, Cancel, Repeat, TakeOffer,
                TakeAck, TakeArp, TakeEcho, NextPing, PingsDone, Deadline
  <2>2. QED
    BY <1>1, <2>1 DEF assocVars
<1>7. CASE UNCHANGED vars
  BY <1>1, <1>7 DEF vars, assocVars
<1>8. QED
  BY <1>2, <1>3, <1>4, <1>5, <1>6, <1>7 DEF Next, Associate

(* No BSSID is asked or queued twice, whatever the firmware reports. *)
THEOREM TriedAlwaysOnce == Spec => []TriedOnce
<1>1. TypeInv /\ TriedInv => TriedOnce
  <2> SUFFICES ASSUME TypeInv, TriedInv PROVE TriedOnce
    OBVIOUS
  <2> DEFINE all == asked \o queue
  <2>1. asked \in Seq(Bss \cup {0}) /\ queue \in Seq(Bss \cup {0})
    BY DEF TypeInv, QueueType
  <2>2. /\ Len(all) = Len(asked) + Len(queue) /\ Len(asked) \in Nat /\ Len(queue) \in Nat
        /\ \A i \in 1 .. Len(asked) + Len(queue) :
              all[i] = IF i <= Len(asked) THEN asked[i] ELSE queue[i - Len(asked)]
    BY <2>1, Joined
  <2> HIDE DEF all
  <2>3. \A i \in 1 .. Len(all) :
            \/ i \in 1 .. Len(asked) /\ all[i] = asked[i]
            \/ i - Len(asked) \in 1 .. Len(queue) /\ all[i] = queue[i - Len(asked)]
    BY <2>2
  <2>4. ASSUME NEW i \in 1 .. Len(all), NEW j \in 1 .. Len(all), i # j
        PROVE  all[i] # all[j]
    <3>1. i - Len(asked) # j - Len(asked)
      BY <2>2, <2>4
    <3>2. QED
      BY <2>3, <2>4, <3>1 DEF TriedInv
  <2>5. QED
    BY <2>4 DEF TriedOnce, all
<1>2. QED
  BY <1>1, TypeInit, TypeStep, PhaseInit, PhaseStep, TriedInit, TriedStep, PTL DEF Spec

-----------------------------------------------------------------------------
(* The replies counted are echoes of requests before the one awaited. *)
EchoInv ==
    /\ \A f \in air : f.kind = "echo" => f.seq \in echoed
    /\ rx <= Cardinality(echoed \cap 1 .. (seq - 1))
    /\ pc = "up" => rx > 0

LEMMA Smaller ==
    ASSUME NEW m \in Nat, NEW n \in Nat, m <= n, NEW S, NEW T, S \subseteq T, T \subseteq Nat
    PROVE  /\ IsFiniteSet(S \cap 1 .. (m - 1)) /\ Cardinality(S \cap 1 .. (m - 1)) \in Nat
           /\ Cardinality(T \cap 1 .. (n - 1)) \in Nat
           /\ Cardinality(S \cap 1 .. (m - 1)) <= Cardinality(T \cap 1 .. (n - 1))
<1>1. IsFiniteSet(1 .. (n - 1))
  BY FS_Interval
<1>2. IsFiniteSet(T \cap 1 .. (n - 1))
  BY <1>1, FS_Subset
<1>3. S \cap 1 .. (m - 1) \subseteq T \cap 1 .. (n - 1)
  OBVIOUS
<1>4. QED
  BY <1>2, <1>3, FS_Subset, FS_CardinalityType

LEMMA EchoInit == Init => EchoInv
<1> SUFFICES ASSUME Init PROVE EchoInv
  OBVIOUS
<1>1. echoed \cap 1 .. (seq - 1) = {} /\ rx = 0 /\ air = {} /\ pc # "up"
  BY DEF Init
<1>2. QED
  BY <1>1, FS_EmptySet DEF EchoInv

LEMMA EchoStep == TypeInv /\ PhaseInv /\ EchoInv /\ [Next]_vars => EchoInv'
<1> SUFFICES ASSUME TypeInv, PhaseInv, EchoInv, [Next]_vars PROVE EchoInv'
  OBVIOUS
<1>0. seq \in Nat /\ rx \in Nat /\ echoed \subseteq Nat /\ Pings \in Nat
  BY JoinAssumption DEF PhaseInv, TypeInv, PingType
<1>1. ASSUME UNCHANGED pingVars, pc' # "up" \/ pc = "up",
             \A f \in air' : f.kind = "echo" => f \in air
      PROVE  EchoInv'
  BY <1>1 DEF pingVars, EchoInv
<1>2. CASE Firmware \/ Associate
  <2>1. UNCHANGED air /\ UNCHANGED pingVars
    BY <1>2 DEF Firmware, ScanResult, ConnectInd, Associate, ScanFirst, Ask, Associated, Refused,
                Collect, Silence, HandshakeEnds, leaseVars
  <2>2. pc' # "up" \/ pc = "up"
    BY <1>2 DEF Firmware, ScanResult, ConnectInd, Associate, ScanFirst, Ask, Associated, Refused,
                QueueSiblings, Collect, Silence, HandshakeEnds
  <2>3. QED
    BY <1>1, <2>1, <2>2
<1>3. ASSUME NEW s \in Servers, Offer(s) PROVE EchoInv'
  BY <1>1, <1>3 DEF Offer
<1>4. ASSUME NEW s \in Servers, Commit(s) PROVE EchoInv'
  BY <1>1, <1>4 DEF Commit
<1>5. CASE ArpReply
  BY <1>1, <1>5 DEF ArpReply
<1>6. CASE Echo
  <2>1. PICK i \in 1 .. seq \cap 1 .. Pings :
            /\ echoed' = echoed \cup {i}
            /\ air' = air \cup {[kind |-> "echo", seq |-> i]}
    BY <1>6 DEF Echo
  <2>2. UNCHANGED <<pc, seq, rx>> /\ pc = "ping"
    BY <1>6 DEF Echo
  <2>3. \A f \in air' : f.kind = "echo" => f.seq \in echoed'
    BY <2>1 DEF EchoInv
  <2>4. echoed \subseteq echoed' /\ echoed' \subseteq Nat
    BY <1>0, <2>1
  <2>5. rx' <= Cardinality(echoed' \cap 1 .. (seq' - 1))
    <3>1. /\ Cardinality(echoed \cap 1 .. (seq - 1)) \in Nat
          /\ Cardinality(echoed' \cap 1 .. (seq - 1)) \in Nat
          /\ Cardinality(echoed \cap 1 .. (seq - 1)) <= Cardinality(echoed' \cap 1 .. (seq - 1))
      <4>1. seq <= seq
        BY <1>0
      <4>2. QED
        BY <1>0, <2>4, <4>1, Smaller
    <3>2. rx' = rx /\ rx <= Cardinality(echoed \cap 1 .. (seq - 1))
      BY <2>2 DEF EchoInv
    <3>3. rx <= Cardinality(echoed' \cap 1 .. (seq - 1))
      BY <1>0, <3>1, <3>2
    <3>4. seq' = seq
      BY <2>2
    <3>5. QED
      BY <3>2, <3>3, <3>4, Zenon
  <2>6. QED
    BY <2>2, <2>3, <2>5 DEF EchoInv
<1>7. CASE TakeEcho
  <2>1. /\ pc = "ping" /\ pc' = pc /\ rx' = rx + 1 /\ seq' = seq + 1
        /\ UNCHANGED <<air, echoed>>
    BY <1>7 DEF TakeEcho, leaseVars
  <2>2. seq \in echoed /\ seq > 0
    BY <1>7, <2>1 DEF TakeEcho, IsEcho, EchoInv, PhaseInv
  <2> DEFINE before == echoed \cap 1 .. (seq - 1)
  <2>3. echoed \cap 1 .. (seq' - 1) = before \cup {seq} /\ seq \notin before
    BY <1>0, <2>1, <2>2
  <2>4. IsFiniteSet(before) /\ Cardinality(before) \in Nat
    <3>1. seq <= seq /\ echoed \subseteq echoed
      BY <1>0
    <3>2. QED
      BY <1>0, <3>1, Smaller
  <2>5. rx <= Cardinality(before)
    BY DEF EchoInv
  <2> HIDE DEF before
  <2>6. Cardinality(before \cup {seq}) = Cardinality(before) + 1
    BY <2>3, <2>4, FS_AddElement
  <2>7. rx' <= Cardinality(before \cup {seq})
    BY <1>0, <2>1, <2>4, <2>5, <2>6
  <2>8. rx' <= Cardinality(echoed' \cap 1 .. (seq' - 1))
    BY <2>1, <2>3, <2>7
  <2>9. QED
    BY <2>1, <2>8 DEF EchoInv
<1>8. ASSUME UNCHANGED <<air, rx, echoed>>, seq' \in Nat, seq <= seq', pc' # "up"
      PROVE  EchoInv'
  <2>1. /\ Cardinality(echoed \cap 1 .. (seq - 1)) \in Nat
        /\ Cardinality(echoed \cap 1 .. (seq' - 1)) \in Nat
        /\ Cardinality(echoed \cap 1 .. (seq - 1)) <= Cardinality(echoed \cap 1 .. (seq' - 1))
    BY <1>0, <1>8, Smaller
  <2>2. rx' <= Cardinality(echoed' \cap 1 .. (seq' - 1))
    BY <1>0, <1>8, <2>1 DEF EchoInv
  <2>3. QED
    BY <1>8, <2>2 DEF EchoInv
<1>9. CASE TakeArp
  <2>1. seq = 0
    BY <1>0, <1>9 DEF TakeArp, PhaseInv
  <2>2. QED
    BY <1>8, <1>9, <2>1 DEF TakeArp, leaseVars
<1>10. CASE NextPing \/ Cancel
  <2>1. UNCHANGED <<air, rx, echoed>> /\ pc' # "up"
    BY <1>10 DEF NextPing, Cancel, leaseVars
  <2>2. seq' \in Nat /\ seq <= seq'
    BY <1>0, <1>10 DEF NextPing, Cancel
  <2>3. QED
    BY <1>8, <2>1, <2>2
<1>11. CASE PingsDone
  <2>1. UNCHANGED <<air, rx, echoed, seq>> /\ (pc' = "up" => rx # 0)
    BY <1>11 DEF PingsDone, leaseVars, pingVars
  <2>2. QED
    BY <1>0, <2>1 DEF EchoInv
<1>12. CASE Repeat \/ TakeOffer \/ TakeAck \/ Deadline
  BY <1>1, <1>12 DEF Repeat, TakeOffer, TakeAck, Deadline, leaseVars
<1>13. CASE UNCHANGED vars
  BY <1>1, <1>13 DEF vars, leaseVars
<1>14. QED
  BY <1>2, <1>3, <1>4, <1>5, <1>6, <1>7, <1>9, <1>10, <1>11, <1>12, <1>13
     DEF Next, Network, Lease

(* The bridge gets a path over which the gateway has answered, and no       *)
(* answer is counted for two requests.                                      *)
THEOREM PathAlwaysProven == Spec => []PathProven
<1>1. TypeInv /\ PhaseInv /\ EchoInv => PathProven
  <2> SUFFICES ASSUME TypeInv, PhaseInv, EchoInv PROVE PathProven
    OBVIOUS
  <2>1. seq \in Nat /\ rx \in Nat /\ echoed \subseteq 1 .. Pings /\ Pings \in Nat
    BY JoinAssumption DEF PhaseInv, TypeInv, PingType
  <2>2. IsFiniteSet(echoed)
    <3>1. IsFiniteSet(1 .. Pings)
      BY <2>1, FS_Interval
    <3>2. QED
      BY <2>1, <3>1, FS_Subset
  <2>3. /\ Cardinality(echoed \cap 1 .. (seq - 1)) <= Cardinality(echoed)
        /\ IsFiniteSet(echoed \cap 1 .. (seq - 1))
    BY <2>2, FS_Subset
  <2>4. Cardinality(echoed \cap 1 .. (seq - 1)) \in Nat /\ Cardinality(echoed) \in Nat
    BY <2>2, <2>3, FS_CardinalityType
  <2>5. QED
    BY <2>1, <2>3, <2>4 DEF EchoInv, PathProven
<1>2. QED
  BY <1>1, TypeInit, TypeStep, PhaseInit, PhaseStep, EchoInit, EchoStep, PTL DEF Spec
=============================================================================
