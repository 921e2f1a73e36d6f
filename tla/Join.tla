-------------------------------- MODULE Join --------------------------------
(***************************************************************************)
(* From a started MAC to a usable address: the association with its        *)
(* fallback to sibling BSSIDs (bringup_scan.go), then the DHCP, ARP and    *)
(* ping exchanges (netbringup.go).  The handshake between the two is a     *)
(* single step here; module KeyExchange has its detail.                    *)
(*                                                                         *)
(* A BSSID is the number that ranks its signal; 0 asks for any.  The       *)
(* firmware, the DHCP servers and the gateway are external.  The air loses *)
(* a frame by never delivering it, and repeats, delays and reorders at     *)
(* will; a frame netCh has no room for is a lost one.                      *)
(***************************************************************************)
EXTENDS Naturals, Sequences, FiniteSets

CONSTANTS
    Bss,          \* the BSSIDs on the air
    Ours,         \* those with our name, or none, on the requested channel
    Asked,        \* what --connect-bssid may be: BSSIDs, and 0 for none
    IndCap,       \* capacity of connIndCh, 4 in the code
    MaxInds,      \* bound of the model: SM_CONNECT_INDs from the firmware
    Servers,      \* the DHCP servers that hear us
    Ips,          \* the addresses they hand out
    Sends,        \* messages a ticker sends before the deadline, 5 in the code
    Pings         \* echo requests, 4 in the code

ASSUME JoinAssumption ==
    /\ Bss \subseteq Nat \ {0} /\ IsFiniteSet(Bss)
    /\ Ours \subseteq Bss /\ Asked \subseteq Bss \cup {0}
    /\ IndCap \in Nat \ {0} /\ MaxInds \in Nat
    /\ Servers # {} /\ Ips \subseteq Nat \ {0}
    /\ Sends \in Nat \ {0} /\ Pings \in Nat

VARIABLES
    pc,         \* where runBringupScan or runDhcpPing is, or how it ended
    queue,      \* candidates still to be asked
    tried,      \* BSSIDs asked or queued
    scanned,    \* fallbackScanned
    results,    \* BSSIDs the event loop has collected
    connInd,    \* connIndCh: TRUE for an association, FALSE for a refusal
    asked,      \* history: the SM_CONNECT_REQs sent
    scans,      \* history: the scan commands sent
    inds,       \* history: SM_CONNECT_INDs sent by the firmware
    refused,    \* history: refusals taken
    offer,      \* the offer taken: server and address
    myIP,       \* the address of the acknowledgement, 0 before
    sends,      \* messages sent in this exchange
    air,        \* frames that may reach the station
    reserved,   \* per server: the address it has offered, 0 for none
    leased,     \* per server: the address it has committed to us, 0 for none
    seq,        \* the echo request being awaited
    rx,         \* echo replies counted
    echoed      \* history: the echo requests the gateway has answered

assocVars == <<queue, tried, scanned, results, connInd, asked, scans, inds, refused>>
leaseVars == <<offer, myIP, air, reserved, leased>>
pingVars == <<seq, rx, echoed>>
vars == <<pc, assocVars, leaseVars, sends, pingVars>>

Associating == {"prescan", "ask", "wait", "scan"}
Leasing == {"discover", "request", "arp", "ping"}
Ended == {"up", "open", "silent", "noSiblings", "sendFailed", "noHandshake",
          "noOffer", "noAck", "noArp", "noPing", "cancelled"}

Frames ==
    [kind : {"offer", "ack"}, server : Servers, ip : Ips] \cup
    [kind : {"arp"}] \cup [kind : {"echo"}, seq : 1 .. Pings]

TypeOK ==
    /\ pc \in Associating \cup {"handshake"} \cup Leasing \cup Ended
    /\ queue \in Seq(Bss \cup {0}) /\ asked \in Seq(Bss \cup {0})
    /\ tried \subseteq Bss /\ results \subseteq Bss
    /\ scanned \in BOOLEAN
    /\ connInd \in Seq(BOOLEAN) /\ Len(connInd) <= IndCap
    /\ scans \in 0 .. 2 /\ inds \in 0 .. MaxInds /\ refused \in 0 .. MaxInds
    /\ offer \in [server : Servers, ip : Ips \cup {0}]
    /\ myIP \in Ips \cup {0}
    /\ sends \in 0 .. Sends
    /\ air \subseteq Frames
    /\ reserved \in [Servers -> Ips \cup {0}] /\ leased \in [Servers -> Ips \cup {0}]
    /\ seq \in 0 .. Pings + 1 /\ rx \in 0 .. Pings /\ echoed \subseteq 1 .. Pings

Init ==
    /\ pc \in {"prescan", "ask"}     \* with --prescan or without
    /\ \E b \in Asked : queue = <<b>> /\ tried = {b} \ {0}
    /\ scanned = FALSE /\ results = {} /\ connInd = << >>
    /\ asked = << >> /\ scans = 0 /\ inds = 0 /\ refused = 0
    /\ offer = [server |-> CHOOSE s \in Servers : TRUE, ip |-> 0] /\ myIP = 0
    /\ sends = 0 /\ air = {}
    /\ reserved = [s \in Servers |-> 0] /\ leased = [s \in Servers |-> 0]
    /\ seq = 0 /\ rx = 0 /\ echoed = {}

-----------------------------------------------------------------------------
(* The firmware; a report connIndCh has no room for is dropped. *)
OfferedAnyway(ok) == Append(connInd, ok)   \* mutant: no bound
Offered(ok) == IF Len(connInd) < IndCap THEN Append(connInd, ok) ELSE connInd

ScanResult ==
    /\ scans > 0 /\ pc \in Associating
    /\ \E b \in Bss \ results : results' = results \cup {b}
    /\ UNCHANGED <<pc, queue, tried, scanned, connInd, asked, scans, inds, refused,
                   leaseVars, sends, pingVars>>

(* It may report more than once on the request, or not at all.  Reports     *)
(* after the association are read by nobody.                                *)
ConnectInd ==
    /\ asked # << >> /\ inds < MaxInds /\ pc \in Associating
    /\ inds' = inds + 1
    /\ \E ok \in BOOLEAN : connInd' = Offered(ok)
    /\ UNCHANGED <<pc, queue, tried, scanned, results, asked, scans, refused,
                   leaseVars, sends, pingVars>>

-----------------------------------------------------------------------------
(* The pre-connect scan: sent once, then six seconds of sleep. *)
ScanFirst ==
    /\ pc = "prescan"
    /\ IF scans = 0 THEN scans' = 1 /\ UNCHANGED pc
                    ELSE pc' = "ask" /\ UNCHANGED scans
    /\ UNCHANGED <<queue, tried, scanned, results, connInd, asked, inds, refused,
                   leaseVars, sends, pingVars>>

(* SM_CONNECT_REQ for the first candidate of the queue *)
Ask ==
    /\ pc = "ask" /\ queue # << >>
    /\ queue' = Tail(queue)
    /\ \/ pc' = "wait" /\ asked' = Append(asked, Head(queue))
       \/ pc' = "sendFailed" /\ UNCHANGED asked
    /\ UNCHANGED <<tried, scanned, results, connInd, scans, inds, refused,
                   leaseVars, sends, pingVars>>

(* The association: the connected link goes on to the handshake. *)
Associated ==
    /\ pc = "wait" /\ connInd # << >> /\ Head(connInd)
    /\ connInd' = Tail(connInd)
    /\ pc' = "handshake"
    /\ UNCHANGED <<queue, tried, scanned, results, asked, scans, inds, refused,
                   leaseVars, sends, pingVars>>

Strongest(S) == {b \in S : \A c \in S : c <= b}
Ranked(S) == {<<b>> : b \in Strongest(S)} \cup
             {<<b, c>> : b \in Strongest(S), c \in Strongest(S \ Strongest(S))}
SiblingsAgain == Ours \cap results   \* mutant: tried BSSIDs are not excluded
Siblings == (Ours \cap results) \ tried

(* At most two siblings are queued, the strongest first.  The loop then goes *)
(* on waiting: "continue Attempt" continues the inner loop.                  *)
QueueSiblings ==
    IF Siblings = {} THEN pc' = "noSiblings" /\ UNCHANGED <<queue, tried>>
    ELSE \E batch \in Ranked(Siblings) :
         /\ \A r \in Ranked(Siblings) : Len(r) <= Len(batch)
         /\ pc' = "wait"
         /\ queue' = queue \o batch
         /\ tried' = tried \cup {batch[i] : i \in 1 .. Len(batch)}

(* A refusal: siblings are taken from the results, after a scan if there    *)
(* are none and this is the first refusal.                                  *)
Refused ==
    /\ pc = "wait" /\ connInd # << >> /\ ~Head(connInd)
    /\ connInd' = Tail(connInd) /\ refused' = refused + 1
    /\ scanned' = TRUE
    /\ IF ~scanned /\ results = {}
       THEN pc' = "scan" /\ scans' = scans + 1 /\ UNCHANGED <<queue, tried>>
       ELSE QueueSiblings /\ UNCHANGED scans
    /\ UNCHANGED <<results, asked, inds, leaseVars, sends, pingVars>>

(* the ten seconds of the fallback scan are over *)
Collect ==
    /\ pc = "scan"
    /\ QueueSiblings
    /\ UNCHANGED <<scanned, results, connInd, asked, scans, inds, refused,
                   leaseVars, sends, pingVars>>

SilenceNever == FALSE   \* mutant: no deadline on the association

(* 90 seconds since the last request *)
Silence ==
    /\ pc = "wait"
    /\ pc' = "silent"
    /\ UNCHANGED <<assocVars, leaseVars, sends, pingVars>>

(* The handshake ends and the first discover is sent; an open network, or  *)
(* --skip-net, ends here.                                                   *)
HandshakeEnds ==
    /\ pc = "handshake"
    /\ \/ pc' = "discover" /\ sends' = 1
       \/ pc' \in {"noHandshake", "open"} /\ UNCHANGED sends
    /\ UNCHANGED <<assocVars, leaseVars, pingVars>>

-----------------------------------------------------------------------------
(* The ticker repeats the discover, the request or the ARP request. *)
Repeat ==
    /\ pc \in {"discover", "request", "arp"} /\ sends < Sends
    /\ sends' = sends + 1
    /\ UNCHANGED <<pc, assocVars, leaseVars, pingVars>>

(* A server hears a discover and reserves an address; one that has already  *)
(* committed an address offers that one again.                              *)
Offer(s) ==
    /\ sends > 0 /\ pc \in Leasing
    /\ \E ip \in Ips :
        /\ leased[s] \in {0, ip}
        /\ \A t \in Servers \ {s} : ip \notin {reserved[t], leased[t]}
        /\ reserved' = [reserved EXCEPT ![s] = ip]
        /\ air' = air \cup {[kind |-> "offer", server |-> s, ip |-> ip]}
    /\ UNCHANGED <<pc, assocVars, offer, myIP, leased, sends, pingVars>>

(* The server named in a request commits the address if it still reserves   *)
(* it (a refusal is a frame the code ignores); the others forget theirs.    *)
Commit(s) ==
    /\ offer.ip # 0 /\ pc \in Leasing /\ offer.server = s
    /\ reserved[s] = offer.ip
    /\ leased' = [leased EXCEPT ![s] = offer.ip]
    /\ reserved' = [t \in Servers |-> IF t = s THEN reserved[t] ELSE 0]
    /\ air' = air \cup {[kind |-> "ack", server |-> s, ip |-> offer.ip]}
    /\ UNCHANGED <<pc, assocVars, offer, myIP, sends, pingVars>>

IsOffer(f) == f.kind = "offer"
IsAckOrOffer(f) == f.kind \in {"ack", "offer"}   \* mutant: the message type is not looked at
IsAck(f) == f.kind = "ack"

TakeOffer ==
    /\ pc = "discover"
    /\ \E f \in air : IsOffer(f) /\ offer' = [server |-> f.server, ip |-> f.ip]
    /\ pc' = "request" /\ sends' = 1
    /\ UNCHANGED <<assocVars, myIP, air, reserved, leased, pingVars>>

TakeAck ==
    /\ pc = "request"
    /\ \E f \in air : IsAck(f) /\ myIP' = f.ip
    /\ pc' = "arp" /\ sends' = 1
    /\ UNCHANGED <<assocVars, offer, air, reserved, leased, pingVars>>

ArpReply ==
    /\ pc = "arp" /\ sends > 0
    /\ air' = air \cup {[kind |-> "arp"]}
    /\ UNCHANGED <<pc, assocVars, offer, myIP, reserved, leased, sends, pingVars>>

(* The gateway is resolved; the first echo request is sent. *)
TakeArp ==
    /\ pc = "arp" /\ [kind |-> "arp"] \in air
    /\ pc' = "ping" /\ seq' = 1
    /\ UNCHANGED <<assocVars, leaseVars, sends, rx, echoed>>

(* the gateway answers a request it has heard, now or later *)
Echo ==
    /\ pc = "ping"
    /\ \E i \in 1 .. seq \cap 1 .. Pings :
          /\ echoed' = echoed \cup {i}
          /\ air' = air \cup {[kind |-> "echo", seq |-> i]}
    /\ UNCHANGED <<pc, assocVars, offer, myIP, reserved, leased, sends, seq, rx>>

IsEchoOfAny(f) == f.kind = "echo"   \* mutant: the sequence number is not compared
IsEcho(f) == f.kind = "echo" /\ f.seq = seq

TakeEcho ==
    /\ pc = "ping" /\ seq <= Pings
    /\ \E f \in air : IsEcho(f)
    /\ rx' = rx + 1 /\ seq' = seq + 1
    /\ UNCHANGED <<pc, assocVars, leaseVars, sends, echoed>>

(* Three seconds without the reply, or the request could not be sent; an    *)
(* ICMP unreachable ends the pings.                                         *)
NextPing ==
    /\ pc = "ping" /\ seq <= Pings
    /\ seq' \in {seq + 1, Pings + 1}
    /\ UNCHANGED <<pc, assocVars, leaseVars, sends, rx, echoed>>

PingsDone ==
    /\ pc = "ping" /\ seq = Pings + 1
    /\ pc' = IF rx = 0 THEN "noPing" ELSE "up"
    /\ UNCHANGED <<assocVars, leaseVars, sends, pingVars>>

(* 15 seconds for the offer and the acknowledgement, 10 for ARP *)
Deadline ==
    /\ \/ pc = "discover" /\ pc' = "noOffer"
       \/ pc = "request" /\ pc' = "noAck"
       \/ pc = "arp" /\ pc' = "noArp"
    /\ UNCHANGED <<assocVars, leaseVars, sends, pingVars>>

(* The loops from the handshake on look at the context; the association     *)
(* does not, nor do its sleeps.  Stopped while pinging, what was counted    *)
(* still decides.                                                           *)
Cancel ==
    /\ \/ pc \in {"handshake", "discover", "request", "arp"} /\ pc' = "cancelled" /\ UNCHANGED seq
       \/ pc = "ping" /\ seq <= Pings /\ seq' = Pings + 1 /\ UNCHANGED pc
    /\ UNCHANGED <<assocVars, leaseVars, sends, rx, echoed>>

-----------------------------------------------------------------------------
Firmware == ScanResult \/ ConnectInd
Associate == ScanFirst \/ Ask \/ Associated \/ Refused \/ Collect \/ Silence \/ HandshakeEnds
Network == (\E s \in Servers : Offer(s) \/ Commit(s)) \/ ArpReply \/ Echo
Lease == Repeat \/ TakeOffer \/ TakeAck \/ TakeArp \/ TakeEcho \/ NextPing \/ PingsDone \/ Deadline

Next == Firmware \/ Associate \/ Network \/ Lease \/ Cancel

Spec == Init /\ [][Next]_vars

(* The station's loops run, and every select has a deadline that fires.     *)
FairSpec ==
    /\ Spec
    /\ WF_vars(ScanFirst \/ Ask \/ Collect \/ HandshakeEnds)
    /\ WF_vars(Silence) /\ WF_vars(Deadline) /\ WF_vars(NextPing \/ PingsDone)

-----------------------------------------------------------------------------
(* No BSSID is asked or queued a second time, however often the firmware    *)
(* reports a refusal ("only once per BSSID").                               *)
TriedOnce ==
    LET all == asked \o queue IN
    \A i, j \in 1 .. Len(all) : i # j => all[i] # all[j]

(* The address the station uses is one that its server has committed to it, *)
(* whatever late offers of this or another server arrive.                   *)
LeaseAgrees == pc \in {"arp", "ping", "up"} => myIP = leased[offer.server]

(* The link goes on to the bridge only if the gateway has answered, and the *)
(* replies counted are different ones.                                      *)
PathProven == rx <= Cardinality(echoed) /\ (pc = "up" => rx > 0)

(* The join ends, connected or not, whatever the radio does.                *)
JoinSettles == <>(pc \in Ended)

(* "only an explicit AP refusal retries.  A silent AP (no IND in 90s) means *)
(* a deaf instance": the join ends as silent only if the last request has   *)
(* had no answer.                                                           *)
SilenceIsDeaf == pc = "silent" => Len(asked) > refused
=============================================================================
