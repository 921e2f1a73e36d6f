----------------------------- MODULE HostProofs -----------------------------
(* Theorems of module Host, for any number of processes and utuns: while a   *)
(* bridge runs the dish's route is its own, and so is the record it wrote.   *)
EXTENDS Host, TLAPS

(* The claim carries the argument: who links holds it, so only one process   *)
(* at a time moves the route or the record, and its utun is open.            *)
HostInv == TypeOK /\ ClaimInv /\ TunInv /\ UpIsRouted /\ RecordIsOwn

\* What a destroyed utun leaves: fewer descriptors, and the route or none.
LEMMA DestroyedType ==
    ASSUME NEW ts, TypeOK, Destroyed(ts)
    PROVE  /\ owner' \in [Tuns -> Pids \cup {"none"}]
           /\ route' \in Tuns \cup {"none"}
           /\ \A t \in Tuns : t \notin ts => owner'[t] = owner[t]
           /\ route \notin ts => route' = route
BY DEF Destroyed, TypeOK

LEMMA InitInv == ASSUME HostAssumption, Init PROVE HostInv
BY DEF Init, HostInv, TypeOK, ClaimInv, TunInv, UpIsRouted, RecordIsOwn, HostAssumption,
       Steps, HasTun, Linking, Bridging, OtherIfaces

-----------------------------------------------------------------------------
(* The types. *)
LEMMA TypeStep == ASSUME HostAssumption, TypeOK, Next PROVE TypeOK'
<1> USE DEF TypeOK, OtherIfaces, linkVars, viewVars
<1>1. ASSUME NEW p \in Pids, Process(p) PROVE TypeOK'
  <2> USE DEF Steps, Goes
  <2>1. CASE Launch(p)
    BY <2>1 DEF Launch
  <2>2. CASE Die(p)
    <3>1. owner' \in [Tuns -> Pids \cup {"none"}] /\ route' \in Tuns \cup {"none"}
      BY <2>2, DestroyedType DEF Die
    <3> QED BY <2>2, <3>1 DEF Die
  <2>3. CASE Check(p)
    BY <2>3 DEF Check
  <2>4. CASE Claim(p)
    BY <2>4 DEF Claim
  <2>5. CASE NoLink(p)
    BY <2>5 DEF NoLink
  <2>6. CASE MakeTun(p)
    BY <2>6 DEF MakeTun
  <2>7. CASE SetupFails(p)
    BY <2>7 DEF SetupFails
  <2>8. CASE RouteGet(p)
    <3>1. Via \in Tuns \cup OtherIfaces
      BY DEF Via
    <3> QED BY <2>8, <3>1 DEF RouteGet
  <2>9. CASE Sample(p)
    BY <2>9 DEF Sample
  <2>10. CASE Delete(p)
    BY <2>10 DEF Delete
  <2>11. CASE Add(p)
    BY <2>11 DEF Add
  <2>12. CASE BridgeUp(p)
    BY <2>12 DEF BridgeUp
  <2>13. CASE BridgeEnds(p)
    BY <2>13 DEF BridgeEnds
  <2>14. CASE CleanUp(p)
    <3>1. owner' \in [Tuns -> Pids \cup {"none"}] /\ route' \in Tuns \cup {"none"}
      BY <2>14, DestroyedType DEF CleanUp, CloseTun
    <3> QED BY <2>14, <3>1 DEF CleanUp, CloseTun
  <2>15. CASE Release(p)
    BY <2>15 DEF Release
  <2>16. CASE Shutdown(p)
    <3>1. owner' \in [Tuns -> Pids \cup {"none"}] /\ route' \in Tuns \cup {"none"}
      BY <2>16, DestroyedType DEF Shutdown, CloseTun
    <3> QED BY <2>16, <3>1 DEF Shutdown, CloseTun
  <2> QED BY <1>1, <2>1, <2>2, <2>3, <2>4, <2>5, <2>6, <2>7, <2>8, <2>9, <2>10, <2>11,
             <2>12, <2>13, <2>14, <2>15, <2>16 DEF Process
<1>2. ASSUME NEW t \in Tuns, Reap(t) PROVE TypeOK'
  <2>1. owner' \in [Tuns -> Pids \cup {"none"}] /\ route' \in Tuns \cup {"none"}
    BY <1>2, DestroyedType DEF Reap
  <2> QED BY <1>2, <2>1 DEF Reap
<1>3. CASE DefaultMoves
  BY <1>3 DEF DefaultMoves
<1>4. CASE RecordAges
  BY <1>4 DEF RecordAges
<1>5. CASE StatusRead
  BY <1>5 DEF StatusRead
<1>6. CASE ViewExpires
  BY <1>6 DEF ViewExpires
<1> QED BY <1>1, <1>2, <1>3, <1>4, <1>5, <1>6 DEF Next
-----------------------------------------------------------------------------
(* Who links holds the claim. *)
LEMMA ClaimStep == ASSUME HostAssumption, TypeOK, ClaimInv, Next PROVE ClaimInv'
<1> USE DEF TypeOK, ClaimInv
<1>1. ASSUME NEW p \in Pids, Process(p) PROVE ClaimInv'
  <2> USE DEF Goes, Linking, HasTun
  <2>1. CASE Launch(p)
    BY <2>1 DEF Launch, linkVars
  <2>2. CASE Die(p)
    BY <2>2 DEF Die
  <2>3. CASE Check(p)
    BY <2>3 DEF Check, linkVars
  <2>4. CASE Claim(p)
    BY <2>4, HostAssumption DEF Claim, HostAssumption
  <2>5. CASE NoLink(p)
    BY <2>5 DEF NoLink, linkVars
  <2>6. CASE MakeTun(p)
    BY <2>6 DEF MakeTun
  <2>7. CASE SetupFails(p)
    BY <2>7 DEF SetupFails, linkVars
  <2>8. CASE RouteGet(p)
    BY <2>8 DEF RouteGet
  <2>9. CASE Sample(p)
    BY <2>9 DEF Sample, linkVars
  <2>10. CASE Delete(p)
    BY <2>10 DEF Delete
  <2>11. CASE Add(p)
    BY <2>11 DEF Add
  <2>12. CASE BridgeUp(p)
    BY <2>12 DEF BridgeUp, linkVars
  <2>13. CASE BridgeEnds(p)
    BY <2>13 DEF BridgeEnds, linkVars
  <2>14. CASE CleanUp(p)
    BY <2>14 DEF CleanUp, CloseTun
  <2>15. CASE Release(p)
    BY <2>15 DEF Release
  <2>16. CASE Shutdown(p)
    BY <2>16 DEF Shutdown, CloseTun
  <2> QED BY <1>1, <2>1, <2>2, <2>3, <2>4, <2>5, <2>6, <2>7, <2>8, <2>9, <2>10, <2>11,
             <2>12, <2>13, <2>14, <2>15, <2>16 DEF Process
<1>2. ASSUME NEW t \in Tuns, Reap(t) PROVE ClaimInv'
  BY <1>2 DEF Reap
<1>3. CASE DefaultMoves
  BY <1>3 DEF DefaultMoves, linkVars
<1>4. CASE RecordAges
  BY <1>4 DEF RecordAges, linkVars
<1>5. CASE StatusRead
  BY <1>5 DEF StatusRead, linkVars
<1>6. CASE ViewExpires
  BY <1>6 DEF ViewExpires, linkVars
<1> QED BY <1>1, <1>2, <1>3, <1>4, <1>5, <1>6 DEF Next

-----------------------------------------------------------------------------
(* A bridge's utun stays open: only its own process's end and clean-up close *)
(* it, and a fresh utun is nobody's.                                         *)
LEMMA TunStep == ASSUME HostAssumption, TypeOK, TunInv, Next PROVE TunInv'
<1> USE DEF TypeOK, TunInv
<1>1. ASSUME NEW p \in Pids, Process(p) PROVE TunInv'
  <2> USE DEF Goes, HasTun
  <2>1. CASE Launch(p)
    BY <2>1 DEF Launch, linkVars
  <2>2. CASE Die(p)
    <3>1. \A t \in Tuns : owner[t] # p => owner'[t] = owner[t]
      BY <2>2 DEF Die, Destroyed
    <3>2. /\ pc' = [pc EXCEPT ![p] = "gone"]
          /\ tun' = [tun EXCEPT ![p] = "none"]
      BY <2>2 DEF Die
    <3> QED BY <3>1, <3>2
  <2>3. CASE Check(p)
    BY <2>3 DEF Check, linkVars
  <2>4. CASE Claim(p)
    BY <2>4 DEF Claim
  <2>5. CASE NoLink(p)
    BY <2>5 DEF NoLink, linkVars
  <2>6. CASE MakeTun(p)
    <3>1. PICK t \in Tuns : /\ owner[t] = "none"
                            /\ owner' = [owner EXCEPT ![t] = p]
                            /\ tun' = [tun EXCEPT ![p] = t]
      BY <2>6 DEF MakeTun
    <3> QED BY <2>6, <3>1, HostAssumption DEF MakeTun, HostAssumption
  <2>7. CASE SetupFails(p)
    BY <2>7 DEF SetupFails, linkVars
  <2>8. CASE RouteGet(p)
    BY <2>8 DEF RouteGet
  <2>9. CASE Sample(p)
    BY <2>9 DEF Sample, linkVars
  <2>10. CASE Delete(p)
    BY <2>10 DEF Delete
  <2>11. CASE Add(p)
    BY <2>11 DEF Add
  <2>12. CASE BridgeUp(p)
    BY <2>12 DEF BridgeUp, linkVars
  <2>13. CASE BridgeEnds(p)
    BY <2>13 DEF BridgeEnds, linkVars
  <2>14. CASE CleanUp(p)
    \* tun[p] may be "none" or a utun of p; another's is a different one
    <3>1. \A t \in Tuns : t # tun[p] => owner'[t] = owner[t]
      BY <2>14 DEF CleanUp, CloseTun, Destroyed
    <3>2. /\ pc[p] = "closing" /\ pc' = [pc EXCEPT ![p] = "closed"]
          /\ tun' = [tun EXCEPT ![p] = "none"]
      BY <2>14 DEF CleanUp, CloseTun
    <3> QED BY <3>1, <3>2
  <2>15. CASE Release(p)
    BY <2>15 DEF Release
  <2>16. CASE Shutdown(p)
    <3>1. \A t \in Tuns : t # tun[p] => owner'[t] = owner[t]
      BY <2>16 DEF Shutdown, CloseTun, Destroyed
    <3>2. pc' = [pc EXCEPT ![p] = "down"] /\ tun' = [tun EXCEPT ![p] = "none"]
      BY <2>16 DEF Shutdown, CloseTun
    <3> QED BY <3>1, <3>2
  <2> QED BY <1>1, <2>1, <2>2, <2>3, <2>4, <2>5, <2>6, <2>7, <2>8, <2>9, <2>10, <2>11,
             <2>12, <2>13, <2>14, <2>15, <2>16 DEF Process
<1>2. ASSUME NEW t \in Tuns, Reap(t) PROVE TunInv'
  <2>1. owner[t] # "none" /\ tun[owner[t]] # t /\ pc' = pc /\ tun' = tun
    BY <1>2 DEF Reap
  <2>2. \A u \in Tuns : u # t => owner'[u] = owner[u]
    BY <1>2 DEF Reap, Destroyed
  <2> QED BY <2>1, <2>2
<1>3. CASE DefaultMoves
  BY <1>3 DEF DefaultMoves, linkVars
<1>4. CASE RecordAges
  BY <1>4 DEF RecordAges, linkVars
<1>5. CASE StatusRead
  BY <1>5 DEF StatusRead, linkVars
<1>6. CASE ViewExpires
  BY <1>6 DEF ViewExpires, linkVars
<1> QED BY <1>1, <1>2, <1>3, <1>4, <1>5, <1>6 DEF Next
-----------------------------------------------------------------------------
(* Two processes never link at once. *)
LEMMA OneLinks ==
    ASSUME ClaimInv, NEW p \in Pids, NEW q \in Pids, pc[p] \in Linking, pc[q] \in Linking
    PROVE  p = q
BY DEF ClaimInv

(* The route of a bridge: the steps that move the route are those of a       *)
(* process that links, hence of the bridge's own, or destroy another utun.   *)
LEMMA RouteStep ==
    ASSUME HostAssumption, TypeOK, ClaimInv, TunInv, UpIsRouted, Next
    PROVE  UpIsRouted'
<1> USE DEF TypeOK, UpIsRouted
<1>1. ASSUME NEW p \in Pids, Process(p) PROVE UpIsRouted'
  <2> USE DEF Goes, Bridging
  <2>1. CASE Launch(p)
    BY <2>1 DEF Launch, linkVars
  <2>2. CASE Die(p)
    <3>1. ASSUME NEW q \in Pids, pc'[q] \in Bridging PROVE route' = tun'[q]
      <4>1. q # p /\ pc[q] \in Bridging /\ tun'[q] = tun[q]
        BY <2>2, <3>1 DEF Die
      <4>2. route = tun[q] /\ owner[tun[q]] = q
        BY <4>1 DEF TunInv, HasTun
      <4>3. route \notin {t \in Tuns : owner[t] = p}
        BY <4>1, <4>2
      <4> QED BY <2>2, <4>1, <4>2, <4>3 DEF Die, Destroyed
    <3> QED BY <3>1
  <2>3. CASE Check(p)
    BY <2>3 DEF Check, linkVars
  <2>4. CASE Claim(p)
    BY <2>4 DEF Claim
  <2>5. CASE NoLink(p)
    BY <2>5 DEF NoLink, linkVars
  <2>6. CASE MakeTun(p)
    BY <2>6 DEF MakeTun
  <2>7. CASE SetupFails(p)
    BY <2>7 DEF SetupFails, linkVars
  <2>8. CASE RouteGet(p)
    <3>1. pc[p] = "tun" /\ tun[p] \in Tuns
      BY <2>8 DEF RouteGet, TunInv, HasTun
    <3>2. Via = tun[p] => route = tun[p]
      BY <3>1, HostAssumption DEF Via, HostAssumption, OtherIfaces
    <3> QED BY <2>8, <3>2 DEF RouteGet
  <2>9. CASE Sample(p)
    BY <2>9 DEF Sample, linkVars
  <2>10. CASE Delete(p)
    <3>1. \A q \in Pids : pc[q] \in Bridging => q = p
      BY <2>10, OneLinks DEF Delete, Linking, HasTun
    <3> QED BY <2>10, <3>1 DEF Delete
  <2>11. CASE Add(p)
    <3>1. \A q \in Pids : pc[q] \in Bridging => q = p
      BY <2>11, OneLinks DEF Add, Linking, HasTun
    <3> QED BY <2>11, <3>1 DEF Add
  <2>12. CASE BridgeUp(p)
    BY <2>12 DEF BridgeUp, linkVars
  <2>13. CASE BridgeEnds(p)
    BY <2>13 DEF BridgeEnds, linkVars
  <2>14. CASE CleanUp(p)
    <3>1. \A q \in Pids : pc[q] \in Bridging => q = p
      BY <2>14, OneLinks DEF CleanUp, Linking, HasTun
    <3>2. pc[p] = "closing" /\ pc' = [pc EXCEPT ![p] = "closed"]
      BY <2>14 DEF CleanUp, CloseTun
    <3> QED BY <3>1, <3>2
  <2>15. CASE Release(p)
    BY <2>15 DEF Release
  <2>16. CASE Shutdown(p)
    <3>1. \A q \in Pids : pc[q] \in Bridging => q = p
      BY <2>16, OneLinks DEF Shutdown, Linking, HasTun
    <3>2. pc' = [pc EXCEPT ![p] = "down"]
      BY <2>16 DEF Shutdown
    <3> QED BY <3>1, <3>2
  <2> QED BY <1>1, <2>1, <2>2, <2>3, <2>4, <2>5, <2>6, <2>7, <2>8, <2>9, <2>10, <2>11,
             <2>12, <2>13, <2>14, <2>15, <2>16 DEF Process
<1>2. ASSUME NEW t \in Tuns, Reap(t) PROVE UpIsRouted'
  <2>1. ASSUME NEW q \in Pids, pc[q] \in Bridging PROVE route' = tun[q]
    <3>1. route = tun[q] /\ owner[tun[q]] = q
      BY <2>1 DEF TunInv, HasTun, Bridging
    <3>2. route # t
      BY <1>2, <3>1 DEF Reap
    <3> QED BY <1>2, <3>1, <3>2 DEF Reap, Destroyed
  <2> QED BY <1>2, <2>1 DEF Reap
<1>3. CASE DefaultMoves
  BY <1>3 DEF DefaultMoves, linkVars
<1>4. CASE RecordAges
  BY <1>4 DEF RecordAges, linkVars
<1>5. CASE StatusRead
  BY <1>5 DEF StatusRead, linkVars
<1>6. CASE ViewExpires
  BY <1>6 DEF ViewExpires, linkVars
<1> QED BY <1>1, <1>2, <1>3, <1>4, <1>5, <1>6 DEF Next

-----------------------------------------------------------------------------
(* The record of a bridge: only BridgeUp and BridgeEnds write it, and they   *)
(* are steps of a process that links.                                        *)
LEMMA RecordStep ==
    ASSUME HostAssumption, TypeOK, ClaimInv, RecordIsOwn, Next
    PROVE  RecordIsOwn'
<1> USE DEF TypeOK, RecordIsOwn
<1>1. ASSUME NEW p \in Pids, Process(p) PROVE RecordIsOwn'
  <2> USE DEF Goes
  <2>1. CASE Launch(p)
    BY <2>1 DEF Launch
  <2>2. CASE Die(p)
    BY <2>2 DEF Die
  <2>3. CASE Check(p)
    BY <2>3 DEF Check
  <2>4. CASE Claim(p)
    BY <2>4 DEF Claim
  <2>5. CASE NoLink(p)
    BY <2>5 DEF NoLink
  <2>6. CASE MakeTun(p)
    BY <2>6 DEF MakeTun
  <2>7. CASE SetupFails(p)
    BY <2>7 DEF SetupFails
  <2>8. CASE RouteGet(p)
    BY <2>8 DEF RouteGet
  <2>9. CASE Sample(p)
    BY <2>9 DEF Sample
  <2>10. CASE Delete(p)
    BY <2>10 DEF Delete
  <2>11. CASE Add(p)
    BY <2>11 DEF Add
  <2>12. CASE BridgeUp(p)
    <3>1. \A q \in Pids : pc[q] = "up" => q = p
      BY <2>12, OneLinks DEF BridgeUp, Linking, HasTun
    <3> QED BY <2>12, <3>1 DEF BridgeUp
  <2>13. CASE BridgeEnds(p)
    <3>1. \A q \in Pids : pc[q] = "up" => q = p
      BY <2>13, OneLinks DEF BridgeEnds, Linking, HasTun
    <3> QED BY <2>13, <3>1 DEF BridgeEnds
  <2>14. CASE CleanUp(p)
    BY <2>14 DEF CleanUp, CloseTun
  <2>15. CASE Release(p)
    BY <2>15 DEF Release
  <2>16. CASE Shutdown(p)
    BY <2>16 DEF Shutdown
  <2> QED BY <1>1, <2>1, <2>2, <2>3, <2>4, <2>5, <2>6, <2>7, <2>8, <2>9, <2>10, <2>11,
             <2>12, <2>13, <2>14, <2>15, <2>16 DEF Process
<1>2. ASSUME NEW t \in Tuns, Reap(t) PROVE RecordIsOwn'
  BY <1>2 DEF Reap
<1>3. CASE DefaultMoves
  BY <1>3 DEF DefaultMoves
<1>4. CASE RecordAges
  BY <1>4 DEF RecordAges
<1>5. CASE StatusRead
  BY <1>5 DEF StatusRead
<1>6. CASE ViewExpires
  BY <1>6 DEF ViewExpires
<1> QED BY <1>1, <1>2, <1>3, <1>4, <1>5, <1>6 DEF Next

-----------------------------------------------------------------------------
LEMMA HostInvStep == ASSUME HostAssumption, HostInv, [Next]_vars PROVE HostInv'
<1>1. CASE Next
  BY <1>1, TypeStep, ClaimStep, TunStep, RouteStep, RecordStep DEF HostInv
<1>2. CASE UNCHANGED vars
  BY <1>2 DEF HostInv, TypeOK, ClaimInv, TunInv, UpIsRouted, RecordIsOwn, vars, linkVars,
              viewVars
<1> QED BY <1>1, <1>2

LEMMA HostInvAlways == ASSUME HostAssumption PROVE Spec => []HostInv
<1>1. Init => HostInv
  BY InitInv
<1>2. HostInv /\ [Next]_vars => HostInv'
  BY HostInvStep
<1> QED BY <1>1, <1>2, PTL DEF Spec

(* Types of every reachable state, for any processes and utuns. *)
THEOREM TypeCorrect == Spec => []TypeOK
<1>1. HostInv => TypeOK
  BY DEF HostInv
<1> QED BY <1>1, HostAssumption, HostInvAlways, PTL

(* No killed link, lingering utun or second process takes the dish's route   *)
(* from a running bridge.                                                    *)
THEOREM UpAlwaysRouted == Spec => []UpIsRouted
<1>1. HostInv => UpIsRouted
  BY DEF HostInv
<1> QED BY <1>1, HostAssumption, HostInvAlways, PTL

(* No other process replaces or removes the record of a running bridge.      *)
THEOREM RecordAlwaysOwn == Spec => []RecordIsOwn
<1>1. HostInv => RecordIsOwn
  BY DEF HostInv
<1> QED BY <1>1, HostAssumption, HostInvAlways, PTL
=============================================================================
