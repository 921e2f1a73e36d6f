--------------------------- MODULE FailoverProofs ---------------------------
(***************************************************************************)
(* Proofs about Failover, for any interfaces and any number of changes of  *)
(* the network and refusals of route(8).                                   *)
(***************************************************************************)
EXTENDS Failover, TLAPS

(* The actions of Next, one by one.                                         *)
LEMMA StepCases ==
    ASSUME [Next]_vars
    PROVE  \/ Flap \/ SetAutoFailover \/ UserSets \/ ReportBegins \/ ReportEnds
           \/ Tick \/ Answered \/ Unanswered \/ TryAlternate \/ Notes
           \/ (\E w \in {"dog", "user"} : Sets(w))
           \/ UNCHANGED vars
BY DEF Next

(* A step of SetDefaultInterface moves one caller, the loop or the client.  *)
LEMMA GoesOnType ==
    ASSUME TypeOK, NEW w \in {"dog", "user"}, NEW here, NEW there \in Setting \cup {"idle", "note"},
           there = "note" => w = "dog", GoesOn(w, here, there)
    PROVE  /\ dog' \in {"idle", "probe", "alternates", "note"} \cup Setting
           /\ user' \in {"idle"} \cup Setting
           /\ w = "dog" => dog = here /\ dog' = there /\ user' = user
           /\ w = "user" => user = here /\ user' = there /\ dog' = dog
BY DEF TypeOK, GoesOn, Setting

(* The steps of SetDefaultInterface keep the types.                         *)
LEMMA SetsType ==
    ASSUME TypeOK, NEW w \in {"dog", "user"}, Sets(w)
    PROVE  TypeOK'
<1> USE DEF Setting
<1>1. CASE Locks(w)
  <2>1. PICK there \in {"return", "change"} : GoesOn(w, "set", there)
    BY <1>1 DEF Locks
  <2>2. QED
    BY <1>1, <2>1, GoesOnType DEF TypeOK, Locks, net, loop
<1>2. CASE Change(w)
  BY <1>2, GoesOnType DEF TypeOK, Change, Via, net, loop
<1>3. CASE ChangeFails(w)
  BY <1>3, GoesOnType, FailoverAssumption DEF TypeOK, ChangeFails, Refuses, net, loop
<1>4. CASE Delete(w)
  BY <1>4, GoesOnType, FailoverAssumption DEF TypeOK, Delete, Refuses, net, loop
<1>5. CASE Add(w)
  BY <1>5, GoesOnType DEF TypeOK, Add, Via, net, loop
<1>6. CASE AddFails(w)
  BY <1>6, GoesOnType, FailoverAssumption DEF TypeOK, AddFails, Refuses, net, loop
<1>7. CASE Returns(w)
  <2>1. GoesOn(w, "return", IF w = "dog" THEN "note" ELSE "idle") /\ "en0" \in Ifaces
    BY <1>7, FailoverAssumption DEF Returns, Gated
  <2>2. strikes' \in 0 .. 3 /\ lately' \in [1 .. 3 -> BOOLEAN]
    <3>1. CASE w = "dog"
      <4>1. strikes' = 0 /\ lately' = [k \in 1 .. 3 |-> TRUE]
        BY <1>7, <3>1 DEF Returns
      <4>2. [k \in 1 .. 3 |-> TRUE] \in [1 .. 3 -> BOOLEAN]
        BY Zenon
      <4>3. QED
        BY <4>1, <4>2
    <3>2. CASE w # "dog"
      BY <1>7, <3>2 DEF TypeOK, Returns
    <3>3. QED
      BY <3>1, <3>2
  <2>3. target' \in [{"dog", "user"} -> Ifaces]
    BY <1>7, <2>1 DEF TypeOK, Returns
  <2>4. QED
    BY <1>7, <2>1, <2>2, <2>3, GoesOnType DEF TypeOK, Returns, net
<1>8. QED
  BY <1>1, <1>2, <1>3, <1>4, <1>5, <1>6, <1>7 DEF Sets

(* Type correctness: every state of every behaviour has the declared types, *)
(* and the lock is held by the setter that is at work.                      *)
THEOREM TypeCorrect == Spec => []TypeOK
<1>1. Init => TypeOK
  <2> SUFFICES ASSUME Init PROVE TypeOK
    OBVIOUS
  <2>1. lately \in [1 .. 3 -> BOOLEAN]
    <3>1. [k \in 1 .. 3 |-> TRUE] \in [1 .. 3 -> BOOLEAN]
      BY Zenon
    <3>2. QED
      BY <3>1 DEF Init
  <2>2. auto \in BOOLEAN /\ reading \in BOOLEAN
    BY Zenon DEF Init
  <2>3. "en0" \in Ifaces /\ "en0" \in Gated
    BY FailoverAssumption DEF Gated
  <2>4. /\ default \in Ifaces \cup {None} /\ up \subseteq Ifaces /\ router \in Networks /\ answers \subseteq up \cap Gated
        /\ strikes \in 0 .. 3 /\ cur \in Gated /\ todo \subseteq Ifaces
        /\ target \in [{"dog", "user"} -> Ifaces]
        /\ flaps \in 0 .. MaxFlaps /\ refusals \in 0 .. MaxRefusals
    BY <2>3, FailoverAssumption DEF Init
  <2>5. QED
    BY <2>1, <2>2, <2>4 DEF Init, TypeOK, Setting
<1>2. TypeOK /\ [Next]_vars => TypeOK'
  <2> SUFFICES ASSUME TypeOK, [Next]_vars PROVE TypeOK'
    OBVIOUS
  <2> USE DEF Setting, net, loop
  <2>1. CASE Flap
    BY <2>1, FailoverAssumption DEF TypeOK, Flap
  <2>2. CASE SetAutoFailover
    BY <2>2 DEF TypeOK, SetAutoFailover
  <2>3. CASE UserSets
    BY <2>3 DEF TypeOK, UserSets
  <2>4. CASE ReportBegins
    BY <2>4 DEF TypeOK, ReportBegins
  <2>5. CASE ReportEnds
    BY <2>5 DEF TypeOK, ReportEnds
  <2>6. CASE Tick
    BY <2>6, FailoverAssumption DEF TypeOK, Tick, Alternates
  <2>7. CASE Answered
    BY <2>7, FailoverAssumption DEF TypeOK, Answered, Forgets, Shifted, Gated
  <2>8. CASE Unanswered
    <3>1. strikes' \in 0 .. 3
      BY <2>8 DEF TypeOK, Unanswered
    <3>2. lately' \in [1 .. 3 -> BOOLEAN]
      BY <2>8 DEF TypeOK, Unanswered, Shifted
    <3>3. cur' \in Gated /\ todo' \subseteq Ifaces /\ dog' \in {"idle", "alternates"}
      BY <2>8, FailoverAssumption DEF TypeOK, Unanswered, Forgets, Gated
    <3>4. QED
      BY <2>8, <3>1, <3>2, <3>3 DEF TypeOK, Unanswered
  <2>9. CASE TryAlternate
    BY <2>9, FailoverAssumption DEF TypeOK, TryAlternate, Picks, Forgets, Gated
  <2>10. CASE \E w \in {"dog", "user"} : Sets(w)
    BY <2>10, SetsType
  <2>11. CASE Notes
    BY <2>11 DEF TypeOK, Notes
  <2>12. CASE UNCHANGED vars
    BY <2>12 DEF TypeOK, vars
  <2>13. QED
    BY <2>1, <2>2, <2>3, <2>4, <2>5, <2>6, <2>7, <2>8, <2>9, <2>10, <2>11, <2>12, StepCases
<1>3. QED
  BY <1>1, <1>2, PTL DEF Spec

(* As many of the last pings as there are strikes went unanswered, and the  *)
(* loop looks for an alternate only at the third.                           *)
EarnedInv ==
    /\ strikes >= 1 => ~lately[3]
    /\ strikes >= 2 => ~lately[2]
    /\ strikes >= 3 => ~lately[1]
    /\ dog = "alternates" => strikes = 3

(* A step that leaves pings and strikes alone does not begin the search.    *)
LEMMA EarnedElsewhere ==
    ASSUME EarnedInv, UNCHANGED <<strikes, lately>>, dog' = "alternates" => dog = "alternates"
    PROVE  EarnedInv'
BY DEF EarnedInv

(* The strikes stay earned.                                                 *)
THEOREM EarnedInductive == Spec => []EarnedInv
<1>1. Init => EarnedInv
  BY DEF Init, EarnedInv
<1>2. TypeOK /\ EarnedInv /\ [Next]_vars => EarnedInv'
  <2> SUFFICES ASSUME TypeOK, EarnedInv, [Next]_vars PROVE EarnedInv'
    OBVIOUS
  <2> USE DEF loop
  <2>1. CASE Flap \/ SetAutoFailover \/ UserSets \/ ReportBegins \/ ReportEnds \/ Notes
    BY <2>1, EarnedElsewhere DEF Flap, SetAutoFailover, UserSets, ReportBegins, ReportEnds, Notes
  <2>2. CASE Tick
    BY <2>2, EarnedElsewhere DEF Tick
  <2>3. CASE Answered
    BY <2>3 DEF Answered, Forgets, EarnedInv
  <2>4. CASE Unanswered
    <3>1. strikes \in 0 .. 3 /\ lately \in [1 .. 3 -> BOOLEAN]
      BY DEF TypeOK
    <3>2. lately'[3] = FALSE /\ lately'[2] = lately[3] /\ lately'[1] = lately[2]
      BY <2>4, <3>1 DEF Unanswered, Shifted
    <3>3. strikes' = 3 \/ dog' = "idle"
      BY <2>4 DEF Unanswered, Forgets
    <3>4. strikes' = IF strikes = 3 THEN 3 ELSE strikes + 1
      BY <2>4 DEF Unanswered
    <3>5. QED
      BY <3>1, <3>2, <3>3, <3>4 DEF EarnedInv
  <2>5. CASE TryAlternate
    BY <2>5, EarnedElsewhere DEF TryAlternate, Picks, Forgets
  <2>6. ASSUME NEW w \in {"dog", "user"}, Sets(w) PROVE EarnedInv'
    <3>1. CASE Returns(w)
      BY <3>1 DEF Returns, GoesOn, EarnedInv
    <3>2. CASE ~Returns(w)
      BY <2>6, <3>2, EarnedElsewhere
         DEF Sets, Locks, Change, ChangeFails, Delete, Add, AddFails, GoesOn
    <3>3. QED
      BY <3>1, <3>2
  <2>7. CASE UNCHANGED vars
    BY <2>7, EarnedElsewhere DEF vars
  <2>8. QED
    BY <2>1, <2>2, <2>3, <2>4, <2>5, <2>6, <2>7, StepCases
<1>3. QED
  BY <1>1, <1>2, TypeCorrect, PTL DEF Spec

(* A failover has three pings in a row without an answer behind it, however *)
(* clients and the network interfere.                                       *)
THEOREM FailoverAlwaysEarned == Spec => FailoverEarned
<1>1. EarnedInv => (dog = "alternates" /\ dog' = "set" => \A k \in 1 .. 3 : ~lately[k])
  BY DEF EarnedInv
<1>2. QED
  BY <1>1, EarnedInductive, PTL DEF FailoverEarned
=============================================================================
