------------------------------ MODULE Failover ------------------------------
(***************************************************************************)
(* Routing policy of the daemon (routing/policy.go): a loop that pings the *)
(* gateway of the default interface every four seconds and, after three    *)
(* pings without an answer, moves the default route to another interface,  *)
(* beside clients who move it by hand, read the policy and switch the loop *)
(* off and on.                                                             *)
(*                                                                         *)
(* The kernel is external: interfaces come and go, a default route goes    *)
(* with its interface, other programs move it, and route(8) may refuse. It *)
(* is told the address of a gateway, not an interface, and takes one on    *)
(* whose network the address lies: several may have the same.              *)
(* The list of recent events, written for display only, is left out.       *)
(***************************************************************************)
EXTENDS Naturals

CONSTANTS
    Ifaces,      \* names of interfaces
    Wired,       \* those named en*
    Tunnels,     \* those named utun*
    Place,       \* the place of each in the list of net.Interfaces
    Networks,    \* which routers there may be: functions from Ifaces to addresses, or None
    Guess,       \* 192.168.0.1, the gateway of a wired interface that names no router
    Dish,        \* 192.168.100.1, the gateway of every tunnel
    MaxFlaps,    \* bound: how often the network changes
    MaxRefusals  \* bound: how often route(8) refuses

None == "none"

\* The interfaces that have a gateway, and may be alternates.
Gated == Wired \cup Tunnels

ASSUME FailoverAssumption ==
    /\ "en0" \in Wired /\ None \notin Ifaces /\ Gated \subseteq Ifaces
    /\ None \notin {Guess, Dish} /\ Wired \cap Tunnels = {}
    /\ Place \in [Ifaces -> Nat] /\ MaxFlaps \in Nat /\ MaxRefusals \in Nat

VARIABLES
    default,   \* the interface of the default route
    up,        \* the interfaces that are up and have an IPv4 address
    router,    \* the router on the network of each, or None
    answers,   \* the interfaces whose gateway answers pings
    auto,      \* autoFailover
    strikes,   \* consecutiveFailures, up to three
    dog, user, \* where the loop and a client's set-default are
    cur,       \* currentRoute of the loop
    todo,      \* the alternateRoutes it has still to try
    target,    \* per setter: targetIface
    mu,        \* who writes under the lock
    reading,   \* GetReport holds it for reading, and pings
    lately,    \* history variable: whether the last three pings since a failover were answered
    flaps, refusals

loop == <<strikes, cur, todo, lately>>
net == <<up, router, answers, flaps>>
vars == <<default, net, auto, loop, dog, user, target, mu, reading, refusals>>

Setting == {"set", "change", "delete", "add", "return"}

TypeOK ==
    /\ default \in Ifaces \cup {None} /\ up \subseteq Ifaces /\ router \in Networks /\ answers \subseteq up \cap Gated
    /\ auto \in BOOLEAN /\ strikes \in 0 .. 3
    /\ dog \in {"idle", "probe", "alternates", "note"} \cup Setting /\ user \in {"idle"} \cup Setting
    /\ cur \in Gated /\ todo \subseteq Ifaces
    /\ target \in [{"dog", "user"} -> Ifaces]
    /\ mu \in {"free", "dog", "user"} /\ reading \in BOOLEAN /\ (reading => mu = "free")
    /\ (mu = "dog" <=> dog \in Setting \ {"set"})
    /\ (mu = "user" <=> user \in Setting \ {"set"})
    /\ lately \in [1 .. 3 -> BOOLEAN]
    /\ flaps \in 0 .. MaxFlaps /\ refusals \in 0 .. MaxRefusals

Init ==
    /\ up \in SUBSET Ifaces /\ router \in Networks /\ answers \in SUBSET (up \cap Gated) /\ default \in up \cup {None}
    /\ auto = TRUE /\ strikes = 0 /\ dog = "idle" /\ user = "idle"
    /\ cur = "en0" /\ todo = {} /\ target = [w \in {"dog", "user"} |-> "en0"]
    /\ mu = "free" /\ reading = FALSE /\ lately = [k \in 1 .. 3 |-> TRUE]
    /\ flaps = 0 /\ refusals = 0

-----------------------------------------------------------------------------
(* The kernel and its network. *)

Flap ==
    /\ flaps < MaxFlaps /\ flaps' = flaps + 1
    /\ \/ \E i \in Ifaces :
            /\ up' = IF i \in up THEN up \ {i} ELSE up \cup {i}
            /\ answers' = answers \cap up'
            /\ default' = IF default \in up' THEN default ELSE None
       \/ \E i \in up \cap Gated :
            /\ answers' = IF i \in answers THEN answers \ {i} ELSE answers \cup {i}
            /\ UNCHANGED <<up, default>>
       \/ \E i \in up \ {default} : default' = i /\ UNCHANGED <<up, answers>>
    /\ UNCHANGED <<router, auto, loop, dog, user, target, mu, reading, refusals>>

\* The address the daemon has for an interface.
Gateway(i) ==
    CASE i \in Tunnels -> Dish
      [] i \in Wired -> IF router[i] = None THEN Guess ELSE router[i]
      [] OTHER -> None

\* Where the kernel may put a default route for interface i: named by its
\* gateway where it has one, and else by itself.
Via(i) == {j \in up : IF i \in Gated THEN router[j] = Gateway(i) ELSE j = i}

\* Without a default route the answer is "en0".
GetActiveDefaultInterface == IF default = None THEN "en0" ELSE default

-----------------------------------------------------------------------------
(* The loop. *)

SetAutoFailover ==
    /\ auto' = ~auto
    /\ UNCHANGED <<default, net, loop, dog, user, target, mu, reading, refusals>>

Alternates == (up \cap Gated) \ {GetActiveDefaultInterface}

Tick ==
    /\ dog = "idle" /\ auto /\ GetActiveDefaultInterface \in up \cap Gated
    /\ cur' = GetActiveDefaultInterface /\ todo' = Alternates /\ dog' = "probe"
    /\ UNCHANGED <<default, net, auto, strikes, lately, user, target, mu, reading, refusals>>

\* A round that ends has no variables left.
Forgets == dog' = "idle" /\ cur' = "en0" /\ todo' = {}

Shifted(answered) == [k \in 1 .. 3 |-> IF k = 3 THEN answered ELSE lately[k + 1]]

\* A ping through an interface reaches its gateway.
Reached(i) == i \in answers

\* Mutant: an answer does not clear the strikes.
AnsweredKeepsStrikes ==
    /\ dog = "probe" /\ Reached(cur)
    /\ lately' = Shifted(TRUE) /\ Forgets
    /\ UNCHANGED <<default, net, auto, strikes, user, target, mu, reading, refusals>>

Answered ==
    /\ dog = "probe" /\ Reached(cur)
    /\ strikes' = 0 /\ lately' = Shifted(TRUE) /\ Forgets
    /\ UNCHANGED <<default, net, auto, user, target, mu, reading, refusals>>

Unanswered ==
    /\ dog = "probe" /\ ~Reached(cur)
    /\ strikes' = IF strikes = 3 THEN 3 ELSE strikes + 1
    /\ lately' = Shifted(FALSE)
    /\ IF strikes' = 3 THEN dog' = "alternates" /\ UNCHANGED <<cur, todo>> ELSE Forgets
    /\ UNCHANGED <<default, net, auto, user, target, mu, reading, refusals>>

\* The interface listed first of those still to try.
NextUp(i) == i \in todo /\ \A j \in todo : Place[i] <= Place[j]

\* The alternate that answered becomes the target.
Picks(i) == dog' = "set" /\ cur' = "en0" /\ todo' = {} /\ target' = [target EXCEPT !["dog"] = i]

\* Mutant: only the first alternate is tried.
FirstAlternateOnly ==
    /\ dog = "alternates"
    /\ \/ \E i \in Ifaces : NextUp(i) /\ Reached(i) /\ Picks(i)
       \/ Forgets /\ (\A i \in Ifaces : ~(NextUp(i) /\ Reached(i))) /\ UNCHANGED target
    /\ UNCHANGED <<default, net, auto, strikes, lately, user, mu, reading, refusals>>

TryAlternate ==
    /\ dog = "alternates"
    /\ \/ todo = {} /\ Forgets /\ UNCHANGED target
       \/ \E i \in Ifaces : NextUp(i) /\ Reached(i) /\ Picks(i)
       \/ \E i \in Ifaces : /\ NextUp(i) /\ ~Reached(i) /\ todo' = todo \ {i}
                            /\ UNCHANGED <<dog, cur, target>>
    /\ UNCHANGED <<default, net, auto, strikes, lately, user, mu, reading, refusals>>

-----------------------------------------------------------------------------
(* SetDefaultInterface, by the loop and by POST /api/routing/set-default. *)

UserSets ==
    /\ user = "idle" /\ user' = "set"
    /\ \E i \in Ifaces : target' = [target EXCEPT !["user"] = i]
    /\ UNCHANGED <<default, net, auto, loop, dog, mu, reading, refusals>>

GoesOn(w, here, there) ==
    \/ w = "dog" /\ dog = here /\ dog' = there /\ UNCHANGED user
    \/ w = "user" /\ user = here /\ user' = there /\ UNCHANGED dog

\* Not listed, or the default already.
Settled(w) == target[w] \notin up \/ target[w] = GetActiveDefaultInterface

Locks(w) ==
    /\ mu = "free" /\ ~reading /\ mu' = w
    /\ GoesOn(w, "set", IF Settled(w) THEN "return" ELSE "change")
    /\ UNCHANGED <<default, net, auto, loop, target, reading, refusals>>

Refuses == refusals < MaxRefusals /\ refusals' = refusals + 1

\* route change default: there is one to change. Of the networks that have the
\* address the kernel takes one, the default's as well as the target's; an
\* address none has may be taken for one behind the default route.
Change(w) ==
    /\ default # None
    /\ \/ default' \in Via(target[w])
       \/ target[w] \in Gated /\ Via(target[w]) = {} /\ default' = default
    /\ GoesOn(w, "change", "return")
    /\ UNCHANGED <<net, auto, loop, target, mu, reading, refusals>>

ChangeFails(w) ==
    /\ GoesOn(w, "change", "delete")
    /\ IF default # None /\ Via(target[w]) # {} THEN Refuses ELSE UNCHANGED refusals
    /\ UNCHANGED <<default, net, auto, loop, target, mu, reading>>

\* Nobody looks whether route delete went well.
Delete(w) ==
    /\ GoesOn(w, "delete", "add")
    /\ \/ default' = None /\ UNCHANGED refusals
       \/ Refuses /\ UNCHANGED default
    /\ UNCHANGED <<net, auto, loop, target, mu, reading>>

\* route add default: refused while there is one.
Add(w) ==
    /\ default = None /\ default' \in Via(target[w])
    /\ GoesOn(w, "add", "return")
    /\ UNCHANGED <<net, auto, loop, target, mu, reading, refusals>>

AddFails(w) ==
    /\ GoesOn(w, "add", "return")
    /\ IF default = None /\ Via(target[w]) # {} THEN Refuses ELSE UNCHANGED refusals
    /\ UNCHANGED <<default, net, auto, loop, target, mu, reading>>

\* Mutant: a client's change does not give the lock back.
ReturnsLocked(w) ==
    /\ GoesOn(w, "return", IF w = "dog" THEN "note" ELSE "idle") /\ mu' = IF w = "dog" THEN "free" ELSE mu
    /\ IF w = "dog" THEN strikes' = 0 /\ lately' = [k \in 1 .. 3 |-> TRUE]
                    ELSE UNCHANGED <<strikes, lately>>
    /\ target' = [target EXCEPT ![w] = "en0"]
    /\ UNCHANGED <<default, net, auto, cur, todo, reading, refusals>>

\* The loop starts counting again whatever SetDefaultInterface says.
Returns(w) ==
    /\ GoesOn(w, "return", IF w = "dog" THEN "note" ELSE "idle") /\ mu' = "free"
    /\ IF w = "dog" THEN strikes' = 0 /\ lately' = [k \in 1 .. 3 |-> TRUE]
                    ELSE UNCHANGED <<strikes, lately>>
    /\ target' = [target EXCEPT ![w] = "en0"]
    /\ UNCHANGED <<default, net, auto, cur, todo, reading, refusals>>

\* It takes the lock once more to note the event.
Notes ==
    /\ dog = "note" /\ mu = "free" /\ ~reading /\ dog' = "idle"
    /\ UNCHANGED <<default, net, auto, loop, user, target, mu, reading, refusals>>

\* GET /api/routing/policy pings every gateway under the lock; a new reader
\* waits behind a waiting writer.
ReportBegins ==
    /\ mu = "free" /\ dog \notin {"set", "note"} /\ user # "set" /\ ~reading /\ reading' = TRUE
    /\ UNCHANGED <<default, net, auto, loop, dog, user, target, mu, refusals>>

ReportEnds ==
    /\ reading /\ reading' = FALSE
    /\ UNCHANGED <<default, net, auto, loop, dog, user, target, mu, refusals>>

-----------------------------------------------------------------------------
Sets(w) ==
    Locks(w) \/ Change(w) \/ ChangeFails(w) \/ Delete(w) \/ Add(w) \/ AddFails(w) \/ Returns(w)

Next ==
    \/ Flap \/ SetAutoFailover \/ UserSets \/ ReportBegins \/ ReportEnds
    \/ Tick \/ Answered \/ Unanswered \/ TryAlternate \/ Notes
    \/ \E w \in {"dog", "user"} : Sets(w)

Spec == Init /\ [][Next]_vars

\* The ticker fires, pings end within four seconds, route(8) returns, and a
\* writer that waits for the lock gets its turn.
Fairness ==
    /\ WF_vars(Tick) /\ WF_vars(Answered \/ Unanswered) /\ WF_vars(TryAlternate)
    /\ SF_vars(Locks("dog")) /\ SF_vars(Locks("user")) /\ SF_vars(Notes) /\ WF_vars(ReportEnds)
    /\ \A w \in {"dog", "user"} : WF_vars(Sets(w))

FairSpec == Spec /\ Fairness

-----------------------------------------------------------------------------
(* Properties. *)

\* The loop picks another interface only after three pings without an answer
\* since the last answer and since the last time it picked one, however often
\* clients move the default or switch the loop in between (watchdogLoop).
FailoverEarned == [][dog = "alternates" /\ dog' = "set" => \A k \in 1 .. 3 : ~lately[k]]_vars

\* With the loop on, the default does not stay for good on a gateway that never
\* answers while gateways of other interfaces do, if the first of these in the
\* list has an address that leads to no other network: not behind clients who
\* read or set the policy, nor after changes that failed (watchdogLoop). Where
\* networks share the address a change may succeed and move nothing.
Stuck ==
    /\ auto /\ GetActiveDefaultInterface \in (up \cap Gated) \ answers
    /\ \E i \in answers : Via(i) = {i} /\ \A j \in answers : Place[i] <= Place[j]
FailsOver == []<>~Stuck
=============================================================================
