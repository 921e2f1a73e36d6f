-------------------------------- MODULE Host --------------------------------
(***************************************************************************)
(* Link processes of one Mac: each daemon or `cmdctl link` process checks  *)
(* the link-state record (link.go), claims the dongle (protocol), makes a  *)
(* utun and points the dish's host route at it (tun), records its link and *)
(* cleans up (bridge.go, linkstate.go), or is killed at any step.  A       *)
(* daemon shows the record to its clients (usb/linkstate.go).              *)
(*                                                                         *)
(* What LinkRun has inside one process, its sessions and its waits, is one *)
(* step here.  The kernel is external: it destroys a utun with the last    *)
(* descriptor, and a route through it with it or, as tun_darwin.go expects *)
(* of "a previous link that died", not.  No record is older or shared with *)
(* another home directory; a process id may be given out again.            *)
(***************************************************************************)
EXTENDS Naturals

CONSTANTS
    Pids,     \* process ids of link processes
    Tuns      \* utun names

ASSUME HostAssumption ==
    /\ "none" \notin Pids
    /\ Tuns \cap {"none", "en0", "vpn"} = {}

VARIABLES
    pc,       \* where each process is
    claim,    \* the process that has claimed the dongle
    owner,    \* per utun: the process that keeps it open
    tun,      \* per process: the utun of its bridge
    seen,     \* per process: the interface routeIfaceFor has reported
    route,    \* where the host route of the dish points
    default,  \* where the default route of the host points
    record,   \* the writer named in linkstate.json
    old,      \* the record is older than linkStateMaxAge
    view,     \* the writer a client of the daemon is shown, if alive
    fresh     \* the cached read is younger than two seconds

linkVars == <<claim, owner, tun, seen, route>>
viewVars == <<view, fresh>>
vars == <<pc, linkVars, default, record, old, viewVars>>

\* No link process, its link not begun, its bridge's set-up, the bridge, its clean-up.
Steps == {"gone", "idle", "starting", "claimed", "tun", "sampling", "deleting",
          "adding", "routed", "up", "unlisted", "down", "closing", "closed"}
HasTun == {"tun", "sampling", "deleting", "adding", "routed", "up", "unlisted"}
Linking == HasTun \cup {"claimed", "down", "closing", "closed"}
Bridging == {"routed", "up", "unlisted"}
OtherIfaces == {"none", "en0", "vpn"}

TypeOK ==
    /\ pc \in [Pids -> Steps]
    /\ claim \in Pids \cup {"none"}
    /\ owner \in [Tuns -> Pids \cup {"none"}]
    /\ tun \in [Pids -> Tuns \cup {"none"}]
    /\ seen \in [Pids -> Tuns \cup OtherIfaces]
    /\ route \in Tuns \cup {"none"}
    /\ default \in OtherIfaces
    /\ record \in Pids \cup {"none"} /\ view \in Pids \cup {"none"}
    /\ old \in BOOLEAN /\ fresh \in BOOLEAN

Init ==
    /\ pc = [p \in Pids |-> "gone"]
    /\ claim = "none"
    /\ owner = [t \in Tuns |-> "none"]
    /\ tun = [p \in Pids |-> "none"] /\ seen = [p \in Pids |-> "none"]
    /\ route = "none" /\ default \in OtherIfaces
    /\ record = "none" /\ old = FALSE /\ view = "none" /\ fresh = FALSE

Goes(p, from, to) == pc[p] = from /\ pc' = [pc EXCEPT ![p] = to]

-----------------------------------------------------------------------------
(* The kernel. *)

Destroyed(ts) ==
    /\ owner' = [t \in Tuns |-> IF t \in ts THEN "none" ELSE owner[t]]
    /\ route' \in {route, IF route \in ts THEN "none" ELSE route}

Launch(p) ==
    /\ Goes(p, "gone", "idle")
    /\ UNCHANGED <<linkVars, default, record, old, viewVars>>

\* A crash, a SIGKILL, or the end of a process with no link.
Die(p) ==
    /\ pc[p] # "gone" /\ pc' = [pc EXCEPT ![p] = "gone"]
    /\ claim' = IF claim = p THEN "none" ELSE claim
    /\ Destroyed({t \in Tuns : owner[t] = p})
    /\ tun' = [tun EXCEPT ![p] = "none"] /\ seen' = [seen EXCEPT ![p] = "none"]
    /\ UNCHANGED <<default, record, old, viewVars>>

\* The blocked reader of a closed utun gets a packet: the descriptor goes.
Reap(t) ==
    /\ owner[t] # "none" /\ tun[owner[t]] # t
    /\ Destroyed({t})
    /\ UNCHANGED <<pc, claim, tun, seen, default, record, old, viewVars>>

DefaultMoves ==
    /\ default' \in OtherIfaces \ {default}
    /\ UNCHANGED <<pc, linkVars, record, old, viewVars>>

-----------------------------------------------------------------------------
(* The link-state record. *)

Alive(p) == pc[p] # "gone"
ActiveUnasked == record # "none" /\ ~old   \* mutant: the process is not asked for
Active == record # "none" /\ Alive(record) /\ ~old

RecordAges ==
    /\ record # "none" /\ ~old /\ old' = TRUE
    /\ UNCHANGED <<pc, linkVars, default, record, viewVars>>

StatusRead ==
    /\ ~fresh /\ fresh' = TRUE
    /\ view' = IF Active THEN record ELSE "none"
    /\ UNCHANGED <<pc, linkVars, default, record, old>>

ViewExpires ==
    /\ fresh /\ fresh' = FALSE
    /\ UNCHANGED <<pc, linkVars, default, record, old, view>>

-----------------------------------------------------------------------------
(* One link. *)

\* mutant: a record that is not of a live link is cleared
CheckClears(p) ==
    /\ ~Active /\ Goes(p, "idle", "starting")
    /\ record' = "none" /\ old' = FALSE
    /\ UNCHANGED <<linkVars, default, viewVars>>
Check(p) ==
    /\ ~Active /\ Goes(p, "idle", "starting")
    /\ UNCHANGED <<linkVars, default, record, old, viewVars>>

\* The last session's claim; a dongle another process holds cannot be opened.
Claim(p) ==
    /\ claim = "none" /\ Goes(p, "starting", "claimed") /\ claim' = p
    /\ UNCHANGED <<owner, tun, seen, route, default, record, old, viewVars>>

NoLink(p) ==
    /\ Goes(p, "starting", "idle")
    /\ UNCHANGED <<linkVars, default, record, old, viewVars>>

MakeTun(p) ==
    /\ Goes(p, "claimed", "tun")
    /\ \E t \in Tuns : /\ owner[t] = "none"
                       /\ owner' = [owner EXCEPT ![t] = p]
                       /\ tun' = [tun EXCEPT ![p] = t]
    /\ UNCHANGED <<claim, seen, route, default, record, old, viewVars>>

\* No address, a failed ifconfig, or a step of EnsureHostRoute that returns an error.
SetupFails(p) ==
    /\ \E s \in {"claimed", "tun", "sampling", "deleting", "adding"} : Goes(p, s, "closing")
    /\ UNCHANGED <<linkVars, default, record, old, viewVars>>

Via == IF route # "none" THEN route ELSE default

RouteGetAnyUtun(p) ==   \* mutant: any utun is ours
    /\ \/ Via \in Tuns /\ Goes(p, "tun", "routed")
       \/ Via = "none" /\ Goes(p, "tun", "adding")
       \/ Via = "vpn" /\ Goes(p, "tun", "sampling")
    /\ seen' = [seen EXCEPT ![p] = Via]
    /\ UNCHANGED <<claim, owner, tun, route, default, record, old, viewVars>>
\* EnsureHostRoute asks where the kernel would send; en0 is refused (SetupFails).
RouteGet(p) ==
    /\ \/ Via = tun[p] /\ Goes(p, "tun", "routed")
       \/ Via = "none" /\ Goes(p, "tun", "adding")
       \/ Via \notin {tun[p], "none", "en0"} /\ Goes(p, "tun", "sampling")
    /\ seen' = [seen EXCEPT ![p] = Via]
    /\ UNCHANGED <<claim, owner, tun, route, default, record, old, viewVars>>

\* Equal counters after three seconds; a live utun may be quiet for as long.
Sample(p) ==
    /\ Goes(p, "sampling", "deleting")
    /\ seen[p] \in Tuns => owner[seen[p]] # "none"
    /\ UNCHANGED <<linkVars, default, record, old, viewVars>>

\* Whatever host route is there by now.
Delete(p) ==
    /\ route # "none" /\ Goes(p, "deleting", "adding") /\ route' = "none"
    /\ UNCHANGED <<claim, owner, tun, seen, default, record, old, viewVars>>

AddUnbound(p) ==   \* mutant: no -interface, the kernel takes the default route's
    /\ route = "none" /\ Goes(p, "adding", "routed") /\ route' = default
    /\ UNCHANGED <<claim, owner, tun, seen, default, record, old, viewVars>>
Add(p) ==
    /\ route = "none" /\ Goes(p, "adding", "routed") /\ route' = tun[p]
    /\ UNCHANGED <<claim, owner, tun, seen, default, record, old, viewVars>>

\* WriteLinkState; its error is ignored.
BridgeUp(p) ==
    /\ \/ Goes(p, "routed", "up") /\ record' = p /\ old' = FALSE
       \/ Goes(p, "routed", "unlisted") /\ UNCHANGED <<record, old>>
    /\ UNCHANGED <<linkVars, default, viewVars>>

\* iface.Close: the descriptor stays open while the reader is blocked on it.
CloseTun(p) ==
    /\ \/ UNCHANGED <<owner, route>>
       \/ Destroyed({tun[p]})
    /\ tun' = [tun EXCEPT ![p] = "none"] /\ seen' = [seen EXCEPT ![p] = "none"]
    /\ UNCHANGED claim

\* A goroutine of the bridge closes the utun, on an error or a cancel, before the
\* main loop has seen it.
Shutdown(p) ==
    /\ \E s \in {"up", "unlisted"} : Goes(p, s, "down")
    /\ CloseTun(p)
    /\ UNCHANGED <<default, record, old, viewVars>>

\* The deferred RemoveLinkState removes the file, whoever wrote it.
BridgeEnds(p) ==
    /\ \E s \in {"up", "unlisted", "down"} : Goes(p, s, "closing")
    /\ record' = "none" /\ old' = FALSE
    /\ UNCHANGED <<linkVars, default, viewVars>>

\* runBridge's other deferred calls.
CleanUp(p) ==
    /\ Goes(p, "closing", "closed")
    /\ CloseTun(p)
    /\ UNCHANGED <<default, record, old, viewVars>>

\* session.close, when runBridge has returned.
Release(p) ==
    /\ Goes(p, "closed", "idle") /\ claim' = "none"
    /\ UNCHANGED <<owner, tun, seen, route, default, record, old, viewVars>>

-----------------------------------------------------------------------------
Process(p) ==
    \/ Launch(p) \/ Die(p) \/ Check(p) \/ Claim(p) \/ NoLink(p) \/ MakeTun(p)
    \/ SetupFails(p) \/ RouteGet(p) \/ Sample(p) \/ Delete(p) \/ Add(p)
    \/ BridgeUp(p) \/ Shutdown(p) \/ BridgeEnds(p) \/ CleanUp(p) \/ Release(p)

Next ==
    \/ \E p \in Pids : Process(p)
    \/ \E t \in Tuns : Reap(t)
    \/ DefaultMoves \/ RecordAges \/ StatusRead \/ ViewExpires

Spec == Init /\ [][Next]_vars

(* Clients poll the status and the cache runs out; nothing else must happen. *)
FairSpec == Spec /\ WF_vars(StatusRead) /\ WF_vars(ViewExpires)

-----------------------------------------------------------------------------
(* The claim that is held from before the utun is made until after it is     *)
(* closed is what keeps two links apart.                                     *)
ClaimInv == \A p \in Pids : pc[p] \in Linking => claim = p
TunInv ==
    \A p \in Pids : /\ pc[p] \in HasTun => tun[p] # "none"
                    /\ tun[p] # "none" => owner[tun[p]] = p

(* While a bridge runs, the host route of the dish points at its utun: the   *)
(* stale route of a killed link, a utun that outlives its bridge and another *)
(* process's link never take it away, and EnsureHostRoute never returns      *)
(* without it (bridge.go:53-64, tun_darwin.go:131-156).                      *)
UpIsRouted == \A p \in Pids : pc[p] \in Bridging => route = tun[p]

(* The record of a running bridge that wrote one is its own: no other        *)
(* process's clean-up or write has replaced it, though two processes may     *)
(* pass the one-link check together (link.go:47-59, bridge.go:225-232).      *)
RecordIsOwn == \A p \in Pids : pc[p] = "up" => record = p

(* A killed writer is not shown as a link for good, unless its process id    *)
(* is in use again (usb/linkstate.go:44-64).                                 *)
DeadForgotten ==
    \A p \in Pids : (view = p /\ pc[p] = "gone") ~> (view # p \/ pc[p] # "gone")
=============================================================================
