------------------------------ MODULE Presence ------------------------------
(***************************************************************************)
(* Who in the daemon sees the dongle, and when: the background pass over   *)
(* the USB bus and the cache it fills (CachedDongles, modeswitch.go), its  *)
(* readers (the watchdog's tick, the status and the topology routes), the  *)
(* link record a reader falls back on (linkstate.go) and the mode switch   *)
(* of a ZeroCD stick.                                                      *)
(*                                                                         *)
(* The bus, the link and the interface utun10 are external: they go        *)
(* through the moments of a history, at any pace.  A pass begins, reads    *)
(* the bus at some moment, opens the devices and is published, and may     *)
(* hang at any point, for ever or until long after it was replaced.  A     *)
(* generation is the slot of its pass.  Names, serial numbers and speeds   *)
(* are left out, and SSIDs are kept as known or not.                       *)
(***************************************************************************)
EXTENDS Naturals, Sequences

CONSTANTS
    Histories,    \* the histories of the bus: see Moment
    Slots,        \* passes that may be under way: more of them than hang
    MaxHung,      \* bound: how many passes hang
    MaxFailures   \* bound: how many passes fail

Devices == {"zerocd", "wlan", "other"}
Links == {"none", "claimed", "own", "cli"}
\* What is on the bus, whose link runs or has claimed the dongle, utun10.
Moment == [bus : SUBSET Devices, link : Links, tun : {"absent", "down", "up"}]

NoPass == "no pass"

ASSUME PresenceAssumption ==
    /\ Histories \subseteq {h \in Seq(Moment) : Len(h) > 0}
    /\ NoPass \notin Slots /\ MaxHung \in Nat /\ MaxFailures \in Nat

VARIABLES
    hist, now,    \* the history and its present moment
    pass,         \* the passes under way
    current,      \* the slot of dongleCacheGeneration while dongleCacheRefreshing
    overdue,      \* the current pass began over dongleCacheForceAfter ago
    devs,         \* dongleCacheDevs
    shown,        \* history variable: the moment devs shows, or the last one before a failure
    ok,           \* dongleCacheOK
    fresh,        \* dongleCacheAt is less than dongleCacheTTL ago
    hung, failed, \* how many passes have hung and failed
    isHardwareUp, isTunUp,  \* what the watchdog's last tick saw
    healed,       \* the watchdog has brought utun10 up in this moment
    req,          \* a request for the status, after it has read the cache
    view,         \* the link record as last read: "none" when over two seconds old
    named,        \* the scanner or SetDongleConnected holds an SSID
    switching     \* a mode switch has found its stick

bus == <<hist, now>>
cache == <<devs, shown, ok, fresh>>
passes == <<pass, current, overdue, hung, failed>>
watchdog == <<isHardwareUp, isTunUp, healed>>
status == <<req, view, named>>
vars == <<bus, passes, cache, watchdog, status, switching>>

Free == [at |-> "free", seen |-> 0, hangs |-> FALSE]
Pass == [at : {"free", "begun", "read"}, seen : Nat, hangs : BOOLEAN]
NoReq == [busy |-> FALSE, list |-> {}, probed |-> FALSE, ssid |-> FALSE]
Request == [busy : BOOLEAN, list : SUBSET Devices, probed : BOOLEAN, ssid : BOOLEAN]

TypeOK ==
    /\ hist \in Histories /\ now \in 1 .. Len(hist)
    /\ pass \in [Slots -> Pass] /\ \A s \in Slots : pass[s].seen \in 0 .. now
    /\ current \in Slots \cup {NoPass} /\ (current # NoPass => pass[current].at # "free")
    /\ devs \in SUBSET Devices /\ shown \in 0 .. now
    /\ ok \in BOOLEAN /\ fresh \in BOOLEAN /\ overdue \in BOOLEAN
    /\ hung \in 0 .. MaxHung /\ failed \in 0 .. MaxFailures
    /\ isHardwareUp \in BOOLEAN /\ isTunUp \in BOOLEAN /\ healed \in BOOLEAN
    /\ req \in Request /\ view \in {"none", "dead", "alive"}
    /\ named \in BOOLEAN /\ switching \in BOOLEAN

Init ==
    /\ hist \in Histories /\ now = 1
    /\ pass = [s \in Slots |-> Free] /\ current = NoPass
    /\ overdue = FALSE /\ hung = 0 /\ failed = 0
    /\ devs = {} /\ shown = 0 /\ ok = FALSE /\ fresh = FALSE
    /\ isHardwareUp = FALSE /\ isTunUp = FALSE /\ healed = FALSE
    /\ req = NoReq /\ view = "none" /\ named = FALSE /\ switching = FALSE

-----------------------------------------------------------------------------
(* The bus and the passes over it. *)

\* A LAN adapter, a disk enclosure and an unknown product are not dongles.
Classified(devices) == devices \cap {"zerocd", "wlan"}

Here == hist[now]

Changes ==
    /\ now < Len(hist) /\ now' = now + 1 /\ healed' = FALSE
    /\ UNCHANGED <<hist, passes, cache, isHardwareUp, isTunUp, status, switching>>

\* Mutant: a pass that never returns pins the cache.
BeginPinned ==
    IF (ok /\ fresh) \/ current # NoPass THEN UNCHANGED passes
    ELSE \E s \in Slots :
           /\ pass[s].at = "free" /\ current' = s
           /\ pass' = [pass EXCEPT ![s] = [Free EXCEPT !.at = "begun"]]
           /\ overdue' = FALSE /\ UNCHANGED <<hung, failed>>

\* What a call of CachedDongles does besides serving devs and ok.
Begin ==
    IF (ok /\ fresh) \/ (current # NoPass /\ ~overdue) THEN UNCHANGED passes
    ELSE \E s \in Slots :
           /\ pass[s].at = "free" /\ current' = s
           /\ pass' = [pass EXCEPT ![s] = [Free EXCEPT !.at = "begun"]]
           /\ overdue' = FALSE /\ UNCHANGED <<hung, failed>>

\* The list of devices is taken at one moment; those found are opened after it.
Enumerate(s) ==
    /\ pass[s].at = "begun"
    /\ pass' = [pass EXCEPT ![s].at = "read", ![s].seen = now]
    /\ UNCHANGED <<bus, current, overdue, hung, failed, cache, watchdog, status, switching>>

\* libusb gives no list: the pass has nothing to show.
EnumerateFails(s) ==
    /\ pass[s].at = "begun" /\ failed < MaxFailures
    /\ pass' = [pass EXCEPT ![s].at = "read", ![s].seen = 0]
    /\ failed' = failed + 1
    /\ UNCHANGED <<bus, current, overdue, hung, cache, watchdog, status, switching>>

\* libusb hangs in a pass, before it reads the bus or while it opens a device.
Hang(s) ==
    /\ pass[s].at # "free" /\ ~pass[s].hangs /\ hung < MaxHung
    /\ pass' = [pass EXCEPT ![s].hangs = TRUE] /\ hung' = hung + 1
    /\ UNCHANGED <<bus, current, overdue, failed, cache, watchdog, status, switching>>

\* ListWiFiDongles returns no dongles when the bus could not be read.
Listed(p) == IF p.seen = 0 THEN {} ELSE Classified(hist[p.seen].bus)

\* Mutant: whoever comes last is believed.
PublishLate(s) ==
    /\ pass[s].at = "read"
    /\ pass' = [pass EXCEPT ![s] = Free]
    /\ devs' = Listed(pass[s]) /\ ok' = TRUE /\ fresh' = TRUE
    /\ shown' = IF pass[s].seen = 0 THEN shown ELSE pass[s].seen
    /\ current' = IF s = current THEN NoPass ELSE current
    /\ UNCHANGED <<bus, overdue, hung, failed, watchdog, status, switching>>

\* Mutant: a pass that failed stays the one under way.
PublishKeeps(s) ==
    /\ pass[s].at = "read"
    /\ pass' = [pass EXCEPT ![s] = Free]
    /\ IF s = current
       THEN /\ devs' = Listed(pass[s]) /\ ok' = TRUE /\ fresh' = TRUE
            /\ shown' = IF pass[s].seen = 0 THEN shown ELSE pass[s].seen
            /\ current' = IF pass[s].seen = 0 THEN current ELSE NoPass
       ELSE UNCHANGED <<cache, current>>
    /\ UNCHANGED <<bus, overdue, hung, failed, watchdog, status, switching>>

\* A replaced pass that comes back, however late, publishes nothing.
Publish(s) ==
    /\ pass[s].at = "read"
    /\ pass' = [pass EXCEPT ![s] = Free]
    /\ IF s = current
       THEN /\ devs' = Listed(pass[s]) /\ ok' = TRUE /\ fresh' = TRUE
            /\ shown' = IF pass[s].seen = 0 THEN shown ELSE pass[s].seen
            /\ current' = NoPass
       ELSE UNCHANGED <<cache, current>>
    /\ UNCHANGED <<bus, overdue, hung, failed, watchdog, status, switching>>

Expires ==
    /\ fresh /\ fresh' = FALSE
    /\ UNCHANGED <<bus, passes, devs, shown, ok, watchdog, status, switching>>

\* A pass that does not hang is back well within dongleCacheForceAfter.
Overdue ==
    /\ current # NoPass /\ pass[current].hangs /\ ~overdue /\ overdue' = TRUE
    /\ UNCHANGED <<bus, pass, current, hung, failed, cache, watchdog, status, switching>>

-----------------------------------------------------------------------------
(* The readers. *)

TunUp == Here.tun = "up" \/ healed

\* The cold cache is an empty one.
HardwarePresent == devs # {}

\* A loss of utun10 is healed when it is noticed, once; the interface may be gone.
Heal == IF isTunUp /\ ~TunUp /\ Here.tun = "down" THEN BOOLEAN ELSE {healed}

Tick ==
    /\ Begin
    /\ isHardwareUp' = HardwarePresent /\ isTunUp' = TunUp /\ healed' \in Heal
    /\ UNCHANGED <<bus, cache, status, switching>>

\* GET /api/starlink/status reads the cache and the sticky SSIDs ...
StatusBegins ==
    /\ ~req.busy /\ Begin
    /\ req' = [busy |-> TRUE, list |-> devs, probed |-> ok, ssid |-> devs # {} /\ named]
    /\ UNCHANGED <<bus, cache, watchdog, view, named, switching>>

Recorded(m) == m.link \in {"own", "cli"}
ReadRecord == IF view # "none" THEN view ELSE IF Recorded(Here) THEN "alive" ELSE "dead"

\* ... and, with no dongle in it, the link record, when it answers.
Status ==
    IF ~req.probed THEN "probing"
    ELSE IF req.list = {} THEN IF ReadRecord = "alive" THEN "LINKED" ELSE "NO_DONGLE"
    ELSE IF "wlan" \notin req.list THEN "DONGLE_ZEROCD"
    ELSE IF req.ssid THEN "associated" ELSE "unassociated"

StatusAnswered ==
    /\ req.busy /\ req' = NoReq
    /\ view' = IF req.probed /\ req.list = {} THEN ReadRecord ELSE view
    /\ UNCHANGED <<bus, passes, cache, watchdog, named, switching>>

ViewExpires ==
    /\ view # "none" /\ view' = "none"
    /\ UNCHANGED <<bus, passes, cache, watchdog, req, named, switching>>

\* GET /api/hardware/topology shows completed passes and the daemon's own bridge.
Bridge == IF Here.link = "own" THEN {"bridge"} ELSE {}
Topology == (IF ok THEN devs ELSE {}) \cup Bridge

TopologyRead == Begin /\ UNCHANGED <<bus, cache, watchdog, status, switching>>

\* POST /api/wifi/connect scans, which may adopt the host's SSID, and records its own.
Connect == named' = TRUE /\ UNCHANGED <<bus, passes, cache, watchdog, req, view, switching>>

Disconnect == named' = FALSE /\ UNCHANGED <<bus, passes, cache, watchdog, req, view, switching>>

-----------------------------------------------------------------------------
(* POST /api/usb/modeswitch reads the bus itself, past the cache. *)

SwitchFinds ==
    /\ ~switching /\ "zerocd" \in Here.bus /\ switching' = TRUE
    /\ UNCHANGED <<bus, passes, cache, watchdog, status>>

Ejected(m) == [m EXCEPT !.bus = (m.bus \ {"zerocd"}) \cup {"wlan"}]

\* The stick comes back as a boot ROM.
SwitchEjects ==
    /\ switching /\ switching' = FALSE /\ now < Len(hist) /\ hist[now + 1] = Ejected(Here)
    /\ "zerocd" \in Here.bus /\ now' = now + 1 /\ healed' = FALSE
    /\ UNCHANGED <<hist, passes, cache, isHardwareUp, isTunUp, status>>

\* No volume of its size, two of them, the eject fails, or it ejects another volume.
SwitchFails ==
    /\ switching /\ switching' = FALSE
    /\ UNCHANGED <<bus, passes, cache, watchdog, status>>

-----------------------------------------------------------------------------
Next ==
    \/ Changes \/ Expires \/ Overdue \/ ViewExpires
    \/ \E s \in Slots : Enumerate(s) \/ EnumerateFails(s) \/ Hang(s) \/ Publish(s)
    \/ Tick \/ StatusBegins \/ StatusAnswered \/ TopologyRead
    \/ Connect \/ Disconnect \/ SwitchFinds \/ SwitchEjects \/ SwitchFails

Spec == Init /\ [][Next]_vars

\* The watchdog's ticker and the timers fire, and libusb comes back from a
\* pass that does not hang.
Fairness ==
    /\ WF_vars(Tick) /\ WF_vars(Expires) /\ WF_vars(Overdue) /\ WF_vars(ViewExpires)
    /\ WF_vars(StatusAnswered)
    /\ \A s \in Slots : WF_vars(~pass[s].hangs /\ (Enumerate(s) \/ Publish(s)))

FairSpec == Spec /\ Fairness

-----------------------------------------------------------------------------
(* Properties. *)

\* The list that the watchdog and both routes are served is the bus of one
\* moment and never goes back to an earlier one, whichever passes hang, are
\* replaced and come back late; it is empty for another reason only after a
\* pass that failed (CachedDongles).
O == INSTANCE Observer WITH list <- devs
ImplementsObserver == O!Spec

\* What the status route should say of a moment that lasts.  While a dongle is
\* claimed and its link not recorded it can only be missed.
Truths(m) ==
    LET seen == Classified(m.bus)
    IN  IF seen = {} THEN {IF Recorded(m) THEN "LINKED" ELSE "NO_DONGLE"}
        ELSE IF "wlan" \in seen THEN {"associated", "unassociated"} ELSE {"DONGLE_ZEROCD"}

\* Once the bus stays as it is, the watchdog, the topology and the status come
\* to tell the truth about it and keep to it, although passes have hung or
\* failed, as long as no more of them do (runHealthChecks, GetHardwareTopology,
\* /api/starlink/status).
ViewsSettle ==
    <>[](/\ isHardwareUp = (Classified(Here.bus) # {})
         /\ Topology = Classified(Here.bus) \cup Bridge
         /\ req.busy => Status \in Truths(Here))
=============================================================================
