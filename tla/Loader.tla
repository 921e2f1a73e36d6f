------------------------------- MODULE Loader -------------------------------
(***************************************************************************)
(* The firmware load of one AIC8800D80, aicloader and LoadFirmware:        *)
(* the mode switch of a ZeroCD stick, the ladder that finds out which      *)
(* length convention the boot ROM answers, the upload of the patches and   *)
(* the main image around the addresses that wedge the ROM, the patch       *)
(* configuration and START_APP (loader.go, protocol/*.go).                 *)
(*                                                                         *)
(* A load is a list of steps, each one request and the wait for its        *)
(* confirmation.  Requests and confirmations are queues, and a wait takes  *)
(* the first confirmation with the right message id, so an answer that     *)
(* comes after its request was given up is taken by a later one.  The boot *)
(* ROM is external.  Addresses of the main image are counted from its      *)
(* start in units of the smallest poisoned range; of other memory only its *)
(* name is kept.  Of the options of the image, those of Modes are here.    *)
(* Left out: $AIC_HYBRID, whose plan follows a retention map and heeds no  *)
(* zone, $AIC_WINDOW_WORD, $AIC_SKIP_BELOW_WALL, zones given by hand, and  *)
(* the read-back of every write ($AIC_VERIFY_WRITES).                      *)
(***************************************************************************)
EXTENDS Integers, Sequences, Functions, FiniteSetsExt

CONSTANTS
    Scenarios,   \* what a load may find: see Scenario
    ImageLen,    \* the units of the main image
    Wall,        \* CloneWallAddr
    Big,         \* BlockWriteChunkBytes
    Small,       \* CloneSmallChunk
    RegZones,    \* CloneRegZones, a sequence of [start, end]
    PointZones,  \* the four poisoned points of $AIC_VENDOR
    Poisons,     \* the addresses in the file of $AIC_POISONS
    MaxLate      \* bound: how many requests an answering chip lets expire

VARIABLES
    given,       \* the scenario: the chip, the files and the options
    pc,          \* where the loader is
    rung,        \* the rung of the calibration ladder
    next,        \* the steps of pc that are done
    await,       \* a request is out and not yet confirmed
    conv,        \* txLenConv
    got,         \* what the last read that was confirmed has read
    handle,      \* dev: "closed", "open" or "claimed"
    at,          \* what the chip shows on the bus
    mood,        \* whether its boot ROM answers
    out, in,     \* requests and confirmations under way
    done,        \* the steps the chip has executed since it was powered
    cache,       \* register 0x40100020: as found, with bit 0 set, or spoilt
    rival,       \* another process has claimed the interface
    over,        \* the context is done: its 60 seconds, or a signal
    late,        \* requests that expired although the chip would answer
    result       \* what LoadFirmware has returned

host == <<pc, rung, next, await, conv, got, handle, result>>
chip == <<at, mood, done, cache>>
wire == <<out, in>>
world == <<given, rival, over, late>>
vars == <<host, chip, wire, world>>

Convs == {"linux", "total"}
Moods == {"well", "halted", "hung", "dead"}
Files == {"all", "noTable", "noExt", "noImage"}
Modes == {"default", "window1KB", "skipWindow", "full", "vendor"}
Scenario == [at : {"storage", "bootrom", "op", "off"}, mood : Moods,
             likes : Convs, mcu1 : BOOLEAN, rev : {"U01", "U02", "odd"},
             stale : BOOLEAN, files : Files, mode : Modes,
             ending : {"start", "reset", "reboot"}, rival : BOOLEAN]

\* The zones of a layout are listed from low to high addresses and do not overlap.
ZoneSet == [start : Nat, end : Nat]
Sorted(zones) ==
    \A i, j \in DOMAIN zones :
        /\ zones[i].start <= zones[i].end
        /\ i < j => zones[i].end <= zones[j].start

ASSUME LoaderAssumption ==
    /\ Scenarios \subseteq Scenario
    /\ ImageLen \in Nat /\ Wall \in 0 .. ImageLen
    /\ Big \in Nat \ {0} /\ Small \in Nat \ {0}
    /\ RegZones \in Seq(ZoneSet) /\ Sorted(RegZones)
    /\ PointZones \in Seq(ZoneSet) /\ Sorted(PointZones)
    /\ Poisons \in Seq(Nat) /\ MaxLate \in Nat

-----------------------------------------------------------------------------
(* The steps of a load, for a scenario g. *)

Kinds == {"read", "write", "block"}
Areas == {"sysconf", "cache", "wdog", "pmic", "clock", "adid", "patch", "ext", "inf", "btmode",
          "pwron", "image", "magic", "pairs", "start", "reboot"}
Outcomes == {"abort", "rung", "leave", "go on", "skip"}
StepSet == [op : Kinds, area : Areas, lo : 0 .. ImageLen, hi : 0 .. ImageLen, fail : Outcomes]

Step(op, area, lo, hi, fail) ==
    [op |-> op, area |-> area, lo |-> lo, hi |-> hi, fail |-> fail]

Write(area, fail) == Step("write", area, 0, 0, fail)
Block(area) == Step("block", area, 0, 0, "abort")
Chunk(lo, hi) == Step("block", "image", lo, hi, "abort")

\* No wall and no zones for a U01, whose image lies elsewhere.
RegularZones(g) ==
    IF g.rev = "U01" \/ g.mode = "full" THEN <<>>
    ELSE IF g.mode = "skipWindow" THEN <<[start |-> Wall, end |-> ImageLen]>>
    ELSE IF g.mode = "vendor" THEN PointZones
    ELSE RegZones

Zones(g) ==
    IF g.rev = "U01" THEN <<>>
    ELSE RegularZones(g) \o [i \in DOMAIN Poisons |-> [start |-> Poisons[i], end |-> Poisons[i] + 1]]

ChunkAt(g, off) ==
    IF g.rev # "U01" /\ off >= Wall /\ g.mode # "window1KB" THEN Small ELSE Big

Touches(lo, hi, zone) == hi > zone.start /\ lo < zone.end

\* Mutant: a chunk that begins before a zone is not clipped.
PlanFromUnclipped(g, rest, off) ==
    LET end   == Min({off + ChunkAt(g, off), ImageLen})
        zones == Zones(g)
        hit   == {i \in DOMAIN zones : Touches(off, off + 1, zones[i])}
    IN  IF off = ImageLen THEN <<>>
        ELSE IF hit = {} THEN <<Chunk(off, end)>> \o rest[end]
        ELSE rest[Min({zones[Min(hit)].end, ImageLen})]

\* One op per chunk, clipped at the first zone of the list that it touches.
PlanFrom(g, rest, off) ==
    LET end   == Min({off + ChunkAt(g, off), ImageLen})
        zones == Zones(g)
        hit   == {i \in DOMAIN zones : Touches(off, end, zones[i])}
        zone  == zones[Min(hit)]
        past  == rest[Min({zone.end, ImageLen})]
    IN  IF off = ImageLen THEN <<>>
        ELSE IF hit = {} THEN <<Chunk(off, end)>> \o rest[end]
        ELSE IF off >= zone.start THEN past
        ELSE <<Chunk(off, zone.start)>> \o past

PlanAdaptiveUpload(g) ==
    LET plan[off \in 0 .. ImageLen] == PlanFrom(g, plan, off) IN plan[0]

\* The cache bit of the older MCU and the watchdogs, whose errors are ignored.
FixesCache(g) == g.mcu1 /\ g.mode # "vendor"
SetupSteps(g) ==
    LET watchdogs == <<Write("wdog", "go on"), Write("pmic", "go on")>>
    IN  IF g.mode = "vendor" THEN watchdogs \o <<Write("clock", "go on")>>
        ELSE IF FixesCache(g)
        THEN <<Step("read", "cache", 0, 0, "abort"), Write("cache", "abort")>> \o watchdogs
        ELSE watchdogs

\* The tables of the patch whose pairs are written, in their order.
TableSteps == <<Write("inf", "abort"), Write("btmode", "abort"), Write("pwron", "abort")>>

\* ADID, patch, the ext patch if its file is there, the pairs of the tables.
PatchSteps(g) ==
    (IF g.files = "noExt" THEN <<Block("adid"), Block("patch")>>
                          ELSE <<Block("adid"), Block("patch"), Block("ext")>>) \o TableSteps

\* Mutant: a read-back that fails passes over the next write as well.
ReadBackSkips(area) == Step("read", area, 0, 0, "skip")

\* Every write of the configuration is read back, and the answer only logged.
ReadBack(area) == Step("read", area, 0, 0, "go on")
ConfigSteps ==
    <<Write("pmic", "skip"), ReadBack("pmic"), Write("magic", "leave"), ReadBack("magic"),
      Write("pairs", "leave"), ReadBack("pairs")>>

Probe == <<Step("read", "sysconf", 0, 0, "rung")>>
Segments == {"probe", "setup", "patch", "image", "config"}

StepsOf(g, seg) ==
    CASE seg = "probe"  -> Probe
      [] seg = "setup"  -> SetupSteps(g)
      [] seg = "patch"  -> PatchSteps(g)
      [] seg = "image"  -> PlanAdaptiveUpload(g)
      [] seg = "config" -> ConfigSteps

Steps == StepsOf(given, pc)
Now == Steps[next + 1]
InStep == pc \in Segments /\ next < Len(Steps)

Values == Areas \cup {"none"}
Requests == [step : StepSet, conv : Convs, val : Values]
Confirmations == [op : Kinds, area : Areas]
Results == {"operational", "bootrom", "error", "died"}

TypeOK ==
    /\ given \in Scenarios
    /\ pc \in Segments \cup {"idle", "detect", "switch", "open", "calibrate",
                             "reboot", "reset", "ending", "boot", "done"}
    /\ rung \in 0 .. 4 /\ late \in 0 .. MaxLate
    /\ next \in Nat /\ (pc \in Segments => next <= Len(Steps))
    /\ await \in BOOLEAN /\ (await => InStep)
    /\ rival \in BOOLEAN /\ over \in BOOLEAN
    /\ conv \in Convs /\ got \in Values
    /\ handle \in {"closed", "open", "claimed"}
    /\ at \in {"storage", "bootrom", "op", "off"} /\ mood \in Moods
    /\ out \in Seq(Requests) /\ in \in Seq(Confirmations) /\ done \subseteq StepSet
    /\ cache \in {"found", "fixed", "spoilt"}
    /\ result \in {"none"} \cup Results /\ (result = "none" <=> pc # "done")

Init ==
    /\ given \in Scenarios
    /\ pc = "idle" /\ rung = 0 /\ next = 0 /\ await = FALSE /\ conv = "linux"
    /\ got = "none" /\ handle = "closed" /\ result = "none"
    /\ at = given.at /\ mood = given.mood /\ done = {} /\ cache = "found"
    /\ out = <<>>
    /\ in = IF given.stale THEN <<[op |-> "read", area |-> "pmic"]>> ELSE <<>>
    /\ rival = given.rival /\ over = FALSE /\ late = 0

Return(r) == pc' = "done" /\ result' = r
Goes(place) == pc' = place /\ next' = 0 /\ UNCHANGED result

-----------------------------------------------------------------------------
(* To a boot ROM that is open: the daemon is stopped, the stage detected, a  *)
(* ZeroCD stick switched.                                                    *)

\* --kill-daemon: the daemon is gone before the device is opened, or the load is refused.
KillDaemon ==
    /\ pc = "idle"
    /\ \/ rival' = FALSE /\ Goes("detect")
       \/ rival /\ UNCHANGED rival /\ Return("error") /\ UNCHANGED next
    /\ UNCHANGED <<rung, await, conv, got, handle, chip, wire, given, over, late>>

DetectAICStage ==
    /\ pc = "detect"
    /\ \/ at = "op" /\ Return("operational") /\ UNCHANGED next
       \/ at = "off" /\ Return("error") /\ UNCHANGED next
       \/ at = "storage" /\ Goes("switch")
       \/ at = "bootrom" /\ Goes("open")
    /\ UNCHANGED <<rung, await, conv, got, handle, chip, wire, world>>

\* The vendor command, then the SCSI eject (next counts them).  The stick may
\* heed one and be seen in six seconds, or later, when the next send fails.
ModeSwitch ==
    /\ pc = "switch"
    /\ \/ at = "storage" /\ ~rival /\ ~over
          /\ at' = "bootrom" /\ Goes(IF rung = 0 THEN "open" ELSE "reboot")
       \/ next < 2 /\ ~rival /\ next' = next + 1 /\ UNCHANGED <<pc, result>>
          /\ at' \in {at} \cup (IF at = "storage" THEN {"bootrom"} ELSE {})
       \/ (next = 2 \/ rival) /\ Return("error") /\ UNCHANGED <<next, at>>
    /\ UNCHANGED <<rung, await, conv, got, handle, mood, done, cache, wire, world>>

\* OpenByVIDPID and ClaimInterface; a failure of either ends the load.
Opened == at = "bootrom" /\ ~rival
OpenFails(h) ==
    ~Opened /\ Return("error") /\ handle' = h /\ UNCHANGED <<rung, next, conv, in>>

OpenBootROM ==
    /\ pc = "open"
    /\ \/ Opened /\ handle' = "claimed" /\ Goes("calibrate") /\ UNCHANGED <<rung, conv, in>>
       \/ OpenFails("closed")
    /\ UNCHANGED <<await, got, chip, out, world>>

-----------------------------------------------------------------------------
(* The calibration ladder.  Every probe drains first, then reads a register. *)

\* Mutant: no drain before a probe.
ProbeUndrained(c) ==
    Goes("probe") /\ rung' = rung + 1 /\ conv' = c /\ UNCHANGED in

ProbeWith(c) ==
    /\ Goes("probe") /\ rung' = rung + 1 /\ conv' = c
    /\ in' = IF mood = "halted" THEN in ELSE <<>>

ProbeAsIs ==
    /\ pc = "calibrate" /\ rung = 0 /\ ProbeWith("linux")
    /\ UNCHANGED <<await, got, handle, chip, out, world>>

ClearHalts ==
    /\ pc = "calibrate" /\ rung = 1
    /\ mood' = IF mood = "halted" THEN "well" ELSE mood
    /\ Goes("probe") /\ rung' = 2 /\ conv' = "linux" /\ in' = <<>>
    /\ UNCHANGED <<await, got, handle, at, done, cache, out, world>>

\* The port reset clears the pipes and revives a ROM that only hangs; then the reopen.
PortReset ==
    /\ pc = "calibrate" /\ rung = 2
    /\ out' = <<>>
    /\ mood' = IF mood = "dead" \/ at # "bootrom" THEN mood ELSE "well"
    /\ \/ Opened /\ handle' = "claimed" /\ Goes("probe") /\ rung' = 3
          /\ conv' = "total" /\ in' = <<>>
       \/ OpenFails("closed")
    /\ UNCHANGED <<await, got, at, done, cache, world>>

\* START_APP with REBOOT goes out in the convention of the last probe and is not
\* confirmed.  A ROM that takes it comes back at a new address, as itself or as storage.
ChipReboot ==
    /\ pc = "calibrate" /\ rung = 3
    /\ handle' = "closed" /\ out' = <<>> /\ in' = <<>>
    /\ \/ at = "bootrom" /\ mood = "well" /\ conv = given.likes
          /\ at' \in {"bootrom", "storage"}
          /\ Goes(IF at' = "storage" THEN "switch" ELSE "reboot") /\ rung' = 4
       \/ ~(at = "bootrom" /\ mood = "well" /\ conv = given.likes)
          /\ Return("error") /\ UNCHANGED <<at, next, rung>>
    /\ UNCHANGED <<await, conv, got, mood, done, cache, world>>

ReopenRebooted ==
    /\ pc = "reboot"
    /\ \/ Opened /\ handle' = "claimed" /\ Goes("probe") /\ conv' = "linux" /\ in' = <<>>
          /\ UNCHANGED rung
       \/ OpenFails("closed")
    /\ UNCHANGED <<await, got, chip, out, world>>

NotCalibrated ==
    /\ pc = "calibrate" /\ rung = 4
    /\ Return("error")
    /\ UNCHANGED <<rung, next, await, conv, got, handle, chip, wire, world>>

-----------------------------------------------------------------------------
(* One request: SendRequest and waitForCfm, for every step of every segment. *)

\* Mutant: a failed write of the image is logged and passed over.
FailedQuietly ==
    \/ Now.fail \in {"abort", "go on"} /\ next' = next + 1 /\ UNCHANGED <<pc, result>>
    \/ Now.fail = "rung" /\ Goes("calibrate")
    \/ Now.fail = "leave" /\ Goes("ending")
    \/ Now.fail = "skip" /\ next' = next + 2 /\ UNCHANGED <<pc, result>>

\* What the loader does when a step fails.
Failed ==
    \/ Now.fail = "abort" /\ Return("error") /\ UNCHANGED next
    \/ Now.fail = "rung" /\ Goes("calibrate")
    \/ Now.fail = "leave" /\ Goes("ending")
    \/ Now.fail = "go on" /\ next' = next + 1 /\ UNCHANGED <<pc, result>>
    \/ Now.fail = "skip" /\ next' = next + 2 /\ UNCHANGED <<pc, result>>

SendRequest ==
    /\ InStep /\ ~await
    /\ \/ at = "bootrom" /\ handle = "claimed"
          /\ out' = Append(out, [step |-> Now, conv |-> conv, val |-> got])
          /\ await' = TRUE /\ UNCHANGED <<pc, next, result>>
       \/ at # "bootrom" /\ Failed /\ UNCHANGED <<out, await>>
    /\ UNCHANGED <<rung, conv, got, handle, chip, in, world>>

\* waitForCfm looks at the message id only: the address of a read is dropped.
WaitForCfm ==
    /\ await /\ in # <<>> /\ mood # "halted"
    /\ in' = Tail(in)
    /\ \/ Head(in).op = Now.op
          /\ await' = FALSE /\ next' = next + 1
          /\ got' = IF Now.op = "read" THEN Head(in).area ELSE got
       \/ Head(in).op # Now.op /\ UNCHANGED <<await, next, got>>
    /\ UNCHANGED <<pc, rung, conv, handle, result, chip, out, world>>

\* The chip is still going to answer what is asked, in time if MaxLate are late.
Answers ==
    /\ at = "bootrom" /\ conv = given.likes
    /\ mood = "well" \/ (mood = "halted" /\ out # <<>>)

\* Mutant: a wait for an answer that never comes has no deadline.
TimeOutLate ==
    /\ await /\ await' = FALSE
    /\ Answers /\ late < MaxLate /\ late' = late + 1
    /\ Failed
    /\ UNCHANGED <<rung, conv, got, handle, chip, wire, given, rival, over>>

TimeOut ==
    /\ await /\ await' = FALSE
    /\ \/ ~Answers /\ UNCHANGED late
       \/ Answers /\ late < MaxLate /\ late' = late + 1
    /\ Failed
    /\ UNCHANGED <<rung, conv, got, handle, chip, wire, given, rival, over>>

-----------------------------------------------------------------------------
(* From one segment to the next. *)

Finished(seg) == pc = seg /\ ~await /\ next >= Len(Steps)

Accept ==
    /\ Finished("probe") /\ Goes("setup")
    /\ UNCHANGED <<rung, await, conv, got, handle, chip, wire, world>>

\* The patch table of the chip's revision is there, and parses.
PatchTables == given.rev # "odd" /\ given.files # "noTable"

\* The files of the chip's revision are read, and the pipe is drained.
LoadFirmwareBundle ==
    /\ Finished("setup")
    /\ IF PatchTables THEN Goes("patch") /\ in' = <<>>
                      ELSE Return("error") /\ UNCHANGED <<next, in>>
    /\ UNCHANGED <<rung, await, conv, got, handle, chip, out, world>>

\* A main image named by --fw-name is looked for only now.
StartImage ==
    /\ Finished("patch")
    /\ IF given.files = "noImage" THEN Return("error") /\ UNCHANGED next ELSE Goes("image")
    /\ UNCHANGED <<rung, await, conv, got, handle, chip, wire, world>>

EndImage ==
    /\ Finished("image") /\ Goes(IF given.rev = "U01" THEN "ending" ELSE "reset")
    /\ UNCHANGED <<rung, await, conv, got, handle, chip, wire, world>>

\* A port reset before the configuration.  If the device cannot be opened or claimed
\* again the configuration is skipped, and the load goes on with what dev is.
ResetBeforeConfig ==
    /\ pc = "reset"
    /\ out' = <<>>
    /\ IF Opened
       THEN handle' = "claimed" /\ Goes("config") /\ conv' = "linux" /\ in' = <<>>
       ELSE /\ handle' = (IF at = "bootrom" THEN "open" ELSE "closed")
            /\ Goes("ending") /\ UNCHANGED <<conv, in>>
    /\ UNCHANGED <<rung, await, got, chip, world>>

EndConfig ==
    /\ Finished("config") /\ Goes("ending")
    /\ UNCHANGED <<rung, await, conv, got, handle, chip, wire, world>>

\* $AIC_END_RESET: one more port reset, reopen and probe instead of a start.
EndReset ==
    /\ pc = "ending" /\ given.ending = "reset"
    /\ out' = <<>> /\ in' = <<>> /\ conv' = "linux"
    /\ Return(IF handle = "closed" THEN "died" ELSE IF Opened THEN "bootrom" ELSE "error")
    /\ handle' = "closed"
    /\ UNCHANGED <<rung, next, await, got, chip, world>>

\* START_APP with a boot type, or (REBOOT) $AIC_END_REBOOT.  A closed dev is a nil
\* handle, which libusb does not survive; an unclaimed one only fails.
StartApp ==
    /\ pc = "ending" /\ given.ending \in {"start", "reboot"}
    /\ \/ handle = "closed" /\ Return("died") /\ UNCHANGED <<next, out>>
       \/ (handle = "open" \/ at # "bootrom") /\ handle # "closed"
          /\ Return("error") /\ UNCHANGED <<next, out>>
       \/ handle = "claimed" /\ at = "bootrom"
          /\ out' = Append(out, [step |-> Write(given.ending, "abort"), conv |-> conv, val |-> got])
          /\ Goes("boot")
    /\ UNCHANGED <<rung, await, conv, got, handle, chip, in, world>>

\* The wait for the firmware to show itself, which the context cuts short.
AwaitOperational ==
    /\ pc = "boot" /\ given.ending = "start"
    /\ \/ at = "op" /\ ~over /\ Return("operational")
       \/ (at # "op" \/ over) /\ Return("error")
    /\ handle' = "closed"
    /\ UNCHANGED <<rung, next, await, conv, got, chip, wire, world>>

\* No sign of a reboot is not an error: the device is opened and probed anyway.
AwaitReboot ==
    /\ pc = "boot" /\ given.ending = "reboot"
    /\ at' \in {at} \cup (IF at = "storage" THEN {"bootrom"} ELSE {})
    /\ Return(IF at' = "bootrom" /\ ~rival THEN "bootrom" ELSE "error")
    /\ handle' = "closed" /\ conv' = "linux" /\ in' = <<>>
    /\ UNCHANGED <<rung, next, await, got, mood, done, cache, out, world>>

-----------------------------------------------------------------------------
(* The chip, and what else may happen. *)

Started == {"start", "reboot"}

Execute ==
    LET r == Head(out)
    IN  /\ out # <<>> /\ at = "bootrom" /\ mood \in {"well", "halted"}
        /\ out' = Tail(out)
        /\ IF r.conv # given.likes THEN UNCHANGED <<done, cache, in>>
           ELSE /\ done' = done \cup {r.step}
                /\ cache' = IF r.step.op = "write" /\ r.step.area = "cache"
                            THEN (IF r.val = "cache" THEN "fixed" ELSE "spoilt") ELSE cache
                /\ in' = IF r.step.area \in Started THEN in
                         ELSE Append(in, [op |-> r.step.op, area |-> r.step.area])
        /\ \/ r.conv = given.likes /\ r.step.area = "start"
              /\ \/ at' = "op" /\ UNCHANGED mood
                 \/ at' \in {"bootrom", "off"} /\ mood' = "dead"
           \/ r.conv = given.likes /\ r.step.area = "reboot"
              /\ at' \in {"bootrom", "storage"} /\ UNCHANGED mood
           \/ (r.conv # given.likes \/ r.step.area \notin Started) /\ UNCHANGED <<at, mood>>
        /\ UNCHANGED <<host, world>>

\* A stick pulled out; it stays away.
Unplug ==
    /\ at \in {"storage", "bootrom"} /\ pc \notin {"idle", "done"}
    /\ at' = "off" /\ out' = <<>> /\ in' = <<>> /\ mood' = "dead"
    /\ UNCHANGED <<host, done, cache, world>>

\* The app's supervisor starts the daemon again, and its presence poll opens the stick.
Respawn ==
    /\ ~rival /\ handle # "claimed" /\ pc \notin {"idle", "switch", "done"}
    /\ rival' = TRUE
    /\ UNCHANGED <<host, chip, wire, given, over, late>>

Expire ==
    /\ ~over /\ pc \in {"switch", "boot"} /\ over' = TRUE
    /\ UNCHANGED <<host, chip, wire, given, rival, late>>

Ladder == ProbeAsIs \/ ClearHalts \/ PortReset \/ ChipReboot \/ ReopenRebooted \/ NotCalibrated
Request == SendRequest \/ WaitForCfm \/ TimeOut
Sequence == Accept \/ LoadFirmwareBundle \/ StartImage \/ EndImage
            \/ ResetBeforeConfig \/ EndConfig
Ending == EndReset \/ StartApp \/ AwaitOperational \/ AwaitReboot
LoadFirmware == KillDaemon \/ DetectAICStage \/ ModeSwitch \/ OpenBootROM
                \/ Ladder \/ Request \/ Sequence \/ Ending

Next == LoadFirmware \/ Execute \/ Unplug \/ Respawn \/ Expire

Spec == Init /\ [][Next]_vars

\* The loader's goroutine runs, and every wait of it has a deadline.  A chip that has let
\* MaxLate requests expire executes the rest.
FairSpec == Spec /\ WF_vars(LoadFirmware) /\ WF_vars(Execute)

-----------------------------------------------------------------------------
(* Properties. *)

Touched == UNION {s.lo .. s.hi - 1 : s \in {d \in done : d.area = "image"}}
Covered(zones) == UNION {z.start .. z.end - 1 : z \in Range(zones)}
Payload == {s \in done : s.op = "block" \/ s \in Range(TableSteps)}
Whole ==
    /\ Range(PatchSteps(given)) \subseteq done
    /\ (0 .. ImageLen - 1) \ Covered(Zones(given)) \subseteq Touched

\* In each of Modes, no write of the main image touches a zone the mode has chosen,
\* whatever answers are late: "SkipZone is an absolute address range that must never be
\* touched" (loader.go's choice of zones, PlanAdaptiveUpload's clipping).  $AIC_HYBRID,
\* which is not one of Modes, does not plan by zones and writes inside them.
ZonesSpared == Touched \cap Covered(RegularZones(given)) = {}

\* Nor one of the poisoned words that were found by experiment, in the modes that skip
\* zones: "each poison becomes a 4-byte no-touch zone" (MergePoisonZones).
PoisonsSpared ==
    given.rev # "U01" => Touched \cap Range(Poisons) = {}

\* As long as no request expired, what a read returned is what was asked for, and the
\* cache register is only written with its own value and bit 0: no answer of an earlier
\* session, or of an earlier rung, gets past the drains (waitForCfm matches only ids).
AnswersMatch ==
    [][late = 0 => /\ got' # got => got' = Now.area
                   /\ cache' # "spoilt"]_vars

\* The load implements Boot: START_APP is executed only on a whole image, and the load
\* reports once, success only while the firmware shows itself on the bus.
Promise == INSTANCE Boot WITH
    mem <- IF Whole THEN "whole" ELSE IF Payload = {} THEN "blank" ELSE "partial",
    app <- at = "op",
    report <- result
ImplementsBoot == Promise!Spec

\* LoadFirmware returns, whatever the chip does not answer: every wait has its deadline
\* and the ladder its last rung.
LoadReturns == <>(pc = "done")
=============================================================================
