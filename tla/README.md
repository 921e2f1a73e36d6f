# Event Horizon in TLA+

Event Horizon drives a USB Wi-Fi dongle (AIC8800D80) from user space on macOS. A Go daemon, or the
`cmdctl link` command, flashes the dongle's firmware, starts its MAC, associates with an access point,
runs the WPA2 supplicant on the host, takes a DHCP lease and bridges the radio to a `utun` with one host
route to a Starlink dish. A Swift app talks to the daemon over HTTP.

This directory models the parts of that path that are hard to test, checks them with TLC on small
instances, and proves every safety, action and refinement property of the runs with TLAPS, for every
value of the constants.

    tlc -workers 2 -config Join.cfg MCJoin.tla      # one run; the runs are listed below
    tlapm JoinProofs.tla                            # one proof module

`PROJECT.json` says which lines of the source every definition models, which hazards of the code the
properties are for, and which theorem states which property.

Contents: [system](#1-the-system) · [modules](#2-the-modules) · [runs](#3-the-runs) ·
[bounds](#4-bounds) · [fairness](#5-fairness) · [proofs](#6-proofs) ·
[disagreements](#7-where-code-and-comments-disagree) · [observations](#8-observations-no-run-checks) ·
[not modelled](#9-not-modelled-and-why) · [plan](#10-plan)

## 1. The system

### The path of a link, and who models it

    HTTP clients, MCP, shutdown                                  (clients of LinkService)
        | Start / Stop / Status
    LinkService  cmd/usbwifi/linkservice.go                      LinkService
        | one goroutine per attempt                                  ^ implemented by
    runCmdLink -> runBootstrap -> --stack -> --connect -> runBridge  LinkRun
        |               |             |           |          |
        |       aicloader, loader     |   SM_CONNECT, DHCP   |      Loader (implements Boot)
        |                             |   4-way handshake    |      Join, KeyExchange
        |                             |                      |
        |                     session: pumps, event loop, Submit    CommandChannel
        |                             |                      |
        |                       libusb, dongle         utun, route, linkstate.json
        |                             |                      |
    other link processes of the same host -------------------+      Host
                                      |                      |
    watchdog, status and topology routes, mode switch -------+      Presence (implements Observer)
    failover loop, routing routes -> default route                  Failover

`LinkRun` takes each exchange (association, handshake, lease, upload) as one step that succeeds or fails;
`Join`, `KeyExchange`, `CommandChannel` and `Loader` open those steps up; `Host` looks at several such
processes at once and takes each of them as a few steps. `Presence` is what the rest of the daemon sees of
the dongle meanwhile, and `Failover` what it does to the host's default route beside the link.

### Inventory

Modelled, wholly or in part:

| Component | State it keeps | Operations | What is hard | What makes it correct |
| --- | --- | --- | --- | --- |
| Link service (`linkservice.go`) | status and its transitions, stored CancelFunc, package-level progress hook, one goroutine per attempt | Start, Stop, progress report, completion | concurrent Starts and Stops; Stop acts on a snapshot; the completion handler and the deferred clean-up run late | one link at a time; a running link can be stopped; an ended link looks ended; Stop returns |
| Bring-up (`link.go`, `bootstrap.go`, `bringup_scan.go`, `bridge.go`) over one dongle | where the attempt is; the USB stage; the firmware instance; the `linkDown` flag | detect, wait for replug, eject, upload, stack start, MAC init, connect, bridge loop | a person pulls and plugs at any moment; the ROM wedges; a firmware instance takes one MM_RESET only; Stop at any step | no instance reset twice; every connect ends or reaches the bridge; a dropped link ends |
| Command channel (`cmdctl.go`, `submitter.go`, `event/*`, `session.go`) | two chunk channels, ACK channel, pumps, event loop, commands under way | read, dispatch, Submit, close | full channels, late and foreign confirmations, a handler that hangs, close against pumps and writers | no pump in a transfer at release; confirmations are not mixed up; writes and close return |
| Supplicant (`eapol_handshake.go`, `lmac/eapol.go`) | pairwise key, group key worker, keys in the firmware, `eapolCh` | messages 1 to 4, key installation, group rekey | lost and repeated frames, a new nonce mid-way, a command without confirmation, rekeys meanwhile | both ends hold the same keys; a key is installed before it is acknowledged; some losses are survived |
| Association and address (`bringup_scan.go`, `netbringup.go`) | candidate queue, BSSIDs tried, reports; offer, address, echo requests | ask, take a refusal, scan for siblings, DISCOVER, REQUEST, ARP, ping | silence, late reports, two DHCP servers, late replies | no BSSID asked twice; the address is the committed one; the gateway answered; it ends |
| Link processes of one host (`tun_darwin.go`, `linkstate.go`, `usb/linkstate.go`, `session.go`, `bridge.go`) | the claim on the dongle, utuns, the dish's host route, `linkstate.json`, the daemon's cached view of it | check, claim, make a utun, ensure the route, record, clean up | processes killed between any two steps, routes and utuns that outlive a bridge, two processes past the one-link check, process ids given out again | a running bridge keeps its route and its record; a dead writer is forgotten |
| Boot loader (`aicloader.go`, `pkg/aic8800d80/loader.go`, `protocol/*`) | the USB handle and whether it is claimed, the length convention, the rung of the calibration ladder, the request that waits | stop the daemon, switch a ZeroCD stick, calibrate, write patches, tables and image, reset, configure, start | a ROM that is halted, hung or dead; answers matched by message id only, and late; addresses that wedge the ROM; failures that are ignored; a rival daemon | zones are never written; answers are those of their requests; only a whole image is started; success is true; it ends |
| USB presence (`usb/modeswitch.go`, `topology.go`, `linkstate.go`) and its readers (`api/server.go`, `supervisor/watchdog.go`) | the cached list, its age, the pass under way and its generation; the watchdog's last view; the cached link record; sticky SSIDs | serve and refresh, enumerate, publish, tick, status, topology, connect, mode switch | a pass that hangs for ever or returns after its replacement; a pass that fails; readings of different ages in one answer | the list never goes back in time; readers come to tell the truth |
| Routing policy (`routing/policy.go`) and its routes | automatic failover on or off, strikes, the lock | ping, count, pick another interface, change the default route, report | strikes outlive the interface they belong to; a change in two commands that may fail; clients, readers and the loop on one lock | a failover is earned; the default does not stay behind a dead gateway |

Not modelled (reasons in section 9):

| Component | State | Operations | Correct when |
| --- | --- | --- | --- |
| Bridge data plane (`bridge.go`, `tun/pump.go`) | ARP cache, counters | packet each way, ARP answer | packets cross unchanged; unresolved ones are dropped, not blocked on |
| Daemon life cycle (`main.go`, `identity.go`, `RuntimeSupervisor.swift`, `PrivilegedLauncher.swift`) | pid file, launchd job, port owner | start, `--stop`, adopt, replace | the app ends up with its own daemon |
| LMAC codecs (`lmac/*`) | none | encode, decode | layouts agree with the firmware |
| Firmware images (`firmware/*`) | files | fetch, carve, verify | the hashes match |
| Host Wi-Fi scanner, spectrum (`wifi/*`); ping and speed test (`ping/*`); counters and export (`netstat`, `otel`); driver registry (`driver/*`) | caches of measurements | measure, format | numbers are those measured |
| Boot ROM probes (`probe*.go`, `poisonmap.go`, ...), MCP server, Swift client and views, DriverKit, packaging | none that a link depends on | | |

## 2. The modules

Every module names in its comments the functions it stands for; an action is a handler or a stretch of a
goroutine between two points where another can run. Operators named as mutants in a comment are plausible
bugs: each replaces the operator of the same name and breaks the property it is listed under in
`PROJECT.json`.

**LinkService.** Clients call Start and Stop, in two or more steps each, split where the code gives up
`mu` or waits (`StartAccept`/`StartPublish`; `StopSnapshot`, `StopCancel`, then `StopDone` or
`StopTimeout`, then `StopSetIdle`). An attempt's goroutine goes through `RunBegin`, any number of reports,
`RunReturn`, `RunComplete`, `RunClearProgress` and `RunCloseDone`, which are the body, the completion
handler and the two deferred calls in the order the code runs them. What the bring-up does in between is
open: it may report any progress state and return any code at any moment, or never. The status is the
state and a bounded list of transitions; texts, times and Status() itself (a copy under the lock) are left
out.

**LinkRun** extends LinkService and fills that body in: `step` is where the attempt is in `runCmdLink`,
`stage`, `stack`, `resets` and `romLive` are the dongle, `claim` says whether the open session's handle is
alive. `Unplug`, `Plug` and `Wedge` are people and hardware. The flags are those of the API path. One step
is a whole exchange, and its failure is always possible.

**CommandChannel** is one session: a pump per bulk-IN endpoint, the bounded chunk channels, the event loop
with its ACK tee, the writers (bring-up, group-key goroutine, bridge), and `close` in the code's order. The
firmware confirms, skips, delays or speaks unasked. A frame is its task and the command it confirms.

**KeyExchange** is the supplicant and an external access point that repeats a message `Tries` times, may
start over with a new nonce, gives up, and rekeys the group. A pairwise key is the nonce it was derived
from; a MIC verifies when both ends hold the same key.

**Join** is the association, with its queue of candidates and its one fallback scan, and then the four
exchanges of `runDhcpPing`. The air is a set of frames that can be delivered any number of times or never.

**Host** is several link processes of one Mac. A process checks the record, claims the dongle, makes a
utun, goes through `EnsureHostRoute` (`RouteGet`, `Sample`, `Delete`, `Add`, with other steps between any
two), writes the record, and cleans up in the order of the deferred calls; `Die` kills it anywhere. The
kernel is external: a utun ends with its last descriptor, and a route through it ends with it or stays, as
the comments of `tun_darwin.go` say of "a previous link that died". A utun whose reader is blocked
survives `iface.Close` until a packet arrives (`Reap`), because the descriptor is a blocking one.

**Loader** is one `aicloader` process and a boot ROM. A load is a list of steps per segment (`SetupSteps`,
`PatchSteps`, `PlanAdaptiveUpload`, `ConfigSteps`), each a request and the wait for its confirmation;
what a failure leads to is a field of the step, since the code returns, goes on, skips or leaves
differently at each of them. `out` and `in` are the two directions of the wire: a request that was given
up may still be executed and answered, and a wait takes the first confirmation with the right message id.
The ladder (`ProbeAsIs`, `ClearHalts`, `PortReset`, `ChipReboot`, `ReopenRebooted`, `NotCalibrated`) is
followed rung by rung. The ROM answers one of two length conventions and may be halted, hung or dead. The
main image keeps the real geometry in small: the wall at the border of a chunk, zones past it that lie
across chunks. `PlanFrom` is the walk of `PlanAdaptiveUpload` from an address on, over `Zones`, the sorted
zones of the layout with the poisoned words behind them. **Boot** is what it implements: memory is filled piece by piece, only a whole image runs,
one report, success only while an image runs.

**Presence** goes through a history of the bus at any pace, with passes over it that begin, read, hang,
fail and are published. `Begin` is the part of `CachedDongles` a caller runs; the generation is the
identity of the pass. The watchdog's tick, the status route (in the two steps between which things
change), the topology, connect, disconnect and the mode switch read it. **Observer** is what it
implements: a list that shows one moment of the bus, never an earlier one than before, and is empty for
another reason only after a failed pass.

**Failover** is the loop, one client and the kernel's default route. `SetDefaultInterface` is taken apart
where it runs route(8) (`Locks`, `Change`, `ChangeFails`, `Delete`, `Add`, `AddFails`, `Returns`), for the
loop and the client alike. route(8) is given the address of a gateway: `Gateway` is the one the daemon has
for an interface (the router it reads, the guessed 192.168.0.1, or 192.168.100.1 for every tunnel), and
`Via` the interfaces on whose network that address lies, of which the kernel takes one, whichever was
meant. An address on no network is refused, or accepted and nothing moves. The loop takes the lock a second
time to note its event (`Notes`), and `GetReport` takes it for reading and pings under it; the list of
events itself is left out.

How they compose: `LinkRun` EXTENDS `LinkService` and is shown to implement it (`ImplementsLinkService`
is `LinkService`'s own `Spec`, over the same variables). `Loader` implements `Boot`, and `Presence`
implements `Observer`, under refinement mappings (`ImplementsBoot`, `ImplementsObserver`). `Join`,
`KeyExchange`, `CommandChannel` and `Loader` each open up one or more single steps of `LinkRun` and are
checked on their own; `Loader`'s results are the outcomes of `LinkRun`'s `Upload` and `UploadFails`.

The `MC*` modules hold the constant definitions for TLC; the `*Proofs` modules hold the theorems.

## 3. The runs

| Run (cfg) | States | Shows |
| --- | --- | --- |
| `linkservice` | 176,657 | Two clients, two attempts. `OneLink`: two bring-ups never drive the radio together. `CancelReachesRun`: the stored CancelFunc is exactly the active attempt's. `EndedLooksEnded`: with nothing running and the last attempt unstopped, the status is terminal or the idle of a late Stop. `StopReturns`: every Stop comes back. |
| `linkrun` | 191,459 | One client, two attempts, one dongle that is pulled, plugged and wedged. `OneResetPerInstance`: no firmware instance is reset twice, nor with its stack down. `ImplementsLinkService`. `ConnectSettles`: from a running firmware every attempt reaches the bridge or ends. `DropEndsLink`: a reported disconnect ends the link, though it may come long before anybody reads the flag. |
| `linkrun_stop` | violation | `StopEndsRun`, section 7. |
| `commandchannel` | 263,716 | `PumpsQuiesced`: no pump is inside a transfer when the session is released. `AcksSound`: a Submit takes another command's frame for its own only in a task where one gave up or the firmware spoke unasked. `WriteEnds`, `CloseReturns`: writes and close come back, even with a dead loop or a hung handler. |
| `keyexchange` | 100,230 | `KeysAgree`: a completed handshake has left the access point's pairwise key in the firmware, the port open and, until a rekey is acknowledged, the group key of message 3. `AckedIsInstalled`: an acknowledged group key is in the firmware. `LossSurvived`: the access point gives up only after as many faults as it has tries, or for a reason the code has no answer to (named in the property). `SupplicantSettles`: the handshake ends. |
| `join` | 429,178 | `TriedOnce`: no BSSID is asked or queued twice. `LeaseAgrees`: the address in use is the one its server committed. `PathProven`: the bridge gets a path the gateway has answered on, and counts different replies. `JoinSettles`: it ends. |
| `join_siblings` | violation | `SilenceIsDeaf`, section 7. |
| `host` | 428,328 | Two processes, three utuns. `UpIsRouted`: a running bridge has the dish's route. `RecordIsOwn`: the record it wrote is its own. `DeadForgotten`: a killed writer is not shown as a link for good, unless its process id is in use again. |
| `loader` | 75,989 | 59 chips and sets of options. `ZonesSpared`: in the default, 1 KB window, skipped window, full and vendor modes no write of the main image touches a zone the mode has chosen. `$AIC_HYBRID` is not covered, and there it is not so (section 8). `AnswersMatch`: while no request has expired, a read returns what was asked for and the cache register is never written with another register's value. `ImplementsBoot`: only a whole image is started, and one report is made, success only while the firmware runs. `LoadReturns`: the load ends. |
| `loader_poison` | violation | `PoisonsSpared`, section 7. |
| `presence` | 611,710 | Two histories: the life of one stick from ZeroCD to a link and back, and a second stick beside one that another process has claimed. `ImplementsObserver`: the list served is the bus of one moment and never goes back, whichever passes hang and return late. `ViewsSettle`: on a bus that stays as it is, watchdog, topology and status come to tell the truth and keep to it. |
| `failover` | 535,390 | Three interfaces, two choices of networks, every initial state. `FailoverEarned`: an interface is only picked after three pings in a row without an answer since the last pick; they may have been to the gateways of different interfaces. `FailsOver`: with the loop on, the default does not stay for good on a gateway that never answers while others do, if the first of these in the list has an address that leads to no other network. Where the address is shared this does not hold (section 8). |

Each passing run also checks the module's type invariant, which includes the capacities of the channels
and the bounds of the histories. A passing run checks deadlock only in name: all these systems may stop
(clients need not call, a join ends, every process may be gone), so `CHECK_DEADLOCK` is FALSE and the
liveness properties say what must not stop.

## 4. Bounds

| Bound | In the run | In the code | Why it is enough |
| --- | --- | --- | --- |
| `Clients`, `MaxAttempts` | 2, 2 | any | the races are between a Stop or a clean-up of one attempt and the next Start; a third attempt meets the second as the second meets the first |
| `MaxHistory` | 1 | 64 | reached at once, so that the trimming happens |
| `ProgressStates` in `linkservice` | needs_replug, up | eight | one report that must not survive the end, one that looks like success; `LinkRun` has all it sends |
| `ChunkCap`, `AckCap` | 1, 1 | 256, 64 | a full channel after one frame |
| `MaxCommands`, `MaxStrays`, two tasks | 2, 1 | any | a late confirmation needs a command that gave up and one after it; a stray one needs one frame |
| `EapolCap`, `Tries`, `MaxRekeys`, `MaxFaults` | 3 each | 16, the access point's | as many faults as tries, so that both sides of `LossSurvived` occur; three rekeys reuse a key index |
| `Bss`, `Ours`, `Asked` | 4, 3, {any, one of ours} | any | two siblings to rank and queue, one foreign BSSID to leave out |
| `IndCap`, `MaxInds` | 1, 2 | 4, any | a report that is dropped, a report after a report |
| `Servers`, `Ips`, `Sends`, `Pings` | 2, 2, 2, 2 | any, any, 5, 4 | offers of another server and of another address; a resend; a reply to the previous request |
| `ImageLen`, `Wall`, `Big`, `Small`, zones | 24, 8, 8, 4 units, 2 | 351,828 bytes at 0x120000, 0x170000, 1 KB, 256 bytes, 2 | a chunk below the wall, chunks that a zone's border cuts, one between zones; the plan only compares borders |
| `MaxLate` | 2 | any | one late answer taken for the next request's, and one more |
| `Slots`, `MaxHung`, `MaxFailures` | 2, 1, 1 | any | a hung pass, its replacement and its late return, in every order |
| histories | 4 and 3 moments | any | every stage of a stick, a claimed and a recorded link, an interface lost |
| `Ifaces`, `MaxFlaps`, `MaxRefusals` | 3, 1, 1 | any | an alternate that is dead before one that answers; either command refused; any initial state and one change of it |
| `Networks` | 2 | any | two wired interfaces with routers of their own beside a tunnel whose gateway is on no network; two wired interfaces that share the guessed router beside a tunnel on the dish's network |
| `Pids`, `Tuns` | 2, 3 | any | a utun of the past for each process beside a new one |

The theorems of section 6 hold for every value of these constants.

## 5. Fairness

Weak fairness on what the Go runtime and the timers do, strong fairness on one lock, and on nothing else:

* `LinkService`, `LinkRun`: every runnable goroutine runs and expired timers fire (`time.After` in Stop, the
  tickers and deadlines of the bring-up). A client need not call, a bring-up of `LinkService` need not
  return, and nobody need plug or unplug a dongle.
* `CommandChannel`: pumps run and transfers end (each has a timeout), the loop runs, Submit's timer
  fires, `close` goes on. The firmware need not answer, and a handler of the loop may hang.
* `KeyExchange`: the station's goroutines run and its timer fires. The access point need not do anything.
* `Join`: the station's loops run and every select's deadline fires. Firmware, servers and gateway may
  stay silent.
* `Loader`: the loader's goroutine runs, and every transfer and wait has its deadline; a ROM that answers
  executes what reaches it. `MaxLate` requests may expire although it does. A chip that is halted, hung or
  dead need not do anything.
* `Presence`: the watchdog's ticker and the ages of the caches run, a request that has begun is answered,
  and libusb returns from a pass that does not hang. A hung pass need never return.
* `Failover`: the ticker fires, pings end, route(8) returns. Strong fairness on `Locks` and `Notes`: Go's RWMutex
  lets a waiting writer in before new readers. Clients need not call.
* `Host`: clients poll the status route and the two-second cache runs out. No process need make progress.

## 6. Proofs

| Module | Theorems | Argument |
| --- | --- | --- |
| `LinkProofs` | `TypeCorrect`, `Inductive`, `OneLinkAlways`, `CancelAlwaysReachesRun`, `EndedAlwaysLooksEnded`, `Refinement`, `LinkTypeCorrect`, `InstInductive`, `OneResetAlways` | `CancelReachesRun` is not inductive: `IndInv` adds that only one client publishes, that it publishes a fresh attempt, that later attempts are untouched and that the stored CancelFunc is the latest attempt's. Then the only steps that matter are `StartAccept` (needs no stored CancelFunc) and `RunComplete` (clears it). Every step of `LinkRun` is a `LinkService` step or a stutter, so these theorems hold of the whole daemon. `InstInv` says which instance is on the bus at each step; that a step has a working attempt behind it comes from `LinkService`'s invariant. |
| `CommandChannelProofs` | `TypeCorrect`, `PumpsAlwaysQuiesced`, `AcksAlwaysSound` | A bounded append keeps a channel within its capacity; `CloseWait` needs all pumps ended, and an ended pump stays so. `SoundInv` looks at all the queues a confirmation passes as one (`InFlight`): of a task that is not spoilt there is at most one frame in flight (`Lone`), it confirms the command of a writer that waits (`Owned`), and only one writer submits at a time (`OneSubmitter`). Every step moves a frame, drops one, or adds one to queues that hold none of its task. |
| `KeyExchangeProofs` | `TypeCorrect`, `KeysAlwaysAgree`, `AckedAlwaysInstalled`, `LossAlwaysSurvived` | `KeyInv` relates the station's key, the frames in flight and the access point's state by replay counters; `GroupInv` does the same for group keys: a reply in flight names a key that is installed already. `FirstInv` follows the first group key: messages 1 and 3 carry it, what the station holds to install is it, and while no rekey is acknowledged what is installed over it goes to the other index. `LossInv` keeps an account: the copies sent of the message the access point waits on are at most the faults, plus the current ones under way (the newest of the queue), plus the one the group-key loop works on, unless an answer it expects is on its way. What the station reads and ignores is never one of those copies (`Kinds`, `Heard`, `PastMsg3`), so when the air is quiet all of them were faults. |
| `JoinProofs` | `TypeCorrect`, `TriedAlwaysOnce`, `LeaseAlwaysAgrees`, `PathAlwaysProven` | `TriedInv`: asked and queued BSSIDs are distinct and all in `tried`. `LeaseInv`: no acknowledgement exists before an offer is taken, and afterwards only for that offer. `EchoInv`: replies counted are at most the requests that have been answered and passed. |
| `HostProofs` | `TypeCorrect`, `UpAlwaysRouted`, `RecordAlwaysOwn` | `ClaimInv` (who links holds the claim) leaves one process that can move route or record; `TunInv` (an open bridge owns its utun) keeps the end of other utuns from flushing its route. The three-second idle test plays no part in it: it is the claim that protects a live link. |
| `LoaderProofs` | `TypeCorrect`, `ZonesAlwaysSpared`, `Refinement`, `AnswersAlwaysMatch` | The plan of an upload has a solution (`PlanExists`), spares the zones of the layout and leaves out nothing but zones and poisoned words (`PlanOfImage`), which needs the zones sorted. `ImagePlanned`: an image write under way or executed is one of the plan. `LoadInv`: what the loader holds for confirmed was executed, although answers are matched by message id: before the first block only requests of the setup can be late, and from it on only the request that is due is under way (`FirstBlock`, `OneByOne`); so a start is asked for only when the image is whole. `MatchInv`: while nothing was late, what is under way is the request that is due, its answer, or what the clearing of a halted pipe does away with, all in the loader's convention. |
| `PresenceProofs` | `TypeCorrect`, `Refinement` | `CurrentInv`: what the current pass has read is at least as late as what the list shows, since a pass becomes current before it reads and the shown moment moves only when the current pass gives its place up. So every publication is a step of `Observer`, and a replaced pass is a stutter. |
| `FailoverProofs` | `TypeCorrect`, `EarnedInductive`, `FailoverAlwaysEarned` | `EarnedInv`: as many of the last pings as there are strikes went unanswered, and alternates are tried only at the third. Clients and the network touch neither. |

`IndInv`, `InstInv`, `KeyInv`, `SoundInv`, `LossInv`, `LoadInv` and the like are the inductive invariants
of the proofs; TLC has checked them on the instances of section 3 before they were proved, and no run lists
them beside the properties they imply.

The library's induction theorems take a predicate as a parameter, which the provers cannot instantiate.
Where the plan of an upload needs an induction over addresses, `LoaderProofs` takes the set of addresses at
which a statement fails and its least element instead (`Least`, from `WFMin` and the well-foundedness of <
on Nat, and `FromTheEnd`).

Assumptions are the named `ASSUME`s of the modules: bounds are naturals, capacities positive, sets of
names disjoint from the special ones, progress states those the service knows, and the zones of the
loader's layouts sorted without overlap (`Sorted` in `LoaderAssumption`), as they are listed in the source:
`PlanAdaptiveUpload` clips a chunk at the first zone of the list, so with unsorted zones the theorem would
be false, which is finding 3 of section 7 for the poisoned words. TLC evaluates every assumption in the runs.

Only model-checked: the liveness properties (`StopReturns`, `ConnectSettles`, `DropEndsLink`, `WriteEnds`,
`CloseReturns`, `SupplicantSettles`, `JoinSettles`, `DeadForgotten`, `LoadReturns`, `ViewsSettle`,
`FailsOver`), since fairness and ENABLED are out of the prover's reach, and the three violations of
section 7. Every other property of a run is a theorem.

## 7. Where code and comments disagree

Each of these is a run in which TLC shows a behaviour of the code against a sentence of its comments.

1. **`linkrun_stop`, `StopEndsRun`.** "Stop tears the link down and waits for it to finish"
   (`linkservice.go:211`): the bootstrap makes a context of its own and waits without end for a dongle.
   The run keeps the slot and later Starts fail.
2. **`join_siblings`, `SilenceIsDeaf`.** "Try siblings before giving up" (`bringup_scan.go:627`):
   `continue Attempt` continues the wait for a report, so a queued sibling is never asked.
3. **`loader_poison`, `PoisonsSpared`.** "the absolute ranges in zones are never written"
   (`uploadplan.go:47`): a chunk is clipped at the first zone of the list that it touches, not at the
   nearest, and poisoned words are appended behind the register zones. A word poisoned in the 128 bytes
   before 0x170180 lies in a chunk that reaches that zone, and is written.

## 8. Observations no run checks

Met while modelling. The models have this behaviour where they reach it; no property is stated.

Link service and bring-up

* The goroutine of an ended attempt clears the package-level progress hook after it has given the slot
  back (`linkservice.go:171`, 174): a Start in between loses its own hook and every report of its
  bring-up is dropped, against "A state machine that cannot see its own transitions is worse than no
  state machine" (229-235).
* "Pulling the dongle exits the bridge cleanly" (`linkservice.go:197`): pumps retry read errors
  (`bulksource.go:64-78`), a failed transmit is a counted drop (`bridge.go:154-157`), and the main loop
  (236) listens to neither. The bridge and the status stay up.
* The completion handler and Stop's idle bypass `setLocked` or one another: the list of transitions misses
  the terminal ones (`linkservice.go:189`, 203); after Stop's ten seconds a late run overwrites idle; a
  Stop that waited on one link writes idle over another client's (226).
* After a replug nothing is reported until the flash ends, so the status keeps asking to unplug
  (`link.go:122-130`); the bootstrap's own wait for a replug prompts nobody (`bootstrap.go:109-111`).
* An open network returns 0 after association, and the service says "up" with no bridge.
* `reportLink` tests the package-level hook and then loads it again to call it (239-240). Cleared in between
  (174) it is a call of nil, which ends the daemon. `Tell` takes one load.
* A disconnect before the bridge is up is overwritten by the next report until the ten-second tick.

Command channel and supplicant

* `close` "halts the RX pumps (so no bulk transfer is in flight)" (`cmdctl.go:155-156`) but does not wait
  for the bridge's utun goroutine (`bridge.go:114-159`) or the group key's (`eapol_handshake.go:297`),
  either of which may be inside a transfer of up to a second when libusb is deinitialised.
* A corrupt record is reported as an error that ends `Loop.Run` (`loop.go:47`), hence the reception of the
  whole session, against "drop the whole buffer and resynchronise" (`rxstream.go:119-120`).
* Submit takes any id of the task (`submitter.go:77-80`) and never looks at a confirmation's status: a
  refused MM_KEY_ADD counts as confirmed. `ackCh` is not drained while bridging.
* A repeated message 3 after completion is never answered, so a lost message 4 costs the link.

Association and address

* The select that waits for the association has no `ctx.Done` case: Stop waits for up to 90 s and a scan.
  `len(results)` is read without the lock (`bringup_scan.go:491`).
* A reply later than three seconds counts as none; a DHCP NAK is ignored until the deadline; the lease is
  never renewed; without a router option ARP asks for 0.0.0.0.

Host

* `route -n get` reports the default route's interface when there is no host route (`tun_darwin.go:159`
  says as much: "which interface the kernel would use"), so on a host whose default route is en0
  `EnsureHostRoute` refuses, although rule 1 of its comment (116) says "No existing route ... → add".
  `Host` has this: `RouteGet` needs a host route, a VPN's utun as default, or no default route.
* A stale route whose utun is gone is not replaced either: the utun is not in netstat's output, and
  "cannot verify" refuses (140-143). A live utun that is quiet for three seconds counts as dead (192).
* The record is written once: a bridge older than 24 h reads as NO_DONGLE with the advice to unplug, and
  no longer keeps a second link from starting. A killed daemon's record whose process id is in use again
  reads as LINKED and blocks links.
* `--stop` kills after four seconds (`main.go:226-236`), while `linkSvc.Stop` may take ten.

Boot loader

* Confirmations are matched by message id, so the answer of a probe that was given up on the last rung is
  taken by the next read, which on an older MCU is the one whose value the cache register is written with
  (`loader.go:448-452`). `AnswersMatch` is about loads in which no request expired.
* A ROM that was found to answer the other length convention is spoken to in the first one after the reset
  before the configuration (838), although the convention is calibrated "once per run"
  (`firmware.go:87-88`): such a chip other than a U01 never gets its configuration, nor its start.
* The second rung probes one convention only (367), and the reboot of the third (380) is sent in it.
* When the reopen before the configuration fails (828-830) the load goes on with a closed device: START_APP
  (966) is sent on a nil handle. `Loader` calls the outcome "died".
* The magic of the configuration is written first and a failure of the rest is ignored (840-841).
* The 60 s of the context (`aicloader.go:227`) include the upload; the last waits may fail at once although
  the firmware is coming up (974-998).
* `$AIC_HYBRID` replaces the plan by one that heeds no zone (603-614, 729-737): `buildHybridOps` (1108-1128)
  leaves out 0x1701c0-0x170210 only, and writes the rest of the zone 0x170180-0x170280 and the start of
  0x172380-0x177800, although `CloneRegZones` are ranges "that must never be touched" (`uploadplan.go:102`).
  The poisoned words are not looked at either. `Loader` does not have this mode.
* A stick pulled and plugged again before the reopen of 824-828 is a blank boot ROM that is configured and
  asked to start. The stick of `Loader` stays away once it is pulled, so `ImplementsBoot` says nothing of it.
* "safe to call concurrently" (31-33) is not so: the convention is a package variable.
* The tables of products differ: `classifyDevice` knows 8d80, 8d81 and 5723, `stages.go` three more.

USB presence and its readers

* `ListWiFiDongles` returns nil on an enumeration error, and the cache publishes it as a completed pass
  (`modeswitch.go:296-300`), against "no data is not data of absence" (219). Every minute of a wedged pass
  starts another goroutine, against "one per wedged episode" (256-265). `Presence` has both.
* The status reads the cache and then the record: a link that ends in between is NO_DONGLE, and so is one
  whose dongle is claimed but whose record is not yet written, or older than 24 hours.
* `/api/starlink/status` takes its SSID from the host's scanner or a sticky value, gated by presence only
  (`server.go:327-335`), against "reports what the daemon actually knows" (311-313). A boot ROM counts as
  "operational" (353-359).
* The watchdog reports "No USB Wi-Fi dongle attached" whenever a link comes up. It "heals" utun10 with a
  fixed address, once, on the way down (`watchdog.go:137-160`), although `main.go:100-114` says the daemon
  invents no interface. `RecordDisconnect`, `RecordReconnect` and `Watchdog.Stop` are not called.
* With the dongle's own volume not mounted, the mode switch ejects the only other small USB volume there is
  (`modeswitch_darwin.go:67-117`), against "an unrelated small USB volume cannot be ejected" (155-159), and
  it returns success without looking for the new device.

Routing

* The loop takes a failed `SetDefaultInterface` for a success, resets the strikes and records an event
  (`policy.go:231-241`; a second one, past the trimming to 20, when it worked). The delete-then-add
  fallback can leave no default route (154-160); the name is then "en0" (256-268), so setting en0 is a
  no-op that reports success, and the loop does nothing while en0's gateway answers.
* Strikes are not reset when the default moves by another hand: the new interface inherits them, and is left
  after one ping. `FailoverEarned` allows it.
* A client's change between the loop's pings and its `SetDefaultInterface` is undone.
* A gateway that is not known is guessed (325-336), every tunnel has the same, and `route change|add default`
  is given that address only (145-146, 155-156). With two interfaces on one router, or both on the guessed
  address, the command may succeed and leave the default where it is: the loop takes that for a success,
  starts counting again and "fails over" for ever. TLC shows it when the condition on the address is dropped
  from `FailsOver`, which is why it is there.
* `GetReport` pings under the lock.

Other parts

* The supervisor's launchd branch accepts any daemon that answers (`RuntimeSupervisor.swift:118-128`).

## 9. Not modelled, and why

* **Daemon life cycle**: which daemon answers the port is decided by launchd, the app's privileged helper and
  the process table; `Loader` has the daemon that comes back during a load, `Host` the one that is killed.
* **Bridge data plane**: best-effort packets; what could go wrong there is a counter or a drop. Its control
  is in `LinkRun`, its host resources in `Host`. `PacketPump` is never started by the daemon.
* **MCP server, and the HTTP handlers that only forward**: stateless translations.
* **LMAC codecs**: byte layouts; the protocols abstract their outcomes.
* **Firmware images, scanner, spectrum, ping, speed test, counters, export, driver registry, boot ROM
  probes**: sequential I/O and measurements with no protocol behind them.
* **Swift client and views**: presentation of what the daemon reports.
* **DriverKit, packaging, scripts, web site**: not part of the running program.

Within the modelled parts: cryptography and frame layouts, texts and logs, event lists kept for display, the
CLI-only flags of the link (`--skip-flash`, `--force`, `--tx-probe`, `--net-target`), the scan-only mode,
ifconfig; of the loader, the modes `$AIC_HYBRID` and `$AIC_WINDOW_WORD`, `$AIC_SKIP_BELOW_WALL`, the zone
overrides, the V3 images, the read-back (`$AIC_VERIFY_WRITES`) and a stick plugged again during a load; of
presence, the host's own interfaces in the topology and the switch attempted once at start-up.

What a reader should keep in mind of the models:

* `Host` has no unplug: a claim ends with a release or with its process. `Die` is any end of a process,
  a kill by `stopDeviceHolders` (`bootstrap.go:239-252`), which the code does before a link of its own,
  among them.
* `Failover` keeps the routers of a behaviour fixed, and reads "no default route" as en0, as the code does:
  `FailsOver` speaks of that reading, not of the kernel's table.
* `ViewsSettle` speaks of a bus that stays as it is. While things change, a status may be mixed of two
  moments (section 8).

## 10. Plan

The order of the modules was: the service's one-link promise (`LinkService`), the bring-up that must keep
it (`LinkRun`, as a refinement), the session all of it runs on (`CommandChannel`), the two protocols with
outside parties (`KeyExchange`, `Join`), the resources shared with other processes (`Host`), the load that
makes a radio of the stick (`Loader`, `Boot`), and what the rest of the daemon sees and does meanwhile
(`Presence`, `Observer`, `Failover`). Left to model: the daemon's life cycle and the polling generations of
the app's `WiFiManagerStore`.

Left to prove: the safety part of the liveness arguments, such as a measure that every step of a join or of
a load brings down, so that what remains for TLC is only that steps are taken.
