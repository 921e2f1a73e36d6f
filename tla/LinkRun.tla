------------------------------ MODULE LinkRun ------------------------------
(***************************************************************************)
(* The body of a bring-up that LinkService leaves open, and the dongle it  *)
(* drives: runCmdLink (link.go), the bootstrap it calls (bootstrap.go) and *)
(* the two bring-up sessions that follow (bringup_scan.go), down to the    *)
(* bridge's main loop (bridge.go).  Attempts come one after the other, the *)
(* dongle and its firmware instance outlive them, and a person may pull    *)
(* and plug the dongle at any moment.                                      *)
(*                                                                         *)
(* The flags are those of the API path: neither --skip-flash nor --force,  *)
(* and a --wait-replug.  One step stands for a whole exchange on the air   *)
(* or on the bus; whether it succeeds is the environment's choice, limited *)
(* by whether the open session still holds a live device.                  *)
(***************************************************************************)
EXTENDS LinkService

CONSTANT Security   \* the networks Start is asked for: subset of {"wpa2", "open"}

ASSUME ReportsAssumption ==
    {"flashing", "needs_replug", "associating", "handshaking", "configuring",
     "up", "down"} \subseteq ProgressStates

VARIABLES
    stage,      \* what DetectAICStage sees on the bus
    romLive,    \* does the boot ROM answer transfers, or is it wedged?
    stack,      \* the running firmware: has it taken a stack_start?
    resets,     \* the running firmware: the MM_RESETs it has taken
    step,       \* where the working attempt is in runCmdLink
    claim,      \* is the open session's device handle alive?
    linkDown    \* the session's linkDown flag

firmware == <<stack, resets>>
dongle == <<stage, romLive, stack, resets>>
linkVars == <<dongle, step, claim, linkDown>>
allVars == <<vars, linkVars>>

Stages == {"absent", "zerocd", "bootrom", "operational"}
BootSteps == {"boot", "ejected", "bootReplug"}
SessionSteps == {"stackCmd", "init", "assoc", "joined", "hand", "dhcp",
                 "bridging", "bridge", "bridgeDown"}
Steps == {"off", "detect", "waitGone", "waitBack", "stack", "settle", "open"}
             \cup BootSteps \cup SessionSteps

LinkTypeOK ==
    /\ stage \in Stages
    /\ romLive \in BOOLEAN
    /\ stack \in BOOLEAN
    /\ resets \in 0 .. 2
    /\ step \in Steps
    /\ claim \in BOOLEAN
    /\ linkDown \in BOOLEAN

(* A daemon starts with no link; the dongle may be anything, a firmware     *)
(* that somebody has already used included.                                 *)
LinkInit ==
    /\ Init
    /\ stage \in Stages
    /\ romLive \in BOOLEAN
    /\ stack \in IF stage = "operational" THEN BOOLEAN ELSE {FALSE}
    /\ resets \in IF stack THEN {0, 1} ELSE {0}
    /\ step = "off"
    /\ claim = FALSE
    /\ linkDown = FALSE

-----------------------------------------------------------------------------
(* The dongle and the people around it (hardware, as the code's comments    *)
(* and its handling of the stages describe it).                             *)
Unplug ==
    /\ stage # "absent"
    /\ stage' = "absent"
    /\ romLive' = FALSE
    /\ stack' = FALSE /\ resets' = 0
    /\ claim' = FALSE
    /\ UNCHANGED <<vars, step, linkDown>>

Plug ==
    /\ stage = "absent"
    /\ stage' = "zerocd"
    /\ UNCHANGED <<vars, romLive, firmware, step, claim, linkDown>>

(* a ZeroCD disk left alone, or a firmware crash, ends in a deaf boot ROM   *)
Wedge ==
    /\ stage \in {"zerocd", "operational"}
    /\ stage' = "bootrom"
    /\ romLive' = FALSE
    /\ stack' = FALSE /\ resets' = 0
    /\ claim' = FALSE
    /\ UNCHANGED <<vars, step, linkDown>>

-----------------------------------------------------------------------------
At(a, s) == runPc[a] = "working" /\ step = s

Silently(s) == step' = s /\ UNCHANGED vars

TellUnhooked(a, report, s) ==   \* mutant: the hook is not tested
    /\ step' = s
    /\ RunAt(a, "working", "reporting")
    /\ runReport' = [runReport EXCEPT ![a] = report]
    /\ UNCHANGED <<statusVars, attempts, cancel, linkProgress, runRc, ctxDone, clientVars>>

(* reportLink, dropped when no hook is published *)
Tell(a, report, s) ==
    /\ step' = s
    /\ RunReport(a, report) \/ (~linkProgress /\ UNCHANGED vars)

(* runCmdLink returns; an open session is closed on the way out *)
End(a, rc) ==
    /\ RunReturn(a, rc)
    /\ step' = "off"
    /\ claim' = FALSE
    /\ linkDown' = FALSE

Begin(a) ==
    /\ RunBegin(a)
    /\ step' = "detect"
    /\ UNCHANGED <<dongle, claim, linkDown>>

(* another process's link is recorded, no dongle, or no firmware set *)
Refuse(a) == At(a, "detect") /\ End(a, 1) /\ UNCHANGED dongle

DetectFlashable(a) ==
    /\ At(a, "detect")
    /\ stage \in {"zerocd", "bootrom"}
    /\ Tell(a, "flashing", "boot")
    /\ UNCHANGED <<dongle, claim, linkDown>>

(* Mutant of DetectUsed: a firmware found running is taken for a fresh one. *)
DetectUsedGoesOn(a) ==
    /\ At(a, "detect")
    /\ stage = "operational"
    /\ Silently("stack")
    /\ UNCHANGED <<dongle, claim, linkDown>>

(* A running firmware may be spent: ask for a power cycle and wait.         *)
DetectUsed(a) ==
    /\ At(a, "detect")
    /\ stage = "operational"
    /\ Tell(a, "needs_replug", "waitGone")
    /\ UNCHANGED <<dongle, claim, linkDown>>

(* waitForFlashable takes any error of the detection for the unplug, so the *)
(* dongle may be there all the same                                         *)
SawGone(a) ==
    /\ At(a, "waitGone")
    /\ ~ctxDone[a]
    /\ Silently("waitBack")
    /\ UNCHANGED <<dongle, claim, linkDown>>

SawBack(a) ==
    /\ At(a, "waitBack")
    /\ stage \in {"zerocd", "bootrom"}
    /\ ~ctxDone[a]
    /\ Silently("boot")
    /\ UNCHANGED <<dongle, claim, linkDown>>

WaitOver(a) ==   \* the deadline, or the context
    /\ \E s \in {"waitGone", "waitBack"} : At(a, s)
    /\ End(a, 1)
    /\ UNCHANGED dongle

-----------------------------------------------------------------------------
(* runBootstrap: a loop over the stage with a context of its own, so that   *)
(* none of its waits sees the attempt's.  It loops until an upload succeeds *)
(* (nobody else flashes the dongle, so it finds none running on its own).   *)
BootEject(a) ==
    /\ At(a, "boot")
    /\ stage = "zerocd"
    /\ Silently("ejected")
    /\ \/ stage' = "bootrom" /\ romLive' = TRUE
       \/ UNCHANGED <<stage, romLive>>
    /\ UNCHANGED <<firmware, claim, linkDown>>

EjectedSeen(a) ==
    /\ At(a, "ejected")
    /\ stage = "bootrom"
    /\ Silently("boot")
    /\ UNCHANGED <<dongle, claim, linkDown>>

(* the eject fails, or no boot ROM appears within 30 s *)
EjectFails(a) ==
    /\ At(a, "ejected") \/ (At(a, "boot") /\ stage = "zerocd")
    /\ End(a, 1)
    /\ UNCHANGED dongle

Upload(a) ==
    /\ At(a, "boot")
    /\ stage = "bootrom" /\ romLive
    /\ stage' = "operational"
    /\ romLive' = FALSE
    /\ stack' = FALSE /\ resets' = 0
    /\ Silently("stack")
    /\ UNCHANGED <<claim, linkDown>>

(* the loader gives up; the chip may still come up on its own afterwards *)
UploadFails(a) ==
    /\ At(a, "boot")
    /\ stage = "bootrom"
    /\ \/ UNCHANGED <<stage, romLive>>
       \/ romLive /\ stage' = "operational" /\ romLive' = FALSE
    /\ stack' = FALSE /\ resets' = 0
    /\ Silently("bootReplug")
    /\ UNCHANGED <<claim, linkDown>>

BootReplugged(a) ==
    /\ At(a, "bootReplug")
    /\ stage = "zerocd"
    /\ Silently("boot")
    /\ UNCHANGED <<dongle, claim, linkDown>>

-----------------------------------------------------------------------------
(* bringup --stack, in a session of its own *)
OpenSession(a, from, to) ==
    /\ At(a, from)
    /\ stage = "operational"
    /\ claim' = TRUE
    /\ Silently(to)
    /\ UNCHANGED <<dongle, linkDown>>

OpenFails(a) ==
    /\ \E s \in {"stack", "open"} : At(a, s)
    /\ End(a, 1)
    /\ UNCHANGED dongle

StackStart(a) ==
    /\ At(a, "stackCmd")
    /\ claim
    /\ stack' = TRUE
    /\ claim' = FALSE
    /\ Silently("settle")
    /\ UNCHANGED <<stage, romLive, resets, linkDown>>

(* no CFM, whether or not the command was delivered *)
StackStartFails(a) ==
    /\ At(a, "stackCmd")
    /\ stack' \in {stack, stack \/ claim}
    /\ End(a, 1)
    /\ UNCHANGED <<stage, romLive, resets>>

Settled(a) ==
    /\ At(a, "settle")
    /\ ~ctxDone[a]
    /\ Tell(a, "associating", "open")
    /\ UNCHANGED <<dongle, claim, linkDown>>

SettleCancelled(a) ==
    /\ At(a, "settle")
    /\ ctxDone[a]
    /\ End(a, 1)
    /\ UNCHANGED dongle

-----------------------------------------------------------------------------
(* bringup --connect --bridge.  The MAC initialisation does not look at the *)
(* context before it writes to the bus: MM_RESET goes out even when every   *)
(* confirmation is given up at once.                                        *)
MacInit(a) ==
    /\ At(a, "init")
    /\ claim
    /\ resets' = resets + 1
    /\ Silently("assoc")
    /\ UNCHANGED <<stage, romLive, stack, claim, linkDown>>

MacInitFails(a) == At(a, "init") /\ ~claim /\ End(a, 1) /\ UNCHANGED dongle

Associated(a) ==
    /\ At(a, "assoc")
    /\ claim
    /\ \E net \in Security :
          Tell(a, "handshaking", IF net = "wpa2" THEN "hand" ELSE "joined")
    /\ UNCHANGED <<dongle, claim, linkDown>>

(* refused by every candidate, or 90 s of silence; the context is not seen  *)
AssociationFailsNever(a) == FALSE   \* mutant: no deadline
AssociationFails(a) == At(a, "assoc") /\ End(a, 1) /\ UNCHANGED dongle

(* an open network: nothing is left to do but to return *)
OpenNetworkDone(a) == At(a, "joined") /\ End(a, 0) /\ UNCHANGED dongle

HandshakeDone(a) ==
    /\ At(a, "hand")
    /\ claim
    /\ Tell(a, "configuring", "dhcp")
    /\ UNCHANGED <<dongle, claim, linkDown>>

Configured(a) ==
    /\ At(a, "dhcp")
    /\ claim
    /\ Silently("bridging")
    /\ UNCHANGED <<dongle, claim, linkDown>>

(* a timeout of the handshake, of DHCP, ARP or the pings; the context; no   *)
(* utun, address or route                                                   *)
SetupFails(a) ==
    /\ \E s \in {"hand", "dhcp", "bridging"} : At(a, s)
    /\ End(a, 1)
    /\ UNCHANGED dongle

BridgeUp(a) ==
    /\ At(a, "bridging")
    /\ Tell(a, "up", "bridge")
    /\ UNCHANGED <<dongle, claim, linkDown>>

BridgeTickNever(a) == FALSE   \* mutant: the tick only prints counters

(* the ten-second tick of a bridge whose firmware reported a disconnect *)
BridgeTick(a) ==
    /\ At(a, "bridge")
    /\ linkDown
    /\ Tell(a, "down", "bridgeDown")
    /\ UNCHANGED <<dongle, claim, linkDown>>

BridgeGivesUp(a) == At(a, "bridgeDown") /\ End(a, 1) /\ UNCHANGED dongle

(* ctx.Done: the main loop and the pump that closes stop race for the code  *)
BridgeCancelled(a) == \E rc \in {0, 1} :
    /\ At(a, "bridge")
    /\ ctxDone[a]
    /\ End(a, rc)
    /\ UNCHANGED dongle

BridgeUtunFails(a) == At(a, "bridge") /\ End(a, 1) /\ UNCHANGED dongle

(* SM_DISCONNECT_IND, on the event loop of the session that connects: its   *)
(* handler is there before the association is                               *)
Disconnected(a) ==
    /\ step \in {"init", "assoc", "joined", "hand", "dhcp", "bridging", "bridge"}
    /\ claim /\ ~linkDown
    /\ runPc[a] \in {"working", "reporting"}
    /\ linkDown' = TRUE
    /\ LoopReport(a) \/ (~linkProgress /\ UNCHANGED vars)
    /\ UNCHANGED <<dongle, step, claim>>

-----------------------------------------------------------------------------
ServiceStep ==
    /\ \/ \E c \in Clients : ClientCall(c) \/ ClientStep(c)
       \/ \E a \in Attempt : \/ RunReportSet(a) \/ RunSetUp(a) \/ RunComplete(a)
                             \/ RunClearProgress(a) \/ RunCloseDone(a)
    /\ UNCHANGED linkVars

Flash(a) ==
    \/ Refuse(a) \/ DetectFlashable(a) \/ DetectUsed(a)
    \/ SawGone(a) \/ SawBack(a) \/ WaitOver(a)
    \/ BootEject(a) \/ EjectedSeen(a) \/ EjectFails(a)
    \/ Upload(a) \/ UploadFails(a) \/ BootReplugged(a)

Connect(a) ==
    \/ OpenSession(a, "stack", "stackCmd") \/ OpenSession(a, "open", "init")
    \/ OpenFails(a)
    \/ StackStart(a) \/ StackStartFails(a) \/ Settled(a) \/ SettleCancelled(a)
    \/ MacInit(a) \/ MacInitFails(a)
    \/ Associated(a) \/ AssociationFails(a) \/ OpenNetworkDone(a)
    \/ HandshakeDone(a) \/ Configured(a) \/ SetupFails(a)
    \/ BridgeUp(a) \/ BridgeTick(a) \/ BridgeGivesUp(a) \/ BridgeCancelled(a)

Body(a) == Flash(a) \/ Connect(a)

Environment == Unplug \/ Plug \/ Wedge

LinkNext ==
    \/ ServiceStep
    \/ Environment
    \/ \E a \in Attempt : Begin(a) \/ Body(a) \/ BridgeUtunFails(a) \/ Disconnected(a)

LinkSpec == LinkInit /\ [][LinkNext]_allVars

(* The scheduler runs every goroutine and every wait of the body that has a *)
(* deadline ends; nobody need ever touch the dongle, nor the AP hang up.    *)
LinkFairSpec ==
    /\ LinkSpec
    /\ \A c \in Clients : WF_allVars(ClientStep(c) /\ UNCHANGED linkVars)
    /\ \A a \in Attempt : /\ WF_allVars(ServiceStep /\ RunStep(a))
                          /\ WF_allVars(Begin(a))
                          /\ WF_allVars(Body(a))

-----------------------------------------------------------------------------
(* The whole daemon is a LinkService: whatever bootstrap, sessions and      *)
(* bridge do, they only report and return.                                  *)
ImplementsLinkService == Spec

(* This firmware allows one MM_RESET per flash, and only on a stack started *)
(* in an earlier session: across attempts, Stops, replugs and crashes no    *)
(* instance is ever reset twice, nor reset with its stack down.             *)
OneResetPerInstance == resets <= 1 /\ (resets = 1 => stack)

(* What OneResetPerInstance rests on: between the upload and the reset the  *)
(* instance on the bus, if there still is one, is the untouched one.        *)
BusFresh == stage = "operational" => resets = 0

(* a bring-up that is under way has an attempt that works on it *)
StepOwned == step # "off" => \E a \in Attempt : runPc[a] \in {"working", "reporting"}

InstInv ==
    /\ StepOwned
    /\ stage # "operational" => resets = 0 /\ ~stack
    /\ claim => stage = "operational" /\ step \in SessionSteps
    /\ step \in BootSteps \cup {"stack", "stackCmd"} => BusFresh
    /\ step \in {"settle", "open", "init"} =>
          BusFresh /\ (stage = "operational" => stack)
    /\ OneResetPerInstance

(* Every attempt that has a running firmware either gets to the bridge or   *)
(* ends: whatever is pulled, refused or silent, each wait has a deadline.   *)
ConnectSettles ==
    step \in {"stack", "stackCmd", "settle", "open", "init", "assoc", "joined",
              "hand", "dhcp", "bridging"} ~> step \in {"off", "bridge"}

(* A link the firmware reported dropped is torn down.                       *)
DropEndsLink == linkDown ~> step = "off"

-----------------------------------------------------------------------------
(* What the source's comments say and the code does not do.                 *)

(* "Stop tears the link down and waits for it to finish": a cancelled run   *)
(* ends, even when the dongle has been pulled for good.                     *)
StopEndsRun == \A a \in Attempt :
    ctxDone[a] /\ [](stage = "absent") ~> runPc[a] = "ended"
=============================================================================
