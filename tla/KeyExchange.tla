---------------------------- MODULE KeyExchange ----------------------------
(***************************************************************************)
(* The host supplicant (eapol_handshake.go): the WPA2 4-way handshake that *)
(* follows an association, and maintainGroupKey, which answers the access  *)
(* point's group rekeys for the life of the link.                          *)
(*                                                                         *)
(* A pairwise key stands for the ANonce it was derived from (the station's *)
(* own nonce and the passphrase do not change), a group key for its serial *)
(* number.  A MIC verifies when both ends hold the same pairwise key.      *)
(*                                                                         *)
(* The access point is external: it repeats a message up to Tries times,   *)
(* gives the station up when the last one had its chance, and rekeys.      *)
(***************************************************************************)
EXTENDS Naturals, Sequences

CONSTANTS
    EapolCap,      \* capacity of eapolCh, 16 in the code
    Tries,         \* times the access point sends a message before giving up
    MaxRekeys,     \* bound of the model: group rekeys after the handshake
    MaxFaults      \* bound of the model: lost frames and lost confirmations

ASSUME KeyAssumption ==
    /\ EapolCap \in Nat \ {0} /\ Tries \in Nat \ {0}
    /\ MaxRekeys \in Nat /\ MaxFaults \in Nat

VARIABLES
    sta,       \* where runEapolHandshake is, or how it ended
    ptk,       \* the station's pairwise key, whose TK it installs
    kck,       \* the key its MICs and unwrappings use
    held,      \* the key frame it is working on
    allOk,     \* okPTK && okGTK && okPort so far
    gk,        \* maintainGroupKey: "off", "wait", "add" or "reply"
    fw,        \* the firmware: pairwise key, group keys by index, port
    eapolCh,   \* frames from the access point
    uplink,    \* frames to the access point
    ap,        \* the access point: the message it waits for
    anonce,    \* the ANonce of its handshake: its pairwise key
    replay,    \* its replay counter
    first,     \* the counter it first sent the current message with
    gtk,       \* its newest group key
    acked,     \* the newest group key the station has acknowledged
    faults,    \* faults so far
    early,     \* history: the station timed out on an access point still trying
    msg4Lost   \* history: message 4 did not arrive

station == <<sta, ptk, kck, held, allOk>>
air == <<eapolCh, uplink>>
accessPoint == <<ap, anonce, replay, first, gtk, acked>>
ghosts == <<faults, early, msg4Lost>>
vars == <<station, gk, fw, air, accessPoint, ghosts>>

Working == {"preopen", "wait1", "wait3", "addPtk", "addGtk", "openPort"}
Ended == {"done", "noMsg1", "noMsg3", "sendFailed", "noGtk", "keysFailed", "cancelled"}

Down(kind) == [kind |-> kind, replay |-> replay', key |-> anonce', gtk |-> gtk']
Up(kind) == [kind |-> kind, replay |-> held'.replay, key |-> kck']

(* the index an access point alternates its group keys over *)
Index(g) == 1 + (g % 2)

Frames == [kind : {"msg1", "msg3", "group"}, replay : Nat, key : Nat, gtk : Nat]
Replies == [kind : {"msg2", "msg4", "reply"}, replay : Nat, key : Nat]

TypeOK ==
    /\ sta \in Working \cup Ended
    /\ ptk \in Nat /\ kck \in Nat
    /\ held \in Frames
    /\ allOk \in BOOLEAN
    /\ gk \in {"off", "wait", "add", "reply"}
    /\ fw \in [ptk : Nat, gtk : [1..2 -> Nat], port : BOOLEAN]
    /\ eapolCh \in Seq(Frames) /\ Len(eapolCh) <= EapolCap
    /\ uplink \in Seq(Replies)
    /\ ap \in {"wait2", "wait4", "done", "rekey", "gone"}
    /\ anonce \in Nat /\ replay \in Nat
    /\ first \in 1 .. replay /\ replay < first + Tries
    /\ gtk \in 1 .. MaxRekeys + 1 /\ acked \in 0 .. MaxRekeys + 1
    /\ faults \in 0 .. MaxFaults
    /\ early \in BOOLEAN /\ msg4Lost \in BOOLEAN

(* SM_CONNECT_IND with status 0: the access point sends its first message. *)
Init ==
    /\ sta = "preopen" /\ ptk = 0 /\ kck = 0 /\ allOk = TRUE
    /\ gk = "off"
    /\ fw = [ptk |-> 0, gtk |-> [i \in 1..2 |-> 0], port |-> FALSE]
    /\ ap = "wait2" /\ anonce = 1 /\ replay = 1 /\ first = 1
    /\ gtk = 1 /\ acked = 0
    /\ held = [kind |-> "msg1", replay |-> 0, key |-> 0, gtk |-> 0]
    /\ eapolCh = <<[kind |-> "msg1", replay |-> 1, key |-> 1, gtk |-> 1]>>
    /\ uplink = << >>
    /\ faults = 0 /\ early = FALSE /\ msg4Lost = FALSE

Fault == faults < MaxFaults /\ faults' = faults + 1

-----------------------------------------------------------------------------
(* The medium.  A frame may get lost in either direction, and the event     *)
(* loop drops what does not fit into eapolCh; what arrives is in order.     *)
ToStationAnyway(f) == eapolCh' = Append(eapolCh, f) /\ UNCHANGED faults   \* mutant: no bound

ToStation(f) ==
    \/ /\ Len(eapolCh) < EapolCap
       /\ eapolCh' = Append(eapolCh, f)
       /\ UNCHANGED faults
    \/ Fault /\ UNCHANGED eapolCh

Arrives(f) == uplink' = Append(uplink, f) /\ UNCHANGED faults
IsLost == Fault /\ UNCHANGED uplink

(* nothing on the air, and the station is waiting for the access point *)
Quiet ==
    /\ eapolCh = << >> /\ uplink = << >>
    /\ sta \in {"wait1", "wait3"} \cup Ended /\ gk \in {"off", "wait"}

-----------------------------------------------------------------------------
(* The access point. *)
Message == CASE ap = "wait2" -> "msg1" [] ap = "wait4" -> "msg3" [] ap = "rekey" -> "group"

(* A repetition has a new replay counter; one of message 1 that comes after *)
(* a silence may have a new nonce.                                          *)
ApRepeat ==
    /\ ap \in {"wait2", "wait4", "rekey"} /\ replay + 1 < first + Tries
    /\ replay' = replay + 1
    /\ anonce' \in {anonce} \cup (IF ap = "wait2" /\ Quiet THEN {anonce + 1} ELSE {})
    /\ UNCHANGED <<ap, first, gtk, acked>>
    /\ ToStation(Down(Message))
    /\ UNCHANGED <<station, gk, fw, uplink, early, msg4Lost>>

(* It waits longer for the last answer than the station takes to give it. *)
ApGiveUp ==
    /\ ap \in {"wait2", "wait4", "rekey"} /\ replay + 1 = first + Tries
    /\ Quiet
    /\ ap' = "gone"
    /\ UNCHANGED <<station, gk, fw, air, anonce, replay, first, gtk, acked, ghosts>>

Expects(f) ==
    /\ f.replay \in first .. replay /\ f.key = anonce
    /\ \/ ap = "wait2" /\ f.kind = "msg2"
       \/ ap = "wait4" /\ f.kind = "msg4"
       \/ ap = "rekey" /\ f.kind = "reply"

ApTakeMsg2 ==
    /\ uplink # << >> /\ Expects(Head(uplink)) /\ ap = "wait2"
    /\ uplink' = Tail(uplink)
    /\ ap' = "wait4" /\ replay' = replay + 1 /\ first' = replay'
    /\ UNCHANGED <<anonce, gtk, acked>>
    /\ ToStation(Down("msg3"))
    /\ UNCHANGED <<station, gk, fw, early, msg4Lost>>

ApTakeAnswer ==
    /\ uplink # << >> /\ Expects(Head(uplink)) /\ ap \in {"wait4", "rekey"}
    /\ uplink' = Tail(uplink)
    /\ ap' = "done" /\ acked' = gtk
    /\ UNCHANGED <<station, gk, fw, eapolCh, anonce, replay, first, gtk, ghosts>>

ApIgnore ==
    /\ uplink # << >> /\ ~Expects(Head(uplink))
    /\ uplink' = Tail(uplink)
    /\ UNCHANGED <<station, gk, fw, eapolCh, accessPoint, ghosts>>

ApRekey ==
    /\ ap = "done" /\ gtk <= MaxRekeys
    /\ ap' = "rekey" /\ replay' = replay + 1 /\ first' = replay'
    /\ gtk' = gtk + 1
    /\ UNCHANGED <<anonce, acked>>
    /\ ToStation(Down("group"))
    /\ UNCHANGED <<station, gk, fw, uplink, early, msg4Lost>>

-----------------------------------------------------------------------------
(* the firmware when it has carried out the command the station is at *)
WithGtk == [fw EXCEPT !.gtk[Index(held.gtk)] = held.gtk]
WithCommand ==
    CASE sta \in {"preopen", "openPort"}   -> [fw EXCEPT !.port = TRUE]
      [] sta = "addPtk"                    -> [fw EXCEPT !.ptk = ptk]
      [] sta = "addGtk" \/ gk = "add"      -> WithGtk
      [] OTHER                             -> fw

(* Submit: the command may be confirmed, carried out without a confirmation *)
(* that arrives, or never get to the firmware.                              *)
Submit(ok) ==
    \/ fw' = WithCommand /\ ok /\ UNCHANGED faults
    \/ fw' \in {fw, WithCommand} /\ ~ok /\ Fault

(* "open the controlled port BEFORE the handshake": its error is ignored *)
Preopen ==
    /\ sta = "preopen"
    /\ sta' = "wait1"
    /\ \E ok \in BOOLEAN : Submit(ok)
    /\ UNCHANGED <<ptk, kck, held, allOk, gk, air, accessPoint, early, msg4Lost>>

Got(kind) == eapolCh # << >> /\ Head(eapolCh).kind = kind
Verified == Head(eapolCh).key = kck

Take ==
    /\ held' = Head(eapolCh)
    /\ eapolCh' = Tail(eapolCh)

(* The first message 1, or a repeated one while waiting for message 3: the  *)
(* pairwise key is derived anew and message 2 sent with the newest counter. *)
TakeMsg1KeepsTk ==   \* mutant: only the MIC key is derived anew
    /\ sta \in {"wait1", "wait3"} /\ Got("msg1")
    /\ Take
    /\ ptk' = IF sta = "wait1" THEN held'.key ELSE ptk
    /\ kck' = held'.key
    /\ \/ sta' = "wait3" /\ (Arrives(Up("msg2")) \/ IsLost)
       \/ sta' = "sendFailed" /\ UNCHANGED uplink /\ Fault
    /\ UNCHANGED <<allOk, gk, fw, accessPoint, early, msg4Lost>>

TakeMsg1Once ==   \* mutant: a repeated message 1 gets no new message 2
    /\ sta \in {"wait1", "wait3"} /\ Got("msg1")
    /\ Take
    /\ sta' = "wait3"
    /\ IF sta = "wait3" THEN UNCHANGED <<ptk, kck, uplink, faults>>
       ELSE /\ ptk' = held'.key /\ kck' = held'.key
            /\ Arrives(Up("msg2")) \/ IsLost
    /\ UNCHANGED <<allOk, gk, fw, accessPoint, early, msg4Lost>>

TakeMsg1 ==
    /\ sta \in {"wait1", "wait3"} /\ Got("msg1")
    /\ Take
    /\ ptk' = held'.key /\ kck' = held'.key
    /\ \/ sta' = "wait3" /\ (Arrives(Up("msg2")) \/ IsLost)
       \/ sta' = "sendFailed" /\ UNCHANGED uplink /\ Fault
    /\ UNCHANGED <<allOk, gk, fw, accessPoint, early, msg4Lost>>

(* Message 3: the group key is unwrapped and message 4 sent. *)
TakeMsg3 ==
    /\ sta = "wait3" /\ Got("msg3") /\ Verified
    /\ Take
    /\ UNCHANGED <<ptk, kck>>
    /\ \/ sta' = "addPtk" /\ Arrives(Up("msg4")) /\ UNCHANGED msg4Lost
       \/ sta' = "addPtk" /\ IsLost /\ msg4Lost' = TRUE
       \/ sta' \in {"noGtk", "sendFailed"} /\ UNCHANGED <<uplink, msg4Lost>> /\ Fault
    /\ UNCHANGED <<allOk, gk, fw, accessPoint, early>>

(* What one of the loops reads and has no use for.  In the group-key loop   *)
(* that is every pairwise frame: a repeated message 3 gets no answer.       *)
Wanted ==
    CASE sta = "wait1" -> Got("msg1")
      [] sta = "wait3" -> Got("msg1") \/ (Got("msg3") /\ Verified)
      [] OTHER         -> Got("group") /\ Verified

Ignore ==
    /\ sta \in {"wait1", "wait3"} \/ gk = "wait"
    /\ eapolCh # << >> /\ ~Wanted
    /\ eapolCh' = Tail(eapolCh)
    /\ UNCHANGED <<station, gk, fw, uplink, accessPoint, ghosts>>

TimeoutNever == FALSE   \* mutant: the loops wait for frames alone

(* 30 seconds for message 1, 20 for message 3, however often 1 is repeated *)
Timeout ==
    /\ \/ sta = "wait1" /\ sta' = "noMsg1"
       \/ sta = "wait3" /\ sta' = "noMsg3"
    /\ early' = (early \/ ~Quiet \/ (ap \in {"wait2", "wait4"} /\ replay + 1 < first + Tries))
    /\ UNCHANGED <<ptk, kck, held, allOk, gk, fw, air, accessPoint, faults, msg4Lost>>

Install(from, to) ==
    /\ sta = from
    /\ \E ok \in BOOLEAN : Submit(ok) /\ allOk' = (allOk /\ ok)
    /\ sta' = to
    /\ UNCHANGED <<ptk, kck, held, gk, air, accessPoint, early, msg4Lost>>

AddPtk == Install("addPtk", "addGtk")
AddGtk == Install("addGtk", "openPort")

(* All three must have been confirmed; then the group-key loop is started. *)
OpenPort ==
    /\ sta = "openPort"
    /\ \E ok \in BOOLEAN :
        /\ Submit(ok)
        /\ allOk' = (allOk /\ ok)
    /\ sta' = IF allOk' THEN "done" ELSE "keysFailed"
    /\ gk' = IF allOk' THEN "wait" ELSE "off"
    /\ UNCHANGED <<ptk, kck, held, air, accessPoint, early, msg4Lost>>

(* The attempt's context ends: the loops return, a Submit fails, after its  *)
(* command was written or before; a reply already verified is still sent.   *)
Cancel ==
    /\ sta \in Working \cup {"done"}
    /\ sta' = "cancelled"
    /\ gk' = IF gk = "reply" THEN "reply" ELSE "off"
    /\ fw' \in {fw, WithCommand}
    /\ UNCHANGED <<ptk, kck, held, allOk, air, accessPoint, ghosts>>

-----------------------------------------------------------------------------
(* maintainGroupKey: verify, unwrap, install, then acknowledge. *)
TakeGroup ==
    /\ gk = "wait" /\ Got("group") /\ Verified
    /\ Take
    /\ \/ gk' = "add" /\ UNCHANGED faults
       \/ gk' = "wait" /\ Fault     \* the key data cannot be read
    /\ UNCHANGED <<sta, ptk, kck, allOk, fw, uplink, accessPoint, early, msg4Lost>>

GroupAddUnchecked ==   \* mutant: a missing confirmation does not stop the reply
    /\ gk = "add"
    /\ gk' = "reply"
    /\ \E ok \in BOOLEAN : Submit(ok)
    /\ UNCHANGED <<station, air, accessPoint, early, msg4Lost>>

GroupAdd ==
    /\ gk = "add"
    /\ \E ok \in BOOLEAN :
        /\ Submit(ok)
        /\ gk' = IF ok THEN "reply" ELSE "wait"
    /\ UNCHANGED <<station, air, accessPoint, early, msg4Lost>>

GroupReply ==
    /\ gk = "reply"
    /\ gk' = IF sta = "cancelled" THEN "off" ELSE "wait"
    /\ UNCHANGED station
    /\ Arrives(Up("reply")) \/ IsLost
    /\ UNCHANGED <<fw, eapolCh, accessPoint, early, msg4Lost>>

-----------------------------------------------------------------------------
AccessPoint ==
    ApRepeat \/ ApGiveUp \/ ApTakeMsg2 \/ ApTakeAnswer \/ ApIgnore \/ ApRekey

Handshake ==
    Preopen \/ TakeMsg1 \/ TakeMsg3 \/ Ignore \/ AddPtk \/ AddGtk \/ OpenPort

GroupKey == TakeGroup \/ GroupAdd \/ GroupReply

Next == AccessPoint \/ Handshake \/ Timeout \/ Cancel \/ GroupKey

Spec == Init /\ [][Next]_vars

(* The station's goroutines run and its timers fire. *)
FairSpec == Spec /\ WF_vars(Handshake) /\ WF_vars(Timeout) /\ WF_vars(GroupKey)

-----------------------------------------------------------------------------
(* A handshake the station reports as complete left the key the access      *)
(* point holds in the firmware, the port open, and until a rekey has been   *)
(* acknowledged the group key of message 3, through every loss, repetition, *)
(* change of nonce and rekey on the way (okPTK && okGTK && okPort).         *)
KeysAgree ==
    sta = "done" =>
        fw.ptk = anonce /\ fw.port /\ (acked <= 1 => fw.gtk[Index(1)] = 1)

(* "Install before acknowledging: the AP may start using the new key as     *)
(* soon as our reply lands": a rekey the access point has seen acknowledged *)
(* is in the firmware, at its index.                                        *)
AckedIsInstalled == acked > 1 => fw.gtk[Index(acked)] = acked

(* The access point gives the station up only after as many faults as it    *)
(* has tries, or for one of the reasons the code has no answer to: message  *)
(* 4 is sent once and never again, a command or a send failed, the group    *)
(* key could not be read, the link is being stopped.                        *)
LossSurvived ==
    ap = "gone" =>
        \/ faults >= Tries \/ early \/ msg4Lost
        \/ sta \in {"sendFailed", "noGtk", "keysFailed", "cancelled"}

(* runEapolHandshake returns, whatever the access point does.               *)
SupplicantSettles == sta \in Working ~> sta \in Ended
=============================================================================
