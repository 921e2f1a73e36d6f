----------------------------- MODULE MCPresence -----------------------------
(* Presence for TLC: the life of a stick, plugged in beside a device that is *)
(* none, switched, linked by the daemon and back on the bus when utun10 goes *)
(* down; and a second stick that comes while another process has the first.  *)
EXTENDS Presence

At(b, l, t) == [bus |-> b, link |-> l, tun |-> t]

Life == <<At({"zerocd", "other"}, "none", "absent"), At({"wlan", "other"}, "none", "absent"),
          At({}, "own", "up"), At({"wlan"}, "none", "down")>>
Pair == <<At({}, "claimed", "absent"), At({"zerocd"}, "cli", "absent"), At({"zerocd", "wlan"}, "none", "absent")>>
MCHistories == {Life, Pair}
=============================================================================
