----------------------------- MODULE MCFailover -----------------------------
(* Failover for TLC: the built-in Wi-Fi, an adapter and a tunnel. Either the *)
(* first two have routers of their own and the tunnel is not the bridge's,   *)
(* or the adapter names no router and the Wi-Fi is behind the one guessed.   *)
EXTENDS Failover

MCIfaces == {"en0", "en5", "utun11"}
MCWired == {"en0", "en5"}
MCTunnels == {"utun11"}
MCPlace == [i \in MCIfaces |-> CASE i = "en0" -> 1 [] i = "en5" -> 2 [] i = "utun11" -> 3]
Routers(wifi, adapter, tunnel) ==
    [i \in MCIfaces |-> CASE i = "en0" -> wifi [] i = "en5" -> adapter [] i = "utun11" -> tunnel]
MCNetworks == {Routers("r0", "r5", None), Routers("guess", None, "dish")}
=============================================================================
