------------------------------ MODULE MCRouting ----------------------------
(* Two projects, the second a peer of the first. The first sends its own   *)
(* hostname in vm mode, and the hostname the second uses on the Mac and    *)
(* exposed to the LAN: whoever comes second is refused.                    *)
EXTENDS Routing, TLC

CONSTANTS p1, p2, h1, h2

MCZone == (h1 :> p1) @@ (h2 :> p2)
MCPeers == (p1 :> {p2}) @@ (p2 :> {})

VM == [mode |-> "vm", lan |-> FALSE]
Local == [mode |-> "local", lan |-> TRUE]
MCDecls == (p1 :> {h1 :> VM @@ h2 :> Local}) @@ (p2 :> {h2 :> VM})

MCSymmetry == Permutations(IPs) \cup Permutations(Ports)
=============================================================================
