--------------------------- MODULE MCPortForwarding ---------------------------
(* TLC instances of PortForwarding.                                        *)
EXTENDS PortForwarding, TLC

NameSymmetry == UNION {Permutations(S) : S \in {TcpPorts, Observers, Masters, Relays}}
===============================================================================
