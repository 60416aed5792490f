------------------------------ MODULE MCServer ------------------------------
(***************************************************************************)
(* Instances of Server for TLC.                                            *)
(***************************************************************************)
EXTENDS Server, TLC

\* the connections are interchangeable (for runs without liveness)
ConnSymmetry == Permutations(Conns)

AllFaults    == FaultKinds
\* the server thread itself never fails
ClientFaults == {"create", "peer"}
PeerFaults   == {"peer"}
NoFaults     == {}

=============================================================================
