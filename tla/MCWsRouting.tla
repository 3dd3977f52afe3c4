---------------------------- MODULE MCWsRouting ----------------------------
(* Instances of WsRouting for TLC.                                          *)
EXTENDS WsRouting, TLC

\* Connections and users are interchangeable; a client id the clients choose is not.
Symmetry == Permutations(Sockets) \cup Permutations(Users)

=============================================================================
