----------------------------- MODULE MCRelayRooms -----------------------------
(* TLC instance of RelayRooms. *)
EXTENDS RelayRooms, TLC

SocketSymmetry == Permutations(NodeSock) \union Permutations(ClientSock \ Foreign)
=============================================================================
