----------------------------- MODULE MCTcpServer -----------------------------
(* TcpServer for TLC: connections and handles are interchangeable.          *)
EXTENDS TcpServer, TLC

Symmetry == Permutations(Conn) \cup Permutations(Handle)
=============================================================================
