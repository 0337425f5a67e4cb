----------------------------- MODULE MCServerApp -----------------------------
(* ServerApp for TLC.                                                        *)
EXTENDS ServerApp
=============================================================================
