----------------------------- MODULE MCClientApp -----------------------------
(* ClientApp for TLC.                                                        *)
EXTENDS ClientApp

MCSession == 1 .. MaxLogin
MCRequest == AppRequest
MCPacket  == AppPacket
=============================================================================
