---------------------------- MODULE MCTcpSource ----------------------------
(***************************************************************************)
(* Instances of TcpSource for TLC.                                         *)
(***************************************************************************)
EXTENDS TcpSource

\* Four messages, the second one too long for a MaxLength of 2.
ShortLongShort == <<2, 3, 1, 2>>
=============================================================================
