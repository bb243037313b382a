---------------------------- MODULE MCSupervisor ----------------------------
(***************************************************************************)
(* A small instance of Supervisor for TLC.                                 *)
(***************************************************************************)
EXTENDS Supervisor

CONSTANTS m1, m2

\* An unlimited message beside one of two attempts that may not parse.
MCIncoming == <<m1, m2>>
MCAttempts == [m \in Ids |-> IF m = m1 THEN -1 ELSE 2]
=============================================================================
