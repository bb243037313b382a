------------------------- MODULE MCMessageConsumer -------------------------
(***************************************************************************)
(* Small instances of MessageConsumer for TLC.                             *)
(***************************************************************************)
EXTENDS MessageConsumer

CONSTANTS m1, m2, m3

\* Two attempts, none at all, and no limit.
MCIncoming == <<m1, m2, m3>>
MCAttempts == [m \in Ids |-> CASE m = m1 -> 2 [] m = m2 -> 0 [] OTHER -> -1]

\* An unlimited message beside a limited one.
TwoIncoming == <<m1, m2>>
WithUnlimited == [m \in Ids |-> IF m = m1 THEN -1 ELSE 2]
=============================================================================
