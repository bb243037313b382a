------------------------------ MODULE MCTracing ------------------------------
(***************************************************************************)
(* Small instances of Tracing for TLC.                                     *)
(***************************************************************************)
EXTENDS Tracing, TLC

\* A voiding, a creation, a batch, and two calls in one request.
Short == {[cmd |-> "VOID", calls |-> <<1>>], [cmd |-> "CREATE", calls |-> <<1>>]}
Long == {[cmd |-> "UPDATE", calls |-> <<2>>], [cmd |-> "DELETE", calls |-> <<1, 1>>]}

MCBodies == Short \cup Long

\* The bound of the state space: one long body at a time.
OneLong == \A r, q \in Requests : body[r] \in Long /\ body[q] \in Long => r = q

RequestSymmetry == Permutations(Requests)
=============================================================================
