---------------------------- MODULE AtLeastOnce ----------------------------
(***************************************************************************)
(* What the queue and its consumer promise together, without connections,  *)
(* acknowledgements, copies or processes.  A pending message stays until   *)
(* it is handled or given up; a settled one may come back.                 *)
(***************************************************************************)
EXTENDS Naturals

CONSTANT Messages

VARIABLES pending, handled, given_up

promised == <<pending, handled, given_up>>

Init ==
    /\ pending = Messages
    /\ handled = [m \in Messages |-> 0]
    /\ given_up = {}

\* Another copy of a settled message may still be pending.
Settle(m) == m \in pending /\ pending' \in {pending, pending \ {m}}

Handle(m) ==
    /\ Settle(m)
    /\ handled' = [handled EXCEPT ![m] = @ + 1]
    /\ UNCHANGED given_up

GiveUp(m) ==
    /\ Settle(m)
    /\ given_up' = given_up \cup {m}
    /\ UNCHANGED handled

\* The acknowledgement was lost.
ComeBack(m) ==
    /\ handled[m] > 0 \/ m \in given_up
    /\ pending' = pending \cup {m}
    /\ UNCHANGED <<handled, given_up>>

Next == \E m \in Messages : Handle(m) \/ GiveUp(m) \/ ComeBack(m)

Spec == Init /\ [][Next]_promised
=============================================================================
