-------------------------- MODULE MCCommandService --------------------------
(***************************************************************************)
(* Small instances of CommandService for TLC.                              *)
(***************************************************************************)
EXTENDS CommandService, TLC

CONSTANTS r1, r2, r3, i1, i2, i3, i4

\* Two values a client sends, and what the suffix makes of them.  The suffix of
\* a suffixed value is that value: no instance creates one with it.
MCValues == {"a", "b", "a_teh", "b_teh"}
MCWithSuffix ==
    [v \in MCValues |-> CASE v = "a" -> "a_teh" [] v = "b" -> "b_teh" [] OTHER -> v]

Call(id, v) == [id |-> id, vo |-> v]

OneSeed == [id \in {i1} |-> "a"]
TwoSeeds == [id \in {i1, i2} |-> "a"]

\* One call on one item: each command, an update that changes nothing included.
SingleBodies ==
    {[cmd |-> c, payload |-> <<<<Call(i1, "b")>>>>] : c \in Commands}
    \cup {[cmd |-> "UPDATE", payload |-> <<<<Call(i1, "a_teh")>>>>]}

\* A batch that always fails, after its first item has queued an announcement,
\* and the same voiding again in a call of its own.
RetryBody == [cmd |-> "VOID", payload |-> <<<<Call(i1, "b"), Call(i1, "b")>>, <<Call(i1, "b")>>>>]

CommandBodies == SingleBodies \cup {RetryBody}

\* Batches in one transaction, locking in both orders.
BatchBodies ==
    {[cmd |-> c, payload |-> <<<<Call(ids[1], "b"), Call(ids[2], "b")>>>>] :
        c \in {"UPDATE", "VOID"}, ids \in {<<i1, i2>>, <<i2, i1>>}}
    \cup {[cmd |-> "DELETE", payload |-> <<<<Call(i2, "b")>>>>]}

\* Two calls in one request.
PairBodies ==
    {[cmd |-> c, payload |-> <<<<Call(i1, "b")>>, <<Call(i2, "b")>>>>] :
        c \in {"VOID", "DELETE"}}
    \cup {[cmd |-> "CREATE", payload |-> <<<<Call(i1, "b")>>>>],
          [cmd |-> "VOID", payload |-> <<<<Call(i2, "b")>>>>]}

\* Two calls in one request, the first a batch that may fail half way.
AnnouncingBodies ==
    {[cmd |-> "VOID", payload |-> <<<<Call(i1, "b"), Call(i2, "b")>>, <<Call(i2, "b")>>>>],
     [cmd |-> "VOID", payload |-> <<<<Call(i1, "b")>>, <<Call(i2, "b")>>>>],
     [cmd |-> "DELETE", payload |-> <<<<Call(i1, "b")>>>>]}

\* With batches that lock in opposite orders, for what makes requests wait.
CallBodies == PairBodies \cup AnnouncingBodies \cup BatchBodies

RequestSymmetry == Permutations(Requests)
=============================================================================
