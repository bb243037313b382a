------------------------- MODULE CommandCallsProofs -------------------------
(***************************************************************************)
(* What becomes of a controller call: it is one transaction, it is         *)
(* answered truly, and what it voided is announced.  For every set of      *)
(* requests, bodies and faults of CommandService.                          *)
(***************************************************************************)
EXTENDS CommandServiceProofs, FiniteSetTheorems, FunctionTheorems

(***************************************************************************)
(* The places of a call's entries in a journal.                            *)
(***************************************************************************)

\* Where j has the entries of call b.
PlacesBy(j, b) ==
    UNION {{<<id, k>> : k \in {l \in DOMAIN j[id] : j[id][l].by = b}} : id \in Ids}

Journals == [Ids -> Seq(Entry)]

\* Entry k of s is call b's.
Has(s, k, b) == k \in DOMAIN s /\ s[k].by = b

LEMMA HasInAppend ==
    ASSUME NEW s \in Seq(Entry), NEW e \in Entry, NEW b, NEW k \in Nat
    PROVE  Has(Append(s, e), k, b) <=> Has(s, k, b) \/ (k = Len(s) + 1 /\ e.by = b)
  <1>1. /\ DOMAIN s = 1 .. Len(s) /\ Len(s) \in Nat
        /\ Append(s, e) \in Seq(Entry) /\ DOMAIN Append(s, e) = 1 .. Len(s) + 1
        /\ \A n \in 1 .. Len(s) : Append(s, e)[n] = s[n]
        /\ Append(s, e)[Len(s) + 1] = e
    BY AppendProperties, LenProperties
  <1>2. CASE k \in 1 .. Len(s)
    BY <1>1, <1>2 DEF Has
  <1>3. CASE k = Len(s) + 1
    BY <1>1, <1>3 DEF Has
  <1>4. CASE k \notin 1 .. Len(s) + 1
    BY <1>1, <1>4 DEF Has
  <1> QED BY <1>1, <1>2, <1>3, <1>4

LEMMA HasInConcat ==
    ASSUME NEW s \in Seq(Entry), NEW t \in Seq(Entry), NEW b, NEW k \in Nat
    PROVE  /\ Has(s, k, b) => Has(s \o t, k, b)
           /\ Has(t, k, b) => Has(s \o t, Len(s) + k, b)
           /\ Has(s \o t, k, b) => Has(s, k, b) \/ \E n \in Nat : k = Len(s) + n /\ Has(t, n, b)
  <1>1. /\ DOMAIN s = 1 .. Len(s) /\ DOMAIN t = 1 .. Len(t) /\ Len(s) \in Nat /\ Len(t) \in Nat
        /\ DOMAIN (s \o t) = 1 .. Len(s) + Len(t)
        /\ \A n \in 1 .. Len(s) : (s \o t)[n] = s[n]
        /\ \A n \in 1 .. Len(t) : (s \o t)[Len(s) + n] = t[n]
    BY LenProperties, ConcatProperties
  <1>2. Has(s, k, b) => Has(s \o t, k, b)
    BY <1>1 DEF Has
  <1>3. Has(t, k, b) => Has(s \o t, Len(s) + k, b)
    BY <1>1 DEF Has
  <1>4. ASSUME Has(s \o t, k, b), k \notin 1 .. Len(s)
        PROVE  k = Len(s) + (k - Len(s)) /\ k - Len(s) \in Nat /\ Has(t, k - Len(s), b)
    <2> DEFINE n == k - Len(s)
    <2>1. n \in 1 .. Len(t) /\ k = Len(s) + n
      BY <1>1, <1>4 DEF Has
    <2> HIDE DEF n
    <2>2. (s \o t)[Len(s) + n] = t[n] /\ (s \o t)[Len(s) + n].by = b
      BY <1>1, <1>4, <2>1 DEF Has
    <2>3. Has(t, n, b)
      BY <1>1, <2>1, <2>2 DEF Has
    <2>4. n \in Nat
      BY <2>1
    <2> QED BY <2>1, <2>3, <2>4 DEF n
  <1>5. Has(s \o t, k, b) /\ k \in 1 .. Len(s) => Has(s, k, b)
    BY <1>1 DEF Has
  <1> QED BY <1>2, <1>3, <1>4, <1>5

LEMMA PlacesAre ==
    ASSUME NEW j \in Journals, NEW b
    PROVE  /\ \A p \in PlacesBy(j, b) : \E id \in Ids, k \in Nat : p = <<id, k>> /\ Has(j[id], k, b)
           /\ \A id \in Ids, k \in Nat : Has(j[id], k, b) <=> <<id, k>> \in PlacesBy(j, b)
  <1>1. \A id \in Ids : DOMAIN j[id] \subseteq Nat
    <2> SUFFICES ASSUME NEW id \in Ids PROVE DOMAIN j[id] \subseteq Nat
      OBVIOUS
    <2>1. j[id] \in Seq(Entry)
      BY DEF Journals
    <2> QED BY <2>1, LenProperties
  <1> QED BY <1>1 DEF PlacesBy, Has

\* The same entries, the same places.
LEMMA SamePlaces ==
    ASSUME NEW j \in Journals, NEW m \in Journals, NEW b,
           \A id \in Ids, k \in Nat : Has(m[id], k, b) <=> Has(j[id], k, b)
    PROVE  PlacesBy(m, b) = PlacesBy(j, b)
  <1>1. ASSUME NEW p \in PlacesBy(m, b) PROVE p \in PlacesBy(j, b)
    <2>1. PICK id \in Ids, k \in Nat : p = <<id, k>> /\ Has(m[id], k, b)
      BY PlacesAre
    <2> QED BY <2>1, PlacesAre
  <1>2. ASSUME NEW p \in PlacesBy(j, b) PROVE p \in PlacesBy(m, b)
    <2>1. PICK id \in Ids, k \in Nat : p = <<id, k>> /\ Has(j[id], k, b)
      BY PlacesAre
    <2> QED BY <2>1, PlacesAre
  <1> QED BY <1>1, <1>2

\* Sets whose elements match one to one have as many.
LEMMA Matching ==
    ASSUME NEW S, NEW T, IsFiniteSet(S), NEW f \in [S -> T],
           \A a, b \in S : f[a] = f[b] => a = b, \A t \in T : \E s \in S : f[s] = t
    PROVE  IsFiniteSet(T) /\ Cardinality(T) = Cardinality(S)
  <1>1. f \in Bijection(S, T)
    BY Fun_IsBij
  <1> QED BY <1>1, FS_Bijection DEF ExistsBijection

\* Nothing logged, no places.
LEMMA NoPlaces == ASSUME NEW b PROVE PlacesBy([id \in Ids |-> <<>>], b) = {}
  BY DEF PlacesBy

\* An entry that is added has one more place.
LEMMA OneMorePlace ==
    ASSUME NEW l \in Journals, NEW i \in Ids, NEW e \in Entry,
           IsFiniteSet(PlacesBy(l, e.by)),
           NEW m \in Journals, m = [l EXCEPT ![i] = Append(@, e)]
    PROVE  /\ IsFiniteSet(PlacesBy(m, e.by))
           /\ Cardinality(PlacesBy(m, e.by)) = Cardinality(PlacesBy(l, e.by)) + 1
  <1> DEFINE b == e.by
             P == PlacesBy(l, b)
             x == <<i, Len(l[i]) + 1>>
  <1>1. /\ m[i] = Append(l[i], e) /\ \A id \in Ids \ {i} : m[id] = l[id]
        /\ l[i] \in Seq(Entry) /\ Len(l[i]) + 1 \in Nat /\ ~Has(l[i], Len(l[i]) + 1, b)
    BY LenProperties DEF Journals, Has
  <1>2. \A k \in Nat : Has(m[i], k, b) <=> Has(l[i], k, b) \/ k = Len(l[i]) + 1
    BY <1>1, HasInAppend
  <1> HIDE DEF b
  <1>3. PlacesBy(m, b) = P \cup {x}
    <2>1. ASSUME NEW id \in Ids, NEW k \in Nat
          PROVE  Has(m[id], k, b) <=> Has(l[id], k, b) \/ <<id, k>> = x
      BY <1>1, <1>2
    <2>2. x \in PlacesBy(m, b)
      BY <1>1, <1>2, PlacesAre
    <2>3. ASSUME NEW p \in PlacesBy(m, b) PROVE p \in P \cup {x}
      <3>1. PICK id \in Ids, k \in Nat : p = <<id, k>> /\ Has(m[id], k, b)
        BY PlacesAre
      <3> QED BY <2>1, <3>1, PlacesAre
    <2>4. ASSUME NEW p \in P PROVE p \in PlacesBy(m, b)
      <3>1. PICK id \in Ids, k \in Nat : p = <<id, k>> /\ Has(l[id], k, b)
        BY PlacesAre
      <3> QED BY <2>1, <3>1, PlacesAre
    <2> QED BY <2>2, <2>3, <2>4
  <1>4. x \notin P
    BY <1>1, PlacesAre
  <1> HIDE DEF P, x
  <1>5. IsFiniteSet(P)
    BY DEF P, b
  <1>6. IsFiniteSet(P \cup {x}) /\ Cardinality(P \cup {x}) = Cardinality(P) + 1
    BY <1>4, <1>5, FS_AddElement
  <1> QED BY <1>3, <1>6 DEF P, b

\* The journals j with what l has logged behind them.
Joined(j, l) == [id \in Ids |-> j[id] \o l[id]]

\* No entry of l is call b's.
NoneBy(l, b) == \A id \in Ids : \A k \in DOMAIN l[id] : l[id][k].by # b

LEMMA JoinedType == \A j, l \in Journals : Joined(j, l) \in Journals
  BY DEF Journals, Joined

\* A commit puts the logged entries behind those that are there.
LEMMA CommittedPlaces ==
    ASSUME NEW j \in Journals, NEW l \in Journals, NEW b,
           PlacesBy(j, b) = {}, IsFiniteSet(PlacesBy(l, b))
    PROVE  Cardinality(PlacesBy(Joined(j, l), b)) = Cardinality(PlacesBy(l, b))
  <1> DEFINE m == Joined(j, l)
  <1>m. m \in Journals /\ \A id \in Ids : m[id] = j[id] \o l[id]
    BY JoinedType DEF Joined
  <1> HIDE DEF m
  <1> DEFINE f == [p \in PlacesBy(l, b) |-> <<p[1], Len(j[p[1]]) + p[2]>>]
  <1>1. ASSUME NEW id \in Ids, NEW k \in Nat
        PROVE  /\ Len(j[id]) \in Nat
               /\ Has(l[id], k, b) => Has(m[id], Len(j[id]) + k, b)
               /\ Has(m[id], k, b) => \E n \in Nat : k = Len(j[id]) + n /\ Has(l[id], n, b)
    <2>1. j[id] \in Seq(Entry) /\ l[id] \in Seq(Entry) /\ m[id] = j[id] \o l[id]
      BY <1>m DEF Journals
    <2>2. ~Has(j[id], k, b)
      BY PlacesAre
    <2>3. /\ Has(l[id], k, b) => Has(j[id] \o l[id], Len(j[id]) + k, b)
          /\ Has(j[id] \o l[id], k, b) =>
                Has(j[id], k, b) \/ \E n \in Nat : k = Len(j[id]) + n /\ Has(l[id], n, b)
      BY <2>1, HasInConcat
    <2> QED BY <2>1, <2>2, <2>3, LenProperties
  <1>2. ASSUME NEW p \in PlacesBy(l, b)
        PROVE  <<p[1], Len(j[p[1]]) + p[2]>> \in PlacesBy(m, b)
    <2>1. PICK id \in Ids, k \in Nat : p = <<id, k>> /\ Has(l[id], k, b)
      BY PlacesAre
    <2>2. Has(m[id], Len(j[id]) + k, b) /\ Len(j[id]) + k \in Nat
      BY <1>1, <2>1
    <2>3. <<id, Len(j[id]) + k>> \in PlacesBy(m, b)
      BY <2>2, <1>m, PlacesAre
    <2> QED BY <2>1, <2>3
  <1>3. ASSUME NEW t \in PlacesBy(m, b)
        PROVE  \E p \in PlacesBy(l, b) : f[p] = t
    <2>1. PICK id \in Ids, n \in Nat : t = <<id, n>> /\ Has(m[id], n, b)
      BY <1>m, PlacesAre
    <2>2. PICK k \in Nat : n = Len(j[id]) + k /\ Has(l[id], k, b)
      BY <1>1, <2>1
    <2>3. <<id, k>> \in PlacesBy(l, b)
      BY <2>2, <1>m, PlacesAre
    <2>4. f[<<id, k>>] = t
      BY <2>1, <2>2, <2>3
    <2> QED BY <2>3, <2>4
  <1>4. f \in [PlacesBy(l, b) -> PlacesBy(m, b)]
    BY <1>2
  <1>5. ASSUME NEW p \in PlacesBy(l, b), NEW q \in PlacesBy(l, b), f[p] = f[q]
        PROVE  p = q
    <2>1. PICK id \in Ids, k \in Nat : p = <<id, k>>
      BY PlacesAre
    <2>2. PICK id2 \in Ids, k2 \in Nat : q = <<id2, k2>>
      BY PlacesAre
    <2>3. id = id2 /\ Len(j[id]) + k = Len(j[id]) + k2
      BY <1>5, <2>1, <2>2
    <2>4. k = k2
      BY <1>1, <2>1, <2>2, <2>3
    <2> QED BY <2>1, <2>2, <2>3, <2>4
  <1> HIDE DEF f
  <1>6. Cardinality(PlacesBy(m, b)) = Cardinality(PlacesBy(l, b))
    BY <1>3, <1>4, <1>5, Matching
  <1> QED BY <1>6 DEF m

\* And leaves those of other calls where they are.
LEMMA OtherPlaces ==
    ASSUME NEW j \in Journals, NEW l \in Journals, NEW b, NoneBy(l, b)
    PROVE  PlacesBy(Joined(j, l), b) = PlacesBy(j, b)
  <1> DEFINE m == Joined(j, l)
  <1>m. m \in Journals /\ \A id \in Ids : m[id] = j[id] \o l[id]
    BY JoinedType DEF Joined
  <1> HIDE DEF m
  <1>1. ASSUME NEW id \in Ids, NEW k \in Nat
        PROVE  Has(m[id], k, b) <=> Has(j[id], k, b)
    <2>1. j[id] \in Seq(Entry) /\ l[id] \in Seq(Entry) /\ m[id] = j[id] \o l[id]
      BY <1>m DEF Journals
    <2>2. \A n \in Nat : ~Has(l[id], n, b)
      BY DEF Has, NoneBy
    <2> QED BY <2>1, <2>2, HasInConcat
  <1>2. PlacesBy(m, b) = PlacesBy(j, b)
    BY <1>m, <1>1, SamePlaces
  <1> QED BY <1>2 DEF m

(***************************************************************************)
(* The invariant.                                                          *)
(***************************************************************************)

\* How many entries an item of the call makes, and how many are made.
Weight(r) == IF body[r].cmd = "CREATE" THEN 2 ELSE 1

Done(r) == (at[r] - 1) * Weight(r) + (IF session_count[r] = 2 THEN 1 ELSE 0)

Working == {"item", "load", "get", "flush", "read", "commit"}

\* Where a request is in its payload, and with which event in its hands.
InCall(r) ==
    /\ Len(resp[r]) <= Len(Calls(r))
    /\ pc[r] \in Working \cup {"unwind", "publish"} => Len(resp[r]) < Len(Calls(r))
    /\ pc[r] = "item" => at[r] <= Len(ThisCall(r)) + 1
    /\ pc[r] = "commit" => at[r] = Len(ThisCall(r)) + 1
    /\ pc[r] \in {"load", "get", "flush"} /\ session_count[r] = 2 => body[r].cmd = "CREATE"
    /\ pc[r] = "read" => body[r].cmd = "VOID"
    /\ pc[r] \in {"get", "flush"} => agg[r].event = EventOf(Operation(r))

\* The open transaction is the current call's, and as far as the call is.
WorkDone(r) ==
    /\ \A id \in Ids : \A k \in DOMAIN logged[r][id] : logged[r][id][k].by = By(r)
    /\ pc[r] \in Working =>
        /\ IsFiniteSet(PlacesBy(logged[r], By(r)))
        /\ Cardinality(PlacesBy(logged[r], By(r))) = Done(r)

All(r, n) == n \in DOMAIN Calls(r) /\ Cardinality(Committed(r, n)) = Whole(r, n)

Nothing(r, n) == Committed(r, n) = {}

\* What the database has of call n, by what is known of it: an answered call,
\* the one whose answer is due, and all others.
Outcome(r, n) ==
    IF n \in DOMAIN resp[r]
    THEN IF resp[r][n] THEN All(r, n) ELSE Nothing(r, n) \/ ("commit" \in Faults /\ All(r, n))
    ELSE IF n = Len(resp[r]) + 1 /\ pc[r] \in {"publish", "dead"}
         THEN All(r, n) \/ (Nothing(r, n) /\ pc[r] = "dead")
         ELSE Nothing(r, n)

Call(r) == InCall(r) /\ WorkDone(r) /\ \A n \in Nat : Outcome(r, n)

CallInv == IInv /\ \A r \in Requests : Call(r)

LEMMA CallType ==
    ASSUME TypeOK, NEW r \in Requests
    PROVE  /\ Len(resp[r]) \in Nat /\ Len(Calls(r)) \in Nat /\ DOMAIN resp[r] = 1 .. Len(resp[r])
           /\ DOMAIN Calls(r) = 1 .. Len(Calls(r))
           /\ Len(resp[r]) < Len(Calls(r)) =>
                /\ Len(ThisCall(r)) \in Nat \ {0}
                /\ Len(resp[r]) + 1 \in DOMAIN Calls(r)
           /\ \A n \in DOMAIN Calls(r) : Len(Calls(r)[n]) \in Nat \ {0}
  <1>1. body[r] \in Bodies /\ body[r] \in Body /\ resp[r] \in Seq(BOOLEAN)
    BY BodiesAssumption DEF TypeOK
  <1>2. Calls(r) \in Seq(Seq(Item))
    BY <1>1 DEF Calls, Body
  <1>3. /\ Len(resp[r]) \in Nat /\ Len(Calls(r)) \in Nat /\ DOMAIN resp[r] = 1 .. Len(resp[r])
        /\ DOMAIN Calls(r) = 1 .. Len(Calls(r))
    BY <1>1, <1>2, LenProperties
  <1>4. ASSUME NEW n \in DOMAIN Calls(r) PROVE Len(Calls(r)[n]) \in Nat \ {0}
    <2>1. Calls(r)[n] \in Seq(Item) /\ Calls(r)[n] # <<>>
      BY <1>1, <1>2, <1>3, BodiesAssumption, ElementOfSeq DEF Calls
    <2> QED BY <2>1, LenProperties, EmptySeq
  <1> QED BY <1>3, <1>4 DEF ThisCall

LEMMA JournalsType ==
    ASSUME TypeOK
    PROVE  journal \in Journals /\ \A r \in Requests : logged[r] \in Journals
  BY DEF TypeOK, Journals

(***************************************************************************)
(* The others.                                                             *)
(***************************************************************************)

LEMMA OthersPrivate ==
    ASSUME IInv, NEW r \in Requests, Proceed(r) \/ Fail(r), NEW q \in Requests \ {r}
    PROVE  Private(q)' = Private(q)
  <1>0. TypeOK
    BY DEF IInv
  <1>1. CASE Quiet(r)
    BY <1>0, <1>1, ZenonT(60)
       DEF Quiet, Enter, Finish, BeginLoad, BeginCommit, LoadMissing, GetModel, ReadVoided,
           StatementFails, DeadlockVictim, Publish, PublishFails, EndCall, TypeOK, Private,
           database
  <1>2. CASE BeginCreate(r) \/ Load(r) \/ LoadRefused(r) \/ Save(r)
    BY <1>0, <1>2 DEF BeginCreate, Load, LoadRefused, Save, TypeOK, Private
  <1>3. CASE Commit(r) \/ CommitFails(r) \/ Unwind(r) \/ Crash(r)
    BY <1>0, <1>3 DEF Commit, CommitFails, Unwind, Crash, EndTransaction, EndCall, TypeOK,
                      Private
  <1> QED BY <1>1, <1>2, <1>3 DEF Proceed, Fail, Quiet

\* A transaction adds nothing to other calls.
LEMMA OthersCommitted ==
    ASSUME IInv, TypeOK', NEW r \in Requests, Proceed(r) \/ Fail(r), WorkDone(r),
           NEW q, NEW n, <<q, n>> # By(r)
    PROVE  Committed(q, n)' = Committed(q, n)
  <1>1. UNCHANGED journal \/ ApplyTransaction(r)
    BY DEF Proceed, Fail, Enter, Finish, BeginCreate, BeginLoad, BeginCommit, Load, LoadRefused,
           LoadMissing, GetModel, Save, ReadVoided, Commit, Publish, Unwind, StatementFails,
           DeadlockVictim, CommitFails, PublishFails, Crash, database
  <1>2. CASE UNCHANGED journal
    BY <1>2 DEF Committed
  <1>3. CASE ApplyTransaction(r)
    <2>1. journal \in Journals /\ logged[r] \in Journals
      BY JournalsType DEF IInv
    <2>2. journal' = Joined(journal, logged[r]) /\ NoneBy(logged[r], <<q, n>>)
      BY <1>3 DEF ApplyTransaction, Joined, NoneBy, WorkDone
    <2>3. PlacesBy(journal', <<q, n>>) = PlacesBy(journal, <<q, n>>)
      BY <2>1, <2>2, OtherPlaces
    <2> QED BY <2>3 DEF Committed, PlacesBy
  <1> QED BY <1>1, <1>2, <1>3

LEMMA OthersCalls ==
    ASSUME IInv, TypeOK', NEW r \in Requests, Proceed(r) \/ Fail(r), WorkDone(r),
           NEW q \in Requests \ {r}, Call(q)
    PROVE  Call(q)'
  <1>1. Private(q)' = Private(q)
    BY OthersPrivate
  <1>2. /\ pc'[q] = pc[q] /\ body'[q] = body[q] /\ resp'[q] = resp[q] /\ at'[q] = at[q]
        /\ session_count'[q] = session_count[q] /\ agg'[q] = agg[q] /\ logged'[q] = logged[q]
    BY <1>1 DEF Private
  <1>3. /\ Calls(q)' = Calls(q) /\ ThisCall(q)' = ThisCall(q) /\ By(q)' = By(q)
        /\ Operation(q)' = Operation(q) /\ Done(q)' = Done(q)
    BY <1>2 DEF Calls, ThisCall, By, Operation, Done, Weight
  <1>4. InCall(q)'
    BY <1>2, <1>3 DEF Call, InCall
  <1>5. WorkDone(q)'
    <2>1. PlacesBy(logged[q], By(q))' = PlacesBy(logged[q], By(q))
      BY <1>2, <1>3 DEF PlacesBy
    <2> QED BY <1>2, <1>3, <2>1 DEF Call, WorkDone
  <1>6. ASSUME NEW n \in Nat PROVE Outcome(q, n)'
    <2>1. Committed(q, n)' = Committed(q, n)
      BY OthersCommitted DEF By
    <2>2. Whole(q, n)' = Whole(q, n)
      BY <1>2, <1>3 DEF Whole
    <2>3. (All(q, n)' <=> All(q, n)) /\ (Nothing(q, n)' <=> Nothing(q, n))
      BY <1>3, <2>1, <2>2 DEF All, Nothing
    <2>4. Outcome(q, n)
      BY DEF Call
    <2> QED BY <1>2, <2>3, <2>4 DEF Outcome
  <1> QED BY <1>4, <1>5, <1>6 DEF Call

(***************************************************************************)
(* The request that moves: its answers.                                    *)
(***************************************************************************)

LEMMA OutcomesKept ==
    ASSUME TypeOK, NEW r \in Requests, \A n \in Nat : Outcome(r, n),
           body'[r] = body[r], resp'[r] = resp[r], UNCHANGED journal,
           \/ pc'[r] \in {pc[r], "dead"}
           \/ pc[r] \notin {"publish", "dead"} /\ pc'[r] \notin {"publish", "dead"}
    PROVE  \A n \in Nat : Outcome(r, n)'
  <1> SUFFICES ASSUME NEW n \in Nat PROVE Outcome(r, n)'
    OBVIOUS
  <1>1. (All(r, n)' <=> All(r, n)) /\ (Nothing(r, n)' <=> Nothing(r, n))
    BY DEF All, Nothing, Committed, Whole, Calls
  <1>2. Outcome(r, n)
    OBVIOUS
  <1> QED BY <1>1, <1>2 DEF Outcome

\* A call is answered as it deserves.
LEMMA Answered ==
    ASSUME TypeOK, NEW r \in Requests, NEW ok \in BOOLEAN, \A n \in Nat : Outcome(r, n),
           body'[r] = body[r], resp'[r] = Append(resp[r], ok), pc'[r] = "call",
           NEW n0 \in Nat, n0 = Len(resp[r]) + 1,
           \A n \in Nat \ {n0} : Committed(r, n)' = Committed(r, n),
           ok => All(r, n0)',
           ~ok => Nothing(r, n0)' \/ ("commit" \in Faults /\ All(r, n0)')
    PROVE  \A n \in Nat : Outcome(r, n)'
  <1> SUFFICES ASSUME NEW n \in Nat PROVE Outcome(r, n)'
    OBVIOUS
  <1>1. /\ resp[r] \in Seq(BOOLEAN) /\ Len(resp[r]) \in Nat /\ DOMAIN resp[r] = 1 .. Len(resp[r])
        /\ DOMAIN resp'[r] = 1 .. n0
        /\ \A k \in DOMAIN resp[r] : resp'[r][k] = resp[r][k]
        /\ resp'[r][n0] = ok
        /\ Len(resp'[r]) = n0
    BY CallType, AppendProperties DEF TypeOK
  <1>2. CASE n = n0
    <2>1. n \in DOMAIN resp'[r] /\ resp'[r][n] = ok
      BY <1>1, <1>2
    <2>2. Outcome(r, n0)' <=> IF ok THEN All(r, n0)'
                              ELSE Nothing(r, n0)' \/ ("commit" \in Faults /\ All(r, n0)')
      BY <1>2, <2>1, Zenon DEF Outcome
    <2> QED BY <1>2, <2>2
  <1>3. CASE n # n0
    <2>1. (All(r, n)' <=> All(r, n)) /\ (Nothing(r, n)' <=> Nothing(r, n))
      BY <1>3 DEF All, Nothing, Whole, Calls
    <2>2. Outcome(r, n)
      OBVIOUS
    <2>3. CASE n \in DOMAIN resp[r]
      <3>1. n \in DOMAIN resp'[r] /\ resp'[r][n] = resp[r][n]
        BY <1>1, <2>3
      <3> QED BY <2>1, <2>2, <2>3, <3>1, Zenon DEF Outcome
    <2>4. CASE n \notin DOMAIN resp[r]
      <3>1. n \notin DOMAIN resp'[r] /\ pc'[r] \notin {"publish", "dead"}
        BY <1>1, <1>3, <2>4
      <3>2. Nothing(r, n)
        BY <1>3, <2>2, <2>4 DEF Outcome
      <3> QED BY <2>1, <3>1, <3>2, Zenon DEF Outcome
    <2> QED BY <2>3, <2>4
  <1> QED BY <1>2, <1>3

\* A commit stores the whole call.
LEMMA WholeCommitted ==
    ASSUME IInv, TypeOK', NEW r \in Requests, Call(r), pc[r] = "commit", ApplyTransaction(r),
           UNCHANGED body, NEW n0 \in Nat, n0 = Len(resp[r]) + 1
    PROVE  All(r, n0)'
  <1> DEFINE b == <<r, n0>>
  <1>1. TypeOK /\ InCall(r) /\ WorkDone(r) /\ Outcome(r, n0) /\ session_count[r] = 1
        /\ body[r].cmd \in Commands
    BY CommandType DEF IInv, Call, Progress
  <1>2. /\ n0 \in DOMAIN Calls(r) /\ n0 \notin DOMAIN resp[r] /\ Len(ThisCall(r)) \in Nat
        /\ at[r] = Len(ThisCall(r)) + 1 /\ Calls(r)[n0] = ThisCall(r)
    BY <1>1, CallType DEF InCall, ThisCall, Working
  <1>3. Nothing(r, n0)
    BY <1>1, <1>2 DEF Outcome
  <1>4. /\ journal \in Journals /\ logged[r] \in Journals
        /\ journal' = Joined(journal, logged[r])
        /\ PlacesBy(journal, b) = {}
        /\ IsFiniteSet(PlacesBy(logged[r], b))
        /\ Cardinality(PlacesBy(logged[r], b)) = Done(r)
    BY <1>1, <1>3, JournalsType
       DEF ApplyTransaction, Joined, Nothing, Committed, PlacesBy, By, WorkDone, Working
  <1> HIDE DEF b
  <1>5. Cardinality(PlacesBy(journal', b)) = Done(r)
    BY <1>4, CommittedPlaces
  <1>6. Done(r) = Whole(r, n0)
    BY <1>1, <1>2 DEF Done, Whole, Weight
  <1>7. Committed(r, n0)' = PlacesBy(journal', b)
    BY DEF Committed, PlacesBy, b
  <1>8. Whole(r, n0)' = Whole(r, n0) /\ Calls(r)' = Calls(r)
    BY DEF Whole, Calls
  <1> QED BY <1>2, <1>5, <1>6, <1>7, <1>8 DEF All

LEMMA CommitOutcomes ==
    ASSUME IInv, TypeOK', NEW r \in Requests, Call(r), Commit(r)
    PROVE  \A n \in Nat : Outcome(r, n)'
  <1> SUFFICES ASSUME NEW n \in Nat PROVE Outcome(r, n)'
    OBVIOUS
  <1>1. /\ pc[r] = "commit" /\ pc'[r] = "publish" /\ ApplyTransaction(r)
        /\ UNCHANGED <<body, resp>> /\ Proceed(r) /\ TypeOK
    BY DEF Commit, IInv, TypeOK, Proceed
  <1>2. Outcome(r, n) /\ WorkDone(r)
    BY DEF Call
  <1>3. CASE n = Len(resp[r]) + 1
    <2>1. All(r, n)'
      BY <1>1, <1>3, WholeCommitted
    <2>2. n \notin DOMAIN resp[r]
      BY <1>1, <1>3, CallType
    <2> QED BY <1>1, <1>3, <2>1, <2>2 DEF Outcome
  <1>4. CASE n # Len(resp[r]) + 1
    <2>1. Committed(r, n)' = Committed(r, n)
      BY <1>1, <1>2, <1>4, OthersCommitted DEF By
    <2>2. (All(r, n)' <=> All(r, n)) /\ (Nothing(r, n)' <=> Nothing(r, n))
      BY <1>1, <2>1 DEF All, Nothing, Whole, Calls
    <2> QED BY <1>1, <1>2, <1>4, <2>2 DEF Outcome
  <1> QED BY <1>3, <1>4

LEMMA CommitFailsOutcomes ==
    ASSUME IInv, TypeOK', NEW r \in Requests, Call(r), CommitFails(r)
    PROVE  \A n \in Nat : Outcome(r, n)'
  <1>0. PICK n0 \in Nat : n0 = Len(resp[r]) + 1
    BY CallType DEF IInv
  <1>1. /\ pc[r] = "commit" /\ pc'[r] = "call" /\ "commit" \in Faults
        /\ ApplyTransaction(r) \/ UNCHANGED journal
        /\ UNCHANGED body /\ resp'[r] = Append(resp[r], FALSE) /\ Fail(r) /\ TypeOK
    BY DEF CommitFails, EndCall, IInv, TypeOK, Fail
  <1>2. (\A n \in Nat : Outcome(r, n)) /\ WorkDone(r)
    BY DEF Call
  <1>3. \A n \in Nat \ {n0} : Committed(r, n)' = Committed(r, n)
    BY <1>0, <1>1, <1>2, OthersCommitted DEF By
  <1>4. Nothing(r, n0)' \/ All(r, n0)'
    <2>1. CASE ApplyTransaction(r)
      BY <1>0, <1>1, <2>1, WholeCommitted
    <2>2. CASE UNCHANGED journal
      <3>1. n0 \in Nat /\ n0 \notin DOMAIN resp[r]
        BY <1>0, <1>1, CallType
      <3>2. Nothing(r, n0)
        BY <1>0, <1>1, <1>2, <3>1 DEF Outcome
      <3> QED BY <2>2, <3>2 DEF Nothing, Committed
    <2> QED BY <1>1, <2>1, <2>2
  <1> QED BY <1>0, <1>1, <1>2, <1>3, <1>4, Answered

\* Answers that are given without a commit.
LEMMA AnswerOutcomes ==
    ASSUME IInv, NEW r \in Requests, Call(r), Publish(r) \/ PublishFails(r) \/ Unwind(r)
    PROVE  \A n \in Nat : Outcome(r, n)'
  <1>0. PICK n0 \in Nat : n0 = Len(resp[r]) + 1
    BY CallType DEF IInv
  <1>1. TypeOK /\ n0 \in Nat /\ n0 \notin DOMAIN resp[r] /\ \A n \in Nat : Outcome(r, n)
    BY <1>0, CallType DEF IInv, Call
  <1>2. /\ UNCHANGED <<body, journal>> /\ pc'[r] = "call"
    BY <1>1 DEF Publish, PublishFails, Unwind, EndCall, database, TypeOK
  <1>3. \A n \in Nat : Committed(r, n)' = Committed(r, n)
    BY <1>2 DEF Committed
  <1>4. (All(r, n0)' <=> All(r, n0)) /\ (Nothing(r, n0)' <=> Nothing(r, n0))
    BY <1>2 DEF All, Nothing, Committed, Whole, Calls
  <1>5. CASE Unwind(r)
    <2>1. pc[r] = "unwind" /\ resp'[r] = Append(resp[r], FALSE)
      BY <1>1, <1>5 DEF Unwind, EndCall, TypeOK
    <2>2. Nothing(r, n0)
      BY <1>0, <1>1, <2>1 DEF Outcome
    <2> QED BY <1>0, <1>1, <1>2, <1>3, <1>4, <2>1, <2>2, Answered
  <1>6. CASE Publish(r) \/ PublishFails(r)
    <2>1. pc[r] = "publish" /\ resp'[r] = Append(resp[r], TRUE)
      BY <1>1, <1>6 DEF Publish, PublishFails, EndCall, TypeOK
    <2>2. All(r, n0)
      BY <1>0, <1>1, <2>1 DEF Outcome
    <2> QED BY <1>0, <1>1, <1>2, <1>3, <1>4, <2>1, <2>2, Answered
  <1> QED BY <1>5, <1>6

(***************************************************************************)
(* The request that moves: its work.                                       *)
(***************************************************************************)

LEMMA WorkKept ==
    ASSUME NEW r \in Requests, WorkDone(r), logged'[r] = logged[r], resp'[r] = resp[r],
           pc'[r] \in Working => pc[r] \in Working /\ Done(r)' = Done(r)
    PROVE  WorkDone(r)'
  <1>1. By(r)' = By(r)
    BY DEF By
  <1>2. PlacesBy(logged[r], By(r))' = PlacesBy(logged[r], By(r))
    BY <1>1 DEF PlacesBy
  <1> QED BY <1>1, <1>2 DEF WorkDone

LEMMA WorkOver ==
    ASSUME NEW r \in Requests, pc'[r] \notin Working,
           \A id \in Ids : logged'[r][id] = <<>>
    PROVE  WorkDone(r)'
  BY DEF WorkDone

\* Entering a call, nothing is done.
LEMMA EnterCall ==
    ASSUME IInv, TypeOK', NEW r \in Requests, Call(r), Enter(r)
    PROVE  InCall(r)' /\ WorkDone(r)'
  <1>1. /\ TypeOK /\ Progress(r) /\ Released(r) /\ InCall(r)
    BY DEF IInv, Call
  <1>2. /\ pc[r] = "call" /\ Len(resp[r]) < Len(Calls(r)) /\ session_count[r] = 0
        /\ session_count'[r] = 1 /\ at'[r] = 1 /\ pc'[r] = "item"
        /\ UNCHANGED <<body, resp, agg, logged>>
    BY <1>1 DEF Enter, TypeOK, Progress, database
  <1>3. Calls(r)' = Calls(r) /\ ThisCall(r)' = ThisCall(r) /\ By(r)' = By(r)
    BY <1>2 DEF Calls, ThisCall, By
  <1>4. Len(ThisCall(r)) \in Nat \ {0}
    BY <1>1, <1>2, CallType
  <1>5. InCall(r)'
    BY <1>1, <1>2, <1>3, <1>4 DEF InCall
  <1>6. \A id \in Ids : logged'[r][id] = <<>>
    BY <1>1, <1>2 DEF Released
  <1>7. PlacesBy(logged[r], By(r))' = {}
    BY <1>6 DEF PlacesBy
  <1>8. Done(r)' = 0
    BY <1>2 DEF Done, Weight
  <1> QED BY <1>5, <1>6, <1>7, <1>8, FS_EmptySet DEF WorkDone

\* A save adds its entry.
LEMMA SaveCall ==
    ASSUME IInv, TypeOK', NEW r \in Requests, Call(r), Save(r)
    PROVE  InCall(r)' /\ WorkDone(r)'
  <1> DEFINE e == agg[r].event
  <1>1. /\ TypeOK /\ Progress(r) /\ HandsLegal(r) /\ InCall(r) /\ WorkDone(r)
        /\ body[r].cmd \in Commands
    BY CommandType DEF IInv, Call
  <1>2. /\ pc[r] = "flush" /\ agg[r].id \in Ids /\ InHand(r) \in Entry
        /\ session_count[r] \in {1, 2} /\ at[r] \in Nat \ {0} /\ at[r] <= Len(ThisCall(r))
        /\ session_count[r] = 2 => body[r].cmd = "CREATE"
        /\ e = EventOf(Operation(r)) /\ Len(resp[r]) < Len(Calls(r))
        /\ Len(ThisCall(r)) \in Nat
    BY <1>1, CallType DEF Save, Progress, HandsLegal, InCall, Working, TypeOK
  <1>3. /\ UNCHANGED <<body, resp, agg>>
        /\ session_count'[r] = IF e \in Subscribed THEN 2 ELSE 1
        /\ at'[r] = IF e \in Subscribed THEN at[r] ELSE at[r] + 1
        /\ pc'[r] = CASE e \notin Subscribed -> "item"
                      [] e = "Created"       -> "load"
                      [] OTHER               -> "read"
        /\ logged'[r] = [logged[r] EXCEPT ![agg[r].id] = Append(@, InHand(r))]
    BY <1>1 DEF Save, TypeOK, InHand
  <1>4. Calls(r)' = Calls(r) /\ ThisCall(r)' = ThisCall(r) /\ By(r)' = By(r)
    BY <1>3 DEF Calls, ThisCall, By
  \* What it was, and what comes of it.
  <1>5. \/ e = "Created" /\ body[r].cmd = "CREATE" /\ session_count[r] = 1
        \/ e = "Updated" /\ body[r].cmd = "CREATE" /\ session_count[r] = 2
        \/ e = "Updated" /\ body[r].cmd = "UPDATE" /\ session_count[r] = 1
        \/ e = "Voided" /\ body[r].cmd = "VOID" /\ session_count[r] = 1
        \/ e = "Deleted" /\ body[r].cmd = "DELETE" /\ session_count[r] = 1
    BY <1>1, <1>2 DEF EventOf, Operation, Commands
  <1> HIDE DEF e
  <1>6. InCall(r)' /\ Done(r)' = Done(r) + 1
    BY <1>2, <1>3, <1>4, <1>5 DEF InCall, Done, Weight, Subscribed, Working
  <1>7. WorkDone(r)'
    <2> DEFINE l == logged[r]
               m == logged'[r]
               h == InHand(r)
               i == agg[r].id
    <2>1. /\ l \in Journals /\ m \in Journals /\ i \in Ids /\ h \in Entry
          /\ m = [l EXCEPT ![i] = Append(@, h)] /\ h.by = By(r)
          /\ IsFiniteSet(PlacesBy(l, h.by)) /\ Cardinality(PlacesBy(l, h.by)) = Done(r)
          /\ \A id \in Ids : \A k \in DOMAIN l[id] : l[id][k].by = h.by
      BY <1>1, <1>2, <1>3 DEF TypeOK, Journals, WorkDone, InHand, Working
    <2>2. logged'[r] = m /\ By(r)' = h.by
      BY <1>4, <2>1
    <2> HIDE DEF l, m, h, i
    <2>3. /\ IsFiniteSet(PlacesBy(m, h.by))
          /\ Cardinality(PlacesBy(m, h.by)) = Cardinality(PlacesBy(l, h.by)) + 1
      BY <2>1, OneMorePlace
    <2>4. ASSUME NEW id \in Ids, NEW k \in DOMAIN m[id] PROVE m[id][k].by = h.by
      <3>1. l[id] \in Seq(Entry) /\ l[i] \in Seq(Entry)
        BY <2>1 DEF Journals
      <3>2. CASE id # i
        BY <2>1, <3>2 DEF Journals
      <3>3. CASE id = i
        <4>1. m[id] = Append(l[i], h)
          BY <2>1, <3>3 DEF Journals
        <4>2. k \in 1 .. Len(l[i]) + 1 /\ Len(l[i]) \in Nat /\ DOMAIN l[i] = 1 .. Len(l[i])
          BY <2>1, <3>1, <4>1, AppendProperties, LenProperties
        <4>3. CASE k \in 1 .. Len(l[i])
          BY <2>1, <3>1, <4>1, <4>2, <4>3, AppendProperties
        <4>4. CASE k = Len(l[i]) + 1
          BY <2>1, <3>1, <4>1, <4>4, AppendProperties
        <4> QED BY <4>2, <4>3, <4>4
      <3> QED BY <3>2, <3>3
    <2> QED BY <1>6, <2>1, <2>2, <2>3, <2>4 DEF WorkDone
  <1> QED BY <1>6, <1>7

\* Beginning an item, or the commit.
LEMMA BeginCall ==
    ASSUME IInv, TypeOK', NEW r \in Requests, Call(r),
           BeginCreate(r) \/ BeginLoad(r) \/ BeginCommit(r)
    PROVE  InCall(r)' /\ WorkDone(r)'
  <1>1. TypeOK /\ Progress(r) /\ InCall(r) /\ WorkDone(r)
    BY DEF IInv, Call
  <1>2. /\ pc[r] = "item" /\ session_count[r] = 1 /\ pc'[r] \in {"get", "load", "commit"}
        /\ UNCHANGED <<body, resp, at, session_count, logged>>
    BY <1>1 DEF BeginCreate, BeginLoad, BeginCommit, TypeOK, Progress, database
  <1>3. /\ Calls(r)' = Calls(r) /\ ThisCall(r)' = ThisCall(r) /\ Done(r)' = Done(r)
        /\ Operation(r)' = body[r].cmd
    BY <1>2 DEF Calls, ThisCall, Done, Weight, Operation
  <1>4. pc'[r] = "get" => body[r].cmd = "CREATE" /\ agg'[r].event = "Created"
    BY <1>1 DEF BeginCreate, BeginLoad, BeginCommit, TypeOK
  <1>5. pc'[r] = "commit" => at[r] > Len(ThisCall(r))
    BY <1>1 DEF BeginCreate, BeginLoad, BeginCommit, TypeOK
  <1>6. at[r] \in Nat /\ Len(ThisCall(r)) \in Nat
    BY <1>1, <1>2, CallType DEF TypeOK, InCall, Working
  <1>7. InCall(r)'
    BY <1>1, <1>2, <1>3, <1>4, <1>5, <1>6 DEF InCall, Working, EventOf
  <1>8. WorkDone(r)'
    BY <1>1, <1>2, <1>3, WorkKept DEF Working
  <1> QED BY <1>7, <1>8

\* Loading and looking up.
LEMMA LoadCall ==
    ASSUME IInv, TypeOK', NEW r \in Requests, Call(r), Load(r) \/ GetModel(r)
    PROVE  InCall(r)' /\ WorkDone(r)'
  <1>1. TypeOK /\ Progress(r) /\ InCall(r) /\ WorkDone(r)
    BY DEF IInv, Call
  <1>2. /\ pc[r] \in {"load", "get"} /\ pc'[r] \in {"get", "flush"}
        /\ UNCHANGED <<body, resp, at, session_count, logged>>
    BY <1>1 DEF Load, GetModel, TypeOK, database
  <1>3. /\ Calls(r)' = Calls(r) /\ ThisCall(r)' = ThisCall(r) /\ Done(r)' = Done(r)
        /\ Operation(r)' = Operation(r)
    BY <1>2 DEF Calls, ThisCall, Done, Weight, Operation
  <1>4. agg'[r].event = EventOf(Operation(r))
    <2>1. CASE Load(r)
      BY <1>1, <2>1 DEF Load, TypeOK
    <2>2. CASE GetModel(r)
      BY <1>1, <2>2 DEF GetModel, InCall
    <2> QED BY <2>1, <2>2
  <1>5. InCall(r)'
    BY <1>1, <1>2, <1>3, <1>4 DEF InCall, Working
  <1>6. WorkDone(r)'
    BY <1>1, <1>2, <1>3, WorkKept DEF Working
  <1> QED BY <1>5, <1>6

\* The handler of a voiding ends its item.
LEMMA ReadCall ==
    ASSUME IInv, TypeOK', NEW r \in Requests, Call(r), ReadVoided(r)
    PROVE  InCall(r)' /\ WorkDone(r)'
  <1>1. TypeOK /\ Progress(r) /\ InCall(r) /\ WorkDone(r)
    BY DEF IInv, Call
  <1>2. /\ pc[r] = "read" /\ pc'[r] = "item" /\ session_count[r] = 2 /\ session_count'[r] = 1
        /\ at'[r] = at[r] + 1 /\ at[r] \in Nat /\ at[r] <= Len(ThisCall(r))
        /\ UNCHANGED <<body, resp, logged>> /\ body[r].cmd = "VOID"
    BY <1>1 DEF ReadVoided, LeaveScope, TypeOK, Progress, InCall, database
  <1>3. Calls(r)' = Calls(r) /\ ThisCall(r)' = ThisCall(r) /\ Len(ThisCall(r)) \in Nat
    BY <1>1, <1>2, CallType DEF Calls, ThisCall, InCall, Working
  <1>4. Done(r)' = Done(r)
    BY <1>2 DEF Done, Weight
  <1>5. InCall(r)'
    BY <1>1, <1>2, <1>3 DEF InCall, Working
  <1>6. WorkDone(r)'
    BY <1>1, <1>2, <1>4, WorkKept DEF Working
  <1> QED BY <1>5, <1>6

\* Giving up: the work is there until it is rolled back.
LEMMA RefusedCall ==
    ASSUME IInv, TypeOK', NEW r \in Requests, Call(r),
           LoadRefused(r) \/ LoadMissing(r) \/ StatementFails(r) \/ DeadlockVictim(r)
    PROVE  InCall(r)' /\ WorkDone(r)'
  <1>1. TypeOK /\ InCall(r) /\ WorkDone(r)
    BY DEF IInv, Call
  <1>2. /\ pc[r] \in {"load", "get", "flush", "read"} /\ pc'[r] = "unwind"
        /\ UNCHANGED <<body, resp, logged>>
    BY <1>1 DEF LoadRefused, LoadMissing, StatementFails, DeadlockVictim, Deadlocked, WaitsFor,
                TypeOK, database
  <1>3. Calls(r)' = Calls(r)
    BY <1>2 DEF Calls
  <1>4. InCall(r)'
    BY <1>1, <1>2, <1>3 DEF InCall, Working
  <1>5. WorkDone(r)'
    BY <1>1, <1>2, WorkKept DEF Working
  <1> QED BY <1>4, <1>5

\* The end of a transaction, of an answer and of a request: no work is left.
LEMMA OverCall ==
    ASSUME IInv, TypeOK', NEW r \in Requests, Call(r),
           \/ Commit(r) \/ CommitFails(r) \/ Unwind(r) \/ Crash(r)
           \/ Publish(r) \/ PublishFails(r) \/ Finish(r)
    PROVE  InCall(r)' /\ WorkDone(r)'
  <1>1. TypeOK /\ Released(r) /\ InCall(r)
    BY DEF IInv, Call
  <1>2. UNCHANGED body /\ Calls(r)' = Calls(r)
    BY DEF Commit, CommitFails, Unwind, Crash, Publish, PublishFails, Finish, Calls
  <1>3. \A id \in Ids : logged'[r][id] = <<>>
    <2>1. CASE Commit(r) \/ CommitFails(r) \/ Unwind(r) \/ Crash(r)
      <3>1. EndTransaction(r)
        BY <2>1 DEF Commit, CommitFails, Unwind, Crash
      <3> QED BY <1>1, <3>1 DEF EndTransaction, TypeOK
    <2>2. CASE Publish(r) \/ PublishFails(r) \/ Finish(r)
      <3>1. logged' = logged
        BY <2>2 DEF Publish, PublishFails, Finish, database
      <3>2. pc[r] \in {"publish", "call"}
        BY <2>2 DEF Publish, PublishFails, Finish
      <3> QED BY <1>1, <3>1, <3>2 DEF Released
    <2> QED BY <2>1, <2>2
  <1>4. /\ pc'[r] \in {"publish", "call", "done", "dead"}
        /\ pc'[r] = "publish" => pc[r] = "commit"
    BY <1>1 DEF Commit, CommitFails, Unwind, Crash, Publish, PublishFails, Finish, EndCall, TypeOK
  <1>5. WorkDone(r)'
    BY <1>3, <1>4, WorkOver DEF Working
  <1>6. CASE resp'[r] = resp[r]
    <2>1. Len(resp'[r]) <= Len(Calls(r)) /\ (pc'[r] = "publish" => Len(resp'[r]) < Len(Calls(r)))
      BY <1>1, <1>4, <1>6 DEF InCall, Working
    <2> QED BY <1>2, <1>4, <1>5, <2>1 DEF InCall, Working
  <1>7. CASE \E ok \in BOOLEAN : resp'[r] = Append(resp[r], ok) /\ pc'[r] = "call"
                                 /\ pc[r] \in {"commit", "unwind", "publish"}
    <2>1. PICK ok \in BOOLEAN : resp'[r] = Append(resp[r], ok)
      BY <1>7
    <2>2. resp[r] \in Seq(BOOLEAN) /\ Len(Calls(r)) \in Nat /\ Len(resp[r]) \in Nat
      BY <1>1, CallType DEF TypeOK
    <2>3. Len(resp'[r]) = Len(resp[r]) + 1
      BY <2>1, <2>2, AppendProperties
    <2>4. Len(resp[r]) < Len(Calls(r))
      BY <1>1, <1>7 DEF InCall, Working
    <2>5. Len(resp'[r]) <= Len(Calls(r))
      BY <2>2, <2>3, <2>4
    <2>6. pc'[r] = "call"
      BY <1>7
    <2> QED BY <1>2, <1>5, <2>5, <2>6 DEF InCall, Working
  <1>8. \/ resp'[r] = resp[r]
        \/ \E ok \in BOOLEAN : resp'[r] = Append(resp[r], ok) /\ pc'[r] = "call"
                               /\ pc[r] \in {"commit", "unwind", "publish"}
    BY <1>1 DEF Commit, CommitFails, Unwind, Crash, Publish, PublishFails, Finish, EndCall, TypeOK
  <1> QED BY <1>5, <1>6, <1>7, <1>8

(***************************************************************************)
(* Every step.                                                             *)
(***************************************************************************)

LEMMA OwnCall ==
    ASSUME IInv, TypeOK', NEW r \in Requests, Call(r), Proceed(r) \/ Fail(r)
    PROVE  Call(r)'
  <1>1. InCall(r)' /\ WorkDone(r)'
    BY EnterCall, SaveCall, BeginCall, LoadCall, ReadCall, RefusedCall, OverCall
       DEF Proceed, Fail
  <1>2. CASE Commit(r)
    BY <1>1, <1>2, CommitOutcomes DEF Call
  <1>3. CASE CommitFails(r)
    BY <1>1, <1>3, CommitFailsOutcomes DEF Call
  <1>4. CASE Publish(r) \/ PublishFails(r) \/ Unwind(r)
    BY <1>1, <1>4, AnswerOutcomes DEF Call
  <1>5. CASE \/ Enter(r) \/ Finish(r) \/ BeginCreate(r) \/ BeginLoad(r) \/ BeginCommit(r)
             \/ Load(r) \/ LoadRefused(r) \/ LoadMissing(r) \/ GetModel(r) \/ Save(r)
             \/ ReadVoided(r) \/ StatementFails(r) \/ DeadlockVictim(r) \/ Crash(r)
    <2>1. TypeOK /\ \A n \in Nat : Outcome(r, n)
      BY DEF IInv, Call
    <2>2. body'[r] = body[r] /\ resp'[r] = resp[r] /\ UNCHANGED journal
      BY <1>5 DEF Enter, Finish, BeginCreate, BeginLoad, BeginCommit, Load, LoadRefused,
           LoadMissing, GetModel, Save, ReadVoided, StatementFails, DeadlockVictim, Crash, database
    <2>3. \/ pc'[r] = "dead"
          \/ pc[r] \notin {"publish", "dead"} /\ pc'[r] \notin {"publish", "dead"}
      BY <1>5, <2>1 DEF Enter, Finish, BeginCreate, BeginLoad, BeginCommit, Load, LoadRefused,
           LoadMissing, GetModel, Save, ReadVoided, StatementFails, DeadlockVictim, Deadlocked,
           WaitsFor, Crash, TypeOK
    <2>4. \A n \in Nat : Outcome(r, n)'
      BY <2>1, <2>2, <2>3, OutcomesKept
    <2> QED BY <1>1, <2>4 DEF Call
  <1> QED BY <1>2, <1>3, <1>4, <1>5 DEF Proceed, Fail

LEMMA CallsStep ==
    ASSUME CallInv, IInv', [Next]_vars
    PROVE  CallInv'
  <1>0. IInv /\ TypeOK'
    BY DEF CallInv, IInv
  <1>1. ASSUME NEW r \in Requests, Proceed(r) \/ Fail(r), NEW q \in Requests PROVE Call(q)'
    <2>1. Call(r) /\ Call(q) /\ WorkDone(r)
      BY DEF CallInv, Call
    <2>2. CASE q = r
      BY <1>0, <1>1, <2>1, <2>2, OwnCall
    <2>3. CASE q # r
      BY <1>0, <1>1, <2>1, <2>3, OthersCalls
    <2> QED BY <2>2, <2>3
  <1>2. ASSUME UNCHANGED vars, NEW q \in Requests PROVE Call(q)'
    <2>1. UNCHANGED <<pc, body, resp, at, session_count, agg, logged, journal>>
      BY <1>2 DEF vars, coroutine, database
    <2>2. InCall(q)' <=> InCall(q)
      BY <2>1 DEF InCall, Calls, ThisCall, Operation
    <2>3. WorkDone(q)' <=> WorkDone(q)
      BY <2>1 DEF WorkDone, By, PlacesBy, Done, Weight
    <2>4. \A n : Outcome(q, n)' <=> Outcome(q, n)
      BY <2>1 DEF Outcome, All, Nothing, Committed, Whole, Calls
    <2> QED BY <2>2, <2>3, <2>4 DEF CallInv, Call
  <1> QED BY <1>1, <1>2 DEF CallInv, Next, AllOver

LEMMA CallsInit == IInv /\ Init => CallInv
  <1> SUFFICES ASSUME IInv, Init, NEW r \in Requests PROVE Call(r)
    BY DEF CallInv
  <1>1. TypeOK
    BY DEF IInv
  <1>2. /\ pc[r] = "call" /\ resp[r] = <<>> /\ \A id \in Ids : logged[r][id] = <<>>
        /\ journal = [id \in Ids |-> IF id \in DOMAIN Seeds THEN SeedEntries(id) ELSE <<>>]
    BY DEF Init
  <1>3. InCall(r)
    BY <1>1, <1>2, CallType DEF InCall, Working
  <1>4. WorkDone(r)
    BY <1>2 DEF WorkDone, Working
  <1>5. ASSUME NEW n \in Nat PROVE Nothing(r, n)
    <2>1. ASSUME NEW id \in Ids, NEW k \in DOMAIN journal[id]
          PROVE  journal[id][k].by # <<r, n>>
      <3>1. journal[id] = IF id \in DOMAIN Seeds THEN SeedEntries(id) ELSE <<>>
        BY <1>2
      <3>2. id \in DOMAIN Seeds /\ k \in {1, 2}
        BY <2>1, <3>1 DEF SeedEntries
      <3>3. journal[id][k].by = <<None, 0>>
        BY <3>1, <3>2 DEF SeedEntries
      <3> QED BY <3>3, NoneAssumption
    <2> QED BY <2>1 DEF Nothing, Committed
  <1>6. \A n \in Nat : Outcome(r, n)
    BY <1>2, <1>5 DEF Outcome
  <1> QED BY <1>3, <1>4, <1>6 DEF Call

\* The database has of every call what its answer, or its stage, says.
THEOREM CallsInvariant == Spec => []CallInv
  BY CallsInit, CallsStep, Invariant, PTL DEF Spec

\* A controller call is one transaction for every batch, fault and
\* interleaving: everything its items and their event handlers wrote, or
\* nothing, and everything once it is answered with success.
THEOREM CallsAlwaysAtomic == Spec => []CallsAreAtomic
  <1>1. ASSUME CallInv PROVE CallsAreAtomic
    <2> SUFFICES ASSUME NEW r \in Requests, NEW n \in DOMAIN Calls(r)
                 PROVE  \/ Cardinality(Committed(r, n)) = Whole(r, n)
                        \/ Committed(r, n) = {} /\ ~(n \in DOMAIN resp[r] /\ resp[r][n])
      BY DEF CallsAreAtomic
    <2>1. n \in Nat
      BY <1>1, CallType DEF CallInv, IInv
    <2>2. Outcome(r, n)
      BY <1>1, <2>1 DEF CallInv, Call
    <2> QED BY <2>2, Zenon DEF Outcome, All, Nothing
  <1> QED BY <1>1, CallsInvariant, PTL

\* An answer is true: success means that the call is stored, failure that
\* nothing is, unless the commit itself failed.
THEOREM AnswersAlwaysTrue == Spec => []AnswersAreTrue
  <1>1. ASSUME CallInv PROVE AnswersAreTrue
    <2> SUFFICES ASSUME NEW r \in Requests, NEW n \in DOMAIN resp[r]
                 PROVE  /\ resp[r][n] => Committed(r, n) # {}
                        /\ ~resp[r][n] /\ "commit" \notin Faults => Committed(r, n) = {}
      BY DEF AnswersAreTrue
    <2>1. TypeOK /\ n \in Nat
      BY <1>1, CallType DEF CallInv, IInv
    <2>2. Outcome(r, n)
      BY <1>1, <2>1 DEF CallInv, Call
    <2>3. ASSUME All(r, n) PROVE Committed(r, n) # {}
      <3>1. Len(Calls(r)[n]) \in Nat \ {0}
        BY <2>1, <2>3, CallType DEF All
      <3>2. Whole(r, n) # 0
        <4> DEFINE m == Len(Calls(r)[n])
        <4>1. m \in Nat \ {0} /\ Whole(r, n) \in {m * 2, m * 1}
          BY <3>1 DEF Whole
        <4> HIDE DEF m
        <4> QED BY <4>1
      <3>3. Cardinality({}) = 0
        BY FS_EmptySet
      <3>4. Cardinality(Committed(r, n)) # 0
        BY <2>3, <3>2 DEF All
      <3> QED BY <3>3, <3>4, Zenon
    <2> QED BY <2>2, <2>3, Zenon DEF Outcome, Nothing
  <1> QED BY <1>1, CallsInvariant, PTL

(***************************************************************************)
(* Announcements.                                                          *)
(***************************************************************************)

\* The exchange has a message with id.
Told(id) == \E m \in DOMAIN broker : \E k \in DOMAIN broker[m] : broker[m][k] = id

\* r is to announce id: it is queued, or its handler is about to.
Claims(r, id) ==
    \/ \E k \in DOMAIN msgs[r] : msgs[r][k] = id
    \/ pc[r] = "read" /\ agg[r].id = id

\* A request that voids has queued the items it is done with, others nothing.
Queue(r) ==
    /\ IF body[r].cmd = "VOID" /\ pc[r] \in Working \cup {"publish"}
       THEN /\ Len(msgs[r]) = at[r] - 1
            /\ \A k \in 1 .. at[r] - 1 : msgs[r][k] = ThisCall(r)[k].id
       ELSE pc[r] # "unwind" => msgs[r] = <<>>
    /\ pc[r] = "publish" => at[r] = Len(ThisCall(r)) + 1
    /\ body[r].cmd = "VOID" /\ pc[r] \in {"load", "get", "flush", "read"} =>
           agg[r].id = ThisItem(r).id
    /\ pc[r] = "read" =>
        /\ logged[r][agg[r].id] # <<>>
        /\ written[r][agg[r].id] # None
        /\ written[r][agg[r].id].status = "VOIDED"

\* Nothing is queued twice, by one request or by two, or once it is sent.
Distinct(r) ==
    /\ \A k, l \in DOMAIN msgs[r] : msgs[r][k] = msgs[r][l] => k = l
    /\ pc[r] = "read" => \A k \in DOMAIN msgs[r] : msgs[r][k] # agg[r].id

Apart == \A r \in Requests : \A q \in Requests \ {r} : \A id \in Ids :
            ~(Claims(q, id) /\ Claims(r, id))

Untold == \A r \in Requests : \A id \in Ids : Claims(r, id) => ~Told(id)

ToldOnce ==
    \A m, n \in DOMAIN broker : \A k \in DOMAIN broker[m], l \in DOMAIN broker[n] :
        broker[m][k] = broker[n][l] => m = n /\ k = l

\* What is answered with success is told.
Kept(r) ==
    body[r].cmd = "VOID" => \A n \in DOMAIN resp[r] :
        resp[r][n] => \A k \in DOMAIN Calls(r)[n] : Told(Calls(r)[n][k].id)

Announcing ==
    /\ Apart /\ Untold /\ ToldOnce
    /\ \A r \in Requests : Queue(r) /\ Distinct(r) /\ Kept(r)

\* A voided aggregate is not voided again.
LEMMA VoidedOnce ==
    ASSUME NEW j \in Seq(Entry), NEW e \in Entry, e.event = "Voided",
           Ledger!LegalJournal(Append(j, e)), NEW n \in 1 .. Len(j)
    PROVE  j[n].event # "Voided" /\ e.row.status = "VOIDED"
  <1> DEFINE k == Append(j, e)
             l == Len(j) + 1
  <1>1. /\ l \in Nat /\ Len(k) = l /\ k[l] = e /\ \A i \in 1 .. Len(j) : k[i] = j[i]
        /\ Len(j) \in Nat /\ l = Len(j) + 1
    BY AppendProperties, LenProperties
  <1>2. ASSUME NEW i \in 1 .. Len(j) PROVE Ledger!Follows(k[i], k[i+1])
    <2>1. i + 1 \in 1 .. l /\ i + 1 # 1 /\ (i + 1) - 1 = i
      BY <1>1
    <2> QED BY <1>1, <2>1 DEF Ledger!LegalJournal
  <1>4. Ledger!Birth(k[1])
    <2>1. 1 \in 1 .. Len(k)
      BY <1>1
    <2> QED BY <2>1 DEF Ledger!LegalJournal
  <1> HIDE DEF k, l
  <1>5. e.row.status = "VOIDED"
    <2>1. Ledger!Follows(k[Len(j)], k[Len(j) + 1])
      BY <1>1, <1>2
    <2>2. Ledger!Follows(k[Len(j)], e)
      BY <1>1, <2>1
    <2> QED BY <2>2 DEF Ledger!Follows
  <1>6. ASSUME j[n].event = "Voided" PROVE FALSE
    <2>1. k[n] = j[n] /\ n # 1
      BY <1>1, <1>4, <1>6 DEF Ledger!Birth
    <2>2. k[n].row.status = "VOIDED"
      <3>1. n - 1 \in 1 .. Len(j) /\ (n - 1) + 1 = n
        BY <1>1, <2>1
      <3>2. Ledger!Follows(k[n - 1], k[n])
        BY <1>2, <3>1
      <3> QED BY <1>6, <2>1, <3>2 DEF Ledger!Follows
    <2>3. k[n + 1].event = "Deleted"
      BY <1>2, <2>2 DEF Ledger!Follows
    <2>4. n + 1 \in 1 .. Len(j)
      BY <1>1, <2>3
    <2>5. Ledger!Follows(k[n + 1], k[(n + 1) + 1])
      BY <1>2, <2>4
    <2> QED BY <2>3, <2>5 DEF Ledger!Follows
  <1> QED BY <1>5, <1>6

\* Nobody claims, and nobody was told of, what is about to be voided.
LEMMA Fresh ==
    ASSUME AInv, NEW r \in Requests, Save(r), agg[r].event = "Voided",
           NEW id \in Ids, id = agg[r].id
    PROVE  /\ ~Told(id) /\ \A q \in Requests : ~Claims(q, id)
           /\ agg[r].row.status = "VOIDED"
  <1>1. /\ TypeOK /\ HandsLegal(r) /\ WritersHoldTheLock /\ AnnouncedWasVoided
        /\ \A q \in Requests : Queued(q)
    BY DEF AInv, IInv
  <1>2. /\ pc[r] = "flush" /\ InHand(r) \in Entry /\ lock[id] = r /\ InHand(r).event = "Voided"
        /\ InHand(r).row = agg[r].row
        /\ Ledger!LegalJournal(Append(Line(r, id), InHand(r)))
    BY <1>1 DEF Save, HandsLegal, InHand
  <1>3. \A q \in Requests : journal[id] \in Seq(Entry) /\ logged[q][id] \in Seq(Entry)
                            /\ Line(q, id) \in Seq(Entry)
    BY <1>1 DEF TypeOK, Line
  <1>4. ~Voiding(r, id)
    BY <1>2, <1>3, VoidedOnce DEF Voiding
  <1>5. ~WasVoided(id)
    <2> DEFINE j == journal[id]
               k == Line(r, id)
    <2>1. j \in Seq(Entry) /\ k \in Seq(Entry) /\ Ledger!Extends(j, k)
      BY <1>3, ExtendsConcat DEF Line
    <2>2. DOMAIN j = 1 .. Len(j)
      BY <2>1
    <2> HIDE DEF j, k
    <2>3. ~\E n \in 1 .. Len(j) : j[n].event = "Voided"
      BY <1>4, <2>1, VoidingGrows DEF Voiding, k
    <2> QED BY <2>2, <2>3 DEF WasVoided, j
  <1>6. ~Told(id)
    BY <1>1, <1>5 DEF Told, AnnouncedWasVoided
  <1>7. ASSUME NEW q \in Requests, Claims(q, id) PROVE FALSE
    <2>1. Voiding(q, id)
      <3>1. msgs[q] \in Seq(Ids) /\ DOMAIN msgs[q] = 1 .. Len(msgs[q])
        BY <1>1 DEF TypeOK
      <3> QED BY <1>1, <1>7, <3>1 DEF Claims, Queued
    <2>2. q # r
      BY <1>4, <2>1
    <2>3. logged[q][id] = <<>>
      BY <1>1, <1>2, <2>2 DEF WritersHoldTheLock
    <2>4. Line(q, id) = journal[id]
      BY <1>3, <2>3, ConcatNothing DEF Line
    <2> QED BY <1>3, <1>5, <2>1, <2>4 DEF Voiding, WasVoided
  <1>8. agg[r].row.status = "VOIDED"
    <2> DEFINE j == Line(r, id)
               e == InHand(r)
    <2>1. j \in Seq(Entry) /\ e \in Entry /\ e.event = "Voided" /\ e.row = agg[r].row
          /\ Ledger!LegalJournal(Append(j, e))
      BY <1>2, <1>3
    <2> HIDE DEF j, e
    <2>2. j # <<>>
      <3>1. CASE j = <<>>
        <4>1. Ledger!Birth(e)
          BY <2>1, <3>1 DEF Ledger!LegalJournal
        <4> QED BY <2>1, <4>1 DEF Ledger!Birth
      <3> QED BY <3>1
    <2>3. 1 \in 1 .. Len(j)
      BY <2>1, <2>2
    <2> QED BY <2>1, <2>3, VoidedOnce
  <1> QED BY <1>6, <1>7, <1>8

\* What the others are to announce does not change.
LEMMA OthersClaims ==
    ASSUME IInv, NEW r \in Requests, Proceed(r) \/ Fail(r), NEW q \in Requests \ {r}
    PROVE  msgs'[q] = msgs[q] /\ \A id : Claims(q, id)' <=> Claims(q, id)
  <1>1. /\ pc'[q] = pc[q] /\ agg'[q] = agg[q]
    BY OthersPrivate DEF Private
  <1>2. msgs'[q] = msgs[q]
    BY DEF IInv, TypeOK, Proceed, Fail, Enter, Finish, BeginCreate, BeginLoad, BeginCommit, Load,
           LoadRefused, LoadMissing, GetModel, Save, ReadVoided, Commit, Publish, Unwind,
           StatementFails, DeadlockVictim, CommitFails, PublishFails, Crash
  <1> QED BY <1>1, <1>2 DEF Claims

LEMMA OthersQueue ==
    ASSUME IInv, NEW r \in Requests, Proceed(r) \/ Fail(r), NEW q \in Requests \ {r},
           Queue(q), Distinct(q)
    PROVE  Queue(q)' /\ Distinct(q)'
  <1>1. /\ pc'[q] = pc[q] /\ body'[q] = body[q] /\ resp'[q] = resp[q] /\ at'[q] = at[q]
        /\ agg'[q] = agg[q] /\ logged'[q] = logged[q] /\ written'[q] = written[q]
        /\ msgs'[q] = msgs[q]
    BY OthersPrivate, OthersClaims DEF Private
  <1>2. ThisCall(q)' = ThisCall(q) /\ ThisItem(q)' = ThisItem(q)
    BY <1>1 DEF ThisCall, ThisItem, Calls
  <1> QED BY <1>1, <1>2 DEF Queue, Distinct

\* Steps that leave the queue alone, and its owner off the read of a handler.
Unqueued(r) ==
    \/ Enter(r) \/ Finish(r) \/ BeginCreate(r) \/ BeginLoad(r) \/ BeginCommit(r)
    \/ Load(r) \/ LoadRefused(r) \/ LoadMissing(r) \/ GetModel(r)
    \/ StatementFails(r) \/ DeadlockVictim(r) \/ Commit(r)
    \/ (Save(r) /\ agg[r].event # "Voided")

LEMMA UnqueuedStep ==
    ASSUME IInv, NEW r \in Requests, Call(r), Unqueued(r)
    PROVE  msgs' = msgs /\ broker' = broker /\ pc'[r] # "read" /\ resp' = resp /\ body' = body
  <1>1. TypeOK /\ InCall(r) /\ HandsLegal(r)
    BY DEF IInv, Call
  <1>2. msgs' = msgs /\ broker' = broker /\ resp' = resp /\ body' = body
    BY DEF Unqueued, Enter, Finish, BeginCreate, BeginLoad, BeginCommit, Load, LoadRefused,
           LoadMissing, GetModel, Save, StatementFails, DeadlockVictim, Commit
  <1>3. CASE Save(r) /\ agg[r].event # "Voided"
    <2>1. agg[r].event \in EventNames
      BY <1>1, <1>3 DEF Save, HandsLegal, InHand, Entry
    <2> QED BY <1>1, <1>2, <1>3, <2>1 DEF Save, Subscribed, EventNames, TypeOK
  <1>4. CASE \/ Enter(r) \/ Finish(r) \/ BeginCreate(r) \/ BeginLoad(r) \/ BeginCommit(r)
             \/ Load(r) \/ LoadRefused(r) \/ LoadMissing(r) \/ GetModel(r)
             \/ StatementFails(r) \/ DeadlockVictim(r) \/ Commit(r)
    BY <1>1, <1>2, <1>4 DEF Enter, Finish, BeginCreate, BeginLoad, BeginCommit, Load,
        LoadRefused, LoadMissing, GetModel, StatementFails, DeadlockVictim, Commit, TypeOK
  <1> QED BY <1>3, <1>4 DEF Unqueued

LEMMA UnqueuedQueue ==
    ASSUME IInv, TypeOK', NEW r \in Requests, Call(r), InCall(r)', Queue(r), Unqueued(r)
    PROVE  Queue(r)'
  <1>1. TypeOK /\ Progress(r) /\ InCall(r)
    BY DEF IInv, Call
  <1>2. msgs'[r] = msgs[r] /\ pc'[r] # "read" /\ body'[r] = body[r] /\ resp'[r] = resp[r]
    BY UnqueuedStep
  <1>3. ThisCall(r)' = ThisCall(r)
    BY <1>2 DEF ThisCall, Calls
  <1>4. CASE Enter(r)
    <2>1. pc[r] = "call" /\ pc'[r] = "item" /\ at'[r] = 1
      BY <1>1, <1>4 DEF Enter, TypeOK
    <2>2. msgs[r] = <<>>
      BY <2>1 DEF Queue, Working
    <2> QED BY <1>2, <2>1, <2>2 DEF Queue, Working
  <1>5. CASE LoadRefused(r) \/ LoadMissing(r) \/ StatementFails(r) \/ DeadlockVictim(r)
    <2>1. pc'[r] = "unwind"
      BY <1>1, <1>5 DEF LoadRefused, LoadMissing, StatementFails, DeadlockVictim, TypeOK
    <2> QED BY <2>1 DEF Queue, Working
  <1>6. CASE Finish(r)
    <2>1. pc[r] = "call" /\ pc'[r] = "done"
      BY <1>1, <1>6 DEF Finish, TypeOK
    <2> QED BY <1>2, <2>1 DEF Queue, Working
  <1>7. CASE Save(r) /\ agg[r].event # "Voided"
    <2>1. body[r].cmd # "VOID"
      <3>2. agg[r].event = EventOf(Operation(r))
        BY <1>1, <1>7 DEF Save, InCall
      <3>3. session_count[r] = 2 => body[r].cmd = "CREATE"
        BY <1>1, <1>7 DEF Save, InCall
      <3> QED BY <1>7, <3>2, <3>3 DEF Operation, EventOf
    <2>2. pc[r] = "flush" /\ pc'[r] \in {"item", "load", "read"}
      BY <1>1, <1>7 DEF Save, TypeOK
    <2> QED BY <1>2, <2>1, <2>2 DEF Queue, Working
  <1>8. CASE BeginCreate(r) \/ BeginLoad(r) \/ BeginCommit(r) \/ Load(r) \/ GetModel(r) \/ Commit(r)
    <2>1. /\ pc[r] \in Working /\ pc'[r] \in Working \cup {"publish"} /\ at'[r] = at[r]
          /\ pc'[r] = "publish" => pc[r] = "commit"
      BY <1>1, <1>8 DEF BeginCreate, BeginLoad, BeginCommit, Load, GetModel, Commit, TypeOK, Working
    <2>2. pc'[r] = "publish" => at[r] = Len(ThisCall(r)) + 1
      BY <1>1, <2>1 DEF InCall
    <2>3. ThisItem(r)' = ThisItem(r)
      BY <1>3, <2>1 DEF ThisItem
    <2>4. body[r].cmd = "VOID" /\ pc'[r] \in {"load", "get", "flush"} => agg'[r].id = ThisItem(r).id
      <3>1. CASE BeginLoad(r)
        BY <1>1, <3>1 DEF BeginLoad, NoAgg, TypeOK
      <3>2. CASE Load(r) \/ GetModel(r)
        <4>1. pc[r] \in {"load", "get"} /\ agg'[r].id = agg[r].id
          <5>1. CASE GetModel(r)
            BY <1>1, <5>1 DEF GetModel
          <5>2. CASE Load(r)
            <6>1. /\ pc[r] = "load"
                  /\ agg'[r] = [id |-> agg[r].id, event |-> EventOf(Operation(r)),
                                row |-> Operate(Operation(r), View(r, agg[r].id), NewValue(r))]
              BY <1>1, <5>2 DEF Load, TypeOK
            <6> QED BY <6>1
          <5> QED BY <3>2, <5>1, <5>2
        <4> QED BY <4>1 DEF Queue
      <3>3. CASE BeginCreate(r) \/ BeginCommit(r) \/ Commit(r)
        BY <1>1, <3>3 DEF BeginCreate, BeginCommit, Commit, TypeOK
      <3> QED BY <1>8, <3>1, <3>2, <3>3
    <2> QED BY <1>2, <1>3, <2>1, <2>2, <2>3, <2>4 DEF Queue, Working
  <1> QED BY <1>4, <1>5, <1>6, <1>7, <1>8 DEF Unqueued

\* A voiding that is saved.
LEMMA SaveQueue ==
    ASSUME AInv, TypeOK', NEW r \in Requests, Call(r), Queue(r), Distinct(r),
           Save(r), agg[r].event = "Voided"
    PROVE  Queue(r)' /\ Distinct(r)'
  <1>1. TypeOK /\ Progress(r) /\ InCall(r) /\ HandsLegal(r)
    BY DEF AInv, IInv, Call
  <1>2. PICK id \in Ids : id = agg[r].id
    BY <1>1 DEF Save, Progress
  <1>3. ~Claims(r, id) /\ agg[r].row.status = "VOIDED" /\ agg[r].row \in Row
    BY <1>1, <1>2, Fresh DEF Save, HandsLegal, InHand, Entry
  <1>4. /\ pc[r] = "flush" /\ pc'[r] = "read" /\ at'[r] = at[r] /\ msgs' = msgs
        /\ body' = body /\ resp' = resp /\ agg' = agg
    BY <1>1 DEF Save, TypeOK, Subscribed
  <1>5. written'[r][id] = agg[r].row
    BY <1>1, <1>2 DEF Save, TypeOK
  <1>6. logged'[r][id] # <<>>
    <2>1. InHand(r) \in Entry /\ logged[r][id] \in Seq(Entry)
          /\ logged'[r][id] = Append(logged[r][id], InHand(r))
      BY <1>1, <1>2 DEF Save, HandsLegal, TypeOK, InHand
    <2> QED BY <2>1, AppendNotEmpty
  <1>7. ThisCall(r)' = ThisCall(r) /\ ThisItem(r)' = ThisItem(r)
    BY <1>4 DEF ThisCall, ThisItem, Calls
  <1>8. Queue(r)'
    BY <1>2, <1>3, <1>4, <1>5, <1>6, <1>7, NoneIsNoRow DEF Queue, Working
  <1>9. Distinct(r)'
    BY <1>2, <1>3, <1>4 DEF Distinct, Claims
  <1> QED BY <1>8, <1>9

\* The handler queues it.
LEMMA ReadQueue ==
    ASSUME IInv, TypeOK', NEW r \in Requests, Call(r), Queue(r), Distinct(r), ReadVoided(r)
    PROVE  /\ Queue(r)' /\ Distinct(r)'
           /\ \A id : Claims(r, id)' => Claims(r, id)
  <1>1. TypeOK /\ Progress(r) /\ InCall(r)
    BY DEF IInv, Call
  <1>2. /\ pc[r] = "read" /\ pc'[r] = "item" /\ body[r].cmd = "VOID" /\ agg[r].id \in Ids
        /\ at[r] \in Nat \ {0} /\ at'[r] = at[r] + 1 /\ body' = body /\ resp' = resp
    BY <1>1 DEF ReadVoided, TypeOK, Progress, InCall
  <1>3. View(r, agg[r].id).status = "VOIDED"
    BY <1>2 DEF Queue, View
  <1>4. msgs'[r] = Append(msgs[r], agg[r].id)
    BY <1>1, <1>3 DEF ReadVoided, TypeOK
  <1> DEFINE s == msgs[r]
             x == agg[r].id
             t == msgs'[r]
  <1>5. s \in Seq(Ids) /\ x \in Ids /\ t = Append(s, x)
    BY <1>1, <1>2, <1>4 DEF TypeOK
  <1> HIDE DEF s, x, t
  <1>6. /\ Len(s) \in Nat /\ DOMAIN s = 1 .. Len(s) /\ DOMAIN t = 1 .. Len(s) + 1
        /\ Len(t) = Len(s) + 1 /\ t[Len(s) + 1] = x /\ \A k \in 1 .. Len(s) : t[k] = s[k]
    BY <1>5, AppendProperties, LenProperties
  <1>7. /\ Len(s) = at[r] - 1 /\ \A k \in 1 .. at[r] - 1 : s[k] = ThisCall(r)[k].id
        /\ x = ThisCall(r)[at[r]].id
    BY <1>2 DEF Queue, Working, s, x, ThisItem
  <1>8. /\ \A k, l \in DOMAIN s : s[k] = s[l] => k = l
        /\ \A k \in DOMAIN s : s[k] # x
    BY <1>2 DEF Distinct, s, x
  <1>9. Queue(r)'
    <2>1. ThisCall(r)' = ThisCall(r)
      BY <1>2 DEF ThisCall, Calls
    <2>2. Len(t) = at'[r] - 1 /\ \A k \in 1 .. at'[r] - 1 : t[k] = ThisCall(r)[k].id
      <3>1. at'[r] - 1 = at[r] /\ Len(s) + 1 = at[r]
        BY <1>2, <1>7
      <3>2. t[at[r]] = ThisCall(r)[at[r]].id
        BY <1>6, <1>7, <3>1
      <3>3. ASSUME NEW k \in 1 .. at[r], k # at[r] PROVE t[k] = ThisCall(r)[k].id
        <4>1. k \in 1 .. Len(s) /\ k \in 1 .. at[r] - 1
          BY <1>2, <1>6, <3>1, <3>3
        <4> QED BY <1>6, <1>7, <4>1
      <3> QED BY <1>6, <3>1, <3>2, <3>3
    <2> QED BY <1>2, <2>1, <2>2 DEF Queue, Working, t
  <1>10. Distinct(r)'
    <2>1. \A k, l \in DOMAIN t : t[k] = t[l] => k = l
      BY <1>6, <1>8
    <2> QED BY <1>2, <2>1 DEF Distinct, t
  <1>11. ASSUME NEW id, Claims(r, id)' PROVE Claims(r, id)
    <2>1. PICK k \in DOMAIN t : t[k] = id
      BY <1>2, <1>11 DEF Claims, t
    <2>2. CASE k \in DOMAIN s
      BY <1>6, <2>1, <2>2 DEF Claims, s
    <2>3. CASE k \notin DOMAIN s
      BY <1>2, <1>6, <2>1, <2>3 DEF Claims, x
    <2> QED BY <2>2, <2>3
  <1> QED BY <1>9, <1>10, <1>11

\* Sending the queue, or dropping it.
LEMMA EmptyQueue ==
    ASSUME IInv, TypeOK', NEW r \in Requests, Call(r), Publish(r) \/ Unwind(r) \/ Crash(r)
    PROVE  Queue(r)' /\ Distinct(r)' /\ \A id : ~Claims(r, id)'
  <1>1. msgs'[r] = <<>> /\ pc'[r] \in {"call", "dead"}
    BY DEF IInv, TypeOK, Publish, Unwind, Crash, EndCall
  <1> QED BY <1>1 DEF Queue, Distinct, Claims, Working

LEMMA PublishTells ==
    ASSUME IInv, NEW r \in Requests, Publish(r), Distinct(r), Untold, ToldOnce
    PROVE  /\ \A id : Told(id) => Told(id)'
           /\ \A id : Claims(r, id) => Told(id)'
           /\ \A id : Told(id)' => Told(id) \/ Claims(r, id)
           /\ ToldOnce'
  <1> DEFINE b == broker
             s == msgs[r]
             c == broker'
  <1>1. b \in Seq(Seq(Ids)) /\ s \in Seq(Ids) /\ \A k \in DOMAIN s : s[k] \in Ids
    <2>1. b \in Seq(Seq(Ids)) /\ s \in Seq(Ids)
      BY DEF IInv, TypeOK
    <2> HIDE DEF b, s
    <2> QED BY <2>1
  <1>2. c = IF s = <<>> THEN b ELSE Append(b, s)
    BY DEF Publish
  <1>3. CASE s = <<>>
    <2>1. broker' = broker /\ DOMAIN msgs[r] = {} /\ pc[r] = "publish"
      BY <1>2, <1>3 DEF Publish
    <2> QED BY <2>1 DEF Told, ToldOnce, Claims
  <1>4. CASE s # <<>>
    <2>1. \A m \in DOMAIN b, k \in Nat, l \in DOMAIN s : k \in DOMAIN b[m] => b[m][k] # s[l]
      <3> SUFFICES ASSUME NEW m \in DOMAIN b, NEW k \in DOMAIN b[m], NEW l \in DOMAIN s,
                          b[m][k] = s[l]
                   PROVE  FALSE
        OBVIOUS
      <3>1. s[l] \in Ids
        BY <1>1
      <3>2. Claims(r, s[l]) /\ Told(s[l])
        BY DEF Claims, Told
      <3> QED BY <3>1, <3>2 DEF Untold
    <2>2. \A k, l \in DOMAIN s : s[k] = s[l] => k = l
      BY DEF Distinct
    <2>3. \A m, n \in DOMAIN b : \A k \in DOMAIN b[m], l \in DOMAIN b[n] :
              b[m][k] = b[n][l] => m = n /\ k = l
      BY DEF ToldOnce
    <2>4. \A m \in DOMAIN b : DOMAIN b[m] \subseteq Nat
      <3> SUFFICES ASSUME NEW m \in DOMAIN b PROVE DOMAIN b[m] \subseteq Nat
        OBVIOUS
      <3>1. b[m] \in Seq(Ids)
        BY <1>1
      <3> QED BY <3>1, LenProperties
    <2> HIDE DEF b, s, c
    <2>5. c = Append(b, s)
      BY <1>2, <1>4
    <2>6. /\ Len(b) \in Nat /\ DOMAIN b = 1 .. Len(b) /\ DOMAIN c = 1 .. Len(b) + 1
          /\ \A m \in DOMAIN b : c[m] = b[m]
          /\ c[Len(b) + 1] = s
      BY <1>1, <2>5, AppendProperties, LenProperties
    <2>7. /\ DOMAIN c = DOMAIN b \cup {Len(b) + 1} /\ Len(b) + 1 \notin DOMAIN b
      BY <2>6
    <2> DEFINE z == Len(b) + 1
    <2>8. DOMAIN c = DOMAIN b \cup {z} /\ z \notin DOMAIN b /\ c[z] = s
      BY <2>6, <2>7
    <2> HIDE DEF z
    <2>9. ASSUME NEW m \in DOMAIN c, NEW n \in DOMAIN c, NEW k \in DOMAIN c[m],
                 NEW l \in DOMAIN c[n], c[m][k] = c[n][l]
          PROVE  m = n /\ k = l
      <3>1. CASE m \in DOMAIN b /\ n \in DOMAIN b
        BY <2>3, <2>6, <2>9, <3>1
      <3>2. CASE m \in DOMAIN b /\ n = z
        BY <2>1, <2>4, <2>6, <2>8, <2>9, <3>2
      <3>3. CASE m = z /\ n \in DOMAIN b
        BY <2>1, <2>4, <2>6, <2>8, <2>9, <3>3
      <3>4. CASE m = z /\ n = z
        BY <2>2, <2>8, <2>9, <3>4
      <3> QED BY <2>8, <3>1, <3>2, <3>3, <3>4
    <2>10. ToldOnce'
      BY <2>9 DEF ToldOnce, c
    <2>11. ASSUME NEW id, Told(id) PROVE Told(id)'
      <3>1. PICK m \in DOMAIN b : \E k \in DOMAIN b[m] : b[m][k] = id
        BY <2>11 DEF Told, b
      <3>2. m \in DOMAIN c /\ c[m] = b[m]
        BY <2>6, <2>8
      <3> QED BY <3>1, <3>2 DEF Told, c
    <2>12. ASSUME NEW id, Claims(r, id) PROVE Told(id)'
      <3>1. PICK k \in DOMAIN s : s[k] = id
        BY <2>12 DEF Claims, Publish, s
      <3>2. z \in DOMAIN c /\ k \in DOMAIN c[z] /\ c[z][k] = id
        BY <2>8, <3>1
      <3> QED BY <3>2 DEF Told, c
    <2>13. ASSUME NEW id, Told(id)' PROVE Told(id) \/ Claims(r, id)
      <3>1. PICK m \in DOMAIN c : \E k \in DOMAIN c[m] : c[m][k] = id
        BY <2>13 DEF Told, c
      <3>2. CASE m \in DOMAIN b
        BY <2>6, <3>1, <3>2 DEF Told, b
      <3>3. CASE m = z
        BY <2>8, <3>1, <3>3 DEF Claims, s
      <3> QED BY <2>8, <3>1, <3>2, <3>3
    <2> QED BY <2>10, <2>11, <2>12, <2>13 DEF s
  <1> QED BY <1>3, <1>4

\* What every step does to the queues and the exchange.
LEMMA ClaimsStep ==
    ASSUME AInv, TypeOK', "commit" \notin Faults, "publish" \notin Faults, Announcing,
           NEW r \in Requests, Proceed(r) \/ Fail(r), Call(r), InCall(r)'
    PROVE  /\ Queue(r)' /\ Distinct(r)' /\ ToldOnce'
           /\ \A id : Told(id) => Told(id)'
           /\ Publish(r) => \A id : Claims(r, id) => Told(id)'
           /\ \/ broker' = broker /\ \A id : Claims(r, id)' => Claims(r, id)
              \/ broker' = broker /\ \E new \in Ids :
                    /\ ~Told(new) /\ \A q \in Requests : ~Claims(q, new)
                    /\ \A id : Claims(r, id)' => Claims(r, id) \/ id = new
              \/ /\ \A id : ~Claims(r, id)'
                 /\ \A id : Told(id)' => Told(id) \/ Claims(r, id)
  <1>1. /\ IInv /\ TypeOK /\ Progress(r) /\ Queue(r) /\ Distinct(r) /\ Untold /\ ToldOnce
    BY DEF AInv, IInv, Announcing
  <1>2. ASSUME broker' = broker
        PROVE  ToldOnce' /\ \A id : Told(id)' <=> Told(id)
    BY <1>1, <1>2 DEF ToldOnce, Told
  <1>3. CASE Publish(r)
    <2>1. Queue(r)' /\ Distinct(r)' /\ \A id : ~Claims(r, id)'
      BY <1>1, <1>3, EmptyQueue
    <2>2. /\ \A id : Told(id) => Told(id)'
          /\ \A id : Claims(r, id) => Told(id)'
          /\ \A id : Told(id)' => Told(id) \/ Claims(r, id)
          /\ ToldOnce'
      BY <1>1, <1>3, PublishTells
    <2> QED BY <2>1, <2>2
  <1>4. CASE Unwind(r) \/ Crash(r)
    <2>1. broker' = broker /\ ~Publish(r)
      BY <1>1, <1>4 DEF Unwind, Crash, Publish, EndCall, TypeOK
    <2>2. Queue(r)' /\ Distinct(r)' /\ \A id : ~Claims(r, id)'
      BY <1>1, <1>4, EmptyQueue
    <2> QED BY <1>2, <2>1, <2>2
  <1>5. CASE Unqueued(r)
    <2>1. msgs' = msgs /\ broker' = broker /\ pc'[r] # "read"
      BY <1>1, <1>5, UnqueuedStep
    <2>2. Queue(r)'
      BY <1>1, <1>5, UnqueuedQueue
    <2>3. Distinct(r)' /\ \A id : Claims(r, id)' => Claims(r, id)
      BY <1>1, <2>1 DEF Distinct, Claims
    <2>4. ~Publish(r)
      BY <1>1, <1>5 DEF Unqueued, Enter, Finish, BeginCreate, BeginLoad, BeginCommit, Load,
          LoadRefused, LoadMissing, GetModel, StatementFails, DeadlockVictim, Deadlocked, WaitsFor,
          Commit, Save, Publish
    <2> QED BY <1>2, <2>1, <2>2, <2>3, <2>4
  <1>6. CASE Save(r) /\ agg[r].event = "Voided"
    <2>1. Queue(r)' /\ Distinct(r)'
      BY <1>1, <1>6, SaveQueue
    <2>2. PICK new \in Ids : new = agg[r].id
      BY <1>1, <1>6 DEF Save, Progress
    <2>3. ~Told(new) /\ \A q \in Requests : ~Claims(q, new)
      BY <1>6, <2>2, Fresh
    <2>4. broker' = broker /\ msgs' = msgs /\ agg' = agg /\ ~Publish(r)
      BY <1>6 DEF Save, Publish
    <2>5. \A id : Claims(r, id)' => Claims(r, id) \/ id = new
      BY <2>2, <2>4 DEF Claims
    <2> QED BY <1>2, <2>1, <2>3, <2>4, <2>5
  <1>7. CASE ReadVoided(r)
    <2>1. Queue(r)' /\ Distinct(r)' /\ \A id : Claims(r, id)' => Claims(r, id)
      BY <1>1, <1>7, ReadQueue
    <2>2. broker' = broker /\ ~Publish(r)
      BY <1>7 DEF ReadVoided, Publish
    <2> QED BY <1>2, <2>1, <2>2
  <1> QED BY <1>3, <1>4, <1>5, <1>6, <1>7 DEF Proceed, Fail, Unqueued, CommitFails, PublishFails

\* What was answered with success stays told, and what is, is.
LEMMA KeptStep ==
    ASSUME IInv, TypeOK', NEW r \in Requests, Proceed(r) \/ Fail(r), "commit" \notin Faults,
           "publish" \notin Faults, InCall(r), Queue(r), Kept(r),
           \A id : Told(id) => Told(id)',
           Publish(r) => \A id : Claims(r, id) => Told(id)'
    PROVE  Kept(r)'
  <1>1. TypeOK /\ body' = body /\ Calls(r)' = Calls(r)
    BY DEF IInv, Proceed, Fail, Enter, Finish, BeginCreate, BeginLoad, BeginCommit, Load,
           LoadRefused, LoadMissing, GetModel, Save, ReadVoided, Commit, Publish, Unwind,
           StatementFails, DeadlockVictim, CommitFails, PublishFails, Crash, Calls
  <1>2. \/ resp'[r] = resp[r]
        \/ resp'[r] = Append(resp[r], FALSE)
        \/ Publish(r) /\ resp'[r] = Append(resp[r], TRUE)
    BY <1>1 DEF Proceed, Fail, Enter, Finish, BeginCreate, BeginLoad, BeginCommit, Load,
           LoadRefused, LoadMissing, GetModel, Save, ReadVoided, Commit, Publish, Unwind,
           StatementFails, DeadlockVictim, CommitFails, PublishFails, Crash, EndCall, TypeOK
  <1> SUFFICES ASSUME body[r].cmd = "VOID", NEW n \in DOMAIN resp'[r], resp'[r][n],
                      NEW k \in DOMAIN Calls(r)[n], NEW id, id = Calls(r)[n][k].id
               PROVE  Told(id)'
    BY <1>1 DEF Kept
  <1>3. CASE n \in DOMAIN resp[r] /\ resp'[r][n] = resp[r][n]
    <2>1. Told(id)
      BY <1>3, Zenon DEF Kept
    <2> QED BY <2>1
  <1>4. CASE ~(n \in DOMAIN resp[r] /\ resp'[r][n] = resp[r][n])
    <2>1. /\ resp[r] \in Seq(BOOLEAN) /\ DOMAIN resp[r] = 1 .. Len(resp[r]) /\ Len(resp[r]) \in Nat
      BY <1>1, LenProperties DEF TypeOK
    <2>2. ASSUME NEW ok \in BOOLEAN, resp'[r] = Append(resp[r], ok)
          PROVE  n = Len(resp[r]) + 1 /\ resp'[r][n] = ok
      <3> DEFINE s == resp[r]
                 t == resp'[r]
      <3>1. s \in Seq(BOOLEAN) /\ t = Append(s, ok) /\ n \in DOMAIN t /\ Len(s) \in Nat
            /\ DOMAIN s = 1 .. Len(s) /\ ~(n \in DOMAIN s /\ t[n] = s[n])
        BY <1>4, <2>1, <2>2
      <3> HIDE DEF s, t
      <3>2. DOMAIN t = 1 .. Len(s) + 1 /\ t[Len(s) + 1] = ok /\ \A i \in 1 .. Len(s) : t[i] = s[i]
        BY <3>1, AppendProperties
      <3>3. n \in 1 .. Len(s) + 1 /\ n \notin 1 .. Len(s)
        BY <3>1, <3>2, Zenon
      <3>4. n = Len(s) + 1
        BY <3>1, <3>3
      <3> QED BY <3>2, <3>4, Zenon DEF s, t
    <2>3. resp'[r] # Append(resp[r], FALSE)
      BY <2>2, Zenon
    <2>4. Publish(r) /\ n = Len(resp[r]) + 1 /\ pc[r] = "publish"
      BY <1>2, <1>4, <2>2, <2>3 DEF Publish
    <2>5. ThisCall(r) = Calls(r)[n] /\ ThisCall(r) \in Seq(Item)
      <3>1. n \in DOMAIN Calls(r) /\ Calls(r) \in Seq(Seq(Item))
        BY <1>1, <2>4, CallType, BodiesAssumption DEF InCall, Calls, Body, TypeOK
      <3> QED BY <2>4, <3>1 DEF ThisCall
    <2>6. /\ Len(msgs[r]) = at[r] - 1 /\ \A l \in 1 .. at[r] - 1 : msgs[r][l] = ThisCall(r)[l].id
          /\ at[r] = Len(ThisCall(r)) + 1
      BY <2>4 DEF Queue
    <2>7. k \in 1 .. Len(ThisCall(r)) /\ Len(ThisCall(r)) \in Nat
      BY <2>5, LenProperties
    <2>8. k \in DOMAIN msgs[r] /\ msgs[r][k] = id
      <3>1. DOMAIN msgs[r] = 1 .. Len(msgs[r])
        BY <1>1, LenProperties DEF TypeOK
      <3> QED BY <2>5, <2>6, <2>7, <3>1
    <2> QED BY <2>4, <2>8 DEF Claims
  <1> QED BY <1>3, <1>4

LEMMA AnnouncingKept ==
    ASSUME CallInv, CallInv', AInv, AInv', Announcing, [Next]_vars,
           "commit" \notin Faults, "publish" \notin Faults
    PROVE  Announcing'
  <1>0. IInv /\ TypeOK' /\ \A q \in Requests : Call(q) /\ InCall(q) /\ InCall(q)'
    BY DEF CallInv, Call, IInv
  <1>1. ASSUME NEW r \in Requests, Proceed(r) \/ Fail(r) PROVE Announcing'
    <2>1. Call(r) /\ InCall(r)'
      BY <1>0
    <2>2. /\ Queue(r)' /\ Distinct(r)' /\ ToldOnce'
          /\ \A id : Told(id) => Told(id)'
          /\ Publish(r) => \A id : Claims(r, id) => Told(id)'
          /\ \/ broker' = broker /\ \A id : Claims(r, id)' => Claims(r, id)
             \/ broker' = broker /\ \E new \in Ids :
                    /\ ~Told(new) /\ \A q \in Requests : ~Claims(q, new)
                    /\ \A id : Claims(r, id)' => Claims(r, id) \/ id = new
             \/ /\ \A id : ~Claims(r, id)'
                /\ \A id : Told(id)' => Told(id) \/ Claims(r, id)
      BY <1>0, <1>1, <2>1, ClaimsStep
    <2>3. \A q \in Requests \ {r} : \A id : Claims(q, id)' <=> Claims(q, id)
      BY <1>0, <1>1, OthersClaims
    <2>4. broker' = broker => \A id : Told(id)' <=> Told(id)
      BY DEF Told
    <2>5. /\ \A p \in Requests : \A q \in Requests \ {p} : \A id \in Ids :
                ~(Claims(q, id) /\ Claims(p, id))
          /\ \A q \in Requests : \A id \in Ids : Claims(q, id) => ~Told(id)
      BY DEF Announcing, Apart, Untold
    <2>6. Apart'
      <3>1. ASSUME NEW p \in Requests, NEW q \in Requests \ {p}, NEW id \in Ids,
                   Claims(q, id)', Claims(p, id)'
            PROVE  FALSE
        BY <2>2, <2>3, <2>5, <3>1
      <3> QED BY <3>1 DEF Apart
    <2>7. Untold'
      <3>1. ASSUME NEW q \in Requests, NEW id \in Ids, Claims(q, id)', Told(id)' PROVE FALSE
        BY <2>2, <2>3, <2>4, <2>5, <3>1
      <3> QED BY <3>1 DEF Untold
    <2>8. ASSUME NEW q \in Requests PROVE Queue(q)' /\ Distinct(q)' /\ Kept(q)'
      <3>1. Queue(q) /\ Distinct(q) /\ Kept(q)
        BY DEF Announcing
      <3>2. CASE q = r
        <4>1. Kept(r)'
          BY <1>0, <1>1, <2>2, <3>1, <3>2, KeptStep
        <4> QED BY <2>2, <3>2, <4>1
      <3>3. CASE q # r
        <4>1. Queue(q)' /\ Distinct(q)'
          BY <1>0, <1>1, <3>1, <3>3, OthersQueue
        <4>2. body'[q] = body[q] /\ resp'[q] = resp[q] /\ Calls(q)' = Calls(q)
          BY <1>0, <1>1, <3>3, OthersPrivate DEF Private, Calls
        <4>3. ASSUME body[q].cmd = "VOID", NEW n \in DOMAIN resp[q], resp[q][n],
                     NEW k \in DOMAIN Calls(q)[n], NEW id, id = Calls(q)[n][k].id
              PROVE  Told(id)'
          <5>1. Told(id)
            BY <3>1, <4>3, Zenon DEF Kept
          <5> QED BY <2>2, <5>1
        <4>4. Kept(q)'
          BY <4>2, <4>3, Zenon DEF Kept
        <4> QED BY <4>1, <4>4
      <3> QED BY <3>2, <3>3
    <2> QED BY <2>2, <2>6, <2>7, <2>8 DEF Announcing
  <1>2. CASE UNCHANGED vars
    <2>1. UNCHANGED <<pc, body, resp, at, agg, msgs, written, logged, broker>>
      BY <1>2 DEF vars, coroutine, database
    <2> QED BY <2>1 DEF Announcing, Apart, Untold, ToldOnce, Queue, Distinct, Kept, Claims, Told,
            ThisCall, ThisItem, Calls
  <1> QED BY <1>1, <1>2 DEF Next, AllOver

LEMMA AnnouncingInit == Init => Announcing
  <1> SUFFICES ASSUME Init PROVE Announcing
    OBVIOUS
  <1>1. \A r \in Requests : pc[r] = "call" /\ resp[r] = <<>> /\ msgs[r] = <<>>
    BY DEF Init
  <1>2. broker = <<>>
    BY DEF Init
  <1> QED BY <1>1, <1>2 DEF Announcing, Apart, Untold, ToldOnce, Queue, Distinct, Kept, Claims,
          Told, Working

\* What is answered with success is told, in exactly one place.
LEMMA AnnouncedOnce == CallInv /\ Announcing => VoidingIsAnnouncedOnce
  <1> SUFFICES ASSUME CallInv, Announcing, NEW r \in Requests, NEW n \in DOMAIN resp[r],
                      resp[r][n], body[r].cmd = "VOID", NEW k \in DOMAIN Calls(r)[n]
               PROVE  Cardinality(Announced(Calls(r)[n][k].id)) = 1
    BY DEF VoidingIsAnnouncedOnce
  <1> DEFINE id == Calls(r)[n][k].id
  <1>1. Told(id)
    BY Zenon DEF Announcing, Kept
  <1> HIDE DEF id
  <1>2. PICK m \in DOMAIN broker, l \in Nat : l \in DOMAIN broker[m] /\ broker[m][l] = id
    <2>1. \A m \in DOMAIN broker : broker[m] \in Seq(Ids) /\ DOMAIN broker[m] \subseteq Nat
      <3> SUFFICES ASSUME NEW m \in DOMAIN broker
                   PROVE  broker[m] \in Seq(Ids) /\ DOMAIN broker[m] \subseteq Nat
        OBVIOUS
      <3>1. broker \in Seq(Seq(Ids))
        BY DEF CallInv, IInv, TypeOK
      <3>2. broker[m] \in Seq(Ids)
        BY <3>1
      <3> QED BY <3>2, LenProperties
    <2> QED BY <1>1, <2>1 DEF Told
  <1>3. Announced(id) = {<<m, l>>}
    <2>1. <<m, l>> \in Announced(id)
      BY <1>2 DEF Announced
    <2>2. ASSUME NEW p \in Announced(id) PROVE p = <<m, l>>
      <3>1. PICK m2 \in DOMAIN broker :
              p \in {<<m2, i>> : i \in {j \in DOMAIN broker[m2] : broker[m2][j] = id}}
        BY DEF Announced
      <3>2. PICK i \in DOMAIN broker[m2] : p = <<m2, i>> /\ broker[m2][i] = id
        BY <3>1
      <3>3. m2 = m /\ i = l
        BY <1>2, <3>2 DEF Announcing, ToldOnce
      <3> QED BY <3>2, <3>3
    <2> QED BY <2>1, <2>2
  <1> QED BY <1>3, FS_Singleton DEF id

\* If neither a COMMIT nor a publication fails, a voiding that is answered with
\* success has been announced, and only once: neither a batch that fails half
\* way, nor a retry, nor another request that voids the same aggregate, makes a
\* second announcement or loses the one that is due.
THEOREM VoidingAlwaysAnnouncedOnce == Spec => []VoidingIsAnnouncedOnce
  <1>1. CASE "commit" \in Faults \/ "publish" \in Faults
    <2>1. VoidingIsAnnouncedOnce
      BY <1>1 DEF VoidingIsAnnouncedOnce
    <2> QED BY <2>1, PTL
  <1>2. CASE "commit" \notin Faults /\ "publish" \notin Faults
    <2>1. Init => Announcing
      BY AnnouncingInit
    <2>2. CallInv /\ CallInv' /\ AInv /\ AInv' /\ Announcing /\ [Next]_vars => Announcing'
      BY <1>2, AnnouncingKept
    <2>3. CallInv /\ Announcing => VoidingIsAnnouncedOnce
      BY AnnouncedOnce
    <2>4. Spec => []AInv
      BY <1>2, AnnouncedInvariant
    <2> QED BY <2>1, <2>2, <2>3, <2>4, CallsInvariant, PTL DEF Spec
  <1> QED BY <1>1, <1>2
=============================================================================
