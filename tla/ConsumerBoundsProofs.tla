------------------------ MODULE ConsumerBoundsProofs ------------------------
(***************************************************************************)
(* The consumer's copies, retries and redeliveries are paid for: what a    *)
(* message has been through, and all that is still due of it, no more than *)
(* doubles (but for one) with each connection, publication or process that *)
(* fails.  For every queue of messages and every number of failures, and   *)
(* however many deliveries a lost connection leaves behind.                *)
(***************************************************************************)
EXTENDS MessageConsumerProofs, FiniteSetTheorems, FunctionTheorems

\* What is ever published again has as many attempts as at first, or fewer.
Copy ==
    {x \in QueueMessage : /\ x.attempt_number = -1 <=> Attempts[x.id] = -1
                          /\ x.attempt_number <= Attempts[x.id]}

(***************************************************************************)
(* The weight of a queue: each of its messages x counts w[x] times.        *)
(***************************************************************************)

\* The units of q, for weights of at most k.
Units(q, w, k) == {u \in (DOMAIN q) \X (1 .. k) : u[2] <= w[q[u[1]]]}

Weight(q, w, k) == Cardinality(Units(q, w, k))

IsWeight(w, k) == k \in Nat /\ w \in [Copy -> 0 .. k]

\* Sets whose elements match one to one have as many.
LEMMA Matching ==
    ASSUME NEW S, NEW T, IsFiniteSet(S), NEW f \in [S -> T],
           \A a, b \in S : f[a] = f[b] => a = b, \A t \in T : \E s \in S : f[s] = t
    PROVE  Cardinality(T) = Cardinality(S)
  <1>1. f \in Bijection(S, T)
    BY Fun_IsBij
  <1> QED BY <1>1, FS_Bijection DEF ExistsBijection

\* A set of n has 2^n subsets.
LEMMA PowersOfTwo ==
    ASSUME NEW n \in Nat
    PROVE  2^n \in Nat \ {0} /\ 2^(n + 1) = 2 * 2^n
  <1> DEFINE S == 1 .. n
             T == 1 .. n + 1
             With == {s \in SUBSET T : n + 1 \in s}
             f == [s \in SUBSET S |-> s \cup {n + 1}]
  <1>1. /\ IsFiniteSet(SUBSET S) /\ Cardinality(SUBSET S) = 2^n
        /\ IsFiniteSet(SUBSET T) /\ Cardinality(SUBSET T) = 2^(n + 1)
    <2>1. /\ IsFiniteSet(S) /\ Cardinality(S) = n
          /\ IsFiniteSet(T) /\ Cardinality(T) = n + 1
      BY FS_Interval
    <2> HIDE DEF S, T
    <2>2. IsFiniteSet(SUBSET S) /\ Cardinality(SUBSET S) = 2^Cardinality(S)
      BY <2>1, FS_SUBSET
    <2>3. IsFiniteSet(SUBSET T) /\ Cardinality(SUBSET T) = 2^Cardinality(T)
      BY <2>1, FS_SUBSET
    <2> QED BY <2>1, <2>2, <2>3
  <1>2. Cardinality(With) = Cardinality(SUBSET S)
    <2>1. f \in [SUBSET S -> With]
      OBVIOUS
    <2>2. \A a, b \in SUBSET S : f[a] = f[b] => a = b
      <3> SUFFICES ASSUME NEW a \in SUBSET S, NEW b \in SUBSET S, f[a] = f[b]
                   PROVE  a = b
        OBVIOUS
      <3>1. n + 1 \notin a /\ n + 1 \notin b /\ a \cup {n + 1} = b \cup {n + 1}
        OBVIOUS
      <3> QED BY <3>1
    <2>3. ASSUME NEW t \in With PROVE \E s \in SUBSET S : f[s] = t
      <3>1. t \ {n + 1} \in SUBSET S
        OBVIOUS
      <3>2. (t \ {n + 1}) \cup {n + 1} = t
        OBVIOUS
      <3> QED BY <3>1, <3>2
    <2> HIDE DEF f, With, S
    <2> QED BY <1>1, <2>1, <2>2, <2>3, Matching
  <1>3. SUBSET T = (SUBSET S) \cup With /\ (SUBSET S) \cap With = {}
    <2>1. S = T \ {n + 1} /\ n + 1 \in T
      OBVIOUS
    <2> HIDE DEF S, T
    <2>2. \A s \in SUBSET T : s \in SUBSET S \/ s \in With
      BY <2>1, Zenon
    <2>3. \A s : s \in SUBSET S => s \in SUBSET T /\ n + 1 \notin s
      BY <2>1, Zenon
    <2>4. \A s \in With : s \in SUBSET T /\ n + 1 \in s
      BY Zenon
    <2> HIDE DEF With
    <2> QED BY <2>2, <2>3, <2>4
  <1>4. IsFiniteSet(With)
    BY <1>1, FS_Subset
  <1>5. Cardinality((SUBSET S) \cup With) =
            Cardinality(SUBSET S) + Cardinality(With) - Cardinality({})
    BY <1>1, <1>3, <1>4, FS_Union
  <1>6. Cardinality({}) = 0 /\ Cardinality(SUBSET S) \in Nat
    BY <1>1, FS_EmptySet, FS_CardinalityType
  <1>7. 2^(n + 1) = 2^n + 2^n - 0 /\ 2^n \in Nat
    BY <1>1, <1>2, <1>3, <1>5, <1>6
  <1>8. 2^n # 0
    <2>1. {} \in SUBSET S
      OBVIOUS
    <2> DEFINE P == SUBSET S
    <2>2. IsFiniteSet(P) /\ Cardinality(P) = 2^n /\ P # {}
      BY <1>1, <2>1
    <2> HIDE DEF P
    <2> QED BY <2>2, FS_EmptySet
  <1> QED BY <1>7, <1>8

\* A queue has finitely many units.
LEMMA WeightType ==
    ASSUME NEW k, NEW w, IsWeight(w, k), NEW q \in Seq(Copy)
    PROVE  IsFiniteSet(Units(q, w, k)) /\ Weight(q, w, k) \in Nat
  <1>2. IsFiniteSet((DOMAIN q) \X (1 .. k))
    <2>1. IsFiniteSet(DOMAIN q) /\ IsFiniteSet(1 .. k)
      BY FS_Interval DEF IsWeight
    <2> QED BY <2>1, FS_Product
  <1>3. IsFiniteSet(Units(q, w, k))
    BY <1>2, FS_Subset DEF Units
  <1> QED BY <1>3, FS_CardinalityType DEF Weight

\* The empty queue weighs nothing.
LEMMA WeightOfNothing == ASSUME NEW w, NEW k PROVE Weight(<<>>, w, k) = 0
  <1>1. Units(<<>>, w, k) = {}
    BY DEF Units
  <1> QED BY <1>1, FS_EmptySet DEF Weight

\* One message weighs what it counts.
LEMMA WeightOfOne ==
    ASSUME NEW k, NEW w, IsWeight(w, k), NEW x \in Copy
    PROVE  Weight(<<x>>, w, k) = w[x]
  <1> DEFINE f == [j \in 1 .. w[x] |-> <<1, j>>]
  <1>1. w[x] \in 0 .. k /\ k \in Nat
    BY DEF IsWeight
  <1>2. Units(<<x>>, w, k) = {<<1, j>> : j \in 1 .. w[x]}
    BY <1>1 DEF Units
  <1>3. /\ f \in [1 .. w[x] -> Units(<<x>>, w, k)]
        /\ \A a, b \in 1 .. w[x] : f[a] = f[b] => a = b
        /\ \A t \in Units(<<x>>, w, k) : \E s \in 1 .. w[x] : f[s] = t
    BY <1>2
  <1> HIDE DEF f
  <1>4. IsFiniteSet(1 .. w[x]) /\ Cardinality(1 .. w[x]) = w[x]
    <2> DEFINE b == w[x]
    <2>1. b \in Nat
      BY <1>1
    <2> HIDE DEF b
    <2>2. IsFiniteSet(1 .. b) /\ Cardinality(1 .. b) = b
      BY <2>1, FS_Interval
    <2> QED BY <2>2 DEF b
  <1> QED BY <1>3, <1>4, Matching DEF Weight

\* Weights add up.
LEMMA WeightOfConcat ==
    ASSUME NEW k, NEW w, IsWeight(w, k), NEW p \in Seq(Copy), NEW q \in Seq(Copy)
    PROVE  Weight(p \o q, w, k) = Weight(p, w, k) + Weight(q, w, k)
  <1> DEFINE Moved == {u \in Units(p \o q, w, k) : u[1] > Len(p)}
             f == [u \in Units(q, w, k) |-> <<u[1] + Len(p), u[2]>>]
  <1>1. /\ Len(p) \in Nat /\ Len(q) \in Nat
        /\ DOMAIN p = 1 .. Len(p) /\ DOMAIN q = 1 .. Len(q)
        /\ p \o q \in Seq(Copy) /\ DOMAIN (p \o q) = 1 .. Len(p) + Len(q)
        /\ \A n \in 1 .. Len(p) : (p \o q)[n] = p[n]
        /\ \A n \in 1 .. Len(q) : (p \o q)[n + Len(p)] = q[n]
    OBVIOUS
  <1>2. /\ Units(p \o q, w, k) = Units(p, w, k) \cup Moved
        /\ Units(p, w, k) \cap Moved = {}
    BY DEF Units
  <1>3. ASSUME NEW t \in Moved
        PROVE  \E u \in Units(q, w, k) : f[u] = t
    <2> DEFINE u == <<t[1] - Len(p), t[2]>>
    <2>1. /\ t \in (1 .. Len(p) + Len(q)) \X (1 .. k) /\ t[1] > Len(p)
          /\ t[2] <= w[(p \o q)[t[1]]]
      BY DEF Units
    <2>2. /\ t[1] - Len(p) \in 1 .. Len(q) /\ t[2] \in 1 .. k /\ t = <<t[1], t[2]>>
          /\ (p \o q)[t[1]] = q[t[1] - Len(p)]
      BY <2>1
    <2>3. u \in Units(q, w, k)
      BY DEF Units
    <2>4. f[u] = t
      <3>1. f[u] = <<u[1] + Len(p), u[2]>>
        BY <2>3
      <3>2. (t[1] - Len(p)) + Len(p) = t[1]
        BY <2>1
      <3> QED BY <2>2, <3>1, <3>2
    <2> QED BY <2>3, <2>4
  <1>4. f \in [Units(q, w, k) -> Moved]
    <2> SUFFICES ASSUME NEW u \in Units(q, w, k)
                 PROVE  <<u[1] + Len(p), u[2]>> \in Moved
      OBVIOUS
    <2> QED BY DEF Units
  <1>5. \A a, b \in Units(q, w, k) : f[a] = f[b] => a = b
    <2> SUFFICES ASSUME NEW a \in Units(q, w, k), NEW b \in Units(q, w, k), f[a] = f[b]
                 PROVE  a = b
      OBVIOUS
    <2>1. a \in (1 .. Len(q)) \X (1 .. k) /\ b \in (1 .. Len(q)) \X (1 .. k)
      BY DEF Units
    <2>3. a = <<a[1], a[2]>> /\ b = <<b[1], b[2]>> /\ a[1] \in Int /\ b[1] \in Int
      BY <2>1
    <2> QED BY <2>3
  <1> HIDE DEF f
  <1>6. IsFiniteSet(Units(p, w, k)) /\ IsFiniteSet(Units(q, w, k)) /\ IsFiniteSet(Units(p \o q, w, k))
    BY <1>1, WeightType
  <1>7. IsFiniteSet(Moved)
    BY <1>6, FS_Subset
  <1>8. Cardinality(Moved) = Cardinality(Units(q, w, k))
    BY <1>3, <1>4, <1>5, <1>6, Matching
  <1>9. Cardinality(Units(p \o q, w, k)) =
            Cardinality(Units(p, w, k)) + Cardinality(Moved) - Cardinality({})
    BY <1>2, <1>6, <1>7, FS_Union
  <1>10. Cardinality({}) = 0 /\ Cardinality(Units(p, w, k)) \in Nat /\ Cardinality(Units(q, w, k)) \in Nat
    BY <1>6, FS_EmptySet, FS_CardinalityType
  <1> QED BY <1>8, <1>9, <1>10 DEF Weight

\* A message that is published adds what it counts.
LEMMA WeightOfAppend ==
    ASSUME NEW k, NEW w, IsWeight(w, k), NEW q \in Seq(Copy), NEW x \in Copy
    PROVE  Weight(Append(q, x), w, k) = Weight(q, w, k) + w[x]
  <1>1. <<x>> \in Seq(Copy) /\ Append(q, x) = q \o <<x>>
    OBVIOUS
  <1>2. Weight(q \o <<x>>, w, k) = Weight(q, w, k) + Weight(<<x>>, w, k)
    BY <1>1, WeightOfConcat
  <1>3. Weight(<<x>>, w, k) = w[x]
    BY WeightOfOne
  <1> QED BY <1>1, <1>2, <1>3

\* And one that is taken out removes as much.
LEMMA WeightOfHead ==
    ASSUME NEW k, NEW w, IsWeight(w, k), NEW q \in Seq(Copy), q # <<>>
    PROVE  /\ Head(q) \in Copy /\ Tail(q) \in Seq(Copy)
           /\ Weight(q, w, k) = w[Head(q)] + Weight(Tail(q), w, k)
  <1> DEFINE h == <<Head(q)>>
             t == Tail(q)
  <1>3. Weight(h, w, k) = w[Head(q)]
    BY WeightOfOne
  <1>4. h \in Seq(Copy) /\ t \in Seq(Copy) /\ q = h \o t
    OBVIOUS
  <1> HIDE DEF h, t
  <1>5. Weight(h \o t, w, k) = Weight(h, w, k) + Weight(t, w, k)
    BY <1>4, WeightOfConcat
  <1>6. Weight(q, w, k) = w[Head(q)] + Weight(t, w, k)
    BY <1>3, <1>4, <1>5
  <1> QED BY <1>6 DEF t

\* A message published behind others.
LEMMA WeightOfSent ==
    ASSUME NEW k, NEW w, IsWeight(w, k), NEW q \in Seq(Copy), q # <<>>, NEW x \in Copy
    PROVE  /\ Append(q, x) \in Seq(Copy) /\ Append(q, x) # <<>> /\ Head(Append(q, x)) = Head(q)
           /\ Weight(Append(q, x), w, k) = Weight(q, w, k) + w[x]
  BY WeightOfAppend

\* A message that goes from one queue to another.
LEMMA WeightOfMoved ==
    ASSUME NEW k, NEW w, IsWeight(w, k), NEW q \in Seq(Copy), q # <<>>, NEW a \in Seq(Copy)
    PROVE  /\ Tail(q) \in Seq(Copy) /\ Append(a, Head(q)) \in Seq(Copy)
           /\ Weight(Tail(q), w, k) + Weight(Append(a, Head(q)), w, k)
                  = Weight(q, w, k) + Weight(a, w, k)
  <1>1. /\ Head(q) \in Copy /\ Tail(q) \in Seq(Copy)
        /\ Weight(q, w, k) = w[Head(q)] + Weight(Tail(q), w, k)
    BY WeightOfHead
  <1>2. Append(a, Head(q)) \in Seq(Copy) /\ Weight(Append(a, Head(q)), w, k) = Weight(a, w, k) + w[Head(q)]
    <2> DEFINE h == Head(q)
    <2>1. h \in Copy
      OBVIOUS
    <2> HIDE DEF h
    <2>3. Weight(Append(a, h), w, k) = Weight(a, w, k) + w[h]
      BY <2>1, WeightOfAppend
    <2> QED BY <2>3 DEF h
  <1>3. Weight(Tail(q), w, k) \in Nat /\ Weight(a, w, k) \in Nat
    BY <1>1, WeightType
  <1>4. w[Head(q)] \in 0 .. k
    BY DEF IsWeight
  <1> QED BY <1>1, <1>2, <1>3, <1>4

\* A queue in which one message counts weighs no more than the limit.
LEMMA WeightOfOnly ==
    ASSUME NEW k, NEW w, IsWeight(w, k), NEW q \in Seq(Copy), NEW n0 \in Nat,
           \A n \in DOMAIN q : n # n0 => w[q[n]] = 0
    PROVE  Weight(q, w, k) <= k
  <1>2. Units(q, w, k) \in SUBSET ({n0} \X (1 .. k))
    <2> SUFFICES ASSUME NEW u \in Units(q, w, k) PROVE u \in {n0} \X (1 .. k)
      OBVIOUS
    <2>1. u \in (DOMAIN q) \X (1 .. k) /\ u[2] <= w[q[u[1]]]
      BY DEF Units
    <2>2. u[1] \in DOMAIN q /\ u[2] \in 1 .. k /\ u = <<u[1], u[2]>>
      BY <2>1
    <2>3. u[1] = n0
      BY <2>1
    <2> QED BY <2>2, <2>3
  <1> DEFINE A == {n0}
             B == 1 .. k
  <1>3. IsFiniteSet(A) /\ Cardinality(A) = 1
    BY FS_Singleton
  <1>4. IsFiniteSet(B) /\ Cardinality(B) = k
    BY FS_Interval DEF IsWeight
  <1> HIDE DEF A, B
  <1>5. IsFiniteSet(A \X B) /\ Cardinality(A \X B) = 1 * k
    BY <1>3, <1>4, FS_Product
  <1>6. Units(q, w, k) \in SUBSET (A \X B)
    BY <1>2 DEF A, B
  <1>7. Cardinality(Units(q, w, k)) <= 1 * k
    BY <1>5, <1>6, FS_Subset
  <1> QED BY <1>7 DEF Weight, IsWeight

(***************************************************************************)
(* The first n messages of a queue.                                        *)
(***************************************************************************)

First(q, n) == [i \in 1 .. n |-> q[i]]

\* More of them weigh more, and all no more than the queue.
LEMMA WeightOfFirst ==
    ASSUME NEW k, NEW w, IsWeight(w, k), NEW q \in Seq(Copy),
           NEW n \in 0 .. Len(q), NEW m \in 0 .. n
    PROVE  /\ First(q, m) \in Seq(Copy) /\ First(q, n) \in Seq(Copy)
           /\ Weight(First(q, m), w, k) \in Nat /\ Weight(First(q, n), w, k) \in Nat
           /\ Weight(First(q, m), w, k) <= Weight(First(q, n), w, k)
           /\ Weight(First(q, n), w, k) <= Weight(q, w, k)
  <1>1. Len(q) \in Nat /\ DOMAIN q = 1 .. Len(q) /\ \A i \in 1 .. Len(q) : q[i] \in Copy
    BY LenProperties, ElementOfSeq
  <1>2. First(q, m) \in Seq(Copy) /\ First(q, n) \in Seq(Copy)
    BY <1>1, IsASeq DEF First
  <1>3. /\ Units(First(q, m), w, k) \in SUBSET Units(First(q, n), w, k)
        /\ Units(First(q, n), w, k) \in SUBSET Units(q, w, k)
    BY <1>1 DEF Units, First
  <1>4. /\ IsFiniteSet(Units(First(q, n), w, k)) /\ IsFiniteSet(Units(q, w, k))
        /\ Weight(First(q, m), w, k) \in Nat /\ Weight(First(q, n), w, k) \in Nat
    BY <1>2, WeightType
  <1> QED BY <1>2, <1>3, <1>4, FS_Subset DEF Weight

\* A message published behind them is not among them.
LEMMA FirstOfSent ==
    ASSUME NEW S, NEW q \in Seq(S), NEW x \in S, NEW n \in 0 .. Len(q)
    PROVE  First(Append(q, x), n) = First(q, n)
  BY DEF First

\* The head is the first of them.
LEMMA WeightOfFirstHead ==
    ASSUME NEW k, NEW w, IsWeight(w, k), NEW q \in Seq(Copy), q # <<>>,
           NEW n \in Nat, n + 1 <= Len(q)
    PROVE  /\ Weight(First(q, n + 1), w, k) = w[Head(q)] + Weight(First(Tail(q), n), w, k)
           /\ Weight(First(Tail(q), n), w, k) \in Nat
  <1> DEFINE f == First(q, n + 1)
             t == Tail(q)
  <1>1. Len(q) \in Nat /\ 0 \in 0 .. n + 1 /\ n + 1 \in 0 .. Len(q)
    BY LenProperties
  <1>2. f \in Seq(Copy)
    BY <1>1, WeightOfFirst
  <1>3. t \in Seq(Copy) /\ Len(t) = Len(q) - 1 /\ \A i \in 1 .. Len(t) : t[i] = q[i + 1]
    BY HeadTailProperties
  <1>4. n \in 0 .. Len(t) /\ 0 \in 0 .. n
    BY <1>1, <1>3
  <1>5. First(t, n) \in Seq(Copy) /\ Weight(First(t, n), w, k) \in Nat
    <2> HIDE DEF t
    <2> QED BY <1>3, <1>4, WeightOfFirst
  <1>6. f # <<>> /\ Head(f) = Head(q)
    BY <1>1 DEF First
  <1>7. Tail(f) = First(t, n)
    <2>1. Len(f) = n + 1
      BY <1>1, <1>2, LenProperties DEF First
    <2>2. Tail(f) = [i \in 1 .. n |-> f[i + 1]]
      BY <1>2, <2>1
    <2>3. \A i \in 1 .. n : f[i + 1] = t[i]
      BY <1>3, <1>4 DEF First
    <2> HIDE DEF f, t
    <2> QED BY <2>2, <2>3 DEF First
  <1> HIDE DEF f, t
  <1>8. Weight(f, w, k) = w[Head(f)] + Weight(Tail(f), w, k)
    BY <1>2, <1>6, WeightOfHead
  <1> QED BY <1>5, <1>6, <1>7, <1>8 DEF f, t

(***************************************************************************)
(* The copies of the messages.                                             *)
(***************************************************************************)

OnlyCopies ==
    /\ queue \in Seq(Copy) /\ abandoned \in Seq(Copy)
    /\ pc \in {"handle", "defer", "retry"} => message \in Copy

\* Time makes no other copy of one.
LEMMA NowDueCopy == ASSUME NEW x \in Copy PROVE NowDue(x) \in Copy
  BY NowDueType DEF Copy

\* Time leaves the weight of a queue as it is.
LEMMA WeightLater ==
    ASSUME NEW k, NEW w, IsWeight(w, k), \A x \in Copy : w[NowDue(x)] = w[x],
           NEW q \in Seq(Copy), NEW r, r = [n \in DOMAIN q |-> NowDue(q[n])]
    PROVE  /\ r \in Seq(Copy) /\ Weight(r, w, k) = Weight(q, w, k)
           /\ q # <<>> => r # <<>> /\ Head(r) = NowDue(Head(q))
  <1>2. \A n \in 1 .. Len(q) : NowDue(q[n]) \in Copy
    BY NowDueCopy
  <1>4. r \in Seq(Copy)
    BY <1>2
  <1>5. Units(r, w, k) = Units(q, w, k)
    BY DEF Units
  <1> QED BY <1>4, <1>5 DEF Weight

\* Nor of its first messages.
LEMMA WeightOfFirstLater ==
    ASSUME NEW k, NEW w, IsWeight(w, k), \A x \in Copy : w[NowDue(x)] = w[x],
           NEW q \in Seq(Copy), NEW r, r = [n \in DOMAIN q |-> NowDue(q[n])],
           NEW n \in 0 .. Len(q)
    PROVE  Weight(First(r, n), w, k) = Weight(First(q, n), w, k)
  <1> DEFINE f == First(q, n)
  <1>1. Len(q) \in Nat /\ DOMAIN q = 1 .. Len(q) /\ 0 \in 0 .. n
    BY LenProperties
  <1>2. f \in Seq(Copy)
    BY <1>1, WeightOfFirst
  <1>3. First(r, n) = [i \in DOMAIN f |-> NowDue(f[i])]
    BY <1>1 DEF First
  <1> HIDE DEF f
  <1>4. Weight(First(r, n), w, k) = Weight(f, w, k)
    BY <1>2, <1>3, WeightLater
  <1> QED BY <1>4 DEF f

(***************************************************************************)
(* What is due: the weight of what is still to be handled, and of what a   *)
(* lost connection will bring back.                                        *)
(***************************************************************************)

\* A process that lost its connection has its deliveries from the front of the queue.
Prefetches ==
    /\ prefetched + Held <= Len(queue) /\ (connected => prefetched = 0)
    /\ pc \in {"start", "connect"} \cup Ended => ~connected /\ prefetched = 0

\* The message in hand counts until it is handled, given up or published again.
Hand(w) == IF pc \in {"handle", "defer", "retry"} THEN w[message] ELSE 0

\* Its delivery is no longer to be handled, though it stays in the queue.
Delivered(w) == IF message = NoMessage THEN 0 ELSE w[Head(queue)]

\* But all deliveries of a connection that is lost come back, handled or not.
ComingBack(w, k) == IF connected THEN 0 ELSE Weight(First(queue, prefetched + Held), w, k)

StillDue(w, k) ==
    Weight(queue, w, k) + Weight(abandoned, w, k) - Delivered(w) + Hand(w) + ComingBack(w, k)

\* A step that takes what was used from u to v is paid for by what was due; a mishap
\* may double what was used and due, and add k for the delivery in hand.
Paid(w, k, u, v) ==
    \/ mishaps' = mishaps /\ v + StillDue(w, k)' <= u + StillDue(w, k)
    \/ mishaps' = mishaps + 1 /\ v + StillDue(w, k)' <= 2 * (u + StillDue(w, k)) + k

\* No step takes a delivery from elsewhere.
LEMMA PrefetchesStep ==
    ASSUME IInv, IInv', Prefetches, [AnyStep]_vars
    PROVE  Prefetches'
  <1>1. /\ queue \in Seq(QueueMessage) /\ Len(queue) \in Nat /\ Len(queue') \in Nat
        /\ prefetched \in Nat /\ Held \in {0, 1} /\ Held' \in {0, 1}
        /\ (message # NoMessage => queue # <<>>)
        /\ (message # NoMessage <=> pc \in {"handle", "defer", "retry", "ack"})
        /\ (message' # NoMessage <=> pc' \in {"handle", "defer", "retry", "ack"})
    BY LenProperties DEF IInv, TypeOK, InHand, Held
  <1>2. queue # <<>> => /\ Len(queue) >= 1 /\ Len(Tail(queue)) = Len(queue) - 1
    BY <1>1, EmptySeq, HeadTailProperties
  <1>3. message # NoMessage =>
          /\ Len(Append(queue, message)) = Len(queue) + 1
          /\ Len(Tail(Append(queue, message))) = Len(queue)
    <2> SUFFICES ASSUME message # NoMessage
                 PROVE  /\ Len(Append(queue, message)) = Len(queue) + 1
                        /\ Len(Tail(Append(queue, message))) = Len(queue)
      OBVIOUS
    <2> DEFINE q == Append(queue, message)
    <2>1. message \in QueueMessage
      BY DEF IInv, TypeOK
    <2>2. q \in Seq(QueueMessage) /\ Len(q) = Len(queue) + 1
      BY <1>1, <2>1, AppendProperties
    <2> HIDE DEF q
    <2>3. q # <<>>
      BY <1>1, <2>2, EmptySeq
    <2>4. Len(Tail(q)) = Len(q) - 1
      BY <2>2, <2>3, HeadTailProperties
    <2> QED BY <1>1, <2>2, <2>4 DEF q
  <1>4. ASSUME NEW how, NEW q, End(how, q)
        PROVE  Prefetches'
    <2>1. prefetched' = 0 /\ connected' = FALSE /\ Held' = 0
      BY <1>4 DEF End, Held
    <2> QED BY <1>1, <2>1 DEF Prefetches
  <1>5. CASE \/ Stop \/ SubscribeFails \/ DeliverMalformed \/ AckFails \/ NoticeLoss
             \/ ConnectFails \/ Killed
    BY <1>4, <1>5 DEF Stop, SubscribeFails, DeliverMalformed, AckFails, NoticeLoss, ConnectFails,
                      Killed
  <1>6. CASE Start \/ Connect \/ Loop \/ Subscribe \/ SignalTooEarly \/ Restart \/ AllOver \/ UNCHANGED vars
    <2>1. /\ UNCHANGED <<prefetched, queue, message>> /\ Held' = Held
          /\ \/ UNCHANGED <<pc, connected>>
             \/ pc' = "connect" /\ pc = "start" /\ connected' = connected
             \/ pc' = "start" /\ pc \in Ended /\ connected' = connected
             \/ pc = "connect" /\ pc' = "loop"
             \/ pc' \in {"subscribe", "idle", "hung"} /\ connected' = connected
      BY <1>6 DEF Start, Connect, Loop, Subscribe, SignalTooEarly, Restart, AllOver, vars, process, Held
    <2> QED BY <1>1, <2>1 DEF Prefetches, Ended
  <1>7. CASE Deliver
    <2>1. /\ pc = "idle" /\ queue # <<>> /\ (connected \/ prefetched > 0)
          /\ pc' \in {"handle", "defer"} /\ UNCHANGED <<connected, queue>>
          /\ prefetched' = IF connected THEN prefetched ELSE prefetched - 1
      BY <1>7 DEF Deliver, Delivery
    <2>2. Held = 0 /\ Held' = 1
      BY <1>1, <2>1 DEF Held
    <2> QED BY <1>1, <1>2, <2>1, <2>2 DEF Prefetches, Ended
  <1>8. CASE HandlerSucceeds \/ HandlerFails \/ DeferFails \/ Republish
    <2>1. /\ message # NoMessage /\ queue' \in {queue, Append(queue, message)}
          /\ pc' \in {"retry", "ack"} /\ UNCHANGED <<connected, prefetched>>
      BY <1>1, <1>8 DEF HandlerSucceeds, HandlerFails, DeferFails, Republish, AttemptFailed,
                        MaybeSent, process
    <2>2. Held' = Held /\ Len(queue') >= Len(queue)
      BY <1>1, <1>3, <2>1 DEF Held
    <2> QED BY <1>1, <2>1, <2>2 DEF Prefetches, Ended
  <1>9. CASE Ack
    <2>1. /\ pc = "ack" /\ pc' \in {"idle", "loop"} /\ queue' = Tail(queue)
          /\ UNCHANGED <<connected, prefetched>>
      BY <1>9 DEF Ack, process
    <2>2. Held = 1 /\ Held' = 0 /\ queue # <<>>
      BY <1>1, <2>1 DEF Held
    <2> QED BY <1>1, <1>2, <2>1, <2>2 DEF Prefetches, Ended
  <1>10. CASE RetryFails
    <2>1. CASE \E how, q : End(how, q)
      BY <1>4, <2>1
    <2>2. CASE \E q \in MaybeSent :
                 queue' = Tail(q) /\ pc' \in {"loop", "idle"} /\ UNCHANGED <<connected, prefetched>>
      <3>1. pc = "retry" /\ Held = 1 /\ Held' = 0 /\ queue # <<>> /\ message # NoMessage
        BY <1>1, <1>10, <2>2 DEF RetryFails, Held
      <3>2. Len(queue') >= Len(queue) - 1
        BY <1>1, <1>2, <1>3, <2>2, <3>1 DEF MaybeSent
      <3> QED BY <1>1, <2>2, <3>1, <3>2 DEF Prefetches, Ended
    <2> QED BY <1>10, <2>1, <2>2 DEF RetryFails, process
  <1>11. CASE LoseConnection
    <2>1. /\ connected /\ connected' = FALSE /\ UNCHANGED <<pc, message, queue>> /\ Held' = Held
          /\ prefetched' \in 0 .. Len(queue) - Held \/ prefetched' = 0
      BY <1>11 DEF LoseConnection, Held
    <2> QED BY <1>1, <2>1 DEF Prefetches
  <1>12. CASE ExitGracefully
    <2>1. /\ prefetched' = 0 /\ UNCHANGED <<connected, message, queue>> /\ Held' = Held
          /\ pc' \in {pc, "loop"}
      BY <1>12 DEF ExitGracefully, Held
    <2> QED BY <1>1, <2>1 DEF Prefetches, Ended
  <1>13. CASE TimePasses
    <2>1. /\ UNCHANGED <<pc, connected, prefetched>>
          /\ queue' = [n \in DOMAIN queue |-> NowDue(queue[n])]
      BY <1>13 DEF TimePasses, process
    <2>2. Held' = Held
      BY <1>1, <2>1 DEF Held
    <2>3. Len(queue') = Len(queue)
      BY <1>1, <2>1, LenProperties DEF IInv, TypeOK
    <2> QED BY <1>1, <2>1, <2>2, <2>3 DEF Prefetches
  <1> QED BY <1>5, <1>6, <1>7, <1>8, <1>9, <1>10, <1>11, <1>12, <1>13
          DEF AnyStep, Next, Proceed, Fail, Signal, Crash

\* What is due is counted in numbers, and the delivery in hand is among what the
\* queue holds.
LEMMA DueTypes ==
    ASSUME IInv, OnlyCopies, Prefetches, NEW k, NEW w, IsWeight(w, k)
    PROVE  /\ mishaps \in Nat /\ k \in Nat /\ \A x \in Copy : w[x] \in 0 .. k
           /\ Weight(queue, w, k) \in Nat /\ Weight(abandoned, w, k) \in Nat
           /\ Delivered(w) \in 0 .. k /\ Delivered(w) <= Weight(queue, w, k)
           /\ Hand(w) \in 0 .. k /\ ComingBack(w, k) \in Nat
           /\ message # NoMessage =>
                /\ queue # <<>> /\ Head(queue) \in Copy /\ Tail(queue) \in Seq(Copy)
                /\ Weight(Tail(queue), w, k) \in Nat
                /\ Weight(queue, w, k) = w[Head(queue)] + Weight(Tail(queue), w, k)
  <1>1. queue \in Seq(Copy) /\ abandoned \in Seq(Copy)
    BY DEF OnlyCopies
  <1>2. Weight(queue, w, k) \in Nat /\ Weight(abandoned, w, k) \in Nat
    BY <1>1, WeightType
  <1>3. ASSUME message # NoMessage
        PROVE  /\ queue # <<>> /\ Head(queue) \in Copy /\ Tail(queue) \in Seq(Copy)
               /\ Weight(Tail(queue), w, k) \in Nat
               /\ Weight(queue, w, k) = w[Head(queue)] + Weight(Tail(queue), w, k)
    <2>1. queue # <<>>
      BY <1>3 DEF IInv, InHand
    <2> QED BY <1>1, <2>1, WeightOfHead, WeightType
  <1>4. Hand(w) \in 0 .. k
    BY DEF Hand, OnlyCopies, IsWeight
  <1>5. Delivered(w) \in 0 .. k /\ Delivered(w) <= Weight(queue, w, k)
    BY <1>2, <1>3 DEF Delivered, IsWeight
  <1>6. ComingBack(w, k) \in Nat
    <2>1. prefetched + Held \in 0 .. Len(queue) /\ 0 \in 0 .. prefetched + Held
      BY LenProperties DEF IInv, TypeOK, Prefetches, Held
    <2> DEFINE n == prefetched + Held
               q == queue
    <2> HIDE DEF n, q
    <2>2. q \in Seq(Copy) /\ n \in 0 .. Len(q) /\ 0 \in 0 .. n
      BY <1>1, <2>1 DEF n, q
    <2>3. Weight(First(q, n), w, k) \in Nat
      BY <2>2, WeightOfFirst
    <2> QED BY <2>3 DEF ComingBack, n, q
  <1> QED BY <1>2, <1>3, <1>4, <1>5, <1>6 DEF IInv, TypeOK, IsWeight

\* Of the deliveries of a lost connection, the one in hand is the first.
LEMMA HandComesBack ==
    ASSUME IInv, OnlyCopies, Prefetches, NEW k, NEW w, IsWeight(w, k),
           message # NoMessage, ~connected
    PROVE  /\ ComingBack(w, k) = Delivered(w) + Weight(First(Tail(queue), prefetched), w, k)
           /\ Weight(First(Tail(queue), prefetched), w, k) \in Nat
  <1> DEFINE q == queue
             n == prefetched
  <1>1. q \in Seq(Copy) /\ q # <<>> /\ n \in Nat /\ n + 1 <= Len(q) /\ Held = 1
    BY DEF OnlyCopies, IInv, TypeOK, InHand, Prefetches, Held
  <1>2. ComingBack(w, k) = Weight(First(q, n + 1), w, k) /\ Delivered(w) = w[Head(q)]
    BY <1>1 DEF ComingBack, Delivered
  <1> HIDE DEF q, n
  <1>3. /\ Weight(First(q, n + 1), w, k) = w[Head(q)] + Weight(First(Tail(q), n), w, k)
        /\ Weight(First(Tail(q), n), w, k) \in Nat
    BY <1>1, WeightOfFirstHead
  <1> QED BY <1>2, <1>3 DEF q, n

\* A publication is behind the deliveries of a lost connection.
LEMMA FrontStays ==
    ASSUME IInv, OnlyCopies, Prefetches, message \in Copy
    PROVE  First(Append(queue, message), prefetched + Held) = First(queue, prefetched + Held)
  <1> DEFINE n == prefetched + Held
             q == queue
  <1>1. q \in Seq(Copy) /\ n \in 0 .. Len(q)
    BY LenProperties DEF OnlyCopies, Prefetches, Held, IInv, TypeOK
  <1> HIDE DEF n, q
  <1>2. First(Append(q, message), n) = First(q, n)
    BY <1>1, FirstOfSent
  <1> QED BY <1>2 DEF n, q

\* A step that moves no message costs nothing, but that a lost connection will
\* bring back what came by it.
LEMMA QuietPays ==
    ASSUME IInv, OnlyCopies, Prefetches, Prefetches', prefetched' \in Nat,
           NEW k, NEW w, IsWeight(w, k), NEW u \in Nat,
           UNCHANGED <<message, queue, abandoned>>,
           pc' = pc \/ (message = NoMessage /\ pc' \notin {"handle", "defer", "retry", "ack"}),
           \/ mishaps' = mishaps /\ (connected' \/ (~connected /\ prefetched' <= prefetched))
           \/ mishaps' = mishaps + 1 /\ (connected \/ connected')
    PROVE  OnlyCopies' /\ Paid(w, k, u, u)
  <1>1. message = NoMessage => pc \notin {"handle", "defer", "retry"}
    BY DEF IInv, TypeOK
  <1>2. OnlyCopies'
    BY DEF OnlyCopies
  <1>3. /\ Weight(queue', w, k) = Weight(queue, w, k)
        /\ Weight(abandoned', w, k) = Weight(abandoned, w, k)
        /\ Delivered(w)' = Delivered(w) /\ Hand(w)' = Hand(w)
    BY <1>1 DEF Delivered, Hand
  <1>4. /\ mishaps \in Nat /\ k \in Nat
        /\ Weight(queue, w, k) \in Nat /\ Weight(abandoned, w, k) \in Nat
        /\ Delivered(w) \in 0 .. k /\ Delivered(w) <= Weight(queue, w, k)
        /\ Hand(w) \in 0 .. k /\ ComingBack(w, k) \in Nat
    BY DueTypes
  <1>5. /\ queue \in Seq(Copy) /\ Held \in 0 .. 1 /\ prefetched \in Nat
        /\ prefetched + Held <= Len(queue) /\ prefetched' + Held <= Len(queue) /\ Len(queue) \in Nat
    BY LenProperties DEF OnlyCopies, Held, Prefetches, IInv, TypeOK
  <1>6. \A n, m \in 0 .. Len(queue) : m <= n =>
          /\ Weight(First(queue, m), w, k) \in Nat
          /\ Weight(First(queue, m), w, k) <= Weight(First(queue, n), w, k)
          /\ Weight(First(queue, n), w, k) <= Weight(queue, w, k)
    <2> DEFINE q == queue
    <2>1. q \in Seq(Copy)
      BY <1>5
    <2> HIDE DEF q
    <2> SUFFICES ASSUME NEW n \in 0 .. Len(q), NEW m \in 0 .. Len(q), m <= n
                 PROVE  /\ Weight(First(q, m), w, k) \in Nat
                        /\ Weight(First(q, m), w, k) <= Weight(First(q, n), w, k)
                        /\ Weight(First(q, n), w, k) <= Weight(q, w, k)
      BY DEF q
    <2>2. m \in 0 .. n
      OBVIOUS
    <2> QED BY <2>1, <2>2, WeightOfFirst
  <1>7. ComingBack(w, k)' = (IF connected' THEN 0 ELSE Weight(First(queue, prefetched' + Held), w, k))
    BY DEF ComingBack, Held
  <1>8. /\ ComingBack(w, k)' \in Nat /\ ComingBack(w, k)' <= Weight(queue, w, k)
        /\ \/ mishaps' = mishaps /\ ComingBack(w, k)' <= ComingBack(w, k)
           \/ mishaps' = mishaps + 1
    <2>1. /\ prefetched' + Held \in 0 .. Len(queue) /\ prefetched + Held \in 0 .. Len(queue)
          /\ prefetched' <= prefetched => prefetched' + Held <= prefetched + Held
      <3> DEFINE p == prefetched
                 pp == prefetched'
                 h == Held
                 l == Len(queue)
      <3>1. /\ p \in Nat /\ pp \in Nat /\ h \in 0 .. 1 /\ l \in Nat
            /\ p + h <= l /\ pp + h <= l
        BY <1>5
      <3> HIDE DEF p, pp, h, l
      <3>2. pp + h \in 0 .. l /\ p + h \in 0 .. l /\ (pp <= p => pp + h <= p + h)
        BY <3>1
      <3> QED BY <3>2 DEF p, pp, h, l
    <2> DEFINE back == Weight(First(queue, prefetched' + Held), w, k)
               due == Weight(First(queue, prefetched + Held), w, k)
               all == Weight(queue, w, k)
    <2>2. /\ back \in Nat /\ back <= all
          /\ prefetched' <= prefetched => back <= due
      BY <1>6, <2>1
    <2>3. ComingBack(w, k)' \in {0, back} /\ (connected' => ComingBack(w, k)' = 0)
      BY <1>7
    <2>4. ~connected => ComingBack(w, k) = due
      BY DEF ComingBack
    <2> HIDE DEF back, due, all
    <2>5. ComingBack(w, k)' \in Nat /\ ComingBack(w, k)' <= all
      BY <1>4, <2>2, <2>3 DEF all
    <2>6. CASE mishaps' = mishaps /\ connected'
      BY <1>4, <2>3, <2>5, <2>6 DEF all
    <2>7. CASE mishaps' = mishaps /\ ~connected /\ prefetched' <= prefetched
      <3>1. ComingBack(w, k)' <= ComingBack(w, k)
        BY <1>4, <2>2, <2>3, <2>4, <2>7
      <3> QED BY <2>5, <2>7, <3>1 DEF all
    <2>8. CASE mishaps' = mishaps + 1
      BY <2>5, <2>8 DEF all
    <2> QED BY <2>6, <2>7, <2>8
  <1>9. CASE mishaps' = mishaps /\ ComingBack(w, k)' <= ComingBack(w, k)
    BY <1>2, <1>3, <1>4, <1>8, <1>9 DEF Paid, StillDue
  <1>10. CASE mishaps' = mishaps + 1
    <2>1. StillDue(w, k)' = Weight(queue, w, k) + Weight(abandoned, w, k) - Delivered(w) + Hand(w)
                              + ComingBack(w, k)'
      BY <1>3 DEF StillDue
    <2>2. u + StillDue(w, k)' <= 2 * (u + StillDue(w, k)) + k
      BY <1>4, <1>8, <2>1 DEF StillDue
    <2> QED BY <1>2, <1>10, <2>2 DEF Paid
  <1> QED BY <1>8, <1>9, <1>10

\* When the process ends, the message in hand is to be handled again; a mishap
\* has paid for it.
LEMMA EndPays ==
    ASSUME IInv, OnlyCopies, Prefetches, NEW k, NEW w, IsWeight(w, k), NEW u \in Nat,
           NEW how \in Ended, NEW q, End(how, q),
           \/ q = queue /\ mishaps' = mishaps /\ (message = NoMessage \/ ~connected)
           \/ q = queue /\ mishaps' = mishaps + 1
           \/ q = Append(queue, message) /\ pc = "retry" /\ mishaps' = mishaps + 1
    PROVE  OnlyCopies' /\ Paid(w, k, u, u)
  <1>1. /\ pc' = how /\ message' = NoMessage /\ abandoned' = <<>> /\ queue' = abandoned \o q
        /\ prefetched' = 0 /\ connected' = FALSE
    BY DEF End
  <1>2. queue \in Seq(Copy) /\ abandoned \in Seq(Copy) /\ (pc = "retry" => message \in Copy)
    BY DEF OnlyCopies
  <1>3. /\ q \in Seq(Copy)
        /\ \/ /\ mishaps' = mishaps /\ Weight(q, w, k) = Weight(queue, w, k)
              /\ message = NoMessage \/ ~connected
           \/ mishaps' = mishaps + 1 /\ Weight(q, w, k) = Weight(queue, w, k)
           \/ mishaps' = mishaps + 1 /\ Weight(q, w, k) = Weight(queue, w, k) + Hand(w)
    <2>1. CASE q = queue
      BY <1>2, <2>1
    <2>2. CASE q = Append(queue, message) /\ pc = "retry" /\ mishaps' = mishaps + 1
      <3>1. q \in Seq(Copy) /\ Weight(q, w, k) = Weight(queue, w, k) + w[message]
        BY <1>2, <2>2, WeightOfAppend
      <3> QED BY <2>2, <3>1 DEF Hand
    <2> QED BY <2>1, <2>2
  <1>4. /\ queue' \in Seq(Copy)
        /\ Weight(queue', w, k) = Weight(abandoned, w, k) + Weight(q, w, k)
        /\ Weight(abandoned', w, k) = 0
    BY <1>1, <1>2, <1>3, WeightOfConcat, WeightOfNothing
  <1>5. OnlyCopies'
    BY <1>1, <1>4 DEF OnlyCopies, Ended
  <1>6. Delivered(w)' = 0 /\ Hand(w)' = 0 /\ ComingBack(w, k)' = 0
    <2>1. First(queue', prefetched' + Held') = <<>>
      BY <1>1 DEF First, Held
    <2>2. ComingBack(w, k)' = Weight(First(queue', prefetched' + Held'), w, k)
      BY <1>1 DEF ComingBack
    <2> QED BY <1>1, <2>1, <2>2, WeightOfNothing DEF Delivered, Hand, Ended
  <1>7. message = NoMessage \/ ~connected => Delivered(w) <= ComingBack(w, k)
    <2>1. message = NoMessage => Delivered(w) = 0
      BY DEF Delivered
    <2>2. message # NoMessage /\ ~connected =>
             \E n \in Nat : ComingBack(w, k) = Delivered(w) + n
      BY HandComesBack
    <2>3. Delivered(w) \in Int /\ ComingBack(w, k) \in Nat
      BY DueTypes
    <2> QED BY <2>1, <2>2, <2>3
  <1>8. /\ mishaps \in Nat /\ k \in Nat
        /\ Weight(queue, w, k) \in Nat /\ Weight(abandoned, w, k) \in Nat
        /\ Delivered(w) \in 0 .. k /\ Delivered(w) <= Weight(queue, w, k)
        /\ Hand(w) \in 0 .. k /\ ComingBack(w, k) \in Nat
    BY DueTypes
  <1>9. StillDue(w, k)' = Weight(abandoned, w, k) + Weight(q, w, k)
    BY <1>3, <1>4, <1>6, <1>8 DEF StillDue
  <1>10. CASE /\ mishaps' = mishaps /\ Weight(q, w, k) = Weight(queue, w, k)
              /\ message = NoMessage \/ ~connected
    BY <1>5, <1>7, <1>8, <1>9, <1>10 DEF Paid, StillDue
  <1>11. CASE /\ mishaps' = mishaps + 1
              /\ Weight(q, w, k) \in {Weight(queue, w, k), Weight(queue, w, k) + Hand(w)}
    <2>1. StillDue(w, k)' <= StillDue(w, k) + k /\ StillDue(w, k) \in Nat /\ StillDue(w, k)' \in Int
      BY <1>8, <1>9, <1>11 DEF StillDue
    <2>2. u + StillDue(w, k)' <= 2 * (u + StillDue(w, k)) + k
      BY <1>8, <2>1
    <2> QED BY <1>5, <1>11, <2>2 DEF Paid
  <1> QED BY <1>3, <1>10, <1>11

\* A delivery takes into the hand what it takes from the queue.
LEMMA DeliverPays ==
    ASSUME IInv, OnlyCopies, Prefetches, NEW k, NEW w, IsWeight(w, k), NEW u \in Nat, Deliver
    PROVE  OnlyCopies' /\ Paid(w, k, u, u)
  <1>1. /\ pc = "idle" /\ queue # <<>> /\ message' = Head(queue)
        /\ pc' \in {"handle", "defer"}
        /\ prefetched' = IF connected THEN prefetched ELSE prefetched - 1
        /\ UNCHANGED <<connected, queue, abandoned, mishaps>>
    BY DEF Deliver, Delivery
  <1>2. message = NoMessage /\ Head(queue) \in Copy /\ Head(queue) # NoMessage
    BY <1>1, NoMessageAssumption DEF IInv, TypeOK, OnlyCopies, Copy
  <1>3. OnlyCopies'
    BY <1>1, <1>2 DEF OnlyCopies
  <1>4. /\ mishaps \in Nat /\ k \in Nat
        /\ Weight(queue, w, k) \in Nat /\ Weight(abandoned, w, k) \in Nat
        /\ ComingBack(w, k) \in Nat /\ w[Head(queue)] \in 0 .. k
    BY <1>2, DueTypes
  <1>5. /\ Delivered(w) = 0 /\ Hand(w) = 0
        /\ Delivered(w)' = w[Head(queue)] /\ Hand(w)' = w[Head(queue)]
    BY <1>1, <1>2 DEF Delivered, Hand
  <1>6. ComingBack(w, k)' = ComingBack(w, k)
    <2>1. Held = 0 /\ Held' = 1 /\ prefetched \in Nat
      BY <1>1, <1>2 DEF Held, IInv, TypeOK
    <2>2. ~connected => prefetched' + Held' = prefetched + Held
      BY <1>1, <2>1
    <2> QED BY <1>1, <2>2 DEF ComingBack
  <1>7. StillDue(w, k)' = StillDue(w, k) /\ StillDue(w, k) \in Int
    BY <1>1, <1>4, <1>5, <1>6 DEF StillDue
  <1> QED BY <1>1, <1>3, <1>7 DEF Paid

\* The copy that is published is the one that was in the hand.
LEMMA RepublishPays ==
    ASSUME IInv, OnlyCopies, Prefetches, NEW k, NEW w, IsWeight(w, k), NEW u \in Nat, Republish
    PROVE  OnlyCopies' /\ Paid(w, k, u, u)
  <1>1. /\ pc \in {"defer", "retry"} /\ pc' = "ack" /\ queue' = Append(queue, message)
        /\ UNCHANGED <<connected, prefetched, message, abandoned, mishaps>>
    BY DEF Republish, process
  <1>2. message # NoMessage /\ message \in Copy /\ queue \in Seq(Copy) /\ queue # <<>>
    BY <1>1 DEF IInv, TypeOK, InHand, OnlyCopies
  <1>3. /\ queue' \in Seq(Copy) /\ Weight(queue', w, k) = Weight(queue, w, k) + w[message]
        /\ Head(queue') = Head(queue)
    BY <1>1, <1>2, WeightOfAppend
  <1>4. OnlyCopies'
    BY <1>1, <1>3 DEF OnlyCopies
  <1>5. /\ mishaps \in Nat /\ k \in Nat
        /\ Weight(queue, w, k) \in Nat /\ Weight(abandoned, w, k) \in Nat
        /\ Delivered(w) \in 0 .. k /\ Hand(w) \in 0 .. k /\ ComingBack(w, k) \in Nat
    BY DueTypes
  <1>6. Hand(w) = w[message] /\ Hand(w)' = 0 /\ Delivered(w)' = Delivered(w)
    BY <1>1, <1>3 DEF Delivered, Hand
  <1>7. ComingBack(w, k)' = ComingBack(w, k)
    <2>1. Held' = Held /\ First(queue', prefetched + Held) = First(queue, prefetched + Held)
      BY <1>1, <1>2, FrontStays DEF Held
    <2> QED BY <1>1, <2>1 DEF ComingBack
  <1>8. StillDue(w, k)' = StillDue(w, k) /\ StillDue(w, k) \in Int
    BY <1>1, <1>3, <1>5, <1>6, <1>7 DEF StillDue
  <1> QED BY <1>1, <1>4, <1>8 DEF Paid

\* An acknowledged delivery leaves the queue, for good or until the connection that
\* was lost has brought back the others.
LEMMA AckPays ==
    ASSUME IInv, OnlyCopies, Prefetches, NEW k, NEW w, IsWeight(w, k), NEW u \in Nat, Ack
    PROVE  OnlyCopies' /\ Paid(w, k, u, u)
  <1>1. /\ mishaps \in Nat /\ k \in Nat
        /\ Weight(queue, w, k) \in Nat /\ Weight(abandoned, w, k) \in Nat
        /\ Delivered(w) \in 0 .. k /\ Hand(w) \in 0 .. k /\ ComingBack(w, k) \in Nat
    BY DueTypes
  <1>2. /\ pc = "ack" /\ pc' \in {"idle", "loop"} /\ queue' = Tail(queue) /\ message' = NoMessage
        /\ abandoned' = IF connected THEN abandoned ELSE Append(abandoned, Head(queue))
        /\ UNCHANGED <<connected, prefetched, mishaps>>
    BY DEF Ack, process
  <1>3. /\ message # NoMessage /\ queue \in Seq(Copy) /\ abandoned \in Seq(Copy) /\ queue # <<>>
        /\ Tail(queue) \in Seq(Copy) /\ Weight(Tail(queue), w, k) \in Nat
        /\ Weight(queue, w, k) = w[Head(queue)] + Weight(Tail(queue), w, k)
        /\ w[Head(queue)] \in 0 .. k
    BY <1>2, DueTypes DEF OnlyCopies, IInv, TypeOK
  <1>4. Delivered(w) = w[Head(queue)] /\ Delivered(w)' = 0 /\ Hand(w)' = 0
    BY <1>2, <1>3 DEF Delivered, Hand
  <1>5. CASE connected
    <2>1. OnlyCopies'
      BY <1>2, <1>3, <1>5 DEF OnlyCopies
    <2>2. ComingBack(w, k) = 0 /\ ComingBack(w, k)' = 0
      BY <1>2, <1>5 DEF ComingBack
    <2>3. StillDue(w, k)' = Weight(Tail(queue), w, k) + Weight(abandoned, w, k)
      BY <1>1, <1>2, <1>3, <1>4, <1>5, <2>2 DEF StillDue
    <2>4. StillDue(w, k) = Weight(Tail(queue), w, k) + Weight(abandoned, w, k) + Hand(w)
      BY <1>1, <1>3, <1>4, <2>2 DEF StillDue
    <2> QED BY <1>1, <1>2, <1>3, <2>1, <2>3, <2>4 DEF Paid
  <1>6. CASE ~connected
    <2>1. /\ Append(abandoned, Head(queue)) \in Seq(Copy)
          /\ Weight(Tail(queue), w, k) + Weight(Append(abandoned, Head(queue)), w, k)
                 = Weight(queue, w, k) + Weight(abandoned, w, k)
      BY <1>3, WeightOfMoved
    <2>2. OnlyCopies' /\ Weight(abandoned', w, k) \in Nat
      BY <1>2, <1>3, <1>6, <2>1, WeightType DEF OnlyCopies
    <2> DEFINE others == Weight(First(Tail(queue), prefetched), w, k)
    <2>3. ComingBack(w, k) = Delivered(w) + others /\ others \in Nat
      BY <1>3, <1>6, HandComesBack
    <2>4. ComingBack(w, k)' = others
      <3>1. Held' = 0 /\ prefetched \in Nat
        BY <1>2 DEF Held, IInv, TypeOK
      <3>2. prefetched' + Held' = prefetched
        BY <1>2, <3>1
      <3> QED BY <1>2, <1>6, <3>2 DEF ComingBack
    <2> HIDE DEF others
    <2>5. StillDue(w, k)' = Weight(queue, w, k) + Weight(abandoned, w, k) + others
      BY <1>2, <1>3, <1>4, <1>6, <2>1, <2>2, <2>3, <2>4, <1>1 DEF StillDue
    <2>6. StillDue(w, k) = Weight(queue, w, k) + Weight(abandoned, w, k) + Hand(w) + others
      BY <1>1, <2>3 DEF StillDue
    <2> QED BY <1>1, <1>2, <2>2, <2>3, <2>5, <2>6 DEF Paid
  <1> QED BY <1>5, <1>6

\* A delivery whose retry was not published is abandoned, with the connection still
\* open or lost: a mishap pays for its being handled again.
LEMMA AbandonPays ==
    ASSUME IInv, OnlyCopies, Prefetches, NEW k, NEW w, IsWeight(w, k), NEW u \in Nat,
           RetryFails, pc' \notin Ended
    PROVE  OnlyCopies' /\ Paid(w, k, u, u)
  <1>1. /\ mishaps \in Nat /\ k \in Nat
        /\ Weight(queue, w, k) \in Nat /\ Weight(abandoned, w, k) \in Nat
        /\ Delivered(w) \in 0 .. k /\ Delivered(w) <= Weight(queue, w, k)
        /\ Hand(w) \in 0 .. k /\ ComingBack(w, k) \in Nat
    BY DueTypes
  <1>2. pc = "retry" /\ mishaps' = mishaps + 1
    BY DEF RetryFails, Mishap
  <1>3. PICK q \in MaybeSent :
          /\ queue' = Tail(q) /\ abandoned' = Append(abandoned, Head(q)) /\ message' = NoMessage
          /\ pc' \in {"loop", "idle"} /\ UNCHANGED <<connected, prefetched>>
    BY DEF RetryFails, End, Ended, process
  <1>4. /\ message # NoMessage /\ message \in Copy /\ queue # <<>>
        /\ queue \in Seq(Copy) /\ abandoned \in Seq(Copy)
    BY <1>2 DEF OnlyCopies, IInv, TypeOK, InHand
  <1>5. /\ q \in Seq(Copy) /\ q # <<>>
        /\ Weight(q, w, k) \in {Weight(queue, w, k), Weight(queue, w, k) + Hand(w)}
    <2>1. /\ Append(queue, message) \in Seq(Copy) /\ Append(queue, message) # <<>>
          /\ Weight(Append(queue, message), w, k) = Weight(queue, w, k) + Hand(w)
      BY <1>2, <1>4, WeightOfSent DEF Hand
    <2> QED BY <1>4, <2>1 DEF MaybeSent
  <1>6. /\ queue' \in Seq(Copy) /\ abandoned' \in Seq(Copy)
        /\ Weight(queue', w, k) + Weight(abandoned', w, k) = Weight(q, w, k) + Weight(abandoned, w, k)
    <2>1. /\ Tail(q) \in Seq(Copy) /\ Append(abandoned, Head(q)) \in Seq(Copy)
          /\ Weight(Tail(q), w, k) + Weight(Append(abandoned, Head(q)), w, k)
                 = Weight(q, w, k) + Weight(abandoned, w, k)
      BY <1>4, <1>5, WeightOfMoved
    <2> QED BY <1>3, <2>1
  <1>7. Weight(queue', w, k) \in Nat /\ Weight(abandoned', w, k) \in Nat
    BY <1>6, WeightType
  <1>8. OnlyCopies'
    BY <1>3, <1>6 DEF OnlyCopies
  <1>9. Delivered(w)' = 0 /\ Hand(w)' = 0
    BY <1>3 DEF Delivered, Hand
  <1>10. ComingBack(w, k)' \in Nat /\ ComingBack(w, k)' <= ComingBack(w, k)
    <2>1. CASE connected
      BY <1>3, <2>1 DEF ComingBack
    <2>2. CASE ~connected
      <3> DEFINE others == Weight(First(Tail(queue), prefetched), w, k)
      <3>1. ComingBack(w, k) = Delivered(w) + others /\ others \in Nat
        BY <1>4, <2>2, HandComesBack
      <3>2. First(Tail(q), prefetched) = First(Tail(queue), prefetched)
        <4> DEFINE r == Tail(queue)
                   n == prefetched
        <4>1. Tail(Append(queue, message)) = Append(r, message) /\ r \in Seq(Copy)
              /\ Len(r) = Len(queue) - 1 /\ Len(queue) \in Nat
          BY <1>4, HeadTailAppend, HeadTailProperties, LenProperties
        <4>2. n \in 0 .. Len(r)
          BY <1>4, <4>1 DEF Prefetches, Held, IInv, TypeOK
        <4>3. First(Append(r, message), n) = First(r, n)
          <5> HIDE DEF r, n
          <5> QED BY <1>4, <4>1, <4>2, FirstOfSent
        <4> QED BY <4>1, <4>3 DEF MaybeSent
      <3>3. ComingBack(w, k)' = others
        <4>1. Held' = 0 /\ prefetched \in Nat
          BY <1>3 DEF Held, IInv, TypeOK
        <4>2. prefetched' + Held' = prefetched
          BY <1>3, <4>1
        <4> QED BY <1>3, <2>2, <3>2, <4>2 DEF ComingBack
      <3> QED BY <1>1, <3>1, <3>3
    <2> QED BY <2>1, <2>2
  <1>11. StillDue(w, k)' = Weight(q, w, k) + Weight(abandoned, w, k) + ComingBack(w, k)'
    BY <1>6, <1>7, <1>9, <1>10 DEF StillDue
  <1> DEFINE wq == Weight(q, w, k)
             a == Weight(abandoned, w, k)
             b == Weight(queue, w, k)
             c == ComingBack(w, k)
             d == ComingBack(w, k)'
             h == Hand(w)
             e == Delivered(w)
             t == StillDue(w, k)
             tt == StillDue(w, k)'
  <1>12. tt \in Nat /\ t \in Nat /\ tt <= t + k
    <2>1. t = b + a - e + h + c
      BY DEF StillDue
    <2>2. tt = wq + a + d /\ wq \in {b, b + h} /\ d \in Nat /\ d <= c
      BY <1>5, <1>10, <1>11
    <2>3. a \in Nat /\ b \in Nat /\ c \in Nat /\ h \in 0 .. k /\ e \in 0 .. k /\ e <= b /\ k \in Nat
      BY <1>1
    <2> HIDE DEF wq, a, b, c, d, h, e, t, tt
    <2> QED BY <2>1, <2>2, <2>3
  <1>13. u + StillDue(w, k)' <= 2 * (u + StillDue(w, k)) + k
    BY <1>1, <1>12
  <1> QED BY <1>2, <1>8, <1>13 DEF Paid

\* The handler succeeds or fails, or a deferred message is not published: what is
\* used of the message the hand has less of it.
LEMMA HandPays ==
    ASSUME IInv, OnlyCopies, Prefetches, NEW k, NEW w, IsWeight(w, k),
           NEW u \in Nat, NEW v \in Nat, v + Hand(w)' <= u + Hand(w),
           pc \in {"handle", "defer"}, pc' \in {"retry", "ack"}, message' # NoMessage,
           pc' = "retry" => message' \in Copy,
           UNCHANGED <<connected, prefetched, abandoned>>,
           \/ mishaps' = mishaps /\ queue' = queue
           \/ mishaps' = mishaps + 1 /\ queue' \in MaybeSent
    PROVE  OnlyCopies' /\ Paid(w, k, u, v)
  <1>1. /\ mishaps \in Nat /\ k \in Nat
        /\ Weight(queue, w, k) \in Nat /\ Weight(abandoned, w, k) \in Nat
        /\ Delivered(w) \in 0 .. k /\ Delivered(w) <= Weight(queue, w, k)
        /\ Hand(w) \in 0 .. k /\ ComingBack(w, k) \in Nat
    BY DueTypes
  <1>2. message # NoMessage /\ message \in Copy /\ queue \in Seq(Copy) /\ queue # <<>>
    BY DEF IInv, TypeOK, InHand, OnlyCopies
  <1>3. /\ queue' \in Seq(Copy) /\ Head(queue') = Head(queue)
        /\ \/ mishaps' = mishaps /\ Weight(queue', w, k) = Weight(queue, w, k)
           \/ mishaps' = mishaps + 1 /\ Weight(queue', w, k) \in {Weight(queue, w, k), Weight(queue, w, k) + w[message]}
    <2>1. CASE queue' = queue
      BY <1>2, <2>1
    <2>2. CASE queue' = Append(queue, message) /\ mishaps' = mishaps + 1
      <3>1. /\ Append(queue, message) \in Seq(Copy)
            /\ Head(Append(queue, message)) = Head(queue)
            /\ Weight(Append(queue, message), w, k) = Weight(queue, w, k) + w[message]
        BY <1>2, WeightOfSent
      <3> QED BY <2>2, <3>1
    <2> QED BY <2>1, <2>2 DEF MaybeSent
  <1>4. OnlyCopies'
    BY <1>3 DEF OnlyCopies
  <1>5. w[message] = Hand(w) /\ Hand(w)' \in 0 .. k
    <2>1. pc' = "retry" => w[message'] \in 0 .. k
      BY DueTypes
    <2> QED BY <1>1, <2>1 DEF Hand
  <1>6. Delivered(w)' = Delivered(w) /\ ComingBack(w, k)' = ComingBack(w, k)
    <2>1. Delivered(w)' = Delivered(w)
      BY <1>2, <1>3 DEF Delivered
    <2>2. Held' = Held
      BY <1>2 DEF Held
    <2>3. ~connected => First(queue', prefetched + Held) = First(queue, prefetched + Held)
      BY <1>2, FrontStays DEF MaybeSent
    <2> QED BY <2>1, <2>2, <2>3 DEF ComingBack
  <1>7. CASE mishaps' = mishaps /\ Weight(queue', w, k) = Weight(queue, w, k)
    BY <1>1, <1>4, <1>5, <1>6, <1>7 DEF Paid, StillDue
  <1>8. CASE mishaps' = mishaps + 1 /\ Weight(queue', w, k) \in {Weight(queue, w, k), Weight(queue, w, k) + w[message]}
    <2>1. /\ v + StillDue(w, k)' <= (u + StillDue(w, k)) + k
          /\ StillDue(w, k)' \in Int /\ StillDue(w, k) \in Nat
      BY <1>1, <1>5, <1>6, <1>8 DEF StillDue
    <2>2. v + StillDue(w, k)' <= 2 * (u + StillDue(w, k)) + k
      BY <1>1, <2>1
    <2> QED BY <1>4, <1>8, <2>2 DEF Paid
  <1> QED BY <1>3, <1>7, <1>8

\* When time passes, every copy stays one of its message.
LEMMA TimePays ==
    ASSUME IInv, OnlyCopies, Prefetches, NEW k, NEW w, IsWeight(w, k),
           \A x \in Copy : w[NowDue(x)] = w[x], NEW u \in Nat, TimePasses
    PROVE  OnlyCopies' /\ Paid(w, k, u, u)
  <1>1. /\ mishaps \in Nat /\ k \in Nat
        /\ Weight(queue, w, k) \in Nat /\ Weight(abandoned, w, k) \in Nat
        /\ Delivered(w) \in 0 .. k /\ Hand(w) \in 0 .. k /\ ComingBack(w, k) \in Nat
    BY DueTypes
  <1>2. /\ queue' = [n \in DOMAIN queue |-> NowDue(queue[n])]
        /\ message' = (IF message = NoMessage THEN message ELSE NowDue(message))
        /\ UNCHANGED <<pc, connected, prefetched, abandoned, mishaps>>
    BY DEF TimePasses, process
  <1>3. queue \in Seq(Copy)
    BY DEF OnlyCopies
  <1>4. /\ queue' \in Seq(Copy) /\ Weight(queue', w, k) = Weight(queue, w, k)
        /\ queue # <<>> => queue' # <<>> /\ Head(queue') = NowDue(Head(queue))
    BY <1>2, <1>3, WeightLater
  <1>5. message # NoMessage => message' # NoMessage
    BY <1>2, NowDueType, NoMessageAssumption DEF IInv, TypeOK
  <1>6. ASSUME pc \in {"handle", "defer", "retry"}
        PROVE  message' \in Copy /\ w[message'] = w[message]
    <2>1. message \in Copy /\ message # NoMessage
      BY <1>6 DEF OnlyCopies, IInv, TypeOK
    <2> QED BY <1>2, <2>1, NowDueCopy
  <1>7. OnlyCopies'
    BY <1>2, <1>4, <1>6 DEF OnlyCopies
  <1>8. message # NoMessage => queue # <<>> /\ Head(queue) \in Copy
    BY DueTypes
  <1>9. Delivered(w)' = Delivered(w) /\ Hand(w)' = Hand(w)
    BY <1>2, <1>4, <1>5, <1>6, <1>8 DEF Delivered, Hand
  <1>10. ComingBack(w, k)' = ComingBack(w, k)
    <2> DEFINE q == queue
               r == queue'
               n == prefetched + Held
    <2>1. q \in Seq(Copy) /\ r = [i \in DOMAIN q |-> NowDue(q[i])] /\ n \in 0 .. Len(q)
      BY <1>2, <1>3, LenProperties DEF Prefetches, Held, IInv, TypeOK
    <2>2. prefetched' + Held' = n /\ connected' = connected
      BY <1>2, <1>5 DEF Held
    <2> HIDE DEF q, r, n
    <2>3. Weight(First(r, n), w, k) = Weight(First(q, n), w, k)
      BY <2>1, WeightOfFirstLater
    <2> QED BY <2>2, <2>3 DEF ComingBack, q, r, n
  <1>11. StillDue(w, k)' = StillDue(w, k) /\ StillDue(w, k) \in Int
    BY <1>1, <1>2, <1>4, <1>9, <1>10 DEF StillDue
  <1> QED BY <1>1, <1>2, <1>7, <1>11 DEF Paid

\* A retry is a copy with an attempt less.
LEMMA RetriedCopy ==
    ASSUME IInv, OnlyCopies, pc \in {"handle", "defer"}, AttemptFailed, pc' = "retry"
    PROVE  message' \in Copy
  <1> DEFINE n == message.attempt_number
             left == IF n = -1 THEN n ELSE n - 1
  <1>1. /\ message \in QueueMessage /\ n \in Nat \cup {-1}
        /\ (n = -1 <=> Attempts[message.id] = -1) /\ n <= Attempts[message.id]
        /\ Attempts[message.id] \in Int
    BY AttemptsAssumption DEF OnlyCopies, Copy, QueueMessage
  <1>2. /\ message' = [message EXCEPT !.attempt_number = left, !.started = "later"]
        /\ n = -1 \/ n > 1
    BY <1>1 DEF AttemptFailed, AllowsRetry
  <1>3. left \in Nat \cup {-1} /\ (left = -1 <=> n = -1) /\ left <= Attempts[message.id]
    BY <1>1, <1>2
  <1> HIDE DEF left, n
  <1> QED BY <1>1, <1>2, <1>3 DEF Copy, QueueMessage

\* Every step is paid for: what is used goes up only in the callback, by what the
\* hand has less.
LEMMA StepPays ==
    ASSUME IInv, IInv', OnlyCopies, Prefetches, [AnyStep]_vars, NEW k, NEW w, IsWeight(w, k),
           \A x \in Copy : w[NowDue(x)] = w[x], NEW u \in Nat, NEW v \in Nat,
           HandlerSucceeds \/ HandlerFails \/ DeferFails => v + Hand(w)' <= u + Hand(w),
           ~(HandlerSucceeds \/ HandlerFails \/ DeferFails) => v = u
    PROVE  OnlyCopies' /\ Paid(w, k, u, v)
  <1> DEFINE Holding == {"handle", "defer", "retry", "ack"}
  <1>1. CASE HandlerSucceeds
    <2>1. /\ pc = "handle" /\ pc' = "ack"
          /\ UNCHANGED <<connected, prefetched, message, queue, abandoned, mishaps>>
      BY <1>1 DEF HandlerSucceeds, process
    <2>2. message' # NoMessage
      BY <2>1 DEF IInv, TypeOK
    <2> QED BY <1>1, <2>1, <2>2, HandPays
  <1>2. CASE HandlerFails \/ DeferFails
    <2>1. /\ pc \in {"handle", "defer"} /\ AttemptFailed /\ UNCHANGED <<connected, prefetched, abandoned>>
          /\ \/ mishaps' = mishaps /\ queue' = queue
             \/ mishaps' = mishaps + 1 /\ queue' \in MaybeSent
      BY <1>2 DEF HandlerFails, DeferFails, Mishap, process
    <2>2. pc' \in {"retry", "ack"} /\ message' # NoMessage
      BY <2>1 DEF AttemptFailed, IInv, TypeOK
    <2>3. pc' = "retry" => message' \in Copy
      BY <2>1, RetriedCopy
    <2> QED BY <1>2, <2>1, <2>2, <2>3, HandPays
  <1> SUFFICES ASSUME v = u PROVE OnlyCopies' /\ Paid(w, k, u, v)
    BY <1>1, <1>2
  <1>3. CASE UNCHANGED vars \/ AllOver \/ Start \/ Connect \/ Loop \/ Subscribe \/ LoseConnection
             \/ ExitGracefully \/ SignalTooEarly \/ Restart
    <2>1. /\ UNCHANGED <<message, queue, abandoned>>
          /\ \/ mishaps' = mishaps /\ (connected' \/ (~connected /\ prefetched' \in {0, prefetched}))
             \/ mishaps' = mishaps + 1 /\ (connected \/ connected')
          /\ pc' = pc \/ (pc \notin Holding /\ pc' \notin Holding)
      BY <1>3 DEF vars, AllOver, Start, Connect, Loop, Subscribe, LoseConnection, ExitGracefully,
                  SignalTooEarly, Restart, Mishap, Ended, process
    <2>2. pc' = pc \/ (message = NoMessage /\ pc' \notin {"handle", "defer", "retry", "ack"})
      BY <2>1 DEF IInv, TypeOK
    <2>3. prefetched \in Nat /\ prefetched' \in Nat
      BY DEF IInv, TypeOK
    <2>4. \/ mishaps' = mishaps /\ (connected' \/ (~connected /\ prefetched' <= prefetched))
          \/ mishaps' = mishaps + 1 /\ (connected \/ connected')
      <3>1. prefetched' \in {0, prefetched} => prefetched' <= prefetched
        BY <2>3
      <3> QED BY <2>1, <3>1
    <2>5. Prefetches'
      BY PrefetchesStep
    <2>6. OnlyCopies' /\ Paid(w, k, u, u)
      BY <2>1, <2>2, <2>3, <2>4, <2>5, QuietPays
    <2> QED BY <2>6
  <1>4. CASE Stop \/ SubscribeFails \/ DeliverMalformed \/ AckFails \/ NoticeLoss
    <2>1. /\ mishaps' = mishaps /\ (pc \notin Holding \/ ~connected)
          /\ \E how \in Ended : End(how, queue)
      BY <1>4 DEF Stop, SubscribeFails, DeliverMalformed, Delivery, AckFails, NoticeLoss, Ended
    <2>2. message = NoMessage \/ ~connected
      BY <2>1 DEF IInv, TypeOK
    <2> QED BY <2>1, <2>2, EndPays
  <1>5. CASE ConnectFails \/ Killed
    <2>1. mishaps' = mishaps + 1 /\ \E how \in Ended : End(how, queue)
      BY <1>5 DEF ConnectFails, Killed, Mishap, Ended
    <2> QED BY <2>1, EndPays
  <1>6. CASE RetryFails
    <2>1. CASE pc' \notin Ended
      BY <1>6, <2>1, AbandonPays
    <2>2. CASE pc' \in Ended
      <3>1. pc = "retry" /\ mishaps' = mishaps + 1
        BY <1>6 DEF RetryFails, Mishap
      <3>2. \E q \in MaybeSent : \E how \in Ended : End(how, q)
        BY <1>6, <2>2 DEF RetryFails, Ended
      <3> QED BY <3>1, <3>2, EndPays DEF MaybeSent
    <2> QED BY <2>1, <2>2
  <1> QED BY <1>1, <1>2, <1>3, <1>4, <1>5, <1>6, DeliverPays, RepublishPays, AckPays, TimePays
          DEF AnyStep, Next, Proceed, Fail, Signal, Crash

(***************************************************************************)
(* What a copy counts for: one repetition, or the attempts it has left.    *)
(***************************************************************************)

Once(m) == [x \in Copy |-> IF x.id = m THEN 1 ELSE 0]

Limit(m) == IF Attempts[m] = 0 THEN 1 ELSE Attempts[m]

Left(m) ==
    [x \in Copy |-> IF x.id # m THEN 0 ELSE IF x.attempt_number = 0 THEN 1 ELSE x.attempt_number]

\* What a copy says of its attempts.
LEMMA CopyTypes ==
    ASSUME NEW x \in Copy
    PROVE  /\ x \in QueueMessage /\ x.id \in Ids /\ Attempts[x.id] \in Nat \cup {-1}
           /\ x.attempt_number \in Nat \cup {-1} /\ x.attempt_number <= Attempts[x.id]
           /\ x.attempt_number = -1 <=> Attempts[x.id] = -1
  BY AttemptsAssumption DEF Copy, QueueMessage

\* Time changes neither weight.
LEMMA OnceIsWeight ==
    ASSUME NEW m \in Ids
    PROVE  IsWeight(Once(m), 1) /\ \A x \in Copy : Once(m)[NowDue(x)] = Once(m)[x]
  BY CopyTypes, NowDueCopy, NowDueType DEF IsWeight, Once

\* A message with a limit has no more than that left.
LEMMA LeftIsWeight ==
    ASSUME NEW m \in Ids, Attempts[m] # -1
    PROVE  IsWeight(Left(m), Limit(m)) /\ \A x \in Copy : Left(m)[NowDue(x)] = Left(m)[x]
  <1>1. Limit(m) \in Nat
    BY AttemptsAssumption DEF Limit
  <1>2. \A x \in Copy : Left(m)[x] \in 0 .. Limit(m)
    BY <1>1, CopyTypes DEF Left, Limit
  <1>3. \A x \in Copy : Left(m)[NowDue(x)] = Left(m)[x]
    BY CopyTypes, NowDueCopy, NowDueType DEF Left
  <1> QED BY <1>1, <1>2, <1>3 DEF IsWeight, Left

\* Only the callback uses anything.
LEMMA OnlyInTheCallback ==
    ASSUME [AnyStep]_vars
    PROVE  /\ HandlerSucceeds \/ UNCHANGED successes
           /\ HandlerFails \/ UNCHANGED failures
  BY DEF AnyStep, Next, vars, history, Proceed, Fail, Start, Connect, Loop, Stop, Subscribe,
         SubscribeFails, Delivery, Deliver, DeliverMalformed, HandlerFails, HandlerSucceeds,
         Republish, Ack, AckFails, NoticeLoss,
         ConnectFails, DeferFails, RetryFails, LoseConnection, Signal, ExitGracefully,
         SignalTooEarly, Crash, Killed, Restart, TimePasses, AllOver

\* The callback has a copy, and after a failure the same with an attempt less.
LEMMA InTheCallback ==
    ASSUME IInv, OnlyCopies, HandlerSucceeds \/ HandlerFails \/ DeferFails
    PROVE  /\ pc \in {"handle", "defer"} /\ message \in Copy
           /\ \/ HandlerSucceeds /\ pc' = "ack"
              \/ pc' = "ack" /\ message.attempt_number \in {0, 1}
              \/ /\ pc' = "retry" /\ message' \in Copy /\ message'.id = message.id
                 /\ message.attempt_number = -1 \/ message'.attempt_number = message.attempt_number - 1
                 /\ message.attempt_number = -1 \/ message.attempt_number > 1
  <1>1. pc \in {"handle", "defer"} /\ message \in Copy
    BY DEF HandlerSucceeds, HandlerFails, DeferFails, OnlyCopies
  <1>2. CASE HandlerSucceeds
    BY <1>1, <1>2 DEF HandlerSucceeds
  <1>3. CASE HandlerFails \/ DeferFails
    <2>1. AttemptFailed
      BY <1>3 DEF HandlerFails, DeferFails
    <2>2. message \in QueueMessage /\ message.attempt_number \in Nat \cup {-1}
      BY <1>1, CopyTypes
    <2>3. CASE pc' = "retry"
      <3>1. message' \in Copy
        BY <1>1, <2>1, <2>3, RetriedCopy
      <3>2. /\ message'.id = message.id
            /\ message.attempt_number = -1 \/ message'.attempt_number = message.attempt_number - 1
            /\ message.attempt_number = -1 \/ message.attempt_number > 1
        BY <2>1, <2>2, <2>3 DEF AttemptFailed, AllowsRetry, QueueMessage
      <3> QED BY <1>1, <2>3, <3>1, <3>2
    <2>4. CASE pc' # "retry"
      BY <1>1, <2>1, <2>2, <2>4 DEF AttemptFailed, AllowsRetry
    <2> QED BY <2>3, <2>4
  <1> QED BY <1>2, <1>3

\* What succeeds has been taken out of the hand.
LEMMA OnceInHand ==
    ASSUME IInv, OnlyCopies, NEW m \in Ids, HandlerSucceeds \/ HandlerFails \/ DeferFails
    PROVE  successes'[m] + Hand(Once(m))' <= successes[m] + Hand(Once(m))
  <1>1. successes \in [Ids -> Nat] /\ successes[m] \in Nat
    BY DEF IInv, TypeOK
  <1>2. Hand(Once(m)) = (IF message.id = m THEN 1 ELSE 0)
    BY InTheCallback DEF Hand, Once
  <1>3. Hand(Once(m))' = (IF pc' = "retry" THEN Hand(Once(m)) ELSE 0)
    BY <1>2, InTheCallback DEF Hand, Once
  <1>4. CASE HandlerSucceeds
    <2>1. successes' = [successes EXCEPT ![message.id] = @ + 1] /\ pc' = "ack"
      BY <1>4 DEF HandlerSucceeds
    <2> QED BY <1>1, <1>2, <1>3, <2>1
  <1>5. CASE HandlerFails \/ DeferFails
    <2>1. UNCHANGED successes
      BY <1>5 DEF HandlerFails, DeferFails
    <2> QED BY <1>1, <1>2, <1>3, <2>1
  <1> QED BY <1>4, <1>5

\* What fails uses an attempt of the copy in the hand.
LEMMA LeftInHand ==
    ASSUME IInv, OnlyCopies, NEW m \in Ids, Attempts[m] # -1,
           HandlerSucceeds \/ HandlerFails \/ DeferFails
    PROVE  failures'[m] + Hand(Left(m))' <= failures[m] + Hand(Left(m))
  <1> DEFINE n == message.attempt_number
  <1>1. failures \in [Ids -> Nat] /\ failures[m] \in Nat
    BY DEF IInv, TypeOK
  <1>2. message \in Copy /\ n \in Nat \cup {-1} /\ (message.id = m => n # -1)
    BY InTheCallback, CopyTypes
  <1>3. Hand(Left(m)) = (IF message.id # m THEN 0 ELSE IF n = 0 THEN 1 ELSE n)
    BY InTheCallback DEF Hand, Left
  <1>4. failures'[m] <= failures[m] + (IF message.id = m THEN 1 ELSE 0)
    <2>1. CASE HandlerFails
      BY <1>1, <2>1 DEF HandlerFails
    <2>2. CASE HandlerSucceeds \/ DeferFails
      BY <1>1, <2>2 DEF HandlerSucceeds, DeferFails
    <2> QED BY <2>1, <2>2
  <1>5. failures'[m] \in Nat
    BY <1>1 DEF HandlerFails, HandlerSucceeds, DeferFails
  <1>6. HandlerSucceeds => failures'[m] = failures[m]
    BY DEF HandlerSucceeds
  <1>7. CASE pc' # "retry"
    <2>1. Hand(Left(m))' = 0
      BY <1>7, InTheCallback DEF Hand
    <2>2. HandlerSucceeds \/ n \in {0, 1}
      BY <1>7, InTheCallback
    <2> HIDE DEF n
    <2> QED BY <1>1, <1>2, <1>3, <1>4, <1>5, <1>6, <2>1, <2>2
  <1>8. CASE pc' = "retry"
    <2>1. /\ message' \in Copy /\ message'.id = message.id
          /\ n = -1 \/ (n > 1 /\ message'.attempt_number = n - 1)
          /\ message'.attempt_number \in Nat \cup {-1}
          /\ message'.id = m => message'.attempt_number # -1
      BY <1>8, InTheCallback, CopyTypes
    <2>2. Hand(Left(m))' = (IF message'.id # m THEN 0 ELSE
                              IF message'.attempt_number = 0 THEN 1 ELSE message'.attempt_number)
      BY <1>8, <2>1 DEF Hand, Left
    <2> HIDE DEF n
    <2> QED BY <1>1, <1>2, <1>3, <1>4, <1>5, <2>1, <2>2
  <1> QED BY <1>7, <1>8

(***************************************************************************)
(* The invariant: what is due is never more than what was paid for.        *)
(***************************************************************************)

BoundsInv ==
    /\ OnlyCopies /\ Prefetches
    /\ \A m \in Ids :
         /\ successes[m] + StillDue(Once(m), 1) <= Repetitions(mishaps)
         /\ Attempts[m] # -1 =>
              failures[m] + StillDue(Left(m), Limit(m)) <= Limit(m) * Repetitions(mishaps)

\* A mishap doubles the repetitions, and adds one.
LEMMA RepetitionsGrow ==
    ASSUME NEW n \in Nat
    PROVE  Repetitions(n) \in Nat /\ Repetitions(n + 1) = 2 * Repetitions(n) + 1
  <1>1. 2^n \in Nat \ {0} /\ 2^(n + 1) = 2 * 2^n
    BY PowersOfTwo
  <1>2. 2^(n + 1) \in Nat /\ 2^((n + 1) + 1) = 2 * 2^(n + 1)
    <2> DEFINE l == n + 1
    <2>1. l \in Nat
      OBVIOUS
    <2> HIDE DEF l
    <2>2. 2^l \in Nat /\ 2^(l + 1) = 2 * 2^l
      BY <2>1, PowersOfTwo
    <2> QED BY <2>2 DEF l
  <1> QED BY <1>1, <1>2 DEF Repetitions

\* In the beginning there are only the messages as they came.
LEMMA InitOnlyCopies == Init => OnlyCopies
  <1> SUFFICES ASSUME Init PROVE OnlyCopies
    OBVIOUS
  <1>1. Incoming \in Seq(Ids) /\ Len(Incoming) \in Nat /\ DOMAIN Incoming = 1 .. Len(Incoming)
        /\ \A n \in 1 .. Len(Incoming) : Incoming[n] \in Ids
    BY IncomingAssumption, LenProperties, ElementOfSeq
  <1>2. queue = [n \in 1 .. Len(Incoming) |->
                   [id |-> Incoming[n], attempt_number |-> Attempts[Incoming[n]],
                    started |-> "none"]]
    BY <1>1 DEF Init
  <1>3. \A n \in 1 .. Len(Incoming) :
          [id |-> Incoming[n], attempt_number |-> Attempts[Incoming[n]], started |-> "none"] \in Copy
    BY <1>1, AttemptsAssumption DEF Copy, QueueMessage
  <1>4. queue \in Seq(Copy)
    BY <1>1, <1>2, <1>3, IsASeq
  <1>5. abandoned \in Seq(Copy)
    BY DEF Init
  <1> QED BY <1>4, <1>5 DEF OnlyCopies, Init

\* Never less than nothing is due.
LEMMA DueIsNat ==
    ASSUME IInv, OnlyCopies, Prefetches, NEW k, NEW w, IsWeight(w, k)
    PROVE  StillDue(w, k) \in Nat
  <1>1. /\ k \in Nat /\ Weight(queue, w, k) \in Nat /\ Weight(abandoned, w, k) \in Nat
        /\ Delivered(w) \in 0 .. k /\ Delivered(w) <= Weight(queue, w, k)
        /\ Hand(w) \in 0 .. k /\ ComingBack(w, k) \in Nat
    BY DueTypes
  <1> QED BY <1>1 DEF StillDue

\* In the beginning there is one copy of each message.
LEMMA WeightInit ==
    ASSUME Init, NEW m \in Ids, NEW k, NEW w, IsWeight(w, k),
           \A x \in Copy : x.id # m => w[x] = 0
    PROVE  StillDue(w, k) <= k
  <1>1. /\ queue = [n \in DOMAIN Incoming |->
                      [id |-> Incoming[n], attempt_number |-> Attempts[Incoming[n]],
                       started |-> "none"]]
        /\ abandoned = <<>> /\ message = NoMessage /\ pc = "start"
        /\ connected = FALSE /\ prefetched = 0
    BY DEF Init
  <1>2. queue \in Seq(Copy)
    BY InitOnlyCopies DEF OnlyCopies
  <1>3. PICK n0 \in DOMAIN Incoming : Incoming[n0] = m
    BY DEF Ids
  <1>4. \A n \in DOMAIN queue : n # n0 => w[queue[n]] = 0
    <2> SUFFICES ASSUME NEW n \in DOMAIN queue, n # n0
                 PROVE  w[queue[n]] = 0
      OBVIOUS
    <2>1. n \in DOMAIN Incoming /\ queue[n].id = Incoming[n]
      BY <1>1
    <2>2. queue[n].id # m
      BY <1>3, <2>1, IncomingAssumption
    <2>3. queue[n] \in Copy
      BY <1>2, ElementOfSeq, LenProperties
    <2> QED BY <2>2, <2>3
  <1>5. Weight(queue, w, k) <= k
    <2> DEFINE q == queue
    <2>1. q \in Seq(Copy) /\ (\A n \in DOMAIN q : n # n0 => w[q[n]] = 0) /\ n0 \in Nat
      BY <1>2, <1>4, IncomingAssumption, LenProperties
    <2> HIDE DEF q
    <2>2. Weight(q, w, k) <= k
      BY <2>1, WeightOfOnly
    <2> QED BY <2>2 DEF q
  <1>6. Weight(queue, w, k) \in Nat /\ k \in Nat /\ Weight(abandoned, w, k) = 0
    BY <1>1, <1>2, WeightType, WeightOfNothing DEF IsWeight
  <1>7. Delivered(w) = 0 /\ Hand(w) = 0 /\ ComingBack(w, k) = 0
    <2>1. First(queue, prefetched + Held) = <<>>
      BY <1>1 DEF First, Held
    <2> QED BY <1>1, <2>1, WeightOfNothing DEF Delivered, Hand, ComingBack
  <1> QED BY <1>5, <1>6, <1>7 DEF StillDue

\* That pays for one handling of it, and for its attempts.
LEMMA BoundsInit == Init => BoundsInv
  <1> SUFFICES ASSUME Init PROVE BoundsInv
    OBVIOUS
  <1>1. OnlyCopies /\ IInv
    BY InitOnlyCopies, InitInvariant
  <1>2. Prefetches
    <2>1. Len(queue) \in Nat
      BY <1>1, LenProperties DEF IInv, TypeOK
    <2> QED BY <2>1 DEF Init, Prefetches, Held
  <1>3. Repetitions(0) = 1
    <2>1. 2^0 = 1 /\ 2^(0 + 1) = 2 * 2^0
      BY PowersOfTwo
    <2> QED BY <2>1 DEF Repetitions
  <1>4. ASSUME NEW m \in Ids
        PROVE  successes[m] + StillDue(Once(m), 1) <= Repetitions(mishaps)
    <2>1. IsWeight(Once(m), 1) /\ \A x \in Copy : x.id # m => Once(m)[x] = 0
      BY OnceIsWeight DEF Once
    <2>2. StillDue(Once(m), 1) <= 1
      BY <2>1, WeightInit
    <2>3. successes[m] = 0 /\ mishaps = 0
      BY DEF Init
    <2>4. StillDue(Once(m), 1) \in Int
      BY <1>1, <1>2, <2>1, DueIsNat
    <2> QED BY <1>3, <2>2, <2>3, <2>4
  <1>5. ASSUME NEW m \in Ids, Attempts[m] # -1
        PROVE  failures[m] + StillDue(Left(m), Limit(m)) <= Limit(m) * Repetitions(mishaps)
    <2>1. IsWeight(Left(m), Limit(m)) /\ \A x \in Copy : x.id # m => Left(m)[x] = 0
      BY <1>5, LeftIsWeight DEF Left
    <2>2. StillDue(Left(m), Limit(m)) <= Limit(m)
      BY <2>1, WeightInit
    <2>3. failures[m] = 0 /\ mishaps = 0 /\ Limit(m) \in Nat
      BY <2>1 DEF Init, IsWeight
    <2>4. StillDue(Left(m), Limit(m)) \in Int
      BY <1>1, <1>2, <2>1, DueIsNat
    <2> QED BY <1>3, <2>2, <2>3, <2>4
  <1> QED BY <1>1, <1>2, <1>4, <1>5 DEF BoundsInv

\* And after a step.
LEMMA DueIsIntNext ==
    ASSUME IInv', OnlyCopies', Prefetches', NEW k, NEW w, IsWeight(w, k)
    PROVE  StillDue(w, k)' \in Int
  <1>1. k \in Nat /\ queue' \in Seq(Copy) /\ abandoned' \in Seq(Copy)
    BY DEF OnlyCopies, IsWeight
  <1>2. Weight(queue', w, k) \in Nat /\ Weight(abandoned', w, k) \in Nat
    BY <1>1, WeightType
  <1>3. Hand(w)' \in 0 .. k
    BY <1>1 DEF Hand, OnlyCopies, IsWeight
  <1>4. message' # NoMessage => queue' # <<>>
    BY DEF IInv, InHand
  <1>5. queue' # <<>> => Head(queue') \in Copy
    BY <1>1, WeightOfHead
  <1>6. Delivered(w)' \in 0 .. k
    BY <1>1, <1>4, <1>5 DEF Delivered, IsWeight
  <1>7. ComingBack(w, k)' \in Nat
    <2> DEFINE n == prefetched' + Held'
               q == queue'
    <2>1. q \in Seq(Copy) /\ Len(q) \in Nat
      BY <1>1, LenProperties
    <2>2. prefetched' \in Nat /\ Held' \in {0, 1} /\ n <= Len(q)
      BY DEF IInv, TypeOK, Prefetches, Held
    <2>3. n \in 0 .. Len(q) /\ 0 \in 0 .. n
      <3> DEFINE p == prefetched'
                 h == Held'
                 l == Len(q)
      <3>1. p \in Nat /\ h \in {0, 1} /\ p + h <= l /\ l \in Nat
        BY <2>1, <2>2
      <3> HIDE DEF p, h, l
      <3>2. p + h \in 0 .. l /\ 0 \in 0 .. p + h
        BY <3>1
      <3> QED BY <3>2 DEF p, h, l
    <2> HIDE DEF n, q
    <2>4. Weight(First(q, n), w, k) \in Nat
      BY <2>1, <2>3, WeightOfFirst
    <2> QED BY <2>4 DEF ComingBack, n, q
  <1> QED BY <1>1, <1>2, <1>3, <1>6, <1>7 DEF StillDue

\* No step makes another copy of a message.
LEMMA OnlyCopiesStep ==
    ASSUME IInv, IInv', OnlyCopies, Prefetches, [AnyStep]_vars
    PROVE  OnlyCopies'
  <1> DEFINE w == [x \in Copy |-> 0]
  <1>1. IsWeight(w, 0) /\ \A x \in Copy : w[NowDue(x)] = w[x]
    BY NowDueCopy DEF IsWeight
  <1>2. Hand(w) = 0 /\ (pc' = "retry" => (message' \in Copy => Hand(w)' = 0))
    BY DEF Hand, OnlyCopies
  <1>3. HandlerSucceeds \/ HandlerFails \/ DeferFails => 0 + Hand(w)' <= 0 + Hand(w)
    BY <1>2, InTheCallback DEF Hand
  <1> HIDE DEF w
  <1>4. 0 \in Nat
    OBVIOUS
  <1> QED BY <1>1, <1>3, <1>4, StepPays

\* What was paid for stays paid for, whatever the limit.
LEMMA PaidFor ==
    ASSUME NEW k, NEW w, IsWeight(w, k), IInv, OnlyCopies, Prefetches,
           IInv', OnlyCopies', Prefetches',
           NEW u \in Nat, NEW v \in Nat, Paid(w, k, u, v),
           u + StillDue(w, k) <= k * Repetitions(mishaps)
    PROVE  v + StillDue(w, k)' <= k * Repetitions(mishaps')
  <1>1. k \in Nat /\ mishaps \in Nat /\ StillDue(w, k) \in Int
    BY DueIsNat, DueTypes
  <1>2. StillDue(w, k)' \in Int
    BY DueIsIntNext
  <1> DEFINE n == mishaps
             r == Repetitions(n)
  <1>3. r \in Nat /\ Repetitions(mishaps + 1) = 2 * r + 1
    <2>1. n \in Nat
      BY <1>1
    <2> HIDE DEF n
    <2>2. Repetitions(n) \in Nat /\ Repetitions(n + 1) = 2 * Repetitions(n) + 1
      BY <2>1, RepetitionsGrow
    <2> QED BY <2>2 DEF n
  <1> HIDE DEF r
  <1>4. k * (2 * r + 1) = 2 * (k * r) + k /\ k * r \in Nat
    BY <1>1, <1>3
  <1> DEFINE paid == k * r
  <1> HIDE DEF paid
  <1>5. k * Repetitions(mishaps) = paid /\ k * Repetitions(mishaps + 1) = 2 * paid + k /\ paid \in Nat
    BY <1>3, <1>4 DEF paid, r
  <1>6. CASE mishaps' = mishaps /\ v + StillDue(w, k)' <= u + StillDue(w, k)
    BY <1>1, <1>2, <1>5, <1>6
  <1>7. CASE mishaps' = mishaps + 1 /\ v + StillDue(w, k)' <= 2 * (u + StillDue(w, k)) + k
    <2>1. v + StillDue(w, k)' <= 2 * paid + k
      BY <1>1, <1>2, <1>5, <1>7
    <2> QED BY <1>5, <1>7, <2>1
  <1> QED BY <1>6, <1>7 DEF Paid

\* Every step keeps to what was paid for.
LEMMA BoundsStep == IInv /\ BoundsInv /\ [AnyStep]_vars => BoundsInv'
  <1> SUFFICES ASSUME IInv, BoundsInv, [AnyStep]_vars PROVE BoundsInv'
    OBVIOUS
  <1>1. IInv'
    BY StepInvariant
  <1>2. OnlyCopies /\ Prefetches
    BY DEF BoundsInv
  <1>3. successes \in [Ids -> Nat] /\ failures \in [Ids -> Nat]
        /\ successes' \in [Ids -> Nat] /\ failures' \in [Ids -> Nat]
    BY <1>1 DEF IInv, TypeOK
  <1>4. ASSUME NEW m \in Ids
        PROVE  OnlyCopies' /\ Paid(Once(m), 1, successes[m], successes'[m])
    <2>1. IsWeight(Once(m), 1) /\ \A x \in Copy : Once(m)[NowDue(x)] = Once(m)[x]
      BY OnceIsWeight
    <2>2. successes[m] \in Nat /\ successes'[m] \in Nat
      BY <1>3
    <2>3. HandlerSucceeds \/ HandlerFails \/ DeferFails =>
             successes'[m] + Hand(Once(m))' <= successes[m] + Hand(Once(m))
      BY <1>2, OnceInHand
    <2>4. ~(HandlerSucceeds \/ HandlerFails \/ DeferFails) => successes'[m] = successes[m]
      BY OnlyInTheCallback
    <2> QED BY <1>1, <1>2, <2>1, <2>2, <2>3, <2>4, StepPays
  <1>5. ASSUME NEW m \in Ids, Attempts[m] # -1
        PROVE  OnlyCopies' /\ Paid(Left(m), Limit(m), failures[m], failures'[m])
    <2> DEFINE w == Left(m)
               k == Limit(m)
    <2>1. IsWeight(w, k) /\ \A x \in Copy : w[NowDue(x)] = w[x]
      BY <1>5, LeftIsWeight
    <2>2. failures[m] \in Nat /\ failures'[m] \in Nat
      BY <1>3
    <2>3. HandlerSucceeds \/ HandlerFails \/ DeferFails =>
             failures'[m] + Hand(w)' <= failures[m] + Hand(w)
      BY <1>2, <1>5, LeftInHand
    <2>4. ~(HandlerSucceeds \/ HandlerFails \/ DeferFails) => failures'[m] = failures[m]
      BY OnlyInTheCallback
    <2> HIDE DEF w, k
    <2>5. OnlyCopies' /\ Paid(w, k, failures[m], failures'[m])
      BY <1>1, <1>2, <2>1, <2>2, <2>3, <2>4, StepPays
    <2> QED BY <2>5 DEF w, k
  <1>6. OnlyCopies' /\ Prefetches'
    BY <1>1, <1>2, OnlyCopiesStep, PrefetchesStep
  <1>7. ASSUME NEW m \in Ids
        PROVE  successes'[m] + StillDue(Once(m), 1)' <= Repetitions(mishaps')
    <2>1. IsWeight(Once(m), 1) /\ Paid(Once(m), 1, successes[m], successes'[m])
      BY <1>4, <1>7, OnceIsWeight
    <2>2. successes[m] + StillDue(Once(m), 1) <= Repetitions(mishaps)
      BY DEF BoundsInv
    <2>3. /\ Repetitions(mishaps) \in Nat /\ Repetitions(mishaps') \in Nat
          /\ successes[m] \in Nat /\ successes'[m] \in Nat
      <3>1. mishaps \in Nat /\ mishaps' \in Nat
        BY <1>1 DEF IInv, TypeOK
      <3>2. \A n \in Nat : Repetitions(n) \in Nat
        BY RepetitionsGrow
      <3> QED BY <1>3, <3>1, <3>2
    <2>4. successes[m] + StillDue(Once(m), 1) <= 1 * Repetitions(mishaps)
      BY <2>2, <2>3
    <2>5. successes'[m] + StillDue(Once(m), 1)' <= 1 * Repetitions(mishaps')
      BY <1>1, <1>2, <1>6, <2>1, <2>3, <2>4, PaidFor
    <2> QED BY <2>3, <2>5
  <1>8. ASSUME NEW m \in Ids, Attempts[m] # -1
        PROVE  failures'[m] + StillDue(Left(m), Limit(m))' <= Limit(m) * Repetitions(mishaps')
    <2>1. IsWeight(Left(m), Limit(m)) /\ Paid(Left(m), Limit(m), failures[m], failures'[m])
      BY <1>5, <1>8, LeftIsWeight
    <2>2. failures[m] + StillDue(Left(m), Limit(m)) <= Limit(m) * Repetitions(mishaps)
      BY <1>8 DEF BoundsInv
    <2>3. failures[m] \in Nat /\ failures'[m] \in Nat
      BY <1>3
    <2> QED BY <1>1, <1>2, <1>6, <2>1, <2>2, <2>3, PaidFor
  <1> QED BY <1>6, <1>7, <1>8 DEF BoundsInv

\* A copy counts once for its message.
LEMMA WeightOfCopies ==
    ASSUME NEW m \in Ids, NEW q \in Seq(Copy)
    PROVE  Weight(q, Once(m), 1) = Cardinality({n \in DOMAIN q : q[n].id = m})
  <1> DEFINE S == {n \in DOMAIN q : q[n].id = m}
             f == [n \in S |-> <<n, 1>>]
  <1>1. DOMAIN q = 1 .. Len(q) /\ Len(q) \in Nat /\ \A n \in DOMAIN q : q[n] \in Copy
    BY LenProperties, ElementOfSeq
  <1>2. \A n \in DOMAIN q : Once(m)[q[n]] = IF q[n].id = m THEN 1 ELSE 0
    BY <1>1 DEF Once
  <1>3. Units(q, Once(m), 1) = {<<n, 1>> : n \in S}
    <2>1. ASSUME NEW u \in Units(q, Once(m), 1) PROVE u \in {<<n, 1>> : n \in S}
      <3>1. u[1] \in DOMAIN q /\ u[2] = 1 /\ u = <<u[1], u[2]>> /\ u[2] <= Once(m)[q[u[1]]]
        BY <1>1 DEF Units
      <3>2. u[1] \in S
        BY <1>2, <3>1
      <3> QED BY <3>1, <3>2
    <2>2. ASSUME NEW n \in S PROVE <<n, 1>> \in Units(q, Once(m), 1)
      BY <1>1, <1>2 DEF Units
    <2> QED BY <2>1, <2>2
  <1>4. /\ f \in [S -> Units(q, Once(m), 1)]
        /\ \A a, b \in S : f[a] = f[b] => a = b
        /\ \A t \in Units(q, Once(m), 1) : \E s \in S : f[s] = t
    BY <1>3
  <1>5. IsFiniteSet(S)
    <2>1. IsFiniteSet(DOMAIN q)
      BY <1>1, FS_Interval
    <2> QED BY <2>1, FS_Subset
  <1> HIDE DEF S, f
  <1>6. Cardinality(Units(q, Once(m), 1)) = Cardinality(S)
    BY <1>4, <1>5, Matching
  <1> QED BY <1>6 DEF Weight, S

\* The copies of a message that are still to be handled are due.
LEMMA CopiesAreDue ==
    ASSUME IInv, OnlyCopies, Prefetches, NEW m \in Ids
    PROVE  Copies(m) \in Int /\ Copies(m) <= StillDue(Once(m), 1)
  <1> DEFINE w == Once(m)
  <1>1. IsWeight(w, 1)
    BY OnceIsWeight
  <1>2. Copies(m) = Weight(queue, w, 1) + Weight(abandoned, w, 1)
                      - (IF pc = "ack" /\ message.id = m THEN 1 ELSE 0)
    BY WeightOfCopies DEF Copies, OnlyCopies
  <1> HIDE DEF w
  <1>3. /\ Weight(queue, w, 1) \in Nat /\ Weight(abandoned, w, 1) \in Nat
        /\ Delivered(w) \in 0 .. 1 /\ Hand(w) \in 0 .. 1 /\ ComingBack(w, 1) \in Nat
        /\ message # NoMessage => Head(queue) \in Copy
    BY <1>1, DueTypes
  <1>4. Delivered(w) = (IF message # NoMessage /\ message.id = m THEN 1 ELSE 0)
    <2>1. message # NoMessage => Head(queue).id = message.id
      BY DEF IInv, InHand
    <2> QED BY <1>3, <2>1 DEF Delivered, w, Once
  <1>5. Hand(w) = (IF pc \in {"handle", "defer", "retry"} /\ message.id = m THEN 1 ELSE 0)
    BY DEF Hand, OnlyCopies, w, Once
  <1>6. message # NoMessage <=> pc \in {"handle", "defer", "retry", "ack"}
    BY DEF IInv, TypeOK
  <1>7. Hand(w) - Delivered(w) >= - (IF pc = "ack" /\ message.id = m THEN 1 ELSE 0)
    BY <1>4, <1>5, <1>6
  <1>8. Copies(m) \in Int /\ Copies(m) <= StillDue(w, 1)
    BY <1>2, <1>3, <1>7 DEF StillDue
  <1> QED BY <1>8 DEF w

\* A message is handled no more often than what is due allows.
LEMMA RepetitionsBounded == ASSUME IInv, BoundsInv PROVE RepetitionsAreBounded
  <1> SUFFICES ASSUME NEW m \in Ids PROVE successes[m] + Copies(m) <= Repetitions(mishaps)
    BY DEF RepetitionsAreBounded
  <1>1. OnlyCopies /\ Prefetches /\ successes[m] + StillDue(Once(m), 1) <= Repetitions(mishaps)
    BY DEF BoundsInv
  <1>2. Copies(m) <= StillDue(Once(m), 1) /\ Copies(m) \in Int /\ StillDue(Once(m), 1) \in Int
    BY <1>1, CopiesAreDue, OnceIsWeight, DueIsNat
  <1>3. successes[m] \in Nat /\ Repetitions(mishaps) \in Nat
    BY RepetitionsGrow DEF IInv, TypeOK
  <1> QED BY <1>1, <1>2, <1>3

\* Nor tried.
LEMMA AttemptsBounded == ASSUME IInv, BoundsInv PROVE AttemptsAreBounded
  <1> SUFFICES ASSUME NEW m \in Ids, Attempts[m] # -1
               PROVE  failures[m] <= (IF Attempts[m] = 0 THEN 1 ELSE Attempts[m]) * Repetitions(mishaps)
    BY DEF AttemptsAreBounded
  <1> DEFINE k == Limit(m)
  <1>1. OnlyCopies /\ Prefetches /\ failures[m] + StillDue(Left(m), k) <= k * Repetitions(mishaps)
    BY DEF BoundsInv
  <1>2. StillDue(Left(m), k) \in Nat
    BY <1>1, LeftIsWeight, DueIsNat
  <1>3. failures[m] \in Nat /\ Repetitions(mishaps) \in Nat /\ k \in Nat
    BY LeftIsWeight, RepetitionsGrow DEF IInv, TypeOK, IsWeight
  <1>4. k = (IF Attempts[m] = 0 THEN 1 ELSE Attempts[m])
    BY DEF Limit
  <1>5. k * Repetitions(mishaps) \in Int
    BY <1>3
  <1> HIDE DEF k
  <1>6. failures[m] <= k * Repetitions(mishaps)
    BY <1>1, <1>2, <1>3, <1>5
  <1> QED BY <1>4, <1>6

\* The invariant of the consumer's state, and what is due is always paid for.
THEOREM BoundsInvariant == Spec => [](IInv /\ BoundsInv)
  <1>1. Init => IInv /\ BoundsInv
    BY InitInvariant, BoundsInit
  <1>2. IInv /\ BoundsInv /\ [AnyStep]_vars => (IInv /\ BoundsInv)'
    BY StepInvariant, BoundsStep
  <1>3. [Next]_vars => [AnyStep]_vars
    BY DEF AnyStep
  <1> QED BY <1>1, <1>2, <1>3, PTL DEF Spec

\* A message is handled once, and repeated at most as often as doubling with each
\* connection, publication or process that fails allows, however much of the queue a
\* lost connection redelivers and whatever the callback copies.
THEOREM RepetitionsAlwaysBounded == Spec => []RepetitionsAreBounded
  <1>1. IInv /\ BoundsInv => RepetitionsAreBounded
    BY RepetitionsBounded
  <1> QED BY <1>1, BoundsInvariant, PTL

\* The handler fails on a message attempt_number times, for each of these repetitions.
THEOREM AttemptsAlwaysBounded == Spec => []AttemptsAreBounded
  <1>1. IInv /\ BoundsInv => AttemptsAreBounded
    BY AttemptsBounded
  <1> QED BY <1>1, BoundsInvariant, PTL
=============================================================================
