----------------------- MODULE MessageConsumerProofs -----------------------
(***************************************************************************)
(* MessageConsumer is correct for every queue of messages, whichever of    *)
(* them do not parse, and for every kind and number of failures: it        *)
(* implements AtLeastOnce, loses no message, and gives none up too early.  *)
(***************************************************************************)
EXTENDS MessageConsumer, SequenceTheorems, TLAPS

(***************************************************************************)
(* Queues as sets of their messages.                                       *)
(***************************************************************************)

\* An empty queue holds nothing.
LEMMA RangeOfNothing == Range(<<>>) = {}
  BY DEF Range

\* A queue holds its head and its rest.
LEMMA RangeOfTail ==
    ASSUME NEW S, NEW q \in Seq(S), q # <<>>
    PROVE  Range(q) = {Head(q)} \cup Range(Tail(q))
  <1>1. /\ Len(Tail(q)) = Len(q) - 1 /\ Len(q) \in Nat /\ Len(q) # 0 /\ Head(q) = q[1]
        /\ \A n \in 1 .. Len(Tail(q)) : Tail(q)[n] = q[n + 1]
        /\ DOMAIN q = 1 .. Len(q) /\ DOMAIN Tail(q) = 1 .. Len(Tail(q))
    BY HeadTailProperties, LenProperties, EmptySeq
  <1>2. ASSUME NEW n \in DOMAIN q PROVE q[n] \in {Head(q)} \cup Range(Tail(q))
    <2>1. CASE n = 1
      BY <1>1, <2>1
    <2>2. CASE n # 1
      <3>1. n - 1 \in DOMAIN Tail(q) /\ Tail(q)[n - 1] = q[n]
        BY <1>1, <2>2
      <3> QED BY <3>1 DEF Range
    <2> QED BY <2>1, <2>2
  <1>3. ASSUME NEW n \in DOMAIN Tail(q) PROVE Tail(q)[n] \in Range(q)
    <2>1. n + 1 \in DOMAIN q /\ Tail(q)[n] = q[n + 1]
      BY <1>1
    <2> QED BY <2>1 DEF Range
  <1>4. Head(q) \in Range(q)
    BY <1>1 DEF Range
  <1> QED BY <1>2, <1>3, <1>4 DEF Range

\* A publication adds its message.
LEMMA RangeOfAppend ==
    ASSUME NEW S, NEW q \in Seq(S), NEW x \in S
    PROVE  Range(Append(q, x)) = Range(q) \cup {x}
  <1>1. /\ Len(Append(q, x)) = Len(q) + 1 /\ Len(q) \in Nat /\ Append(q, x) \in Seq(S)
        /\ \A n \in 1 .. Len(q) : Append(q, x)[n] = q[n]
        /\ Append(q, x)[Len(q) + 1] = x
    BY AppendProperties, LenProperties
  <1>2. DOMAIN q = 1 .. Len(q) /\ DOMAIN Append(q, x) = 1 .. Len(q) + 1
    BY <1>1, LenProperties
  <1> QED BY <1>1, <1>2 DEF Range

\* A message at the end changes neither the head nor the rest before it.
LEMMA AppendToRest ==
    ASSUME NEW S, NEW q \in Seq(S), q # <<>>, NEW x \in S
    PROVE  /\ Append(q, x) \in Seq(S) /\ Append(q, x) # <<>>
           /\ Head(Append(q, x)) = Head(q) /\ Tail(Append(q, x)) \in Seq(S)
           /\ Range(Append(q, x)) = Range(q) \cup {x}
           /\ Range(Tail(Append(q, x))) = Range(Tail(q)) \cup {x}
  <1> DEFINE t == Tail(q)
  <1>1. Append(q, x) \in Seq(S) /\ Append(q, x) # <<>> /\ Range(Append(q, x)) = Range(q) \cup {x}
    BY AppendProperties, RangeOfAppend
  <1>2. Head(Append(q, x)) = Head(q) /\ Tail(Append(q, x)) = Append(t, x)
    BY HeadTailAppend
  <1>3. t \in Seq(S)
    BY HeadTailProperties
  <1> HIDE DEF t
  <1>4. Append(t, x) \in Seq(S) /\ Range(Append(t, x)) = Range(t) \cup {x}
    BY <1>3, AppendProperties, RangeOfAppend
  <1> QED BY <1>1, <1>2, <1>4 DEF t

\* A message whose delay has passed is the same message.
LEMMA NowDueType ==
    ASSUME NEW x \in QueueMessage
    PROVE  /\ NowDue(x) \in QueueMessage /\ NowDue(x).id = x.id
           /\ NowDue(x).attempt_number = x.attempt_number
  BY DEF NowDue, QueueMessage

\* The messages when time has passed.
LEMMA RangeLater ==
    ASSUME NEW q \in Seq(QueueMessage), NEW r, r = [n \in DOMAIN q |-> NowDue(q[n])]
    PROVE  /\ r \in Seq(QueueMessage)
           /\ Range(r) = {NowDue(x) : x \in Range(q)}
           /\ q # <<>> => r # <<>> /\ Head(r) = NowDue(Head(q)) /\ Tail(r) \in Seq(QueueMessage)
                          /\ Range(Tail(r)) = {NowDue(x) : x \in Range(Tail(q))}
  <1>1. Len(q) \in Nat /\ DOMAIN q = 1 .. Len(q)
    BY LenProperties
  <1>2. \A n \in 1 .. Len(q) : NowDue(q[n]) \in QueueMessage
    BY NowDueType, ElementOfSeq
  <1>3. r = [n \in 1 .. Len(q) |-> NowDue(q[n])]
    BY <1>1
  <1>4. r \in Seq(QueueMessage)
    BY <1>1, <1>2, <1>3, IsASeq
  <1>5. DOMAIN r = DOMAIN q /\ Len(r) = Len(q)
    BY <1>1, <1>3, <1>4, LenProperties
  <1>6. Range(r) = {NowDue(x) : x \in Range(q)}
    BY <1>5 DEF Range
  <1>7. ASSUME q # <<>>
        PROVE  /\ r # <<>> /\ Head(r) = NowDue(Head(q)) /\ Tail(r) \in Seq(QueueMessage)
               /\ Range(Tail(r)) = {NowDue(x) : x \in Range(Tail(q))}
    <2>1. Len(q) # 0 /\ r # <<>>
      BY <1>4, <1>5, <1>7, EmptySeq
    <2>2. Head(q) = q[1] /\ Head(r) = r[1] /\ 1 \in DOMAIN q
      BY <1>1, <1>4, <1>7, <2>1
    <2>3. Tail(q) \in Seq(QueueMessage) /\ Len(Tail(q)) = Len(q) - 1
          /\ \A n \in 1 .. Len(q) - 1 : Tail(q)[n] = q[n + 1]
      BY <1>7, HeadTailProperties
    <2>4. Tail(r) \in Seq(QueueMessage) /\ Len(Tail(r)) = Len(q) - 1
          /\ \A n \in 1 .. Len(q) - 1 : Tail(r)[n] = r[n + 1]
      BY <1>4, <1>5, <2>1, HeadTailProperties
    <2>5. DOMAIN Tail(q) = 1 .. Len(q) - 1 /\ DOMAIN Tail(r) = 1 .. Len(q) - 1
      BY <2>3, <2>4, LenProperties
    <2>6. \A n \in 1 .. Len(q) - 1 : Tail(r)[n] = NowDue(Tail(q)[n])
      BY <1>1, <1>3, <2>3, <2>4
    <2>7. Range(Tail(r)) = {NowDue(x) : x \in Range(Tail(q))}
      BY <2>5, <2>6 DEF Range
    <2> QED BY <1>5, <2>1, <2>2, <2>4, <2>7
  <1> QED BY <1>4, <1>6, <1>7

(***************************************************************************)
(* The inductive invariant.                                                *)
(***************************************************************************)

\* The callback's message is the head of the queue.
InHand == message # NoMessage => queue # <<>> /\ Head(queue).id = message.id

\* Of its attempt_number, a copy has left what failures have not used up.
Counted(x) ==
    /\ x.attempt_number = -1 <=> Attempts[x.id] = -1
    /\ x.attempt_number + failures[x.id] + mishaps >= Attempts[x.id]

AttemptsAreCounted ==
    /\ \A x \in Range(queue) \cup Range(abandoned) : Counted(x)
    /\ pc \in {"handle", "defer", "retry"} => Counted(message)

IInv ==
    /\ TypeOK /\ InHand
    /\ NoMessageIsLost
    /\ AttemptsAreCounted /\ GivenUpAfterAllAttempts

\* The copies that are still to be handled.
Waiting(q, a, p) == (IF p = "ack" THEN Range(Tail(q)) ELSE Range(q)) \cup Range(a)

\* The messages of which there is one.
Unsettled(copies) == {m \in Ids : \E x \in copies : x.id = m}

\* The pending messages, with queue q, abandoned copies a and the callback at p.
PendingIn(q, a, p) ==
    {m \in Ids : \/ \E n \in DOMAIN q : q[n].id = m /\ ~(n = 1 /\ p = "ack")
                 \/ \E n \in DOMAIN a : a[n].id = m}

\* What Pending says of positions in the queue, said of the copies.
LEMMA PendingIsUnsettled ==
    ASSUME NEW q \in Seq(QueueMessage), NEW a \in Seq(QueueMessage), NEW p,
           p = "ack" => q # <<>>
    PROVE  PendingIn(q, a, p) = Unsettled(Waiting(q, a, p))
  <1>1. CASE p # "ack"
    BY <1>1 DEF PendingIn, Unsettled, Waiting, Range
  <1>2. CASE p = "ack"
    <2>1. Len(q) \in Nat /\ DOMAIN q = 1 .. Len(q)
      BY LenProperties
    <2>2. /\ Len(Tail(q)) = Len(q) - 1 /\ DOMAIN Tail(q) = 1 .. Len(q) - 1
          /\ \A n \in 1 .. Len(q) - 1 : Tail(q)[n] = q[n + 1]
      BY <1>2, <2>1, HeadTailProperties, LenProperties
    <2>3. ASSUME NEW n \in DOMAIN q, n # 1 PROVE q[n] \in Range(Tail(q))
      <3>1. n - 1 \in DOMAIN Tail(q) /\ Tail(q)[n - 1] = q[n]
        BY <2>1, <2>2, <2>3
      <3> QED BY <3>1 DEF Range
    <2>4. ASSUME NEW n \in DOMAIN Tail(q)
          PROVE  n + 1 \in DOMAIN q /\ n + 1 # 1 /\ Tail(q)[n] = q[n + 1]
      BY <2>1, <2>2
    <2>5. ASSUME NEW m \in PendingIn(q, a, p) PROVE m \in Unsettled(Waiting(q, a, p))
      BY <1>2, <2>3, <2>5 DEF PendingIn, Unsettled, Waiting, Range
    <2>6. ASSUME NEW m \in Ids, NEW n \in DOMAIN Tail(q), Tail(q)[n].id = m
          PROVE  m \in PendingIn(q, a, p)
      BY <2>4, <2>6 DEF PendingIn
    <2>7. ASSUME NEW m \in Unsettled(Waiting(q, a, p)) PROVE m \in PendingIn(q, a, p)
      <3>1. CASE \E x \in Range(a) : x.id = m
        BY <2>7, <3>1 DEF PendingIn, Unsettled, Range
      <3>2. CASE \E x \in Range(Tail(q)) : x.id = m
        BY <2>6, <2>7, <3>2 DEF Unsettled, Range
      <3> QED BY <1>2, <2>7, <3>1, <3>2 DEF Unsettled, Waiting
    <2> QED BY <2>5, <2>7
  <1> QED BY <1>1, <1>2

(***************************************************************************)
(* What every step does.                                                   *)
(***************************************************************************)

Simulated == [Promise!Next]_(Promise!promised)

\* A step of the consumer, or of whoever signals or kills its process, as a
\* supervisor does.
AnyStep == Next \/ ExitGracefully \/ SignalTooEarly \/ Killed

\* The copies that wait, before and after a step.
Now == Waiting(queue, abandoned, pc)
Afterwards == Waiting(queue', abandoned', pc')

\* The pending messages of AtLeastOnce are those with a copy that waits.
LEMMA PendingBefore ==
    ASSUME IInv
    PROVE  {m \in Ids : Pending(m)} = Unsettled(Now)
  <1>1. {m \in Ids : Pending(m)} = PendingIn(queue, abandoned, pc)
    BY DEF Pending, PendingIn
  <1>2. pc = "ack" => queue # <<>>
    BY DEF IInv, TypeOK, InHand
  <1> QED BY <1>1, <1>2, PendingIsUnsettled DEF IInv, TypeOK, Now

\* And so they are after the step.
LEMMA PendingAfter ==
    ASSUME TypeOK', InHand'
    PROVE  {m \in Ids : Pending(m)'} = Unsettled(Afterwards)
  <1>1. {m \in Ids : Pending(m)'} = PendingIn(queue', abandoned', pc')
    BY DEF Pending, PendingIn
  <1>2. pc' = "ack" => queue' # <<>>
    BY DEF TypeOK, InHand
  <1>3. queue' \in Seq(QueueMessage) /\ abandoned' \in Seq(QueueMessage)
    BY DEF TypeOK
  <1> QED BY <1>1, <1>2, <1>3, PendingIsUnsettled DEF Afterwards

\* A step that settles nothing and keeps the messages that wait.
LEMMA Stutters ==
    ASSUME IInv, TypeOK', InHand', UNCHANGED <<successes, given_up>>,
           Unsettled(Afterwards) = Unsettled(Now)
    PROVE  Simulated
  <1>1. {m \in Ids : Pending(m)'} = {m \in Ids : Pending(m)}
    BY PendingBefore, PendingAfter
  <1> QED BY <1>1 DEF Simulated, Promise!promised

\* A step that settles m, and may keep another copy of it.
LEMMA Settles ==
    ASSUME IInv, TypeOK', InHand', NEW m \in Unsettled(Now),
           Unsettled(Afterwards) \in {Unsettled(Now), Unsettled(Now) \ {m}},
           \/ /\ successes' = [successes EXCEPT ![m] = @ + 1]
              /\ UNCHANGED given_up
           \/ /\ given_up' = given_up \cup {m}
              /\ UNCHANGED successes
    PROVE  Simulated
  <1>1. /\ {n \in Ids : Pending(n)} = Unsettled(Now)
        /\ {n \in Ids : Pending(n)'} = Unsettled(Afterwards)
    BY PendingBefore, PendingAfter
  <1>2. m \in Ids
    BY DEF Unsettled
  <1>3. Promise!Settle(m)
    BY <1>1 DEF Promise!Settle
  <1>4. Promise!Handle(m) \/ Promise!GiveUp(m)
    BY <1>3 DEF Promise!Handle, Promise!GiveUp
  <1> QED BY <1>2, <1>4 DEF Simulated, Promise!Next

\* A step after which m waits again, if it did not wait already.
LEMMA ComesBack ==
    ASSUME IInv, TypeOK', InHand', NEW m \in Ids, UNCHANGED <<successes, given_up>>,
           Unsettled(Afterwards) = Unsettled(Now) \cup {m}
    PROVE  Simulated
  <1>1. /\ {n \in Ids : Pending(n)} = Unsettled(Now)
        /\ {n \in Ids : Pending(n)'} = Unsettled(Afterwards)
    BY PendingBefore, PendingAfter
  <1>2. CASE m \in Unsettled(Now)
    <2>1. Unsettled(Afterwards) = Unsettled(Now)
      BY <1>2
    <2> QED BY <2>1, Stutters
  <1>3. CASE m \notin Unsettled(Now)
    <2>1. successes[m] > 0 \/ m \in given_up
      BY <1>1, <1>3 DEF IInv, NoMessageIsLost
    <2>2. Promise!ComeBack(m)
      BY <1>1, <2>1 DEF Promise!ComeBack
    <2> QED BY <2>2 DEF Simulated, Promise!Next
  <1> QED BY <1>2, <1>3

\* AtLeastOnce loses no message, so no step that simulates one of its steps does.
LEMMA NothingGetsLost ==
    ASSUME IInv, TypeOK', Simulated
    PROVE  NoMessageIsLost'
  <1> SUFFICES ASSUME NEW m \in Ids, ~(successes'[m] > 0), m \notin given_up'
               PROVE  Pending(m)'
    BY DEF NoMessageIsLost
  <1>1. successes[m] \in Nat /\ successes'[m] \in Nat
    BY DEF IInv, TypeOK
  <1>2. CASE UNCHANGED Promise!promised
    <2>1. {n \in Ids : Pending(n)'} = {n \in Ids : Pending(n)}
      BY <1>2 DEF Promise!promised
    <2>2. Pending(m)
      BY <1>2 DEF IInv, NoMessageIsLost, Promise!promised
    <2> QED BY <2>1, <2>2
  <1>3. ASSUME NEW n \in Ids, Promise!Handle(n) \/ Promise!GiveUp(n) \/ Promise!ComeBack(n)
        PROVE  Pending(m)'
    <2>1. successes \in [Ids -> Nat]
      BY DEF IInv, TypeOK
    <2>2. CASE Promise!ComeBack(n)
      <3>1. Pending(m)
        BY <2>2 DEF Promise!ComeBack, IInv, NoMessageIsLost
      <3> QED BY <2>2, <3>1 DEF Promise!ComeBack
    <2>3. CASE Promise!Handle(n)
      <3>1. n # m /\ successes'[m] = successes[m]
        BY <1>1, <2>1, <2>3 DEF Promise!Handle
      <3>2. Pending(m)
        BY <2>3, <3>1 DEF Promise!Handle, IInv, NoMessageIsLost
      <3> QED BY <2>3, <3>1, <3>2 DEF Promise!Handle, Promise!Settle
    <2>4. CASE Promise!GiveUp(n)
      <3>1. n # m /\ Pending(m)
        BY <2>4 DEF Promise!GiveUp, IInv, NoMessageIsLost
      <3> QED BY <2>4, <3>1 DEF Promise!GiveUp, Promise!Settle
    <2> QED BY <1>3, <2>2, <2>3, <2>4
  <1> QED BY <1>2, <1>3 DEF Simulated, Promise!Next

(***************************************************************************)
(* The steps.                                                              *)
(***************************************************************************)

\* The types of the copies, and of the one in hand.
LEMMA MessageTypes ==
    ASSUME IInv
    PROVE  /\ Range(queue) \in SUBSET QueueMessage /\ Range(abandoned) \in SUBSET QueueMessage
           /\ message # NoMessage =>
                /\ message \in QueueMessage /\ queue # <<>>
                /\ Head(queue) \in QueueMessage /\ Head(queue).id = message.id
                /\ Tail(queue) \in Seq(QueueMessage)
                /\ Range(queue) = {Head(queue)} \cup Range(Tail(queue))
           /\ \A x \in QueueMessage : x.id \in Ids /\ x.attempt_number \in Nat \cup {-1}
  <1>1. queue \in Seq(QueueMessage) /\ abandoned \in Seq(QueueMessage)
    BY DEF IInv, TypeOK
  <1>2. message # NoMessage => message \in QueueMessage /\ queue # <<>> /\ Head(queue).id = message.id
    BY DEF IInv, TypeOK, InHand
  <1>3. queue # <<>> => /\ Head(queue) \in QueueMessage /\ Tail(queue) \in Seq(QueueMessage)
                        /\ Range(queue) = {Head(queue)} \cup Range(Tail(queue))
    BY <1>1, HeadTailProperties, RangeOfTail
  <1>4. Range(queue) \in SUBSET QueueMessage /\ Range(abandoned) \in SUBSET QueueMessage
    BY <1>1, RangeOfSeq
  <1>5. \A x \in QueueMessage : x.id \in Ids /\ x.attempt_number \in Nat \cup {-1}
    BY DEF QueueMessage
  <1> QED BY <1>2, <1>3, <1>4, <1>5

\* More failures leave every count right.
LEMMA CountedStays ==
    ASSUME IInv, NEW x \in QueueMessage, Counted(x),
           mishaps' \in Nat, mishaps' >= mishaps,
           failures' \in [Ids -> Nat], \A m \in Ids : failures'[m] >= failures[m]
    PROVE  Counted(x)'
  <1>1. x.id \in Ids /\ x.attempt_number \in Int
    BY DEF QueueMessage
  <1>2. /\ Attempts[x.id] \in Int /\ failures[x.id] \in Nat /\ failures'[x.id] \in Nat
        /\ failures'[x.id] >= failures[x.id] /\ mishaps \in Nat
    BY <1>1, AttemptsAssumption DEF IInv, TypeOK
  <1> QED BY <1>1, <1>2 DEF Counted

\* And what was given up, was given up rightly.
LEMMA GivenUpStays ==
    ASSUME IInv, UNCHANGED given_up,
           mishaps' \in Nat, mishaps' >= mishaps,
           failures' \in [Ids -> Nat], \A m \in Ids : failures'[m] >= failures[m]
    PROVE  GivenUpAfterAllAttempts'
  <1> SUFFICES ASSUME NEW m \in given_up
               PROVE  Attempts[m] # -1 /\ failures'[m] + mishaps' >= Attempts[m]
    BY DEF GivenUpAfterAllAttempts
  <1>1. /\ m \in Ids /\ Attempts[m] \in Int /\ mishaps \in Nat
        /\ failures[m] \in Nat /\ failures'[m] \in Nat /\ failures'[m] >= failures[m]
    BY AttemptsAssumption DEF IInv, TypeOK
  <1>2. Attempts[m] # -1 /\ failures[m] + mishaps >= Attempts[m]
    BY DEF IInv, GivenUpAfterAllAttempts
  <1> QED BY <1>1, <1>2

\* A step of the process that moves no message.
LEMMA QuietStep ==
    ASSUME IInv, TypeOK', UNCHANGED <<message, queue, abandoned, history>>,
           mishaps' >= mishaps, pc' = "ack" <=> pc = "ack",
           pc' \in {"handle", "defer", "retry"} => pc' = pc
    PROVE  IInv' /\ Simulated
  <1>1. InHand'
    BY DEF IInv, InHand
  <1>2. Simulated
    BY <1>1, Stutters DEF history, Now, Afterwards, Waiting
  <1>3. mishaps' \in Nat /\ failures' \in [Ids -> Nat] /\ \A m \in Ids : failures'[m] >= failures[m]
    BY DEF IInv, TypeOK, history
  <1>4. AttemptsAreCounted'
    <2>1. \A x \in Range(queue) \cup Range(abandoned) : Counted(x)'
      BY <1>3, MessageTypes, CountedStays DEF IInv, AttemptsAreCounted
    <2>2. pc' \in {"handle", "defer", "retry"} => message \in QueueMessage /\ Counted(message)
      BY DEF IInv, TypeOK, AttemptsAreCounted
    <2>3. pc' \in {"handle", "defer", "retry"} => Counted(message)'
      BY <1>3, <2>2, CountedStays DEF Counted
    <2> QED BY <2>1, <2>3 DEF AttemptsAreCounted
  <1>5. GivenUpAfterAllAttempts'
    BY <1>3, GivenUpStays DEF history
  <1> QED BY <1>1, <1>2, <1>4, <1>5, NothingGetsLost DEF IInv

\* However the process ends, what it did not acknowledge is in the queue again.
LEMMA EndStep ==
    ASSUME IInv, NEW how \in Ended, NEW q \in {queue} \cup (IF pc = "retry" THEN MaybeSent ELSE {}),
           End(how, q), UNCHANGED <<kill_now, malformed, history>>,
           mishaps' \in Nat, mishaps' >= mishaps
    PROVE  IInv' /\ Simulated
  <1>1. /\ q \in Seq(QueueMessage)
        /\ \/ Range(q) = Range(queue)
           \/ pc = "retry" /\ Range(q) = Range(queue) \cup {message}
    <2>1. queue \in Seq(QueueMessage) /\ (pc = "retry" => message \in QueueMessage)
      BY DEF IInv, TypeOK
    <2>2. q = queue \/ (pc = "retry" /\ q = Append(queue, message))
      BY DEF MaybeSent
    <2>3. CASE q = queue
      BY <2>1, <2>3
    <2>4. CASE pc = "retry" /\ q = Append(queue, message)
      <3>1. q \in Seq(QueueMessage) /\ Range(q) = Range(queue) \cup {message}
        BY <2>1, <2>4, RangeOfAppend, AppendProperties
      <3> QED BY <2>4, <3>1
    <2> QED BY <2>2, <2>3, <2>4
  <1>2. /\ queue' \in Seq(QueueMessage) /\ abandoned' = <<>>
        /\ Range(queue') = Range(abandoned) \cup Range(q)
    BY <1>1, ConcatProperties, RangeConcatenation DEF End, IInv, TypeOK
  <1>3. TypeOK'
    <2>1. abandoned' \in Seq(QueueMessage)
      BY <1>2
    <2>2. /\ pc' = how /\ message' = NoMessage /\ prefetched' = 0
          /\ connected' = FALSE /\ consuming' = FALSE
      BY DEF End
    <2> QED BY <1>2, <2>1, <2>2 DEF IInv, TypeOK, Ended, history
  <1>4. InHand'
    BY DEF End, InHand
  <1>5. Afterwards = Range(queue')
    BY <1>2, RangeOfNothing DEF Afterwards, Waiting, End, Ended
  <1>6. ASSUME pc # "ack" PROVE Simulated
    <2>1. Unsettled(Afterwards) = Unsettled(Now)
      <3>1. Now = Range(queue) \cup Range(abandoned)
        BY <1>6 DEF Now, Waiting
      <3>2. pc = "retry" => Head(queue) \in Range(queue) /\ Head(queue).id = message.id
        BY MessageTypes DEF IInv, TypeOK
      <3> QED BY <1>1, <1>2, <1>5, <3>1, <3>2 DEF Unsettled
    <2>2. UNCHANGED <<successes, given_up>>
      BY DEF history
    <2> QED BY <1>3, <1>4, <2>1, <2>2, Stutters
  <1>7. ASSUME pc = "ack" PROVE Simulated
    <2>1. /\ message \in QueueMessage /\ message.id \in Ids
          /\ Range(queue) = {Head(queue)} \cup Range(Tail(queue)) /\ Head(queue).id = message.id
      BY <1>7, MessageTypes DEF IInv, TypeOK
    <2>2. Unsettled(Afterwards) = Unsettled(Now) \cup {message.id}
      BY <1>1, <1>2, <1>5, <1>7, <2>1 DEF Unsettled, Now, Waiting
    <2>3. UNCHANGED <<successes, given_up>>
      BY DEF history
    <2> QED BY <1>3, <1>4, <2>1, <2>2, <2>3, ComesBack
  <1>8. failures' \in [Ids -> Nat] /\ \A m \in Ids : failures'[m] >= failures[m]
    BY DEF IInv, TypeOK, history
  <1>9. AttemptsAreCounted'
    <2>1. \A x \in Range(queue') : x \in QueueMessage /\ Counted(x)
      BY <1>1, <1>2, MessageTypes DEF IInv, TypeOK, AttemptsAreCounted
    <2>2. \A x \in Range(queue') : Counted(x)'
      BY <1>8, <2>1, CountedStays
    <2> QED BY <1>2, <2>2, RangeOfNothing DEF AttemptsAreCounted, End, Ended
  <1>10. GivenUpAfterAllAttempts'
    BY <1>8, GivenUpStays DEF history
  <1> QED BY <1>3, <1>4, <1>6, <1>7, <1>9, <1>10, NothingGetsLost DEF IInv

\* A message comes to the callback.
LEMMA DeliverStep ==
    ASSUME IInv, Deliver
    PROVE  IInv' /\ Simulated
  <1>1. /\ pc = "idle" /\ queue # <<>> /\ message' = Head(queue) /\ pc' \in {"handle", "defer"}
        /\ UNCHANGED <<connected, consuming, kill_now, malformed, queue, abandoned, history, mishaps>>
        /\ prefetched' = (IF connected THEN prefetched ELSE prefetched - 1)
        /\ connected \/ prefetched > 0
    BY DEF Deliver, Delivery
  <1>2. Head(queue) \in QueueMessage /\ Head(queue) \in Range(queue)
    BY <1>1, HeadTailProperties, RangeOfTail DEF IInv, TypeOK
  <1>3. TypeOK'
    <2>1. message' \in QueueMessage /\ message' # NoMessage
      BY <1>1, <1>2, NoMessageAssumption
    <2>2. prefetched' \in Nat
      BY <1>1 DEF IInv, TypeOK
    <2> QED BY <1>1, <2>1, <2>2 DEF IInv, TypeOK, Running, Consuming, history
  <1>4. InHand'
    BY <1>1 DEF InHand
  <1>5. Simulated
    BY <1>1, <1>3, <1>4, Stutters DEF history, Now, Afterwards, Waiting
  <1>6. AttemptsAreCounted'
    BY <1>1, <1>2 DEF IInv, AttemptsAreCounted, Counted, history
  <1>7. GivenUpAfterAllAttempts'
    BY <1>1 DEF IInv, GivenUpAfterAllAttempts, history
  <1> QED BY <1>3, <1>4, <1>5, <1>6, <1>7, NothingGetsLost DEF IInv

\* The handler succeeds: the copy in hand is settled.
LEMMA HandlerSucceedsStep ==
    ASSUME IInv, HandlerSucceeds
    PROVE  IInv' /\ Simulated
  <1>1. /\ pc = "handle" /\ pc' = "ack"
        /\ successes' = [successes EXCEPT ![message.id] = @ + 1]
        /\ UNCHANGED <<process, message, queue, abandoned, failures, given_up, mishaps>>
    BY DEF HandlerSucceeds
  <1>2. /\ message # NoMessage /\ message \in QueueMessage /\ message.id \in Ids
        /\ queue # <<>> /\ Head(queue).id = message.id
        /\ Range(queue) = {Head(queue)} \cup Range(Tail(queue))
    BY <1>1, MessageTypes DEF IInv, TypeOK
  <1>3. TypeOK'
    <2>1. successes' \in [Ids -> Nat]
      BY <1>1, <1>2 DEF IInv, TypeOK
    <2> QED BY <1>1, <1>2, <2>1 DEF IInv, TypeOK, Running, Consuming, process
  <1>4. InHand'
    BY <1>1 DEF IInv, InHand
  <1>5. Simulated
    <2>1. message.id \in Unsettled(Now)
      BY <1>1, <1>2 DEF Unsettled, Now, Waiting
    <2>2. Unsettled(Afterwards) \in {Unsettled(Now), Unsettled(Now) \ {message.id}}
      BY <1>1, <1>2 DEF Unsettled, Now, Afterwards, Waiting
    <2> QED BY <1>1, <1>3, <1>4, <2>1, <2>2, Settles
  <1>6. AttemptsAreCounted'
    BY <1>1 DEF IInv, AttemptsAreCounted, Counted
  <1>7. GivenUpAfterAllAttempts'
    BY <1>1 DEF IInv, GivenUpAfterAllAttempts
  <1> QED BY <1>3, <1>4, <1>5, <1>6, <1>7, NothingGetsLost DEF IInv

\* An attempt fails, in the handler or in the publication of a deferred message:
\* what is counted against the message goes up by one, what it has left goes down
\* by one, and it is given up when nothing is left.
LEMMA AttemptFailedStep ==
    ASSUME IInv, pc \in {"handle", "defer"}, AttemptFailed,
           queue' = queue \/ (pc = "defer" /\ queue' \in MaybeSent),
           UNCHANGED <<process, abandoned, successes>>,
           \/ mishaps' = mishaps /\ failures' = [failures EXCEPT ![message.id] = @ + 1]
           \/ mishaps' = mishaps + 1 /\ failures' = failures
    PROVE  IInv' /\ Simulated
  <1> DEFINE n == message.attempt_number
             left == IF n = -1 THEN n ELSE n - 1
  <1>1. /\ message # NoMessage /\ message \in QueueMessage /\ message.id \in Ids
        /\ n \in Nat \cup {-1}
        /\ queue \in Seq(QueueMessage) /\ queue # <<>> /\ Head(queue).id = message.id
        /\ Head(queue) \in QueueMessage /\ Tail(queue) \in Seq(QueueMessage)
        /\ Range(queue) = {Head(queue)} \cup Range(Tail(queue))
    BY MessageTypes DEF IInv, TypeOK
  <1>2. /\ message' = [message EXCEPT !.attempt_number = left, !.started = "later"]
        /\ IF AllowsRetry(n)
           THEN pc' = "retry" /\ UNCHANGED given_up
           ELSE pc' = "ack" /\ given_up' = given_up \cup {message.id}
    BY DEF AttemptFailed
  <1>3. message' \in QueueMessage /\ message'.id = message.id /\ message'.attempt_number = left
    <2>1. left \in Nat \cup {-1}
      BY <1>1
    <2> HIDE DEF left
    <2> QED BY <1>1, <1>2, <2>1 DEF QueueMessage
  <1>4. \/ queue' = queue
        \/ queue' = Append(queue, message)
    BY DEF MaybeSent
  <1>5. /\ queue' \in Seq(QueueMessage) /\ queue' # <<>> /\ Head(queue') = Head(queue)
        /\ Range(queue') \in {Range(queue), Range(queue) \cup {message}}
        /\ Range(Tail(queue')) \in {Range(Tail(queue)), Range(Tail(queue)) \cup {message}}
    <2>1. CASE queue' = queue
      BY <1>1, <2>1
    <2>2. CASE queue' = Append(queue, message)
      BY <1>1, <2>2, AppendToRest
    <2> QED BY <1>4, <2>1, <2>2
  <1>6. /\ mishaps' \in Nat /\ mishaps' >= mishaps /\ failures' \in [Ids -> Nat]
        /\ \A m \in Ids : failures'[m] >= failures[m]
        /\ failures'[message.id] + mishaps' = failures[message.id] + mishaps + 1
    <2>1. mishaps \in Nat /\ failures \in [Ids -> Nat]
      BY DEF IInv, TypeOK
    <2>2. CASE mishaps' = mishaps + 1 /\ failures' = failures
      <3>1. failures[message.id] \in Nat /\ \A m \in Ids : failures[m] \in Nat
        BY <1>1, <2>1
      <3> QED BY <2>1, <2>2, <3>1
    <2>3. CASE mishaps' = mishaps /\ failures' = [failures EXCEPT ![message.id] = @ + 1]
      BY <1>1, <2>1, <2>3
    <2> QED BY <2>2, <2>3
  <1>7. TypeOK'
    <2>1. message' # NoMessage /\ pc' \in {"retry", "ack"} /\ given_up' \subseteq Ids
      BY <1>1, <1>2, <1>3, NoMessageAssumption DEF IInv, TypeOK
    <2> QED BY <1>3, <1>5, <1>6, <2>1 DEF IInv, TypeOK, Running, Consuming, process
  <1>8. InHand'
    BY <1>1, <1>3, <1>5 DEF InHand
  <1>9. Simulated
    <2>1. Now = Range(queue) \cup Range(abandoned)
      BY DEF Now, Waiting
    <2>2. message.id \in Unsettled(Now)
      BY <1>1, <2>1 DEF Unsettled
    <2>3. CASE AllowsRetry(n)
      <3>1. Afterwards = Range(queue') \cup Range(abandoned)
        BY <1>2, <2>3 DEF Afterwards, Waiting
      <3>2. Unsettled(Afterwards) = Unsettled(Now)
        BY <1>1, <1>5, <2>1, <3>1 DEF Unsettled
      <3> QED BY <1>2, <1>7, <1>8, <2>3, <3>2, Stutters
    <2>4. CASE ~AllowsRetry(n)
      <3>1. Afterwards = Range(Tail(queue')) \cup Range(abandoned)
        BY <1>2, <2>4 DEF Afterwards, Waiting
      <3>2. Unsettled(Afterwards) \in {Unsettled(Now), Unsettled(Now) \ {message.id}}
        BY <1>1, <1>5, <2>1, <3>1 DEF Unsettled
      <3> QED BY <1>2, <1>7, <1>8, <2>2, <2>4, <3>2, Settles
    <2> QED BY <2>3, <2>4
  <1>10. Counted(message)
    BY DEF IInv, AttemptsAreCounted
  <1>11. AttemptsAreCounted'
    <2>1. \A x \in Range(queue) \cup Range(abandoned) : x \in QueueMessage /\ Counted(x)
      BY MessageTypes DEF IInv, AttemptsAreCounted
    <2>2. \A x \in Range(queue') \cup Range(abandoned') : Counted(x)'
      BY <1>1, <1>5, <1>6, <1>10, <2>1, CountedStays
    <2>3. AllowsRetry(n) => Counted(message)'
      <3> SUFFICES ASSUME AllowsRetry(n) PROVE Counted(message)'
        OBVIOUS
      <3>1. left = -1 <=> n = -1
        BY <1>1 DEF AllowsRetry
      <3>2. /\ Attempts[message.id] \in Int /\ mishaps \in Nat /\ failures[message.id] \in Nat
            /\ mishaps' \in Nat /\ failures'[message.id] \in Nat
        BY <1>1, <1>6, AttemptsAssumption DEF IInv, TypeOK
      <3>3. left + failures'[message.id] + mishaps' >= Attempts[message.id]
        <4>1. n + failures[message.id] + mishaps >= Attempts[message.id]
          BY <1>10 DEF Counted
        <4>2. n = -1 => Attempts[message.id] = -1
          BY <1>10 DEF Counted
        <4>3. failures'[message.id] + mishaps' = failures[message.id] + mishaps + 1
          BY <1>6
        <4>4. n \in Nat \cup {-1}
          BY <1>1
        <4> HIDE DEF n
        <4>5. CASE n = -1
          BY <3>2, <4>2, <4>5
        <4>6. CASE n # -1
          BY <3>2, <4>1, <4>3, <4>4, <4>6
        <4> QED BY <4>5, <4>6
      <3> QED BY <1>3, <1>10, <3>1, <3>3 DEF Counted
    <2> QED BY <1>2, <2>2, <2>3 DEF AttemptsAreCounted
  <1>12. GivenUpAfterAllAttempts'
    <2>1. CASE AllowsRetry(n)
      BY <1>2, <1>6, <2>1, GivenUpStays
    <2>2. CASE ~AllowsRetry(n)
      <3>1. n \in {0, 1}
        BY <1>1, <2>2 DEF AllowsRetry
      <3>2. /\ Attempts[message.id] \in Int /\ mishaps \in Nat /\ failures[message.id] \in Nat
        BY <1>1, AttemptsAssumption DEF IInv, TypeOK
      <3>3. Attempts[message.id] # -1 /\ failures'[message.id] + mishaps' >= Attempts[message.id]
        BY <1>6, <1>10, <3>1, <3>2 DEF Counted
      <3>4. ASSUME NEW m \in given_up
            PROVE  Attempts[m] # -1 /\ failures'[m] + mishaps' >= Attempts[m]
        <4>1. /\ m \in Ids /\ Attempts[m] \in Int /\ mishaps \in Nat
              /\ failures[m] \in Nat /\ failures'[m] \in Nat /\ failures'[m] >= failures[m]
          BY <1>6, AttemptsAssumption DEF IInv, TypeOK
        <4>2. Attempts[m] # -1 /\ failures[m] + mishaps >= Attempts[m]
          BY DEF IInv, GivenUpAfterAllAttempts
        <4> QED BY <1>6, <4>1, <4>2
      <3> QED BY <1>2, <2>2, <3>3, <3>4 DEF GivenUpAfterAllAttempts
    <2> QED BY <2>1, <2>2
  <1> QED BY <1>7, <1>8, <1>9, <1>11, <1>12, NothingGetsLost DEF IInv

\* The message in hand is published again: another copy waits, and the callback
\* goes on to acknowledge the one it has.
LEMMA RepublishStep ==
    ASSUME IInv, Republish
    PROVE  IInv' /\ Simulated
  <1>1. /\ pc \in {"defer", "retry"} /\ pc' = "ack" /\ queue' = Append(queue, message)
        /\ UNCHANGED <<process, message, abandoned, history, mishaps>>
    BY DEF Republish
  <1>2. /\ message # NoMessage /\ message \in QueueMessage /\ queue \in Seq(QueueMessage)
        /\ queue # <<>> /\ Head(queue).id = message.id /\ Tail(queue) \in Seq(QueueMessage)
        /\ Range(queue) = {Head(queue)} \cup Range(Tail(queue))
    BY <1>1, MessageTypes DEF IInv, TypeOK
  <1>3. /\ queue' \in Seq(QueueMessage) /\ queue' # <<>> /\ Head(queue') = Head(queue)
        /\ Range(queue') = Range(queue) \cup {message}
        /\ Range(Tail(queue')) = Range(Tail(queue)) \cup {message}
    BY <1>1, <1>2, AppendToRest
  <1>4. TypeOK'
    BY <1>1, <1>2, <1>3 DEF IInv, TypeOK, Running, Consuming, process, history
  <1>5. InHand'
    BY <1>1, <1>2, <1>3 DEF InHand
  <1>6. Simulated
    <2>1. Unsettled(Afterwards) = Unsettled(Now)
      BY <1>1, <1>2, <1>3 DEF Unsettled, Now, Afterwards, Waiting
    <2> QED BY <1>1, <1>4, <1>5, <2>1, Stutters DEF history
  <1>7. AttemptsAreCounted'
    BY <1>1, <1>3 DEF IInv, AttemptsAreCounted, Counted, history
  <1>8. GivenUpAfterAllAttempts'
    BY <1>1 DEF IInv, GivenUpAfterAllAttempts, history
  <1> QED BY <1>4, <1>5, <1>6, <1>7, <1>8, NothingGetsLost DEF IInv

\* The copy in hand leaves the queue, acknowledged or abandoned.
LEMMA TakeStep ==
    ASSUME IInv, message # NoMessage, message' = NoMessage, pc' \in {"idle", "loop"},
           \/ /\ pc = "ack" /\ queue' = Tail(queue) /\ mishaps' = mishaps
              /\ abandoned' \in {abandoned, Append(abandoned, Head(queue))}
           \/ /\ pc = "retry" /\ mishaps' = mishaps + 1
              /\ \E q \in MaybeSent :
                    queue' = Tail(q) /\ abandoned' = Append(abandoned, Head(q)),
           UNCHANGED <<process, history>>
    PROVE  IInv' /\ Simulated
  <1>1. /\ message \in QueueMessage /\ queue \in Seq(QueueMessage) /\ abandoned \in Seq(QueueMessage)
        /\ queue # <<>> /\ Head(queue) \in QueueMessage /\ Head(queue).id = message.id
        /\ Tail(queue) \in Seq(QueueMessage)
        /\ Range(queue) = {Head(queue)} \cup Range(Tail(queue))
        /\ mishaps \in Nat
    BY MessageTypes DEF IInv, TypeOK
  <1>2. /\ queue' \in Seq(QueueMessage) /\ abandoned' \in Seq(QueueMessage)
        /\ Range(queue') \in {Range(Tail(queue)), Range(Tail(queue)) \cup {message}}
        /\ Range(abandoned') \in {Range(abandoned), Range(abandoned) \cup {Head(queue)}}
        /\ IF pc = "ack"
           THEN queue' = Tail(queue)
           ELSE pc = "retry" /\ Range(abandoned') = Range(abandoned) \cup {Head(queue)}
    <2>1. CASE pc = "ack"
      <3>1. /\ Append(abandoned, Head(queue)) \in Seq(QueueMessage)
            /\ Range(Append(abandoned, Head(queue))) = Range(abandoned) \cup {Head(queue)}
        BY <1>1, AppendProperties, RangeOfAppend
      <3> QED BY <1>1, <2>1, <3>1
    <2>2. CASE pc = "retry"
      <3>1. PICK q \in MaybeSent : queue' = Tail(q) /\ abandoned' = Append(abandoned, Head(q))
        BY <2>2
      <3>2. /\ Head(q) = Head(queue) /\ Tail(q) \in Seq(QueueMessage)
            /\ Range(Tail(q)) \in {Range(Tail(queue)), Range(Tail(queue)) \cup {message}}
        <4>1. CASE q = queue
          BY <1>1, <4>1
        <4>2. CASE q = Append(queue, message)
          BY <1>1, <4>2, AppendToRest
        <4> QED BY <3>1, <4>1, <4>2 DEF MaybeSent
      <3>3. /\ abandoned' \in Seq(QueueMessage)
            /\ Range(abandoned') = Range(abandoned) \cup {Head(queue)}
        BY <1>1, <3>1, <3>2, AppendProperties, RangeOfAppend
      <3> QED BY <2>2, <3>1, <3>2, <3>3
    <2> QED BY <2>1, <2>2
  <1>3. mishaps' \in Nat /\ mishaps' >= mishaps
    BY <1>1
  <1>4. TypeOK'
    BY <1>2, <1>3 DEF IInv, TypeOK, Running, Consuming, process, history
  <1>5. InHand'
    BY DEF InHand
  <1>6. Simulated
    <2>1. Afterwards = Range(queue') \cup Range(abandoned')
      BY DEF Afterwards, Waiting
    <2>2. CASE pc = "ack"
      <3>1. Now = Range(Tail(queue)) \cup Range(abandoned)
        BY <2>2 DEF Now, Waiting
      <3>2. message.id \in Ids
        BY <1>1 DEF QueueMessage
      <3>3. CASE Range(abandoned') = Range(abandoned)
        <4>1. Afterwards = Now
          BY <1>2, <2>1, <2>2, <3>1, <3>3
        <4> QED BY <1>4, <1>5, <4>1, Stutters DEF history
      <3>4. CASE Range(abandoned') = Range(abandoned) \cup {Head(queue)}
        <4>1. Unsettled(Afterwards) = Unsettled(Now) \cup {message.id}
          BY <1>1, <1>2, <2>1, <2>2, <3>1, <3>2, <3>4 DEF Unsettled
        <4> QED BY <1>4, <1>5, <3>2, <4>1, ComesBack DEF history
      <3> QED BY <1>2, <3>3, <3>4
    <2>3. CASE pc = "retry"
      <3>1. Now = Range(queue) \cup Range(abandoned)
        BY <2>3 DEF Now, Waiting
      <3>2. Unsettled(Afterwards) = Unsettled(Now)
        BY <1>1, <1>2, <2>1, <2>3, <3>1 DEF Unsettled
      <3> QED BY <1>4, <1>5, <3>2, Stutters DEF history
    <2> QED BY <2>2, <2>3
  <1>7. failures' \in [Ids -> Nat] /\ \A m \in Ids : failures'[m] >= failures[m]
    BY DEF IInv, TypeOK, history
  <1>8. AttemptsAreCounted'
    <2>1. \A x \in Range(queue) \cup Range(abandoned) : x \in QueueMessage /\ Counted(x)
      BY MessageTypes DEF IInv, AttemptsAreCounted
    <2>2. pc = "retry" => Counted(message)
      BY DEF IInv, AttemptsAreCounted
    <2>3. \A x \in Range(queue') \cup Range(abandoned') : x \in QueueMessage /\ Counted(x)
      BY <1>1, <1>2, <2>1, <2>2
    <2>4. \A x \in Range(queue') \cup Range(abandoned') : Counted(x)'
      BY <1>3, <1>7, <2>3, CountedStays
    <2> QED BY <2>4 DEF AttemptsAreCounted
  <1>9. GivenUpAfterAllAttempts'
    BY <1>3, <1>7, GivenUpStays DEF history
  <1> QED BY <1>4, <1>5, <1>6, <1>8, <1>9, NothingGetsLost DEF IInv

\* Time changes when a message may be handled, not whose it is or what it has left.
LEMMA TimePassesStep ==
    ASSUME IInv, TimePasses
    PROVE  IInv' /\ Simulated
  <1>1. /\ queue' = [n \in DOMAIN queue |-> NowDue(queue[n])]
        /\ message' = IF message = NoMessage THEN message ELSE NowDue(message)
        /\ UNCHANGED <<pc, process, abandoned, history, mishaps>>
    BY DEF TimePasses
  <1>2. /\ queue \in Seq(QueueMessage) /\ Range(queue) \in SUBSET QueueMessage
        /\ queue # <<>> => Tail(queue) \in Seq(QueueMessage)
    BY MessageTypes, HeadTailProperties DEF IInv, TypeOK
  <1>3. /\ queue' \in Seq(QueueMessage)
        /\ Range(queue') = {NowDue(x) : x \in Range(queue)}
        /\ queue # <<>> => /\ queue' # <<>> /\ Head(queue') = NowDue(Head(queue))
                           /\ Range(Tail(queue')) = {NowDue(x) : x \in Range(Tail(queue))}
    BY <1>1, <1>2, RangeLater
  <1>4. message # NoMessage =>
          /\ message' \in QueueMessage /\ message'.id = message.id
          /\ message'.attempt_number = message.attempt_number
    BY <1>1, NowDueType DEF IInv, TypeOK
  <1>5. message' # NoMessage <=> message # NoMessage
    BY <1>1, <1>4, NoMessageAssumption
  <1>6. TypeOK'
    BY <1>1, <1>3, <1>4, <1>5 DEF IInv, TypeOK, process, history
  <1>7. InHand'
    <2>1. message # NoMessage => Head(queue) \in QueueMessage
      BY MessageTypes
    <2>2. message # NoMessage => NowDue(Head(queue)).id = Head(queue).id
      BY <2>1, NowDueType
    <2> QED BY <1>3, <1>4, <1>5, <2>2 DEF IInv, InHand
  <1>8. Simulated
    <2>1. pc = "ack" => queue # <<>> /\ Range(Tail(queue)) \in SUBSET QueueMessage
      BY <1>2, RangeOfSeq DEF IInv, TypeOK, InHand
    <2>2. Unsettled(Range(queue')) = Unsettled(Range(queue))
      BY <1>2, <1>3, NowDueType DEF Unsettled
    <2>3. pc = "ack" => Unsettled(Range(Tail(queue'))) = Unsettled(Range(Tail(queue)))
      BY <1>3, <2>1, NowDueType DEF Unsettled
    <2>4. Unsettled(Afterwards) = Unsettled(Now)
      BY <1>1, <2>2, <2>3 DEF Unsettled, Now, Afterwards, Waiting
    <2> QED BY <1>1, <1>6, <1>7, <2>4, Stutters DEF history
  <1>9. AttemptsAreCounted'
    <2>1. \A x \in Range(queue) : x \in QueueMessage /\ Counted(x) /\ Counted(NowDue(x))
      BY <1>2, NowDueType DEF IInv, AttemptsAreCounted, Counted
    <2>2. \A x \in Range(queue') : Counted(x)'
      BY <1>1, <1>3, <2>1 DEF Counted, history
    <2>3. pc \in {"handle", "defer", "retry"} => Counted(message)'
      BY <1>1, <1>4 DEF IInv, TypeOK, AttemptsAreCounted, Counted, history
    <2> QED BY <1>1, <2>2, <2>3 DEF IInv, AttemptsAreCounted, Counted, history
  <1>10. GivenUpAfterAllAttempts'
    BY <1>1 DEF IInv, GivenUpAfterAllAttempts, history
  <1> QED BY <1>6, <1>7, <1>8, <1>9, <1>10, NothingGetsLost DEF IInv

(***************************************************************************)
(* The specification.                                                      *)
(***************************************************************************)

\* At the beginning every message waits, with all its attempts.
LEMMA InitInvariant == Init => IInv /\ Promise!Init
  <1> SUFFICES ASSUME Init PROVE IInv /\ Promise!Init
    OBVIOUS
  <1>1. /\ pc = "start" /\ prefetched = 0 /\ message = NoMessage /\ abandoned = <<>> /\ mishaps = 0
        /\ successes = [m \in Ids |-> 0] /\ failures = [m \in Ids |-> 0] /\ given_up = {}
        /\ connected = FALSE /\ consuming = FALSE /\ kill_now = FALSE
        /\ malformed \in SUBSET Unparsable
    BY DEF Init
  <1>2. Len(Incoming) \in Nat /\ DOMAIN Incoming = 1 .. Len(Incoming)
    BY IncomingAssumption, LenProperties
  <1>3. queue = [n \in 1 .. Len(Incoming) |->
                   [id |-> Incoming[n], attempt_number |-> Attempts[Incoming[n]],
                    started |-> "none"]]
    BY <1>2 DEF Init
  <1>4. ASSUME NEW n \in 1 .. Len(Incoming)
        PROVE  /\ queue[n] \in QueueMessage /\ queue[n].id = Incoming[n] /\ Incoming[n] \in Ids
               /\ queue[n].attempt_number = Attempts[Incoming[n]]
               /\ Attempts[Incoming[n]] \in Nat \cup {-1}
    <2>1. Incoming[n] \in Ids
      BY <1>2 DEF Ids
    <2>2. Attempts[Incoming[n]] \in Nat \cup {-1}
      BY <2>1, AttemptsAssumption
    <2> QED BY <1>3, <2>1, <2>2 DEF QueueMessage
  <1>5. queue \in Seq(QueueMessage) /\ DOMAIN queue = 1 .. Len(Incoming)
    BY <1>2, <1>3, <1>4, IsASeq
  <1>6. TypeOK
    <2>1. abandoned \in Seq(QueueMessage)
      BY <1>1
    <2>2. successes \in [Ids -> Nat] /\ failures \in [Ids -> Nat]
      BY <1>1
    <2> QED BY <1>1, <1>5, <2>1, <2>2 DEF TypeOK, Running, Consuming
  <1>7. ASSUME NEW m \in Ids PROVE Pending(m)
    <2>1. PICK n \in 1 .. Len(Incoming) : Incoming[n] = m
      BY <1>2 DEF Ids
    <2> QED BY <1>1, <1>4, <1>5, <2>1 DEF Pending
  <1>8. AttemptsAreCounted
    <2>1. ASSUME NEW x \in Range(queue) PROVE Counted(x)
      <3>1. PICK n \in 1 .. Len(Incoming) : x = queue[n]
        BY <1>5 DEF Range
      <3>2. x.id \in Ids /\ x.attempt_number = Attempts[x.id] /\ Attempts[x.id] \in Int
        BY <1>4, <3>1
      <3> QED BY <1>1, <3>2 DEF Counted
    <2> QED BY <1>1, <2>1, RangeOfNothing DEF AttemptsAreCounted
  <1>9. Promise!Init
    BY <1>1, <1>7 DEF Promise!Init
  <1> QED BY <1>1, <1>6, <1>7, <1>8, <1>9
     DEF IInv, InHand, NoMessageIsLost, GivenUpAfterAllAttempts

\* Every step keeps the invariant and is a step of AtLeastOnce, or none.
LEMMA StepInvariant == IInv /\ [AnyStep]_vars => IInv' /\ Simulated
  <1> SUFFICES ASSUME IInv, [AnyStep]_vars PROVE IInv' /\ Simulated
    OBVIOUS
  <1>0. mishaps \in Nat
    BY DEF IInv, TypeOK
  <1> DEFINE Holding == {"handle", "defer", "retry", "ack"}
             Away == pc \notin Holding /\ pc' \notin Holding
             Quiet == /\ UNCHANGED <<message, queue, abandoned, history, malformed>>
                      /\ mishaps' \in {mishaps, mishaps + 1}
                      /\ pc' \in Running \cup Ended
                      /\ connected' \in BOOLEAN /\ consuming' \in BOOLEAN /\ kill_now' \in BOOLEAN
                      /\ prefetched' \in Nat
                      /\ pc' # pc => Away
  <1>1. CASE Quiet
    <2>1. TypeOK'
      <3>1. message' # NoMessage <=> pc' \in {"handle", "defer", "retry", "ack"}
        BY <1>1 DEF IInv, TypeOK
      <3>2. mishaps' \in Nat /\ UNCHANGED <<successes, failures, given_up>>
        BY <1>0, <1>1 DEF history
      <3> QED BY <1>1, <3>1, <3>2, Zenon DEF IInv, TypeOK
    <2>2. UNCHANGED <<message, queue, abandoned, history>>
      BY <1>1
    <2>3. (pc' = "ack" <=> pc = "ack") /\ (pc' \in {"handle", "defer", "retry"} => pc' = pc)
      BY <1>1
    <2>4. mishaps' >= mishaps
      BY <1>0, <1>1
    <2> QED BY <2>1, <2>2, <2>3, <2>4, QuietStep
  <1>2. CASE UNCHANGED vars \/ AllOver
    BY <1>1, <1>2, Zenon DEF vars, process, history, AllOver, IInv, TypeOK
  <1>3. CASE Start \/ SignalTooEarly \/ Connect \/ Loop \/ Subscribe \/ LoseConnection
    <2>1. /\ UNCHANGED <<message, queue, abandoned, history, malformed, kill_now>>
          /\ connected' \in {connected, TRUE, FALSE} /\ consuming' \in {consuming, TRUE}
      BY <1>3, Zenon DEF Start, SignalTooEarly, Connect, Loop, Subscribe, LoseConnection, process
    <2>2. /\ mishaps' \in {mishaps, mishaps + 1}
          /\ <<pc, pc'>> \in {<<"start", "connect">>, <<"start", "hung">>, <<"connect", "loop">>,
                             <<"loop", "subscribe">>, <<"subscribe", "idle">>, <<pc, pc>>}
      BY <1>3 DEF Start, SignalTooEarly, Connect, Loop, Subscribe, LoseConnection, Mishap
    <2>3. connected' \in BOOLEAN /\ consuming' \in BOOLEAN /\ kill_now' \in BOOLEAN
      BY <2>1, Zenon DEF IInv, TypeOK
    <2>4. pc' \in Running \cup Ended /\ (pc' # pc => Away)
      BY <2>2 DEF IInv, TypeOK, Running, Consuming
    <2>5. prefetched' \in Nat
      <3>1. Start \/ SignalTooEarly \/ Connect \/ Loop \/ Subscribe => prefetched' = prefetched
        BY DEF Start, SignalTooEarly, Connect, Loop, Subscribe, process
      <3>2. LoseConnection => prefetched' \in Nat
        <4>1. Len(queue) - Held \in Int
          BY LenProperties DEF IInv, TypeOK, Held
        <4> QED BY <4>1 DEF LoseConnection
      <3> QED BY <1>3, <3>1, <3>2 DEF IInv, TypeOK
    <2> QED BY <1>1, <2>1, <2>2, <2>3, <2>4, <2>5
  <1>4. CASE ExitGracefully
    <2>1. /\ UNCHANGED <<message, queue, abandoned, history, malformed, connected, mishaps>>
          /\ kill_now' = TRUE /\ consuming' = (consuming /\ ~connected) /\ prefetched' = 0
          /\ (pc' = pc \/ (pc = "idle" /\ pc' = "loop"))
      BY <1>4, Zenon DEF ExitGracefully
    <2>2. connected' \in BOOLEAN /\ consuming' \in BOOLEAN /\ kill_now' \in BOOLEAN
      BY <2>1, Zenon DEF IInv, TypeOK
    <2>3. pc' \in Running \cup Ended /\ (pc' # pc => Away)
      BY <2>1 DEF IInv, TypeOK, Running, Consuming
    <2> QED BY <1>1, <2>1, <2>2, <2>3
  <1>5. CASE Restart
    <2>1. /\ UNCHANGED <<message, queue, abandoned, history, malformed, connected, consuming,
                          prefetched, mishaps>>
          /\ kill_now' = FALSE /\ pc \in Ended /\ pc' = "start"
      BY <1>5, Zenon DEF Restart
    <2>2. connected' \in BOOLEAN /\ consuming' \in BOOLEAN /\ kill_now' \in BOOLEAN
      BY <2>1, Zenon DEF IInv, TypeOK
    <2>3. pc' \in Running \cup Ended /\ (pc' # pc => Away)
      BY <2>1 DEF Running, Ended
    <2>4. prefetched' \in Nat
      BY <2>1 DEF IInv, TypeOK
    <2> QED BY <1>1, <2>1, <2>2, <2>3, <2>4
  <1>6. CASE ConnectFails \/ Stop \/ SubscribeFails \/ DeliverMalformed \/ AckFails
             \/ NoticeLoss \/ Killed
    <2>1. \E how \in Ended : End(how, queue)
      BY <1>6 DEF ConnectFails, Stop, SubscribeFails, DeliverMalformed, AckFails, NoticeLoss,
                  Killed, Ended
    <2>2. UNCHANGED <<kill_now, malformed, history>> /\ mishaps' \in {mishaps, mishaps + 1}
      BY <1>6 DEF ConnectFails, Stop, SubscribeFails, DeliverMalformed, AckFails, NoticeLoss,
                  Killed, Mishap
    <2> QED BY <1>0, <2>1, <2>2, EndStep
  <1>7. CASE RetryFails
    <2>1. pc = "retry" /\ mishaps' = mishaps + 1 /\ UNCHANGED history
      BY <1>7 DEF RetryFails, Mishap
    <2>2. message # NoMessage
      BY <2>1 DEF IInv, TypeOK
    <2>3. PICK q \in MaybeSent :
            \/ \E how \in Ended \ {"killed"} : End(how, q) /\ UNCHANGED <<kill_now, malformed>>
            \/ /\ queue' = Tail(q) /\ abandoned' = Append(abandoned, Head(q))
               /\ message' = NoMessage /\ pc' \in {"idle", "loop"} /\ UNCHANGED process
      BY <1>7 DEF RetryFails
    <2>4. CASE \E how \in Ended : End(how, q) /\ UNCHANGED <<kill_now, malformed>>
      BY <1>0, <2>1, <2>4, EndStep
    <2>5. CASE /\ queue' = Tail(q) /\ abandoned' = Append(abandoned, Head(q))
               /\ message' = NoMessage /\ pc' \in {"idle", "loop"} /\ UNCHANGED process
      BY <2>1, <2>2, <2>5, TakeStep
    <2> QED BY <2>3, <2>4, <2>5
  <1>8. CASE Ack
    <2>1. message # NoMessage
      BY <1>8 DEF Ack, IInv, TypeOK
    <2> QED BY <1>8, <2>1, TakeStep DEF Ack
  <1>9. CASE HandlerFails
    BY <1>9, AttemptFailedStep DEF HandlerFails
  <1>10. CASE DeferFails
    BY <1>10, AttemptFailedStep DEF DeferFails, Mishap, history
  <1> QED BY <1>2, <1>3, <1>4, <1>5, <1>6, <1>7, <1>8, <1>9, <1>10, DeliverStep,
             HandlerSucceedsStep, RepublishStep, TimePassesStep
          DEF AnyStep, Next, Proceed, Fail, Signal, Crash

\* The inductive invariant holds of the consumer whatever fails, and however often.
THEOREM Invariant == Spec => []IInv
  <1>1. Init => IInv
    BY InitInvariant
  <1>2. IInv /\ [Next]_vars => IInv'
    BY StepInvariant DEF AnyStep
  <1> QED BY <1>1, <1>2, PTL DEF Spec

\* The state keeps its types, and the callback has a message between its delivery
\* and its end.
THEOREM TypeCorrect == Spec => []TypeOK
  <1>1. IInv => TypeOK
    BY DEF IInv
  <1> QED BY <1>1, Invariant, PTL

\* Until a message is handled or given up, the broker has it: publishing the retry
\* before acknowledging the failed delivery loses none, whatever fails in between.
THEOREM NothingEverLost == Spec => []NoMessageIsLost
  <1>1. IInv => NoMessageIsLost
    BY DEF IInv
  <1> QED BY <1>1, Invariant, PTL

\* No message is given up before attempt_number attempts failed.
THEOREM NeverGivenUpEarly == Spec => []GivenUpAfterAllAttempts
  <1>1. IInv => GivenUpAfterAllAttempts
    BY DEF IInv
  <1> QED BY <1>1, Invariant, PTL

\* The consumer implements AtLeastOnce.
THEOREM ImplementsAtLeastOnce == Spec => DeliversAtLeastOnce
  <1>1. Init => Promise!Init
    BY InitInvariant
  <1>2. IInv /\ [Next]_vars => [Promise!Next]_(Promise!promised)
    BY StepInvariant DEF AnyStep, Simulated
  <1> QED BY <1>1, <1>2, Invariant, PTL DEF Spec, DeliversAtLeastOnce, Promise!Spec
=============================================================================
