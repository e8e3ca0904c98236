------------------------- MODULE StreamGroupProofs -------------------------
(* Safety of the consumer groups, for any number of processes and entries.  *)
EXTENDS StreamGroup, FiniteSetTheorems, TLAPS

-----------------------------------------------------------------------------
(* Types. *)

\* A process that works through a batch is in the middle of it.
LEMMA ProceedType ==
  ASSUME TypeOK, NEW c \in Consumer, NEW batch, Proceed(c, batch),
         NEW S, batch \in SUBSET S, 1..last \subseteq S
  PROVE  /\ mode' \in [Consumer -> {"call", "handle", "ack"}]
         /\ hand' \in [Consumer -> SUBSET S]
         /\ \A d \in Consumer : mode'[d] = "call" <=> hand'[d] = {}
BY DEF TypeOK, Proceed

\* The entry a process is at has been delivered.
LEMMA HeadDelivered ==
  ASSUME TypeOK, NEW c \in Consumer, NEW e \in Head(c)
  PROVE  e \in hand[c] /\ e \in 1..last /\ e \in Entry
<1>1. e \in hand[c] /\ e \in 1..last
  BY DEF TypeOK, Head, Least
<1>2. last \in Nat /\ last <= Entries /\ Entries \in Nat
  BY GroupAssumption DEF TypeOK
<1> QED
  BY <1>1, <1>2 DEF Entry

\* A batch of entries the group has delivered before.
LEMMA ProceedWithin ==
  ASSUME TypeOK, NEW c \in Consumer, NEW batch \in SUBSET (1..last), Proceed(c, batch)
  PROVE  /\ mode' \in [Consumer -> {"call", "handle", "ack"}]
         /\ hand' \in [Consumer -> SUBSET (1..last)]
         /\ \A d \in Consumer : mode'[d] = "call" <=> hand'[d] = {}
<1>1. batch \in SUBSET (1..last) /\ 1..last \subseteq 1..last
  OBVIOUS
<1> QED
  BY <1>1, ProceedType

\* What a claim takes was idle, and it takes no entry out of the list.
LEMMA ClaimedType ==
  ASSUME TypeOK, NEW c \in Consumer, NEW batch, Claimed(c, batch)
  PROVE  /\ batch \subseteq idle
         /\ idle' = idle \ batch
         /\ next' \in [Consumer -> {"claim", "read"}]
         /\ mode[c] = "call" /\ hand[c] = {}
BY DEF TypeOK, Claimed, FirstOf

\* A read moves the group on over entries that are in the stream.
LEMMA DeliveredType ==
  ASSUME TypeOK, NEW c \in Consumer, NEW m, Delivered(c, m)
  PROVE  /\ m \in last..length /\ last' = m
         /\ pending' = pending \cup (last + 1)..m
         /\ (last + 1)..m \subseteq 1..m
         /\ 1..last \subseteq 1..m
         /\ last \in Nat /\ m \in Nat
         /\ next' \in [Consumer -> {"claim", "read"}]
         /\ mode[c] = "call" /\ hand[c] = {}
<1>1. last \in Nat /\ length \in Nat
  BY GroupAssumption DEF TypeOK
<1>2. m \in last..length /\ last' = m /\ pending' = pending \cup (last + 1)..m
  BY DEF Delivered
<1>3. next' \in [Consumer -> {"claim", "read"}]
  BY DEF TypeOK, Delivered, FirstCall
<1>4. mode[c] = "call" /\ hand[c] = {}
  BY DEF TypeOK, Delivered
<1> QED
  BY <1>1, <1>2, <1>3, <1>4

\* Each step keeps the types.
LEMMA TypeStep == TypeOK /\ [Next]_vars => TypeOK'
<1> SUFFICES ASSUME TypeOK, [Next]_vars PROVE TypeOK'
  OBVIOUS
<1>0. last \in Nat /\ length \in Nat /\ failures \in Nat /\ Entries \in Nat /\ MaxFailures \in Nat
  BY GroupAssumption DEF TypeOK
<1>1. CASE XAdd
  <2>1. length' \in 0..Entries /\ last' \in 0..length'
    BY <1>0, <1>1 DEF XAdd, TypeOK
  <2> QED
    BY <1>1, <2>1 DEF XAdd, process, TypeOK
<1>2. ASSUME NEW e \in Entry, Age(e) PROVE TypeOK'
  BY <1>2 DEF Age, process, TypeOK
<1>3. ASSUME NEW c \in Consumer, Claim(c) PROVE TypeOK'
  <2>1. PICK batch \in SUBSET Entry :
          /\ Claimed(c, batch)
          /\ Proceed(c, batch)
          /\ raised' = raised \ batch
          /\ \E id \in NextCursor(batch) : cursor' = [cursor EXCEPT ![c] = id]
    BY <1>3 DEF Claim
  <2>2. /\ batch \subseteq idle /\ idle' = idle \ batch
        /\ next' \in [Consumer -> {"claim", "read"}]
    BY <2>1, ClaimedType
  <2>3. batch \in SUBSET (1..last)
    BY <2>2 DEF TypeOK
  <2>4. /\ mode' \in [Consumer -> {"call", "handle", "ack"}]
        /\ hand' \in [Consumer -> SUBSET (1..last)]
        /\ \A d \in Consumer : mode'[d] = "call" <=> hand'[d] = {}
    BY <2>1, <2>3, ProceedType
  <2>5. NextCursor(batch) \subseteq 0..Entries
    <3>1. pending \subseteq 0..Entries
      BY <1>0 DEF TypeOK
    <3>2. 0 \in 0..Entries
      BY <1>0
    <3> QED
      BY <3>1, <3>2 DEF NextCursor, Least
  <2>6. cursor' \in [Consumer -> 0..Entries]
    BY <2>1, <2>5 DEF TypeOK
  <2> QED
    BY <1>3, <2>1, <2>2, <2>4, <2>6 DEF Claim, TypeOK
<1>4. ASSUME NEW c \in Consumer, ClaimLost(c) PROVE TypeOK'
  <2>1. PICK batch \in SUBSET Entry : Claimed(c, batch)
    BY <1>4 DEF ClaimLost
  <2>2. idle' = idle \ batch /\ next' \in [Consumer -> {"claim", "read"}]
    BY <2>1, ClaimedType
  <2>3. failures' \in 0..MaxFailures
    BY <1>0, <1>4 DEF ClaimLost
  <2> QED
    BY <1>4, <2>2, <2>3 DEF ClaimLost, TypeOK
<1>5. ASSUME NEW c \in Consumer, Read(c) PROVE TypeOK'
  <2>1. PICK m \in last..length : Delivered(c, m) /\ Proceed(c, (last + 1)..m)
    BY <1>5 DEF Read
  <2>2. /\ m \in last..length /\ last' = m
        /\ pending' = pending \cup (last + 1)..m
        /\ (last + 1)..m \subseteq 1..m
        /\ 1..last \subseteq 1..m
        /\ next' \in [Consumer -> {"claim", "read"}]
    BY <2>1, DeliveredType
  <2>3. /\ mode' \in [Consumer -> {"call", "handle", "ack"}]
        /\ hand' \in [Consumer -> SUBSET (1..m)]
        /\ \A d \in Consumer : mode'[d] = "call" <=> hand'[d] = {}
    <3> DEFINE batch == (last + 1)..m
    <3> DEFINE S == 1..m
    <3>1. Proceed(c, batch) /\ batch \in SUBSET S /\ 1..last \subseteq S
      BY <2>1, <2>2
    <3> HIDE DEF batch, S
    <3>2. /\ mode' \in [Consumer -> {"call", "handle", "ack"}]
          /\ hand' \in [Consumer -> SUBSET S]
          /\ \A d \in Consumer : mode'[d] = "call" <=> hand'[d] = {}
      BY <3>1, ProceedType
    <3> QED
      BY <3>2 DEF S
  <2>4. last' \in 0..length
    BY <1>0, <2>2
  <2> QED
    BY <1>5, <2>2, <2>3, <2>4 DEF Read, TypeOK
<1>6. ASSUME NEW c \in Consumer, ReadLost(c) PROVE TypeOK'
  <2>1. PICK m \in last..length : Delivered(c, m)
    BY <1>6 DEF ReadLost
  <2>2. /\ m \in last..length /\ last' = m
        /\ pending' = pending \cup (last + 1)..m
        /\ (last + 1)..m \subseteq 1..m
        /\ 1..last \subseteq 1..m
        /\ next' \in [Consumer -> {"claim", "read"}]
    BY <2>1, DeliveredType
  <2>3. last' \in 0..length
    BY <1>0, <2>2
  <2>4. failures' \in 0..MaxFailures
    BY <1>0, <1>6 DEF ReadLost
  <2> QED
    BY <1>6, <2>2, <2>3, <2>4 DEF ReadLost, TypeOK
<1>7. ASSUME NEW c \in Consumer, Handle(c) PROVE TypeOK'
  <2>1. handled' \in [Entry -> Nat]
    <3>1. PICK e \in Head(c) :
            handled' = IF e \in Malformed THEN handled ELSE [handled EXCEPT ![e] = handled[e] + 1]
      BY <1>7 DEF Handle
    <3>2. CASE e \in Malformed
      BY <3>1, <3>2 DEF TypeOK
    <3>3. CASE e \notin Malformed
      <4>1. e \in Entry
        BY HeadDelivered
      <4>2. handled[e] + 1 \in Nat
        BY <4>1 DEF TypeOK
      <4>3. handled' = [handled EXCEPT ![e] = handled[e] + 1]
        BY <3>1, <3>3
      <4> QED
        BY <4>2, <4>3 DEF TypeOK
    <3> QED
      BY <3>2, <3>3
  <2>2. /\ mode' \in [Consumer -> {"call", "handle", "ack"}]
        /\ \A d \in Consumer : mode'[d] = "call" <=> hand[d] = {}
    BY <1>7 DEF Handle, TypeOK
  <2> QED
    BY <1>7, <2>1, <2>2 DEF Handle, redis, TypeOK
<1>8. ASSUME NEW c \in Consumer, HandleFails(c) PROVE TypeOK'
  <2>1. PICK e \in Head(c) \ Malformed :
          /\ handled' \in {handled, [handled EXCEPT ![e] = handled[e] + 1]}
          /\ \/ /\ mode' = [mode EXCEPT ![c] = "ack"]
                /\ UNCHANGED <<hand, raised>>
             \/ /\ Proceed(c, hand[c] \ {e})
                /\ raised' = IF e \in pending THEN raised \cup {e} ELSE raised
    BY <1>8 DEF HandleFails
  <2>2. handled' \in [Entry -> Nat]
    BY <2>1 DEF TypeOK
  <2>3. failures' \in 0..MaxFailures
    BY <1>0, <1>8 DEF HandleFails
  <2>4. /\ UNCHANGED <<program, length, last, pending, idle, acked, next, cursor>>
        /\ mode[c] = "handle"
    BY <1>8 DEF HandleFails
  <2>5. CASE mode' = [mode EXCEPT ![c] = "ack"] /\ UNCHANGED <<hand, raised>>
    <3>1. /\ mode' \in [Consumer -> {"call", "handle", "ack"}]
          /\ \A d \in Consumer : mode'[d] = "call" <=> hand[d] = {}
      BY <2>4, <2>5 DEF TypeOK
    <3> QED
      BY <2>2, <2>3, <2>4, <2>5, <3>1 DEF TypeOK
  <2>6. CASE /\ Proceed(c, hand[c] \ {e})
             /\ raised' = IF e \in pending THEN raised \cup {e} ELSE raised
    <3>1. hand[c] \ {e} \in SUBSET (1..last)
      BY DEF TypeOK
    <3>2. /\ mode' \in [Consumer -> {"call", "handle", "ack"}]
          /\ hand' \in [Consumer -> SUBSET (1..last)]
          /\ \A d \in Consumer : mode'[d] = "call" <=> hand'[d] = {}
      BY <2>6, <3>1, ProceedWithin
    <3> QED
      BY <2>2, <2>3, <2>4, <2>6, <3>2 DEF TypeOK
  <2> QED
    BY <2>1, <2>5, <2>6
<1>9. ASSUME NEW c \in Consumer, Ack(c) PROVE TypeOK'
  <2>1. PICK e \in Head(c) : XAck(e) /\ Proceed(c, hand[c] \ {e})
    BY <1>9 DEF Ack
  <2>2. hand[c] \ {e} \in SUBSET (1..last) /\ e \in 1..last
    BY DEF TypeOK, Head, Least
  <2>3. /\ mode' \in [Consumer -> {"call", "handle", "ack"}]
        /\ hand' \in [Consumer -> SUBSET (1..last)]
        /\ \A d \in Consumer : mode'[d] = "call" <=> hand'[d] = {}
    <3>1. Proceed(c, hand[c] \ {e})
      BY <2>1
    <3> QED
      BY <2>2, <3>1, ProceedWithin
  <2> QED
    BY <1>9, <2>1, <2>2, <2>3 DEF Ack, XAck, TypeOK
<1>10. ASSUME NEW c \in Consumer, AckFails(c) PROVE TypeOK'
  <2>1. PICK e \in Head(c) :
          /\ XAck(e) \/ UNCHANGED redis
          /\ Proceed(c, AfterAckError(c, e))
    BY <1>10 DEF AckFails
  <2> DEFINE batch == AfterAckError(c, e)
  <2>2. batch \in SUBSET (1..last) /\ e \in 1..last
    BY DEF TypeOK, Head, Least, AfterAckError
  <2>3. /\ mode' \in [Consumer -> {"call", "handle", "ack"}]
        /\ hand' \in [Consumer -> SUBSET (1..last)]
        /\ \A d \in Consumer : mode'[d] = "call" <=> hand'[d] = {}
    <3> HIDE DEF batch
    <3>1. Proceed(c, batch)
      BY <2>1 DEF batch
    <3> QED
      BY <2>2, <3>1, ProceedWithin
  <2>4. cursor' \in [Consumer -> 0..Entries]
    BY <1>0, <1>10 DEF AckFails, TypeOK
  <2>5. failures' \in 0..MaxFailures
    BY <1>0, <1>10 DEF AckFails
  <2>6. UNCHANGED <<length, last>> /\ pending' \in SUBSET (1..last) /\ idle' \in SUBSET pending'
        /\ acked' \in SUBSET (1..last) /\ raised' \in SUBSET pending'
    BY <2>1, <2>2 DEF XAck, redis, TypeOK
  <2> QED
    BY <1>10, <2>3, <2>4, <2>5, <2>6 DEF AckFails, TypeOK
<1>11. ASSUME NEW c \in Consumer, Crash(c) PROVE TypeOK'
  <2>1. /\ mode' \in [Consumer -> {"call", "handle", "ack"}]
        /\ hand' \in [Consumer -> SUBSET (1..last)]
        /\ \A d \in Consumer : mode'[d] = "call" <=> hand'[d] = {}
    <3>1. Proceed(c, {}) /\ {} \in SUBSET (1..last)
      BY <1>11 DEF Crash
    <3> QED
      BY <3>1, ProceedWithin
  <2>2. cursor' \in [Consumer -> 0..Entries] /\ failures' \in 0..MaxFailures
    BY <1>0, <1>11 DEF Crash, TypeOK
  <2>3. next' \in [Consumer -> {"claim", "read"}]
    BY <1>11 DEF Crash, FirstCall, TypeOK
  <2> QED
    BY <1>11, <2>1, <2>2, <2>3 DEF Crash, redis, TypeOK
<1>12. CASE UNCHANGED vars
  BY <1>12 DEF vars, redis, process, TypeOK
<1> QED
  BY <1>1, <1>2, <1>3, <1>4, <1>5, <1>6, <1>7, <1>8, <1>9, <1>10, <1>11, <1>12 DEF Next, Loop

\* Every reachable state of a group, its list and its processes has the
\* declared types.
THEOREM GroupTypes == Spec => []TypeOK
<1>1. Init => TypeOK
  BY GroupAssumption DEF Init, FirstCall, TypeOK
<1> QED
  BY <1>1, TypeStep, PTL DEF Spec

-----------------------------------------------------------------------------
(* Where a process is in its batch. *)

\* The process is about to acknowledge the entry; it may still do its work.
AtAck(c, e) == mode[c] = "ack" /\ e \in Head(c)
ToDo(c, e) == e \in hand[c] /\ ~AtAck(c, e)

\* A process is at one entry.
LEMMA HeadUnique ==
  ASSUME TypeOK, NEW c \in Consumer, NEW e \in Head(c), NEW f \in Head(c)
  PROVE  e = f
<1>1. e <= f /\ f <= e
  BY DEF Head, Least
<1>2. e \in Int /\ f \in Int
  BY HeadDelivered DEF TypeOK
<1> QED
  BY <1>1, <1>2

\* A process that begins or goes on with a batch acknowledges nothing of it yet.
LEMMA AfterProceed ==
  ASSUME TypeOK, NEW c \in Consumer, NEW batch, Proceed(c, batch), NEW d \in Consumer, NEW e
  PROVE  /\ d # c => (AtAck(d, e)' <=> AtAck(d, e)) /\ (ToDo(d, e)' <=> ToDo(d, e))
         /\ d = c => ~AtAck(d, e)' /\ (ToDo(d, e)' <=> e \in batch)
<1>1. CASE d # c
  <2>1. mode'[d] = mode[d] /\ hand'[d] = hand[d]
    BY <1>1 DEF Proceed, TypeOK
  <2> QED
    BY <1>1, <2>1 DEF AtAck, ToDo, Head
<1>2. CASE d = c
  <2>1. mode'[d] # "ack" /\ hand'[d] = batch
    BY <1>2 DEF Proceed, TypeOK
  <2> QED
    BY <1>2, <2>1 DEF AtAck, ToDo
<1> QED
  BY <1>1, <1>2

\* A process whose handler is over is about to acknowledge the entry it is at.
LEMMA AfterHandle ==
  ASSUME TypeOK, NEW c \in Consumer, mode[c] = "handle",
         mode' = [mode EXCEPT ![c] = "ack"], hand' = hand, NEW d \in Consumer, NEW e
  PROVE  /\ d # c => (AtAck(d, e)' <=> AtAck(d, e)) /\ (ToDo(d, e)' <=> ToDo(d, e))
         /\ d = c => /\ ~AtAck(d, e)
                     /\ AtAck(d, e)' <=> e \in Head(c)
                     /\ ToDo(d, e)' <=> e \in hand[c] \ Head(c)
                     /\ ToDo(d, e) <=> e \in hand[c]
<1>1. hand'[d] = hand[d] /\ Head(d)' = Head(d)
  BY DEF Head
<1>2. CASE d # c
  <2>1. mode'[d] = mode[d]
    BY <1>2 DEF TypeOK
  <2> QED
    BY <1>1, <1>2, <2>1 DEF AtAck, ToDo
<1>3. CASE d = c
  <2>1. mode'[d] = "ack" /\ mode[d] = "handle"
    BY <1>3 DEF TypeOK
  <2> QED
    BY <1>1, <1>3, <2>1 DEF AtAck, ToDo
<1> QED
  BY <1>2, <1>3

\* Processes that stay where they are.
LEMMA AfterNothing ==
  ASSUME UNCHANGED <<mode, hand>>, NEW d \in Consumer, NEW e
  PROVE  (AtAck(d, e)' <=> AtAck(d, e)) /\ (ToDo(d, e)' <=> ToDo(d, e))
BY DEF AtAck, ToDo, Head

\* Steps that only move entries into hands, or a dying process's out of one.
Quiet ==
  /\ UNCHANGED <<program, acked, handled>>
  /\ \/ UNCHANGED <<mode, hand>> /\ failures <= failures'
     \/ \E c \in Consumer : \E batch :
          /\ Proceed(c, batch)
          /\ hand[c] = {} /\ mode[c] = "call"
          /\ batch \cap acked = {}
          /\ failures' = failures
     \/ \E c \in Consumer : Proceed(c, {}) /\ failures' = failures + 1

\* A claim takes pending entries, a read those after the last delivered one.
LEMMA QuietSteps ==
  ASSUME TypeOK, acked \cap pending = {}
  PROVE  /\ XAdd => Quiet
         /\ \A e \in Entry : Age(e) => Quiet
         /\ \A c \in Consumer :
              Claim(c) \/ ClaimLost(c) \/ Read(c) \/ ReadLost(c) \/ Crash(c) => Quiet
         /\ UNCHANGED vars => Quiet
<1>1. failures \in Int /\ failures <= failures /\ failures <= failures + 1
  BY DEF TypeOK
<1>2. ASSUME NEW c \in Consumer, Claim(c) PROVE Quiet
  <2>1. PICK batch \in SUBSET Entry : Claimed(c, batch) /\ Proceed(c, batch)
    BY <1>2 DEF Claim
  <2>2. batch \subseteq idle /\ mode[c] = "call" /\ hand[c] = {}
    BY <2>1, ClaimedType
  <2>3. batch \cap acked = {}
    BY <2>2 DEF TypeOK
  <2> QED
    BY <1>2, <2>1, <2>2, <2>3 DEF Claim, Quiet
<1>3. ASSUME NEW c \in Consumer, Read(c) PROVE Quiet
  <2>1. PICK m \in last..length : Delivered(c, m) /\ Proceed(c, (last + 1)..m)
    BY <1>3 DEF Read
  <2>2. mode[c] = "call" /\ hand[c] = {} /\ last \in Nat
    BY <2>1, DeliveredType
  <2>3. (last + 1)..m \cap acked = {}
    BY <2>2 DEF TypeOK
  <2> QED
    BY <1>3, <2>1, <2>2, <2>3 DEF Read, Quiet
<1>4. ASSUME NEW c \in Consumer, ClaimLost(c) \/ ReadLost(c) PROVE Quiet
  BY <1>1, <1>4 DEF ClaimLost, ReadLost, Quiet
<1>5. ASSUME NEW c \in Consumer, Crash(c) PROVE Quiet
  BY <1>5 DEF Crash, redis, Quiet
<1>6. XAdd => Quiet
  BY <1>1 DEF XAdd, process, Quiet
<1>7. \A e \in Entry : Age(e) => Quiet
  BY <1>1 DEF Age, process, Quiet
<1>8. UNCHANGED vars => Quiet
  BY <1>1 DEF vars, redis, process, Quiet
<1> QED
  BY <1>2, <1>3, <1>4, <1>5, <1>6, <1>7, <1>8

\* Acknowledged entries are off the list for good.
ListInv == acked \cap pending = {}

\* No step puts an acknowledged entry back on the list.
LEMMA ListStep == TypeOK /\ ListInv /\ [Next]_vars => ListInv'
<1> SUFFICES ASSUME TypeOK, ListInv, [Next]_vars PROVE ListInv'
  OBVIOUS
<1>1. ASSUME NEW e, XAck(e) PROVE ListInv'
  BY <1>1 DEF XAck, ListInv
<1>2. ASSUME NEW c \in Consumer, NEW m, Delivered(c, m), acked' = acked PROVE ListInv'
  <2>1. pending' = pending \cup (last + 1)..m /\ last \in Nat
    BY <1>2, DeliveredType
  <2>2. (last + 1)..m \cap acked = {}
    BY <2>1 DEF TypeOK
  <2> QED
    BY <1>2, <2>1, <2>2 DEF ListInv
<1>3. ASSUME NEW c \in Consumer, Read(c) \/ ReadLost(c) PROVE ListInv'
  BY <1>2, <1>3 DEF Read, ReadLost
<1>4. ASSUME NEW c \in Consumer, Ack(c) PROVE ListInv'
  BY <1>1, <1>4 DEF Ack
<1>5. ASSUME NEW c \in Consumer, AckFails(c) PROVE ListInv'
  BY <1>1, <1>5 DEF AckFails, redis, ListInv
<1>6. ASSUME NEW c \in Consumer,
             Claim(c) \/ ClaimLost(c) \/ Handle(c) \/ HandleFails(c) \/ Crash(c)
      PROVE  ListInv'
  BY <1>6 DEF Claim, ClaimLost, Handle, HandleFails, Crash, redis, ListInv
<1>7. CASE XAdd \/ (\E e \in Entry : Age(e)) \/ UNCHANGED vars
  BY <1>7 DEF XAdd, Age, vars, redis, ListInv
<1> QED
  BY <1>3, <1>4, <1>5, <1>6, <1>7 DEF Next, Loop

-----------------------------------------------------------------------------
(* What the two outcomes of a handler and of an acknowledgement change. *)

\* The handler of entry e is over, and its process is about to acknowledge e.
Handles(c, e) ==
  /\ mode[c] = "handle"
  /\ mode' = [mode EXCEPT ![c] = "ack"]
  /\ hand' = hand

\* The result of entry e is out once more.
Once(e) == handled' = [handled EXCEPT ![e] = handled[e] + 1]

\* A handler that returns.
LEMMA HandleShape ==
  ASSUME TypeOK, NEW c \in Consumer, Handle(c)
  PROVE  \E e \in Head(c) :
           /\ Handles(c, e)
           /\ UNCHANGED <<program, acked, failures>>
           /\ Once(e) \/ (e \in Malformed /\ handled' = handled)
BY DEF Handle, Handles, Once, redis

\* A handler that raises.
LEMMA HandleFailsShape ==
  ASSUME TypeOK, NEW c \in Consumer, HandleFails(c)
  PROVE  \E e \in Head(c) :
           /\ mode[c] = "handle"
           /\ UNCHANGED <<program, acked>>
           /\ failures' = failures + 1
           /\ Once(e) \/ handled' = handled
           /\ \/ program.acksErrors /\ Handles(c, e)
              \/ ~program.acksErrors /\ Proceed(c, hand[c] \ {e})
BY DEF HandleFails, Handles, Once

\* An acknowledgement, answered or not.
LEMMA AckShape ==
  ASSUME TypeOK, NEW c \in Consumer, Ack(c) \/ AckFails(c)
  PROVE  \E e \in Head(c), batch \in SUBSET hand[c] :
           /\ e \notin batch
           /\ mode[c] = "ack"
           /\ UNCHANGED <<program, handled>>
           /\ Proceed(c, batch)
           /\ \/ acked' = acked \cup {e} /\ failures' \in {failures, failures + 1}
              \/ acked' = acked /\ failures' = failures + 1
           /\ failures' = failures => batch = hand[c] \ {e}
<1>1. CASE Ack(c)
  <2>1. PICK e \in Head(c) : XAck(e) /\ Proceed(c, hand[c] \ {e})
    BY <1>1 DEF Ack
  <2> QED
    BY <1>1, <2>1 DEF Ack, XAck
<1>2. CASE AckFails(c)
  <2>1. PICK e \in Head(c) :
          /\ XAck(e) \/ UNCHANGED redis
          /\ Proceed(c, AfterAckError(c, e))
    BY <1>2 DEF AckFails
  <2> DEFINE batch == AfterAckError(c, e)
  <2>2. batch \in SUBSET hand[c] /\ e \notin batch /\ Proceed(c, batch)
    BY <2>1 DEF AfterAckError
  <2>3. acked' = acked \cup {e} \/ acked' = acked
    BY <2>1 DEF XAck, redis
  <2>4. failures' = failures + 1 /\ failures' # failures
    BY <1>2 DEF AckFails, TypeOK
  <2>5. mode[c] = "ack" /\ UNCHANGED <<program, handled>>
    BY <1>2 DEF AckFails
  <2> HIDE DEF batch
  <2> QED
    BY <2>2, <2>3, <2>4, <2>5
<1> QED
  BY <1>1, <1>2

\* Every step of the specification is of one of these shapes.
LEMMA StepShapes ==
  ASSUME TypeOK, ListInv, [Next]_vars
  PROVE  \/ Quiet
         \/ \E c \in Consumer : Handle(c) \/ HandleFails(c) \/ Ack(c) \/ AckFails(c)
BY QuietSteps DEF Next, Loop, ListInv

-----------------------------------------------------------------------------
(* Acknowledged entries are handled. *)

\* Where errors are not acknowledged, an entry about to be acknowledged has
\* its result out already.
HandledInv ==
  ~program.acksErrors =>
    /\ \A c \in Consumer : \A e \in Entry \ Malformed : AtAck(c, e) => handled[e] > 0
    /\ \A e \in acked \ Malformed : handled[e] > 0

\* No step acknowledges, or is about to, without a result.
LEMMA HandledStep == TypeOK /\ ListInv /\ HandledInv /\ [Next]_vars => HandledInv'
<1> SUFFICES ASSUME TypeOK, ListInv, HandledInv, [Next]_vars, ~program'.acksErrors
             PROVE  /\ \A d \in Consumer : \A f \in Entry \ Malformed :
                         AtAck(d, f)' => handled'[f] > 0
                    /\ \A f \in acked' \ Malformed : handled'[f] > 0
  BY DEF HandledInv
<1> DEFINE Goal == /\ \A d \in Consumer : \A f \in Entry \ Malformed :
                         AtAck(d, f)' => handled'[f] > 0
                   /\ \A f \in acked' \ Malformed : handled'[f] > 0
<1>0. acked \subseteq Entry
  <2>1. last \in Nat /\ last <= Entries /\ Entries \in Nat
    BY GroupAssumption DEF TypeOK
  <2> QED
    BY <2>1 DEF TypeOK, Entry
<1>1. CASE Quiet
  <2>1. \A d \in Consumer : \A f \in Entry : AtAck(d, f)' => AtAck(d, f)
    <3>1. CASE UNCHANGED <<mode, hand>>
      BY <3>1, AfterNothing
    <3>2. CASE \E c \in Consumer : \E batch : Proceed(c, batch)
      BY <3>2, AfterProceed
    <3> QED
      BY <1>1, <3>1, <3>2 DEF Quiet
  <2>2. UNCHANGED <<program, acked, handled>>
    BY <1>1 DEF Quiet
  <2> QED
    BY <2>1, <2>2 DEF HandledInv
<1>2. ASSUME NEW e \in Entry, Once(e)
      PROVE  \A f \in Entry : handled'[f] >= handled[f] /\ handled'[e] > 0
  BY <1>2 DEF Once, TypeOK
<1>3. ASSUME NEW c \in Consumer, Handle(c) PROVE Goal
  <2>1. PICK e \in Head(c) :
          /\ Handles(c, e)
          /\ UNCHANGED <<program, acked, failures>>
          /\ Once(e) \/ (e \in Malformed /\ handled' = handled)
    BY <1>3, HandleShape
  <2>2. e \in Entry
    BY HeadDelivered
  <2>3. \A d \in Consumer : \A f \in Entry : AtAck(d, f)' => AtAck(d, f) \/ f = e
    BY <2>1, AfterHandle, HeadUnique DEF Handles
  <2>4. \A f \in Entry : handled'[f] >= handled[f]
    BY <1>2, <2>1, <2>2 DEF TypeOK
  <2>5. e \notin Malformed => handled'[e] > 0
    BY <1>2, <2>1, <2>2
  <2>6. \A f \in Entry : handled[f] \in Nat /\ handled'[f] \in Int
    BY TypeStep DEF TypeOK
  <2> QED
    BY <1>0, <2>1, <2>3, <2>4, <2>5, <2>6 DEF HandledInv
<1>4. ASSUME NEW c \in Consumer, HandleFails(c) PROVE Goal
  <2>1. PICK e \in Head(c) :
          /\ UNCHANGED <<program, acked>>
          /\ Once(e) \/ handled' = handled
          /\ \/ program.acksErrors /\ Handles(c, e)
             \/ ~program.acksErrors /\ Proceed(c, hand[c] \ {e})
    BY <1>4, HandleFailsShape
  <2>2. Proceed(c, hand[c] \ {e}) /\ e \in Entry
    BY <2>1, HeadDelivered
  <2>3. \A d \in Consumer : \A f \in Entry : AtAck(d, f)' => AtAck(d, f)
    BY <2>2, AfterProceed
  <2>4. \A f \in Entry : handled'[f] >= handled[f]
    BY <1>2, <2>1, <2>2 DEF TypeOK
  <2>5. \A f \in Entry : handled[f] \in Nat /\ handled'[f] \in Int
    BY TypeStep DEF TypeOK
  <2> QED
    BY <1>0, <2>1, <2>3, <2>4, <2>5 DEF HandledInv
<1>5. ASSUME NEW c \in Consumer, Ack(c) \/ AckFails(c) PROVE Goal
  <2>1. PICK e \in Head(c), batch \in SUBSET hand[c] :
          /\ mode[c] = "ack"
          /\ UNCHANGED <<program, handled>>
          /\ Proceed(c, batch)
          /\ acked' = acked \cup {e} \/ acked' = acked
    BY <1>5, AckShape
  <2>2. AtAck(c, e) /\ e \in Entry
    BY <2>1, HeadDelivered DEF AtAck
  <2>3. \A d \in Consumer : \A f \in Entry : AtAck(d, f)' => AtAck(d, f)
    BY <2>1, AfterProceed
  <2> QED
    BY <2>1, <2>2, <2>3 DEF HandledInv
<1> QED
  BY <1>1, <1>3, <1>4, <1>5, StepShapes

-----------------------------------------------------------------------------
(* Without claiming, nothing is done twice. *)

\* Where nothing is claimed an entry is in one hand, until it is handled or
\* dropped, and entries nobody has read are not handled.
OnceInv ==
  ~program.claims =>
    /\ \A c \in Consumer : next[c] = "read"
    /\ \A c, d \in Consumer : c # d => hand[c] \cap hand[d] = {}
    /\ \A c \in Consumer : \A e \in Entry : ToDo(c, e) => handled[e] = 0
    /\ \A e \in Entry : handled[e] <= 1
    /\ \A e \in Entry : e > last => handled[e] = 0

\* Steps that hand out no entry: results may come out for entries nobody has
\* still to do.
LEMMA OnceKeeps ==
  ASSUME OnceInv, ~program.claims, last' >= last, last \in Int, last' \in Int,
         \A d \in Consumer : next'[d] = "read" /\ hand'[d] \subseteq hand[d],
         \A d \in Consumer : \A f \in Entry : ToDo(d, f)' => ToDo(d, f),
         NEW X, \A f \in Entry : f \notin X => handled'[f] = handled[f],
         \A f \in X : handled'[f] <= 1 /\ ~(f > last') /\ \A d \in Consumer : ~ToDo(d, f)'
  PROVE  OnceInv'
<1>1. \A c, d \in Consumer : c # d => hand'[c] \cap hand'[d] = {}
  BY DEF OnceInv
<1>2. \A c \in Consumer : \A f \in Entry : ToDo(c, f)' => handled'[f] = 0
  BY DEF OnceInv
<1>3. \A f \in Entry : handled'[f] <= 1
  BY DEF OnceInv
<1>4. \A f \in Entry : f > last' => f > last
  BY DEF Entry
<1>5. \A f \in Entry : f > last' => handled'[f] = 0
  BY <1>4 DEF OnceInv
<1> QED
  BY <1>1, <1>2, <1>3, <1>5 DEF OnceInv

\* The same without any result.
LEMMA OnceKeepsAll ==
  ASSUME OnceInv, ~program.claims, last' >= last, last \in Int, last' \in Int,
         \A d \in Consumer : next'[d] = "read" /\ hand'[d] \subseteq hand[d],
         \A d \in Consumer : \A f \in Entry : ToDo(d, f)' => ToDo(d, f),
         handled' = handled
  PROVE  OnceInv'
<1> DEFINE X == {}
<1>1. /\ \A f \in Entry : f \notin X => handled'[f] = handled[f]
      /\ \A f \in X : handled'[f] <= 1 /\ ~(f > last') /\ \A d \in Consumer : ~ToDo(d, f)'
  OBVIOUS
<1> HIDE DEF X
<1> QED
  BY <1>1, OnceKeeps

\* A result for the entry a process is at, which is in no other hand.
LEMMA OnceHandled ==
  ASSUME TypeOK, OnceInv, ~program.claims, NEW c \in Consumer, NEW e \in Head(c),
         mode[c] = "handle", Once(e) \/ handled' = handled,
         Handles(c, e) \/ Proceed(c, hand[c] \ {e}), UNCHANGED <<next, last>>
  PROVE  OnceInv'
<1>1. e \in hand[c] /\ e \in 1..last /\ e \in Entry /\ last \in Int
  BY HeadDelivered DEF TypeOK
<1>2. ToDo(c, e)
  BY <1>1 DEF ToDo, AtAck
<1>3. handled[e] = 0 /\ \A d \in Consumer : d # c => e \notin hand[d]
  BY <1>1, <1>2 DEF OnceInv
<1>4. \A f \in Entry : f # e => handled'[f] = handled[f]
  BY DEF Once, TypeOK
<1>5. handled'[e] <= 1
  BY <1>1, <1>3 DEF Once, TypeOK
<1>6. \A d \in Consumer : hand'[d] \subseteq hand[d]
  BY DEF Handles, Proceed, TypeOK
<1>7. \A d \in Consumer : \A f \in Entry : ToDo(d, f)' => ToDo(d, f)
  <2>1. CASE Handles(c, e)
    BY <2>1, AfterHandle DEF Handles
  <2>2. CASE Proceed(c, hand[c] \ {e})
    <3>1. \A f : f \in hand[c] => ToDo(c, f)
      BY DEF ToDo, AtAck
    <3> QED
      BY <2>2, <3>1, AfterProceed
  <2> QED
    BY <2>1, <2>2
<1>8. \A d \in Consumer : ~ToDo(d, e)'
  <2>1. \A d \in Consumer : d # c => ~ToDo(d, e)
    BY <1>3 DEF ToDo
  <2>2. ~ToDo(c, e)'
    <3>1. CASE Handles(c, e)
      BY <3>1, AfterHandle DEF Handles
    <3>2. CASE Proceed(c, hand[c] \ {e})
      BY <3>2, AfterProceed
    <3> QED
      BY <3>1, <3>2
  <2> QED
    BY <1>1, <1>7, <2>1, <2>2
<1>9. last' >= last /\ last' \in Int /\ ~(e > last') /\ \A d \in Consumer : next'[d] = "read"
  BY <1>1 DEF OnceInv
<1> DEFINE X == {e}
<1>10. /\ \A f \in Entry : f \notin X => handled'[f] = handled[f]
       /\ \A f \in X : handled'[f] <= 1 /\ ~(f > last') /\ \A d \in Consumer : ~ToDo(d, f)'
  BY <1>4, <1>5, <1>8, <1>9
<1> HIDE DEF X
<1> QED
  BY <1>1, <1>6, <1>7, <1>9, <1>10, OnceKeeps

\* Where nothing is claimed, no step does an entry's work again.
LEMMA OnceStep == TypeOK /\ ListInv /\ OnceInv /\ [Next]_vars => OnceInv'
<1> SUFFICES ASSUME TypeOK, ListInv, OnceInv, [Next]_vars, ~program'.claims PROVE OnceInv'
  BY DEF OnceInv
<1>0. last \in Int /\ TypeOK'
  BY TypeStep DEF TypeOK
<1>1. program' = program
  BY DEF Next, Loop, XAdd, Age, Claim, ClaimLost, Read, ReadLost, Handle, HandleFails, Ack,
         AckFails, Crash, vars
<1>2. ~program.claims /\ FirstCall = "read" /\ \A d \in Consumer : next[d] = "read"
  BY <1>1 DEF FirstCall, OnceInv
<1>3. ASSUME UNCHANGED <<mode, hand, handled>>, last' >= last, last' \in Int,
             \A d \in Consumer : next'[d] = "read"
      PROVE  OnceInv'
  <2>1. \A d \in Consumer : \A f \in Entry : ToDo(d, f)' => ToDo(d, f)
    BY <1>3, AfterNothing
  <2>2. \A d \in Consumer : next'[d] = "read" /\ hand'[d] \subseteq hand[d]
    BY <1>3
  <2> QED
    BY <1>0, <1>2, <1>3, <2>1, <2>2, OnceKeepsAll
<1>4. ASSUME NEW c \in Consumer, NEW batch \in SUBSET hand[c], Proceed(c, batch),
             UNCHANGED <<handled, last>>, \A d \in Consumer : next'[d] = "read",
             \A f \in batch : ToDo(c, f)
      PROVE  OnceInv'
  <2>1. \A d \in Consumer : \A f \in Entry : ToDo(d, f)' => ToDo(d, f)
    BY <1>4, AfterProceed
  <2>2. \A d \in Consumer : next'[d] = "read" /\ hand'[d] \subseteq hand[d]
    BY <1>4 DEF Proceed, TypeOK
  <2>3. last' >= last /\ last' \in Int
    BY <1>0, <1>4
  <2> QED
    BY <1>0, <1>2, <1>4, <2>1, <2>2, <2>3, OnceKeepsAll
<1>5. CASE XAdd \/ (\E e \in Entry : Age(e)) \/ UNCHANGED vars
  <2>1. UNCHANGED <<mode, hand, handled, last, next>>
    BY <1>5 DEF XAdd, Age, vars, redis, process
  <2> QED
    BY <1>0, <1>2, <1>3, <2>1
<1>6. ASSUME NEW c \in Consumer PROVE ~Claim(c) /\ ~ClaimLost(c)
  BY <1>2 DEF Claim, ClaimLost, Claimed
<1>7. ASSUME NEW c \in Consumer, Read(c) PROVE OnceInv'
  <2>1. PICK m \in last..length : Delivered(c, m) /\ Proceed(c, (last + 1)..m)
    BY <1>7 DEF Read
  <2>2. hand[c] = {} /\ last' = m /\ m \in Nat /\ m >= last
    BY <2>1, DeliveredType
  <2>3. \A d \in Consumer : next'[d] = "read"
    BY <1>2, <2>1 DEF Delivered, TypeOK
  <2>4. handled' = handled
    BY <1>7 DEF Read
  <2>5. /\ \A d \in Consumer : d # c => hand'[d] = hand[d]
        /\ hand'[c] = (last + 1)..m
    <3> DEFINE batch == (last + 1)..m
    <3>1. Proceed(c, batch)
      BY <2>1
    <3> HIDE DEF batch
    <3>2. /\ \A d \in Consumer : d # c => hand'[d] = hand[d]
          /\ hand'[c] = batch
      BY <3>1 DEF Proceed, TypeOK
    <3> QED
      BY <3>2 DEF batch
  <2>6. \A d \in Consumer : hand[d] \subseteq 1..last
    BY DEF TypeOK
  <2>7. \A f \in (last + 1)..m : f > last /\ f \notin 1..last
    BY <1>0
  <2>8. \A b, d \in Consumer : b # d => hand'[b] \cap hand'[d] = {}
    <3>1. \A d \in Consumer : hand[d] \cap hand'[c] = {}
      BY <2>5, <2>6, <2>7
    <3>2. \A b, d \in Consumer : b # d => hand[b] \cap hand[d] = {}
      BY <1>2 DEF OnceInv
    <3> QED
      <4> SUFFICES ASSUME NEW b \in Consumer, NEW d \in Consumer, b # d
                   PROVE  hand'[b] \cap hand'[d] = {}
        OBVIOUS
      <4>1. CASE b = c
        BY <2>5, <3>1, <4>1
      <4>2. CASE d = c
        BY <2>5, <3>1, <4>2
      <4>3. CASE b # c /\ d # c
        BY <2>5, <3>2, <4>3
      <4> QED
        BY <4>1, <4>2, <4>3
  <2>9. \A d \in Consumer : \A f \in Entry : ToDo(d, f)' => handled'[f] = 0
    <3>1. \A d \in Consumer : \A f \in Entry : d # c /\ ToDo(d, f)' => ToDo(d, f)
      BY <2>1, AfterProceed
    <3>2. \A f \in Entry : ToDo(c, f)' => f > last
      BY <2>5, <2>7 DEF ToDo
    <3> QED
      BY <1>2, <2>4, <3>1, <3>2 DEF OnceInv
  <2>10. \A f \in Entry : f > last' => f > last
    BY <1>0, <2>2 DEF Entry
  <2> QED
    BY <1>2, <2>3, <2>4, <2>8, <2>9, <2>10 DEF OnceInv
<1>8. ASSUME NEW c \in Consumer, ReadLost(c) PROVE OnceInv'
  <2>1. PICK m \in last..length : Delivered(c, m)
    BY <1>8 DEF ReadLost
  <2>2. last' = m /\ m \in Int /\ last' >= last
    BY <2>1, DeliveredType
  <2>3. \A d \in Consumer : next'[d] = "read"
    BY <1>2, <2>1 DEF Delivered, TypeOK
  <2> QED
    BY <1>3, <1>8, <2>2, <2>3 DEF ReadLost
<1>9. ASSUME NEW c \in Consumer, Handle(c) PROVE OnceInv'
  <2>1. PICK e \in Head(c) :
          /\ Handles(c, e)
          /\ Once(e) \/ handled' = handled
    BY <1>9, HandleShape
  <2>2. UNCHANGED <<next, last>> /\ mode[c] = "handle"
    BY <1>9 DEF Handle, redis
  <2> QED
    BY <1>2, <2>1, <2>2, OnceHandled
<1>10. ASSUME NEW c \in Consumer, HandleFails(c) PROVE OnceInv'
  <2>1. PICK e \in Head(c) :
          /\ Once(e) \/ handled' = handled
          /\ Handles(c, e) \/ Proceed(c, hand[c] \ {e})
    BY <1>10, HandleFailsShape
  <2>2. UNCHANGED <<next, last>> /\ mode[c] = "handle"
    BY <1>10 DEF HandleFails
  <2> QED
    BY <1>2, <2>1, <2>2, OnceHandled
<1>11. ASSUME NEW c \in Consumer, Ack(c) \/ AckFails(c) PROVE OnceInv'
  <2>1. PICK e \in Head(c), batch \in SUBSET hand[c] :
          /\ e \notin batch
          /\ mode[c] = "ack"
          /\ handled' = handled
          /\ Proceed(c, batch)
    BY <1>11, AckShape
  <2>2. UNCHANGED <<next, last>>
    BY <1>11 DEF Ack, AckFails, XAck, redis
  <2>3. \A f \in batch : ToDo(c, f)
    BY <2>1, HeadUnique DEF ToDo, AtAck
  <2> QED
    BY <1>2, <1>4, <2>1, <2>2, <2>3
<1>12. ASSUME NEW c \in Consumer, Crash(c) PROVE OnceInv'
  <2>1. Proceed(c, {}) /\ UNCHANGED <<handled, last>>
    BY <1>12 DEF Crash, redis
  <2>2. \A d \in Consumer : next'[d] = "read"
    BY <1>2, <1>12 DEF Crash, TypeOK
  <2> QED
    BY <1>4, <2>1, <2>2
<1> QED
  BY <1>5, <1>6, <1>7, <1>8, <1>9, <1>10, <1>11, <1>12 DEF Next, Loop

-----------------------------------------------------------------------------
(* Claiming repeats work, but not without bound. *)

\* The processes about to acknowledge an entry, and those that may still do it.
Acking(e) == {c \in Consumer : AtAck(c, e)}
Waiting(e) == {c \in Consumer : ToDo(c, e)}

\* Until an entry is acknowledged each result was a failure's or is one of a
\* process about to acknowledge it; afterwards only those that hold it are left.
WorkInv ==
  \A e \in Entry :
    /\ e \notin acked => handled[e] <= failures + Cardinality(Acking(e))
    /\ e \in acked =>
         handled[e] + Cardinality(Waiting(e)) <= failures + Cardinality(Consumer)

\* Both are finite sets, and no process is in both.
LEMMA WorkSets ==
  ASSUME NEW e
  PROVE  /\ IsFiniteSet(Acking(e)) /\ Cardinality(Acking(e)) \in Nat
         /\ IsFiniteSet(Waiting(e)) /\ Cardinality(Waiting(e)) \in Nat
         /\ Cardinality(Consumer) \in Nat
         /\ Cardinality(Acking(e)) <= Cardinality(Consumer)
         /\ Cardinality(Acking(e)) + Cardinality(Waiting(e)) <= Cardinality(Consumer)
<1>1. Acking(e) \subseteq Consumer /\ Waiting(e) \subseteq Consumer
  BY DEF Acking, Waiting
<1>2. IsFiniteSet(Consumer)
  BY GroupAssumption
<1>3. /\ IsFiniteSet(Acking(e)) /\ IsFiniteSet(Waiting(e))
      /\ Cardinality(Acking(e)) <= Cardinality(Consumer)
  BY <1>1, <1>2, FS_Subset
<1>4. /\ Cardinality(Acking(e)) \in Nat
      /\ Cardinality(Waiting(e)) \in Nat
      /\ Cardinality(Consumer) \in Nat
  BY <1>2, <1>3, FS_CardinalityType
<1>5. Acking(e) \cap Waiting(e) = {}
  BY DEF Acking, Waiting, ToDo
<1>6. Cardinality(Acking(e) \cup Waiting(e))
        = Cardinality(Acking(e)) + Cardinality(Waiting(e)) - Cardinality(Acking(e) \cap Waiting(e))
  BY <1>3, FS_Union
<1>7. Cardinality(Acking(e) \cap Waiting(e)) = 0
  BY <1>5, FS_EmptySet
<1>8. Cardinality(Acking(e) \cup Waiting(e)) <= Cardinality(Consumer)
  <2>1. Acking(e) \cup Waiting(e) \subseteq Consumer
    BY <1>1
  <2> QED
    BY <1>2, <2>1, FS_Subset
<1> QED
  BY <1>3, <1>4, <1>6, <1>7, <1>8

\* Numbers the steps work with.
LEMMA WorkNumbers ==
  ASSUME TypeOK, TypeOK', NEW e \in Entry
  PROVE  /\ handled[e] \in Nat /\ handled'[e] \in Nat
         /\ failures \in Nat /\ failures' \in Nat
         /\ Cardinality(Acking(e)) \in Nat /\ Cardinality(Acking(e)') \in Nat
         /\ Cardinality(Waiting(e)) \in Nat /\ Cardinality(Waiting(e)') \in Nat
         /\ Cardinality(Consumer) \in Nat
<1>1. Acking(e)' \subseteq Consumer /\ Waiting(e)' \subseteq Consumer /\ IsFiniteSet(Consumer)
  BY GroupAssumption DEF Acking, Waiting
<1>2. IsFiniteSet(Acking(e)') /\ IsFiniteSet(Waiting(e)')
  BY <1>1, FS_Subset
<1>3. Cardinality(Acking(e)') \in Nat /\ Cardinality(Waiting(e)') \in Nat
  BY <1>2, FS_CardinalityType
<1>4. failures \in Nat /\ failures' \in Nat /\ handled[e] \in Nat /\ handled'[e] \in Nat
  BY GroupAssumption DEF TypeOK
<1> QED
  BY <1>3, <1>4, WorkSets

\* One entry's part of the invariant.
WorkOf(e) ==
  /\ e \notin acked => handled[e] <= failures + Cardinality(Acking(e))
  /\ e \in acked =>
       handled[e] + Cardinality(Waiting(e)) <= failures + Cardinality(Consumer)

\* No result without a failure, nobody who held the entry about to acknowledge
\* it leaves without a failure, and nobody takes it up once it is acknowledged.
LEMMA WorkKept ==
  ASSUME TypeOK, TypeOK', NEW e \in Entry, WorkOf(e),
         handled'[e] - failures' <= handled[e] - failures,
         e \in acked' <=> e \in acked,
         e \notin acked => Acking(e) \subseteq Acking(e)',
         e \in acked => Waiting(e)' \subseteq Waiting(e)
  PROVE  WorkOf(e)'
<1>1. CASE e \in acked
  <2>1. Cardinality(Waiting(e)') <= Cardinality(Waiting(e))
    BY <1>1, WorkSets, FS_Subset
  <2> QED
    BY <1>1, <2>1, WorkNumbers DEF WorkOf
<1>2. CASE e \notin acked
  <2>1. Cardinality(Acking(e)) <= Cardinality(Acking(e)')
    <3>1. Acking(e)' \subseteq Consumer /\ IsFiniteSet(Consumer)
      BY GroupAssumption DEF Acking
    <3>2. IsFiniteSet(Acking(e)')
      BY <3>1, FS_Subset
    <3> QED
      BY <1>2, <3>2, FS_Subset
  <2> QED
    BY <1>2, <2>1, WorkNumbers DEF WorkOf
<1> QED
  BY <1>1, <1>2

\* A failure that takes a process away from its acknowledgement.
LEMMA WorkDropped ==
  ASSUME TypeOK, TypeOK', NEW e \in Entry, WorkOf(e), NEW c \in Consumer,
         handled' = handled, failures' = failures + 1, e \in acked' <=> e \in acked,
         Acking(e) \subseteq Acking(e)' \cup {c}, Waiting(e)' \subseteq Waiting(e)
  PROVE  WorkOf(e)'
<1>1. CASE e \in acked
  <2>1. Cardinality(Waiting(e)') <= Cardinality(Waiting(e))
    BY WorkSets, FS_Subset
  <2> QED
    BY <1>1, <2>1, WorkNumbers DEF WorkOf
<1>2. CASE e \notin acked
  <2>1. IsFiniteSet(Acking(e)')
    <3>1. Acking(e)' \subseteq Consumer /\ IsFiniteSet(Consumer)
      BY GroupAssumption DEF Acking
    <3> QED
      BY <3>1, FS_Subset
  <2>2. IsFiniteSet(Acking(e)' \cup {c}) /\ Cardinality(Acking(e)' \cup {c}) <= Cardinality(Acking(e)') + 1
    <3>0. Cardinality(Acking(e)') \in Nat
      BY WorkNumbers
    <3>1. CASE c \in Acking(e)'
      <4>1. Acking(e)' \cup {c} = Acking(e)'
        BY <3>1
      <4>2. Cardinality(Acking(e)' \cup {c}) = Cardinality(Acking(e)')
        BY <4>1
      <4> QED
        BY <2>1, <3>0, <4>1, <4>2
    <3>2. CASE c \notin Acking(e)'
      <4>1. /\ IsFiniteSet(Acking(e)' \cup {c})
            /\ Cardinality(Acking(e)' \cup {c}) = Cardinality(Acking(e)') + 1
        BY <2>1, <3>2, FS_AddElement
      <4> QED
        BY <3>0, <4>1
    <3> QED
      BY <3>1, <3>2
  <2>3. Cardinality(Acking(e)) <= Cardinality(Acking(e)' \cup {c})
    BY <2>2, FS_Subset
  <2>4. Cardinality(Acking(e)' \cup {c}) \in Nat
    BY <2>2, FS_CardinalityType
  <2> QED
    BY <1>2, <2>2, <2>3, <2>4, WorkNumbers DEF WorkOf
<1> QED
  BY <1>1, <1>2

\* The entry is acknowledged, perhaps not for the first time.
LEMMA WorkAcked ==
  ASSUME TypeOK, TypeOK', NEW e \in Entry, WorkOf(e), e \in acked',
         handled' = handled, failures' >= failures, Waiting(e)' \subseteq Waiting(e)
  PROVE  WorkOf(e)'
<1>1. Cardinality(Waiting(e)') <= Cardinality(Waiting(e))
  BY WorkSets, FS_Subset
<1>2. Cardinality(Acking(e)) + Cardinality(Waiting(e)) <= Cardinality(Consumer)
  BY WorkSets
<1>3. handled'[e] + Cardinality(Waiting(e)) <= failures + Cardinality(Consumer)
  BY <1>2, WorkNumbers DEF WorkOf
<1> QED
  BY <1>1, <1>3, WorkNumbers DEF WorkOf

\* A result: its process goes from those that hold the entry to those about to
\* acknowledge it.
LEMMA WorkDone ==
  ASSUME TypeOK, TypeOK', NEW e \in Entry, WorkOf(e), NEW c \in Consumer,
         handled'[e] <= handled[e] + 1, failures' = failures, acked' = acked,
         Acking(e)' = Acking(e) \cup {c}, c \notin Acking(e),
         Waiting(e)' = Waiting(e) \ {c}, c \in Waiting(e)
  PROVE  WorkOf(e)'
<1>1. Cardinality(Acking(e)') = Cardinality(Acking(e)) + 1
  BY WorkSets, FS_AddElement
<1>2. Cardinality(Waiting(e)') = Cardinality(Waiting(e)) - 1
  BY WorkSets, FS_RemoveElement
<1> QED
  BY <1>1, <1>2, WorkNumbers DEF WorkOf
\* Steps that only move entries into hands, or drop a process's batch.
LEMMA WorkQuiet ==
  ASSUME TypeOK, TypeOK', Quiet, NEW e \in Entry, WorkOf(e)
  PROVE  WorkOf(e)'
<1>1. /\ handled[e] \in Nat /\ failures \in Nat /\ failures' \in Nat
      /\ handled' = handled /\ acked' = acked
  BY WorkNumbers DEF Quiet
<1>2. CASE UNCHANGED <<mode, hand>> /\ failures <= failures'
  <2>1. Acking(e)' = Acking(e) /\ Waiting(e)' = Waiting(e)
    BY <1>2, AfterNothing DEF Acking, Waiting
  <2>2. handled'[e] - failures' <= handled[e] - failures
    BY <1>1, <1>2
  <2> QED
    BY <1>1, <2>1, <2>2, WorkKept
<1>3. ASSUME NEW c \in Consumer, NEW batch, Proceed(c, batch), hand[c] = {}, mode[c] = "call",
             batch \cap acked = {}, failures' = failures
      PROVE  WorkOf(e)'
  <2>1. ~AtAck(c, e)
    BY <1>3 DEF AtAck
  <2>2. Acking(e) \subseteq Acking(e)'
    BY <1>3, <2>1, AfterProceed DEF Acking
  <2>3. e \in acked => Waiting(e)' \subseteq Waiting(e)
    BY <1>3, AfterProceed DEF Waiting
  <2>4. handled'[e] - failures' <= handled[e] - failures
    BY <1>1, <1>3
  <2> QED
    BY <1>1, <2>2, <2>3, <2>4, WorkKept
<1>4. ASSUME NEW c \in Consumer, Proceed(c, {}), failures' = failures + 1
      PROVE  WorkOf(e)'
  <2>1. Acking(e) \subseteq Acking(e)' \cup {c}
    BY <1>4, AfterProceed DEF Acking
  <2>2. Waiting(e)' \subseteq Waiting(e)
    BY <1>4, AfterProceed DEF Waiting
  <2> QED
    BY <1>1, <1>4, <2>1, <2>2, WorkDropped
<1> QED
  BY <1>2, <1>3, <1>4 DEF Quiet

\* A handler returns.
LEMMA WorkHandle ==
  ASSUME TypeOK, TypeOK', NEW c \in Consumer, Handle(c), NEW f \in Entry, WorkOf(f)
  PROVE  WorkOf(f)'
<1>1. PICK e \in Head(c) :
        /\ Handles(c, e)
        /\ UNCHANGED <<program, acked, failures>>
        /\ Once(e) \/ (e \in Malformed /\ handled' = handled)
  BY HandleShape
<1>2. handled[f] \in Nat /\ handled'[f] \in Nat /\ failures \in Nat /\ e \in Entry /\ e \in hand[c]
  BY WorkNumbers, HeadDelivered
<1>3. mode[c] = "handle" /\ mode' = [mode EXCEPT ![c] = "ack"] /\ hand' = hand
  BY <1>1 DEF Handles
<1>4. CASE f = e
  <2>1. handled'[f] <= handled[f] + 1
    BY <1>1, <1>2, <1>4 DEF Once, TypeOK
  <2>2. Acking(f)' = Acking(f) \cup {c} /\ c \notin Acking(f)
    BY <1>1, <1>3, <1>4, AfterHandle DEF Acking
  <2>3. Waiting(f)' = Waiting(f) \ {c} /\ c \in Waiting(f)
    BY <1>1, <1>2, <1>3, <1>4, AfterHandle DEF Waiting
  <2> QED
    BY <1>1, <2>1, <2>2, <2>3, WorkDone
<1>5. CASE f # e
  <2>1. handled'[f] = handled[f]
    BY <1>1, <1>5 DEF Once, TypeOK
  <2>2. Acking(f) \subseteq Acking(f)'
    BY <1>3, AfterHandle DEF Acking
  <2>3. Waiting(f)' \subseteq Waiting(f)
    BY <1>3, AfterHandle DEF Waiting
  <2>4. handled'[f] - failures' <= handled[f] - failures
    BY <1>1, <1>2, <2>1
  <2> QED
    BY <1>1, <2>2, <2>3, <2>4, WorkKept
<1> QED
  BY <1>4, <1>5

\* A handler raises: the failure makes up for the result it may have left.
LEMMA WorkHandleFails ==
  ASSUME TypeOK, TypeOK', NEW c \in Consumer, HandleFails(c), NEW f \in Entry, WorkOf(f)
  PROVE  WorkOf(f)'
<1>1. PICK e \in Head(c) :
        /\ mode[c] = "handle"
        /\ UNCHANGED <<program, acked>>
        /\ failures' = failures + 1
        /\ Once(e) \/ handled' = handled
        /\ Handles(c, e) \/ Proceed(c, hand[c] \ {e})
  BY HandleFailsShape
<1>2. handled[f] \in Nat /\ handled'[f] \in Nat /\ failures \in Nat
  BY WorkNumbers
<1>3. handled'[f] <= handled[f] + 1
  <2>1. CASE Once(e) /\ f = e
    BY <2>1, <1>2 DEF Once, TypeOK
  <2>2. CASE Once(e) /\ f # e
    <3>1. handled'[f] = handled[f]
      BY <2>2 DEF Once, TypeOK
    <3> QED
      BY <1>2, <3>1
  <2>3. CASE handled' = handled
    BY <1>2, <2>3
  <2> QED
    BY <1>1, <2>1, <2>2, <2>3
<1>4. handled'[f] - failures' <= handled[f] - failures
  BY <1>1, <1>2, <1>3
<1>5. Acking(f) \subseteq Acking(f)' /\ Waiting(f)' \subseteq Waiting(f)
  <2>1. CASE Handles(c, e)
    BY <2>1, AfterHandle DEF Handles, Acking, Waiting
  <2>2. CASE Proceed(c, hand[c] \ {e})
    <3>1. ~AtAck(c, f)
      BY <1>1 DEF AtAck
    <3>2. f \in hand[c] \ {e} => ToDo(c, f)
      BY <3>1 DEF ToDo
    <3>3. Acking(f) \subseteq Acking(f)'
      BY <2>2, <3>1, AfterProceed DEF Acking
    <3>4. Waiting(f)' \subseteq Waiting(f)
      BY <2>2, <3>2, AfterProceed DEF Waiting
    <3> QED
      BY <3>3, <3>4
  <2> QED
    BY <1>1, <2>1, <2>2
<1> QED
  BY <1>1, <1>4, <1>5, WorkKept

\* A process acknowledges the entry it is at, or fails to.
LEMMA WorkAck ==
  ASSUME TypeOK, TypeOK', NEW c \in Consumer, Ack(c) \/ AckFails(c), NEW f \in Entry, WorkOf(f)
  PROVE  WorkOf(f)'
<1>1. PICK e \in Head(c), batch \in SUBSET hand[c] :
        /\ e \notin batch
        /\ mode[c] = "ack"
        /\ handled' = handled
        /\ Proceed(c, batch)
        /\ \/ acked' = acked \cup {e} /\ failures' \in {failures, failures + 1}
           \/ acked' = acked /\ failures' = failures + 1
  BY AckShape
<1>2. handled[f] \in Nat /\ failures \in Nat /\ failures' \in Nat /\ failures <= failures'
  BY <1>1, WorkNumbers
<1>3. f # e => ~AtAck(c, f)
  BY <1>1, HeadUnique DEF AtAck
<1>4. Waiting(f)' \subseteq Waiting(f)
  <2>1. f \in batch => ToDo(c, f)
    BY <1>1, <1>3 DEF ToDo
  <2> QED
    BY <1>1, <2>1, AfterProceed DEF Waiting
<1>5. Acking(f) \subseteq Acking(f)' \cup {c}
  BY <1>1, AfterProceed DEF Acking
<1>6. f # e => Acking(f) \subseteq Acking(f)'
  BY <1>1, <1>3, AfterProceed DEF Acking
<1>7. handled'[f] - failures' <= handled[f] - failures
  BY <1>1, <1>2
<1>8. CASE acked' = acked /\ failures' = failures + 1
  BY <1>1, <1>4, <1>5, <1>8, WorkDropped
<1>9. CASE acked' = acked \cup {e} /\ f = e
  BY <1>1, <1>2, <1>4, <1>9, WorkAcked
<1>10. CASE acked' = acked \cup {e} /\ f # e
  <2>1. f \in acked' <=> f \in acked
    BY <1>10
  <2> QED
    BY <1>4, <1>6, <1>7, <1>10, <2>1, WorkKept
<1> QED
  BY <1>1, <1>8, <1>9, <1>10

\* No step does more work than the failures and the processes account for.
LEMMA WorkStep == TypeOK /\ ListInv /\ WorkInv /\ [Next]_vars => WorkInv'
<1> SUFFICES ASSUME TypeOK, ListInv, WorkInv, [Next]_vars, NEW e \in Entry PROVE WorkOf(e)'
  BY DEF WorkInv, WorkOf
<1>1. WorkOf(e) /\ TypeOK'
  BY TypeStep DEF WorkInv, WorkOf
<1>2. CASE Quiet
  BY <1>1, <1>2, WorkQuiet
<1>3. ASSUME NEW c \in Consumer, Handle(c) PROVE WorkOf(e)'
  BY <1>1, <1>3, WorkHandle
<1>4. ASSUME NEW c \in Consumer, HandleFails(c) PROVE WorkOf(e)'
  BY <1>1, <1>4, WorkHandleFails
<1>5. ASSUME NEW c \in Consumer, Ack(c) \/ AckFails(c) PROVE WorkOf(e)'
  BY <1>1, <1>5, WorkAck
<1> QED
  BY <1>2, <1>3, <1>4, <1>5, StepShapes

-----------------------------------------------------------------------------
(* The safety of the groups. *)

\* Nothing is delivered, handled or held at first.
LEMMA InitInv == Init => TypeOK /\ ListInv /\ HandledInv /\ OnceInv /\ WorkInv
<1> SUFFICES ASSUME Init PROVE TypeOK /\ ListInv /\ HandledInv /\ OnceInv /\ WorkInv
  OBVIOUS
<1>1. TypeOK
  BY GroupAssumption DEF Init, FirstCall, TypeOK
<1>2. ListInv
  BY DEF Init, ListInv
<1>3. HandledInv
  BY DEF Init, HandledInv, AtAck
<1>4. OnceInv
  BY DEF Init, OnceInv, FirstCall, ToDo
<1>5. WorkInv
  <2> SUFFICES ASSUME NEW e \in Entry PROVE handled[e] <= failures + Cardinality(Acking(e))
    BY DEF WorkInv, Init
  <2>1. Cardinality(Acking(e)) \in Nat
    BY WorkSets
  <2> QED
    BY <2>1 DEF Init
<1> QED
  BY <1>1, <1>2, <1>3, <1>4, <1>5

\* The invariants the three theorems below follow from.
LEMMA GroupInvariant == Spec => [](TypeOK /\ ListInv /\ HandledInv /\ OnceInv /\ WorkInv)
BY InitInv, TypeStep, ListStep, HandledStep, OnceStep, WorkStep, PTL DEF Spec

\* Workers and renderer acknowledge an entry only when its result is out,
\* whatever is lost, claimed by another process or crashes.
THEOREM AckedAreHandled == Spec => []AckedIsHandled
<1>1. HandledInv => AckedIsHandled
  BY DEF HandledInv, AckedIsHandled
<1> QED
  BY <1>1, GroupInvariant, PTL

\* In a group whose programs do not claim, no entry's work is done twice.
THEOREM NeverTwice == Spec => []OnceWithoutClaims
<1>1. OnceInv => OnceWithoutClaims
  BY DEF OnceInv, OnceWithoutClaims
<1> QED
  BY <1>1, GroupInvariant, PTL

\* With claims an entry's work is done at most once by each process and once
\* more for each failure.
THEOREM WorkIsBounded == Spec => []WorkBounded
<1>1. TypeOK /\ WorkInv => WorkBounded
  <2> SUFFICES ASSUME TypeOK, WorkInv, NEW e \in Entry
               PROVE  handled[e] <= Cardinality(Consumer) + failures
    BY DEF WorkBounded
  <2>1. /\ handled[e] \in Nat /\ failures \in Nat
        /\ Cardinality(Acking(e)) \in Nat /\ Cardinality(Waiting(e)) \in Nat
        /\ Cardinality(Consumer) \in Nat
        /\ Cardinality(Acking(e)) <= Cardinality(Consumer)
    BY WorkSets DEF TypeOK
  <2>2. \/ handled[e] <= failures + Cardinality(Acking(e))
        \/ handled[e] + Cardinality(Waiting(e)) <= failures + Cardinality(Consumer)
    BY DEF WorkInv
  <2> QED
    BY <2>1, <2>2
<1> QED
  BY <1>1, GroupInvariant, PTL
=============================================================================
