--------------------------- MODULE SwapQueueProofs ---------------------------
(***************************************************************************)
(* The ring of base/swap_queue.h, for every size, every set of threads and *)
(* every set of payloads: its counters agree, no item is ever shared, and  *)
(* it implements the bounded FIFO queue.                                   *)
(***************************************************************************)
EXTENDS SwapQueue, TLAPS

\* Type correctness of the ring and of the items the threads own.
THEOREM SwapQueueTyped == Spec => []TypeOK
<1> USE SizeAssumption DEF TypeOK, Slots
<1>1. Init => TypeOK
  BY DEF Init, Item, Bufs, Slots
<1>2. TypeOK /\ [Next]_vars => TypeOK'
  <2> SUFFICES ASSUME TypeOK, [Next]_vars
               PROVE  TypeOK'
    OBVIOUS
  <2>1. ASSUME NEW p \in Producers, NEW d \in Payload, Fill(p, d)
        PROVE  TypeOK'
    BY <2>1 DEF Fill, Item, Threads
  <2>2. ASSUME NEW p \in Producers, Insert(p)
        PROVE  TypeOK'
    BY <2>2 DEF Insert, Advance, Threads
  <2>3. ASSUME NEW c \in Consumers, Remove(c)
        PROVE  TypeOK'
    BY <2>3 DEF Remove, Advance, Threads
  <2>4. CASE Clear
    BY <2>4 DEF Clear
  <2>5. CASE UNCHANGED vars
    BY <2>5 DEF vars
  <2> QED
    BY <2>1, <2>2, <2>3, <2>4, <2>5 DEF Next
<1> QED
  BY <1>1, <1>2, PTL DEF Spec

\* The counters stay consistent across every wrap of either index: the
\* comment on the three counters of SwapQueue is an invariant.
THEOREM IndicesAlwaysAgree == Spec => []IndicesAgree
<1> USE SizeAssumption DEF TypeOK, Slots, IndicesAgree, SlotAt
<1>1. Init => IndicesAgree
  BY DEF Init
<1>2. TypeOK /\ IndicesAgree /\ [Next]_vars => IndicesAgree'
  <2> SUFFICES ASSUME TypeOK, IndicesAgree, [Next]_vars
               PROVE  IndicesAgree'
    OBVIOUS
  <2>1. ASSUME NEW p \in Producers, NEW d \in Payload, Fill(p, d)
        PROVE  IndicesAgree'
    BY <2>1 DEF Fill
  <2>2. ASSUME NEW p \in Producers, Insert(p)
        PROVE  IndicesAgree'
    BY <2>2 DEF Insert, Advance
  <2>3. ASSUME NEW c \in Consumers, Remove(c)
        PROVE  IndicesAgree'
    BY <2>3 DEF Remove, Advance
  <2>4. CASE Clear
    BY <2>4 DEF Clear
  <2>5. CASE UNCHANGED vars
    BY <2>5 DEF vars
  <2> QED
    BY <2>1, <2>2, <2>3, <2>4, <2>5 DEF Next
<1> QED
  BY <1>1, <1>2, SwapQueueTyped, PTL DEF Spec

\* swap() never leaves one item in two places, so the item a thread holds is
\* its own.
THEOREM ItemsNeverShared == Spec => []NoSharedItem
<1> USE SizeAssumption, PayloadAssumption DEF TypeOK, NoSharedItem
<1>1. Init => NoSharedItem
  BY DEF Init
<1>2. TypeOK /\ NoSharedItem /\ [Next]_vars => NoSharedItem'
  <2> SUFFICES ASSUME TypeOK, NoSharedItem, [Next]_vars
               PROVE  NoSharedItem'
    OBVIOUS
  <2>1. ASSUME NEW p \in Producers, NEW d \in Payload, Fill(p, d)
        PROVE  NoSharedItem'
    <3>1. p \in Threads
      BY DEF Threads
    <3>2. \A t \in Threads : held'[t].buf = held[t].buf
      BY <2>1, <3>1 DEF Fill, Item
    <3> QED
      BY <2>1, <3>2 DEF Fill
  <2>2. ASSUME NEW p \in Producers, Insert(p)
        PROVE  NoSharedItem'
    <3>1. next_write_index_ \in Slots
      BY <2>2 DEF Insert, Slots
    <3> QED
      BY <2>2, <3>1 DEF Insert, Threads
  <2>3. ASSUME NEW c \in Consumers, Remove(c)
        PROVE  NoSharedItem'
    <3>1. next_read_index_ \in Slots
      BY <2>3 DEF Remove, Slots
    <3> QED
      BY <2>3, <3>1 DEF Remove, Threads
  <2>4. CASE Clear
    BY <2>4 DEF Clear
  <2>5. CASE UNCHANGED vars
    BY <2>5 DEF vars
  <2> QED
    BY <2>1, <2>2, <2>3, <2>4, <2>5 DEF Next
<1> QED
  BY <1>1, <1>2, SwapQueueTyped, PTL DEF Spec

\* What the ring holds, read from the read index, after an Insert.
LEMMA InsertAppends ==
  ASSUME TypeOK, IndicesAgree, NEW p \in Producers, Insert(p)
  PROVE  Contents' = Append(Contents, held[p].data)
<1> USE SizeAssumption DEF TypeOK, Slots, IndicesAgree, SlotAt
<1> DEFINE n == num_elements_
<1>1. num_elements_' = n + 1 /\ n \in Nat /\ n < Size
  BY DEF Insert
<1>2. next_read_index_' = next_read_index_ /\ next_write_index_ = SlotAt(n)
  BY DEF Insert
<1>3. \A i \in 1..n : SlotAt(i - 1) \in Slots /\ SlotAt(i - 1) # next_write_index_
  BY <1>1
<1>4. \A i \in 1..n : queue_'[SlotAt(i - 1)] = queue_[SlotAt(i - 1)]
  BY <1>3 DEF Insert
<1>5. queue_'[SlotAt(n)] = held[p]
  BY <1>2 DEF Insert
<1>6. \A i : SlotAt(i)' = SlotAt(i)
  BY <1>2
<1>7. Contents' = [i \in 1..(n + 1) |-> IF i <= n THEN queue_[SlotAt(i - 1)].data
                                               ELSE held[p].data]
  <2>1. Contents' = [i \in 1..(n + 1) |-> queue_'[SlotAt(i - 1)].data]
    BY <1>1, <1>6 DEF Contents
  <2> HIDE DEF SlotAt
  <2>2. ASSUME NEW i \in 1..(n + 1)
        PROVE  queue_'[SlotAt(i - 1)].data
                 = IF i <= n THEN queue_[SlotAt(i - 1)].data ELSE held[p].data
    <3>1. CASE i <= n
      BY <3>1, <1>1, <1>4
    <3>2. CASE ~(i <= n)
      <4>1. i - 1 = n
        BY <3>2, <1>1
      <4> QED
        BY <4>1, <3>2, <1>5
    <3> QED
      BY <3>1, <3>2
  <2> QED
    BY <2>1, <2>2
<1> HIDE DEF SlotAt
<1>8. Contents \in Seq(Payload \cup {Empty}) /\ Len(Contents) = n
  <2>1. \A i \in 1..n : queue_[SlotAt(i - 1)].data \in Payload \cup {Empty}
    BY <1>3 DEF Item
  <2> QED
    BY <2>1, <1>1 DEF Contents
<1>9. Append(Contents, held[p].data)
        = [i \in 1..(n + 1) |-> IF i <= n THEN Contents[i] ELSE held[p].data]
  <2> HIDE DEF Contents
  <2> DEFINE q == Contents
  <2>1. q \in Seq(Payload \cup {Empty}) /\ Len(q) = n
    BY <1>8
  <2> HIDE DEF q
  <2>2. held[p].data \in Payload \cup {Empty}
    BY DEF Item, Threads
  <2>3. Append(q, held[p].data)
          = [i \in 1..(n + 1) |-> IF i <= n THEN q[i] ELSE held[p].data]
    BY <1>1, <2>1, <2>2
  <2> QED
    BY <2>3 DEF q
<1>10. \A i \in 1..n : Contents[i] = queue_[SlotAt(i - 1)].data
  BY DEF Contents
<1> QED
  BY <1>1, <1>7, <1>9, <1>10

\* What the ring holds after a Remove.
LEMMA RemoveTakesOldest ==
  ASSUME TypeOK, NEW c \in Consumers, Remove(c)
  PROVE  Contents # << >> /\ Contents' = Tail(Contents)
<1> USE SizeAssumption DEF TypeOK, Slots, SlotAt
<1> DEFINE n == num_elements_
<1>1. num_elements_' = n - 1 /\ n \in 1..Size
  BY DEF Remove
<1>2. next_read_index_' = SlotAt(1)
  BY DEF Remove, Advance
<1>3. \A i \in 1..(n - 1) : SlotAt(i) \in Slots /\ SlotAt(i) # next_read_index_
  BY <1>1
<1>4. \A i \in 1..(n - 1) : queue_'[SlotAt(i)] = queue_[SlotAt(i)]
  BY <1>3 DEF Remove
<1>5. \A i \in 1..(n - 1) : SlotAt(i - 1)' = SlotAt(i)
  BY <1>1, <1>2
<1> HIDE DEF SlotAt
<1>6. Contents' = [i \in 1..(n - 1) |-> queue_[SlotAt(i)].data]
  BY <1>1, <1>4, <1>5 DEF Contents
<1>7. Contents \in Seq(Payload \cup {Empty}) /\ Len(Contents) = n
  <2>1. \A i \in 1..n : SlotAt(i - 1) \in Slots
    BY <1>1 DEF SlotAt
  <2>2. \A i \in 1..n : queue_[SlotAt(i - 1)].data \in Payload \cup {Empty}
    BY <2>1 DEF Item
  <2> QED
    BY <2>2, <1>1 DEF Contents
<1>8. Tail(Contents) = [i \in 1..(n - 1) |-> Contents[i + 1]]
  BY <1>1, <1>7
<1>9. \A i \in 1..(n - 1) : Contents[i + 1] = queue_[SlotAt(i)].data
  BY <1>1 DEF Contents
<1> QED
  BY <1>1, <1>6, <1>7, <1>8, <1>9

\* The ring buffer implements the bounded FIFO queue: every step of a
\* producer, a consumer or Clear() is a step of the abstract queue or leaves
\* it unchanged.
THEOREM RingImplementsFifo == Spec => ImplementsFifo
<1>1. Init => Fifo!FifoInit
  BY DEF Init, Fifo!FifoInit, Contents
<1>2. TypeOK /\ IndicesAgree /\ [Next]_vars => [Fifo!FifoNext]_Contents
  <2> SUFFICES ASSUME TypeOK, IndicesAgree, [Next]_vars
               PROVE  [Fifo!FifoNext]_Contents
    OBVIOUS
  <2>1. ASSUME NEW p \in Producers, NEW d \in Payload, Fill(p, d)
        PROVE  Contents' = Contents
    BY <2>1 DEF Fill, Contents, SlotAt
  <2>2. ASSUME NEW p \in Producers, Insert(p)
        PROVE  Fifo!FifoNext
    <3>1. Contents' = Append(Contents, held[p].data)
      BY <2>2, InsertAppends
    <3>2. held[p].data \in Payload \cup {Empty}
      BY DEF TypeOK, Item, Threads
    <3>3. Len(Contents) = num_elements_ /\ num_elements_ < Size
      BY <2>2, SizeAssumption DEF Contents, Insert, TypeOK
    <3> QED
      BY <3>1, <3>2, <3>3 DEF Fifo!FifoNext, Fifo!Put
  <2>3. ASSUME NEW c \in Consumers, Remove(c)
        PROVE  Fifo!FifoNext
    BY <2>3, RemoveTakesOldest DEF Fifo!FifoNext, Fifo!Get
  <2>4. CASE Clear
    BY <2>4 DEF Clear, Contents, Fifo!FifoNext, Fifo!Drop
  <2>5. CASE UNCHANGED vars
    BY <2>5 DEF vars, Contents, SlotAt
  <2> QED
    BY <2>1, <2>2, <2>3, <2>4, <2>5 DEF Next
<1> QED
  BY <1>1, <1>2, SwapQueueTyped, IndicesAlwaysAgree, PTL
  DEF Spec, ImplementsFifo, Fifo!FifoSpec
==============================================================================
