------------------------------ MODULE SwapQueue ------------------------------
(***************************************************************************)
(* base/swap_queue.h: a fixed-size ring of items that producers and        *)
(* consumers exchange by swap().  Every operation holds crit_queue_ from   *)
(* its first access to its last, so an operation is one atomic step; the   *)
(* interleaving that matters is between the operations of the threads and  *)
(* the filling and draining of the items they own outside the lock.        *)
(*                                                                         *)
(* An item is a heap object: which object it is (buf) and what is written  *)
(* in it (data).  swap() exchanges objects, so the object travels with     *)
(* its contents.                                                           *)
(***************************************************************************)
EXTENDS Integers, Sequences

CONSTANTS Size,        \* queue_.size(), fixed at construction
          Producers,   \* threads that fill an item and Insert it
          Consumers,   \* threads that Remove an item and read it
          Payload      \* what a producer may write into its item

Threads == Producers \cup Consumers
Slots == 0..(Size - 1)

ASSUME SizeAssumption == Size \in Nat
ASSUME ThreadAssumption == Producers \cap Consumers = {}

Empty == "empty"       \* contents of a freshly constructed prototype
Bufs == Slots \cup Threads
Item == [buf : Bufs, data : Payload \cup {Empty}]

ASSUME PayloadAssumption == Empty \notin Payload /\ Slots \cap Threads = {}

VARIABLES queue_,             \* the items in the slots
          next_write_index_,
          next_read_index_,
          num_elements_,
          held                \* the item each thread owns outside the queue

vars == <<queue_, next_write_index_, next_read_index_, num_elements_, held>>

Init == /\ queue_ = [i \in Slots |-> [buf |-> i, data |-> Empty]]
        /\ next_write_index_ = 0
        /\ next_read_index_ = 0
        /\ num_elements_ = 0
        /\ held = [t \in Threads |-> [buf |-> t, data |-> Empty]]

\* ++index; if (index == queue_.size()) index = 0;
Advance(index) == IF index + 1 = Size THEN 0 ELSE index + 1

\* A producer writes into the item it owns (the client's b.Fill()).
Fill(p, d) ==
  /\ held' = [held EXCEPT ![p].data = d]
  /\ UNCHANGED <<queue_, next_write_index_, next_read_index_, num_elements_>>

\* Mutant: the item is copied into the queue instead of swapped.
InsertCopy(p) ==
  /\ num_elements_ # Size
  /\ queue_' = [queue_ EXCEPT ![next_write_index_] = held[p]]
  /\ next_write_index_' = Advance(next_write_index_)
  /\ num_elements_' = num_elements_ + 1
  /\ UNCHANGED <<next_read_index_, held>>

\* Insert(): false, with no effect, when the queue is full.
Insert(p) ==
  /\ num_elements_ # Size
  /\ queue_' = [queue_ EXCEPT ![next_write_index_] = held[p]]
  /\ held' = [held EXCEPT ![p] = queue_[next_write_index_]]
  /\ next_write_index_' = Advance(next_write_index_)
  /\ num_elements_' = num_elements_ + 1
  /\ UNCHANGED next_read_index_

\* Mutant: the newest item is taken, and the write index moves back.
RemoveNewest(c) ==
  LET last == IF next_write_index_ = 0 THEN Size - 1 ELSE next_write_index_ - 1
  IN  /\ num_elements_ # 0
      /\ queue_' = [queue_ EXCEPT ![last] = held[c]]
      /\ held' = [held EXCEPT ![c] = queue_[last]]
      /\ next_write_index_' = last
      /\ num_elements_' = num_elements_ - 1
      /\ UNCHANGED next_read_index_

\* Remove(): false, with no effect, when the queue is empty.
Remove(c) ==
  /\ num_elements_ # 0
  /\ queue_' = [queue_ EXCEPT ![next_read_index_] = held[c]]
  /\ held' = [held EXCEPT ![c] = queue_[next_read_index_]]
  /\ next_read_index_' = Advance(next_read_index_)
  /\ num_elements_' = num_elements_ - 1
  /\ UNCHANGED next_write_index_

\* Mutant: the number of elements is reset, the indices are not.
ClearCount ==
  /\ next_write_index_' = 0
  /\ num_elements_' = 0
  /\ UNCHANGED <<queue_, next_read_index_, held>>

\* Clear() resets the indices and leaves the items in their slots.
Clear ==
  /\ next_write_index_' = 0
  /\ next_read_index_' = 0
  /\ num_elements_' = 0
  /\ UNCHANGED <<queue_, held>>

Next ==
  \/ \E p \in Producers : \E d \in Payload : Fill(p, d)
  \/ \E p \in Producers : Insert(p)
  \/ \E c \in Consumers : Remove(c)
  \/ Clear

Spec == Init /\ [][Next]_vars
------------------------------------------------------------------------------
(* The properties of the queue. *)

\* The RTC_DCHECKs at the end of Insert and Remove: both indices stay inside
\* the ring and no more elements are counted than it has slots. In a ring
\* without slots the indices stay at 0.
TypeOK ==
  /\ queue_ \in [Slots -> Item]
  /\ next_write_index_ \in Slots \cup {0}
  /\ next_read_index_ \in Slots \cup {0}
  /\ num_elements_ \in 0..Size
  /\ held \in [Threads -> Item]

\* Slot i places after the read index.
SlotAt(i) == IF next_read_index_ + i < Size THEN next_read_index_ + i
                                           ELSE next_read_index_ + i - Size

\* The comment on the three counters, swap_queue.h: the write index is
\* num_elements_ places after the read index, around the ring.
IndicesAgree ==
  next_write_index_ = IF num_elements_ = Size THEN next_read_index_
                                              ELSE SlotAt(num_elements_)

\* swap() only moves items: no object is ever in two places (two slots, two
\* threads, or a slot and a thread), whatever Insert, Remove and Clear do, so
\* a thread may write to the item it holds without a lock.
NoSharedItem ==
  /\ \A i, j \in Slots : queue_[i].buf = queue_[j].buf => i = j
  /\ \A s, t \in Threads : held[s].buf = held[t].buf => s = t
  /\ \A i \in Slots, t \in Threads : queue_[i].buf # held[t].buf

\* The ring, read from the read index, is the abstract queue.
Contents == [i \in 1..num_elements_ |-> queue_[SlotAt(i - 1)].data]
Fifo == INSTANCE BoundedFifo WITH fifo <- Contents,
                             Payload <- Payload \cup {Empty}

\* The ring buffer with its wrapping indices implements the bounded FIFO
\* queue: Insert appends, Remove takes the oldest, Clear drops all.
ImplementsFifo == Fifo!FifoSpec
==============================================================================
