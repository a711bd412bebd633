-------------------------- MODULE AsyncInvokerProofs --------------------------
(***************************************************************************)
(* AsyncInvoker for any number of threads and closures.  The invariant     *)
(* says that the counter is the number of closures that are not dead, and  *)
(* that every thread inside a call holds such a closure, which no other    *)
(* thread holds: a counter of zero then means that no thread is inside a   *)
(* call.  Flush() needs, besides, where the closures are that were in the  *)
(* queue when it was called.                                               *)
(***************************************************************************)
EXTENDS AsyncInvoker, FiniteSetTheorems, TLAPS

Posting == {"made", "post", "push"}
Deleting == {"delete", "set"}

\* Thread t is in the body of Flush(), or in a functor that it runs.
InFlush(t) == pc[t] = "flush" \/ base[t] = "flush" \/ ret[t] = "flush"

\* The owner has called Flush() and it has not returned.
Flushing == pc[Owner] \in {"flushcall", "flushwait"} \/ InFlush(Owner)

\* Closure c is in the hands of thread t.
Has(t, c) == c = job[t] \/ c = made[t] \/ c \in doomed[t] \/ c \in flushing[t]

\* The counter.
Counted == pending_invocations_ = Cardinality(Live)

\* What a thread holds, from where it stands.
Locals ==
  \A t \in Thread :
    /\ (pc[t] = "exec" \/ ret[t] = "exec") <=> job[t] # None
    /\ pc[t] \in Posting <=> made[t] # None
    /\ doomed[t] # {} => pc[t] \in Deleting
    /\ pc[t] = "delete" => doomed[t] # {}
    /\ ret[t] \in {"idle", "exec", "flush", "clear", "wait"}
    /\ ret[t] # "idle" => pc[t] \in Posting \cup Deleting
    /\ pc[t] \in Posting => ret[t] \in {"idle", "exec"}
    /\ base[t] = "flush" => job[t] # None
    /\ flushing[t] # {} => InFlush(t)

\* A closure that is held is in the state its holder put it in.
Held ==
  \A t \in Thread, c \in Closure :
    /\ c = job[t] => status[c] = "running"
    /\ c = made[t] => status[c] = "made"
    /\ c \in doomed[t] => status[c] = "doomed"
    /\ c \in flushing[t] => status[c] = "taken"

\* Nobody else holds it.
Apart == \A t \in Thread, u \in Thread, c \in Closure : Has(t, c) /\ Has(u, c) => t = u

OwnerOnly ==
  \A t \in Thread :
    \/ pc[t] \in {"flushcall", "flushwait", "clear", "loop", "wait"}
    \/ ret[t] \in {"clear", "wait"}
    => t = Owner

\* One thread at a time is in Flush(), the one it was called for.
OneFlush ==
  /\ \A t \in Thread :
       InFlush(t) => target = t /\ ~asked /\ (t # Owner => pc[Owner] = "flushwait")
  /\ asked => pc[Owner] = "flushwait" /\ target # Owner
  /\ pc[Owner] = "flushcall" => target # Owner

\* Where the closures are that Flush() was called for.
Tracked ==
  Flushing =>
    \/ target \in stop
    \/ \A c \in before :
         \/ status[c] = "dead"
         \/ status[c] = "queued" /\ on[c] = target /\ ~InFlush(target)
         \/ c = job[target] \/ c \in doomed[target] \/ c \in flushing[target]

Over == gone => Live = {} /\ pc[Owner] = "idle"
                /\ \A t \in Thread : pc[t] \in {"idle", "set", "exited"}

IInv == TypeOK /\ Counted /\ Locals /\ Held /\ Apart /\ OwnerOnly /\ OneFlush /\ Tracked /\ Over

USE OwnerAssumption, ClosureAssumption

\* The closures in use are finitely many, and none of them is held by two
\* threads in the same place; the three facts on the counter.
LEMMA LiveFinite == IsFiniteSet(Live)
<1>1. IsFiniteSet(Closure)
  BY FS_Interval DEF Closure
<1> QED
  BY <1>1, FS_Subset DEF Live

LEMMA LiveEmpty == Counted /\ pending_invocations_ = 0 => Live = {}
BY LiveFinite, FS_EmptySet DEF Counted

LEMMA LiveGrows ==
  ASSUME TypeOK, Counted, NEW c \in Closure, status[c] = "none", NEW s \in Status,
         s \notin {"none", "dead"}, status' = [status EXCEPT ![c] = s],
         pending_invocations_' = pending_invocations_ + 1
  PROVE  Counted' /\ pending_invocations_' \in Nat
<1>1. Live' = Live \cup {c} /\ c \notin Live
  BY DEF Live, TypeOK
<1>2. Cardinality(Live') = Cardinality(Live) + 1
  BY <1>1, LiveFinite, FS_AddElement
<1> QED
  BY <1>2 DEF Counted, TypeOK

LEMMA LiveShrinks ==
  ASSUME TypeOK, Counted, NEW c \in Closure, status[c] = "doomed",
         status' = [status EXCEPT ![c] = "dead"],
         pending_invocations_' = pending_invocations_ - 1
  PROVE  Counted' /\ pending_invocations_' \in Nat
<1>1. Live' = Live \ {c} /\ c \in Live
  BY DEF Live, TypeOK
<1>2. Cardinality(Live') = Cardinality(Live) - 1 /\ IsFiniteSet(Live')
  BY <1>1, LiveFinite, FS_RemoveElement
<1>3. Cardinality(Live') \in Nat
  BY <1>2, FS_CardinalityType
<1> QED
  BY <1>2, <1>3 DEF Counted

LEMMA InitIInv == Init => IInv
<1> SUFFICES ASSUME Init PROVE IInv
  OBVIOUS
<1>1. TypeOK
  BY DEF Init, TypeOK, Thread, Status, Labels, None
<1>2. Counted
  <2>1. Live = {}
    BY DEF Init, Live
  <2> QED
    BY <2>1, FS_EmptySet DEF Init, Counted
<1>3. Locals
  BY DEF Init, Locals, Posting, Deleting, InFlush
<1>4. Held /\ Apart
  BY DEF Init, Held, Apart, Has, Closure, None
<1>5. OwnerOnly /\ OneFlush /\ Tracked /\ Over
  BY DEF Init, OwnerOnly, OneFlush, Tracked, Flushing, InFlush, Over, Thread
<1> QED
  BY <1>1, <1>2, <1>3, <1>4, <1>5 DEF IInv
------------------------------------------------------------------------------
(* Every step keeps the invariant. *)

LEMMA TestDestroyingStep ==
  ASSUME IInv, NEW t \in Thread, TestDestroying(t)
  PROVE  IInv'
<1> USE DEF IInv, TypeOK, TestDestroying, Goto, Delete, counter, closures, flush, clearing
<1>1. TypeOK'
  <2>0. made[t] \in Closure
    BY DEF Locals, Posting
  <2>1. CASE destroying_
    <3>1. /\ status' = [status EXCEPT ![made[t]] = "doomed"]
          /\ made' = [made EXCEPT ![t] = None]
          /\ doomed' = [doomed EXCEPT ![t] = {made[t]}]
          /\ ret' = [ret EXCEPT ![t] = ret[t]]
          /\ pc' = [pc EXCEPT ![t] = "delete"]
      BY <2>0, <2>1
    <3>2. pc[t] = "made" /\ UNCHANGED <<counter, destroying_, gone, on, stop, job, clearing, flush>>
      OBVIOUS
    <3> QED
      BY <2>0, <3>1, <3>2 DEF Labels, Status, Closure
  <2>2. CASE ~destroying_
    BY <2>2 DEF Labels, Status, Closure
  <2> QED
    BY <2>1, <2>2
<1>2. Counted'
  <2>1. Live' = Live
    BY DEF Live, Locals, Held, Posting, None
  <2> QED
    BY <2>1 DEF Counted
<1>3. Locals'
  <2>0. made[t] \in Closure
    BY DEF Locals, Posting
  <2>1. CASE destroying_
    <3>1. /\ status' = [status EXCEPT ![made[t]] = "doomed"]
          /\ made' = [made EXCEPT ![t] = None]
          /\ doomed' = [doomed EXCEPT ![t] = {made[t]}]
          /\ ret' = [ret EXCEPT ![t] = ret[t]]
          /\ pc' = [pc EXCEPT ![t] = "delete"]
      BY <2>0, <2>1
    <3>2. pc[t] = "made" /\ UNCHANGED <<counter, destroying_, gone, on, stop, job, clearing, flush>>
      OBVIOUS
    <3> QED
      BY <2>0, <3>1, <3>2 DEF Locals, Posting, Deleting, InFlush, None, Closure
  <2>2. CASE ~destroying_
    BY <2>2 DEF Locals, Posting, Deleting, InFlush, None, Closure
  <2> QED
    BY <2>1, <2>2
<1>4. Held'
  BY DEF Locals, Held, Apart, Has, Posting, None, Closure
<1>5. Apart'
  BY DEF Locals, Held, Apart, Has, Posting, None, Closure
<1>6. OwnerOnly'
  BY DEF Locals, OwnerOnly
<1>7. OneFlush'
  BY DEF Locals, OneFlush, OwnerOnly, InFlush, Posting, Deleting, Thread, None
<1>8. Tracked'
  BY DEF Locals, OneFlush, OwnerOnly, Tracked, Flushing, Held, InFlush, Posting, Deleting,
     Thread, None, Closure
<1>9. Over'
  BY LiveEmpty DEF Locals, Held, OneFlush, OwnerOnly, Over, Live, InFlush, Posting,
     Deleting, Thread, None, Closure
<1> QED
  BY <1>1, <1>2, <1>3, <1>4, <1>5, <1>6, <1>7, <1>8, <1>9

LEMMA TestQuittingStep ==
  ASSUME IInv, NEW t \in Thread, TestQuitting(t)
  PROVE  IInv'
<1> USE DEF IInv, TypeOK, TestQuitting, Goto, Resume, counter, closures, flush, clearing
<1>1. TypeOK'
  <2>1. CASE on[made[t]] \in stop
    BY <2>1 DEF Labels, Status
  <2>2. CASE on[made[t]] \notin stop
    BY <2>2 DEF Labels
  <2> QED
    BY <2>1, <2>2
<1>2. Counted'
  <2>1. Live' = Live
    BY DEF Live, Locals, Held, Posting, None
  <2> QED
    BY <2>1 DEF Counted
<1>3. Locals'
  BY DEF Locals, Posting, Deleting, InFlush, None, Closure
<1>4. Held'
  BY DEF Locals, Held, Apart, Has, Posting, None, Closure
<1>5. Apart'
  BY DEF Locals, Held, Apart, Has, Posting, None, Closure
<1>6. OwnerOnly'
  BY DEF Locals, OwnerOnly
<1>7. OneFlush'
  BY DEF Locals, OneFlush, OwnerOnly, InFlush, Posting, Deleting, Thread, None
<1>8. Tracked'
  BY DEF Locals, OneFlush, OwnerOnly, Tracked, Flushing, Held, InFlush, Posting, Deleting,
     Thread, None, Closure
<1>9. Over'
  BY LiveEmpty DEF Locals, Held, OneFlush, OwnerOnly, Over, Live, InFlush, Posting,
     Deleting, Thread, None, Closure
<1> QED
  BY <1>1, <1>2, <1>3, <1>4, <1>5, <1>6, <1>7, <1>8, <1>9

LEMMA PushStep ==
  ASSUME IInv, NEW t \in Thread, Push(t)
  PROVE  IInv'
<1> USE DEF IInv, TypeOK, Push, Goto, Resume, counter, closures, flush, clearing
<1>1. TypeOK'
  BY DEF Labels, Status, Thread, None, Closure, Locals, Posting, Deleting
<1>2. Counted'
  <2>1. Live' = Live
    BY DEF Live, Locals, Held, Posting, None
  <2> QED
    BY <2>1 DEF Counted
<1>3. Locals'
  BY DEF Locals, Posting, Deleting, InFlush, None, Closure
<1>4. Held'
  BY DEF Locals, Held, Apart, Has, Posting, None, Closure
<1>5. Apart'
  BY DEF Locals, Held, Apart, Has, Posting, None, Closure
<1>6. OwnerOnly'
  BY DEF Locals, OwnerOnly
<1>7. OneFlush'
  BY DEF Locals, OneFlush, OwnerOnly, InFlush, Posting, Deleting, Thread, None
<1>8. Tracked'
  BY DEF Locals, OneFlush, OwnerOnly, Tracked, Flushing, Held, InFlush, Posting, Deleting,
     Thread, None, Closure
<1>9. Over'
  BY LiveEmpty DEF Locals, Held, OneFlush, OwnerOnly, Over, Live, InFlush, Posting,
     Deleting, Thread, None, Closure
<1> QED
  BY <1>1, <1>2, <1>3, <1>4, <1>5, <1>6, <1>7, <1>8, <1>9

LEMMA ExecuteStep ==
  ASSUME IInv, NEW t \in Thread, Execute(t)
  PROVE  IInv'
<1> USE DEF IInv, TypeOK, Execute, Goto, Queue, counter, closures, flush, clearing
<1>1. TypeOK'
  BY DEF Labels, Status, Thread, None, Closure, Locals, Posting, Deleting
<1>2. Counted'
  <2>1. Live' = Live
    BY DEF Live, Locals, Held, Posting, None
  <2> QED
    BY <2>1 DEF Counted
<1>3. Locals'
  BY DEF Locals, Posting, Deleting, InFlush, None, Closure
<1>4. Held'
  BY DEF Locals, Held, Apart, Has, Posting, None, Closure
<1>5. Apart'
  BY DEF Locals, Held, Apart, Has, Posting, None, Closure
<1>6. OwnerOnly'
  BY DEF Locals, OwnerOnly
<1>7. OneFlush'
  BY DEF Locals, OneFlush, OwnerOnly, InFlush, Posting, Deleting, Thread, None
<1>8. Tracked'
  BY DEF Locals, OneFlush, OwnerOnly, Tracked, Flushing, Held, InFlush, Posting, Deleting,
     Thread, None, Closure
<1>9. Over'
  BY LiveEmpty DEF Locals, Held, OneFlush, OwnerOnly, Over, Live, InFlush, Posting,
     Deleting, Thread, None, Closure
<1> QED
  BY <1>1, <1>2, <1>3, <1>4, <1>5, <1>6, <1>7, <1>8, <1>9

LEMMA FunctorReturnsStep ==
  ASSUME IInv, NEW t \in Thread, FunctorReturns(t)
  PROVE  IInv'
<1> USE DEF IInv, TypeOK, FunctorReturns, Goto, Delete, counter, closures, flush, clearing
<1>1. TypeOK'
  BY DEF Labels, Status, Thread, None, Closure, Locals, Posting, Deleting
<1>2. Counted'
  <2>1. Live' = Live
    BY DEF Live, Locals, Held, Posting, None
  <2> QED
    BY <2>1 DEF Counted
<1>3. Locals'
  BY DEF Locals, Posting, Deleting, InFlush, None, Closure
<1>4. Held'
  BY DEF Locals, Held, Apart, Has, Posting, None, Closure
<1>5. Apart'
  BY DEF Locals, Held, Apart, Has, Posting, None, Closure
<1>6. OwnerOnly'
  BY DEF Locals, OwnerOnly
<1>7. OneFlush'
  BY DEF Locals, OneFlush, OwnerOnly, InFlush, Posting, Deleting, Thread, None
<1>8. Tracked'
  <2>1. job[t] \in Closure
    BY DEF Locals
  <2>2. doomed' = [doomed EXCEPT ![t] = {job[t]}] /\ ret' = [ret EXCEPT ![t] = base[t]]
        /\ pc' = [pc EXCEPT ![t] = "delete"]
    BY <2>1
  <2>3. \A x \in Thread : InFlush(x)' <=> InFlush(x)
    BY <2>2 DEF InFlush, Locals, Posting, Deleting
  <2>4. Flushing' <=> Flushing
    BY <2>2, <2>3 DEF Flushing, Thread
  <2>5. doomed[t] = {}
    BY DEF Locals, Deleting
  <2> QED
    BY <2>1, <2>2, <2>3, <2>4, <2>5 DEF Tracked, Held
<1>9. Over'
  BY LiveEmpty DEF Locals, Held, OneFlush, OwnerOnly, Over, Live, InFlush, Posting,
     Deleting, Thread, None, Closure
<1> QED
  BY <1>1, <1>2, <1>3, <1>4, <1>5, <1>6, <1>7, <1>8, <1>9

LEMMA SetEventStep ==
  ASSUME IInv, NEW t \in Thread, SetEvent(t)
  PROVE  IInv'
<1> USE DEF IInv, TypeOK, SetEvent, Goto, Resume, counter, closures, flush, clearing
<1>1. TypeOK'
  BY DEF Labels, Status, Thread, None, Closure, Locals, Posting, Deleting
<1>2. Counted'
  <2>1. Live' = Live
    BY DEF Live, Locals, Held, Posting, None
  <2> QED
    BY <2>1 DEF Counted
<1>3. Locals'
  BY DEF Locals, Posting, Deleting, InFlush, None, Closure
<1>4. Held'
  BY DEF Locals, Held, Apart, Has, Posting, None, Closure
<1>5. Apart'
  BY DEF Locals, Held, Apart, Has, Posting, None, Closure
<1>6. OwnerOnly'
  BY DEF Locals, OwnerOnly
<1>7. OneFlush'
  BY DEF Locals, OneFlush, OwnerOnly, InFlush, Posting, Deleting, Thread, None
<1>8. Tracked'
  BY DEF Locals, OneFlush, OwnerOnly, Tracked, Flushing, Held, InFlush, Posting, Deleting,
     Thread, None, Closure
<1>9. Over'
  <2>1. Live' = Live /\ gone' = gone
    BY DEF Live
  <2>a. \A x \in Thread : x # t => pc'[x] = pc[x]
    OBVIOUS
  <2>2. SUFFICES ASSUME gone PROVE pc'[t] \in {"idle", "set", "exited"} /\ t # Owner
    BY <2>1, <2>a DEF Over, Thread
  <2>3. t # Owner
    BY <2>2 DEF Over
  <2>4. doomed[t] = {}
    BY <2>2 DEF Over, Held, Live
  <2>5. ret[t] # "exec"
    BY <2>2 DEF Over, Held, Live, Locals
  <2>6. ret[t] = "idle"
    BY <2>2, <2>3, <2>5 DEF Over, Locals, OwnerOnly, OneFlush, InFlush
  <2> QED
    BY <2>3, <2>4, <2>6
<1> QED
  BY <1>1, <1>2, <1>3, <1>4, <1>5, <1>6, <1>7, <1>8, <1>9

LEMMA CallFlushStep ==
  ASSUME IInv, NEW t \in Thread, CallFlush(t)
  PROVE  IInv'
<1> USE DEF IInv, TypeOK, CallFlush, Goto, Queue, counter, closures, flush, clearing
<1>1. TypeOK'
  <2>0. PICK u \in Thread :
          /\ target' = u /\ before' = Queue(u)
          /\ IF u = Owner
             THEN /\ flushing' = [flushing EXCEPT ![u] = Queue(u)]
                  /\ status' = [c \in Closure |-> IF c \in Queue(u) THEN "taken" ELSE status[c]]
                  /\ Goto(t, "flush")
             ELSE /\ u \notin stop
                  /\ Goto(t, "flushcall")
                  /\ UNCHANGED <<flushing, status>>
    OBVIOUS
  <2> USE <2>0 DEF CallFlush, counter, closures, clearing, Goto
  <2>1. CASE u = Owner
    BY <2>1 DEF Labels, Status, Thread
  <2>2. CASE u # Owner
    BY <2>2 DEF Labels, Status, Thread
  <2> QED
    BY <2>1, <2>2
<1>2. Counted'
  <2>0. PICK u \in Thread :
          /\ target' = u /\ before' = Queue(u)
          /\ IF u = Owner
             THEN /\ flushing' = [flushing EXCEPT ![u] = Queue(u)]
                  /\ status' = [c \in Closure |-> IF c \in Queue(u) THEN "taken" ELSE status[c]]
                  /\ Goto(t, "flush")
             ELSE /\ u \notin stop
                  /\ Goto(t, "flushcall")
                  /\ UNCHANGED <<flushing, status>>
    OBVIOUS
  <2> USE <2>0 DEF CallFlush, counter, closures, clearing, Goto
  <2>1. Live' = Live
    BY DEF Live
  <2>2. pending_invocations_' = pending_invocations_
    OBVIOUS
  <2> QED
    BY <2>1, <2>2 DEF Counted
<1>3. Locals'
  <2>0. PICK u \in Thread :
          /\ target' = u /\ before' = Queue(u)
          /\ IF u = Owner
             THEN /\ flushing' = [flushing EXCEPT ![u] = Queue(u)]
                  /\ status' = [c \in Closure |-> IF c \in Queue(u) THEN "taken" ELSE status[c]]
                  /\ Goto(t, "flush")
             ELSE /\ u \notin stop
                  /\ Goto(t, "flushcall")
                  /\ UNCHANGED <<flushing, status>>
    OBVIOUS
  <2> USE <2>0 DEF CallFlush, counter, closures, clearing, Goto
  <2>1. CASE u = Owner
    BY <2>1 DEF Locals, Posting, Deleting, InFlush
  <2>2. CASE u # Owner
    BY <2>2 DEF Locals, Posting, Deleting, InFlush
  <2> QED
    BY <2>1, <2>2
<1>4. Held'
  <2>0. PICK u \in Thread :
          /\ target' = u /\ before' = Queue(u)
          /\ IF u = Owner
             THEN /\ flushing' = [flushing EXCEPT ![u] = Queue(u)]
                  /\ status' = [c \in Closure |-> IF c \in Queue(u) THEN "taken" ELSE status[c]]
                  /\ Goto(t, "flush")
             ELSE /\ u \notin stop
                  /\ Goto(t, "flushcall")
                  /\ UNCHANGED <<flushing, status>>
    OBVIOUS
  <2> USE <2>0 DEF CallFlush, counter, closures, clearing, Goto
  <2>1. CASE u = Owner
    BY <2>1 DEF Locals, Held
  <2>2. CASE u # Owner
    BY <2>2 DEF Locals, Held
  <2> QED
    BY <2>1, <2>2
<1>5. Apart'
  <2>0. PICK u \in Thread :
          /\ target' = u /\ before' = Queue(u)
          /\ IF u = Owner
             THEN /\ flushing' = [flushing EXCEPT ![u] = Queue(u)]
                  /\ status' = [c \in Closure |-> IF c \in Queue(u) THEN "taken" ELSE status[c]]
                  /\ Goto(t, "flush")
             ELSE /\ u \notin stop
                  /\ Goto(t, "flushcall")
                  /\ UNCHANGED <<flushing, status>>
    OBVIOUS
  <2> USE <2>0 DEF CallFlush, counter, closures, clearing, Goto
  <2>1. CASE u = Owner
    BY <2>1 DEF Locals, Held, Apart, Has, None, Closure
  <2>2. CASE u # Owner
    BY <2>2 DEF Locals, Held, Apart, Has, None, Closure
  <2> QED
    BY <2>1, <2>2
<1>6. OwnerOnly'
  BY DEF Locals, OwnerOnly
<1>7. OneFlush'
  <2>0. PICK u \in Thread :
          /\ target' = u /\ before' = Queue(u)
          /\ IF u = Owner
             THEN /\ flushing' = [flushing EXCEPT ![u] = Queue(u)]
                  /\ status' = [c \in Closure |-> IF c \in Queue(u) THEN "taken" ELSE status[c]]
                  /\ Goto(t, "flush")
             ELSE /\ u \notin stop
                  /\ Goto(t, "flushcall")
                  /\ UNCHANGED <<flushing, status>>
    OBVIOUS
  <2> USE <2>0 DEF CallFlush, counter, closures, clearing, Goto
  <2>1. CASE u = Owner
    BY <2>1 DEF Locals, OneFlush, OwnerOnly, InFlush, Posting, Deleting, Thread, None
  <2>2. CASE u # Owner
    BY <2>2 DEF Locals, OneFlush, OwnerOnly, InFlush, Posting, Deleting, Thread, None
  <2> QED
    BY <2>1, <2>2
<1>8. Tracked'
  <2>0. PICK u \in Thread :
          /\ target' = u /\ before' = Queue(u)
          /\ IF u = Owner
             THEN /\ flushing' = [flushing EXCEPT ![u] = Queue(u)]
                  /\ status' = [c \in Closure |-> IF c \in Queue(u) THEN "taken" ELSE status[c]]
                  /\ Goto(t, "flush")
             ELSE /\ u \notin stop
                  /\ Goto(t, "flushcall")
                  /\ UNCHANGED <<flushing, status>>
    OBVIOUS
  <2> USE <2>0 DEF CallFlush, counter, closures, clearing, Goto
  <2>1. CASE u = Owner
    BY <2>1 DEF Locals, OneFlush, Tracked, Flushing, InFlush, Posting, Deleting, Thread,
       None
  <2>2. CASE u # Owner
    BY <2>2 DEF Locals, OneFlush, Tracked, Flushing, InFlush, Posting, Deleting, Thread,
       None
  <2> QED
    BY <2>1, <2>2
<1>9. Over'
  BY LiveEmpty DEF Locals, Held, OneFlush, OwnerOnly, Over, Live, InFlush, Posting,
     Deleting, Thread, None, Closure
<1> QED
  BY <1>1, <1>2, <1>3, <1>4, <1>5, <1>6, <1>7, <1>8, <1>9

LEMMA SendFlushStep ==
  ASSUME IInv, NEW t \in Thread, SendFlush(t)
  PROVE  IInv'
<1> USE DEF IInv, TypeOK, SendFlush, Goto, counter, closures, flush, clearing
<1>1. TypeOK'
  BY DEF Labels, Status, Thread, None, Closure, Locals, Posting, Deleting
<1>2. Counted'
  <2>1. Live' = Live
    BY DEF Live, Locals, Held, Posting, None
  <2> QED
    BY <2>1 DEF Counted
<1>3. Locals'
  BY DEF Locals, Posting, Deleting, InFlush, None, Closure
<1>4. Held'
  BY DEF Locals, Held, Apart, Has, Posting, None, Closure
<1>5. Apart'
  BY DEF Locals, Held, Apart, Has, Posting, None, Closure
<1>6. OwnerOnly'
  BY DEF Locals, OwnerOnly
<1>7. OneFlush'
  BY DEF Locals, OneFlush, OwnerOnly, InFlush, Posting, Deleting, Thread, None
<1>8. Tracked'
  BY DEF Locals, OneFlush, OwnerOnly, Tracked, Flushing, Held, InFlush, Posting, Deleting,
     Thread, None, Closure
<1>9. Over'
  BY LiveEmpty DEF Locals, Held, OneFlush, OwnerOnly, Over, Live, InFlush, Posting,
     Deleting, Thread, None, Closure
<1> QED
  BY <1>1, <1>2, <1>3, <1>4, <1>5, <1>6, <1>7, <1>8, <1>9

LEMMA BeginFlushStep ==
  ASSUME IInv, NEW t \in Thread, BeginFlush(t)
  PROVE  IInv'
<1> USE DEF IInv, TypeOK, BeginFlush, Goto, Queue, counter, closures, flush, clearing
<1>1. TypeOK'
  BY DEF Labels, Status, Thread, None, Closure, Locals, Posting, Deleting
<1>2. Counted'
  <2>1. Live' = Live
    BY DEF Live, Locals, Held, Posting, None
  <2> QED
    BY <2>1 DEF Counted
<1>3. Locals'
  BY DEF Locals, Posting, Deleting, InFlush, None, Closure
<1>4. Held'
  BY DEF Locals, Held, Apart, Has, Posting, None, Closure
<1>5. Apart'
  BY DEF Locals, Held, Apart, Has, Posting, None, Closure
<1>6. OwnerOnly'
  BY DEF Locals, OwnerOnly
<1>7. OneFlush'
  BY DEF Locals, OneFlush, OwnerOnly, InFlush, Posting, Deleting, Thread, None
<1>8. Tracked'
  BY DEF Locals, OneFlush, OwnerOnly, Tracked, Flushing, Held, InFlush, Posting, Deleting,
     Thread, None, Closure
<1>9. Over'
  BY LiveEmpty DEF Locals, Held, OneFlush, OwnerOnly, Over, Live, InFlush, Posting,
     Deleting, Thread, None, Closure
<1> QED
  BY <1>1, <1>2, <1>3, <1>4, <1>5, <1>6, <1>7, <1>8, <1>9

LEMMA FlushNextStep ==
  ASSUME IInv, NEW t \in Thread, FlushNext(t)
  PROVE  IInv'
<1> USE DEF IInv, TypeOK, FlushNext, Goto, counter, closures, flush, clearing
<1>1. TypeOK'
  <2>1. PICK c \in flushing[t] :
          /\ flushing' = [flushing EXCEPT ![t] = @ \ {c}]
          /\ \/ status' = [status EXCEPT ![c] = "lost"] /\ UNCHANGED <<pc, job, base>>
             \/ /\ status' = [status EXCEPT ![c] = "running"]
                /\ job' = [job EXCEPT ![t] = c]
                /\ base' = [base EXCEPT ![t] = "flush"]
                /\ pc' = [pc EXCEPT ![t] = "exec"]
    OBVIOUS
  <2>2. c \in Closure
    OBVIOUS
  <2> QED
    BY <2>1, <2>2 DEF Labels, Status
<1>2. Counted'
  <2>1. Live' = Live
    BY DEF Live, Locals, Held, Posting, None
  <2> QED
    BY <2>1 DEF Counted
<1>3. Locals'
  BY DEF Locals, Posting, Deleting, InFlush, None, Closure
<1>4. Held'
  BY DEF Locals, Held, Apart, Has, Posting, None, Closure
<1>5. Apart'
  BY DEF Locals, Held, Apart, Has, Posting, None, Closure
<1>6. OwnerOnly'
  BY DEF Locals, OwnerOnly
<1>7. OneFlush'
  BY DEF Locals, OneFlush, OwnerOnly, InFlush, Posting, Deleting, Thread, None
<1>8. Tracked'
  BY SMTT(30) DEF Locals, OneFlush, OwnerOnly, Tracked, Flushing, Held, InFlush, Posting, Deleting,
     Thread, None, Closure
<1>9. Over'
  BY LiveEmpty DEF Locals, Held, OneFlush, OwnerOnly, Over, Live, InFlush, Posting,
     Deleting, Thread, None, Closure
<1> QED
  BY <1>1, <1>2, <1>3, <1>4, <1>5, <1>6, <1>7, <1>8, <1>9

LEMMA FlushReturnsStep ==
  ASSUME IInv, NEW t \in Thread, FlushReturns(t)
  PROVE  IInv'
<1> USE DEF IInv, TypeOK, FlushReturns, counter, closures, flush, clearing
<1>1. TypeOK'
  BY DEF Labels, Status, Thread, None, Closure, Locals, Posting, Deleting
<1>2. Counted'
  <2>1. Live' = Live
    BY DEF Live, Locals, Held, Posting, None
  <2> QED
    BY <2>1 DEF Counted
<1>3. Locals'
  <2>1. t # Owner => pc[Owner] = "flushwait"
    BY DEF OneFlush, InFlush
  <2>2. \A x \in {t, Owner} : job[x] = None /\ made[x] = None /\ doomed[x] = {}
                              /\ ret[x] = "idle" /\ base[x] = "idle" /\ flushing[x] = {}
    BY <2>1 DEF Locals, InFlush, Posting, Deleting, Thread
  <2> QED
    BY <2>1, <2>2 DEF Locals, Posting, Deleting, InFlush
<1>4. Held'
  BY DEF Locals, Held, Apart, Has, Posting, None, Closure
<1>5. Apart'
  BY DEF Locals, Held, Apart, Has, Posting, None, Closure
<1>6. OwnerOnly'
  BY DEF Locals, OwnerOnly
<1>7. OneFlush'
  BY DEF Locals, OneFlush, OwnerOnly, InFlush, Posting, Deleting, Thread, None
<1>8. Tracked'
  BY DEF Locals, OneFlush, OwnerOnly, Tracked, Flushing, Held, InFlush, Posting, Deleting,
     Thread, None, Closure
<1>9. Over'
  BY LiveEmpty DEF Locals, Held, OneFlush, OwnerOnly, Over, Live, InFlush, Posting,
     Deleting, Thread, None, Closure
<1> QED
  BY <1>1, <1>2, <1>3, <1>4, <1>5, <1>6, <1>7, <1>8, <1>9

LEMMA CallClearStep ==
  ASSUME IInv, NEW t \in Thread, CallClear(t)
  PROVE  IInv'
<1> USE DEF IInv, TypeOK, CallClear, Goto, counter, closures, flush, clearing
<1>1. TypeOK'
  BY DEF Labels, Status, Thread, None, Closure, Locals, Posting, Deleting
<1>2. Counted'
  <2>1. Live' = Live
    BY DEF Live, Locals, Held, Posting, None
  <2> QED
    BY <2>1 DEF Counted
<1>3. Locals'
  BY DEF Locals, Posting, Deleting, InFlush, None, Closure
<1>4. Held'
  BY DEF Locals, Held, Apart, Has, Posting, None, Closure
<1>5. Apart'
  BY DEF Locals, Held, Apart, Has, Posting, None, Closure
<1>6. OwnerOnly'
  BY DEF Locals, OwnerOnly
<1>7. OneFlush'
  BY DEF Locals, OneFlush, OwnerOnly, InFlush, Posting, Deleting, Thread, None
<1>8. Tracked'
  BY DEF Locals, OneFlush, OwnerOnly, Tracked, Flushing, Held, InFlush, Posting, Deleting,
     Thread, None, Closure
<1>9. Over'
  BY LiveEmpty DEF Locals, Held, OneFlush, OwnerOnly, Over, Live, InFlush, Posting,
     Deleting, Thread, None, Closure
<1> QED
  BY <1>1, <1>2, <1>3, <1>4, <1>5, <1>6, <1>7, <1>8, <1>9

LEMMA CallDestructorStep ==
  ASSUME IInv, NEW t \in Thread, CallDestructor(t)
  PROVE  IInv'
<1> USE DEF IInv, TypeOK, CallDestructor, Goto, counter, closures, flush, clearing
<1>1. TypeOK'
  BY DEF Labels, Status, Thread, None, Closure, Locals, Posting, Deleting
<1>2. Counted'
  <2>1. Live' = Live
    BY DEF Live, Locals, Held, Posting, None
  <2> QED
    BY <2>1 DEF Counted
<1>3. Locals'
  BY DEF Locals, Posting, Deleting, InFlush, None, Closure
<1>4. Held'
  BY DEF Locals, Held, Apart, Has, Posting, None, Closure
<1>5. Apart'
  BY DEF Locals, Held, Apart, Has, Posting, None, Closure
<1>6. OwnerOnly'
  BY DEF Locals, OwnerOnly
<1>7. OneFlush'
  BY DEF Locals, OneFlush, OwnerOnly, InFlush, Posting, Deleting, Thread, None
<1>8. Tracked'
  BY DEF Locals, OneFlush, OwnerOnly, Tracked, Flushing, Held, InFlush, Posting, Deleting,
     Thread, None, Closure
<1>9. Over'
  BY LiveEmpty DEF Locals, Held, OneFlush, OwnerOnly, Over, Live, InFlush, Posting,
     Deleting, Thread, None, Closure
<1> QED
  BY <1>1, <1>2, <1>3, <1>4, <1>5, <1>6, <1>7, <1>8, <1>9

LEMMA DestructorWaitStep ==
  ASSUME IInv, NEW t \in Thread, DestructorWait(t)
  PROVE  IInv'
<1> USE DEF IInv, TypeOK, DestructorWait, Goto, counter, closures, flush, clearing
<1>1. TypeOK'
  BY DEF Labels, Status, Thread, None, Closure, Locals, Posting, Deleting
<1>2. Counted'
  <2>1. Live' = Live
    BY DEF Live, Locals, Held, Posting, None
  <2> QED
    BY <2>1 DEF Counted
<1>3. Locals'
  BY DEF Locals, Posting, Deleting, InFlush, None, Closure
<1>4. Held'
  BY DEF Locals, Held, Apart, Has, Posting, None, Closure
<1>5. Apart'
  BY DEF Locals, Held, Apart, Has, Posting, None, Closure
<1>6. OwnerOnly'
  BY DEF Locals, OwnerOnly
<1>7. OneFlush'
  BY DEF Locals, OneFlush, OwnerOnly, InFlush, Posting, Deleting, Thread, None
<1>8. Tracked'
  BY DEF Locals, OneFlush, OwnerOnly, Tracked, Flushing, Held, InFlush, Posting, Deleting,
     Thread, None, Closure
<1>9. Over'
  BY LiveEmpty DEF Locals, Held, OneFlush, OwnerOnly, Over, Live, InFlush, Posting,
     Deleting, Thread, None, Closure
<1> QED
  BY <1>1, <1>2, <1>3, <1>4, <1>5, <1>6, <1>7, <1>8, <1>9

LEMMA QuitStep ==
  ASSUME IInv, NEW t \in Thread, Quit(t)
  PROVE  IInv'
<1> USE DEF IInv, TypeOK, Quit, counter, closures, flush, clearing
<1>1. TypeOK'
  BY DEF Labels, Status, Thread, None, Closure, Locals, Posting, Deleting
<1>2. Counted'
  <2>1. Live' = Live
    BY DEF Live, Locals, Held, Posting, None
  <2> QED
    BY <2>1 DEF Counted
<1>3. Locals'
  BY DEF Locals, Posting, Deleting, InFlush, None, Closure
<1>4. Held'
  BY DEF Locals, Held, Apart, Has, Posting, None, Closure
<1>5. Apart'
  BY DEF Locals, Held, Apart, Has, Posting, None, Closure
<1>6. OwnerOnly'
  BY DEF Locals, OwnerOnly
<1>7. OneFlush'
  BY DEF Locals, OneFlush, OwnerOnly, InFlush, Posting, Deleting, Thread, None
<1>8. Tracked'
  BY DEF Locals, OneFlush, OwnerOnly, Tracked, Flushing, Held, InFlush, Posting, Deleting,
     Thread, None, Closure
<1>9. Over'
  BY LiveEmpty DEF Locals, Held, OneFlush, OwnerOnly, Over, Live, InFlush, Posting,
     Deleting, Thread, None, Closure
<1> QED
  BY <1>1, <1>2, <1>3, <1>4, <1>5, <1>6, <1>7, <1>8, <1>9

LEMMA ExitStep ==
  ASSUME IInv, NEW t \in Thread, Exit(t)
  PROVE  IInv'
<1> USE DEF IInv, TypeOK, Exit, Goto, counter, closures, flush, clearing
<1>1. TypeOK'
  BY DEF Labels, Status, Thread, None, Closure, Locals, Posting, Deleting
<1>2. Counted'
  <2>1. Live' = Live
    BY DEF Live, Locals, Held, Posting, None
  <2> QED
    BY <2>1 DEF Counted
<1>3. Locals'
  BY DEF Locals, Posting, Deleting, InFlush, None, Closure
<1>4. Held'
  BY DEF Locals, Held, Apart, Has, Posting, None, Closure
<1>5. Apart'
  BY DEF Locals, Held, Apart, Has, Posting, None, Closure
<1>6. OwnerOnly'
  BY DEF Locals, OwnerOnly
<1>7. OneFlush'
  BY DEF Locals, OneFlush, OwnerOnly, InFlush, Posting, Deleting, Thread, None
<1>8. Tracked'
  BY DEF Locals, OneFlush, OwnerOnly, Tracked, Flushing, Held, InFlush, Posting, Deleting,
     Thread, None, Closure
<1>9. Over'
  BY LiveEmpty DEF Locals, Held, OneFlush, OwnerOnly, Over, Live, InFlush, Posting,
     Deleting, Thread, None, Closure
<1> QED
  BY <1>1, <1>2, <1>3, <1>4, <1>5, <1>6, <1>7, <1>8, <1>9

LEMMA AsyncInvokeStep ==
  ASSUME IInv, NEW t \in Thread, AsyncInvoke(t)
  PROVE  IInv'
<1> USE DEF IInv, TypeOK, AsyncInvoke, Goto, counter, closures, flush, clearing
<1>1. TypeOK'
  BY DEF Labels, Status, Thread, None, Closure, Locals, Posting, Deleting
<1>2. Counted'
  BY LiveGrows DEF Status
<1>3. Locals'
  BY DEF Locals, Posting, Deleting, InFlush, None, Closure
<1>4. Held'
  BY DEF Locals, Held, Apart, Has, Posting, None, Closure
<1>5. Apart'
  BY DEF Locals, Held, Apart, Has, Posting, None, Closure
<1>6. OwnerOnly'
  BY DEF Locals, OwnerOnly
<1>7. OneFlush'
  BY DEF Locals, OneFlush, OwnerOnly, InFlush, Posting, Deleting, Thread, None
<1>8. Tracked'
  BY DEF Locals, OneFlush, OwnerOnly, Tracked, Flushing, Held, InFlush, Posting, Deleting,
     Thread, None, Closure
<1>9. Over'
  BY LiveEmpty DEF Locals, Held, OneFlush, OwnerOnly, Over, Live, InFlush, Posting,
     Deleting, Thread, None, Closure
<1> QED
  BY <1>1, <1>2, <1>3, <1>4, <1>5, <1>6, <1>7, <1>8, <1>9

LEMMA DecrementStep ==
  ASSUME IInv, NEW t \in Thread, Decrement(t)
  PROVE  IInv'
<1> USE DEF IInv, TypeOK, Decrement, Goto, counter, closures, flush, clearing
<1>1. TypeOK'
  <2>1. pending_invocations_' \in Nat
    BY LiveShrinks, ZenonT(40) DEF Held
  <2> QED
    BY <2>1 DEF Labels, Status, Thread
<1>2. Counted'
  BY LiveShrinks DEF Held
<1>3. Locals'
  BY DEF Locals, Posting, Deleting, InFlush, None, Closure
<1>4. Held'
  BY DEF Locals, Held, Apart, Has, Posting, None, Closure
<1>5. Apart'
  BY DEF Locals, Held, Apart, Has, Posting, None, Closure
<1>6. OwnerOnly'
  BY DEF Locals, OwnerOnly
<1>7. OneFlush'
  BY DEF Locals, OneFlush, OwnerOnly, InFlush, Posting, Deleting, Thread, None
<1>8. Tracked'
  BY DEF Locals, OneFlush, OwnerOnly, Tracked, Flushing, Held, InFlush, Posting, Deleting,
     Thread, None, Closure
<1>9. Over'
  BY LiveEmpty DEF Locals, Held, OneFlush, OwnerOnly, Over, Live, InFlush, Posting,
     Deleting, Thread, None, Closure
<1> QED
  BY <1>1, <1>2, <1>3, <1>4, <1>5, <1>6, <1>7, <1>8, <1>9

\* Clearing the queue of u takes closures that nobody holds.
LEMMA ClearQueueStep ==
  ASSUME IInv, NEW t \in Thread, NEW u \in Thread, NEW label \in {"clear", "wait"},
         pc[t] \in {"clear", "loop"}, ClearQueue(t, u, label), todo' \subseteq Thread,
         UNCHANGED <<counter, destroying_, gone, on, stop, job, made, flush>>
  PROVE  IInv'
<1> DEFINE Q == Queue(u)
<1> USE DEF IInv
<1>1. t = Owner /\ ~gone
  BY DEF OwnerOnly, Over
<1>2. /\ ret[t] = "idle" /\ doomed[t] = {} /\ job[t] = None /\ made[t] = None
      /\ flushing[t] = {} /\ base[t] = "idle"
  BY DEF TypeOK, Locals, Posting, Deleting, InFlush
<1>3. \A c \in Q : c \in Closure /\ status[c] = "queued" /\ \A x \in Thread : ~Has(x, c)
  BY DEF Queue, Held, Has, TypeOK
<1>4. /\ status' = [c \in Closure |-> IF c \in Q THEN "doomed" ELSE status[c]]
      /\ doomed' = [doomed EXCEPT ![t] = Q]
      /\ locked' \subseteq Thread
  BY DEF ClearQueue, Delete
<1>5. \/ Q = {} /\ ret' = [ret EXCEPT ![t] = "idle"] /\ pc' = [pc EXCEPT ![t] = label]
      \/ Q # {} /\ ret' = [ret EXCEPT ![t] = label] /\ pc' = [pc EXCEPT ![t] = "delete"]
  BY DEF ClearQueue, Delete, Goto
<1> HIDE DEF Q
<1>6. TypeOK'
  BY <1>3, <1>4, <1>5 DEF TypeOK, Labels, Status, counter, flush
<1>7. Counted'
  <2>1. Live' = Live
    BY <1>3, <1>4 DEF Live, TypeOK
  <2> QED
    BY <2>1 DEF Counted, counter
<1>8. Locals'
  BY <1>2, <1>4, <1>5 DEF TypeOK, Locals, Posting, Deleting, InFlush, flush
<1>9. Held'
  BY <1>2, <1>3, <1>4 DEF TypeOK, Held, Has, flush
<1>10. Apart'
  <2>1. \A x \in Thread, c \in Closure : Has(x, c)' <=> Has(x, c) \/ (x = t /\ c \in Q)
    BY <1>2, <1>3, <1>4 DEF TypeOK, Has, flush
  <2> QED
    BY <2>1, <1>3 DEF Apart
<1>11. OwnerOnly'
  BY <1>1, <1>5 DEF TypeOK, OwnerOnly
<1>12. \A x \in Thread : InFlush(x)' <=> InFlush(x)
  BY <1>2, <1>5 DEF InFlush, TypeOK, flush
<1>13. pc[Owner] \notin {"flushcall", "flushwait"} /\ pc'[Owner] \notin {"flushcall", "flushwait"}
  BY <1>1, <1>5 DEF TypeOK
<1>14. OneFlush'
  BY <1>1, <1>12, <1>13 DEF OneFlush, flush
<1>15. Tracked'
  BY <1>1, <1>2, <1>5, <1>12, <1>13 DEF Tracked, Flushing, InFlush, Thread
<1>16. Over'
  BY <1>1 DEF Over
<1> QED
  BY <1>6, <1>7, <1>8, <1>9, <1>10, <1>11, <1>14, <1>15, <1>16

\* A step that moves the owner to a label of its own changes nothing else.
LEMMA OwnerMoves ==
  ASSUME IInv, NEW t \in Thread, pc[t] \in {"clear", "loop"},
         NEW label \in {"idle", "loop"}, pc' = [pc EXCEPT ![t] = label],
         NEW free \in BOOLEAN, gone' = (gone \/ free),
         free => label = "idle" /\ pending_invocations_ = 0,
         UNCHANGED <<counter, destroying_, closures, stop, job, made, doomed, ret,
                     clearing, flush>>
  PROVE  IInv'
<1> USE DEF IInv
<1>1. t = Owner /\ ~gone
  BY DEF OwnerOnly, Over
<1>2. TypeOK'
  BY DEF TypeOK, Labels, counter, closures, clearing, flush
<1>3. Live' = Live
  BY DEF Live, closures
<1>4. Counted'
  BY <1>3 DEF Counted, counter
<1>5. Locals'
  BY DEF TypeOK, Locals, Posting, Deleting, InFlush, flush
<1>6. Held' /\ Apart'
  BY DEF Held, Apart, Has, closures, flush
<1>7. OwnerOnly'
  BY <1>1 DEF TypeOK, OwnerOnly
<1>8. OneFlush' /\ Tracked'
  BY <1>1 DEF TypeOK, OneFlush, Tracked, Flushing, InFlush, flush, closures
<1>9. Over'
  <2>1. SUFFICES ASSUME free PROVE Live = {} /\ pc'[Owner] = "idle"
                                   /\ \A x \in Thread : pc'[x] \in {"idle", "set", "exited"}
    BY <1>1, <1>3 DEF Over
  <2>2. Live = {}
    BY <2>1, LiveEmpty
  <2>3. pc'[t] = "idle"
    BY <2>1 DEF TypeOK
  <2>4. ASSUME NEW x \in Thread, x # t PROVE pc[x] \in {"idle", "set", "exited"}
    <3>1. job[x] = None /\ made[x] = None /\ doomed[x] = {} /\ flushing[x] = {}
      BY <2>2 DEF TypeOK, Held, Live
    <3>2. pc[x] \notin {"exec", "made", "post", "push", "delete"}
      BY <3>1 DEF Locals, Posting
    <3>3. pc[x] # "flush"
      BY <1>1, <2>4 DEF OneFlush, InFlush
    <3>4. pc[x] \notin {"flushcall", "flushwait", "clear", "loop", "wait"}
      BY <1>1, <2>4 DEF OwnerOnly
    <3> QED
      BY <3>2, <3>3, <3>4 DEF TypeOK, Labels
  <2> QED
    BY <1>1, <2>2, <2>3, <2>4 DEF TypeOK
<1> QED
  BY <1>2, <1>4, <1>5, <1>6, <1>7, <1>8, <1>9

LEMMA ManagerClearStep ==
  ASSUME IInv, NEW t \in Thread, ManagerClear(t)
  PROVE  IInv'
<1>1. CASE todo = {}
  <2>1. PICK label \in {"idle", "loop"} : pc' = [pc EXCEPT ![t] = label]
    BY <1>1 DEF ManagerClear, Goto
  <2>2. gone' = (gone \/ FALSE)
    BY DEF ManagerClear, IInv, TypeOK
  <2> QED
    BY <1>1, <2>1, <2>2, OwnerMoves DEF ManagerClear, closures
<1>2. CASE todo # {}
  <2>1. PICK u \in todo : todo' = todo \ {u} /\ ClearQueue(t, u, "clear")
    BY <1>2 DEF ManagerClear
  <2>2. u \in Thread /\ todo' \subseteq Thread
    BY <2>1 DEF IInv, TypeOK
  <2> QED
    BY <2>1, <2>2, ClearQueueStep DEF ManagerClear
<1> QED
  BY <1>1, <1>2

LEMMA DestructorLoopStep ==
  ASSUME IInv, NEW t \in Thread, DestructorLoop(t)
  PROVE  IInv'
<1>1. CASE pending_invocations_ > 0
  <2>1. Owner \in Thread /\ todo' \subseteq Thread
    BY DEF DestructorLoop, Thread, IInv, TypeOK
  <2> QED
    BY <1>1, <2>1, ClearQueueStep DEF DestructorLoop
<1>2. CASE ~(pending_invocations_ > 0)
  <2>1. pending_invocations_ = 0
    BY <1>2 DEF IInv, TypeOK
  <2>2. gone' = (gone \/ TRUE) /\ pc' = [pc EXCEPT ![t] = "idle"]
    BY <1>2 DEF DestructorLoop, Goto
  <2> QED
    BY <1>2, <2>1, <2>2, OwnerMoves DEF DestructorLoop, closures, clearing
<1> QED
  BY <1>1, <1>2

LEMMA NextIInv == IInv /\ [Next]_vars => IInv'
<1> SUFFICES ASSUME IInv, [Next]_vars PROVE IInv'
  OBVIOUS
<1>1. CASE UNCHANGED vars
  BY <1>1 DEF vars, counter, closures, clearing, flush, IInv, TypeOK, Counted, Live, Locals,
     Held, Apart, Has, OwnerOnly, OneFlush, InFlush, Tracked, Flushing, Over
<1>2. ASSUME NEW t \in Thread, Step(t) PROVE IInv'
  BY <1>2, TestDestroyingStep, TestQuittingStep, PushStep, ExecuteStep, FunctorReturnsStep,
     DecrementStep, SetEventStep, SendFlushStep, BeginFlushStep, FlushNextStep,
     FlushReturnsStep, ManagerClearStep, DestructorLoopStep, DestructorWaitStep, ExitStep
     DEF Step
<1>3. ASSUME NEW t \in Thread, Calls(t) PROVE IInv'
  BY <1>3, AsyncInvokeStep, CallFlushStep, CallClearStep, CallDestructorStep, QuitStep DEF
     Calls
<1> QED
  BY <1>1, <1>2, <1>3 DEF Next
------------------------------------------------------------------------------
\* Every state of the invoker is well-typed, whatever the number of threads and
\* of closures: in particular the counter never falls below zero.
THEOREM InvokerTyped == Spec => []TypeOK
<1>1. IInv => TypeOK
  BY DEF IInv
<1> QED
  BY <1>1, InitIInv, NextIInv, PTL DEF Spec

\* When ~AsyncInvoker has returned no closure is left and no thread is inside
\* a call of the invoker.
THEOREM DestructionIsSafe == Spec => []SafeDestruction
<1>1. IInv => SafeDestruction
  BY DEF IInv, Over, SafeDestruction
<1> QED
  BY <1>1, InitIInv, NextIInv, PTL DEF Spec

\* When Flush() returns, the closures that were in the queue have run, unless
\* their thread was told to quit.
THEOREM FlushAlwaysWaits == Spec => FlushWaits
<1>1. ASSUME IInv, [Next]_vars, pc[Owner] \in {"flush", "flushcall", "flushwait"},
             pc'[Owner] = "idle"
      PROVE  target \in stop \/ \A c \in before : status[c] = "dead"
  <2> USE <1>1 DEF IInv
  <2>1. PICK t \in Thread : Step(t) \/ Calls(t)
    BY DEF Next, vars
  <2>2. ret[Owner] = "idle"
    BY DEF Locals, Posting, Deleting, Thread
  <2>3. CASE FlushReturns(t)
    <3>1. InFlush(t) /\ target = t /\ flushing[t] = {}
      BY <2>3 DEF FlushReturns, InFlush, OneFlush
    <3>2. job[t] = None /\ doomed[t] = {}
      BY <2>3 DEF FlushReturns, Locals, Deleting, TypeOK, Posting
    <3>3. Flushing
      BY DEF Flushing, InFlush
    <3> QED
      BY <3>1, <3>2, <3>3 DEF Tracked, TypeOK, Closure, None
  <2>4. CASE t = Owner /\ ~FlushReturns(t)
    BY <2>1, <2>4 DEF Step, Calls, TypeOK, Goto, TestDestroying, TestQuitting, Push,
       Execute, FunctorReturns, Decrement, SetEvent, SendFlush, BeginFlush, FlushNext,
       ManagerClear, DestructorLoop, DestructorWait, Exit, AsyncInvoke, CallFlush,
       CallClear, CallDestructor, Quit
  <2>5. CASE t # Owner /\ ~FlushReturns(t)
    <3>1. pc'[Owner] = pc[Owner]
      BY <2>1, <2>5 DEF Step, Calls, TypeOK, Goto, Resume, Delete, ClearQueue,
         TestDestroying, TestQuitting, Push, Execute, FunctorReturns, Decrement, SetEvent,
         SendFlush, BeginFlush, FlushNext, ManagerClear, DestructorLoop, DestructorWait,
         Exit, AsyncInvoke, CallFlush, CallClear, CallDestructor, Quit, Thread
    <3> QED
      BY <3>1
  <2> QED
    BY <2>3, <2>4, <2>5
<1>2. IInv /\ [Next]_vars =>
        [pc[Owner] \in {"flush", "flushcall", "flushwait"} /\ pc'[Owner] = "idle" =>
           target \in stop \/ \A c \in before : status[c] = "dead"]_vars
  BY <1>1
<1> QED
  BY <1>2, InitIInv, NextIInv, PTL DEF Spec, FlushWaits
------------------------------------------------------------------------------
(* The wake-up of the destructor.  A closure that is counted is in a queue, *)
(* in the hands of a thread, or lost because its thread was told to quit; a *)
(* worker that posts does so from a functor, after which it sets the event. *)

Kept ==
  \A c \in Closure :
    status[c] \in {"made", "taken", "running", "doomed"} => \E t \in Thread : Has(t, c)

Left ==
  \A c \in Closure :
    /\ status[c] = "lost" => on[c] \in stop
    /\ \A t \in Thread : c \in flushing[t] => on[c] = t

FromFunctor == \A t \in Worker : pc[t] \in Posting => ret[t] = "exec"

Gone == \A t \in Thread : pc[t] = "exited" => t \in stop

WInv == Kept /\ Left /\ FromFunctor /\ Gone /\ DestructorWakesUp

\* A thread that holds a closure is at work.
LEMMA HolderWorks ==
  ASSUME IInv, NEW t \in Thread, NEW c \in Closure, Has(t, c)
  PROVE  pc[t] \notin {"idle", "exited", "clear", "loop", "wait"}
BY DEF IInv, Locals, Has, InFlush, Posting, Deleting, None, Closure, TypeOK

LEMMA InitWInv == Init => WInv
BY DEF Init, WInv, Kept, Left, FromFunctor, Gone, DestructorWakesUp, Posting, Thread

\* What clearing a queue takes is in the hands of the owner.
LEMMA ClearQueueKept ==
  ASSUME IInv, Kept, NEW t \in Thread, NEW u \in Thread, NEW label, ClearQueue(t, u, label),
         pc[t] \in {"clear", "loop"}, UNCHANGED <<job, made, flush>>
  PROVE  Kept'
<1>1. /\ status' = [c \in Closure |-> IF c \in Queue(u) THEN "doomed" ELSE status[c]]
      /\ doomed' = [doomed EXCEPT ![t] = Queue(u)]
  BY DEF ClearQueue, Delete
<1>2. doomed[t] = {}
  BY DEF IInv, Locals, Deleting
<1>3. \A x \in Thread, c \in Closure : Has(x, c) => Has(x, c)'
  BY <1>1, <1>2 DEF Has, IInv, TypeOK, flush
<1>4. \A c \in Queue(u) : Has(t, c)'
  BY <1>1 DEF Has, IInv, TypeOK
<1> QED
  BY <1>1, <1>3, <1>4 DEF Kept

LEMMA TestDestroyingWakes ==
  ASSUME IInv, WInv, NEW t \in Thread, TestDestroying(t)
  PROVE  WInv'
<1> USE DEF IInv, TypeOK, WInv, TestDestroying, Goto, Delete, counter, closures, flush,
        clearing
<1>1. Kept'
  <2>1. CASE destroying_
    <3>1. made[t] \in Closure /\ doomed[t] = {}
      BY DEF Locals, Posting, Deleting
    <3>2. /\ status' = [status EXCEPT ![made[t]] = "doomed"]
          /\ made' = [made EXCEPT ![t] = None]
          /\ doomed' = [doomed EXCEPT ![t] = {made[t]}]
      BY <2>1
    <3>3. \A x \in Thread, c \in Closure : Has(x, c) => Has(x, c)'
      BY <3>1, <3>2 DEF Has
    <3>4. status[made[t]] = "made"
      BY <3>1 DEF Held
    <3> QED
      BY <3>1, <3>2, <3>3, <3>4 DEF Kept
  <2>2. CASE ~destroying_
    BY <2>2 DEF Kept, Has
  <2> QED
    BY <2>1, <2>2
<1>2. Left'
  BY DEF Left, Held, Locals, Posting, Deleting, InFlush, Queue, None, Closure
<1>3. FromFunctor' /\ Gone'
  BY DEF FromFunctor, Gone, Locals, Posting, Deleting, Thread
<1>4. DestructorWakesUp'
  <2> SUFFICES ASSUME pc'[Owner] = "wait", ~invocation_complete_'
               PROVE  \/ \E x \in Worker : pc'[x] # "exited" /\ (pc'[x] # "idle" \/ Queue(x)' # {})
                      \/ \E c \in Live' : on'[c] \in stop'
    BY DEF DestructorWakesUp
  <2>1. t \in Worker
    BY DEF Thread, Locals, Posting
  <2>2. pc'[t] \in {"delete", "post"}
    BY <2>1
  <2> QED
    BY <2>1, <2>2
<1> QED
  BY <1>1, <1>2, <1>3, <1>4

LEMMA TestQuittingWakes ==
  ASSUME IInv, WInv, NEW t \in Thread, TestQuitting(t)
  PROVE  WInv'
<1> USE DEF IInv, TypeOK, WInv, TestQuitting, Goto, Resume, counter, closures, flush,
        clearing
<1>1. Kept'
  BY DEF Kept, Has, Held, Apart, Locals, Posting, Deleting, InFlush, Queue, None, Closure
<1>2. Left'
  BY DEF Left, Held, Locals, Posting, Deleting, InFlush, Queue, None, Closure
<1>3. FromFunctor' /\ Gone'
  BY DEF FromFunctor, Gone, Locals, Posting, Deleting, Thread
<1>4. DestructorWakesUp'
  <2> SUFFICES ASSUME pc'[Owner] = "wait", ~invocation_complete_'
               PROVE  \/ \E x \in Worker : pc'[x] # "exited" /\ (pc'[x] # "idle" \/ Queue(x)' # {})
                      \/ \E c \in Live' : on'[c] \in stop'
    BY DEF DestructorWakesUp
  <2>1. t \in Worker
    BY DEF Thread, Locals, Posting
  <2>2. pc'[t] \in {"exec", "push"}
    BY <2>1 DEF FromFunctor, Posting
  <2> QED
    BY <2>1, <2>2
<1> QED
  BY <1>1, <1>2, <1>3, <1>4

LEMMA PushWakes ==
  ASSUME IInv, WInv, NEW t \in Thread, Push(t)
  PROVE  WInv'
<1> USE DEF IInv, TypeOK, WInv, Push, Goto, Resume, counter, closures, flush,
        clearing
<1>1. Kept'
  BY DEF Kept, Has, Held, Apart, Locals, Posting, Deleting, InFlush, Queue, None, Closure
<1>2. Left'
  BY DEF Left, Held, Locals, Posting, Deleting, InFlush, Queue, None, Closure
<1>3. FromFunctor' /\ Gone'
  BY DEF FromFunctor, Gone, Locals, Posting, Deleting, Thread
<1>4. DestructorWakesUp'
  BY DEF DestructorWakesUp, Live, Locals, Held, Queue, Posting, Deleting, FromFunctor, OwnerOnly,
     OneFlush, InFlush, Thread, None, Closure
<1> QED
  BY <1>1, <1>2, <1>3, <1>4

LEMMA ExecuteWakes ==
  ASSUME IInv, WInv, NEW t \in Thread, Execute(t)
  PROVE  WInv'
<1> USE DEF IInv, TypeOK, WInv, Execute, Goto, counter, closures, flush,
        clearing
<1>1. Kept'
  <2>1. PICK c \in Queue(t) : /\ status' = [status EXCEPT ![c] = "running"]
                             /\ job' = [job EXCEPT ![t] = c]
    OBVIOUS
  <2>2. c \in Closure /\ job[t] = None /\ Has(t, c)'
    BY <2>1 DEF Queue, Has, Locals, Posting, Deleting
  <2>3. \A x \in Thread, d \in Closure : Has(x, d) => Has(x, d)'
    BY <2>1, <2>2 DEF Has, None, Closure
  <2> QED
    BY <2>1, <2>2, <2>3 DEF Kept
<1>2. Left'
  BY DEF Left, Held, Locals, Posting, Deleting, InFlush, Queue, None, Closure
<1>3. FromFunctor' /\ Gone'
  BY DEF FromFunctor, Gone, Locals, Posting, Deleting, Thread
<1>4. DestructorWakesUp'
  BY DEF DestructorWakesUp, Live, Locals, Held, Queue, Posting, Deleting, FromFunctor, OwnerOnly,
     OneFlush, InFlush, Thread, None, Closure
<1> QED
  BY <1>1, <1>2, <1>3, <1>4

LEMMA FunctorReturnsWakes ==
  ASSUME IInv, WInv, NEW t \in Thread, FunctorReturns(t)
  PROVE  WInv'
<1> USE DEF IInv, TypeOK, WInv, FunctorReturns, Goto, Delete, counter, closures, flush,
        clearing
<1>1. Kept'
  <2>1. job[t] \in Closure /\ doomed[t] = {} /\ status[job[t]] = "running"
    BY DEF Locals, Posting, Deleting, Held
  <2>2. /\ status' = [status EXCEPT ![job[t]] = "doomed"]
        /\ job' = [job EXCEPT ![t] = None]
        /\ doomed' = [doomed EXCEPT ![t] = {job[t]}]
    OBVIOUS
  <2>3. \A x \in Thread, c \in Closure : Has(x, c) => Has(x, c)'
    BY <2>1, <2>2 DEF Has
  <2> QED
    BY <2>1, <2>2, <2>3 DEF Kept
<1>2. Left'
  BY DEF Left, Held, Locals, Posting, Deleting, InFlush, Queue, None, Closure
<1>3. FromFunctor' /\ Gone'
  BY DEF FromFunctor, Gone, Locals, Posting, Deleting, Thread
<1>4. DestructorWakesUp'
  BY DEF DestructorWakesUp, Live, Locals, Held, Queue, Posting, Deleting, FromFunctor, OwnerOnly,
     OneFlush, InFlush, Thread, None, Closure
<1> QED
  BY <1>1, <1>2, <1>3, <1>4

LEMMA DecrementWakes ==
  ASSUME IInv, WInv, NEW t \in Thread, Decrement(t)
  PROVE  WInv'
<1> USE DEF IInv, TypeOK, WInv, Decrement, Goto, counter, closures, flush,
        clearing
<1>1. Kept'
  BY DEF Kept, Has, Held, Apart, Locals, Posting, Deleting, InFlush, Queue, None, Closure
<1>2. Left'
  BY DEF Left, Held, Locals, Posting, Deleting, InFlush, Queue, None, Closure
<1>3. FromFunctor' /\ Gone'
  BY DEF FromFunctor, Gone, Locals, Posting, Deleting, Thread
<1>4. DestructorWakesUp'
  BY DEF DestructorWakesUp, Live, Locals, Held, Queue, Posting, Deleting, FromFunctor, OwnerOnly,
     OneFlush, InFlush, Thread, None, Closure
<1> QED
  BY <1>1, <1>2, <1>3, <1>4

LEMMA SetEventWakes ==
  ASSUME IInv, WInv, NEW t \in Thread, SetEvent(t)
  PROVE  WInv'
<1> USE DEF IInv, TypeOK, WInv, SetEvent, Goto, Resume, counter, closures, flush,
        clearing
<1>1. Kept'
  BY DEF Kept, Has, Held, Apart, Locals, Posting, Deleting, InFlush, Queue, None, Closure
<1>2. Left'
  BY DEF Left, Held, Locals, Posting, Deleting, InFlush, Queue, None, Closure
<1>3. FromFunctor' /\ Gone'
  BY DEF FromFunctor, Gone, Locals, Posting, Deleting, Thread
<1>4. DestructorWakesUp'
  BY DEF DestructorWakesUp, Live, Locals, Held, Queue, Posting, Deleting, FromFunctor, OwnerOnly,
     OneFlush, InFlush, Thread, None, Closure
<1> QED
  BY <1>1, <1>2, <1>3, <1>4

LEMMA CallFlushWakes ==
  ASSUME IInv, WInv, NEW t \in Thread, CallFlush(t)
  PROVE  WInv'
<1> USE DEF IInv, TypeOK, WInv, CallFlush, Goto, counter, closures, flush,
        clearing
<1>1. Kept'
  <2>1. PICK u \in Thread :
          \/ /\ flushing' = [flushing EXCEPT ![u] = Queue(u)] /\ u = Owner
             /\ status' = [c \in Closure |-> IF c \in Queue(u) THEN "taken" ELSE status[c]]
          \/ UNCHANGED <<flushing, status>>
    OBVIOUS
  <2>2. flushing[Owner] = {} /\ Owner \in Thread
    BY DEF Locals, InFlush, Posting, Deleting, Thread
  <2>3. \A x \in Thread, c \in Closure : Has(x, c) => Has(x, c)'
    BY <2>1, <2>2 DEF Has
  <2>4. \A c \in Queue(u) : status'[c] = "taken" => Has(u, c)'
    BY <2>1, <2>2 DEF Has, Queue
  <2> QED
    BY <2>1, <2>3, <2>4 DEF Kept
<1>2. Left'
  BY DEF Left, Held, Locals, Posting, Deleting, InFlush, Queue, None, Closure
<1>3. FromFunctor' /\ Gone'
  BY DEF FromFunctor, Gone, Locals, Posting, Deleting, Thread
<1>4. DestructorWakesUp'
  BY DEF DestructorWakesUp, Live, Locals, Held, Queue, Posting, Deleting, FromFunctor, OwnerOnly,
     OneFlush, InFlush, Thread, None, Closure
<1> QED
  BY <1>1, <1>2, <1>3, <1>4

LEMMA SendFlushWakes ==
  ASSUME IInv, WInv, NEW t \in Thread, SendFlush(t)
  PROVE  WInv'
<1> USE DEF IInv, TypeOK, WInv, SendFlush, Goto, counter, closures, flush,
        clearing
<1>1. Kept'
  BY DEF Kept, Has, Held, Apart, Locals, Posting, Deleting, InFlush, Queue, None, Closure
<1>2. Left'
  BY DEF Left, Held, Locals, Posting, Deleting, InFlush, Queue, None, Closure
<1>3. FromFunctor' /\ Gone'
  BY DEF FromFunctor, Gone, Locals, Posting, Deleting, Thread
<1>4. DestructorWakesUp'
  BY DEF DestructorWakesUp, Live, Locals, Held, Queue, Posting, Deleting, FromFunctor, OwnerOnly,
     OneFlush, InFlush, Thread, None, Closure
<1> QED
  BY <1>1, <1>2, <1>3, <1>4

LEMMA BeginFlushWakes ==
  ASSUME IInv, WInv, NEW t \in Thread, BeginFlush(t)
  PROVE  WInv'
<1> USE DEF IInv, TypeOK, WInv, BeginFlush, Goto, counter, closures, flush,
        clearing
<1>1. Kept'
  BY DEF Kept, Has, Held, Apart, Locals, Posting, Deleting, InFlush, Queue, None, Closure
<1>2. Left'
  BY DEF Left, Held, Locals, Posting, Deleting, InFlush, Queue, None, Closure
<1>3. FromFunctor' /\ Gone'
  BY DEF FromFunctor, Gone, Locals, Posting, Deleting, Thread
<1>4. DestructorWakesUp'
  BY DEF DestructorWakesUp, Live, Locals, Held, Queue, Posting, Deleting, FromFunctor, OwnerOnly,
     OneFlush, InFlush, Thread, None, Closure
<1> QED
  BY <1>1, <1>2, <1>3, <1>4

LEMMA FlushNextWakes ==
  ASSUME IInv, WInv, NEW t \in Thread, FlushNext(t)
  PROVE  WInv'
<1> USE DEF IInv, TypeOK, WInv, FlushNext, Goto, counter, closures, flush,
        clearing
<1>1. Kept'
  <2>1. PICK c \in flushing[t] :
          /\ flushing' = [flushing EXCEPT ![t] = @ \ {c}]
          /\ \/ status' = [status EXCEPT ![c] = "lost"] /\ job' = job
             \/ status' = [status EXCEPT ![c] = "running"] /\ job' = [job EXCEPT ![t] = c]
    OBVIOUS
  <2>2. c \in Closure /\ job[t] = None
    BY DEF Locals, Posting, Deleting
  <2>3. \A x \in Thread, d \in Closure : d # c /\ Has(x, d) => Has(x, d)'
    BY <2>1, <2>2 DEF Has, None, Closure
  <2>4. status'[c] # "lost" => Has(t, c)'
    BY <2>1, <2>2 DEF Has
  <2>5. \A d \in Closure : d # c => status'[d] = status[d]
    BY <2>1, <2>2
  <2>6. status'[c] \in {"lost", "running"}
    BY <2>1, <2>2
  <2> QED
    BY <2>3, <2>4, <2>5, <2>6 DEF Kept
<1>2. Left'
  BY DEF Left, Held, Locals, Posting, Deleting, InFlush, Queue, None, Closure
<1>3. FromFunctor' /\ Gone'
  BY DEF FromFunctor, Gone, Locals, Posting, Deleting, Thread
<1>4. DestructorWakesUp'
  BY DEF DestructorWakesUp, Live, Locals, Held, Queue, Posting, Deleting, FromFunctor, OwnerOnly,
     OneFlush, InFlush, Thread, None, Closure
<1> QED
  BY <1>1, <1>2, <1>3, <1>4

LEMMA FlushReturnsWakes ==
  ASSUME IInv, WInv, NEW t \in Thread, FlushReturns(t)
  PROVE  WInv'
<1> USE DEF IInv, TypeOK, WInv, FlushReturns, counter, closures, flush,
        clearing
<1>1. Kept'
  BY DEF Kept, Has, Held, Apart, Locals, Posting, Deleting, InFlush, Queue, None, Closure
<1>2. Left'
  BY DEF Left, Held, Locals, Posting, Deleting, InFlush, Queue, None, Closure
<1>3. FromFunctor' /\ Gone'
  BY DEF FromFunctor, Gone, Locals, Posting, Deleting, Thread
<1>4. DestructorWakesUp'
  BY DEF DestructorWakesUp, Live, Locals, Held, Queue, Posting, Deleting, FromFunctor, OwnerOnly,
     OneFlush, InFlush, Thread, None, Closure
<1> QED
  BY <1>1, <1>2, <1>3, <1>4

LEMMA ManagerClearWakes ==
  ASSUME IInv, WInv, NEW t \in Thread, ManagerClear(t)
  PROVE  WInv'
<1>1. Kept'
  <2>1. CASE todo = {}
    BY <2>1 DEF ManagerClear, WInv, Kept, Has, flush
  <2>2. CASE todo # {}
    <3>1. PICK u \in Thread : ClearQueue(t, u, "clear")
      BY <2>2 DEF ManagerClear, IInv, TypeOK
    <3> QED
      BY <3>1, ClearQueueKept DEF ManagerClear, WInv
  <2> QED
    BY <2>1, <2>2
<1> USE DEF IInv, TypeOK, WInv, ManagerClear, ClearQueue, Goto, Delete, counter, closures, flush,
        clearing
<1>2. Left'
  BY DEF Left, Held, Locals, Posting, Deleting, InFlush, Queue, None, Closure
<1>3. FromFunctor' /\ Gone'
  BY DEF FromFunctor, Gone, Locals, Posting, Deleting, Thread
<1>4. DestructorWakesUp'
  BY DEF DestructorWakesUp, Live, Locals, Held, Queue, Posting, Deleting, FromFunctor, OwnerOnly,
     OneFlush, InFlush, Thread, None, Closure
<1> QED
  BY <1>1, <1>2, <1>3, <1>4

LEMMA DestructorLoopWakes ==
  ASSUME IInv, WInv, NEW t \in Thread, DestructorLoop(t)
  PROVE  WInv'
<1>1. Kept'
  <2>1. CASE pending_invocations_ > 0
    BY <2>1, ClearQueueKept DEF DestructorLoop, WInv, Thread
  <2>2. CASE ~(pending_invocations_ > 0)
    BY <2>2 DEF DestructorLoop, WInv, Kept, Has, flush
  <2> QED
    BY <2>1, <2>2
<1> USE DEF IInv, TypeOK, WInv, DestructorLoop, ClearQueue, Goto, Delete, counter, closures, flush,
        clearing
<1>2. Left'
  BY DEF Left, Held, Locals, Posting, Deleting, InFlush, Queue, None, Closure
<1>3. FromFunctor' /\ Gone'
  BY DEF FromFunctor, Gone, Locals, Posting, Deleting, Thread
<1>4. DestructorWakesUp'
  <2> SUFFICES ASSUME pc'[Owner] = "wait", ~invocation_complete_'
               PROVE  \/ \E x \in Worker : pc'[x] # "exited" /\ (pc'[x] # "idle" \/ Queue(x)' # {})
                      \/ \E c \in Live' : on'[c] \in stop'
    BY DEF DestructorWakesUp
  <2>1. t = Owner /\ \A x \in Worker : pc'[x] = pc[x]
    BY DEF OwnerOnly, Thread
  <2>2. Queue(Owner) = {} /\ pending_invocations_ > 0
    BY <2>1
  <2>3. UNCHANGED <<status, on, stop>>
    BY <2>2
  <2>4. Live # {}
    <3>1. Live = {} => Cardinality(Live) = 0
      BY FS_EmptySet
    <3> QED
      BY <2>2, <3>1 DEF Counted
  <2>5. PICK c \in Closure : c \in Live
    BY <2>4 DEF Live
  <2>6. CASE status[c] = "queued"
    <3>1. on[c] \in Worker /\ c \in Queue(on[c]) /\ c \in Live' /\ on'[c] = on[c]
      BY <2>2, <2>3, <2>5, <2>6 DEF Queue, Thread, Live
    <3>2. PICK w \in Worker : w = on[c]
      BY <3>1
    <3>3. c \in Queue(w)'
      BY <2>3, <3>1, <3>2 DEF Queue
    <3>4. pc[w] = "exited" => w \in stop
      BY <3>2 DEF Gone
    <3> QED
      BY <2>1, <2>3, <3>1, <3>2, <3>3, <3>4
  <2>7. CASE status[c] = "lost"
    BY <2>3, <2>5, <2>7 DEF Left, Live
  <2>8. CASE status[c] \notin {"queued", "lost"}
    <3>1. PICK x \in Thread : Has(x, c)
      BY <2>5, <2>8 DEF Kept, Live, Status
    <3>2. x \in Worker /\ pc[x] \notin {"idle", "exited"}
      BY <2>1, <3>1, HolderWorks DEF Thread
    <3> QED
      BY <2>1, <3>2
  <2> QED
    BY <2>6, <2>7, <2>8
<1> QED
  BY <1>1, <1>2, <1>3, <1>4

LEMMA DestructorWaitWakes ==
  ASSUME IInv, WInv, NEW t \in Thread, DestructorWait(t)
  PROVE  WInv'
<1> USE DEF IInv, TypeOK, WInv, DestructorWait, Goto, counter, closures, flush,
        clearing
<1>1. Kept'
  BY DEF Kept, Has, Held, Apart, Locals, Posting, Deleting, InFlush, Queue, None, Closure
<1>2. Left'
  BY DEF Left, Held, Locals, Posting, Deleting, InFlush, Queue, None, Closure
<1>3. FromFunctor' /\ Gone'
  BY DEF FromFunctor, Gone, Locals, Posting, Deleting, Thread
<1>4. DestructorWakesUp'
  BY DEF DestructorWakesUp, Live, Locals, Held, Queue, Posting, Deleting, FromFunctor, OwnerOnly,
     OneFlush, InFlush, Thread, None, Closure
<1> QED
  BY <1>1, <1>2, <1>3, <1>4

LEMMA CallClearWakes ==
  ASSUME IInv, WInv, NEW t \in Thread, CallClear(t)
  PROVE  WInv'
<1> USE DEF IInv, TypeOK, WInv, CallClear, Goto, counter, closures, flush,
        clearing
<1>1. Kept'
  BY DEF Kept, Has, Held, Apart, Locals, Posting, Deleting, InFlush, Queue, None, Closure
<1>2. Left'
  BY DEF Left, Held, Locals, Posting, Deleting, InFlush, Queue, None, Closure
<1>3. FromFunctor' /\ Gone'
  BY DEF FromFunctor, Gone, Locals, Posting, Deleting, Thread
<1>4. DestructorWakesUp'
  BY DEF DestructorWakesUp, Live, Locals, Held, Queue, Posting, Deleting, FromFunctor, OwnerOnly,
     OneFlush, InFlush, Thread, None, Closure
<1> QED
  BY <1>1, <1>2, <1>3, <1>4

LEMMA CallDestructorWakes ==
  ASSUME IInv, WInv, NEW t \in Thread, CallDestructor(t)
  PROVE  WInv'
<1> USE DEF IInv, TypeOK, WInv, CallDestructor, Goto, counter, closures, flush,
        clearing
<1>1. Kept'
  BY DEF Kept, Has, Held, Apart, Locals, Posting, Deleting, InFlush, Queue, None, Closure
<1>2. Left'
  BY DEF Left, Held, Locals, Posting, Deleting, InFlush, Queue, None, Closure
<1>3. FromFunctor' /\ Gone'
  BY DEF FromFunctor, Gone, Locals, Posting, Deleting, Thread
<1>4. DestructorWakesUp'
  BY DEF DestructorWakesUp, Live, Locals, Held, Queue, Posting, Deleting, FromFunctor, OwnerOnly,
     OneFlush, InFlush, Thread, None, Closure
<1> QED
  BY <1>1, <1>2, <1>3, <1>4

LEMMA QuitWakes ==
  ASSUME IInv, WInv, NEW t \in Thread, Quit(t)
  PROVE  WInv'
<1> USE DEF IInv, TypeOK, WInv, Quit, counter, closures, flush,
        clearing
<1>1. Kept'
  BY DEF Kept, Has, Held, Apart, Locals, Posting, Deleting, InFlush, Queue, None, Closure
<1>2. Left'
  BY DEF Left, Held, Locals, Posting, Deleting, InFlush, Queue, None, Closure
<1>3. FromFunctor' /\ Gone'
  BY DEF FromFunctor, Gone, Locals, Posting, Deleting, Thread
<1>4. DestructorWakesUp'
  BY DEF DestructorWakesUp, Live, Locals, Held, Queue, Posting, Deleting, FromFunctor, OwnerOnly,
     OneFlush, InFlush, Thread, None, Closure
<1> QED
  BY <1>1, <1>2, <1>3, <1>4

LEMMA ExitWakes ==
  ASSUME IInv, WInv, NEW t \in Thread, Exit(t)
  PROVE  WInv'
<1> USE DEF IInv, TypeOK, WInv, Exit, Goto, counter, closures, flush,
        clearing
<1>1. Kept'
  BY DEF Kept, Has, Held, Apart, Locals, Posting, Deleting, InFlush, Queue, None, Closure
<1>2. Left'
  BY DEF Left, Held, Locals, Posting, Deleting, InFlush, Queue, None, Closure
<1>3. FromFunctor' /\ Gone'
  BY DEF FromFunctor, Gone, Locals, Posting, Deleting, Thread
<1>4. DestructorWakesUp'
  BY SMTT(30) DEF DestructorWakesUp, Live, Locals, Held, Queue, Posting, Deleting, FromFunctor, OwnerOnly,
     OneFlush, InFlush, Thread, None, Closure
<1> QED
  BY <1>1, <1>2, <1>3, <1>4

LEMMA AsyncInvokeWakes ==
  ASSUME IInv, WInv, NEW t \in Thread, AsyncInvoke(t)
  PROVE  WInv'
<1> USE DEF IInv, TypeOK, WInv, AsyncInvoke, Goto, counter, closures, flush,
        clearing
<1>1. Kept'
  <2>1. PICK c \in Closure : /\ status[c] = "none"
                            /\ status' = [status EXCEPT ![c] = "made"]
                            /\ made' = [made EXCEPT ![t] = c]
    OBVIOUS
  <2>2. made[t] = None /\ Has(t, c)'
    BY <2>1 DEF Has, Locals, Posting
  <2>3. \A x \in Thread, d \in Closure : Has(x, d) => Has(x, d)'
    BY <2>1, <2>2 DEF Has, None, Closure
  <2> QED
    BY <2>1, <2>2, <2>3 DEF Kept
<1>2. Left'
  BY DEF Left, Held, Locals, Posting, Deleting, InFlush, Queue, None, Closure
<1>3. FromFunctor' /\ Gone'
  BY DEF FromFunctor, Gone, Locals, Posting, Deleting, Thread
<1>4. DestructorWakesUp'
  BY DEF DestructorWakesUp, Live, Locals, Held, Queue, Posting, Deleting, FromFunctor, OwnerOnly,
     OneFlush, InFlush, Thread, None, Closure
<1> QED
  BY <1>1, <1>2, <1>3, <1>4

LEMMA NextWInv == IInv /\ WInv /\ [Next]_vars => WInv'
<1> SUFFICES ASSUME IInv, WInv, [Next]_vars PROVE WInv'
  OBVIOUS
<1>1. CASE UNCHANGED vars
  BY <1>1 DEF vars, counter, closures, clearing, flush, WInv, Kept, Has, Left, FromFunctor, Gone,
     DestructorWakesUp, Live, Queue
<1>2. ASSUME NEW t \in Thread, Step(t) PROVE WInv'
  BY <1>2, TestDestroyingWakes, TestQuittingWakes, PushWakes, ExecuteWakes, FunctorReturnsWakes,
     DecrementWakes, SetEventWakes, SendFlushWakes, BeginFlushWakes, FlushNextWakes,
     FlushReturnsWakes, ManagerClearWakes, DestructorLoopWakes, DestructorWaitWakes, ExitWakes
     DEF Step
<1>3. ASSUME NEW t \in Thread, Calls(t) PROVE WInv'
  BY <1>3, AsyncInvokeWakes, CallFlushWakes, CallClearWakes, CallDestructorWakes, QuitWakes
     DEF Calls
<1> QED
  BY <1>1, <1>2, <1>3 DEF Next

\* The destructor never waits for an event that nobody will set, for any
\* number of threads and closures, as long as no closure was left to a thread
\* that was told to quit.
THEOREM DestructorIsWoken == Spec => []DestructorWakesUp
<1>1. WInv => DestructorWakesUp
  BY DEF WInv
<1> QED
  BY <1>1, InitIInv, NextIInv, InitWInv, NextWInv, PTL DEF Spec
==============================================================================
