----------------------------- MODULE AsyncInvoker -----------------------------
(***************************************************************************)
(* asyncinvoker.cc: an AsyncInvoker that runs closures on threads, and     *)
(* whose destructor waits until none is left.  The threads are those of    *)
(* module Threads, seen from outside: a post is the test for quitting and  *)
(* then the push, a thread takes one message at a time off its queue, and  *)
(* a thread that was told to quit may leave messages behind.               *)
(*                                                                         *)
(* Invocations are begun by the owner of the invoker, and by the functors  *)
(* that run, on any thread; the header forbids any other caller while the  *)
(* invoker is being destroyed.  The queue of a thread is the set of the    *)
(* closures in it: delays make every order possible.                       *)
(***************************************************************************)
EXTENDS Integers, FiniteSets

CONSTANTS Worker,     \* threads that run functors
          Owner,      \* the thread that uses and destroys the invoker
          MaxClosures \* bound: how many AsyncClosures are made

Thread == Worker \cup {Owner}
Closure == 1..MaxClosures   \* in the order in which they are made
None == 0

ASSUME OwnerAssumption == Owner \notin Worker
ASSUME ClosureAssumption == MaxClosures \in Nat

Labels == {"idle", "exec", "made", "post", "push", "delete", "set", "flush", "flushcall",
           "flushwait", "clear", "loop", "wait", "exited"}
Status == {"none", "made", "queued", "taken", "running", "doomed", "dead", "lost"}

VARIABLES pending_invocations_,
          invocation_complete_,  \* event_status_ of the event
          destroying_,
          gone,       \* the destructor has returned
          status, on, \* where each closure is, and the thread it was posted to
          stop,       \* threads that were told to quit
          pc,
          job,        \* the closure whose functor the thread is running
          made,       \* the closure the thread is posting
          doomed,     \* closures the thread is deleting
          ret,        \* where the thread goes on after AsyncInvoke or a deletion
          base,       \* where it goes on after OnMessage: the loop or Flush()
          todo,       \* queues MessageQueueManager::Clear has still to visit
          locked,     \* the queue whose crit_ the owner holds while it clears it
          flushing,   \* closures Flush() took off the queue and has still to run
          target,     \* the thread the owner flushes
          asked,      \* Flush() was sent to this thread
          before      \* closures that were in its queue when Flush() was called

counter == <<pending_invocations_, invocation_complete_>>
closures == <<status, on>>
flush == <<base, flushing, target, asked, before>>
clearing == <<todo, locked>>
vars == <<counter, destroying_, gone, closures, stop, pc, job, made, doomed, ret,
          clearing, flush>>

Init ==
  /\ pending_invocations_ = 0
  /\ invocation_complete_ = FALSE
  /\ destroying_ = FALSE /\ gone = FALSE
  /\ status = [c \in Closure |-> "none"]
  /\ on = [c \in Closure |-> Owner]
  /\ stop = {}
  /\ pc = [t \in Thread |-> "idle"]
  /\ job = [t \in Thread |-> None]
  /\ made = [t \in Thread |-> None]
  /\ doomed = [t \in Thread |-> {}]
  /\ ret = [t \in Thread |-> "idle"]
  /\ todo = {} /\ locked = {}
  /\ flushing = [t \in Thread |-> {}]
  /\ base = [t \in Thread |-> "idle"]
  /\ target = Owner /\ asked = FALSE /\ before = {}

Goto(t, label) == pc' = [pc EXCEPT ![t] = label]

\* Thread t goes on where it left off.
Resume(t) == /\ Goto(t, ret[t])
             /\ ret' = [ret EXCEPT ![t] = "idle"]
Queue(t) == {c \in Closure : status[c] = "queued" /\ on[c] = t}

\* Thread t deletes the closures S and goes on at label.
Delete(t, S, label) ==
  /\ doomed' = [doomed EXCEPT ![t] = S]
  /\ ret' = [ret EXCEPT ![t] = IF S = {} THEN "idle" ELSE label]
  /\ Goto(t, IF S = {} THEN label ELSE "delete")
------------------------------------------------------------------------------
(* AsyncInvoke and DoInvoke. *)

\* Mutant: the constructor does not count.
AsyncInvokeUncounted(t) ==
  /\ pc[t] = "exec" \/ (t = Owner /\ pc[t] = "idle" /\ ~gone)
  /\ \E c \in Closure, u \in Thread :
       /\ status[c] = "none" /\ \A d \in 1..(c - 1) : status[d] # "none"
       /\ status' = [status EXCEPT ![c] = "made"]
       /\ on' = [on EXCEPT ![c] = u]
       /\ made' = [made EXCEPT ![t] = c]
  /\ ret' = [ret EXCEPT ![t] = pc[t]]
  /\ Goto(t, "made")
  /\ UNCHANGED <<counter, destroying_, gone, stop, job, doomed, clearing, flush>>

\* The constructor of AsyncClosure counts the invocation.
AsyncInvoke(t) ==
  /\ pc[t] = "exec" \/ (t = Owner /\ pc[t] = "idle" /\ ~gone)
  /\ \E c \in Closure, u \in Thread :
       /\ status[c] = "none" /\ \A d \in 1..(c - 1) : status[d] # "none"
       /\ status' = [status EXCEPT ![c] = "made"]
       /\ on' = [on EXCEPT ![c] = u]
       /\ made' = [made EXCEPT ![t] = c]
  /\ pending_invocations_' = pending_invocations_ + 1
  /\ ret' = [ret EXCEPT ![t] = pc[t]]
  /\ Goto(t, "made")
  /\ UNCHANGED <<invocation_complete_, destroying_, gone, stop, job, doomed, clearing, flush>>

\* DoInvoke: the closure is dropped while the invoker is being destroyed.
TestDestroying(t) ==
  /\ pc[t] = "made"
  /\ IF destroying_
     THEN /\ status' = [status EXCEPT ![made[t]] = "doomed"]
          /\ made' = [made EXCEPT ![t] = None]
          /\ Delete(t, {made[t]}, ret[t])
     ELSE Goto(t, "post") /\ UNCHANGED <<status, made, doomed, ret>>
  /\ UNCHANGED <<counter, destroying_, gone, on, stop, job, clearing, flush>>

\* Thread::Post returns when the thread is quitting; nobody deletes the closure.
TestQuitting(t) ==
  /\ pc[t] = "post"
  /\ IF on[made[t]] \in stop
     THEN /\ status' = [status EXCEPT ![made[t]] = "lost"]
          /\ made' = [made EXCEPT ![t] = None]
          /\ Resume(t)
     ELSE Goto(t, "push") /\ UNCHANGED <<status, made, ret>>
  /\ UNCHANGED <<counter, destroying_, gone, on, stop, job, doomed, clearing, flush>>

Push(t) ==
  /\ pc[t] = "push"
  /\ on[made[t]] \notin locked
  /\ status' = [status EXCEPT ![made[t]] = "queued"]
  /\ made' = [made EXCEPT ![t] = None]
  /\ Resume(t)
  /\ UNCHANGED <<counter, destroying_, gone, on, stop, job, doomed, clearing, flush>>
------------------------------------------------------------------------------
(* OnMessage, and the destructor of AsyncClosure. *)

Execute(t) ==
  /\ pc[t] = "idle" /\ t \notin locked
  /\ \E c \in Queue(t) :
       /\ status' = [status EXCEPT ![c] = "running"]
       /\ job' = [job EXCEPT ![t] = c]
  /\ Goto(t, "exec")
  /\ UNCHANGED <<counter, destroying_, gone, on, stop, made, doomed, ret, clearing, flush>>

\* The functor returns; OnMessage deletes the closure and returns to the loop
\* or to Flush().
FunctorReturns(t) ==
  /\ pc[t] = "exec"
  /\ status' = [status EXCEPT ![job[t]] = "doomed"]
  /\ job' = [job EXCEPT ![t] = None]
  /\ base' = [base EXCEPT ![t] = "idle"]
  /\ Delete(t, {job[t]}, base[t])
  /\ UNCHANGED <<counter, destroying_, gone, on, stop, made, clearing,
                 flushing, target, asked, before>>

Decrement(t) ==
  /\ pc[t] = "delete"
  /\ \E c \in doomed[t] :
       /\ status' = [status EXCEPT ![c] = "dead"]
       /\ on' = [on EXCEPT ![c] = Owner]
       /\ doomed' = [doomed EXCEPT ![t] = @ \ {c}]
  /\ pending_invocations_' = pending_invocations_ - 1
  /\ Goto(t, "set")
  /\ UNCHANGED <<invocation_complete_, destroying_, gone, stop, job, made, ret, clearing,
                 flush>>

\* Mutant: the event is only set for the last invocation.
SetEventAtZero(t) ==
  /\ pc[t] = "set"
  /\ invocation_complete_' = (invocation_complete_ \/ pending_invocations_ = 0)
  /\ IF doomed[t] = {} THEN Resume(t) ELSE Goto(t, "delete") /\ UNCHANGED ret
  /\ locked' = IF t = Owner /\ doomed[t] = {} THEN {} ELSE locked
  /\ UNCHANGED <<pending_invocations_, destroying_, gone, closures, stop, job, made, doomed,
                 todo, flush>>

\* The event is set after the count; the closure holds a reference to it.
SetEvent(t) ==
  /\ pc[t] = "set"
  /\ invocation_complete_' = TRUE
  /\ IF doomed[t] = {} THEN Resume(t) ELSE Goto(t, "delete") /\ UNCHANGED ret
  /\ locked' = IF t = Owner /\ doomed[t] = {} THEN {} ELSE locked
  /\ UNCHANGED <<pending_invocations_, destroying_, gone, closures, stop, job, made, doomed,
                 todo, flush>>
------------------------------------------------------------------------------
(* Flush. *)

\* Called by the owner: on itself at once, on another thread through Invoke(),
\* which does nothing if that thread is quitting.
CallFlush(t) ==
  /\ t = Owner /\ pc[t] = "idle" /\ ~gone
  /\ \E u \in Thread :
       /\ target' = u /\ before' = Queue(u)
       /\ IF u = Owner
          THEN /\ flushing' = [flushing EXCEPT ![u] = Queue(u)]
               /\ status' = [c \in Closure |-> IF c \in Queue(u) THEN "taken" ELSE status[c]]
               /\ Goto(t, "flush")
          ELSE /\ u \notin stop
               /\ Goto(t, "flushcall")
               /\ UNCHANGED <<flushing, status>>
  /\ UNCHANGED <<counter, destroying_, gone, on, stop, job, made, doomed, ret, clearing,
                 base, asked>>

\* Mutant: the Send is replaced by a Post.
SendFlushNoWait(t) ==
  /\ pc[t] = "flushcall"
  /\ asked' = TRUE
  /\ Goto(t, "idle")
  /\ UNCHANGED <<counter, destroying_, gone, closures, stop, job, made, doomed, ret, clearing,
                 base, flushing, target, before>>

SendFlush(t) ==
  /\ pc[t] = "flushcall"
  /\ asked' = TRUE
  /\ Goto(t, "flushwait")
  /\ UNCHANGED <<counter, destroying_, gone, closures, stop, job, made, doomed, ret, clearing,
                 base, flushing, target, before>>

\* The other thread receives the Send and takes the closures off its queue.
BeginFlush(t) ==
  /\ t \in Worker /\ pc[t] = "idle" /\ asked /\ target = t /\ t \notin locked
  /\ asked' = FALSE
  /\ flushing' = [flushing EXCEPT ![t] = Queue(t)]
  /\ status' = [c \in Closure |-> IF c \in Queue(t) THEN "taken" ELSE status[c]]
  /\ Goto(t, "flush")
  /\ UNCHANGED <<counter, destroying_, gone, on, stop, job, made, doomed, ret, clearing,
                 base, target, before>>

\* Send() to the own thread: the functor runs at once, unless the thread is
\* quitting; then the closure is neither run nor deleted.
FlushNext(t) ==
  /\ pc[t] = "flush"
  /\ \E c \in flushing[t] :
       /\ flushing' = [flushing EXCEPT ![t] = @ \ {c}]
       /\ IF t \in stop
          THEN /\ status' = [status EXCEPT ![c] = "lost"]
               /\ UNCHANGED <<pc, job, base>>
          ELSE /\ status' = [status EXCEPT ![c] = "running"]
               /\ job' = [job EXCEPT ![t] = c]
               /\ base' = [base EXCEPT ![t] = "flush"]
               /\ Goto(t, "exec")
  /\ UNCHANGED <<counter, destroying_, gone, on, stop, made, doomed, ret, clearing,
                 target, asked, before>>

\* Flush() returns, and with it the Invoke() that waits for it.
FlushReturns(t) ==
  /\ pc[t] = "flush" /\ flushing[t] = {}
  /\ pc' = [x \in Thread |-> IF x \in {t, Owner} THEN "idle" ELSE pc[x]]
  /\ before' = {} /\ target' = Owner
  /\ UNCHANGED <<counter, destroying_, gone, closures, stop, job, made, doomed, ret,
                 clearing, base, flushing, asked>>
------------------------------------------------------------------------------
(* Clear and the destructor. *)

CallClear(t) ==
  /\ t = Owner /\ pc[t] = "idle" /\ ~gone
  /\ todo' = Thread
  /\ Goto(t, "clear")
  /\ UNCHANGED <<counter, destroying_, gone, closures, stop, job, made, doomed, ret, locked,
                 flush>>

CallDestructor(t) ==
  /\ t = Owner /\ pc[t] = "idle" /\ ~gone
  /\ destroying_' = TRUE
  /\ todo' = Thread
  /\ Goto(t, "clear")
  /\ UNCHANGED <<counter, gone, closures, stop, job, made, doomed, ret, locked, flush>>

\* Thread::Clear(this) on the queue of u, under its crit_.
ClearQueue(t, u, label) ==
  /\ status' = [c \in Closure |-> IF c \in Queue(u) THEN "doomed" ELSE status[c]]
  /\ locked' = IF Queue(u) = {} THEN {} ELSE {u}
  /\ Delete(t, Queue(u), label)

\* MessageQueueManager::Clear visits the queues one after the other.
ManagerClear(t) ==
  /\ pc[t] = "clear"
  /\ IF todo = {}
     THEN /\ Goto(t, IF destroying_ THEN "loop" ELSE "idle")
          /\ UNCHANGED <<status, doomed, ret, clearing>>
     ELSE \E u \in todo : todo' = todo \ {u} /\ ClearQueue(t, u, "clear")
  /\ UNCHANGED <<counter, destroying_, gone, on, stop, job, made, flush>>

\* Mutant: the own queue is not cleared again.
DestructorLoopNoClear(t) ==
  /\ pc[t] = "loop"
  /\ IF pending_invocations_ > 0
     THEN Goto(t, "wait") /\ UNCHANGED gone
     ELSE gone' = TRUE /\ Goto(t, "idle")
  /\ UNCHANGED <<counter, destroying_, closures, stop, job, made, doomed, ret, clearing, flush>>

\* while (pending_invocations_ > 0): clear the own queue and wait.
DestructorLoop(t) ==
  /\ pc[t] = "loop"
  /\ IF pending_invocations_ > 0
     THEN ClearQueue(t, Owner, "wait") /\ UNCHANGED gone
     ELSE gone' = TRUE /\ Goto(t, "idle") /\ UNCHANGED <<status, locked, doomed, ret>>
  /\ UNCHANGED <<counter, destroying_, on, stop, job, made, todo, flush>>

\* Mutant: the event is waited for once, and the count not read again.
DestructorWaitOnce(t) ==
  /\ pc[t] = "wait"
  /\ invocation_complete_
  /\ invocation_complete_' = FALSE
  /\ gone' = TRUE
  /\ Goto(t, "idle")
  /\ UNCHANGED <<pending_invocations_, destroying_, closures, stop, job, made, doomed,
                 ret, clearing, flush>>

DestructorWait(t) ==
  /\ pc[t] = "wait"
  /\ invocation_complete_
  /\ invocation_complete_' = FALSE
  /\ Goto(t, "loop")
  /\ UNCHANGED <<pending_invocations_, destroying_, gone, closures, stop, job, made, doomed,
                 ret, clearing, flush>>
------------------------------------------------------------------------------
\* The thread is told to quit, and leaves its loop; what is in its queue stays.
Quit(t) ==
  /\ t \in Worker \ stop
  /\ stop' = stop \cup {t}
  /\ UNCHANGED <<counter, destroying_, gone, closures, pc, job, made, doomed, ret, clearing,
                 flush>>

Exit(t) ==
  /\ t \in stop /\ pc[t] = "idle"
  /\ Goto(t, "exited")
  /\ UNCHANGED <<counter, destroying_, gone, closures, stop, job, made, doomed, ret, clearing,
                 flush>>

Step(t) ==
  \/ TestDestroying(t) \/ TestQuitting(t) \/ Push(t)
  \/ Execute(t) \/ FunctorReturns(t) \/ Decrement(t) \/ SetEvent(t)
  \/ SendFlush(t) \/ BeginFlush(t) \/ FlushNext(t) \/ FlushReturns(t)
  \/ ManagerClear(t) \/ DestructorLoop(t) \/ DestructorWait(t)
  \/ Exit(t)

Calls(t) == AsyncInvoke(t) \/ CallFlush(t) \/ CallClear(t) \/ CallDestructor(t) \/ Quit(t)

Next == \E t \in Thread : Step(t) \/ Calls(t)

Spec == Init /\ [][Next]_vars

\* Threads go on with what they have begun and take what is in their queue.
FairSpec == Spec /\ \A t \in Thread : WF_vars(Step(t))
------------------------------------------------------------------------------
(* Properties. *)

\* Ranges of the variables.
TypeOK ==
  /\ pending_invocations_ \in Nat /\ invocation_complete_ \in BOOLEAN
  /\ destroying_ \in BOOLEAN /\ gone \in BOOLEAN
  /\ status \in [Closure -> Status] /\ on \in [Closure -> Thread]
  /\ stop \subseteq Worker
  /\ pc \in [Thread -> Labels]
  /\ job \in [Thread -> Closure \cup {None}] /\ made \in [Thread -> Closure \cup {None}]
  /\ doomed \in [Thread -> SUBSET Closure]
  /\ ret \in [Thread -> Labels] /\ base \in [Thread -> {"idle", "flush"}]
  /\ todo \subseteq Thread /\ locked \subseteq Thread
  /\ flushing \in [Thread -> SUBSET Closure]
  /\ target \in Thread /\ asked \in BOOLEAN /\ before \subseteq Closure

\* Closures that were made and are not yet counted as finished.
Live == {c \in Closure : status[c] \notin {"none", "dead"}}

\* "any calls executing will be allowed to complete before AsyncInvoker
\* destructs": when the destructor returns no closure is left, in a queue, on
\* its way to one, running or being deleted, and afterwards no thread uses the
\* invoker; at most it still has to set the event, which is counted apart.
SafeDestruction ==
  gone => /\ Live = {}
          /\ \A t \in Thread : pc[t] \in {"idle", "set", "exited"}

\* Flush() "wait[s] for calls to complete before returning": what was in the
\* queue of the thread when it was called has run when it returns, unless the
\* thread was told to quit.
FlushWaits ==
  [][pc[Owner] \in {"flush", "flushcall", "flushwait"} /\ pc'[Owner] = "idle" =>
       target \in stop \/ \A c \in before : status[c] = "dead"]_vars

\* No wake-up of the destructor is lost: while it waits for an event that is
\* not set, a thread is on its way to set it or has a closure in its queue,
\* unless a closure was left to a thread that was told to quit.  A closure
\* that was pushed to the queue of the waiting thread itself does not count.
DestructorWakesUp ==
  pc[Owner] = "wait" /\ ~invocation_complete_ =>
    \/ \E t \in Worker : pc[t] # "exited" /\ (pc[t] # "idle" \/ Queue(t) # {})
    \/ \E c \in Live : on[c] \in stop

\* The destructor returns, whatever the functors still post, unless a thread
\* was told to quit.
DestructorReturns == destroying_ ~> gone \/ stop # {}
==============================================================================
