------------------------------- MODULE Threads -------------------------------
(***************************************************************************)
(* messagequeue.cc and thread.cc, on a NullSocketServer (nullsocketserver  *)
(* .cc) and its auto-reset Event (event.cc): threads that post messages to *)
(* each other, send messages and wait for them to be handled, clear each   *)
(* other's queues, and stop and start each other.                          *)
(*                                                                         *)
(* A thread is a stack of calls: user code ("run": the body of main or of  *)
(* a message handler), which may be inside Post, Send, Stop and so on, and *)
(* ProcessMessages() loops.  What happens under crit_ is one step; what    *)
(* happens between two critical sections (the test of stop_, the push, the *)
(* WakeUp, the wait) is a step each.                                       *)
(*                                                                         *)
(* A message is its handler (and id, which only Clear looks at), and, when *)
(* it was delayed, its trigger time and how many delayed messages were     *)
(* posted before it; its num_ is the remainder that fits in a uint32_t, of *)
(* which Numbers is the number of values.  A list is the set of its        *)
(* entries, each with the number under which it was appended: the first    *)
(* entry is the one with the lowest number, as in the priority queue it is *)
(* the one that is due first.                                              *)
(***************************************************************************)
EXTENDS Integers, FiniteSets

CONSTANTS Worker,      \* threads whose base is Run(): ProcessMessages(kForever)
          Main,        \* threads wrapped around code that is already running
          NoThread,
          Handler,     \* message handlers
          Dispose,     \* handler (null) of MQID_DISPOSE messages
          Delays,      \* arguments of PostDelayed
          Backlog,     \* handler of a message posted to each worker before it was started
          Numbers,     \* values of dmsgq_next_num_, after which it starts again
          NestedLoops, \* whether a handler may call ProcessMessages(0)
          MaxDepth,    \* bound: calls on a stack
          MaxOps,      \* bound: calls made by user code
          MaxTime      \* bound: the clock

Thread == Worker \cup Main
Depth == 1..MaxDepth
Forever == -1
Immediate == -1     \* trigger time of a message that was not delayed

ASSUME ThreadAssumption == Worker \cap Main = {} /\ NoThread \notin Thread
ASSUME BoundAssumption == MaxDepth \in Nat /\ MaxDepth >= 2 /\ MaxOps \in Nat /\ MaxTime \in Nat
ASSUME DelayAssumption == Delays \subseteq Nat
ASSUME NumbersAssumption == Numbers \in Nat \ {0}
ASSUME LoopAssumption == NestedLoops \in BOOLEAN
ASSUME BacklogAssumption == Backlog = {} \/ \E h \in Handler : Backlog = {h}

SendLabels == {"sendwake", "check", "sendrecv", "sendwait"}
Labels == {"run", "post", "wake", "send", "stop", "join",
           "recv", "scan", "pop", "got", "quit", "wait"} \cup SendLabels

Message == [handler : Handler \cup {Dispose}, trigger : Int, num : Nat, pos : Nat]
Sent == [from : Thread, depth : Depth, handler : Handler, pos : Nat]

\* One call on a stack.  at: where it stands.  peer: the thread it is about.
\* handler, when: message of a post; in a loop, when is the next deadline.
\* ready, waited: locals of Send.  from, fromDepth: whom the handler answers
\* when it returns.  cur, end: msCurrent of Get, msEnd of ProcessMessages.
Frame == [at : Labels, peer : Thread \cup {NoThread}, handler : Handler \cup {Dispose},
          when : Int, ready : BOOLEAN, waited : BOOLEAN,
          from : Thread \cup {NoThread}, fromDepth : Depth, cur : Int, end : Int]

VARIABLES msgq_, dmsgq_, dmsgq_next_num_, sendlist_, stop_,
          appended,   \* entries ever appended to the lists of a thread
          signaled,   \* event_status_ of the NullSocketServer's event
          frame, depth,
          joined,     \* workers whose Join() is over
          clock, ops

queues == <<msgq_, dmsgq_, dmsgq_next_num_, sendlist_, appended>>
stacks == <<frame, depth>>
vars == <<queues, stop_, signaled, stacks, joined, clock, ops>>

User == [at |-> "run", peer |-> NoThread, handler |-> Dispose, when |-> 0,
         ready |-> FALSE, waited |-> FALSE, from |-> NoThread, fromDepth |-> 1,
         cur |-> 0, end |-> Forever]

\* A frame above the top of a stack.
Free == User

\* ProcessMessages() is entered: Get() takes the time.
Loop(end) == [User EXCEPT !.at = "recv", !.cur = clock, !.end = end]

Init ==
  /\ msgq_ = [t \in Thread |-> IF t \in Main THEN {} ELSE
                {[handler |-> h, trigger |-> Immediate, num |-> 0, pos |-> 0] : h \in Backlog}]
  /\ dmsgq_ = [t \in Thread |-> {}]
  /\ dmsgq_next_num_ = [t \in Thread |-> 0]
  /\ sendlist_ = [t \in Thread |-> {}]
  /\ appended = [t \in Thread |-> 1]
  /\ stop_ = [t \in Thread |-> FALSE]
  /\ signaled = [t \in Thread |-> t \in Worker /\ Backlog # {}]
  /\ clock = 0
  /\ frame = [t \in Thread |-> [d \in Depth |->
                IF d = 1 /\ t \in Worker THEN [User EXCEPT !.at = "recv"] ELSE Free]]
  /\ depth = [t \in Thread |-> 1]
  /\ joined = {}
  /\ ops = 0
------------------------------------------------------------------------------
(* Stacks. *)

Top(t) == frame[t][depth[t]]
At(t, label) == depth[t] > 0 /\ Top(t).at = label

Becomes(t, f) == /\ frame' = [frame EXCEPT ![t][depth[t]] = f]
                 /\ UNCHANGED depth
Goto(t, label) == Becomes(t, [Top(t) EXCEPT !.at = label])

\* Dispatch(): OnMessage runs on top of the calling frame, which becomes f.
Dispatch(t, f, handling) ==
  /\ frame' = [frame EXCEPT ![t][depth[t]] = f, ![t][depth[t] + 1] = handling]
  /\ depth' = [depth EXCEPT ![t] = @ + 1]

PopFrame(t) == /\ frame' = [frame EXCEPT ![t][depth[t]] = Free]
               /\ depth' = [depth EXCEPT ![t] = @ - 1]

\* User code of thread t makes a call.
Call(t) == At(t, "run") /\ ops < MaxOps /\ ops' = ops + 1
------------------------------------------------------------------------------
(* Post, PostDelayed, Dispose: the test of stop_, the push, the WakeUp. *)

CallPost(t) ==
  /\ Call(t)
  /\ \E u \in Thread, h \in Handler \cup {Dispose}, d \in Delays \cup {Immediate} :
       /\ h = Dispose => d = Immediate
       /\ d # Immediate => clock + d <= MaxTime
       /\ IF stop_[u] THEN UNCHANGED stacks
          ELSE Becomes(t, [Top(t) EXCEPT !.at = "post", !.peer = u, !.handler = h,
                             !.when = IF d = Immediate THEN Immediate ELSE clock + d])
  /\ UNCHANGED <<queues, stop_, signaled, joined, clock>>

PushPost(t) ==
  /\ At(t, "post")
  /\ LET f == Top(t)
         u == f.peer
     IN  IF f.when = Immediate
         THEN /\ msgq_' = [msgq_ EXCEPT ![u] = @ \cup
                    {[handler |-> f.handler, trigger |-> Immediate, num |-> 0,
                      pos |-> appended[u]]}]
              /\ appended' = [appended EXCEPT ![u] = @ + 1]
              /\ UNCHANGED <<dmsgq_, dmsgq_next_num_>>
         ELSE /\ dmsgq_' = [dmsgq_ EXCEPT ![u] = @ \cup
                    {[handler |-> f.handler, trigger |-> f.when,
                      num |-> dmsgq_next_num_[u], pos |-> 0]}]
              /\ dmsgq_next_num_' = [dmsgq_next_num_ EXCEPT ![u] = @ + 1]
              /\ UNCHANGED <<msgq_, appended>>
  /\ Goto(t, "wake")
  /\ UNCHANGED <<sendlist_, stop_, signaled, joined, clock, ops>>

\* WakeUpSocketServer() of Post, Send and Quit.
WakeUp(t) ==
  /\ \E l \in {"wake", "sendwake", "stop"} : At(t, l)
  /\ signaled' = [signaled EXCEPT ![Top(t).peer] = TRUE]
  /\ IF At(t, "wake")
     THEN Becomes(t, [User EXCEPT !.from = Top(t).from, !.fromDepth = Top(t).fromDepth])
     ELSE Goto(t, IF At(t, "sendwake") THEN "check" ELSE "join")
  /\ UNCHANGED <<queues, stop_, joined, clock, ops>>
------------------------------------------------------------------------------
(* Send and ReceiveSends. *)

\* Mutant: the handler answers the call below the one that waits.
HandlingCaller(s) == [User EXCEPT !.from = s.from, !.fromDepth = s.depth - 1]

\* A frame that runs the handler of a sent message.
Handling(s) == [User EXCEPT !.from = s.from, !.fromDepth = s.depth]

CallSend(t) ==
  /\ Call(t)
  /\ depth[t] < MaxDepth
  /\ \E u \in Thread, h \in Handler :
       IF stop_[u] THEN UNCHANGED stacks
       ELSE IF u = t THEN Dispatch(t, Top(t), User)
       ELSE Becomes(t, [Top(t) EXCEPT !.at = "send", !.peer = u, !.handler = h])
  /\ UNCHANGED <<queues, stop_, signaled, joined, clock>>

PushSend(t) ==
  /\ At(t, "send")
  /\ LET u == Top(t).peer
     IN  /\ sendlist_' = [sendlist_ EXCEPT ![u] = @ \cup
                {[from |-> t, depth |-> depth[t], handler |-> Top(t).handler,
                  pos |-> appended[u]]}]
         /\ appended' = [appended EXCEPT ![u] = @ + 1]
  /\ Goto(t, "sendwake")
  /\ UNCHANGED <<msgq_, dmsgq_, dmsgq_next_num_, stop_, signaled, joined, clock, ops>>

\* Mutant: Send returns without waking its own socket server again.
CheckReadyNoWakeUp(t) ==
  /\ At(t, "check")
  /\ IF Top(t).ready
     THEN Becomes(t, [User EXCEPT !.from = Top(t).from, !.fromDepth = Top(t).fromDepth])
     ELSE Goto(t, "sendrecv")
  /\ UNCHANGED <<queues, stop_, signaled, joined, clock, ops>>

\* Mutant: Send returns after its first wait, whoever ended it.
CheckReadyOnce(t) ==
  /\ At(t, "check")
  /\ IF Top(t).ready \/ Top(t).waited
     THEN /\ Becomes(t, [User EXCEPT !.from = Top(t).from, !.fromDepth = Top(t).fromDepth])
          /\ signaled' = [signaled EXCEPT ![t] = @ \/ Top(t).waited]
     ELSE /\ Goto(t, "sendrecv")
          /\ UNCHANGED signaled
  /\ UNCHANGED <<queues, stop_, joined, clock, ops>>

\* ready is read under crit_; a Send that has waited wakes its own thread.
CheckReady(t) ==
  /\ At(t, "check")
  /\ IF Top(t).ready
     THEN /\ Becomes(t, [User EXCEPT !.from = Top(t).from, !.fromDepth = Top(t).fromDepth])
          /\ signaled' = [signaled EXCEPT ![t] = @ \/ Top(t).waited]
     ELSE /\ Goto(t, "sendrecv")
          /\ UNCHANGED signaled
  /\ UNCHANGED <<queues, stop_, joined, clock, ops>>

SendWait(t) ==
  /\ At(t, "sendwait")
  /\ signaled[t]
  /\ signaled' = [signaled EXCEPT ![t] = FALSE]
  /\ Becomes(t, [Top(t) EXCEPT !.at = "check", !.waited = TRUE])
  /\ UNCHANGED <<queues, stop_, joined, clock, ops>>

\* PopSendMessageFromThread: the first entry sent by source, or by anyone.
Receivable(t, f) ==
  {s \in sendlist_[t] : f.at = "sendrecv" => s.from = f.peer}

\* Where a frame in ReceiveSendsFromThread goes on when the list is exhausted.
Received(f) == [f EXCEPT !.at = IF @ = "recv" THEN "scan" ELSE "sendwait"]

FirstOf(S) == CHOOSE e \in S : \A f \in S : e.pos <= f.pos

\* ReceiveSendsFromThread begins.
ReceiveSends(t) ==
  /\ At(t, "recv") \/ At(t, "sendrecv")
  /\ LET todo == Receivable(t, Top(t))
     IN  IF todo = {}
         THEN Becomes(t, Received(Top(t))) /\ UNCHANGED sendlist_
         ELSE /\ Dispatch(t, Top(t), Handling(FirstOf(todo)))
              /\ sendlist_' = [sendlist_ EXCEPT ![t] = @ \ {FirstOf(todo)}]
  /\ UNCHANGED <<msgq_, dmsgq_, dmsgq_next_num_, appended, stop_, signaled, joined, clock, ops>>

\* A handler returns to the loop or the Send that dispatched it.
HandlerReturns(t) ==
  /\ At(t, "run") /\ depth[t] > 1 /\ Top(t).from = NoThread
  /\ PopFrame(t)
  /\ UNCHANGED <<queues, stop_, signaled, joined, clock, ops>>

\* The handler of a sent message returns: under crit_ the sender is answered
\* and woken, and the next entry of the list is taken.
SendHandled(t) ==
  /\ At(t, "run") /\ Top(t).from # NoThread
  /\ LET s == Top(t)
         caller == frame[t][depth[t] - 1]
         todo == Receivable(t, caller)
         answered == [frame EXCEPT ![s.from][s.fromDepth].ready = TRUE]
     IN  /\ signaled' = [signaled EXCEPT ![s.from] = TRUE]
         /\ IF todo = {}
            THEN /\ frame' = [answered EXCEPT ![t][depth[t]] = Free,
                                              ![t][depth[t] - 1] = Received(caller)]
                 /\ depth' = [depth EXCEPT ![t] = @ - 1]
                 /\ UNCHANGED sendlist_
            ELSE /\ frame' = [answered EXCEPT ![t][depth[t]] =
                                Handling(FirstOf(todo))]
                 /\ sendlist_' = [sendlist_ EXCEPT ![t] = @ \ {FirstOf(todo)}]
                 /\ UNCHANGED depth
  /\ UNCHANGED <<msgq_, dmsgq_, dmsgq_next_num_, appended, stop_, joined, clock, ops>>
------------------------------------------------------------------------------
(* ProcessMessages and Get. *)

CallProcessMessages(t) ==
  /\ Call(t)
  /\ depth[t] + 1 < MaxDepth
  /\ NestedLoops \/ (t \in Main /\ depth[t] = 1)
  /\ Dispatch(t, Top(t), Loop(clock))
  /\ UNCHANGED <<queues, stop_, signaled, joined, clock>>

\* num_ of a delayed message, a uint32_t that wraps.
Number(m) == m.num % Numbers

\* Mutant: of messages due at the same time the last one posted is taken first.
SoonerLast(a, b) ==
  a.trigger < b.trigger \/ (a.trigger = b.trigger /\ Number(a) > Number(b))

\* DelayedMessage::operator<, turned round: a is taken before b.
Sooner(a, b) ==
  a.trigger < b.trigger \/ (a.trigger = b.trigger /\ Number(a) < Number(b))

Due(t) == {m \in dmsgq_[t] : m.trigger <= Top(t).cur}

\* cmsDelayNext, as the trigger time of the next delayed message.
NextTrigger(S) == IF S = {} THEN Forever
                  ELSE (CHOOSE m \in S : \A n \in S : m.trigger <= n.trigger).trigger

\* A message is taken off the queue, if there is one: a dispose message is
\* deleted here, another one is dispatched.
Take(t, q, f) ==
  IF q = {} THEN /\ msgq_' = [msgq_ EXCEPT ![t] = {}]
                 /\ Becomes(t, [f EXCEPT !.at = "quit"])
  ELSE /\ msgq_' = [msgq_ EXCEPT ![t] = q \ {FirstOf(q)}]
       /\ IF FirstOf(q).handler = Dispose
          THEN Becomes(t, [f EXCEPT !.at = "pop"])
          ELSE Dispatch(t, [f EXCEPT !.at = "got"], User)

\* The orders in which the priority queue may give up the due messages: the
\* soonest first; two with the same time and the same number either way.
Orders(t) == {p \in [Due(t) -> 0..(Cardinality(Due(t)) - 1)] :
                \A m, n \in Due(t) : /\ p[m] = p[n] => m = n
                                     /\ Sooner(n, m) => p[n] < p[m]}

\* The due messages, in such an order, behind those that are in the queue.
Moved(t, p) == {[m EXCEPT !.pos = appended[t] + p[m]] : m \in Due(t)}

\* The first pass moves the due messages.
Scan(t) ==
  /\ At(t, "scan")
  /\ dmsgq_' = [dmsgq_ EXCEPT ![t] = @ \ Due(t)]
  /\ appended' = [appended EXCEPT ![t] = @ + Cardinality(Due(t))]
  /\ \E p \in Orders(t) : Take(t, msgq_[t] \cup Moved(t, p),
                                 [Top(t) EXCEPT !.when = NextTrigger(dmsgq_'[t])])
  /\ UNCHANGED <<dmsgq_next_num_, sendlist_, stop_, signaled, joined, clock, ops>>

NextPass(t) ==
  /\ At(t, "pop")
  /\ Take(t, msgq_[t], Top(t))
  /\ UNCHANGED <<dmsgq_, dmsgq_next_num_, sendlist_, appended, stop_, signaled, joined, clock, ops>>

\* Mutant: kForever is taken for a time that is over.
LoopAgainNoForever(t) ==
  /\ At(t, "got")
  /\ LET f == Top(t)
     IN  IF clock > f.end THEN PopFrame(t)
         ELSE Becomes(t, Loop(f.end))
  /\ UNCHANGED <<queues, stop_, signaled, joined, clock, ops>>

\* After a dispatch: ProcessMessages() looks at the time and calls Get() again.
LoopAgain(t) ==
  /\ At(t, "got")
  /\ LET f == Top(t)
     IN  IF f.end # Forever /\ clock > f.end THEN PopFrame(t)
         ELSE Becomes(t, Loop(f.end))
  /\ UNCHANGED <<queues, stop_, signaled, joined, clock, ops>>

\* cmsNext, the shorter of the delay wait and the asked wait, from now on.
Deadline(f) ==
  LET waits == {x \in {f.when, f.end} : x # Forever}
  IN  IF waits = {} THEN Forever
      ELSE clock + (CHOOSE x \in waits : \A y \in waits : x <= y) - f.cur

\* Mutant: the event is reset before the wait.
CheckQuitResets(t) ==
  /\ At(t, "quit")
  /\ IF stop_[t] THEN PopFrame(t)
     ELSE Becomes(t, [Top(t) EXCEPT !.at = "wait", !.when = Deadline(Top(t))])
  /\ signaled' = [signaled EXCEPT ![t] = FALSE]
  /\ UNCHANGED <<queues, stop_, joined, clock, ops>>

\* IsQuitting(): Get() returns false and so does ProcessMessages().
CheckQuit(t) ==
  /\ At(t, "quit")
  /\ IF stop_[t] THEN PopFrame(t)
     ELSE Becomes(t, [Top(t) EXCEPT !.at = "wait", !.when = Deadline(Top(t))])
  /\ UNCHANGED <<queues, stop_, signaled, joined, clock, ops>>

\* Mutant: Get() returns false after every wait.
AwakeReturns(t) == PopFrame(t)

\* Wait() is over, by a signal or by its time: Get() returns false if the
\* asked time is over, and looks at the queues again otherwise.
Awake(t) ==
  IF Top(t).end # Forever /\ clock >= Top(t).end THEN PopFrame(t)
  ELSE Becomes(t, Loop(Top(t).end))

WaitSignal(t) ==
  /\ At(t, "wait")
  /\ signaled[t]
  /\ signaled' = [signaled EXCEPT ![t] = FALSE]
  /\ Awake(t)
  /\ UNCHANGED <<queues, stop_, joined, clock, ops>>

\* pthread_cond_timedwait reports the timeout and leaves the event alone.  The
\* last tick of the bounded clock stands for every later time.
WaitTimeout(t) ==
  /\ At(t, "wait")
  /\ ~signaled[t] /\ Top(t).when # Forever
  /\ clock >= Top(t).when \/ clock = MaxTime
  /\ Awake(t)
  /\ UNCHANGED <<queues, stop_, signaled, joined, clock, ops>>
------------------------------------------------------------------------------
(* Clear, Quit, Stop, Start. *)

\* Mutant: the senders of the messages deleted are not answered.
CallClearNoAnswer(t) ==
  /\ Call(t)
  /\ \E u \in Thread, h \in Handler :
       LET Others(S) == {e \in S : e.handler # h}
       IN  /\ sendlist_' = [sendlist_ EXCEPT ![u] = Others(@)]
           /\ msgq_' = [msgq_ EXCEPT ![u] = Others(@)]
           /\ dmsgq_' = [dmsgq_ EXCEPT ![u] = Others(@)]
  /\ UNCHANGED <<dmsgq_next_num_, appended, stop_, signaled, stacks, joined, clock>>

\* Thread::Clear: senders are answered, messages deleted.
CallClear(t) ==
  /\ Call(t)
  /\ \E u \in Thread, h \in Handler :
       LET Answered(x, d) == \E s \in sendlist_[u] :
             s.handler = h /\ s.from = x /\ s.depth = d
           Others(S) == {e \in S : e.handler # h}
       IN  /\ sendlist_' = [sendlist_ EXCEPT ![u] = Others(@)]
           /\ msgq_' = [msgq_ EXCEPT ![u] = Others(@)]
           /\ dmsgq_' = [dmsgq_ EXCEPT ![u] = Others(@)]
           /\ frame' = [x \in Thread |-> [d \in Depth |->
                          [frame[x][d] EXCEPT !.ready = @ \/ Answered(x, d)]]]
           /\ signaled' = [x \in Thread |-> signaled[x] \/ \E d \in Depth : Answered(x, d)]
  /\ UNCHANGED <<dmsgq_next_num_, appended, stop_, depth, joined, clock>>

\* Quit(), by which a thread may also stop itself.
CallQuit(t) ==
  /\ Call(t)
  /\ \E u \in Worker \ joined :
       /\ stop_' = [stop_ EXCEPT ![u] = TRUE]
       /\ Becomes(t, [Top(t) EXCEPT !.at = "wake", !.peer = u])
  /\ UNCHANGED <<queues, signaled, joined, clock>>

\* Stop(), called by main, the owner of the workers: Quit() and Join().
CallStop(t) ==
  /\ Call(t) /\ t \in Main /\ depth[t] = 1
  /\ \E u \in Worker \ joined :
       /\ stop_' = [stop_ EXCEPT ![u] = TRUE]
       /\ Becomes(t, [Top(t) EXCEPT !.at = "stop", !.peer = u])
  /\ UNCHANGED <<queues, signaled, joined, clock>>

Join(t) ==
  /\ At(t, "join")
  /\ depth[Top(t).peer] = 0
  /\ joined' = joined \cup {Top(t).peer}
  /\ Becomes(t, User)
  /\ UNCHANGED <<queues, stop_, signaled, clock, ops>>

\* Start(): Restart() and a new run of the loop.
CallStart(t) ==
  /\ Call(t) /\ t \in Main /\ depth[t] = 1
  /\ \E u \in joined :
       /\ joined' = joined \ {u}
       /\ stop_' = [stop_ EXCEPT ![u] = FALSE]
       /\ frame' = [frame EXCEPT ![u][1] = Loop(Forever)]
       /\ depth' = [depth EXCEPT ![u] = 1]
  /\ UNCHANGED <<queues, signaled, clock>>
------------------------------------------------------------------------------
Tick == /\ clock < MaxTime
        /\ clock' = clock + 1
        /\ UNCHANGED <<queues, stop_, signaled, stacks, joined, ops>>

Calls(t) ==
  \/ CallPost(t) \/ CallSend(t) \/ CallClear(t) \/ CallProcessMessages(t)
  \/ CallQuit(t) \/ CallStop(t) \/ CallStart(t)

Step(t) ==
  \/ PushPost(t) \/ WakeUp(t)
  \/ PushSend(t) \/ CheckReady(t) \/ SendWait(t)
  \/ ReceiveSends(t) \/ HandlerReturns(t) \/ SendHandled(t)
  \/ Scan(t) \/ NextPass(t) \/ LoopAgain(t)
  \/ CheckQuit(t) \/ WaitSignal(t) \/ WaitTimeout(t)
  \/ Join(t)

Next == Tick \/ \E t \in Thread : Calls(t) \/ Step(t)

Spec == Init /\ [][Next]_vars

\* A thread inside a call goes on, handlers return, and time passes.
FairSpec == Spec /\ WF_vars(Tick) /\ \A t \in Thread : WF_vars(Step(t))
------------------------------------------------------------------------------
(* Properties. *)

\* Ranges of the queues and of the calls on the stacks.
TypeOK ==
  /\ msgq_ \in [Thread -> SUBSET Message]
  /\ dmsgq_ \in [Thread -> SUBSET Message]
  /\ dmsgq_next_num_ \in [Thread -> Nat]
  /\ sendlist_ \in [Thread -> SUBSET Sent]
  /\ appended \in [Thread -> Nat]
  /\ stop_ \in [Thread -> BOOLEAN] /\ signaled \in [Thread -> BOOLEAN]
  /\ frame \in [Thread -> [Depth -> Frame]]
  /\ depth \in [Thread -> 0..MaxDepth]
  /\ joined \in SUBSET Worker
  /\ clock \in Nat /\ ops \in Nat

\* Frame d of thread t is a Send to u whose message is on its way.
Sending(t, d, u) == /\ d <= depth[t]
                    /\ frame[t][d].at \in SendLabels /\ frame[t][d].peer = u

\* A thread is about to signal t's event.
WakeUpComing(t) == \E u \in Thread : \E l \in {"wake", "sendwake", "stop"} :
                     At(u, l) /\ Top(u).peer = t

\* No wake-up is lost, however pushes, the scan of the queue and the wait
\* interleave: a thread that sleeps, or is going to, while a message, a sent
\* message or the order to stop is there for it, has its event signaled or
\* about to be; one with delayed messages does not sleep without a deadline.
NoLostWakeUp ==
  \A t \in Thread :
    At(t, "wait") =>
      \/ signaled[t] \/ WakeUpComing(t)
      \/ /\ msgq_[t] = {} /\ sendlist_[t] = {} /\ ~stop_[t]
         /\ dmsgq_[t] # {} => Top(t).when # Forever

\* A thread that waits in Send does not sleep on once it was answered, even
\* when the wake-up was taken by a Send made in a handler that ran during the
\* wait, nor while the thread it waits for has sent it something to handle.
SenderWakesUp ==
  \A t \in Thread :
    At(t, "sendwait") =>
      /\ Top(t).ready => signaled[t]
      /\ (\E s \in sendlist_[t] : s.from = Top(t).peer) => signaled[t] \/ WakeUpComing(t)

\* A sent message is somewhere, once: while its sender waits unanswered it is
\* in the target's list or its handler is running on the target, and every
\* entry and handler points at the ready flag of such a Send, so that nobody
\* writes to the stack of a Send that has returned.
SendsAccountedFor ==
  \A t \in Thread, u \in Thread :
    /\ \A d \in Depth :
         Sending(t, d, u) /\ ~frame[t][d].ready =>
           \/ \E s \in sendlist_[u] : s.from = t /\ s.depth = d
           \/ \E e \in 1..depth[u] : frame[u][e].from = t /\ frame[u][e].fromDepth = d
    /\ \A s \in sendlist_[u] :
         s.from = t => Sending(t, s.depth, u) /\ ~frame[t][s.depth].ready
    /\ \A e \in 1..depth[u] :
         frame[u][e].from = t =>
           Sending(t, frame[u][e].fromDepth, u) /\ ~frame[t][frame[u][e].fromDepth].ready

\* The Sends that have not returned, those in a send list and those whose
\* handler runs: sender, place on its stack, target.
Calling == {p \in Thread \X Depth : p[2] <= depth[p[1]]}
InSend == {<<p[1], p[2], frame[p[1]][p[2]].peer>> :
             p \in {q \in Calling : frame[q[1]][q[2]].at \in SendLabels}}
InList == UNION {{<<s.from, s.depth, u>> : s \in sendlist_[u]} : u \in Thread}
InHandler == {<<frame[p[1]][p[2]].from, frame[p[1]][p[2]].fromDepth, p[1]>> :
                p \in {q \in Calling : frame[q[1]][q[2]].from # NoThread}}

Meeting == INSTANCE Rendezvous WITH Party <- Thread, Place <- Depth,
                                    waiting <- InSend, asked <- InList, served <- InHandler

\* Sends are a rendezvous, although the message is popped under one lock, its
\* handler runs without it and the answer is given under it again, and although
\* handlers that run during a wait send on: a Send returns only after its
\* message was handled, once, by its target, or cleared while it was in the
\* list, and nobody answers a Send that he was not sent.
SendsRendezvous == Meeting!RendezvousSpec

\* "Messages with the same trigger time are processed in num_ (FIFO) order":
\* no delayed message is overtaken by one posted after it and due later, in the
\* queue or between the queue and those still delayed, nor by one due at the
\* same time unless the number has wrapped between the two ("only messages with
\* identical times will be misordered").
Overtakes(b, a) ==
  /\ a.trigger # Immediate /\ b.trigger # Immediate /\ a.num < b.num
  /\ \/ a.trigger < b.trigger
     \/ a.trigger = b.trigger /\ a.num \div Numbers = b.num \div Numbers
DueOrder ==
  \A t \in Thread : \A a \in msgq_[t] :
    /\ \A b \in msgq_[t] : a.pos < b.pos => ~Overtakes(a, b)
    /\ \A b \in dmsgq_[t] : ~Overtakes(a, b)

\* "any pending Sends and *ready* Posts will be delivered before Get (or
\* Peek) returns false" on a queue that was stopped.
PendingDelivered ==
  [][\A t \in Thread :
       At(t, "quit") /\ depth'[t] < depth[t] => sendlist_[t] = {} /\ msgq_[t] = {}]_vars

\* The Sends to a worker return, unless the worker or the sender was told to
\* stop, or the worker itself waits for a third thread.
SendsReturn ==
  \A u \in Worker : \A t \in Thread \ {u} :
    (\E d \in Depth : Sending(t, d, u)) ~>
      \/ \A d \in Depth : ~Sending(t, d, u)
      \/ stop_[t] \/ stop_[u]
      \/ \E e \in Depth, x \in Thread \ {t} : Sending(u, e, x)

\* A worker that is not stopped empties its queues, unless a Send of its own
\* holds it up.
QueueDrains ==
  \A u \in Worker :
    msgq_[u] # {} \/ dmsgq_[u] # {} ~>
      \/ msgq_[u] = {} /\ dmsgq_[u] = {}
      \/ stop_[u] \/ \E e \in Depth, x \in Thread : Sending(u, e, x)
==============================================================================
