---------------------------- MODULE ThreadsProofs ----------------------------
(***************************************************************************)
(* Threads for any number of threads, handlers, delays and calls, whatever *)
(* the bounds.  Four invariants, three of them on top of Core:             *)
(*                                                                         *)
(*   Core      types; which call may stand on which (Shape); and each Send *)
(*             that waits is in one send list or has one handler running   *)
(*             for it (Account, Once);                                     *)
(*   Watchful  a thread on its way to the wait knows that its queues are   *)
(*             empty, or its event is signaled or about to be;             *)
(*   Answered  a Send that was answered finds its event signaled, or a     *)
(*             Send above it has taken the wake-up and hands it on;        *)
(*   Ordered   what was appended later has the higher number, and no       *)
(*             delayed message is overtaken.                               *)
(*                                                                         *)
(* From Core it also follows that Sends are a rendezvous (Rendezvous.tla). *)
(***************************************************************************)
EXTENDS Threads, FiniteSetTheorems, WellFoundedInduction, TLAPS

LoopLabels == {"recv", "scan", "pop", "got", "quit", "wait"}
Times == Nat \cup {Forever}

\* What is true of a call on its own: call e of thread t is f,
\* and the time is now.
FrameOK(t, e, f, now) ==
  /\ f.at \in SendLabels \cup {"send"} => f.peer \in Thread \ {t} /\ e < MaxDepth
  /\ f.at = "send" => f.handler \in Handler
  /\ f.at \in {"post", "wake", "stop", "join"} => f.peer \in Thread
  /\ f.at \in {"stop", "join"} => e = 1 /\ f.peer \in Worker
  /\ f.at \notin SendLabels => ~f.ready /\ ~f.waited
  /\ f.at \in LoopLabels =>
       /\ f.from = NoThread /\ f.fromDepth = 1 /\ e < MaxDepth
       /\ f.cur \in 0..now /\ f.end \in Times
       /\ ~NestedLoops => (t \in Worker /\ e = 1) \/ (t \in Main /\ e = 2)
  /\ f.at \in {"post", "pop", "quit"} => f.when \in Times

\* A call f and the call g above it: g answers a sender when f receives sends,
\* and the one f has sent to when f is a Send.
Pair(f, g) ==
  /\ f.at \in {"run", "got", "recv", "sendrecv"}
  /\ g.from # NoThread <=> f.at \in {"recv", "sendrecv"}
  /\ f.at = "sendrecv" => g.from = f.peer

Shape ==
  \A t \in Thread :
    /\ \A e \in 1..depth[t] : FrameOK(t, e, frame[t][e], clock)
    /\ \A e \in 2..depth[t] : Pair(frame[t][e - 1], frame[t][e])
    /\ depth[t] > 0 => frame[t][1].from = NoThread
    /\ t \in joined => depth[t] = 0

\* The delayed messages are finitely many and have a time.
Delayed ==
  \A t \in Thread : IsFiniteSet(dmsgq_[t]) /\ \A m \in dmsgq_[t] : m.trigger \in Nat

Base == TypeOK /\ Shape /\ Delayed

\* Call d of thread t is a Send to u that has not been answered, and call e of
\* thread u is the handler that will answer call d of thread t.
Open(t, d, u) == Sending(t, d, u) /\ ~frame[t][d].ready
Runs(u, e, t, d) == e <= depth[u] /\ frame[u][e].from = t /\ frame[u][e].fromDepth = d

\* A Send is unanswered as long as it is in the list or its handler runs.
Account ==
  \A t \in Thread, u \in Thread, d \in Depth :
    Open(t, d, u) <=> \/ \E s \in sendlist_[u] : s.from = t /\ s.depth = d
                      \/ \E e \in Depth : Runs(u, e, t, d)

\* It is in one place.
Once ==
  \A t \in Thread, u \in Thread, d \in Depth :
    /\ \A s \in sendlist_[u], r \in sendlist_[u] :
         s.from = t /\ s.depth = d /\ r.from = t /\ r.depth = d => s = r
    /\ \A e \in Depth, h \in Depth : Runs(u, e, t, d) /\ Runs(u, h, t, d) => e = h
    /\ \A s \in sendlist_[u], e \in Depth : ~(s.from = t /\ s.depth = d /\ Runs(u, e, t, d))

Core == Base /\ Account /\ Once

USE ThreadAssumption, BoundAssumption, DelayAssumption, LoopAssumption, BacklogAssumption
------------------------------------------------------------------------------
(* Stacks: what changes, call by call. *)

\* The call on top of the stack of t becomes f.
Replaced(t, f) ==
  /\ depth' = depth
  /\ frame' \in [Thread -> [Depth -> Frame]]
  /\ frame'[t][depth[t]] = f
  /\ \A x \in Thread, d \in Depth : x # t \/ d # depth[t] => frame'[x][d] = frame[x][d]

\* The call on top becomes f, and g is put on it.
Pushed(t, f, g) ==
  /\ depth' = [depth EXCEPT ![t] = @ + 1]
  /\ frame' \in [Thread -> [Depth -> Frame]]
  /\ frame'[t][depth[t]] = f /\ frame'[t][depth[t] + 1] = g
  /\ \A x \in Thread, d \in Depth :
       x # t \/ d \notin {depth[t], depth[t] + 1} => frame'[x][d] = frame[x][d]

\* The call on top returns.
Popped(t) ==
  /\ depth' = [depth EXCEPT ![t] = @ - 1]
  /\ frame' \in [Thread -> [Depth -> Frame]]
  /\ \A x \in Thread, d \in Depth : x # t \/ d # depth[t] => frame'[x][d] = frame[x][d]

LEMMA UserFrame == User \in Frame
BY DEF User, Frame, Labels, SendLabels, Depth, Forever

LEMMA TopFrame ==
  ASSUME TypeOK, NEW t \in Thread, depth[t] > 0
  PROVE  Top(t) \in Frame /\ depth[t] \in Depth
BY DEF TypeOK, Top, Depth

LEMMA BecomesReplaces ==
  ASSUME TypeOK, NEW t \in Thread, depth[t] > 0, NEW f \in Frame, Becomes(t, f)
  PROVE  Replaced(t, f)
BY TopFrame DEF Becomes, Replaced, TypeOK

LEMMA DispatchPushes ==
  ASSUME TypeOK, NEW t \in Thread, depth[t] > 0, depth[t] < MaxDepth,
         NEW f \in Frame, NEW g \in Frame, Dispatch(t, f, g)
  PROVE  Pushed(t, f, g)
<1>1. depth[t] \in Depth /\ depth[t] + 1 \in Depth /\ depth[t] # depth[t] + 1
  BY DEF TypeOK, Depth
<1>2. frame \in [Thread -> [Depth -> Frame]]
  BY DEF TypeOK
<1>3. frame' = [frame EXCEPT ![t] = [[frame[t] EXCEPT ![depth[t]] = f] EXCEPT ![depth[t] + 1] = g]]
  BY <1>1, <1>2 DEF Dispatch
<1> QED
  BY <1>1, <1>2, <1>3 DEF Dispatch, Pushed

LEMMA PopFramePops ==
  ASSUME TypeOK, NEW t \in Thread, depth[t] > 0, PopFrame(t)
  PROVE  Popped(t)
BY TopFrame, UserFrame DEF PopFrame, Popped, TypeOK, Free

\* Every set of numbers has a least one, and so a list its first entry.
LEMMA Least ==
  ASSUME NEW S \in SUBSET Nat, S # {}
  PROVE  \E n \in S : \A m \in S : n <= m
<1> DEFINE R == OpToRel(<, Nat)
<1>1. R = {ss \in Nat \X Nat : ss[1] < ss[2]}
  BY DEF OpToRel
<1>2. IsWellFoundedOn(R, Nat)
  BY NatLessThanWellFounded
<1> HIDE DEF R
<1>3. PICK n \in S : \A m \in S : ~(<<m, n>> \in R)
  BY <1>2, WFMin, Zenon
<1>4. \A m \in S : ~(m < n)
  BY <1>1, <1>3
<1> QED
  BY <1>4

LEMMA FirstExists ==
  ASSUME NEW S, S # {}, \A e \in S : e.pos \in Nat
  PROVE  FirstOf(S) \in S
<1> DEFINE P == {e.pos : e \in S}
<1>1. PICK n \in P : \A m \in P : n <= m
  <2>1. P # {} /\ P \in SUBSET Nat
    OBVIOUS
  <2> QED
    BY <2>1, Least
<1>2. PICK e \in S : e.pos = n
  BY <1>1
<1>3. \A f \in S : e.pos <= f.pos
  BY <1>1, <1>2
<1> QED
  BY <1>3 DEF FirstOf

LEMMA TriggerExists ==
  ASSUME NEW S, \A m \in S : m.trigger \in Nat
  PROVE  NextTrigger(S) \in Times /\ (S # {} => NextTrigger(S) \in Nat)
<1>1. CASE S = {}
  BY <1>1 DEF NextTrigger, Times
<1>2. CASE S # {}
  <2> DEFINE P == {m.trigger : m \in S}
  <2>1. PICK n \in P : \A k \in P : n <= k
    <3>1. P # {} /\ P \in SUBSET Nat
      BY <1>2
    <3> QED
      BY <3>1, Least
  <2>2. PICK m \in S : m.trigger = n
    BY <2>1
  <2>3. \A k \in S : m.trigger <= k.trigger
    BY <2>1, <2>2
  <2>4. (CHOOSE x \in S : \A k \in S : x.trigger <= k.trigger) \in S
    BY <2>3
  <2> QED
    BY <1>2, <2>4 DEF NextTrigger, Times
<1> QED
  BY <1>1, <1>2
------------------------------------------------------------------------------
(* Shape, for the three ways a stack changes. *)

LEMMA ReplacedShape ==
  ASSUME Base, NEW t \in Thread, depth[t] > 0, NEW f \in Frame, Replaced(t, f),
         FrameOK(t, depth[t], f, clock), f.from = Top(t).from, UNCHANGED <<joined, clock>>
  PROVE  Shape'
<1>1. frame \in [Thread -> [Depth -> Frame]] /\ depth \in [Thread -> 0..MaxDepth]
  BY DEF Base, TypeOK
<1>2. Shape
  BY DEF Base
<1>3. ASSUME NEW x \in Thread, x # t PROVE
        /\ \A e \in 1..depth'[x] : FrameOK(x, e, frame'[x][e], clock')
        /\ \A e \in 2..depth'[x] : Pair(frame'[x][e - 1], frame'[x][e])
        /\ depth'[x] > 0 => frame'[x][1].from = NoThread
        /\ x \in joined' => depth'[x] = 0
  <2>1. depth'[x] = depth[x] /\ \A e \in 1..depth[x] : frame'[x][e] = frame[x][e]
    BY <1>1, <1>3 DEF Replaced, Depth
  <2> QED
    BY <1>1, <1>2, <1>3, <2>1 DEF Shape
<1>4. /\ \A e \in 1..depth'[t] : FrameOK(t, e, frame'[t][e], clock')
      /\ \A e \in 2..depth'[t] : Pair(frame'[t][e - 1], frame'[t][e])
      /\ depth'[t] > 0 => frame'[t][1].from = NoThread
      /\ t \notin joined
  <2>1. depth'[t] = depth[t] /\ depth[t] \in Depth
    BY <1>1 DEF Replaced, Depth
  <2>2. \A e \in 1..(depth[t] - 1) : frame'[t][e] = frame[t][e]
    BY <1>1 DEF Replaced, Depth
  <2>3. frame'[t][depth[t]] = f
    BY DEF Replaced
  <2>4. ASSUME NEW e \in 2..depth[t] PROVE Pair(frame'[t][e - 1], frame'[t][e])
    <3>1. Pair(frame[t][e - 1], frame[t][e]) /\ frame'[t][e - 1] = frame[t][e - 1]
      BY <1>1, <1>2, <2>1, <2>2 DEF Shape
    <3>2. CASE e = depth[t]
      BY <2>3, <3>1, <3>2 DEF Pair, Top
    <3>3. CASE e # depth[t]
      <4>1. e \in 1..(depth[t] - 1)
        BY <2>1, <3>3 DEF Depth
      <4> QED
        BY <2>2, <3>1, <4>1
    <3> QED
      BY <3>2, <3>3
  <2>5. ASSUME NEW e \in 1..depth[t] PROVE FrameOK(t, e, frame'[t][e], clock')
    <3>1. CASE e = depth[t]
      BY <2>3, <3>1
    <3>2. CASE e \in 1..(depth[t] - 1)
      BY <1>2, <2>2, <3>2 DEF Shape
    <3> QED
      BY <2>1, <3>1, <3>2 DEF Depth
  <2>6. frame'[t][1].from = NoThread /\ t \notin joined
    BY <1>1, <1>2, <2>1, <2>2, <2>3 DEF Shape, Top
  <2> QED
    BY <2>1, <2>4, <2>5, <2>6
<1> QED
  BY <1>2, <1>3, <1>4 DEF Shape

LEMMA PushedShape ==
  ASSUME Base, NEW t \in Thread, depth[t] > 0, depth[t] < MaxDepth,
         NEW f \in Frame, NEW g \in Frame, Pushed(t, f, g),
         FrameOK(t, depth[t], f, clock), FrameOK(t, depth[t] + 1, g, clock),
         f.from = Top(t).from, Pair(f, g), UNCHANGED <<joined, clock>>
  PROVE  Shape'
<1>1. frame \in [Thread -> [Depth -> Frame]] /\ depth \in [Thread -> 0..MaxDepth]
  BY DEF Base, TypeOK
<1>2. Shape
  BY DEF Base
<1>3. ASSUME NEW x \in Thread, x # t PROVE
        /\ \A e \in 1..depth'[x] : FrameOK(x, e, frame'[x][e], clock')
        /\ \A e \in 2..depth'[x] : Pair(frame'[x][e - 1], frame'[x][e])
        /\ depth'[x] > 0 => frame'[x][1].from = NoThread
        /\ x \in joined' => depth'[x] = 0
  <2>1. depth'[x] = depth[x] /\ \A e \in 1..depth[x] : frame'[x][e] = frame[x][e]
    BY <1>1, <1>3 DEF Pushed, Depth
  <2> QED
    BY <1>1, <1>2, <1>3, <2>1 DEF Shape
<1>4. /\ \A e \in 1..depth'[t] : FrameOK(t, e, frame'[t][e], clock')
      /\ \A e \in 2..depth'[t] : Pair(frame'[t][e - 1], frame'[t][e])
      /\ depth'[t] > 0 => frame'[t][1].from = NoThread
      /\ t \notin joined
  <2>1. depth'[t] = depth[t] + 1 /\ depth[t] \in Depth
    BY <1>1 DEF Pushed, Depth
  <2>2. ASSUME NEW e \in 1..(depth[t] - 1) PROVE frame'[t][e] = frame[t][e]
    <3>1. e \in Depth /\ e \notin {depth[t], depth[t] + 1}
      BY <1>1 DEF Depth
    <3> QED
      BY <3>1 DEF Pushed
  <2>3. frame'[t][depth[t]] = f /\ frame'[t][depth[t] + 1] = g
    BY DEF Pushed
  <2>4. ASSUME NEW e \in 2..depth[t] PROVE Pair(frame'[t][e - 1], frame'[t][e])
    <3>1. Pair(frame[t][e - 1], frame[t][e]) /\ frame'[t][e - 1] = frame[t][e - 1]
      BY <1>1, <1>2, <2>1, <2>2 DEF Shape
    <3>2. CASE e = depth[t]
      BY <2>3, <3>1, <3>2 DEF Pair, Top
    <3>3. CASE e # depth[t]
      <4>1. e \in 1..(depth[t] - 1)
        BY <2>1, <3>3 DEF Depth
      <4> QED
        BY <2>2, <3>1, <4>1
    <3> QED
      BY <3>2, <3>3
  <2>5. \A e \in 1..depth[t] : FrameOK(t, e, frame'[t][e], clock')
    BY <1>1, <1>2, <2>1, <2>2, <2>3, SMTT(30) DEF Shape
  <2>6. frame'[t][1].from = NoThread /\ t \notin joined
    BY <1>1, <1>2, <2>1, <2>2, <2>3 DEF Shape, Top
  <2>7. ASSUME NEW e \in 1..depth'[t] PROVE FrameOK(t, e, frame'[t][e], clock')
    BY <1>1, <2>1, <2>3, <2>5
  <2>8. ASSUME NEW e \in 2..depth'[t] PROVE Pair(frame'[t][e - 1], frame'[t][e])
    <3>1. CASE e = depth[t] + 1
      BY <1>1, <2>3, <3>1
    <3>2. CASE e \in 2..depth[t]
      BY <2>4, <3>2
    <3> QED
      BY <2>1, <3>1, <3>2 DEF Depth
  <2> QED
    BY <2>6, <2>7, <2>8
<1> QED
  BY <1>2, <1>3, <1>4 DEF Shape

LEMMA PoppedShape ==
  ASSUME Base, NEW t \in Thread, depth[t] > 0, Popped(t), UNCHANGED <<joined, clock>>
  PROVE  Shape'
<1>1. frame \in [Thread -> [Depth -> Frame]] /\ depth \in [Thread -> 0..MaxDepth]
  BY DEF Base, TypeOK
<1>2. Shape
  BY DEF Base
<1>3. ASSUME NEW x \in Thread, x # t PROVE
        /\ \A e \in 1..depth'[x] : FrameOK(x, e, frame'[x][e], clock')
        /\ \A e \in 2..depth'[x] : Pair(frame'[x][e - 1], frame'[x][e])
        /\ depth'[x] > 0 => frame'[x][1].from = NoThread
        /\ x \in joined' => depth'[x] = 0
  <2>1. depth'[x] = depth[x] /\ \A e \in 1..depth[x] : frame'[x][e] = frame[x][e]
    BY <1>1, <1>3 DEF Popped, Depth
  <2> QED
    BY <1>1, <1>2, <1>3, <2>1, SMTT(30) DEF Shape
<1>4. /\ \A e \in 1..depth'[t] : FrameOK(t, e, frame'[t][e], clock')
      /\ \A e \in 2..depth'[t] : Pair(frame'[t][e - 1], frame'[t][e])
      /\ depth'[t] > 0 => frame'[t][1].from = NoThread
      /\ t \notin joined
  <2>1. depth'[t] = depth[t] - 1 /\ depth[t] \in Depth
    BY <1>1 DEF Popped, Depth
  <2>2. \A e \in 1..(depth[t] - 1) : frame'[t][e] = frame[t][e]
    BY <1>1 DEF Popped, Depth
  <2>3. \A e \in 1..(depth[t] - 1) : FrameOK(t, e, frame'[t][e], clock')
    BY <1>1, <1>2, <2>1, <2>2 DEF Shape
  <2>4. ASSUME NEW e \in 2..(depth[t] - 1) PROVE Pair(frame'[t][e - 1], frame'[t][e])
    BY <1>1, <1>2, <2>1, <2>2 DEF Shape
  <2>5. depth'[t] > 0 => frame'[t][1].from = NoThread
    BY <1>1, <1>2, <2>1, <2>2 DEF Shape
  <2>6. t \notin joined
    BY <1>1, <1>2, <2>1 DEF Shape
  <2> QED
    BY <2>1, <2>3, <2>4, <2>5, <2>6
<1> QED
  BY <1>2, <1>3, <1>4 DEF Shape

LEMMA TopOK ==
  ASSUME Base, NEW t \in Thread, depth[t] > 0
  PROVE  /\ Top(t) \in Frame /\ depth[t] \in Depth
         /\ FrameOK(t, depth[t], Top(t), clock)
<1>1. Top(t) \in Frame /\ depth[t] \in Depth
  BY TopFrame DEF Base
<1> QED
  BY <1>1 DEF Base, Shape, Top, Depth
------------------------------------------------------------------------------
(* Steps that change no more than the stack of their own thread. *)

\* Two calls are the same Send on its way, or none.
SameSend(f, g) ==
  /\ (f.at \in SendLabels /\ ~f.ready) <=> (g.at \in SendLabels /\ ~g.ready)
  /\ f.at \in SendLabels /\ ~f.ready => g.peer = f.peer

\* Call f may take the place of the call on top of the stack of t.
Stands(t, f) ==
  /\ f \in Frame /\ FrameOK(t, depth[t], f, clock)
  /\ f.from = Top(t).from /\ f.fromDepth = Top(t).fromDepth
  /\ SameSend(Top(t), f)

\* Call g may be put on it.
Opens(t, g) ==
  /\ depth[t] < MaxDepth
  /\ g \in Frame /\ FrameOK(t, depth[t] + 1, g, clock)
  /\ g.from = NoThread /\ g.at \notin SendLabels

Local(t) ==
  \/ UNCHANGED stacks
  \/ \E f : Replaced(t, f) /\ Stands(t, f)
  \/ \E f, g : Pushed(t, f, g) /\ Stands(t, f) /\ f.at \in {"run", "got"} /\ Opens(t, g)
  \/ Popped(t) /\ Top(t).from = NoThread /\ Top(t).at \notin SendLabels

\* The three ways, for calls with the right contents.
LEMMA BecomesLocal ==
  ASSUME Base, NEW t \in Thread, depth[t] > 0, NEW f, Stands(t, f), Becomes(t, f)
  PROVE  Replaced(t, f) /\ Local(t)
BY BecomesReplaces DEF Stands, Local, Base

LEMMA DispatchLocal ==
  ASSUME Base, NEW t \in Thread, depth[t] > 0, NEW f, NEW g, Stands(t, f),
         f.at \in {"run", "got"}, Opens(t, g), Dispatch(t, f, g)
  PROVE  Pushed(t, f, g) /\ Local(t)
BY DispatchPushes DEF Stands, Opens, Local, Base

LEMMA PopLocal ==
  ASSUME Base, NEW t \in Thread, depth[t] > 0, PopFrame(t), Top(t).from = NoThread,
         Top(t).at \notin SendLabels
  PROVE  Popped(t) /\ Local(t)
BY PopFramePops DEF Local, Base

LEMMA LocalShape ==
  ASSUME Base, NEW t \in Thread, depth[t] > 0, Local(t), UNCHANGED <<joined, clock>>
  PROVE  /\ Shape'
         /\ frame' \in [Thread -> [Depth -> Frame]]
         /\ depth' \in [Thread -> 0..MaxDepth]
<1>1. frame \in [Thread -> [Depth -> Frame]] /\ depth \in [Thread -> 0..MaxDepth]
  BY DEF Base, TypeOK
<1>2. CASE UNCHANGED stacks
  BY <1>1, <1>2 DEF stacks, Base, Shape
<1>3. CASE \E f : Replaced(t, f) /\ Stands(t, f)
  BY <1>1, <1>3, ReplacedShape DEF Stands, Replaced
<1>4. CASE \E f, g : Pushed(t, f, g) /\ Stands(t, f) /\ f.at \in {"run", "got"} /\ Opens(t, g)
  <2>1. PICK f, g : Pushed(t, f, g) /\ Stands(t, f) /\ f.at \in {"run", "got"} /\ Opens(t, g)
    BY <1>4
  <2>2. Pair(f, g)
    BY <2>1 DEF Pair, Opens
  <2>3. Shape'
    BY <2>1, <2>2, PushedShape DEF Stands, Opens
  <2> QED
    BY <1>1, <2>1, <2>3 DEF Pushed, Opens
<1>5. CASE Popped(t)
  <2>1. Shape'
    BY <1>5, PoppedShape
  <2>2. depth[t] - 1 \in 0..MaxDepth
    BY <1>1
  <2> QED
    BY <1>1, <1>5, <2>1, <2>2 DEF Popped
<1> QED
  BY <1>2, <1>3, <1>4, <1>5 DEF Local

\* A step that leaves the links between Sends and handlers alone.
LEMMA SameLinks ==
  ASSUME Account, Once, UNCHANGED sendlist_,
         \A x \in Thread, d \in Depth, u \in Thread : Open(x, d, u)' <=> Open(x, d, u),
         \A u \in Thread, e \in Depth, x \in Thread, d \in Depth :
            Runs(u, e, x, d)' <=> Runs(u, e, x, d)
  PROVE  Account' /\ Once'
<1>1. Account'
  BY DEF Account
<1>2. Once'
  BY DEF Once
<1> QED
  BY <1>1, <1>2

LEMMA LocalKeeps ==
  ASSUME Core, NEW t \in Thread, depth[t] > 0, Local(t)
  PROVE  /\ \A x \in Thread, d \in Depth, u \in Thread : Open(x, d, u)' <=> Open(x, d, u)
         /\ \A u \in Thread, e \in Depth, x \in Thread, d \in Depth :
              Runs(u, e, x, d)' <=> Runs(u, e, x, d)
<1>1. frame \in [Thread -> [Depth -> Frame]] /\ depth \in [Thread -> 0..MaxDepth]
  BY DEF Core, Base, TypeOK
<1>2. depth[t] \in Depth
  BY <1>1 DEF Depth
<1>3. CASE UNCHANGED stacks
  <2>1. \A x \in Thread, d \in Depth, u \in Thread : Open(x, d, u)' <=> Open(x, d, u)
    BY <1>3 DEF stacks, Open, Sending
  <2>2. \A u \in Thread, e \in Depth, x \in Thread, d \in Depth :
            Runs(u, e, x, d)' <=> Runs(u, e, x, d)
    BY <1>3 DEF stacks, Runs
  <2> QED
    BY <2>1, <2>2
<1>4. CASE \E f : Replaced(t, f) /\ Stands(t, f)
  <2>1. PICK f : Replaced(t, f) /\ Stands(t, f)
    BY <1>4
  <2>2. \A x \in Thread, d \in Depth, u \in Thread : Open(x, d, u)' <=> Open(x, d, u)
    BY <1>1, <1>2, <2>1 DEF Replaced, Stands, SameSend, Open, Sending, Top
  <2>3. \A u \in Thread, e \in Depth, x \in Thread, d \in Depth :
            Runs(u, e, x, d)' <=> Runs(u, e, x, d)
    BY <1>1, <1>2, <2>1 DEF Replaced, Stands, Runs, Top
  <2> QED
    BY <2>2, <2>3
<1>5. CASE \E f, g : Pushed(t, f, g) /\ Stands(t, f) /\ f.at \in {"run", "got"} /\ Opens(t, g)
  <2>1. PICK f, g : Pushed(t, f, g) /\ Stands(t, f) /\ Opens(t, g)
    BY <1>5
  <2>2. \A x \in Thread, d \in Depth :
          \/ x = t /\ d = depth[t] /\ frame'[x][d] = f
          \/ x = t /\ d = depth[t] + 1 /\ frame'[x][d] = g
          \/ frame'[x][d] = frame[x][d] /\ (d <= depth'[x] <=> d <= depth[x])
    BY <1>1, <1>2, <2>1 DEF Pushed, Depth
  <2>3. depth'[t] = depth[t] + 1
    BY <1>1, <2>1 DEF Pushed
  <2>4. \A x \in Thread, d \in Depth, u \in Thread : Open(x, d, u)' <=> Open(x, d, u)
    BY <1>1, <1>2, <2>1, <2>2, <2>3 DEF Stands, Opens, SameSend, Open, Sending, Top, Depth
  <2>5. \A u \in Thread, e \in Depth, x \in Thread, d \in Depth :
            Runs(u, e, x, d)' <=> Runs(u, e, x, d)
    BY <1>1, <1>2, <2>1, <2>2, <2>3, SMTT(30) DEF Stands, Opens, Runs, Top, Depth
  <2> QED
    BY <2>4, <2>5
<1>6. CASE Popped(t) /\ Top(t).from = NoThread /\ Top(t).at \notin SendLabels
  <2>1. \A x \in Thread, d \in Depth :
          \/ x = t /\ d = depth[t] /\ ~(d <= depth'[x])
          \/ frame'[x][d] = frame[x][d] /\ (d <= depth'[x] <=> d <= depth[x])
    BY <1>1, <1>2, <1>6 DEF Popped, Depth
  <2>2. \A x \in Thread, d \in Depth, u \in Thread : Open(x, d, u)' <=> Open(x, d, u)
    BY <1>1, <1>2, <1>6, <2>1 DEF Open, Sending, Top
  <2>3. \A u \in Thread, e \in Depth, x \in Thread, d \in Depth :
            Runs(u, e, x, d)' <=> Runs(u, e, x, d)
    BY <1>1, <1>2, <1>6, <2>1 DEF Runs, Top
  <2> QED
    BY <2>2, <2>3
<1> QED
  BY <1>3, <1>4, <1>5, <1>6 DEF Local

LEMMA LocalLinks ==
  ASSUME Core, NEW t \in Thread, depth[t] > 0, Local(t), UNCHANGED sendlist_
  PROVE  Account' /\ Once'
BY LocalKeeps, SameLinks DEF Core
------------------------------------------------------------------------------
(* Each of these steps in turn. *)

Finished(t) == [User EXCEPT !.from = Top(t).from, !.fromDepth = Top(t).fromDepth]

LEMMA FinishedStands ==
  ASSUME Base, NEW t \in Thread, depth[t] > 0,
         Top(t).at \notin LoopLabels, Top(t).at \in SendLabels => Top(t).ready
  PROVE  Stands(t, Finished(t))
BY TopOK, UserFrame DEF Finished, Stands, SameSend, FrameOK, User, Frame, SendLabels,
   LoopLabels,
                        Labels

\* User code enters a call.
LEMMA CallStands ==
  ASSUME Base, NEW t \in Thread, depth[t] > 0, Top(t).at = "run", NEW f \in Frame,
         f.at \in {"post", "send", "wake", "stop"}, f.peer \in Thread,
         f.at = "post" => f.when \in Times,
         f.at = "send" => f.peer # t /\ f.handler \in Handler /\ depth[t] < MaxDepth,
         f.at = "stop" => depth[t] = 1 /\ f.peer \in Worker,
         f.ready = Top(t).ready, f.waited = Top(t).waited,
         f.from = Top(t).from, f.fromDepth = Top(t).fromDepth
  PROVE  Stands(t, f)
<1>1. ~f.ready /\ ~f.waited
  BY TopOK DEF FrameOK, SendLabels
<1> QED
  BY <1>1 DEF Stands, SameSend, FrameOK, SendLabels, LoopLabels

LEMMA CallPostLocal ==
  ASSUME Base, NEW t \in Thread, CallPost(t)
  PROVE  /\ depth[t] > 0 /\ Local(t)
         /\ \/ UNCHANGED stacks
            \/ \E f : Replaced(t, f) /\ f.at = "post"
<1>1. At(t, "run") /\ depth[t] > 0 /\ Top(t).at = "run"
  BY DEF CallPost, Call, At
<1>2. PICK u \in Thread, h \in Handler \cup {Dispose}, d \in Delays \cup {Immediate} :
        IF stop_[u] THEN UNCHANGED stacks
        ELSE Becomes(t, [Top(t) EXCEPT !.at = "post", !.peer = u, !.handler = h,
                           !.when = IF d = Immediate THEN Immediate ELSE clock + d])
  BY DEF CallPost
<1> DEFINE w == IF d = Immediate THEN Immediate ELSE clock + d
           f == [Top(t) EXCEPT !.at = "post", !.peer = u, !.handler = h, !.when = w]
<1>3. w \in Times /\ w \in Int
  BY DEF Base, TypeOK, Immediate, Forever, Times
<1> HIDE DEF w
<1>4. Stands(t, f) /\ f.at = "post"
  <2>1. /\ f \in Frame /\ f.at = "post" /\ f.peer = u /\ f.when = w
        /\ f.ready = Top(t).ready /\ f.waited = Top(t).waited
        /\ f.from = Top(t).from /\ f.fromDepth = Top(t).fromDepth
    BY <1>1, <1>3, TopOK, ZenonT(40) DEF Frame, Labels
  <2> QED
    BY <1>1, <1>3, <2>1, CallStands
<1> HIDE DEF f
<1>5. CASE stop_[u]
  BY <1>1, <1>2, <1>5 DEF Local
<1>6. CASE ~stop_[u]
  <2>1. Becomes(t, f)
    BY <1>2, <1>6 DEF f, w
  <2> QED
    BY <1>1, <1>4, <2>1, BecomesLocal
<1> QED
  BY <1>5, <1>6

LEMMA PushPostLocal ==
  ASSUME Base, NEW t \in Thread, PushPost(t)
  PROVE  /\ depth[t] > 0 /\ Local(t)
         /\ Replaced(t, [Top(t) EXCEPT !.at = "wake"])
<1> DEFINE f == [Top(t) EXCEPT !.at = "wake"]
<1>1. depth[t] > 0 /\ Top(t).at = "post" /\ Becomes(t, f)
  BY DEF PushPost, At, Goto
<1>2. Stands(t, f)
  BY <1>1, TopOK DEF Stands, SameSend, FrameOK, Frame, SendLabels, LoopLabels, Labels
<1> QED
  BY <1>1, <1>2, BecomesLocal

LEMMA WakeUpLocal ==
  ASSUME Base, NEW t \in Thread, WakeUp(t)
  PROVE  /\ depth[t] > 0 /\ Local(t)
         /\ Top(t).peer \in Thread
         /\ \E f \in Frame :
              /\ Replaced(t, f) /\ f.at \in {"run", "check", "join"}
              /\ Top(t).at \in SendLabels =>
                   f.at = "check" /\ f.waited = Top(t).waited /\ f.peer = Top(t).peer
              /\ f.at = "check" => Top(t).at \in SendLabels
<1>1. depth[t] > 0 /\ Top(t).at \in {"wake", "sendwake", "stop"}
  BY DEF WakeUp, At
<1>2. Top(t).peer \in Thread
  BY <1>1, TopOK DEF FrameOK, SendLabels
<1>3. CASE Top(t).at = "wake"
  <2>1. Becomes(t, Finished(t)) /\ Finished(t).at = "run"
    BY <1>1, <1>3 DEF WakeUp, At, Finished, User
  <2>2. Stands(t, Finished(t))
    BY <1>1, <1>3, FinishedStands DEF LoopLabels, SendLabels
  <2> QED
    BY <1>1, <1>2, <1>3, <2>1, <2>2, BecomesLocal DEF SendLabels, Stands
<1>4. CASE Top(t).at # "wake"
  <2> DEFINE f == [Top(t) EXCEPT !.at = IF At(t, "sendwake") THEN "check" ELSE "join"]
  <2>1. Becomes(t, f)
    BY <1>1, <1>4 DEF WakeUp, At, Goto
  <2>2. Stands(t, f) /\ f.at \in {"check", "join"}
    BY <1>1, <1>4, TopOK DEF At, Stands, SameSend, FrameOK, Frame, SendLabels, LoopLabels,
       Labels
  <2>3. /\ Top(t).at \in SendLabels =>
             f.at = "check" /\ f.waited = Top(t).waited /\ f.peer = Top(t).peer
        /\ f.at = "check" => Top(t).at \in SendLabels
    BY <1>1, <1>4, TopOK DEF At, Frame, SendLabels
  <2> HIDE DEF f
  <2> QED
    BY <1>1, <1>2, <2>1, <2>2, <2>3, BecomesLocal DEF Stands
<1> QED
  BY <1>3, <1>4

LEMMA CallSendLocal ==
  ASSUME Base, NEW t \in Thread, CallSend(t)
  PROVE  /\ depth[t] > 0 /\ Local(t)
         /\ \/ UNCHANGED stacks
            \/ Pushed(t, Top(t), User)
            \/ \E f : Replaced(t, f) /\ f.at = "send"
<1>1. depth[t] > 0 /\ Top(t).at = "run" /\ depth[t] < MaxDepth
  BY DEF CallSend, Call, At
<1>2. PICK u \in Thread, h \in Handler :
       IF stop_[u] THEN UNCHANGED stacks
       ELSE IF u = t THEN Dispatch(t, Top(t), User)
       ELSE Becomes(t, [Top(t) EXCEPT !.at = "send", !.peer = u, !.handler = h])
  BY DEF CallSend
<1> DEFINE f == [Top(t) EXCEPT !.at = "send", !.peer = u, !.handler = h]
<1>3. CASE stop_[u]
  BY <1>1, <1>2, <1>3 DEF Local
<1>4. CASE ~stop_[u] /\ u = t
  <2>1. Stands(t, Top(t)) /\ Opens(t, User)
    BY <1>1, TopOK, UserFrame DEF Stands, SameSend, Opens, FrameOK, User, SendLabels,
       LoopLabels
  <2> QED
    BY <1>1, <1>2, <1>4, <2>1, DispatchLocal
<1>5. CASE ~stop_[u] /\ u # t
  <2>1. Stands(t, f) /\ f.at = "send"
    <3>1. /\ f \in Frame /\ f.at = "send" /\ f.peer = u /\ f.handler = h
          /\ f.ready = Top(t).ready /\ f.waited = Top(t).waited
          /\ f.from = Top(t).from /\ f.fromDepth = Top(t).fromDepth
      BY <1>1, TopOK, ZenonT(40) DEF Frame, Labels
    <3> QED
      BY <1>1, <1>5, <3>1, CallStands
  <2> QED
    BY <1>1, <1>2, <1>5, <2>1, BecomesLocal
<1> QED
  BY <1>3, <1>4, <1>5

LEMMA CheckReadyLocal ==
  ASSUME Base, NEW t \in Thread, CheckReady(t)
  PROVE  /\ depth[t] > 0 /\ Local(t) /\ Top(t).at = "check"
         /\ \/ Top(t).ready /\ Replaced(t, Finished(t)) /\ Finished(t).at = "run"
            \/ ~Top(t).ready /\ Replaced(t, [Top(t) EXCEPT !.at = "sendrecv"])
<1>1. depth[t] > 0 /\ Top(t).at = "check"
  BY DEF CheckReady, At
<1>2. CASE Top(t).ready
  <2>1. Becomes(t, Finished(t)) /\ Finished(t).at = "run"
    BY <1>1, <1>2 DEF CheckReady, Finished, User
  <2>2. Stands(t, Finished(t))
    BY <1>1, <1>2, FinishedStands DEF LoopLabels
  <2> QED
    BY <1>1, <1>2, <2>1, <2>2, BecomesLocal
<1>3. CASE ~Top(t).ready
  <2> DEFINE f == [Top(t) EXCEPT !.at = "sendrecv"]
  <2>1. Becomes(t, f)
    BY <1>1, <1>3 DEF CheckReady, Goto
  <2>2. Stands(t, f)
    BY <1>1, <1>3, TopOK DEF Stands, SameSend, FrameOK, Frame, SendLabels, LoopLabels,
       Labels
  <2> QED
    BY <1>1, <1>3, <2>1, <2>2, BecomesLocal
<1> QED
  BY <1>2, <1>3

LEMMA SendWaitLocal ==
  ASSUME Base, NEW t \in Thread, SendWait(t)
  PROVE  /\ depth[t] > 0 /\ Local(t) /\ Top(t).at = "sendwait"
         /\ Replaced(t, [Top(t) EXCEPT !.at = "check", !.waited = TRUE])
<1> DEFINE f == [Top(t) EXCEPT !.at = "check", !.waited = TRUE]
<1>1. depth[t] > 0 /\ Top(t).at = "sendwait" /\ Becomes(t, f)
  BY DEF SendWait, At
<1>2. Stands(t, f)
  <2>1. /\ f \in Frame /\ f.at = "check" /\ f.peer = Top(t).peer /\ f.ready = Top(t).ready
        /\ f.from = Top(t).from /\ f.fromDepth = Top(t).fromDepth
    BY <1>1, TopOK, ZenonT(40) DEF Frame, Labels, SendLabels
  <2> QED
    BY <1>1, <2>1, TopOK DEF Stands, SameSend, FrameOK, SendLabels, LoopLabels
<1> QED
  BY <1>1, <1>2, BecomesLocal

LEMMA ReceivedStands ==
  ASSUME NEW t \in Thread, NEW e \in Depth, NEW f \in Frame, FrameOK(t, e, f, clock),
         f.at \in {"recv", "sendrecv"}
  PROVE  /\ Received(f) \in Frame /\ FrameOK(t, e, Received(f), clock)
         /\ Received(f).at = IF f.at = "recv" THEN "scan" ELSE "sendwait"
         /\ Received(f).from = f.from /\ Received(f).fromDepth = f.fromDepth
         /\ Received(f).peer = f.peer /\ Received(f).ready = f.ready
         /\ Received(f).waited = f.waited /\ SameSend(f, Received(f))
BY DEF Received, SameSend, FrameOK, Frame, SendLabels, LoopLabels, Labels

LEMMA HandlerReturnsLocal ==
  ASSUME Base, NEW t \in Thread, HandlerReturns(t)
  PROVE  depth[t] > 0 /\ Local(t) /\ Popped(t) /\ Top(t).at = "run" /\ Top(t).from = NoThread
BY PopLocal DEF HandlerReturns, At, SendLabels

LEMMA LoopFrame ==
  ASSUME Base, NEW end \in Int
  PROVE  /\ Loop(end) \in Frame /\ Loop(end).at = "recv" /\ Loop(end).cur = clock
         /\ Loop(end).end = end /\ Loop(end).from = NoThread /\ Loop(end).fromDepth = 1
         /\ ~Loop(end).ready /\ ~Loop(end).waited
<1>1. clock \in Int /\ "recv" \in Labels /\ User \in Frame
  BY UserFrame DEF Base, TypeOK, Labels
<1>2. /\ Loop(end) \in Frame /\ Loop(end).at = "recv" /\ Loop(end).cur = clock
      /\ Loop(end).end = end /\ Loop(end).from = User.from
      /\ Loop(end).fromDepth = User.fromDepth
      /\ Loop(end).ready = User.ready /\ Loop(end).waited = User.waited
  BY <1>1 DEF Loop, Frame
<1>3. User.from = NoThread /\ User.fromDepth = 1 /\ ~User.ready /\ ~User.waited
  BY DEF User
<1> QED
  BY <1>2, <1>3

LEMMA LoopStands ==
  ASSUME Base, NEW t \in Thread, depth[t] > 0, Top(t).at \in LoopLabels
  PROVE  Stands(t, Loop(Top(t).end)) /\ Loop(Top(t).end).at = "recv"
<1>1. /\ Top(t).end \in Int /\ Top(t).end \in Times /\ clock \in Nat
  BY TopOK DEF FrameOK, Frame, Base, TypeOK
<1> DEFINE f == Loop(Top(t).end)
<1>2. /\ f \in Frame /\ f.at = "recv" /\ f.cur = clock
      /\ f.end = Top(t).end /\ f.from = NoThread /\ f.fromDepth = 1 /\ ~f.ready /\ ~f.waited
  BY <1>1, LoopFrame
<1> HIDE DEF f
<1>3. FrameOK(t, depth[t], f, clock)
  BY <1>1, <1>2, TopOK DEF FrameOK, LoopLabels, SendLabels
<1>4. Top(t).from = NoThread /\ Top(t).fromDepth = 1
  BY TopOK DEF FrameOK
<1> QED
  BY <1>2, <1>3, <1>4 DEF Stands, SameSend, SendLabels, LoopLabels, f

LEMMA CallProcessMessagesLocal ==
  ASSUME Base, NEW t \in Thread, CallProcessMessages(t)
  PROVE  depth[t] > 0 /\ Local(t) /\ Pushed(t, Top(t), Loop(clock)) /\ Loop(clock).at = "recv"
<1>1. depth[t] > 0 /\ Top(t).at = "run" /\ depth[t] + 1 < MaxDepth
      /\ Dispatch(t, Top(t), Loop(clock)) /\ (NestedLoops \/ (t \in Main /\ depth[t] = 1))
  BY DEF CallProcessMessages, Call, At
<1>2. clock \in Nat /\ depth[t] \in Nat
  BY DEF Base, TypeOK
<1>3. Stands(t, Top(t))
  BY <1>1, TopOK DEF Stands, SameSend
<1>4. /\ Loop(clock) \in Frame /\ Loop(clock).at = "recv" /\ Loop(clock).cur = clock
      /\ Loop(clock).end = clock /\ Loop(clock).from = NoThread /\ Loop(clock).fromDepth = 1
      /\ ~Loop(clock).ready /\ ~Loop(clock).waited
  BY <1>2, LoopFrame
<1>5. Opens(t, Loop(clock))
  BY <1>1, <1>2, <1>4 DEF Opens, FrameOK, SendLabels, LoopLabels, Times
<1> QED
  BY <1>1, <1>3, <1>4, <1>5, DispatchLocal

LEMMA PopLoop ==
  ASSUME Base, NEW t \in Thread, depth[t] > 0, Top(t).at \in LoopLabels, PopFrame(t)
  PROVE  Local(t) /\ Popped(t)
BY TopOK, PopLocal DEF FrameOK, LoopLabels, SendLabels

LEMMA LoopAgainLocal ==
  ASSUME Base, NEW t \in Thread, LoopAgain(t)
  PROVE  /\ depth[t] > 0 /\ Local(t) /\ Top(t).at = "got"
         /\ Popped(t) \/ \E f : Replaced(t, f) /\ f.at = "recv"
<1>1. depth[t] > 0 /\ Top(t).at = "got" /\ Top(t).at \in LoopLabels
      /\ (PopFrame(t) \/ Becomes(t, Loop(Top(t).end)))
  BY DEF LoopAgain, At, LoopLabels
<1> QED
  BY <1>1, PopLoop, LoopStands, BecomesLocal

LEMMA AwakeLocal ==
  ASSUME Base, NEW t \in Thread, depth[t] > 0, Top(t).at = "wait", Awake(t)
  PROVE  Local(t) /\ (Popped(t) \/ \E f : Replaced(t, f) /\ f.at = "recv")
<1>1. Top(t).at \in LoopLabels
  BY DEF LoopLabels
<1>2. PopFrame(t) \/ Becomes(t, Loop(Top(t).end))
  BY DEF Awake
<1> QED
  BY <1>1, <1>2, PopLoop, LoopStands, BecomesLocal

\* Take(), for the loop f with the deadline put in.
LEMMA TakeLocal ==
  ASSUME Base, NEW t \in Thread, depth[t] > 0, Top(t).at \in {"scan", "pop"}, NEW w \in Times,
         NEW f, f = [Top(t) EXCEPT !.when = w], NEW q \in SUBSET Message, Take(t, q, f)
  PROVE  /\ Local(t)
         /\ msgq_' \in [Thread -> SUBSET Message] /\ msgq_'[t] \subseteq q
         /\ \A x \in Thread : x # t => msgq_'[x] = msgq_[x]
         /\ \/ msgq_'[t] = {} /\ \E g : g.at = "quit" /\ g.when = w /\ Replaced(t, g)
            \/ \E g : g.at = "pop" /\ g.when = w /\ Replaced(t, g)
            \/ \E g : g.at = "got" /\ Pushed(t, g, User)
<1> DEFINE g(l) == [f EXCEPT !.at = l]
<1>1. /\ f \in Frame /\ f.peer = Top(t).peer /\ f.ready = Top(t).ready
      /\ f.waited = Top(t).waited /\ f.from = Top(t).from /\ f.fromDepth = Top(t).fromDepth
      /\ f.when = w /\ f.cur = Top(t).cur /\ f.end = Top(t).end
  BY TopOK DEF Frame, Times, Forever
<1>2. ASSUME NEW l \in {"quit", "pop", "got"} PROVE Stands(t, g(l)) /\ g(l).at = l /\ g(l).when = w
  <2>1. /\ g(l) \in Frame /\ g(l).at = l /\ g(l).peer = Top(t).peer /\ g(l).ready = Top(t).ready
        /\ g(l).waited = Top(t).waited /\ g(l).from = Top(t).from
        /\ g(l).fromDepth = Top(t).fromDepth
        /\ g(l).when = w /\ g(l).cur = Top(t).cur /\ g(l).end = Top(t).end
    BY <1>1 DEF Frame, Labels
  <2>2. FrameOK(t, depth[t], g(l), clock)
    BY <2>1, TopOK DEF FrameOK, LoopLabels, SendLabels
  <2> QED
    BY <2>1, <2>2 DEF Stands, SameSend, SendLabels
<1>3. msgq_ \in [Thread -> SUBSET Message]
  BY DEF Base, TypeOK
<1>4. CASE q = {}
  <2>1. msgq_' = [msgq_ EXCEPT ![t] = {}] /\ Becomes(t, g("quit"))
    BY <1>4 DEF Take
  <2>2. Local(t) /\ Replaced(t, g("quit")) /\ g("quit").at = "quit" /\ g("quit").when = w
    BY <1>2, <2>1, BecomesLocal
  <2> HIDE DEF g
  <2> QED
    BY <1>3, <1>4, <2>1, <2>2
<1>5. CASE q # {}
  <2>1. msgq_' = [msgq_ EXCEPT ![t] = q \ {FirstOf(q)}]
    BY <1>5 DEF Take
  <2>2. CASE FirstOf(q).handler = Dispose
    <3>1. Becomes(t, g("pop"))
      BY <1>5, <2>2 DEF Take
    <3>2. Local(t) /\ Replaced(t, g("pop")) /\ g("pop").at = "pop" /\ g("pop").when = w
      BY <1>2, <3>1, BecomesLocal
    <3> HIDE DEF g
    <3> QED
      BY <1>3, <2>1, <3>2
  <2>3. CASE FirstOf(q).handler # Dispose
    <3>1. Dispatch(t, g("got"), User)
      BY <1>5, <2>3 DEF Take
    <3>2. Opens(t, User)
      BY TopOK, UserFrame DEF Opens, FrameOK, User, SendLabels, LoopLabels
    <3>3. g("got").at = "got"
      BY <1>1 DEF Frame
    <3>4. Local(t) /\ Pushed(t, g("got"), User)
      BY <1>2, <3>1, <3>2, <3>3, DispatchLocal
    <3> HIDE DEF g
    <3> QED
      BY <1>3, <2>1, <3>3, <3>4
  <2> QED
    BY <2>2, <2>3
<1> QED
  BY <1>4, <1>5

\* The deadline is a time, and not Forever when a message is delayed.
LEMMA DeadlineIsTime ==
  ASSUME Base, NEW f \in Frame, f.when \in Times, f.end \in Times, f.cur \in 0..clock
  PROVE  Deadline(f) \in Times /\ (f.when # Forever => Deadline(f) # Forever)
<1> DEFINE waits == {x \in {f.when, f.end} : x # Forever}
           least == CHOOSE x \in waits : \A y \in waits : x <= y
<1>1. CASE waits = {}
  BY <1>1 DEF Deadline, Times
<1>2. CASE waits # {}
  <2>1. waits \in SUBSET Nat
    BY DEF Times
  <2>2. \E x \in waits : \A y \in waits : x <= y
    BY <1>2, <2>1, Least
  <2>3. least \in waits
    BY <2>2
  <2>4. least \in Nat /\ clock \in Nat /\ f.cur \in Nat /\ f.cur <= clock
    BY <2>1, <2>3 DEF Base, TypeOK
  <2>5. Deadline(f) = clock + least - f.cur
    BY <1>2 DEF Deadline
  <2> HIDE DEF waits, least
  <2> QED
    BY <2>4, <2>5 DEF Times, Forever
<1> QED
  BY <1>1, <1>2

LEMMA CheckQuitLocal ==
  ASSUME Base, NEW t \in Thread, CheckQuit(t)
  PROVE  /\ depth[t] > 0 /\ Local(t) /\ Top(t).at = "quit"
         /\ \/ stop_[t] /\ Popped(t)
            \/ /\ ~stop_[t] /\ Deadline(Top(t)) \in Times
               /\ Top(t).when # Forever => Deadline(Top(t)) # Forever
               /\ Replaced(t, [Top(t) EXCEPT !.at = "wait", !.when = Deadline(Top(t))])
<1>1. depth[t] > 0 /\ Top(t).at = "quit" /\ Top(t).at \in LoopLabels
  BY DEF CheckQuit, At, LoopLabels
<1>2. Top(t) \in Frame /\ Top(t).when \in Times /\ Top(t).end \in Times /\ Top(t).cur \in 0..clock
  BY <1>1, TopOK DEF FrameOK
<1>3. Deadline(Top(t)) \in Times /\ (Top(t).when # Forever => Deadline(Top(t)) # Forever)
  BY <1>2, DeadlineIsTime
<1>4. CASE stop_[t]
  BY <1>1, <1>4, PopLoop DEF CheckQuit
<1>5. CASE ~stop_[t]
  <2> DEFINE w == Deadline(Top(t))
             f == [Top(t) EXCEPT !.at = "wait", !.when = w]
  <2>1. Becomes(t, f)
    BY <1>5 DEF CheckQuit
  <2>2. /\ f \in Frame /\ f.at = "wait" /\ f.peer = Top(t).peer /\ f.ready = Top(t).ready
        /\ f.waited = Top(t).waited /\ f.from = Top(t).from /\ f.fromDepth = Top(t).fromDepth
        /\ f.cur = Top(t).cur /\ f.end = Top(t).end
    <3>1. w \in Int
      BY <1>3 DEF Times, Forever
    <3> HIDE DEF w
    <3> QED
      BY <1>2, <3>1 DEF Frame, Labels
  <2> HIDE DEF f
  <2>3. Stands(t, f)
    BY <1>1, <2>2, TopOK DEF Stands, SameSend, FrameOK, LoopLabels, SendLabels
  <2>4. Local(t) /\ Replaced(t, f)
    BY <1>1, <2>1, <2>3, BecomesLocal
  <2> QED
    BY <1>1, <1>3, <1>5, <2>4 DEF f
<1> QED
  BY <1>4, <1>5

LEMMA CallQuitLocal ==
  ASSUME Base, NEW t \in Thread, CallQuit(t) \/ CallStop(t)
  PROVE  /\ depth[t] > 0 /\ Local(t)
         /\ \E u \in Worker \ joined, f \in Frame :
              /\ stop_' = [stop_ EXCEPT ![u] = TRUE]
              /\ Replaced(t, f) /\ f.at \in {"wake", "stop"} /\ f.peer = u
<1>1. depth[t] > 0 /\ Top(t).at = "run" /\ (CallStop(t) => depth[t] = 1)
  BY DEF CallQuit, CallStop, Call, At
<1>2. PICK u \in Worker \ joined, l \in {"wake", "stop"} :
        /\ stop_' = [stop_ EXCEPT ![u] = TRUE]
        /\ Becomes(t, [Top(t) EXCEPT !.at = l, !.peer = u])
        /\ l = "stop" => depth[t] = 1
  BY <1>1 DEF CallQuit, CallStop
<1> DEFINE f == [Top(t) EXCEPT !.at = l, !.peer = u]
<1>3. /\ f \in Frame /\ f.at = l /\ f.peer = u
      /\ f.ready = Top(t).ready /\ f.waited = Top(t).waited
      /\ f.from = Top(t).from /\ f.fromDepth = Top(t).fromDepth
  BY <1>1, <1>2, TopOK, ZenonT(40) DEF Frame, Labels, Thread
<1>4. u \in Thread
  BY <1>2 DEF Thread
<1> HIDE DEF f
<1>5. Stands(t, f)
  BY <1>1, <1>2, <1>3, <1>4, CallStands
<1>6. Local(t) /\ Replaced(t, f)
  BY <1>1, <1>2, <1>5, BecomesLocal DEF f
<1> QED
  BY <1>1, <1>2, <1>3, <1>6
------------------------------------------------------------------------------
(* The core of the invariant, step by step. *)

LEMMA LocalCore ==
  ASSUME Core, NEW t \in Thread, depth[t] > 0, Local(t),
         UNCHANGED <<joined, clock, sendlist_>>,
         msgq_' \in [Thread -> SUBSET Message], dmsgq_' \in [Thread -> SUBSET Message],
         dmsgq_next_num_' \in [Thread -> Nat], appended' \in [Thread -> Nat],
         stop_' \in [Thread -> BOOLEAN], signaled' \in [Thread -> BOOLEAN], ops' \in Nat,
         Delayed'
  PROVE  Core'
<1>1. Shape' /\ frame' \in [Thread -> [Depth -> Frame]] /\ depth' \in [Thread -> 0..MaxDepth]
  BY LocalShape DEF Core
<1>2. TypeOK'
  BY <1>1 DEF Core, Base, TypeOK
<1>3. Account' /\ Once'
  BY LocalLinks
<1> QED
  BY <1>1, <1>2, <1>3 DEF Core, Base

\* Calls and steps that touch no list.
LEMMA QuietCore ==
  ASSUME Core, NEW t \in Thread,
         \/ CallPost(t) \/ CallSend(t) \/ CallProcessMessages(t) \/ WakeUp(t)
         \/ CheckReady(t) \/ SendWait(t) \/ HandlerReturns(t) \/ LoopAgain(t) \/ CheckQuit(t)
         \/ WaitSignal(t) \/ WaitTimeout(t) \/ CallQuit(t) \/ CallStop(t)
  PROVE  Core'
<1> USE DEF Core, Base
<1>1. depth[t] > 0 /\ Local(t)
  BY CallPostLocal, CallSendLocal, CallProcessMessagesLocal, WakeUpLocal, CheckReadyLocal,
     SendWaitLocal, HandlerReturnsLocal, LoopAgainLocal, CheckQuitLocal, AwakeLocal,
     CallQuitLocal DEF WaitSignal, WaitTimeout, At
<1>2. UNCHANGED <<queues, joined, clock>>
  BY DEF CallPost, CallSend, CallProcessMessages, WakeUp, CheckReady, SendWait,
     HandlerReturns,
         LoopAgain, CheckQuit, WaitSignal, WaitTimeout, CallQuit, CallStop
<1>3. ops' \in Nat
  <2>1. ops' = ops \/ ops' = ops + 1
    BY DEF Call, CallPost, CallSend, CallProcessMessages, WakeUp, CheckReady, SendWait,
           HandlerReturns, LoopAgain, CheckQuit, WaitSignal, WaitTimeout, CallQuit, CallStop
  <2> QED
    BY <2>1 DEF TypeOK
<1>4. stop_' \in [Thread -> BOOLEAN]
  BY DEF TypeOK, CallPost, CallSend, CallProcessMessages, WakeUp, CheckReady, SendWait,
         HandlerReturns, LoopAgain, CheckQuit, WaitSignal, WaitTimeout, CallQuit, CallStop
<1>5. signaled' \in [Thread -> BOOLEAN]
  BY DEF TypeOK, CallPost, CallSend, CallProcessMessages, WakeUp, CheckReady, SendWait,
         HandlerReturns, LoopAgain, CheckQuit, WaitSignal, WaitTimeout, CallQuit, CallStop
<1>6. Delayed'
  BY <1>2 DEF Delayed, queues
<1> QED
  BY <1>1, <1>2, <1>3, <1>4, <1>5, <1>6, LocalCore DEF queues, TypeOK

LEMMA PushPostCore ==
  ASSUME Core, NEW t \in Thread, PushPost(t)
  PROVE  Core'
<1> USE DEF Core, Base
<1>1. depth[t] > 0 /\ Local(t)
  BY PushPostLocal
<1> DEFINE f == Top(t)
           u == f.peer
           m == [handler |-> f.handler, trigger |-> Immediate, num |-> 0, pos |-> appended[u]]
           n == [handler |-> f.handler, trigger |-> f.when, num |-> dmsgq_next_num_[u], pos |-> 0]
<1>2. f \in Frame /\ u \in Thread /\ f.when \in Times /\ f.handler \in Handler \cup {Dispose}
  BY <1>1, TopOK DEF PushPost, At, FrameOK, Frame
<1>3. UNCHANGED <<sendlist_, stop_, signaled, joined, clock, ops>>
  BY DEF PushPost
<1>4. CASE f.when = Immediate
  <2>1. m \in Message
    BY <1>2 DEF Message, TypeOK, Immediate
  <2>2. /\ msgq_' = [msgq_ EXCEPT ![u] = @ \cup {m}]
        /\ appended' = [appended EXCEPT ![u] = @ + 1]
        /\ UNCHANGED <<dmsgq_, dmsgq_next_num_>>
    BY <1>4 DEF PushPost
  <2> HIDE DEF m
  <2>3. msgq_' \in [Thread -> SUBSET Message] /\ appended' \in [Thread -> Nat]
    BY <1>2, <2>1, <2>2 DEF TypeOK
  <2>4. Delayed'
    BY <2>2 DEF Delayed
  <2> QED
    BY <1>1, <1>3, <2>2, <2>3, <2>4, LocalCore DEF TypeOK
<1>5. CASE f.when # Immediate
  <2>1. n \in Message /\ n.trigger \in Nat
    BY <1>2, <1>5 DEF Message, TypeOK, Immediate, Forever, Times
  <2>2. /\ dmsgq_' = [dmsgq_ EXCEPT ![u] = @ \cup {n}]
        /\ dmsgq_next_num_' = [dmsgq_next_num_ EXCEPT ![u] = @ + 1]
        /\ UNCHANGED <<msgq_, appended>>
    BY <1>5 DEF PushPost
  <2> HIDE DEF n
  <2>3. dmsgq_' \in [Thread -> SUBSET Message] /\ dmsgq_next_num_' \in [Thread -> Nat]
    BY <1>2, <2>1, <2>2 DEF TypeOK
  <2>4. Delayed'
    BY <1>2, <2>1, <2>2, FS_AddElement, ZenonT(40) DEF Delayed, TypeOK
  <2> QED
    BY <1>1, <1>3, <2>2, <2>3, <2>4, LocalCore DEF TypeOK
<1> QED
  BY <1>4, <1>5

\* The messages that are due.
LEMMA DueMessages ==
  ASSUME Base, NEW t \in Thread
  PROVE  /\ Cardinality(Due(t)) \in Nat /\ IsFiniteSet(Due(t))
         /\ Due(t) \subseteq dmsgq_[t] /\ Due(t) \subseteq Message
<1>1. IsFiniteSet(dmsgq_[t]) /\ dmsgq_[t] \subseteq Message
  BY DEF Base, Delayed, TypeOK
<1>2. Due(t) \in SUBSET dmsgq_[t]
  BY DEF Due
<1>3. IsFiniteSet(Due(t))
  BY <1>1, <1>2, FS_Subset
<1> QED
  BY <1>1, <1>2, <1>3, FS_CardinalityType

\* What becomes of them when they are moved.
LEMMA MovedMessages ==
  ASSUME Base, NEW t \in Thread, NEW p \in Orders(t), NEW a \in Moved(t, p)
  PROVE  /\ a \in Message
         /\ \E m \in Due(t) : /\ a.trigger = m.trigger /\ a.num = m.num
                              /\ a.pos = appended[t] + p[m]
                              /\ p[m] \in 0..(Cardinality(Due(t)) - 1)
<1>1. PICK m \in Due(t) : a = [m EXCEPT !.pos = appended[t] + p[m]]
  BY DEF Moved
<1>2. appended[t] \in Nat /\ Cardinality(Due(t)) \in Nat /\ m \in Message
  BY DueMessages DEF Base, TypeOK
<1>3. p[m] \in 0..(Cardinality(Due(t)) - 1)
  BY DEF Orders
<1>4. appended[t] + p[m] \in Nat
  BY <1>2, <1>3
<1>5. a.trigger = m.trigger /\ a.num = m.num /\ a.pos = appended[t] + p[m] /\ a \in Message
  BY <1>1, <1>2, <1>4 DEF Message
<1> QED
  BY <1>3, <1>5

LEMMA ScanEffect ==
  ASSUME Base, NEW t \in Thread, Scan(t)
  PROVE  LET w == NextTrigger(dmsgq_[t] \ Due(t))
             f == [Top(t) EXCEPT !.when = w]
         IN  /\ depth[t] > 0 /\ Top(t).at = "scan" /\ w \in Times
             /\ dmsgq_[t] \ Due(t) # {} => w # Forever
             /\ \E p \in Orders(t) : /\ msgq_[t] \cup Moved(t, p) \in SUBSET Message
                                      /\ Take(t, msgq_[t] \cup Moved(t, p), f)
             /\ dmsgq_' = [dmsgq_ EXCEPT ![t] = @ \ Due(t)]
             /\ appended' = [appended EXCEPT ![t] = @ + Cardinality(Due(t))]
             /\ UNCHANGED <<dmsgq_next_num_, sendlist_, stop_, signaled, joined, clock, ops>>
<1>1. dmsgq_'[t] = dmsgq_[t] \ Due(t)
  BY DEF Scan, Base, TypeOK
<1>2. \A m \in dmsgq_[t] \ Due(t) : m.trigger \in Nat
  BY DEF Base, Delayed
<1>3. /\ NextTrigger(dmsgq_[t] \ Due(t)) \in Times
      /\ dmsgq_[t] \ Due(t) # {} => NextTrigger(dmsgq_[t] \ Due(t)) \in Nat
  BY <1>2, TriggerExists
<1>4. ASSUME NEW p \in Orders(t) PROVE msgq_[t] \cup Moved(t, p) \in SUBSET Message
  BY MovedMessages DEF Base, TypeOK
<1>5. \E p \in Orders(t) : Take(t, msgq_[t] \cup Moved(t, p),
                                 [Top(t) EXCEPT !.when = NextTrigger(dmsgq_[t] \ Due(t))])
  BY <1>1 DEF Scan
<1>6. NextTrigger(dmsgq_[t] \ Due(t)) \in Nat => NextTrigger(dmsgq_[t] \ Due(t)) # Forever
  BY DEF Forever
<1>7. depth[t] > 0 /\ Top(t).at = "scan"
  BY DEF Scan, At
<1> QED
  BY <1>3, <1>4, <1>5, <1>6, <1>7 DEF Scan

LEMMA ScanCore ==
  ASSUME Core, NEW t \in Thread, Scan(t)
  PROVE  Core'
<1> USE DEF Core, Base
<1> DEFINE w == NextTrigger(dmsgq_[t] \ Due(t))
           f == [Top(t) EXCEPT !.when = w]
<1>1. /\ depth[t] > 0 /\ Top(t).at = "scan" /\ w \in Times
      /\ \E q \in SUBSET Message : Take(t, q, f)
      /\ dmsgq_' = [dmsgq_ EXCEPT ![t] = @ \ Due(t)]
      /\ appended' = [appended EXCEPT ![t] = @ + Cardinality(Due(t))]
      /\ UNCHANGED <<dmsgq_next_num_, sendlist_, stop_, signaled, joined, clock, ops>>
  BY ScanEffect
<1> HIDE DEF w
<1>2. Local(t) /\ msgq_' \in [Thread -> SUBSET Message]
  BY <1>1, TakeLocal
<1>3. appended' \in [Thread -> Nat] /\ dmsgq_' \in [Thread -> SUBSET Message]
  BY <1>1, DueMessages DEF TypeOK
<1>4. Delayed'
  BY <1>1, FS_Difference DEF Delayed, TypeOK
<1> QED
  BY <1>1, <1>2, <1>3, <1>4, LocalCore DEF TypeOK

LEMMA NextPassEffect ==
  ASSUME Base, NEW t \in Thread, NextPass(t)
  PROVE  LET f == [Top(t) EXCEPT !.when = Top(t).when]
         IN  /\ depth[t] > 0 /\ Top(t).at = "pop" /\ Top(t).when \in Times
             /\ f = Top(t) /\ msgq_[t] \in SUBSET Message /\ Take(t, msgq_[t], f)
<1>1. depth[t] > 0 /\ Top(t).at = "pop"
  BY DEF NextPass, At
<1>2. Top(t) \in Frame /\ Top(t).when \in Times
  BY <1>1, TopOK DEF FrameOK
<1>3. [Top(t) EXCEPT !.when = Top(t).when] = Top(t)
  BY <1>2 DEF Frame
<1> QED
  BY <1>1, <1>2, <1>3 DEF NextPass, Base, TypeOK

LEMMA NextPassCore ==
  ASSUME Core, NEW t \in Thread, NextPass(t)
  PROVE  Core'
<1> USE DEF Core, Base
<1>1. depth[t] > 0 /\ Local(t) /\ msgq_' \in [Thread -> SUBSET Message]
  <2> DEFINE f == [Top(t) EXCEPT !.when = Top(t).when]
  <2>1. /\ depth[t] > 0 /\ Top(t).at = "pop" /\ Top(t).when \in Times
        /\ msgq_[t] \in SUBSET Message /\ Take(t, msgq_[t], f)
    BY NextPassEffect
  <2> QED
    BY <2>1, TakeLocal
<1>2. Delayed'
  BY DEF NextPass, Delayed
<1> QED
  BY <1>1, <1>2, LocalCore DEF NextPass, TypeOK

LEMMA PushSendEffect ==
  ASSUME Base, NEW t \in Thread, PushSend(t)
  PROVE  LET u == Top(t).peer
             f == [Top(t) EXCEPT !.at = "sendwake"]
             s == [from |-> t, depth |-> depth[t], handler |-> Top(t).handler,
                   pos |-> appended[u]]
         IN  /\ depth[t] > 0 /\ Top(t).at = "send" /\ u \in Thread /\ u # t
             /\ f \in Frame /\ FrameOK(t, depth[t], f, clock) /\ f.from = Top(t).from
             /\ f.fromDepth = Top(t).fromDepth /\ f.at = "sendwake" /\ f.peer = u /\ ~f.ready
             /\ Replaced(t, f) /\ s \in Sent
             /\ sendlist_' = [sendlist_ EXCEPT ![u] = @ \cup {s}]
             /\ appended' = [appended EXCEPT ![u] = @ + 1]
<1> DEFINE u == Top(t).peer
           f == [Top(t) EXCEPT !.at = "sendwake"]
           s == [from |-> t, depth |-> depth[t], handler |-> Top(t).handler, pos |-> appended[u]]
<1>1. depth[t] > 0 /\ Top(t).at = "send" /\ Becomes(t, f)
  BY DEF PushSend, At, Goto
<1>2. Top(t) \in Frame /\ FrameOK(t, depth[t], Top(t), clock) /\ depth[t] \in Depth
  BY <1>1, TopOK
<1>3. u \in Thread /\ u # t /\ ~Top(t).ready
  BY <1>1, <1>2 DEF FrameOK, SendLabels
<1>4. /\ f \in Frame /\ f.at = "sendwake" /\ f.peer = u /\ ~f.ready /\ f.from = Top(t).from
      /\ f.fromDepth = Top(t).fromDepth
  BY <1>2, <1>3 DEF Frame, Labels, SendLabels
<1>5. FrameOK(t, depth[t], f, clock)
  BY <1>1, <1>2, <1>4 DEF FrameOK, LoopLabels, SendLabels
<1>6. Replaced(t, f)
  BY <1>1, <1>4, BecomesReplaces DEF Base
<1>7. Top(t).handler \in Handler
  BY <1>1, <1>2 DEF FrameOK
<1>8. s \in Sent
  BY <1>2, <1>3, <1>7 DEF Sent, Base, TypeOK
<1> QED
  BY <1>1, <1>3, <1>4, <1>5, <1>6, <1>8 DEF PushSend

LEMMA PushSendCore ==
  ASSUME Core, NEW t \in Thread, PushSend(t)
  PROVE  Core'
<1> USE DEF Core, Base
<1> DEFINE u == Top(t).peer
           f == [Top(t) EXCEPT !.at = "sendwake"]
           s == [from |-> t, depth |-> depth[t], handler |-> Top(t).handler, pos |-> appended[u]]
<1>1. /\ depth[t] > 0 /\ Top(t).at = "send" /\ u \in Thread /\ u # t
      /\ f \in Frame /\ FrameOK(t, depth[t], f, clock) /\ f.from = Top(t).from
      /\ f.fromDepth = Top(t).fromDepth /\ f.at = "sendwake" /\ f.peer = u /\ ~f.ready
      /\ Replaced(t, f) /\ s \in Sent /\ s.from = t /\ s.depth = depth[t]
      /\ sendlist_' = [sendlist_ EXCEPT ![u] = @ \cup {s}]
      /\ appended' = [appended EXCEPT ![u] = @ + 1]
  BY PushSendEffect
<1>2. UNCHANGED <<msgq_, dmsgq_, dmsgq_next_num_, stop_, signaled, joined, clock, ops>>
  BY DEF PushSend
<1> HIDE DEF f, s
<1>3. Shape'
  BY <1>1, <1>2, ReplacedShape
<1>4. depth[t] \in Depth /\ Top(t) = frame[t][depth[t]]
  BY <1>1, TopOK DEF Top
<1>5. TypeOK'
  BY <1>1, <1>2 DEF TypeOK, Replaced
<1>6. Delayed'
  BY <1>2 DEF Delayed
<1>7. \A x \in Thread, d \in Depth, y \in Thread :
        Open(x, d, y)' <=> Open(x, d, y) \/ (x = t /\ d = depth[t] /\ y = u)
  <2>1. \A y \in Thread : ~Open(t, depth[t], y)
    BY <1>1, <1>4 DEF Open, Sending, SendLabels
  <2>2. \A y \in Thread, d \in Depth : d = depth[t] => (Open(t, d, y)' <=> y = u)
    BY <1>1, <1>4, SMTT(30) DEF Open, Sending, SendLabels, Replaced, Depth, TypeOK
  <2>3. \A x \in Thread, d \in Depth, y \in Thread :
          x # t \/ d # depth[t] => (Open(x, d, y)' <=> Open(x, d, y))
    BY <1>1 DEF Open, Sending, Replaced
  <2> QED
    BY <1>1, <1>4, <2>1, <2>2, <2>3
<1>8. \A y \in Thread, e \in Depth, x \in Thread, d \in Depth :
        Runs(y, e, x, d)' <=> Runs(y, e, x, d)
  BY <1>1, <1>4 DEF Runs, Replaced
<1>9. ~Open(t, depth[t], u)
  BY <1>1, <1>4 DEF Open, Sending, SendLabels
<1>10. /\ ~\E r \in sendlist_[u] : r.from = t /\ r.depth = depth[t]
       /\ ~\E e \in Depth : Runs(u, e, t, depth[t])
  BY <1>1, <1>4, <1>9 DEF Account
<1>11. \A y \in Thread : sendlist_'[y] = IF y = u THEN sendlist_[u] \cup {s} ELSE sendlist_[y]
  BY <1>1 DEF TypeOK
<1>12. Account'
  <2> HIDE DEF Core, Base, u
  <2>1. ASSUME NEW x \in Thread, NEW y \in Thread, NEW d \in Depth
        PROVE  Open(x, d, y)' <=> \/ \E r \in sendlist_'[y] : r.from = x /\ r.depth = d
                                  \/ \E e \in Depth : Runs(y, e, x, d)'
    <3>1. Open(x, d, y) <=> \/ \E r \in sendlist_[y] : r.from = x /\ r.depth = d
                            \/ \E e \in Depth : Runs(y, e, x, d)
      BY DEF Core, Account
    <3>2. (\E e \in Depth : Runs(y, e, x, d)') <=> \E e \in Depth : Runs(y, e, x, d)
      BY <1>8
    <3>3. (\E r \in sendlist_'[y] : r.from = x /\ r.depth = d)
            <=> \/ \E r \in sendlist_[y] : r.from = x /\ r.depth = d
                \/ x = t /\ d = depth[t] /\ y = u
      BY <1>1, <1>11
    <3> QED
      BY <1>7, <3>1, <3>2, <3>3
  <2> QED
    BY <2>1 DEF Account
<1>13. Once'
  <2> HIDE DEF Core, Base, u
  <2>1. ASSUME NEW x \in Thread, NEW y \in Thread, NEW d \in Depth
        PROVE  /\ \A r \in sendlist_'[y], q \in sendlist_'[y] :
                    r.from = x /\ r.depth = d /\ q.from = x /\ q.depth = d => r = q
               /\ \A e \in Depth, h \in Depth : Runs(y, e, x, d)' /\ Runs(y, h, x, d)' => e = h
               /\ \A r \in sendlist_'[y], e \in Depth :
                    ~(r.from = x /\ r.depth = d /\ Runs(y, e, x, d)')
    <3>1. /\ \A r \in sendlist_[y], q \in sendlist_[y] :
               r.from = x /\ r.depth = d /\ q.from = x /\ q.depth = d => r = q
          /\ \A e \in Depth, h \in Depth : Runs(y, e, x, d) /\ Runs(y, h, x, d) => e = h
          /\ \A r \in sendlist_[y], e \in Depth :
               ~(r.from = x /\ r.depth = d /\ Runs(y, e, x, d))
      BY DEF Core, Once
    <3>2. CASE y = u /\ x = t /\ d = depth[t]
      <4>1. \A r \in sendlist_'[y] : r.from = x /\ r.depth = d => r = s
        BY <1>10, <1>11, <3>2
      <4>2. \A e \in Depth : ~Runs(y, e, x, d)'
        BY <1>8, <1>10, <3>2
      <4> QED
        BY <4>1, <4>2
    <3>3. CASE ~(y = u /\ x = t /\ d = depth[t])
      <4>1. \A r \in sendlist_'[y] : r.from = x /\ r.depth = d => r \in sendlist_[y]
        BY <1>1, <1>11, <3>3
      <4> QED
        BY <1>8, <3>1, <4>1
    <3> QED
      BY <3>2, <3>3
  <2> QED
    BY <2>1 DEF Once
<1> QED
  BY <1>3, <1>5, <1>6, <1>12, <1>13

\* Message s is taken off the list of t, and its handler is call e of t.
Receives(t, s, e) ==
  /\ s \in sendlist_[t] /\ sendlist_' = [sendlist_ EXCEPT ![t] = @ \ {s}]
  /\ \A x \in Thread, d \in Depth : ~Runs(t, e, x, d)
  /\ \A u \in Thread, h \in Depth, x \in Thread, d \in Depth :
       Runs(u, h, x, d)' <=> \/ Runs(u, h, x, d)
                             \/ u = t /\ h = e /\ x = s.from /\ d = s.depth

LEMMA ReceivedLinks ==
  ASSUME Account, Once, TypeOK, NEW t \in Thread, NEW s, NEW e \in Depth, Receives(t, s, e),
         \A x \in Thread, d \in Depth, u \in Thread : Open(x, d, u)' <=> Open(x, d, u)
  PROVE  Account' /\ Once'
<1> USE DEF Receives
<1>1. s.from \in Thread /\ s.depth \in Depth
  BY DEF TypeOK, Sent
<1>2. \A u \in Thread : sendlist_'[u] = IF u = t THEN sendlist_[t] \ {s} ELSE sendlist_[u]
  BY DEF TypeOK
<1>3. \A r \in sendlist_[t] : r.from = s.from /\ r.depth = s.depth => r = s
  BY <1>1 DEF Once
<1>4. \A h \in Depth : ~Runs(t, h, s.from, s.depth)
  BY <1>1 DEF Once
<1>5. Account'
  <2>1. ASSUME NEW x \in Thread, NEW u \in Thread, NEW d \in Depth
        PROVE  Open(x, d, u)' <=> \/ \E r \in sendlist_'[u] : r.from = x /\ r.depth = d
                                  \/ \E h \in Depth : Runs(u, h, x, d)'
    <3>1. CASE u = t /\ x = s.from /\ d = s.depth
      BY <1>1, <3>1 DEF Account
    <3>2. CASE ~(u = t /\ x = s.from /\ d = s.depth)
      BY <1>2, <3>2 DEF Account
    <3> QED
      BY <3>1, <3>2
  <2> QED
    BY <2>1 DEF Account
<1>6. Once'
  <2>1. ASSUME NEW x \in Thread, NEW u \in Thread, NEW d \in Depth
        PROVE  /\ \A r \in sendlist_'[u], q \in sendlist_'[u] :
                    r.from = x /\ r.depth = d /\ q.from = x /\ q.depth = d => r = q
               /\ \A h \in Depth, g \in Depth : Runs(u, h, x, d)' /\ Runs(u, g, x, d)' => h = g
               /\ \A r \in sendlist_'[u], h \in Depth :
                    ~(r.from = x /\ r.depth = d /\ Runs(u, h, x, d)')
    <3>1. CASE u = t /\ x = s.from /\ d = s.depth
      BY <1>2, <1>3, <1>4, <3>1 DEF Once
    <3>2. CASE ~(u = t /\ x = s.from /\ d = s.depth)
      BY <1>2, <3>2 DEF Once
    <3> QED
      BY <3>1, <3>2
  <2> QED
    BY <2>1 DEF Once
<1> QED
  BY <1>5, <1>6

LEMMA HandlingFrame ==
  ASSUME Base, NEW t \in Thread, NEW s \in sendlist_[t]
  PROVE  /\ Handling(s) \in Frame /\ Handling(s).at = "run"
         /\ Handling(s).from = s.from /\ Handling(s).fromDepth = s.depth
         /\ s.from \in Thread /\ s.depth \in Depth /\ s.from # NoThread
         /\ \A e \in Depth : FrameOK(t, e, Handling(s), clock)
<1>1. s.from \in Thread /\ s.depth \in Depth
  BY DEF Base, TypeOK, Sent
<1>2. /\ Handling(s) \in Frame /\ Handling(s).from = s.from /\ Handling(s).fromDepth = s.depth
      /\ Handling(s).at = User.at /\ Handling(s).ready = User.ready
      /\ Handling(s).waited = User.waited
  BY <1>1, UserFrame DEF Handling, Frame
<1>3. User.at = "run" /\ ~User.ready /\ ~User.waited
  BY DEF User
<1> QED
  BY <1>1, <1>2, <1>3 DEF FrameOK, LoopLabels, SendLabels

\* ReceiveSends that finds the list empty, or takes its first entry.
LEMMA ReceiveSendsEffect ==
  ASSUME Base, NEW t \in Thread, ReceiveSends(t)
  PROVE  /\ depth[t] > 0 /\ Top(t).at \in {"recv", "sendrecv"}
         /\ UNCHANGED <<msgq_, dmsgq_, dmsgq_next_num_, appended, stop_, signaled, joined,
                        clock, ops>>
         /\ \/ /\ Receivable(t, Top(t)) = {} /\ UNCHANGED sendlist_
               /\ Replaced(t, Received(Top(t))) /\ Local(t)
            \/ \E s \in Receivable(t, Top(t)) :
                 /\ Pushed(t, Top(t), Handling(s)) /\ depth[t] < MaxDepth
                 /\ sendlist_' = [sendlist_ EXCEPT ![t] = @ \ {s}]
<1> DEFINE todo == Receivable(t, Top(t))
<1>1. depth[t] > 0 /\ Top(t).at \in {"recv", "sendrecv"}
  BY DEF ReceiveSends, At
<1>2. Top(t) \in Frame /\ FrameOK(t, depth[t], Top(t), clock) /\ depth[t] \in Depth
  BY <1>1, TopOK
<1>3. UNCHANGED <<msgq_, dmsgq_, dmsgq_next_num_, appended, stop_, signaled, joined, clock, ops>>
  BY DEF ReceiveSends
<1>4. CASE todo = {}
  <2>1. Becomes(t, Received(Top(t))) /\ UNCHANGED sendlist_
    BY <1>4 DEF ReceiveSends
  <2>2. Stands(t, Received(Top(t)))
    BY <1>1, <1>2, ReceivedStands DEF Stands
  <2> QED
    BY <1>1, <1>3, <1>4, <2>1, <2>2, BecomesLocal
<1>5. CASE todo # {}
  <2> DEFINE s == FirstOf(todo)
  <2>1. Dispatch(t, Top(t), Handling(s)) /\ sendlist_' = [sendlist_ EXCEPT ![t] = @ \ {s}]
    BY <1>5 DEF ReceiveSends
  <2>2. s \in todo
    <3>1. \A r \in todo : r.pos \in Nat
      BY DEF Receivable, Base, TypeOK, Sent
    <3> HIDE DEF todo
    <3> QED
      BY <1>5, <3>1, FirstExists
  <2>3. s \in sendlist_[t]
    BY <2>2 DEF Receivable
  <2> HIDE DEF s
  <2>4. depth[t] < MaxDepth
    BY <1>1, <1>2 DEF FrameOK, LoopLabels, SendLabels
  <2>5. Pushed(t, Top(t), Handling(s))
    BY <1>1, <1>2, <2>1, <2>3, <2>4, DispatchPushes, HandlingFrame DEF Base
  <2> QED
    BY <1>1, <1>3, <2>1, <2>2, <2>4, <2>5
<1> QED
  BY <1>4, <1>5

LEMMA ReceiveSendsCore ==
  ASSUME Core, NEW t \in Thread, ReceiveSends(t)
  PROVE  Core'
<1> USE DEF Core, Base
<1>1. /\ depth[t] > 0 /\ Top(t).at \in {"recv", "sendrecv"}
      /\ UNCHANGED <<msgq_, dmsgq_, dmsgq_next_num_, appended, stop_, signaled, joined,
                     clock, ops>>
  BY ReceiveSendsEffect
<1>2. Delayed'
  BY <1>1 DEF Delayed
<1>3. Top(t) \in Frame /\ FrameOK(t, depth[t], Top(t), clock) /\ depth[t] \in Depth
  BY <1>1, TopOK
<1>4. CASE UNCHANGED sendlist_ /\ Local(t)
  BY <1>1, <1>2, <1>4, LocalCore DEF TypeOK
<1>5. ASSUME NEW s \in Receivable(t, Top(t)), Pushed(t, Top(t), Handling(s)),
             depth[t] < MaxDepth, sendlist_' = [sendlist_ EXCEPT ![t] = @ \ {s}]
      PROVE  Core'
  <2>1. s \in sendlist_[t] /\ (Top(t).at = "sendrecv" => s.from = Top(t).peer)
    BY DEF Receivable
  <2>2. /\ Handling(s) \in Frame /\ Handling(s).at = "run"
        /\ Handling(s).from = s.from /\ Handling(s).fromDepth = s.depth
        /\ s.from \in Thread /\ s.depth \in Depth /\ s.from # NoThread
        /\ \A e \in Depth : FrameOK(t, e, Handling(s), clock)
    BY <2>1, HandlingFrame
  <2>3. depth[t] + 1 \in Depth
    BY <1>3, <1>5 DEF Depth
  <2>4. Pair(Top(t), Handling(s))
    BY <1>1, <2>1, <2>2 DEF Pair
  <2>5. Shape'
    BY <1>1, <1>3, <1>5, <2>2, <2>3, <2>4, PushedShape
  <2>6. TypeOK'
    <3>1. frame' \in [Thread -> [Depth -> Frame]]
      BY <1>5 DEF Pushed
    <3>2. depth' \in [Thread -> 0..MaxDepth]
      BY <1>5, <2>3 DEF Pushed, TypeOK, Depth
    <3>3. sendlist_' \in [Thread -> SUBSET Sent]
      BY <1>5 DEF TypeOK
    <3> QED
      BY <1>1, <3>1, <3>2, <3>3 DEF TypeOK
  <2>7. \A x \in Thread, d \in Depth :
          \/ x = t /\ d = depth[t] + 1 /\ frame'[x][d] = Handling(s) /\ depth'[x] = d
          \/ /\ x # t \/ d # depth[t] + 1
             /\ frame'[x][d] = frame[x][d] /\ (d <= depth'[x] <=> d <= depth[x])
    BY <1>3, <1>5, <2>3, SMTT(30) DEF Pushed, Top, TypeOK, Depth
  <2>8. \A x \in Thread, d \in Depth, u \in Thread : Open(x, d, u)' <=> Open(x, d, u)
    BY <1>3, <2>2, <2>7 DEF Open, Sending, SendLabels, Depth
  <2>9. \A x \in Thread, d \in Depth : ~Runs(t, depth[t] + 1, x, d)
    BY <1>3 DEF Runs, Depth
  <2>10. \A u \in Thread, h \in Depth, x \in Thread, d \in Depth :
           Runs(u, h, x, d)' <=> \/ Runs(u, h, x, d)
                                 \/ u = t /\ h = depth[t] + 1 /\ x = s.from /\ d = s.depth
    BY <1>3, <2>2, <2>3, <2>7, <2>9 DEF Runs, Depth
  <2>11. Account' /\ Once'
    <3>1. PICK e \in Depth : e = depth[t] + 1
      BY <2>3
    <3>2. Receives(t, s, e)
      BY <1>5, <2>1, <2>9, <2>10, <3>1 DEF Receives
    <3> QED
      BY <2>8, <3>2, ReceivedLinks
  <2> QED
    BY <1>2, <2>5, <2>6, <2>11
<1> QED
  BY <1>4, <1>5, ReceiveSendsEffect

LEMMA JoinCore ==
  ASSUME Core, NEW t \in Thread, Join(t)
  PROVE  Core' /\ depth[t] > 0 /\ Replaced(t, User) /\ Top(t).at = "join"
<1> USE DEF Core, Base
<1>1. depth[t] > 0 /\ Top(t).at = "join" /\ Becomes(t, User) /\ depth[Top(t).peer] = 0
      /\ joined' = joined \cup {Top(t).peer}
  BY DEF Join, At
<1>2. /\ Top(t) \in Frame /\ FrameOK(t, depth[t], Top(t), clock) /\ Top(t).peer \in Thread
      /\ depth[t] = 1
  BY <1>1, TopOK DEF FrameOK
<1>3. Top(t).from = NoThread
  BY <1>1, <1>2 DEF Shape, Top
<1>4. Replaced(t, User)
  BY <1>1, UserFrame, BecomesReplaces
<1>5. /\ FrameOK(t, depth[t], User, clock) /\ User.from = NoThread
      /\ User.at = "run"
  BY DEF FrameOK, User, LoopLabels, SendLabels
<1>6. UNCHANGED <<queues, stop_, signaled, clock, ops>>
  BY DEF Join
<1>7. Shape'
  <2>1. frame \in [Thread -> [Depth -> Frame]] /\ depth \in [Thread -> 0..MaxDepth]
        /\ depth[t] \in Depth
    BY <1>2 DEF TypeOK, Depth
  <2>2. ASSUME NEW x \in Thread
        PROVE  /\ \A e \in 1..depth'[x] : FrameOK(x, e, frame'[x][e], clock')
               /\ \A e \in 2..depth'[x] : Pair(frame'[x][e - 1], frame'[x][e])
               /\ depth'[x] > 0 => frame'[x][1].from = NoThread
               /\ x \in joined' => depth'[x] = 0
    <3>1. CASE x = t
      <4>1. depth'[x] = 1 /\ frame'[x][1] = User /\ x \notin joined
        BY <1>2, <1>4, <3>1 DEF Replaced, Shape
      <4>2. x # Top(t).peer
        BY <1>1, <1>2, <3>1
      <4> QED
        BY <1>1, <1>2, <1>5, <1>6, <3>1, <4>1, <4>2
    <3>2. CASE x # t
      <4>1. depth'[x] = depth[x] /\ \A e \in 1..depth[x] : frame'[x][e] = frame[x][e]
        BY <1>4, <2>1, <3>2 DEF Replaced, Depth
      <4>2. /\ \A e \in 1..depth[x] : FrameOK(x, e, frame[x][e], clock)
            /\ \A e \in 2..depth[x] : Pair(frame[x][e - 1], frame[x][e])
            /\ depth[x] > 0 => frame[x][1].from = NoThread
            /\ x \in joined => depth[x] = 0
        BY DEF Shape
      <4> HIDE DEF Core, Base
      <4>3. \A e \in 1..depth'[x] : FrameOK(x, e, frame'[x][e], clock')
        BY <1>6, <4>1, <4>2
      <4>4. depth[x] \in Nat
        BY <2>1, BoundAssumption
      <4>5. \A e \in 2..depth'[x] : Pair(frame'[x][e - 1], frame'[x][e])
        <5> SUFFICES ASSUME NEW e \in 2..depth[x]
                     PROVE  Pair(frame'[x][e - 1], frame'[x][e])
          BY <4>1
        <5>1. e \in 1..depth[x] /\ e - 1 \in 1..depth[x]
          BY <4>4
        <5>2. frame'[x][e] = frame[x][e] /\ frame'[x][e - 1] = frame[x][e - 1]
          BY <4>1, <5>1
        <5> QED
          BY <4>2, <5>2
      <4>6. depth'[x] > 0 => frame'[x][1].from = NoThread
        BY <4>1, <4>2, <4>4
      <4>7. x \in joined' => depth'[x] = 0
        BY <1>1, <4>1, <4>2
      <4> QED
        BY <4>3, <4>5, <4>6, <4>7
    <3> QED
      BY <3>1, <3>2
  <2> QED
    BY <2>2 DEF Shape
<1>8. TypeOK'
  <2>1. Top(t).peer \in Worker
    BY <1>1, <1>2 DEF FrameOK
  <2> QED
    BY <1>1, <1>4, <1>6, <2>1 DEF TypeOK, Replaced, queues
<1>9. Delayed'
  BY <1>6 DEF Delayed, queues
<1>10. \A x \in Thread, d \in Depth, u \in Thread : Open(x, d, u)' <=> Open(x, d, u)
  BY <1>1, <1>4, <1>5 DEF Open, Sending, SendLabels, Replaced, Top
<1>11. \A u \in Thread, e \in Depth, x \in Thread, d \in Depth :
         Runs(u, e, x, d)' <=> Runs(u, e, x, d)
  BY <1>3, <1>4, <1>5 DEF Runs, Replaced, Top
<1>12. Account' /\ Once'
  BY <1>6, <1>10, <1>11, SameLinks DEF queues
<1> QED
  BY <1>1, <1>4, <1>7, <1>8, <1>9, <1>12

LEMMA CallStartEffect ==
  ASSUME Base, NEW t \in Thread, CallStart(t)
  PROVE  /\ UNCHANGED <<queues, signaled, clock>> /\ depth[t] > 0 /\ Top(t).at = "run"
         /\ \E u \in Worker :
              /\ u \in joined /\ depth[u] = 0 /\ u # t
              /\ joined' = joined \ {u} /\ stop_' = [stop_ EXCEPT ![u] = FALSE]
              /\ depth' = [depth EXCEPT ![u] = 1]
              /\ frame' \in [Thread -> [Depth -> Frame]] /\ frame'[u][1] = Loop(Forever)
              /\ \A x \in Thread, d \in Depth : x # u \/ d # 1 => frame'[x][d] = frame[x][d]
<1>1. UNCHANGED <<queues, signaled, clock>> /\ depth[t] > 0 /\ Top(t).at = "run"
  BY DEF CallStart, Call, At
<1>2. PICK u \in joined :
       /\ joined' = joined \ {u} /\ stop_' = [stop_ EXCEPT ![u] = FALSE]
       /\ frame' = [frame EXCEPT ![u][1] = Loop(Forever)]
       /\ depth' = [depth EXCEPT ![u] = 1]
  BY DEF CallStart
<1>3. u \in Worker /\ u \in Thread /\ depth[u] = 0
  BY DEF Base, TypeOK, Shape, Thread
<1>4. Loop(Forever) \in Frame /\ 1 \in Depth
  BY LoopFrame DEF Forever, Depth
<1>5. /\ frame' \in [Thread -> [Depth -> Frame]] /\ frame'[u][1] = Loop(Forever)
      /\ \A x \in Thread, d \in Depth : x # u \/ d # 1 => frame'[x][d] = frame[x][d]
  BY <1>2, <1>3, <1>4 DEF Base, TypeOK
<1>6. u # t
  BY <1>1, <1>3
<1> QED
  BY <1>1, <1>2, <1>3, <1>5, <1>6

LEMMA CallStartCore ==
  ASSUME Core, NEW t \in Thread, CallStart(t)
  PROVE  Core'
<1> USE DEF Core, Base
<1>1. UNCHANGED <<queues, signaled, clock>>
  BY CallStartEffect
<1>2. PICK u \in Worker :
              /\ u \in joined /\ depth[u] = 0 /\ u # t
              /\ joined' = joined \ {u} /\ stop_' = [stop_ EXCEPT ![u] = FALSE]
              /\ depth' = [depth EXCEPT ![u] = 1]
              /\ frame' \in [Thread -> [Depth -> Frame]] /\ frame'[u][1] = Loop(Forever)
              /\ \A x \in Thread, d \in Depth : x # u \/ d # 1 => frame'[x][d] = frame[x][d]
  BY CallStartEffect
<1>3. frame \in [Thread -> [Depth -> Frame]] /\ depth \in [Thread -> 0..MaxDepth] /\ u \in Thread
      /\ clock \in Nat /\ 1 \in Depth
  BY DEF TypeOK, Thread, Depth
<1>4. /\ Loop(Forever) \in Frame /\ Loop(Forever).at = "recv" /\ Loop(Forever).cur = clock
      /\ Loop(Forever).end = Forever /\ Loop(Forever).from = NoThread
      /\ Loop(Forever).fromDepth = 1 /\ ~Loop(Forever).ready /\ ~Loop(Forever).waited
  BY LoopFrame DEF Forever
<1>5. FrameOK(u, 1, Loop(Forever), clock)
  BY <1>2, <1>3, <1>4 DEF FrameOK, LoopLabels, SendLabels, Times
<1>6. Shape'
  <2>1. ASSUME NEW x \in Thread
        PROVE  /\ \A e \in 1..depth'[x] : FrameOK(x, e, frame'[x][e], clock')
               /\ \A e \in 2..depth'[x] : Pair(frame'[x][e - 1], frame'[x][e])
               /\ depth'[x] > 0 => frame'[x][1].from = NoThread
               /\ x \in joined' => depth'[x] = 0
    <3>1. CASE x = u
      BY <1>1, <1>2, <1>3, <1>4, <1>5, <3>1
    <3>2. CASE x # u
      <4>1. depth'[x] = depth[x] /\ \A e \in 1..depth[x] : frame'[x][e] = frame[x][e]
        BY <1>2, <1>3, <3>2 DEF Depth
      <4> QED
        BY <1>1, <1>2, <1>3, <4>1 DEF Shape
    <3> QED
      BY <3>1, <3>2
  <2> QED
    BY <2>1 DEF Shape
<1>7. TypeOK'
  <2>1. ops' \in Nat
    BY DEF CallStart, Call, TypeOK
  <2> QED
    BY <1>1, <1>2, <1>3, <2>1 DEF TypeOK, queues
<1>8. Delayed'
  BY <1>1 DEF Delayed, queues
<1>9. \A x \in Thread, d \in Depth :
        \/ x = u /\ d = 1 /\ frame'[x][d] = Loop(Forever) /\ ~(d <= depth[x])
        \/ frame'[x][d] = frame[x][d] /\ (d <= depth'[x] <=> d <= depth[x])
  BY <1>2, <1>3 DEF Depth
<1>10. \A x \in Thread, d \in Depth, y \in Thread : Open(x, d, y)' <=> Open(x, d, y)
  BY <1>4, <1>9 DEF Open, Sending, SendLabels
<1>11. \A y \in Thread, e \in Depth, x \in Thread, d \in Depth :
         Runs(y, e, x, d)' <=> Runs(y, e, x, d)
  BY <1>4, <1>9 DEF Runs
<1>12. Account' /\ Once'
  BY <1>1, <1>10, <1>11, SameLinks DEF queues
<1> QED
  BY <1>6, <1>7, <1>8, <1>12
------------------------------------------------------------------------------
(* Steps that answer a Send. *)

LEMMA OneTarget ==
  ASSUME NEW x, NEW d, NEW u, NEW y, Open(x, d, u), Open(x, d, y)
  PROVE  u = y
BY DEF Open, Sending

LEMMA OneAnswer ==
  ASSUME NEW u, NEW e, NEW x, NEW y, NEW d, NEW c, Runs(u, e, x, d), Runs(u, e, y, c)
  PROVE  x = y /\ d = c
BY DEF Runs

\* Call d of thread x is answered, in the hands of thread t, and the links are
\* otherwise those of before, where call e of thread t was its handler.
Answers(t, e, x, d) ==
  /\ Runs(t, e, x, d)
  /\ \A y \in Thread, c \in Depth, u \in Thread :
       Open(y, c, u)' <=> Open(y, c, u) /\ ~(y = x /\ c = d)

LEMMA AnsweredLinks ==
  ASSUME Account, Once, NEW t \in Thread, NEW e \in Depth, NEW x \in Thread, NEW d \in Depth,
         Answers(t, e, x, d), UNCHANGED sendlist_,
         \A u \in Thread, h \in Depth, y \in Thread, c \in Depth :
            Runs(u, h, y, c)' <=> Runs(u, h, y, c) /\ ~(u = t /\ h = e)
  PROVE  Account' /\ Once'
<1> USE DEF Answers
<1>1. Open(x, d, t)
  BY DEF Account
<1>2. \A u \in Thread, h \in Depth : Runs(u, h, x, d) => u = t /\ h = e
  BY <1>1, OneTarget DEF Account, Once
<1>3. \A u \in Thread : \A r \in sendlist_[u] : ~(r.from = x /\ r.depth = d)
  BY <1>1, OneTarget DEF Account, Once
<1>4. ASSUME NEW y \in Thread, NEW u \in Thread, NEW c \in Depth
      PROVE  Open(y, c, u)' <=> \/ \E r \in sendlist_'[u] : r.from = y /\ r.depth = c
                                \/ \E h \in Depth : Runs(u, h, y, c)'
  <2>1. CASE y = x /\ c = d
    BY <1>2, <1>3, <2>1
  <2>2. CASE ~(y = x /\ c = d)
    BY <2>2, OneAnswer DEF Account
  <2> QED
    BY <2>1, <2>2
<1>5. Account'
  BY <1>4 DEF Account
<1>6. Once'
  BY DEF Once
<1> QED
  BY <1>5, <1>6

\* The same, and the handler of the next message takes the place of the one
\* that has returned.
LEMMA AnsweredNextLinks ==
  ASSUME Account, Once, TypeOK, NEW t \in Thread, NEW e \in Depth, NEW x \in Thread,
         NEW d \in Depth, Answers(t, e, x, d), NEW s \in sendlist_[t],
         sendlist_' = [sendlist_ EXCEPT ![t] = @ \ {s}],
         \A u \in Thread, h \in Depth, y \in Thread, c \in Depth :
            Runs(u, h, y, c)' <=> \/ Runs(u, h, y, c) /\ ~(u = t /\ h = e)
                                  \/ u = t /\ h = e /\ y = s.from /\ c = s.depth
  PROVE  Account' /\ Once'
<1> USE DEF Answers
<1>1. Open(x, d, t)
  BY DEF Account
<1>2. \A u \in Thread, h \in Depth : Runs(u, h, x, d) => u = t /\ h = e
  BY <1>1, OneTarget DEF Account, Once
<1>3. \A u \in Thread : \A r \in sendlist_[u] : ~(r.from = x /\ r.depth = d)
  BY <1>1, OneTarget DEF Account, Once
<1>4. s.from \in Thread /\ s.depth \in Depth
  BY DEF TypeOK, Sent
<1>5. \A u \in Thread : sendlist_'[u] = IF u = t THEN sendlist_[t] \ {s} ELSE sendlist_[u]
  BY DEF TypeOK
<1>6. \A r \in sendlist_[t] : r.from = s.from /\ r.depth = s.depth => r = s
  BY <1>4 DEF Once
<1>7. \A h \in Depth : ~Runs(t, h, s.from, s.depth)
  BY <1>4 DEF Once
<1>8. ASSUME NEW y \in Thread, NEW u \in Thread, NEW c \in Depth
      PROVE  Open(y, c, u)' <=> \/ \E r \in sendlist_'[u] : r.from = y /\ r.depth = c
                                \/ \E h \in Depth : Runs(u, h, y, c)'
  <2>1. CASE y = x /\ c = d
    BY <1>2, <1>3, <1>5, <2>1
  <2>2. CASE ~(y = x /\ c = d) /\ u = t /\ y = s.from /\ c = s.depth
    BY <2>2 DEF Account
  <2>3. CASE ~(y = x /\ c = d) /\ ~(u = t /\ y = s.from /\ c = s.depth)
    BY <1>5, <2>3, OneAnswer DEF Account
  <2> QED
    BY <2>1, <2>2, <2>3
<1>9. Account'
  BY <1>8 DEF Account
<1>10. ASSUME NEW y \in Thread, NEW u \in Thread, NEW c \in Depth
       PROVE  /\ \A r \in sendlist_'[u], q \in sendlist_'[u] :
                   r.from = y /\ r.depth = c /\ q.from = y /\ q.depth = c => r = q
              /\ \A h \in Depth, g \in Depth : Runs(u, h, y, c)' /\ Runs(u, g, y, c)' => h = g
              /\ \A r \in sendlist_'[u], h \in Depth :
                   ~(r.from = y /\ r.depth = c /\ Runs(u, h, y, c)')
  <2>1. CASE u = t /\ y = s.from /\ c = s.depth
    BY <1>5, <1>6, <1>7, <2>1 DEF Once
  <2>2. CASE ~(u = t /\ y = s.from /\ c = s.depth)
    BY <1>5, <2>2 DEF Once
  <2> QED
    BY <2>1, <2>2
<1>11. Once'
  BY <1>10 DEF Once
<1> QED
  BY <1>9, <1>11

\* What SendHandled does: call fromDepth of thread from is answered; the calls
\* of t change at the top.
LEMMA SendHandledEffect ==
  ASSUME Core, NEW t \in Thread, SendHandled(t)
  PROVE  LET x == Top(t).from
             c == Top(t).fromDepth
             caller == frame[t][depth[t] - 1]
         IN  /\ depth[t] >= 2 /\ depth[t] \in Depth /\ depth[t] - 1 \in Depth
             /\ Top(t).at = "run"
             /\ x \in Thread /\ x # t /\ c \in Depth /\ Open(x, c, t)
             /\ caller \in Frame /\ caller.at \in {"recv", "sendrecv"}
             /\ FrameOK(t, depth[t] - 1, caller, clock)
             /\ signaled' = [signaled EXCEPT ![x] = TRUE]
             /\ frame' \in [Thread -> [Depth -> Frame]]
             /\ frame'[x][c] = [frame[x][c] EXCEPT !.ready = TRUE]
             /\ \A y \in Thread, d \in Depth :
                  ~(y = x /\ d = c) /\ ~(y = t /\ d \in {depth[t] - 1, depth[t]}) =>
                    frame'[y][d] = frame[y][d]
             /\ \/ /\ Receivable(t, caller) = {} /\ UNCHANGED sendlist_
                   /\ frame'[t][depth[t] - 1] = Received(caller)
                   /\ depth' = [depth EXCEPT ![t] = @ - 1]
                \/ \E s \in Receivable(t, caller) :
                     /\ frame'[t][depth[t]] = Handling(s)
                     /\ frame'[t][depth[t] - 1] = caller
                     /\ sendlist_' = [sendlist_ EXCEPT ![t] = @ \ {s}]
                     /\ depth' = depth
<1> USE DEF Core, Base
<1> DEFINE x == Top(t).from
           c == Top(t).fromDepth
           caller == frame[t][depth[t] - 1]
           todo == Receivable(t, caller)
           a == [frame[x][c] EXCEPT !.ready = TRUE]
           answered == [frame EXCEPT ![x][c].ready = TRUE]
<1>1. depth[t] > 0 /\ Top(t).at = "run" /\ x # NoThread
  BY DEF SendHandled, At
<1>2. Top(t) \in Frame /\ depth[t] \in Depth /\ depth[t] \in Nat
  BY <1>1, TopOK DEF Depth
<1>3. x \in Thread /\ c \in Depth
  BY <1>1, <1>2 DEF Frame
<1>4. depth[t] >= 2 /\ depth[t] - 1 \in Depth /\ depth[t] - 1 \in 1..depth[t]
      /\ depth[t] \in 2..depth[t]
  BY <1>1, <1>2 DEF Shape, Top, Depth
<1>5. caller \in Frame /\ FrameOK(t, depth[t] - 1, caller, clock) /\ Pair(caller, Top(t))
  BY <1>4 DEF TypeOK, Shape, Top
<1>6. caller.at \in {"recv", "sendrecv"}
  BY <1>1, <1>5 DEF Pair
<1>7. Open(x, c, t)
  <2>1. Runs(t, depth[t], x, c)
    BY <1>2 DEF Runs, Top
  <2> QED
    BY <1>2, <1>3, <2>1 DEF Account
<1>8. x # t
  <2>1. c \in 1..depth[x] /\ frame[x][c].at \in SendLabels /\ frame[x][c].peer = t
    BY <1>3, <1>7 DEF Open, Sending, Depth, TypeOK
  <2>2. FrameOK(x, c, frame[x][c], clock)
    BY <1>3, <2>1 DEF Shape
  <2> QED
    BY <2>1, <2>2 DEF FrameOK
<1>9. a \in Frame
  <2>1. frame[x][c] \in Frame
    BY <1>3 DEF TypeOK
  <2> HIDE DEF x, c
  <2> QED
    BY <2>1 DEF Frame
<1>10. answered = [frame EXCEPT ![x] = [frame[x] EXCEPT ![c] = a]]
  BY <1>3 DEF TypeOK
<1>11. signaled' = [signaled EXCEPT ![x] = TRUE]
  BY DEF SendHandled
<1>12. CASE todo = {}
  <2>1. /\ frame' = [answered EXCEPT ![t][depth[t]] = Free, ![t][depth[t] - 1] = Received(caller)]
        /\ depth' = [depth EXCEPT ![t] = @ - 1] /\ UNCHANGED sendlist_
    BY <1>12 DEF SendHandled
  <2>2. Received(caller) \in Frame /\ Free \in Frame
    BY <1>4, <1>5, <1>6, ReceivedStands, UserFrame DEF Free
  <2> HIDE DEF a, caller
  <2>3. frame' = [frame EXCEPT ![x] = [frame[x] EXCEPT ![c] = a],
                               ![t] = [[frame[t] EXCEPT ![depth[t]] = Free]
                                         EXCEPT ![depth[t] - 1] = Received(caller)]]
    BY <1>2, <1>3, <1>4, <1>8, <1>10, <2>1 DEF TypeOK
  <2>4. /\ frame' \in [Thread -> [Depth -> Frame]] /\ frame'[x][c] = a
        /\ frame'[t][depth[t] - 1] = Received(caller)
        /\ \A y \in Thread, d \in Depth :
             ~(y = x /\ d = c) /\ ~(y = t /\ d \in {depth[t] - 1, depth[t]}) =>
                frame'[y][d] = frame[y][d]
    BY <1>2, <1>3, <1>4, <1>8, <1>9, <2>2, <2>3 DEF TypeOK
  <2> QED
    BY <1>1, <1>2, <1>3, <1>4, <1>5, <1>6, <1>7, <1>8, <1>11, <1>12, <2>1, <2>4 DEF a,
       caller
<1>13. CASE todo # {}
  <2> DEFINE s == FirstOf(todo)
  <2>1. /\ frame' = [answered EXCEPT ![t][depth[t]] = Handling(s)]
        /\ sendlist_' = [sendlist_ EXCEPT ![t] = @ \ {s}] /\ depth' = depth
    BY <1>13 DEF SendHandled
  <2>2. s \in todo
    <3>1. \A r \in todo : r.pos \in Nat
      BY DEF Receivable, TypeOK, Sent
    <3> HIDE DEF todo
    <3> QED
      BY <1>13, <3>1, FirstExists
  <2>3. Handling(s) \in Frame
    <3>1. s \in sendlist_[t]
      BY <2>2 DEF Receivable
    <3> QED
      BY <3>1, HandlingFrame
  <2> HIDE DEF a, caller, s
  <2>4. frame' = [frame EXCEPT ![x] = [frame[x] EXCEPT ![c] = a],
                               ![t] = [frame[t] EXCEPT ![depth[t]] = Handling(s)]]
    BY <1>2, <1>3, <1>4, <1>8, <1>10, <2>1 DEF TypeOK
  <2>5. /\ frame' \in [Thread -> [Depth -> Frame]] /\ frame'[x][c] = a
        /\ frame'[t][depth[t]] = Handling(s)
        /\ frame'[t][depth[t] - 1] = frame[t][depth[t] - 1]
        /\ \A y \in Thread, d \in Depth :
             ~(y = x /\ d = c) /\ ~(y = t /\ d \in {depth[t] - 1, depth[t]}) =>
                frame'[y][d] = frame[y][d]
    <3>1. frame \in [Thread -> [Depth -> Frame]]
      BY DEF TypeOK
    <3>2. frame'[t] = [frame[t] EXCEPT ![depth[t]] = Handling(s)]
      BY <1>8, <2>4, <3>1
    <3>3. frame'[x] = [frame[x] EXCEPT ![c] = a]
      BY <1>3, <1>8, <2>4, <3>1
    <3>4. \A y \in Thread : y # x /\ y # t => frame'[y] = frame[y]
      BY <2>4, <3>1
    <3>5. frame'[t] \in [Depth -> Frame] /\ frame'[x] \in [Depth -> Frame]
      BY <1>2, <1>3, <1>9, <2>3, <3>1, <3>2, <3>3
    <3>6. frame' \in [Thread -> [Depth -> Frame]]
      BY <1>3, <2>4, <3>1, <3>2, <3>3, <3>5
    <3>7. frame'[x][c] = a /\ \A d \in Depth : d # c => frame'[x][d] = frame[x][d]
      BY <1>3, <3>1, <3>3
    <3>8. frame'[t][depth[t]] = Handling(s)
          /\ \A d \in Depth : d # depth[t] => frame'[t][d] = frame[t][d]
      BY <1>2, <3>1, <3>2
    <3> QED
      BY <1>2, <1>3, <1>4, <3>4, <3>6, <3>7, <3>8
  <2> QED
    BY <1>1, <1>2, <1>3, <1>4, <1>5, <1>6, <1>7, <1>8, <1>11, <2>1, <2>2, <2>5 DEF a, caller
<1> QED
  BY <1>12, <1>13

\* Call g is call f, possibly answered.
SameCall(f, g) ==
  /\ g.at = f.at /\ g.peer = f.peer /\ g.handler = f.handler /\ g.when = f.when
  /\ g.waited = f.waited /\ g.from = f.from /\ g.fromDepth = f.fromDepth
  /\ g.cur = f.cur /\ g.end = f.end
  /\ f.at \notin SendLabels => g.ready = f.ready

LEMMA SameCallOK ==
  ASSUME NEW f, NEW g, SameCall(f, g)
  PROVE  /\ \A t, e, now : FrameOK(t, e, f, now) => FrameOK(t, e, g, now)
         /\ \A h : (Pair(f, h) => Pair(g, h)) /\ (Pair(h, f) => Pair(h, g))
BY DEF SameCall, FrameOK, Pair

\* The stack of y when at most answers were written to it.
LEMMA SameStack ==
  ASSUME Base, NEW y \in Thread, depth'[y] = depth[y], UNCHANGED <<joined, clock>>,
         \A d \in 1..depth[y] : SameCall(frame[y][d], frame'[y][d])
  PROVE  /\ \A e \in 1..depth'[y] : FrameOK(y, e, frame'[y][e], clock')
         /\ \A e \in 2..depth'[y] : Pair(frame'[y][e - 1], frame'[y][e])
         /\ depth'[y] > 0 => frame'[y][1].from = NoThread
         /\ y \in joined' => depth'[y] = 0
<1>1. depth[y] \in Nat /\ Shape
  BY DEF Base, TypeOK
<1>2. \A e \in 1..depth[y] : FrameOK(y, e, frame'[y][e], clock)
  BY <1>1, SameCallOK DEF Shape
<1>3. ASSUME NEW e \in 2..depth[y] PROVE Pair(frame'[y][e - 1], frame'[y][e])
  <2>1. e \in 1..depth[y] /\ e - 1 \in 1..depth[y] /\ Pair(frame[y][e - 1], frame[y][e])
    BY <1>1 DEF Shape
  <2>2. Pair(frame'[y][e - 1], frame[y][e])
    BY <2>1, SameCallOK
  <2> QED
    BY <2>1, <2>2, SameCallOK
<1>4. depth[y] > 0 => frame'[y][1].from = NoThread
  BY <1>1 DEF Shape, SameCall
<1> QED
  BY <1>1, <1>2, <1>3, <1>4 DEF Shape

LEMMA SendHandledCore ==
  ASSUME Core, NEW t \in Thread, SendHandled(t)
  PROVE  Core'
<1> USE DEF Core, Base
<1>1. PICK x, c, caller, n : 
        /\ x = Top(t).from /\ c = Top(t).fromDepth /\ caller = frame[t][depth[t] - 1]
        /\ n = depth[t]
  OBVIOUS
<1>2. /\ n >= 2 /\ n \in Depth /\ n - 1 \in Depth /\ n \in Nat
      /\ Top(t).at = "run"
      /\ x \in Thread /\ x # t /\ c \in Depth /\ Open(x, c, t)
      /\ caller \in Frame /\ caller.at \in {"recv", "sendrecv"}
      /\ FrameOK(t, n - 1, caller, clock)
      /\ signaled' = [signaled EXCEPT ![x] = TRUE]
      /\ frame' \in [Thread -> [Depth -> Frame]]
      /\ frame'[x][c] = [frame[x][c] EXCEPT !.ready = TRUE]
      /\ \A y \in Thread, d \in Depth :
           ~(y = x /\ d = c) /\ ~(y = t /\ d \in {n - 1, n}) => frame'[y][d] = frame[y][d]
  BY <1>1, SendHandledEffect DEF Depth
<1>3. \/ /\ Receivable(t, caller) = {} /\ UNCHANGED sendlist_
         /\ frame'[t][n - 1] = Received(caller)
         /\ depth' = [depth EXCEPT ![t] = @ - 1]
      \/ \E s \in Receivable(t, caller) :
           /\ frame'[t][n] = Handling(s) /\ frame'[t][n - 1] = caller
           /\ sendlist_' = [sendlist_ EXCEPT ![t] = @ \ {s}] /\ depth' = depth
  BY <1>1, SendHandledEffect
<1>4. /\ frame \in [Thread -> [Depth -> Frame]] /\ depth \in [Thread -> 0..MaxDepth]
      /\ clock \in Nat /\ n = depth[t]
  BY <1>1 DEF TypeOK
<1>5. UNCHANGED <<msgq_, dmsgq_, dmsgq_next_num_, appended, stop_, joined, clock, ops>>
  BY DEF SendHandled
<1>6. Delayed'
  BY <1>5 DEF Delayed
<1>7. /\ Sending(x, c, t) /\ c <= depth[x] /\ frame[x][c].at \in SendLabels
      /\ frame'[x][c].ready /\ SameCall(frame[x][c], frame'[x][c])
  <2>1. Sending(x, c, t) /\ c <= depth[x] /\ frame[x][c].at \in SendLabels
    BY <1>2 DEF Open, Sending
  <2>2. frame[x][c] \in Frame
    BY <1>2, <1>4
  <2> QED
    BY <1>2, <2>1, <2>2 DEF SameCall, Frame
<1>8. \A y \in Thread, d \in Depth :
        (y = t /\ d \in {n - 1, n}) \/ SameCall(frame[y][d], frame'[y][d])
  <2>1. ASSUME NEW y \in Thread, NEW d \in Depth, ~(y = t /\ d \in {n - 1, n})
        PROVE  SameCall(frame[y][d], frame'[y][d])
    <3> HIDE DEF Core, Base
    <3>1. CASE y = x /\ d = c
      BY <1>7, <3>1
    <3>2. CASE ~(y = x /\ d = c)
      <4>1. frame'[y][d] = frame[y][d]
        BY <1>2, <2>1, <3>2
      <4> QED
        BY <4>1 DEF SameCall
    <3> QED
      BY <3>1, <3>2
  <2> QED
    BY <2>1
<1>9. \A y \in Thread : y # t => depth'[y] = depth[y]
  BY <1>3, <1>4
<1>10. ASSUME NEW y \in Thread, y # t
       PROVE  /\ \A e \in 1..depth'[y] : FrameOK(y, e, frame'[y][e], clock')
              /\ \A e \in 2..depth'[y] : Pair(frame'[y][e - 1], frame'[y][e])
              /\ depth'[y] > 0 => frame'[y][1].from = NoThread
              /\ y \in joined' => depth'[y] = 0
  <2>1. \A d \in 1..depth[y] : SameCall(frame[y][d], frame'[y][d])
    BY <1>4, <1>8, <1>10 DEF Depth
  <2> QED
    BY <1>5, <1>9, <1>10, <2>1, SameStack
<1>11. signaled' \in [Thread -> BOOLEAN]
  BY <1>2 DEF TypeOK
<1>12. /\ Runs(t, n, x, c) /\ t \notin joined
       /\ Pair(caller, Top(t)) /\ frame[t][n] = Top(t)
  <2>1. n \in 2..depth[t]
    BY <1>2, <1>4
  <2>2. frame[t][n] = Top(t)
    BY <1>4 DEF Top
  <2>3. Pair(caller, Top(t))
    BY <1>1, <1>4, <2>1, <2>2 DEF Shape
  <2>4. t \notin joined
    BY <1>2, <1>4 DEF Shape
  <2>5. Runs(t, n, x, c)
    BY <1>1, <1>2, <1>4, <2>2 DEF Runs
  <2> QED
    BY <2>2, <2>3, <2>4, <2>5
<1>13. \A d \in Depth : d < n - 1 => frame'[t][d] = frame[t][d]
  BY <1>2
<1>14. \A e \in Depth : e <= n - 1 => FrameOK(t, e, frame[t][e], clock)
  BY <1>2, <1>4 DEF Shape, Depth
<1>15. ASSUME NEW e \in Depth, e >= 2, e <= n - 1 PROVE Pair(frame[t][e - 1], frame[t][e])
  <2>1. e \in 2..depth[t]
    BY <1>2, <1>4, <1>15 DEF Depth
  <2> QED
    BY <2>1 DEF Shape
<1>16. frame[t][1].from = NoThread
  BY <1>2, <1>4 DEF Shape
<1>17. CASE /\ UNCHANGED sendlist_ /\ frame'[t][n - 1] = Received(caller)
            /\ depth' = [depth EXCEPT ![t] = @ - 1]
  <2>1. depth'[t] = n - 1 /\ depth' \in [Thread -> 0..MaxDepth]
    BY <1>2, <1>4, <1>17 DEF Depth
  <2>2. /\ Received(caller) \in Frame /\ FrameOK(t, n - 1, Received(caller), clock)
        /\ Received(caller).from = caller.from /\ Received(caller).fromDepth = caller.fromDepth
        /\ Received(caller).peer = caller.peer /\ SameSend(caller, Received(caller))
    <3>1. PICK e \in Depth : e = n - 1
      BY <1>2
    <3> QED
      BY <1>2, <3>1, ReceivedStands
  <2>3. /\ \A e \in 1..depth'[t] : FrameOK(t, e, frame'[t][e], clock')
        /\ \A e \in 2..depth'[t] : Pair(frame'[t][e - 1], frame'[t][e])
        /\ depth'[t] > 0 => frame'[t][1].from = NoThread
        /\ t \in joined' => depth'[t] = 0
    <3>1. ASSUME NEW e \in 1..(n - 1) PROVE FrameOK(t, e, frame'[t][e], clock')
      <4>1. e \in Depth /\ (e = n - 1 \/ e < n - 1) /\ e <= n - 1
        BY <1>2 DEF Depth
      <4>2. CASE e = n - 1
        BY <1>5, <1>17, <2>2, <4>2
      <4>3. CASE e < n - 1
        BY <1>5, <1>13, <1>14, <4>1, <4>3
      <4> QED
        BY <4>1, <4>2, <4>3
    <3>2. ASSUME NEW e \in 2..(n - 1) PROVE Pair(frame'[t][e - 1], frame'[t][e])
      <4>1. e \in Depth /\ e - 1 \in Depth /\ e - 1 < n - 1
        BY <1>2 DEF Depth
      <4>2. Pair(frame[t][e - 1], frame[t][e]) /\ frame'[t][e - 1] = frame[t][e - 1]
        BY <1>13, <1>15, <4>1
      <4>3. CASE e = n - 1
        BY <1>1, <1>4, <1>17, <2>2, <4>2, <4>3 DEF Pair
      <4>4. CASE e # n - 1
        BY <1>2, <1>13, <4>1, <4>2, <4>4
      <4> QED
        BY <4>3, <4>4
    <3>3. frame'[t][1].from = NoThread
      <4>1. CASE n = 2
        BY <1>1, <1>4, <1>16, <1>17, <2>2, <4>1
      <4>2. CASE n # 2
        BY <1>2, <1>13, <1>16, <4>2 DEF Depth
      <4> QED
        BY <4>1, <4>2
    <3> QED
      BY <1>5, <1>12, <2>1, <3>1, <3>2, <3>3
  <2>4. Shape'
    BY <1>10, <2>3 DEF Shape
  <2>5. TypeOK'
    BY <1>2, <1>5, <1>11, <1>17, <2>1 DEF TypeOK
  <2>6. \A y \in Thread, d \in Depth :
          \/ y = t /\ d = n /\ ~(d <= depth'[y])
          \/ y = t /\ d = n - 1 /\ d <= depth[y] /\ d <= depth'[y] 
             /\ frame[y][d] = caller /\ frame'[y][d] = Received(caller)
          \/ y = x /\ d = c /\ d <= depth[y] /\ d <= depth'[y]
          \/ frame'[y][d] = frame[y][d] /\ (d <= depth'[y] <=> d <= depth[y])
    BY <1>1, <1>2, <1>4, <1>7, <1>9, <1>17, <2>1, SMTT(30) DEF Depth
  <2>7. ASSUME NEW y \in Thread, NEW d \in Depth, NEW u \in Thread
        PROVE  Open(y, d, u)' <=> Open(y, d, u) /\ ~(y = x /\ d = c)
    <3>1. CASE y = t /\ d = n
      BY <1>2, <1>12, <2>6, <3>1 DEF Open, Sending, SendLabels
    <3>2. CASE y = t /\ d = n - 1
      BY <1>2, <2>2, <2>6, <3>2 DEF Open, Sending, SameSend
    <3>3. CASE y = x /\ d = c
      BY <1>7, <3>3 DEF Open, Sending
    <3>4. CASE ~(y = t /\ d \in {n - 1, n}) /\ ~(y = x /\ d = c)
      BY <2>6, <3>4 DEF Open, Sending
    <3> QED
      BY <3>1, <3>2, <3>3, <3>4
  <2>8. ASSUME NEW u \in Thread, NEW h \in Depth, NEW y \in Thread, NEW d \in Depth
        PROVE  Runs(u, h, y, d)' <=> Runs(u, h, y, d) /\ ~(u = t /\ h = n)
    <3>1. CASE u = t /\ h = n
      BY <1>2, <2>1, <3>1 DEF Runs
    <3>2. CASE u = t /\ h = n - 1
      BY <1>2, <2>2, <2>6, <3>2 DEF Runs
    <3>3. CASE u = x /\ h = c
      BY <1>2, <1>7, <1>9, <3>3 DEF Runs, SameCall
    <3>4. CASE ~(u = t /\ h \in {n - 1, n}) /\ ~(u = x /\ h = c)
      BY <2>6, <3>4 DEF Runs
    <3> QED
      BY <3>1, <3>2, <3>3, <3>4
  <2>9. Answers(t, n, x, c)
    BY <1>12, <2>7 DEF Answers
  <2>10. Account' /\ Once'
    BY <1>2, <1>17, <2>8, <2>9, AnsweredLinks
  <2> QED
    BY <1>6, <2>4, <2>5, <2>10
<1>18. ASSUME NEW s \in Receivable(t, caller), 
              frame'[t][n] = Handling(s), frame'[t][n - 1] = caller,
              sendlist_' = [sendlist_ EXCEPT ![t] = @ \ {s}], depth' = depth
       PROVE  Core'
  <2>1. s \in sendlist_[t] /\ (caller.at = "sendrecv" => s.from = caller.peer)
    BY DEF Receivable
  <2>2. /\ Handling(s) \in Frame /\ Handling(s).at = "run"
        /\ Handling(s).from = s.from /\ Handling(s).fromDepth = s.depth
        /\ s.from \in Thread /\ s.depth \in Depth /\ s.from # NoThread
        /\ \A e \in Depth : FrameOK(t, e, Handling(s), clock)
    BY <2>1, HandlingFrame
  <2>3. Pair(caller, Handling(s))
    BY <1>2, <2>1, <2>2 DEF Pair
  <2>4. \A d \in Depth : d <= n - 1 => frame'[t][d] = frame[t][d]
    BY <1>1, <1>2, <1>4, <1>13, <1>18 DEF Depth
  <2>5. /\ \A e \in 1..depth'[t] : FrameOK(t, e, frame'[t][e], clock')
        /\ \A e \in 2..depth'[t] : Pair(frame'[t][e - 1], frame'[t][e])
        /\ depth'[t] > 0 => frame'[t][1].from = NoThread
        /\ t \in joined' => depth'[t] = 0
    <3>1. ASSUME NEW e \in 1..n PROVE FrameOK(t, e, frame'[t][e], clock')
      <4>1. e \in Depth /\ (e = n \/ e <= n - 1)
        BY <1>2 DEF Depth
      <4> QED
        BY <1>5, <1>14, <1>18, <2>2, <2>4, <4>1
    <3>2. ASSUME NEW e \in 2..n PROVE Pair(frame'[t][e - 1], frame'[t][e])
      <4>1. e \in Depth /\ e - 1 \in Depth /\ e - 1 <= n - 1 /\ (e = n \/ e <= n - 1)
        BY <1>2 DEF Depth
      <4>2. CASE e = n
        BY <1>18, <2>3, <4>2
      <4>3. CASE e <= n - 1
        BY <1>15, <2>4, <4>1, <4>3
      <4> QED
        BY <4>1, <4>2, <4>3
    <3>3. frame'[t][1].from = NoThread
      BY <1>2, <1>16, <2>4 DEF Depth
    <3> QED
      BY <1>4, <1>5, <1>12, <1>18, <3>1, <3>2, <3>3
  <2>6. Shape'
    BY <1>10, <2>5 DEF Shape
  <2>7. sendlist_' \in [Thread -> SUBSET Sent]
    BY <1>18 DEF TypeOK
  <2>8. TypeOK'
    BY <1>2, <1>4, <1>5, <1>11, <1>18, <2>7 DEF TypeOK
  <2>9. \A y \in Thread, d \in Depth :
          \/ y = t /\ d = n /\ frame'[y][d] = Handling(s) /\ frame[y][d] = Top(t)
          \/ y = x /\ d = c /\ ~(y = t /\ d = n)
          \/ frame'[y][d] = frame[y][d] /\ ~(y = t /\ d = n) /\ ~(y = x /\ d = c)
    BY <1>1, <1>2, <1>4, <1>12, <1>18, SMTT(30) DEF Depth
  <2>10. ASSUME NEW y \in Thread, NEW d \in Depth, NEW u \in Thread
         PROVE  Open(y, d, u)' <=> Open(y, d, u) /\ ~(y = x /\ d = c)
    <3>1. CASE y = t /\ d = n
      BY <1>2, <1>18, <2>2, <2>9, <3>1 DEF Open, Sending, SendLabels
    <3>2. CASE y = x /\ d = c
      BY <1>7, <3>2 DEF Open, Sending
    <3>3. CASE ~(y = t /\ d = n) /\ ~(y = x /\ d = c)
      BY <1>18, <2>9, <3>3 DEF Open, Sending
    <3> QED
      BY <3>1, <3>2, <3>3
  <2>11. ASSUME NEW u \in Thread, NEW h \in Depth, NEW y \in Thread, NEW d \in Depth
         PROVE  Runs(u, h, y, d)' <=> \/ Runs(u, h, y, d) /\ ~(u = t /\ h = n)
                                      \/ u = t /\ h = n /\ y = s.from /\ d = s.depth
    <3>1. CASE u = t /\ h = n
      BY <1>2, <1>4, <1>18, <2>2, <2>9, <3>1 DEF Runs
    <3>2. CASE u = x /\ h = c
      BY <1>2, <1>7, <1>18, <3>2 DEF Runs, SameCall
    <3>3. CASE ~(u = t /\ h = n) /\ ~(u = x /\ h = c)
      BY <1>18, <2>9, <3>3 DEF Runs
    <3> QED
      BY <3>1, <3>2, <3>3
  <2>12. Answers(t, n, x, c)
    BY <1>12, <2>10 DEF Answers
  <2>13. Account' /\ Once'
    <3>1. Account /\ Once /\ TypeOK /\ n \in Depth /\ x \in Thread /\ c \in Depth
      BY <1>2
    <3>2. s \in sendlist_[t] /\ sendlist_' = [sendlist_ EXCEPT ![t] = @ \ {s}]
      BY <1>18, <2>1
    <3>3. \A u \in Thread, h \in Depth, y \in Thread, d \in Depth :
            Runs(u, h, y, d)' <=> \/ Runs(u, h, y, d) /\ ~(u = t /\ h = n)
                                  \/ u = t /\ h = n /\ y = s.from /\ d = s.depth
      BY <2>11
    <3> QED
      BY <2>12, <3>1, <3>2, <3>3, AnsweredNextLinks, ZenonT(40)
  <2> QED
    BY <1>6, <2>6, <2>8, <2>13
<1> QED
  BY <1>3, <1>17, <1>18

\* Lists get shorter, and Sends may have been answered and their threads woken.
Cleared ==
  /\ depth' = depth /\ stop_' = stop_
  /\ \A x \in Thread :
       /\ sendlist_'[x] \subseteq sendlist_[x] /\ msgq_'[x] \subseteq msgq_[x]
       /\ dmsgq_'[x] \subseteq dmsgq_[x] /\ (signaled[x] => signaled'[x])
  /\ \A x \in Thread, d \in Depth : SameCall(frame[x][d], frame'[x][d])
  /\ \A x \in Thread, d \in Depth : frame'[x][d].ready => frame[x][d].ready \/ signaled'[x]

\* Clear: the calls whose messages are deleted are answered, all others are
\* left as they are.
LEMMA CallClearCore ==
  ASSUME Core, NEW t \in Thread, CallClear(t)
  PROVE  Core' /\ Cleared
<1> USE DEF Core, Base
<1> DEFINE Answered(u, h, x, d) == \E s \in sendlist_[u] :
                                     s.handler = h /\ s.from = x /\ s.depth = d
           Others(S, h) == {e \in S : e.handler # h}
<1>1. PICK u \in Thread, h \in Handler :
        /\ sendlist_' = [sendlist_ EXCEPT ![u] = Others(@, h)]
        /\ msgq_' = [msgq_ EXCEPT ![u] = Others(@, h)]
        /\ dmsgq_' = [dmsgq_ EXCEPT ![u] = Others(@, h)]
        /\ frame' = [x \in Thread |-> [d \in Depth |->
                       [frame[x][d] EXCEPT !.ready = @ \/ Answered(u, h, x, d)]]]
        /\ signaled' = [x \in Thread |-> signaled[x] \/ \E d \in Depth : Answered(u, h, x, d)]
  BY DEF CallClear
<1>2. UNCHANGED <<dmsgq_next_num_, appended, stop_, depth, joined, clock>> /\ ops' \in Nat
  BY DEF CallClear, Call, TypeOK
<1> HIDE DEF Answered
<1>3. \A x \in Thread, d \in Depth : Answered(u, h, x, d) => Open(x, d, u)
  BY DEF Answered, Account
<1>4. ASSUME NEW x \in Thread, NEW d \in Depth
      PROVE  /\ frame'[x][d] \in Frame /\ SameCall(frame[x][d], frame'[x][d])
             /\ Answered(u, h, x, d) => frame'[x][d].ready
             /\ ~Answered(u, h, x, d) => frame'[x][d] = frame[x][d]
  <2>1. frame[x][d] \in Frame
    BY DEF TypeOK
  <2>2. frame'[x][d] = [frame[x][d] EXCEPT !.ready = @ \/ Answered(u, h, x, d)]
    BY <1>1
  <2>3. CASE Answered(u, h, x, d)
    <3>1. frame'[x][d] = [frame[x][d] EXCEPT !.ready = TRUE]
      BY <2>2, <2>3
    <3>2. frame[x][d].at \in SendLabels
      BY <1>3, <2>3 DEF Open, Sending
    <3> QED
      BY <2>1, <2>3, <3>1, <3>2 DEF Frame, SameCall
  <2>4. CASE ~Answered(u, h, x, d)
    <3>1. (frame[x][d].ready \/ Answered(u, h, x, d)) = frame[x][d].ready
      BY <2>1, <2>4 DEF Frame
    <3>2. frame'[x][d] = [frame[x][d] EXCEPT !.ready = frame[x][d].ready]
      BY <2>2, <3>1
    <3>3. frame'[x][d] = frame[x][d]
      BY <2>1, <3>2 DEF Frame
    <3> QED
      BY <2>1, <2>4, <3>3 DEF Frame, SameCall
  <2> QED
    BY <2>3, <2>4
<1>5. /\ \A y \in Thread : sendlist_'[y] = IF y = u THEN Others(sendlist_[u], h) ELSE sendlist_[y]
      /\ \A y \in Thread : msgq_'[y] = IF y = u THEN Others(msgq_[u], h) ELSE msgq_[y]
      /\ \A y \in Thread : dmsgq_'[y] = IF y = u THEN Others(dmsgq_[u], h) ELSE dmsgq_[y]
  BY <1>1 DEF TypeOK
<1>6. TypeOK'
  <2>1. frame' \in [Thread -> [Depth -> Frame]]
    <3>1. \A x \in Thread : frame'[x] = [d \in Depth |-> frame'[x][d]]
      BY <1>1
    <3>2. \A x \in Thread : frame'[x] \in [Depth -> Frame]
      BY <1>4, <3>1
    <3> QED
      BY <1>1, <3>2
  <2>2. signaled' \in [Thread -> BOOLEAN]
    BY <1>1
  <2>3. sendlist_' \in [Thread -> SUBSET Sent] /\ msgq_' \in [Thread -> SUBSET Message]
        /\ dmsgq_' \in [Thread -> SUBSET Message]
    BY <1>1 DEF TypeOK
  <2> QED
    BY <1>2, <2>1, <2>2, <2>3 DEF TypeOK
<1>7. Shape'
  <2>1. ASSUME NEW y \in Thread
        PROVE  /\ \A e \in 1..depth'[y] : FrameOK(y, e, frame'[y][e], clock')
               /\ \A e \in 2..depth'[y] : Pair(frame'[y][e - 1], frame'[y][e])
               /\ depth'[y] > 0 => frame'[y][1].from = NoThread
               /\ y \in joined' => depth'[y] = 0
    <3>1. \A d \in 1..depth[y] : d \in Depth
      BY DEF TypeOK, Depth
    <3>2. \A d \in 1..depth[y] : SameCall(frame[y][d], frame'[y][d])
      BY <1>4, <3>1
    <3> QED
      BY <1>2, <3>2, SameStack
  <2> QED
    BY <2>1 DEF Shape
<1>8. Delayed'
  <2>1. \A y \in Thread : dmsgq_'[y] \subseteq dmsgq_[y]
    BY <1>5
  <2> QED
    BY <2>1, FS_Subset DEF Delayed
<1>9. ASSUME NEW x \in Thread, NEW d \in Depth, NEW y \in Thread
      PROVE  Open(x, d, y)' <=> Open(x, d, y) /\ ~Answered(u, h, x, d)
  <2>1. CASE Answered(u, h, x, d)
    BY <1>4, <2>1 DEF Open, Sending
  <2>2. CASE ~Answered(u, h, x, d)
    BY <1>2, <1>4, <2>2 DEF Open, Sending
  <2> QED
    BY <2>1, <2>2
<1>10. \A y \in Thread, e \in Depth, x \in Thread, d \in Depth :
         Runs(y, e, x, d)' <=> Runs(y, e, x, d)
  BY <1>2, <1>4 DEF Runs, SameCall
<1>11. ASSUME NEW x \in Thread, NEW y \in Thread, NEW d \in Depth
       PROVE  Open(x, d, y)' <=> \/ \E s \in sendlist_'[y] : s.from = x /\ s.depth = d
                                 \/ \E e \in Depth : Runs(y, e, x, d)'
  <2>1. CASE Answered(u, h, x, d) /\ y = u
    <3>1. PICK s \in sendlist_[u] : s.handler = h /\ s.from = x /\ s.depth = d
      BY <2>1 DEF Answered
    <3>2. \A r \in sendlist_'[u] : ~(r.from = x /\ r.depth = d)
      <4>1. \A r \in sendlist_[u] : r.from = x /\ r.depth = d => r = s
        BY <3>1 DEF Once
      <4> QED
        BY <1>5, <3>1, <4>1
    <3>3. \A e \in Depth : ~Runs(u, e, x, d)
      BY <3>1 DEF Once
    <3> QED
      BY <1>9, <1>10, <2>1, <3>2, <3>3
  <2>2. CASE Answered(u, h, x, d) /\ y # u
    <3>1. ~Open(x, d, y)
      BY <1>3, <2>2, OneTarget
    <3> QED
      BY <1>5, <1>9, <1>10, <2>2, <3>1 DEF Account
  <2>3. CASE ~Answered(u, h, x, d)
    <3>1. (\E s \in sendlist_'[y] : s.from = x /\ s.depth = d)
            <=> \E s \in sendlist_[y] : s.from = x /\ s.depth = d
      BY <1>5, <2>3 DEF Answered
    <3> QED
      BY <1>9, <1>10, <2>3, <3>1 DEF Account
  <2> QED
    BY <2>1, <2>2, <2>3
<1>12. Account'
  BY <1>11 DEF Account
<1>13. Once'
  <2>1. \A y \in Thread : sendlist_'[y] \subseteq sendlist_[y]
    BY <1>5
  <2> HIDE DEF Others
  <2> QED
    BY <1>10, <2>1 DEF Once
<1>14. Cleared
  <2>1. \A x \in Thread : /\ sendlist_'[x] \subseteq sendlist_[x] /\ msgq_'[x] \subseteq msgq_[x]
                          /\ dmsgq_'[x] \subseteq dmsgq_[x]
    BY <1>5
  <2>2. \A x \in Thread : signaled[x] => signaled'[x]
    BY <1>1
  <2>3. \A x \in Thread, d \in Depth : Answered(u, h, x, d) => signaled'[x]
    BY <1>1
  <2> HIDE DEF Others
  <2> QED
    BY <1>2, <1>4, <2>1, <2>2, <2>3 DEF Cleared
<1> QED
  BY <1>6, <1>7, <1>8, <1>12, <1>13, <1>14
------------------------------------------------------------------------------
(* Types, and no Send is forgotten. *)

LEMMA TickCore ==
  ASSUME Core, Tick
  PROVE  Core'
<1> USE DEF Core, Base
<1>1. /\ clock \in Nat /\ clock' = clock + 1
      /\ UNCHANGED <<queues, stop_, signaled, stacks, joined, ops>>
  BY DEF Tick, TypeOK
<1>2. \A t, e, f : FrameOK(t, e, f, clock) => FrameOK(t, e, f, clock + 1)
  BY <1>1 DEF FrameOK
<1>3. Shape'
  BY <1>1, <1>2 DEF Shape, stacks
<1>4. TypeOK' /\ Delayed'
  BY <1>1 DEF TypeOK, Delayed, queues, stacks
<1>5. Account' /\ Once'
  BY <1>1, SameLinks DEF queues, stacks, Open, Runs, Sending
<1> QED
  BY <1>3, <1>4, <1>5

LEMMA StutterCore ==
  ASSUME Core, UNCHANGED vars
  PROVE  Core'
<1> USE DEF Core, Base, vars, queues, stacks
<1>1. TypeOK' /\ Delayed' /\ Shape'
  BY DEF TypeOK, Delayed, Shape
<1>2. Account' /\ Once'
  BY SameLinks DEF Open, Runs, Sending
<1> QED
  BY <1>1, <1>2

LEMMA InitCore ==
  ASSUME Init
  PROVE  Core
<1> USE DEF Init
<1> DEFINE first == [User EXCEPT !.at = "recv"]
<1>1. User \in Frame /\ first \in Frame /\ 1 \in Depth
  <2>1. User \in Frame
    BY UserFrame
  <2>2. first \in Frame
    BY <2>1 DEF Frame, Labels
  <2> QED
    BY <2>1, <2>2 DEF Depth
<1>2. /\ User.at = "run" /\ User.from = NoThread /\ ~User.ready /\ ~User.waited
      /\ first.at = "recv" /\ first.from = NoThread /\ ~first.ready /\ ~first.waited
      /\ first.fromDepth = 1 /\ first.cur = 0 /\ first.end = Forever
  BY DEF User
<1>3. ASSUME NEW t \in Thread
      PROVE  /\ depth[t] = 1 /\ t \notin joined
             /\ frame[t][1] = IF t \in Worker THEN first ELSE User
  BY <1>1 DEF Free
<1> HIDE DEF first
<1>4. Shape
  <2>1. clock = 0
    OBVIOUS
  <2> HIDE DEF Init
  <2>2. ASSUME NEW t \in Worker PROVE FrameOK(t, 1, first, 0)
    BY <1>2 DEF FrameOK, LoopLabels, SendLabels, Times, Forever
  <2>3. \A t \in Thread : FrameOK(t, 1, User, 0)
    BY <1>2 DEF FrameOK, LoopLabels, SendLabels
  <2>4. ASSUME NEW t \in Thread PROVE FrameOK(t, 1, frame[t][1], clock)
    BY <1>3, <2>1, <2>2, <2>3
  <2>5. ASSUME NEW t \in Thread PROVE 1..depth[t] = {1} /\ 2..depth[t] = {}
    BY <1>3
  <2>6. ASSUME NEW t \in Thread PROVE frame[t][1].from = NoThread
    BY <1>2, <1>3
  <2> QED
    BY <1>3, <2>4, <2>5, <2>6 DEF Shape
<1>5. TypeOK
  <2>1. msgq_ \in [Thread -> SUBSET Message]
    BY DEF Message, Immediate
  <2>2. frame \in [Thread -> [Depth -> Frame]]
    BY <1>1 DEF Free, first
  <2>3. depth \in [Thread -> 0..MaxDepth] /\ joined \in SUBSET Worker /\ clock \in Nat
        /\ ops \in Nat /\ stop_ \in [Thread -> BOOLEAN] /\ appended \in [Thread -> Nat]
        /\ dmsgq_next_num_ \in [Thread -> Nat]
    OBVIOUS
  <2>4. signaled \in [Thread -> BOOLEAN]
    OBVIOUS
  <2>5. dmsgq_ \in [Thread -> SUBSET Message] /\ sendlist_ \in [Thread -> SUBSET Sent]
    OBVIOUS
  <2> QED
    BY <2>1, <2>2, <2>3, <2>4, <2>5 DEF TypeOK
<1>6. Delayed
  BY FS_EmptySet DEF Delayed
<1>7. \A x \in Thread, d \in Depth, u \in Thread : ~Open(x, d, u)
  BY <1>2, <1>3 DEF Open, Sending, SendLabels, Depth
<1>8. \A u \in Thread, e \in Depth, x \in Thread, d \in Depth : ~Runs(u, e, x, d)
  BY <1>2, <1>3 DEF Runs, Depth
<1>9. Account /\ Once
  BY <1>7, <1>8 DEF Account, Once
<1> QED
  BY <1>4, <1>5, <1>6, <1>9 DEF Core, Base

LEMMA NextCore ==
  ASSUME Core, [Next]_vars
  PROVE  Core'
<1>1. CASE Tick
  BY <1>1, TickCore
<1>2. CASE UNCHANGED vars
  BY <1>2, StutterCore
<1>3. ASSUME NEW t \in Thread, Calls(t) PROVE Core'
  BY <1>3, QuietCore, CallClearCore, CallStartCore DEF Calls
<1>4. ASSUME NEW t \in Thread, Step(t) PROVE Core'
  BY <1>4, QuietCore, PushPostCore, PushSendCore, ReceiveSendsCore, SendHandledCore,
     ScanCore,
     NextPassCore, JoinCore DEF Step
<1> QED
  BY <1>1, <1>2, <1>3, <1>4 DEF Next

LEMMA CoreHolds == Spec => []Core
<1>1. Init => Core
  BY InitCore
<1>2. Core /\ [Next]_vars => Core'
  BY NextCore
<1> QED
  BY <1>1, <1>2, PTL DEF Spec

\* Whatever the threads call, and in whatever order they run, the queues and
\* the stacks keep their types.
THEOREM ThreadsTyped == Spec => []TypeOK
<1>1. Core => TypeOK
  BY DEF Core, Base
<1> QED
  BY <1>1, CoreHolds, PTL

\* Every message in a send list, and every handler of one, belongs to a Send
\* that is still waiting, and every waiting Send has one of them.
THEOREM SendsAreAccountedFor == Spec => []SendsAccountedFor
<1>1. Core => SendsAccountedFor
  <2> SUFFICES ASSUME Core, NEW t \in Thread, NEW u \in Thread
               PROVE  /\ \A d \in Depth :
                           Sending(t, d, u) /\ ~frame[t][d].ready =>
                             \/ \E s \in sendlist_[u] : s.from = t /\ s.depth = d
                             \/ \E e \in 1..depth[u] : frame[u][e].from = t
                                                       /\ frame[u][e].fromDepth = d
                      /\ \A s \in sendlist_[u] :
                           s.from = t => Sending(t, s.depth, u) /\ ~frame[t][s.depth].ready
                      /\ \A e \in 1..depth[u] :
                           frame[u][e].from = t =>
                             Sending(t, frame[u][e].fromDepth, u)
                               /\ ~frame[t][frame[u][e].fromDepth].ready
    BY DEF SendsAccountedFor
  <2> USE DEF Core, Base
  <2>1. depth[u] \in Nat /\ depth[u] <= MaxDepth
    BY DEF TypeOK
  <2>2. \A d \in Depth, e \in Depth : Runs(u, e, t, d) =>
          e \in 1..depth[u] /\ frame[u][e].from = t /\ frame[u][e].fromDepth = d
    BY <2>1 DEF Runs, Depth
  <2>3. \A d \in Depth : Open(t, d, u) =>
          \/ \E s \in sendlist_[u] : s.from = t /\ s.depth = d
          \/ \E e \in 1..depth[u] : frame[u][e].from = t /\ frame[u][e].fromDepth = d
    BY <2>2 DEF Account
  <2>4. \A s \in sendlist_[u] : s.from = t => Open(t, s.depth, u)
    BY DEF Account, TypeOK, Sent
  <2>5. ASSUME NEW e \in 1..depth[u], frame[u][e].from = t
        PROVE  Open(t, frame[u][e].fromDepth, u)
    <3>1. e \in Depth
      BY <2>1 DEF Depth
    <3>2. frame[u][e] \in Frame
      BY <3>1 DEF TypeOK
    <3>3. frame[u][e].fromDepth \in Depth
      BY <3>2 DEF Frame
    <3>4. Runs(u, e, t, frame[u][e].fromDepth)
      BY <2>1, <2>5 DEF Runs
    <3> QED
      BY <3>1, <3>3, <3>4 DEF Account
  <2> QED
    BY <2>3, <2>4, <2>5 DEF Open
<1> QED
  BY <1>1, CoreHolds, PTL
------------------------------------------------------------------------------
(* Wake-ups. *)

WakeLabels == {"wake", "sendwake", "stop"}

\* Thread t does not fall asleep, or wakes up.
Sleepless(t) == signaled[t] \/ WakeUpComing(t)

\* What thread t, with call f on top, knows about its queues.
Rested(f, t) ==
  /\ f.at \in {"scan", "pop", "quit", "wait"} => sendlist_[t] = {}
  /\ f.at \in {"pop", "quit", "wait"} => (dmsgq_[t] # {} => f.when # Forever)
  /\ f.at \in {"quit", "wait"} => msgq_[t] = {}
  /\ f.at = "wait" => ~stop_[t]
  /\ f.at = "sendwait" => \A s \in sendlist_[t] : s.from # f.peer

\* On its way to the wait it knows it, or it does not sleep.
Watchful == \A t \in Thread : depth[t] > 0 => Sleepless(t) \/ Rested(Top(t), t)

\* The call on top of x stands where it stood.
Still(x) ==
  /\ depth'[x] = depth[x]
  /\ depth[x] > 0 => /\ Top(x)'.at = Top(x).at /\ Top(x)'.peer = Top(x).peer
                     /\ Top(x)'.when = Top(x).when

\* Nothing is added to the queues of x, and it is not told to stop.
NoNews(x) ==
  /\ sendlist_'[x] \subseteq sendlist_[x] /\ msgq_'[x] \subseteq msgq_[x]
  /\ dmsgq_'[x] \subseteq dmsgq_[x] /\ (stop_'[x] => stop_[x])

LEMMA ComingStays ==
  ASSUME NEW t \in Thread, \A x \in Thread : x # t => Still(x), NEW x \in Thread,
         WakeUpComing(x), depth[t] > 0 /\ Top(t).at \in WakeLabels => Top(t).peer # x
  PROVE  WakeUpComing(x)'
<1>1. PICK y \in Thread, l \in WakeLabels : At(y, l) /\ Top(y).peer = x
  BY DEF WakeUpComing, WakeLabels
<1>2. y # t
  BY <1>1 DEF At
<1>3. depth'[y] > 0 /\ Top(y)'.at = l /\ Top(y)'.peer = x
  BY <1>1, <1>2 DEF Still, At
<1>4. At(y, l)'
  BY <1>3 DEF At
<1> QED
  BY <1>1, <1>3, <1>4 DEF WakeUpComing, WakeLabels

\* A step of t keeps the others watchful, if it announces what it brings them.
LEMMA WatchStep ==
  ASSUME Watchful, NEW t \in Thread,
         \A x \in Thread : x # t => Still(x) /\ (signaled[x] => signaled'[x]),
         \A x \in Thread : depth[t] > 0 /\ Top(t).at \in WakeLabels /\ Top(t).peer = x
                              => signaled'[x],
         \A x \in Thread : x # t => NoNews(x) \/ WakeUpComing(x)',
         depth'[t] > 0 => Sleepless(t)' \/ Rested(Top(t), t)'
  PROVE  Watchful'
<1>1. ASSUME NEW x \in Thread, x # t, depth'[x] > 0 PROVE Sleepless(x)' \/ Rested(Top(x), x)'
  <2>1. CASE Sleepless(x)
    BY <1>1, <2>1, ComingStays DEF Sleepless
  <2>2. CASE ~Sleepless(x) /\ NoNews(x)
    <3>1. Rested(Top(x), x)
      BY <1>1, <2>2 DEF Watchful, Still
    <3>2. /\ Top(x)'.at = Top(x).at /\ Top(x)'.peer = Top(x).peer /\ Top(x)'.when = Top(x).when
      BY <1>1 DEF Still
    <3> QED
      BY <2>2, <3>1, <3>2 DEF Rested, NoNews
  <2> QED
    BY <1>1, <2>1, <2>2 DEF Sleepless
<1> QED
  BY <1>1 DEF Watchful

\* Call labels at which a thread knows nothing.
Busy == {"run", "post", "wake", "send", "stop", "join", "sendwake", "check", "sendrecv",
         "recv", "got"}

LEMMA BusyRested ==
  ASSUME NEW f, NEW x, f.at \in Busy
  PROVE  Rested(f, x)
BY DEF Busy, Rested

\* The other stacks do not move when t's does.
LEMMA OthersStill ==
  ASSUME Base, NEW t \in Thread, depth[t] > 0,
         \/ UNCHANGED stacks \/ (\E f : Replaced(t, f)) \/ (\E f, g : Pushed(t, f, g)) \/ Popped(t)
  PROVE  \A x \in Thread : x # t => Still(x)
<1>1. ASSUME NEW x \in Thread, x # t PROVE Still(x)
  <2>1. depth \in [Thread -> 0..MaxDepth]
    BY DEF Base, TypeOK
  <2>2. depth'[x] = depth[x]
    BY <1>1, <2>1 DEF Replaced, Pushed, Popped, stacks
  <2>3. depth[x] > 0 => depth[x] \in Depth
    BY <2>1 DEF Depth
  <2>4. depth[x] > 0 => frame'[x][depth[x]] = frame[x][depth[x]]
    BY <1>1, <2>3 DEF Replaced, Pushed, Popped, stacks
  <2> QED
    BY <2>2, <2>4 DEF Still, Top
<1> QED
  BY <1>1

\* What is on top of t afterwards.
LEMMA TopAfter ==
  ASSUME Base, NEW t \in Thread, depth[t] > 0
  PROVE  /\ \A f : Replaced(t, f) => depth'[t] > 0 /\ Top(t)' = f
         /\ \A f, g : Pushed(t, f, g) => Top(t)' = g
         /\ Popped(t) /\ depth'[t] > 0 => Top(t)'.at \in Busy
<1>1. depth \in [Thread -> 0..MaxDepth] /\ depth[t] \in Nat
  BY DEF Base, TypeOK
<1>2. \A f : Replaced(t, f) => depth'[t] > 0 /\ Top(t)' = f
  BY <1>1 DEF Replaced, Top
<1>3. \A f, g : Pushed(t, f, g) => Top(t)' = g
  BY <1>1 DEF Pushed, Top
<1>4. ASSUME Popped(t), depth'[t] > 0 PROVE Top(t)'.at \in Busy
  <2>1. depth'[t] = depth[t] - 1 /\ depth[t] \in 2..depth[t] /\ depth[t] - 1 \in Depth
        /\ depth[t] - 1 # depth[t]
    BY <1>1, <1>4 DEF Popped, Depth
  <2>2. Top(t)' = frame[t][depth[t] - 1]
    BY <1>4, <2>1 DEF Popped, Top
  <2>3. Pair(frame[t][depth[t] - 1], frame[t][depth[t]])
    BY <2>1 DEF Base, Shape
  <2> QED
    BY <2>2, <2>3 DEF Pair, Busy
<1> QED
  BY <1>2, <1>3, <1>4

\* Steps that leave the queues alone and end where t knows nothing.
LEMMA QuietWatch ==
  ASSUME Core, Watchful, NEW t \in Thread,
         \/ CallPost(t) \/ CallSend(t) \/ CallProcessMessages(t) \/ WakeUp(t)
         \/ CheckReady(t) \/ SendWait(t) \/ HandlerReturns(t) \/ LoopAgain(t)
         \/ WaitSignal(t) \/ WaitTimeout(t)
  PROVE  Watchful'
<1> USE DEF Core
<1>1. depth[t] > 0
  BY DEF CallPost, CallSend, CallProcessMessages, Call, WakeUp, CheckReady, SendWait,
         HandlerReturns, LoopAgain, WaitSignal, WaitTimeout, At
<1>2. /\ \/ UNCHANGED stacks \/ (\E f : Replaced(t, f)) \/ (\E f, g : Pushed(t, f, g)) \/ Popped(t)
      /\ depth'[t] > 0 => Top(t)'.at \in Busy
  <2>1. CASE CallPost(t)
    <3>1. Top(t).at = "run"
      BY <2>1 DEF CallPost, Call, At
    <3> QED
      BY <1>1, <2>1, <3>1, CallPostLocal, TopAfter DEF Busy, stacks, Top
  <2>2. CASE CallSend(t)
    <3>1. Top(t).at = "run" /\ User.at = "run"
      BY <2>2 DEF CallSend, Call, At, User
    <3> QED
      BY <1>1, <2>2, <3>1, CallSendLocal, TopAfter DEF Busy, stacks, Top
  <2>3. CASE CallProcessMessages(t)
    BY <1>1, <2>3, CallProcessMessagesLocal, TopAfter DEF Busy
  <2>4. CASE WakeUp(t)
    <3>1. PICK f \in Frame : Replaced(t, f) /\ f.at \in {"run", "check", "join"}
      BY <2>4, WakeUpLocal
    <3> QED
      BY <1>1, <3>1, TopAfter DEF Busy
  <2>5. CASE CheckReady(t)
    <3>1. [Top(t) EXCEPT !.at = "sendrecv"].at = "sendrecv"
      BY <1>1, TopFrame DEF Base, Frame
    <3> QED
      BY <1>1, <2>5, <3>1, CheckReadyLocal, TopAfter DEF Busy
  <2>6. CASE SendWait(t)
    <3>1. [Top(t) EXCEPT !.at = "check", !.waited = TRUE].at = "check"
      BY <1>1, TopFrame DEF Base, Frame
    <3> QED
      BY <1>1, <2>6, <3>1, SendWaitLocal, TopAfter DEF Busy
  <2>7. CASE HandlerReturns(t)
    BY <1>1, <2>7, HandlerReturnsLocal, TopAfter
  <2>8. CASE LoopAgain(t)
    BY <1>1, <2>8, LoopAgainLocal, TopAfter DEF Busy
  <2>9. CASE WaitSignal(t) \/ WaitTimeout(t)
    <3>1. Top(t).at = "wait" /\ Awake(t)
      BY <2>9 DEF WaitSignal, WaitTimeout, At
    <3> QED
      BY <1>1, <3>1, AwakeLocal, TopAfter DEF Busy
  <2> QED
    BY <2>1, <2>2, <2>3, <2>4, <2>5, <2>6, <2>7, <2>8, <2>9
<1>3. UNCHANGED <<queues, stop_>>
  BY DEF CallPost, CallSend, CallProcessMessages, WakeUp, CheckReady, SendWait,
     HandlerReturns,
         LoopAgain, WaitSignal, WaitTimeout
<1>4. \A x \in Thread : NoNews(x)
  BY <1>3 DEF NoNews, queues
<1>5. \A x \in Thread : x # t => (signaled[x] => signaled'[x])
  <2>1. signaled \in [Thread -> BOOLEAN]
    BY DEF Base, TypeOK
  <2>2. CASE WakeUp(t)
    BY <2>1, <2>2 DEF WakeUp
  <2>3. CASE SendWait(t) \/ WaitSignal(t)
    BY <2>1, <2>3 DEF SendWait, WaitSignal
  <2>4. CASE CheckReady(t)
    <3>1. signaled' = [signaled EXCEPT ![t] = @ \/ Top(t).waited] \/ signaled' = signaled
      BY <2>4 DEF CheckReady
    <3> QED
      BY <2>1, <3>1
  <2>5. CASE UNCHANGED signaled
    BY <2>5
  <2> QED
    BY <2>2, <2>3, <2>4, <2>5 DEF CallPost, CallSend, CallProcessMessages, HandlerReturns,
       LoopAgain, WaitTimeout
<1>6. ASSUME NEW x \in Thread, Top(t).at \in WakeLabels, Top(t).peer = x PROVE signaled'[x]
  <2>1. WakeUp(t)
    BY <1>6 DEF CallPost, CallSend, CallProcessMessages, Call, CheckReady, SendWait,
       HandlerReturns, LoopAgain, WaitSignal, WaitTimeout, At, WakeLabels
  <2> QED
    BY <1>6, <2>1 DEF WakeUp, Base, TypeOK
<1>7. \A x \in Thread : x # t => Still(x)
  BY <1>1, <1>2, OthersStill
<1>8. depth'[t] > 0 => Rested(Top(t), t)'
  BY <1>2, BusyRested, Zenon DEF Busy, Rested
<1> QED
  BY <1>4, <1>5, <1>6, <1>7, <1>8, WatchStep

\* Steps that bring thread u something, and leave it to t to wake it.
LEMMA NewsWatch ==
  ASSUME Core, Watchful, NEW t \in Thread, depth[t] > 0, Top(t).at \notin WakeLabels,
         NEW f, Replaced(t, f), f.at \in WakeLabels, UNCHANGED signaled,
         \A x \in Thread : x # f.peer => NoNews(x)
  PROVE  Watchful'
<1> USE DEF Core
<1>1. depth'[t] > 0 /\ Top(t)' = f
  BY TopAfter
<1>2. At(t, f.at)'
  BY <1>1 DEF At
<1>3. \A x \in Thread : x = f.peer => WakeUpComing(x)'
  BY <1>1, <1>2 DEF WakeUpComing, WakeLabels
<1>4. \A x \in Thread : x # t => Still(x)
  BY OthersStill
<1>5. Rested(Top(t), t)'
  BY <1>1 DEF Rested, WakeLabels
<1> QED
  BY <1>3, <1>4, <1>5, WatchStep

LEMMA PushPostWatch ==
  ASSUME Core, Watchful, NEW t \in Thread, PushPost(t)
  PROVE  Watchful'
<1> USE DEF Core, Base
<1> DEFINE f == [Top(t) EXCEPT !.at = "wake"]
<1>1. depth[t] > 0 /\ Top(t).at = "post" /\ Replaced(t, f) /\ UNCHANGED signaled
  BY PushPostLocal DEF PushPost, At
<1>2. f.at \in WakeLabels /\ f.peer = Top(t).peer
  BY <1>1, TopFrame DEF Frame, WakeLabels
<1>3. ASSUME NEW x \in Thread, x # Top(t).peer PROVE NoNews(x)
  <2>1. UNCHANGED <<sendlist_, stop_>>
    BY DEF PushPost
  <2>2. msgq_'[x] = msgq_[x] /\ dmsgq_'[x] = dmsgq_[x]
    BY <1>3 DEF PushPost, TypeOK
  <2> QED
    BY <2>1, <2>2 DEF NoNews
<1> HIDE DEF f
<1> QED
  BY <1>1, <1>2, <1>3, NewsWatch DEF WakeLabels

LEMMA PushSendWatch ==
  ASSUME Core, Watchful, NEW t \in Thread, PushSend(t)
  PROVE  Watchful'
<1> USE DEF Core, Base
<1> DEFINE f == [Top(t) EXCEPT !.at = "sendwake"]
<1>1. depth[t] > 0 /\ Top(t).at = "send" /\ Replaced(t, f) /\ UNCHANGED signaled
      /\ f.at = "sendwake" /\ f.peer = Top(t).peer
  BY PushSendEffect DEF PushSend
<1>2. ASSUME NEW x \in Thread, x # Top(t).peer PROVE NoNews(x)
  <2>1. UNCHANGED <<msgq_, dmsgq_, stop_>>
    BY DEF PushSend
  <2>2. sendlist_'[x] = sendlist_[x]
    BY <1>2 DEF PushSend, TypeOK
  <2> QED
    BY <2>1, <2>2 DEF NoNews
<1> HIDE DEF f
<1> QED
  BY <1>1, <1>2, NewsWatch DEF WakeLabels

LEMMA CallQuitWatch ==
  ASSUME Core, Watchful, NEW t \in Thread, CallQuit(t) \/ CallStop(t)
  PROVE  Watchful'
<1> USE DEF Core, Base
<1>1. depth[t] > 0 /\ Top(t).at = "run" /\ UNCHANGED <<queues, signaled>>
  BY DEF CallQuit, CallStop, Call, At
<1>2. PICK u \in Worker \ joined, f \in Frame :
        /\ stop_' = [stop_ EXCEPT ![u] = TRUE]
        /\ Replaced(t, f) /\ f.at \in {"wake", "stop"} /\ f.peer = u
  BY CallQuitLocal
<1>3. \A x \in Thread : x # f.peer => NoNews(x)
  BY <1>1, <1>2 DEF NoNews, queues, TypeOK
<1> QED
  BY <1>1, <1>2, <1>3, NewsWatch DEF WakeLabels

\* Steps of a thread that goes on to look at its queues.
LEMMA OwnWatch ==
  ASSUME Core, Watchful, NEW t \in Thread, depth[t] > 0, Top(t).at \notin WakeLabels,
         \A x \in Thread : x # t => Still(x), \A x \in Thread : signaled[x] => signaled'[x],
         \A x \in Thread : x # t => NoNews(x),
         depth'[t] > 0 /\ (Sleepless(t) \/ Rested(Top(t), t)) =>
            Sleepless(t) \/ Rested(Top(t), t)'
  PROVE  Watchful'
<1>1. Sleepless(t) \/ Rested(Top(t), t)
  BY DEF Watchful
<1>2. Sleepless(t) => Sleepless(t)'
  BY ComingStays DEF Sleepless
<1> QED
  BY <1>1, <1>2, WatchStep

LEMMA ReceiveSendsWatch ==
  ASSUME Core, Watchful, NEW t \in Thread, ReceiveSends(t)
  PROVE  Watchful'
<1> USE DEF Core, Base
<1>1. /\ depth[t] > 0 /\ Top(t).at \in {"recv", "sendrecv"}
      /\ UNCHANGED <<msgq_, dmsgq_, dmsgq_next_num_, appended, stop_, signaled, joined, clock, ops>>
  BY ReceiveSendsEffect
<1>2. Top(t) \in Frame /\ depth[t] \in Depth /\ FrameOK(t, depth[t], Top(t), clock)
  BY <1>1, TopOK
<1>3. CASE /\ Receivable(t, Top(t)) = {} /\ UNCHANGED sendlist_
           /\ Replaced(t, Received(Top(t)))
  <2>1. Top(t)' = Received(Top(t)) /\ \A x \in Thread : x # t => Still(x)
    BY <1>1, <1>3, TopAfter, OthersStill
  <2>2. /\ Received(Top(t)).at = IF Top(t).at = "recv" THEN "scan" ELSE "sendwait"
        /\ Received(Top(t)).peer = Top(t).peer
    BY <1>1, <1>2, ReceivedStands
  <2>3. /\ Top(t).at = "recv" => sendlist_[t] = {}
        /\ Top(t).at = "sendrecv" => \A s \in sendlist_[t] : s.from # Top(t).peer
    BY <1>3 DEF Receivable
  <2>4. Rested(Top(t), t)'
    BY <1>1, <1>3, <2>1, <2>2, <2>3 DEF Rested
  <2>5. \A x \in Thread : NoNews(x)
    BY <1>1, <1>3 DEF NoNews
  <2> QED
    BY <1>1, <2>1, <2>4, <2>5, OwnWatch DEF WakeLabels
<1>4. ASSUME NEW s \in Receivable(t, Top(t)), Pushed(t, Top(t), Handling(s)),
             sendlist_' = [sendlist_ EXCEPT ![t] = @ \ {s}]
      PROVE  Watchful'
  <2>1. s \in sendlist_[t]
    BY DEF Receivable
  <2>2. Handling(s).at = "run"
    BY <2>1, HandlingFrame
  <2>3. Top(t)' = Handling(s) /\ \A x \in Thread : x # t => Still(x)
    BY <1>1, <1>4, TopAfter, OthersStill
  <2>4. Rested(Top(t), t)'
    BY <2>2, <2>3 DEF Rested
  <2>5. \A x \in Thread : NoNews(x)
    BY <1>1, <1>4 DEF NoNews, TypeOK
  <2> QED
    BY <1>1, <2>3, <2>4, <2>5, OwnWatch DEF WakeLabels
<1> QED
  BY <1>3, <1>4, ReceiveSendsEffect

LEMMA SendHandledWatch ==
  ASSUME Core, Watchful, NEW t \in Thread, SendHandled(t)
  PROVE  Watchful'
<1> USE DEF Core, Base
<1>1. PICK x, c, caller, n :
        /\ x = Top(t).from /\ c = Top(t).fromDepth /\ caller = frame[t][depth[t] - 1]
        /\ n = depth[t]
  OBVIOUS
<1>2. /\ n >= 2 /\ n \in Depth /\ n - 1 \in Depth /\ Top(t).at = "run"
      /\ x \in Thread /\ x # t /\ c \in Depth
      /\ caller \in Frame /\ caller.at \in {"recv", "sendrecv"}
      /\ FrameOK(t, n - 1, caller, clock)
      /\ signaled' = [signaled EXCEPT ![x] = TRUE]
      /\ frame'[x][c] = [frame[x][c] EXCEPT !.ready = TRUE]
      /\ \A y \in Thread, d \in Depth :
           ~(y = x /\ d = c) /\ ~(y = t /\ d \in {n - 1, n}) => frame'[y][d] = frame[y][d]
  BY <1>1, SendHandledEffect
<1>3. \/ /\ Receivable(t, caller) = {} /\ UNCHANGED sendlist_
         /\ frame'[t][n - 1] = Received(caller)
         /\ depth' = [depth EXCEPT ![t] = @ - 1]
      \/ \E s \in Receivable(t, caller) :
           /\ frame'[t][n] = Handling(s)
           /\ sendlist_' = [sendlist_ EXCEPT ![t] = @ \ {s}] /\ depth' = depth
  BY <1>1, SendHandledEffect
<1>4. /\ frame \in [Thread -> [Depth -> Frame]] /\ depth \in [Thread -> 0..MaxDepth]
      /\ n = depth[t] /\ n > 0 /\ n \in Nat
  BY <1>1, <1>2 DEF TypeOK
<1>5. UNCHANGED <<msgq_, dmsgq_, stop_>>
  BY DEF SendHandled
<1>6. ASSUME NEW y \in Thread, y # t PROVE Still(y)
  <2>1. depth'[y] = depth[y]
    BY <1>3, <1>4, <1>6
  <2>2. CASE depth[y] > 0
    <3>1. depth[y] \in Depth
      BY <1>4, <2>2 DEF Depth
    <3>2. frame[y][depth[y]] \in Frame
      BY <1>4, <3>1
    <3>3. \/ frame'[y][depth[y]] = frame[y][depth[y]]
          \/ frame'[y][depth[y]] = [frame[y][depth[y]] EXCEPT !.ready = TRUE]
      BY <1>2, <1>6, <3>1
    <3> QED
      BY <2>1, <3>2, <3>3 DEF Still, Top, Frame
  <2> QED
    BY <2>1, <2>2 DEF Still
<1>7. \A y \in Thread : signaled[y] => signaled'[y]
  BY <1>2 DEF TypeOK
<1>8. \A y \in Thread : NoNews(y)
  BY <1>3, <1>5 DEF NoNews, TypeOK
<1>9. Rested(Top(t), t)'
  <2>1. CASE /\ Receivable(t, caller) = {} /\ UNCHANGED sendlist_
             /\ frame'[t][n - 1] = Received(caller)
             /\ depth' = [depth EXCEPT ![t] = @ - 1]
    <3>1. Top(t)' = Received(caller)
      BY <1>4, <2>1 DEF Top
    <3>2. /\ Received(caller).at = IF caller.at = "recv" THEN "scan" ELSE "sendwait"
          /\ Received(caller).peer = caller.peer
      <4>1. PICK e \in Depth : e = n - 1
        BY <1>2
      <4> QED
        BY <1>2, <4>1, ReceivedStands
    <3>3. /\ caller.at = "recv" => sendlist_[t] = {}
          /\ caller.at = "sendrecv" => \A s \in sendlist_[t] : s.from # caller.peer
      BY <2>1 DEF Receivable
    <3> QED
      BY <1>2, <2>1, <3>1, <3>2, <3>3 DEF Rested
  <2>2. ASSUME NEW s \in Receivable(t, caller), frame'[t][n] = Handling(s), depth' = depth
        PROVE  Rested(Top(t), t)'
    <3>1. s \in sendlist_[t]
      BY DEF Receivable
    <3>2. Handling(s).at = "run"
      BY <3>1, HandlingFrame
    <3>3. Top(t)' = Handling(s)
      BY <1>4, <2>2 DEF Top
    <3> QED
      BY <3>2, <3>3 DEF Rested
  <2> QED
    BY <1>3, <2>1, <2>2
<1> QED
  BY <1>2, <1>4, <1>6, <1>7, <1>8, <1>9, OwnWatch DEF WakeLabels

LEMMA ScanWatch ==
  ASSUME Core, Watchful, NEW t \in Thread, Scan(t)
  PROVE  Watchful'
<1> USE DEF Core, Base
<1> DEFINE w == NextTrigger(dmsgq_[t] \ Due(t))
<1>1. /\ depth[t] > 0 /\ Top(t).at = "scan" /\ w \in Times
      /\ dmsgq_[t] \ Due(t) # {} => w # Forever
      /\ \E q \in SUBSET Message : Take(t, q, [Top(t) EXCEPT !.when = w])
      /\ dmsgq_' = [dmsgq_ EXCEPT ![t] = @ \ Due(t)]
      /\ UNCHANGED <<sendlist_, stop_, signaled>>
  BY ScanEffect
<1> HIDE DEF w
<1>2. /\ \A x \in Thread : x # t => msgq_'[x] = msgq_[x]
      /\ \/ msgq_'[t] = {} /\ \E g : g.at = "quit" /\ g.when = w /\ Replaced(t, g)
         \/ \E g : g.at = "pop" /\ g.when = w /\ Replaced(t, g)
         \/ \E g : Pushed(t, g, User)
  BY <1>1, TakeLocal
<1>3. \A x \in Thread : x # t => Still(x)
  BY <1>1, <1>2, OthersStill
<1>4. \/ msgq_'[t] = {} /\ Top(t)'.at = "quit" /\ Top(t)'.when = w
      \/ Top(t)'.at = "pop" /\ Top(t)'.when = w
      \/ Top(t)'.at = "run"
  BY <1>1, <1>2, TopAfter DEF User
<1>5. \A x \in Thread : x # t => NoNews(x)
  BY <1>1, <1>2 DEF NoNews, TypeOK
<1>6. dmsgq_'[t] = dmsgq_[t] \ Due(t)
  BY <1>1 DEF TypeOK
<1>7. Rested(Top(t), t) => Rested(Top(t), t)'
  BY <1>1, <1>4, <1>6 DEF Rested
<1> QED
  BY <1>1, <1>3, <1>5, <1>7, OwnWatch DEF WakeLabels

LEMMA NextPassWatch ==
  ASSUME Core, Watchful, NEW t \in Thread, NextPass(t)
  PROVE  Watchful'
<1> USE DEF Core, Base
<1> DEFINE w == Top(t).when
<1>1. /\ depth[t] > 0 /\ Top(t).at = "pop" /\ w \in Times /\ msgq_[t] \in SUBSET Message
      /\ Take(t, msgq_[t], [Top(t) EXCEPT !.when = w])
  BY NextPassEffect
<1>2. UNCHANGED <<dmsgq_, sendlist_, stop_, signaled>>
  BY DEF NextPass
<1>3. /\ \A x \in Thread : x # t => msgq_'[x] = msgq_[x]
      /\ \/ msgq_'[t] = {} /\ \E g : g.at = "quit" /\ g.when = w /\ Replaced(t, g)
         \/ \E g : g.at = "pop" /\ g.when = w /\ Replaced(t, g)
         \/ \E g : Pushed(t, g, User)
  <2> HIDE DEF w
  <2> QED
    BY <1>1, TakeLocal
<1>4. \A x \in Thread : x # t => Still(x)
  BY <1>1, <1>3, OthersStill
<1>5. \/ msgq_'[t] = {} /\ Top(t)'.at = "quit" /\ Top(t)'.when = w
      \/ Top(t)'.at = "pop" /\ Top(t)'.when = w
      \/ Top(t)'.at = "run"
  BY <1>1, <1>3, TopAfter DEF User
<1>6. \A x \in Thread : x # t => NoNews(x)
  BY <1>2, <1>3 DEF NoNews, TypeOK
<1>7. Rested(Top(t), t) => Rested(Top(t), t)'
  BY <1>1, <1>2, <1>5 DEF Rested
<1> QED
  BY <1>1, <1>2, <1>4, <1>6, <1>7, OwnWatch DEF WakeLabels

LEMMA CheckQuitWatch ==
  ASSUME Core, Watchful, NEW t \in Thread, CheckQuit(t)
  PROVE  Watchful'
<1> USE DEF Core, Base
<1> DEFINE w == Deadline(Top(t))
           f == [Top(t) EXCEPT !.at = "wait", !.when = w]
<1>1. /\ depth[t] > 0 /\ Top(t).at = "quit"
      /\ \/ Popped(t)
         \/ ~stop_[t] /\ (Top(t).when # Forever => w # Forever) /\ Replaced(t, f)
  BY CheckQuitLocal
<1>2. UNCHANGED <<queues, stop_, signaled>>
  BY DEF CheckQuit
<1>3. f.at = "wait" /\ f.when = w
  BY <1>1, TopFrame DEF Frame
<1> HIDE DEF f, w
<1>4. \A x \in Thread : x # t => Still(x)
  BY <1>1, OthersStill
<1>5. \A x \in Thread : NoNews(x)
  BY <1>2 DEF NoNews, queues
<1>6. depth'[t] > 0 /\ Rested(Top(t), t) => Rested(Top(t), t)'
  <2>1. CASE Popped(t)
    BY <1>1, <2>1, TopAfter DEF Rested, Busy
  <2>2. CASE ~stop_[t] /\ (Top(t).when # Forever => w # Forever) /\ Replaced(t, f)
    <3>1. Top(t)' = f
      BY <1>1, <2>2, TopAfter
    <3> QED
      BY <1>1, <1>2, <1>3, <2>2, <3>1 DEF Rested, queues
  <2> QED
    BY <1>1, <2>1, <2>2
<1> QED
  BY <1>1, <1>2, <1>4, <1>5, <1>6, OwnWatch DEF WakeLabels

LEMMA CallClearWatch ==
  ASSUME Core, Watchful, NEW t \in Thread, CallClear(t)
  PROVE  Watchful'
<1> USE DEF Core, Base
<1>1. Cleared /\ depth[t] > 0 /\ Top(t).at = "run"
  BY CallClearCore DEF CallClear, Call, At
<1>2. ASSUME NEW x \in Thread PROVE Still(x)
  <2>1. depth[x] > 0 => depth[x] \in Depth
    BY DEF TypeOK, Depth
  <2>2. \A d \in Depth : SameCall(frame[x][d], frame'[x][d])
    BY <1>1 DEF Cleared
  <2>3. depth' = depth
    BY <1>1 DEF Cleared
  <2>4. depth[x] > 0 => SameCall(frame[x][depth[x]], frame'[x][depth[x]])
    BY <2>1, <2>2
  <2> QED
    BY <2>3, <2>4 DEF SameCall, Still, Top
<1>3. \A x \in Thread : NoNews(x) /\ (signaled[x] => signaled'[x])
  BY <1>1 DEF Cleared, NoNews
<1>4. Rested(Top(t), t)'
  BY <1>1, <1>2 DEF Still, Rested
<1> QED
  BY <1>1, <1>2, <1>3, <1>4, OwnWatch DEF WakeLabels

LEMMA JoinWatch ==
  ASSUME Core, Watchful, NEW t \in Thread, Join(t)
  PROVE  Watchful'
<1>1. depth[t] > 0 /\ Top(t).at = "join" /\ Replaced(t, User)
  BY JoinCore
<1>2. UNCHANGED <<queues, stop_, signaled>> /\ \A x \in Thread : x # t => Still(x)
  BY <1>1, OthersStill DEF Join, Core
<1>3. \A x \in Thread : NoNews(x)
  BY <1>2 DEF NoNews, queues
<1>4. Top(t)' = User
  BY <1>1, TopAfter DEF Core
<1>5. Rested(Top(t), t)'
  BY <1>4 DEF Rested, User
<1> QED
  BY <1>1, <1>2, <1>3, <1>5, OwnWatch DEF WakeLabels

LEMMA CallStartWatch ==
  ASSUME Core, Watchful, NEW t \in Thread, CallStart(t)
  PROVE  Watchful'
<1> USE DEF Core, Base
<1>1. UNCHANGED <<queues, signaled>>
  BY CallStartEffect
<1>2. PICK u \in Worker :
        /\ u \in joined /\ depth[u] = 0
        /\ stop_' = [stop_ EXCEPT ![u] = FALSE]
        /\ depth' = [depth EXCEPT ![u] = 1] /\ frame'[u][1] = Loop(Forever)
        /\ \A x \in Thread, d \in Depth : x # u \/ d # 1 => frame'[x][d] = frame[x][d]
  BY CallStartEffect
<1>3. u \in Thread /\ depth \in [Thread -> 0..MaxDepth] /\ stop_ \in [Thread -> BOOLEAN]
  BY DEF TypeOK, Thread
<1>4. \A x \in Thread : x # u => Still(x)
  BY <1>2, <1>3 DEF Still, Top, Depth
<1>5. \A x \in Thread : NoNews(x)
  BY <1>1, <1>2, <1>3 DEF NoNews, queues
<1>6. Loop(Forever).at = "recv"
  BY LoopFrame DEF Forever
<1>7. Top(u)' = Loop(Forever)
  BY <1>2, <1>3 DEF Top
<1>8. Rested(Top(u), u)'
  BY <1>6, <1>7 DEF Rested
<1> QED
  BY <1>1, <1>2, <1>3, <1>4, <1>5, <1>8, WatchStep

LEMMA WatchfulHolds == Spec => [](Core /\ Watchful)
<1>1. Init => Watchful
  <2> SUFFICES ASSUME Init, NEW t \in Thread PROVE Rested(Top(t), t)
    BY DEF Watchful
  <2>1. Top(t).at \in {"run", "recv"}
    <3>1. 1 \in Depth /\ depth[t] = 1
      BY DEF Init, Depth
    <3>2. frame[t][1] = IF t \in Worker THEN [User EXCEPT !.at = "recv"] ELSE User
      BY <3>1 DEF Init, Free
    <3> QED
      BY <3>1, <3>2 DEF Top, User
  <2> QED
    BY <2>1 DEF Rested
<1>2. Core /\ Watchful /\ [Next]_vars => Watchful'
  <2> SUFFICES ASSUME Core, Watchful, [Next]_vars PROVE Watchful'
    OBVIOUS
  <2>1. CASE Tick \/ UNCHANGED vars
    <3>1. UNCHANGED <<queues, stop_, signaled, stacks>>
      BY <2>1 DEF Tick, vars
    <3> QED
      BY <3>1 DEF Watchful, Sleepless, WakeUpComing, Rested, At, Top, queues, stacks
  <2>2. ASSUME NEW t \in Thread, Calls(t) PROVE Watchful'
    BY <2>2, QuietWatch, CallClearWatch, CallQuitWatch, CallStartWatch DEF Calls
  <2>3. ASSUME NEW t \in Thread, Step(t) PROVE Watchful'
    BY <2>3, QuietWatch, PushPostWatch, PushSendWatch, ReceiveSendsWatch, SendHandledWatch,
       ScanWatch, NextPassWatch, CheckQuitWatch, JoinWatch DEF Step
  <2> QED
    BY <2>1, <2>2, <2>3 DEF Next
<1> QED
  BY <1>1, <1>2, CoreHolds, PTL DEF Spec

\* No order of pushes, signals, scans and waits puts a thread to sleep over
\* a message, a sent message, an order to stop or a delayed message.
THEOREM NoWakeUpIsLost == Spec => []NoLostWakeUp
<1>1. Watchful => NoLostWakeUp
  BY DEF Watchful, NoLostWakeUp, Sleepless, Rested, At
<1> QED
  BY <1>1, WatchfulHolds, PTL
------------------------------------------------------------------------------
(* Answers.  A wake-up that answers a Send can be taken by a Send made in a   *)
(* handler that runs during the wait; that one hands it on when it returns.   *)

AnswerLabels == {"sendrecv", "sendwait"}

\* Call d of t is a Send that was answered while it waited.
Notified(t, d) == d <= depth[t] /\ frame[t][d].at \in AnswerLabels /\ frame[t][d].ready

\* Call e of t is a Send that has taken a wake-up, and will hand it on.
HandsOn(t, e) == e <= depth[t] /\ frame[t][e].at \in SendLabels /\ frame[t][e].waited

AnsweredAt(t) ==
  \A d \in Depth : Notified(t, d) => signaled[t] \/ \E e \in Depth : d < e /\ HandsOn(t, e)

Answered == \A t \in Thread : AnsweredAt(t)

\* No Send of x is answered, and none that hands on returns, without a signal.
Harmless(x) ==
  /\ signaled[x] => signaled'[x]
  /\ \A d \in Depth : Notified(x, d)' => Notified(x, d) \/ signaled'[x]
  /\ \A e \in Depth : HandsOn(x, e) => HandsOn(x, e)' \/ signaled'[x]

LEMMA HarmlessAnswered ==
  ASSUME NEW x, AnsweredAt(x), Harmless(x)
  PROVE  AnsweredAt(x)'
<1> SUFFICES ASSUME NEW d \in Depth, Notified(x, d)', ~signaled'[x]
             PROVE  \E e \in Depth : d < e /\ HandsOn(x, e)'
  BY DEF AnsweredAt
<1>1. Notified(x, d) /\ ~signaled[x]
  BY DEF Harmless
<1>2. PICK e \in Depth : d < e /\ HandsOn(x, e)
  BY <1>1 DEF AnsweredAt
<1>3. HandsOn(x, e)'
  BY <1>2 DEF Harmless
<1> QED
  BY <1>2, <1>3

\* Call f in the place of the one on top of t.
KeepsAnswer(t, f) ==
  /\ f.at \in AnswerLabels /\ f.ready =>
       (Top(t).at \in AnswerLabels /\ Top(t).ready) \/ signaled'[t]
  /\ Top(t).at \in SendLabels /\ Top(t).waited =>
       (f.at \in SendLabels /\ f.waited) \/ signaled'[t]

Moves(t) ==
  \/ UNCHANGED stacks
  \/ \E f : Replaced(t, f) /\ KeepsAnswer(t, f)
  \/ \E f, g : Pushed(t, f, g) /\ KeepsAnswer(t, f) /\ g.at \notin SendLabels
  \/ Popped(t) /\ Top(t).at \notin SendLabels

LEMMA MovesHarmless ==
  ASSUME Base, NEW t \in Thread, depth[t] > 0, Moves(t), signaled[t] => signaled'[t]
  PROVE  Harmless(t)
<1>1. depth \in [Thread -> 0..MaxDepth] /\ depth[t] \in Depth /\ depth[t] \in Nat
  BY DEF Base, TypeOK, Depth
<1>2. Top(t) = frame[t][depth[t]]
  BY DEF Top
<1>3. CASE UNCHANGED stacks
  BY <1>3 DEF stacks, Harmless, Notified, HandsOn
<1>4. CASE \E f : Replaced(t, f) /\ KeepsAnswer(t, f)
  <2>1. PICK f : Replaced(t, f) /\ KeepsAnswer(t, f)
    BY <1>4
  <2>2. ASSUME NEW d \in Depth
        PROVE  \/ d = depth[t] /\ frame[t][d] = Top(t) /\ frame'[t][d] = f /\ depth'[t] = depth[t]
               \/ frame'[t][d] = frame[t][d] /\ depth'[t] = depth[t]
    BY <1>1, <1>2, <2>1 DEF Replaced
  <2> QED
    BY <1>1, <2>1, <2>2 DEF KeepsAnswer, Harmless, Notified, HandsOn
<1>5. CASE \E f, g : Pushed(t, f, g) /\ KeepsAnswer(t, f) /\ g.at \notin SendLabels
  <2>1. PICK f, g : Pushed(t, f, g) /\ KeepsAnswer(t, f) /\ g.at \notin SendLabels
    BY <1>5
  <2>2. depth'[t] = depth[t] + 1
    BY <1>1, <2>1 DEF Pushed
  <2>3. ASSUME NEW d \in Depth
        PROVE  \/ d = depth[t] /\ frame[t][d] = Top(t) /\ frame'[t][d] = f
               \/ d = depth[t] + 1 /\ frame'[t][d] = g
               \/ d \notin {depth[t], depth[t] + 1} /\ frame'[t][d] = frame[t][d]
    BY <1>1, <1>2, <2>1 DEF Pushed
  <2>4. g.at \notin AnswerLabels
    BY <2>1 DEF AnswerLabels, SendLabels
  <2>5. \A d \in Depth : Notified(t, d)' => Notified(t, d) \/ signaled'[t]
    BY <1>1, <2>1, <2>2, <2>3, <2>4 DEF KeepsAnswer, Notified, Depth
  <2>6. \A e \in Depth : HandsOn(t, e) => HandsOn(t, e)' \/ signaled'[t]
    BY <1>1, <2>1, <2>2, <2>3 DEF KeepsAnswer, HandsOn, Depth
  <2> QED
    BY <2>5, <2>6 DEF Harmless
<1>6. CASE Popped(t) /\ Top(t).at \notin SendLabels
  <2>1. depth'[t] = depth[t] - 1
    BY <1>1, <1>6 DEF Popped
  <2>2. \A d \in Depth : d # depth[t] => frame'[t][d] = frame[t][d]
    BY <1>6 DEF Popped
  <2>3. \A d \in Depth : Notified(t, d)' => Notified(t, d)
    BY <1>1, <2>1, <2>2 DEF Notified, Depth
  <2>4. \A e \in Depth : HandsOn(t, e) => HandsOn(t, e)'
    BY <1>1, <1>2, <1>6, <2>1, <2>2 DEF HandsOn, Depth
  <2> QED
    BY <2>3, <2>4 DEF Harmless
<1> QED
  BY <1>3, <1>4, <1>5, <1>6 DEF Moves

LEMMA OthersHarmless ==
  ASSUME Base, NEW t \in Thread, depth[t] > 0,
         \A x \in Thread : x # t => (signaled[x] => signaled'[x]),
         \/ UNCHANGED stacks \/ (\E f : Replaced(t, f)) \/ (\E f, g : Pushed(t, f, g)) \/ Popped(t)
  PROVE  \A x \in Thread : x # t => Harmless(x)
<1>1. ASSUME NEW x \in Thread, x # t PROVE Harmless(x)
  <2>1. depth'[x] = depth[x]
    BY <1>1 DEF Base, TypeOK, Replaced, Pushed, Popped, stacks
  <2>2. \A d \in Depth : frame'[x][d] = frame[x][d]
    BY <1>1 DEF Replaced, Pushed, Popped, stacks
  <2> QED
    BY <1>1, <2>1, <2>2 DEF Harmless, Notified, HandsOn
<1> QED
  BY <1>1

\* Steps that move the stack of t and take no signal.
LEMMA MovesAnswered ==
  ASSUME Core, Answered, NEW t \in Thread, depth[t] > 0, Moves(t),
         \A x \in Thread : signaled[x] => signaled'[x]
  PROVE  Answered'
<1>1. Harmless(t)
  BY MovesHarmless DEF Core
<1>2. \A x \in Thread : x # t => Harmless(x)
  BY OthersHarmless DEF Core, Moves
<1> QED
  BY <1>1, <1>2, HarmlessAnswered DEF Answered

LEMMA QuietAnswered ==
  ASSUME Core, Answered, NEW t \in Thread,
         \/ CallPost(t) \/ CallSend(t) \/ CallProcessMessages(t) \/ CallQuit(t) \/ CallStop(t)
         \/ PushPost(t) \/ PushSend(t) \/ HandlerReturns(t) \/ LoopAgain(t) \/ CheckQuit(t)
         \/ WaitTimeout(t) \/ Join(t) \/ Scan(t) \/ NextPass(t)
  PROVE  Answered'
<1> USE DEF Core, Base
<1>1. depth[t] > 0 /\ Top(t).at \notin SendLabels /\ UNCHANGED signaled
  BY DEF CallPost, CallSend, CallProcessMessages, CallQuit, CallStop, Call, PushPost,
     PushSend,
         HandlerReturns, LoopAgain, CheckQuit, WaitTimeout, Join, Scan, NextPass, At, SendLabels
<1>2. ASSUME NEW f, f.at \notin AnswerLabels PROVE KeepsAnswer(t, f)
  BY <1>1, <1>2 DEF KeepsAnswer
<1>3. Moves(t)
  <2>1. CASE CallPost(t)
    BY <1>2, <2>1, CallPostLocal DEF Moves, AnswerLabels
  <2>2. CASE CallSend(t)
    BY <1>1, <1>2, <2>2, CallSendLocal DEF Moves, AnswerLabels, SendLabels, User
  <2>3. CASE CallProcessMessages(t)
    BY <1>1, <1>2, <2>3, CallProcessMessagesLocal DEF Moves, AnswerLabels, SendLabels
  <2>4. CASE CallQuit(t) \/ CallStop(t)
    BY <1>2, <2>4, CallQuitLocal DEF Moves, AnswerLabels
  <2>5. CASE PushPost(t)
    <3>1. [Top(t) EXCEPT !.at = "wake"].at = "wake"
      BY <1>1, TopFrame DEF Frame
    <3> QED
      BY <1>2, <2>5, <3>1, PushPostLocal DEF Moves, AnswerLabels
  <2>6. CASE PushSend(t)
    <3>1. PICK f : f.at = "sendwake" /\ Replaced(t, f)
      BY <2>6, PushSendEffect
    <3> QED
      BY <1>2, <3>1 DEF Moves, AnswerLabels
  <2>7. CASE HandlerReturns(t)
    BY <1>1, <2>7, HandlerReturnsLocal DEF Moves
  <2>8. CASE LoopAgain(t)
    BY <1>1, <1>2, <2>8, LoopAgainLocal DEF Moves, AnswerLabels
  <2>9. CASE CheckQuit(t)
    <3>1. PICK w : w = Deadline(Top(t))
      OBVIOUS
    <3>2. [Top(t) EXCEPT !.at = "wait", !.when = w].at = "wait"
      BY <1>1, TopFrame DEF Frame
    <3>3. Popped(t) \/ Replaced(t, [Top(t) EXCEPT !.at = "wait", !.when = w])
      BY <2>9, <3>1, CheckQuitLocal
    <3> QED
      BY <1>1, <1>2, <3>2, <3>3 DEF Moves, AnswerLabels
  <2>10. CASE WaitTimeout(t)
    <3>1. Top(t).at = "wait" /\ Awake(t)
      BY <2>10 DEF WaitTimeout, At
    <3> QED
      BY <1>1, <1>2, <3>1, AwakeLocal DEF Moves, AnswerLabels
  <2>11. CASE Join(t)
    BY <1>2, <2>11, JoinCore DEF Moves, AnswerLabels, User
  <2>12. CASE Scan(t) \/ NextPass(t)
    <3>1. \/ \E g : g.at \in {"quit", "pop"} /\ Replaced(t, g)
          \/ \E g : g.at = "got" /\ Pushed(t, g, User)
      <4>1. PICK w \in Times, q \in SUBSET Message :
              Top(t).at \in {"scan", "pop"} /\ Take(t, q, [Top(t) EXCEPT !.when = w])
        BY <2>12, ScanEffect, NextPassEffect
      <4> QED
        BY <1>1, <4>1, TakeLocal
    <3>2. User.at = "run"
      BY DEF User
    <3> QED
      BY <1>2, <3>1, <3>2 DEF Moves, AnswerLabels, SendLabels
  <2> QED
    BY <2>1, <2>2, <2>3, <2>4, <2>5, <2>6, <2>7, <2>8, <2>9, <2>10, <2>11, <2>12
<1> QED
  BY <1>1, <1>3, MovesAnswered

LEMMA WakeUpAnswered ==
  ASSUME Core, Answered, NEW t \in Thread, WakeUp(t)
  PROVE  Answered'
<1> USE DEF Core, Base
<1>1. PICK f \in Frame :
        /\ Replaced(t, f) /\ f.at \in {"run", "check", "join"}
        /\ Top(t).at \in SendLabels => f.at = "check" /\ f.waited = Top(t).waited
  BY WakeUpLocal
<1>2. depth[t] > 0
  BY WakeUpLocal
<1>3. KeepsAnswer(t, f)
  BY <1>1 DEF KeepsAnswer, AnswerLabels, SendLabels
<1>4. \A x \in Thread : signaled[x] => signaled'[x]
  BY DEF WakeUp, TypeOK
<1> QED
  BY <1>1, <1>2, <1>3, <1>4, MovesAnswered DEF Moves

\* The Send that returns hands its wake-up on.
LEMMA CheckReadyAnswered ==
  ASSUME Core, Answered, NEW t \in Thread, CheckReady(t)
  PROVE  Answered'
<1> USE DEF Core, Base
<1>1. depth[t] > 0 /\ Top(t) \in Frame
  BY CheckReadyLocal, TopFrame
<1>2. CASE Top(t).ready
  <2>1. Replaced(t, Finished(t)) /\ Finished(t).at = "run"
    BY <1>2, CheckReadyLocal
  <2>2. signaled' = [signaled EXCEPT ![t] = @ \/ Top(t).waited]
    BY <1>2 DEF CheckReady
  <2>3. /\ \A x \in Thread : signaled[x] => signaled'[x]
        /\ Top(t).waited => signaled'[t]
    BY <2>2 DEF TypeOK
  <2>4. KeepsAnswer(t, Finished(t))
    BY <2>1, <2>3 DEF KeepsAnswer, AnswerLabels
  <2> QED
    BY <1>1, <2>1, <2>3, <2>4, MovesAnswered DEF Moves
<1>3. CASE ~Top(t).ready
  <2> DEFINE f == [Top(t) EXCEPT !.at = "sendrecv"]
  <2>1. Replaced(t, f) /\ UNCHANGED signaled
    BY <1>3, CheckReadyLocal DEF CheckReady
  <2>2. f.at = "sendrecv" /\ ~f.ready /\ f.waited = Top(t).waited
    BY <1>1, <1>3 DEF Frame
  <2> HIDE DEF f
  <2>3. KeepsAnswer(t, f)
    BY <2>2 DEF KeepsAnswer, SendLabels
  <2> QED
    BY <1>1, <2>1, <2>3, MovesAnswered DEF Moves
<1> QED
  BY <1>2, <1>3

\* The Send on top takes the wake-up, and answers for those below it.
LEMMA SendWaitAnswered ==
  ASSUME Core, Answered, NEW t \in Thread, SendWait(t)
  PROVE  Answered'
<1> USE DEF Core, Base
<1> DEFINE f == [Top(t) EXCEPT !.at = "check", !.waited = TRUE]
<1>1. depth[t] > 0 /\ Replaced(t, f) /\ Top(t) \in Frame /\ depth[t] \in Depth
  BY SendWaitLocal, TopFrame
<1>2. f.at = "check" /\ f.waited
  BY <1>1 DEF Frame
<1> HIDE DEF f
<1>3. depth' = depth /\ frame'[t][depth[t]] = f /\ depth[t] \in Nat
  BY <1>1 DEF Replaced, Depth
<1>4. AnsweredAt(t)'
  <2>1. HandsOn(t, depth[t])'
    BY <1>2, <1>3 DEF HandsOn, SendLabels
  <2>2. \A d \in Depth : Notified(t, d)' => d < depth[t]
    BY <1>2, <1>3 DEF Notified, AnswerLabels, Depth
  <2> QED
    BY <1>1, <1>3, <2>1, <2>2 DEF AnsweredAt
<1>5. \A x \in Thread : x # t => (signaled[x] => signaled'[x])
  BY DEF SendWait, TypeOK
<1>6. \A x \in Thread : x # t => Harmless(x)
  BY <1>1, <1>5, OthersHarmless
<1> QED
  BY <1>4, <1>6, HarmlessAnswered DEF Answered

\* A loop that takes a wake-up has no Send below it, unless loops are nested.
LEMMA WaitSignalAnswered ==
  ASSUME Core, Answered, ~NestedLoops, NEW t \in Thread, WaitSignal(t)
  PROVE  Answered'
<1> USE DEF Core, Base
<1>1. depth[t] > 0 /\ Top(t).at = "wait" /\ Awake(t)
  BY DEF WaitSignal, At
<1>2. Popped(t) \/ \E f : Replaced(t, f) /\ f.at = "recv"
  BY <1>1, AwakeLocal
<1>3. /\ depth[t] \in Depth /\ depth[t] \in {1, 2} /\ Top(t).from = NoThread
      /\ depth \in [Thread -> 0..MaxDepth]
  BY <1>1, TopOK DEF FrameOK, LoopLabels, TypeOK
<1>4. depth[t] = 2 => frame[t][1].at \in {"run", "got"}
  <2>1. depth[t] = 2 => 2 \in 2..depth[t] /\ 2 - 1 = 1
    OBVIOUS
  <2>2. depth[t] = 2 => Pair(frame[t][1], Top(t))
    BY <2>1 DEF Shape, Top
  <2> QED
    BY <1>3, <2>2 DEF Pair
<1>5. ASSUME NEW d \in Depth PROVE ~Notified(t, d)'
  <2>1. CASE d = 1 /\ depth[t] = 2
    BY <1>2, <1>4, <2>1 DEF Replaced, Popped, Notified, AnswerLabels
  <2>2. CASE d = depth[t]
    BY <1>2, <1>3, <2>2 DEF Replaced, Popped, Notified, AnswerLabels, Depth
  <2>3. CASE ~(d = 1 /\ depth[t] = 2) /\ d # depth[t]
    <3>1. d > depth[t] /\ depth'[t] <= depth[t]
      BY <1>2, <1>3, <2>3 DEF Depth, Replaced, Popped
    <3> QED
      BY <1>2, <1>3, <3>1 DEF Notified, Replaced, Popped, Depth
  <2> QED
    BY <2>1, <2>2, <2>3
<1>6. AnsweredAt(t)'
  BY <1>5 DEF AnsweredAt
<1>7. \A x \in Thread : x # t => (signaled[x] => signaled'[x])
  BY DEF WaitSignal, TypeOK
<1>8. \A x \in Thread : x # t => Harmless(x)
  BY <1>1, <1>2, <1>7, OthersHarmless
<1> QED
  BY <1>6, <1>8, HarmlessAnswered DEF Answered

LEMMA ReceiveSendsAnswered ==
  ASSUME Core, Answered, NEW t \in Thread, ReceiveSends(t)
  PROVE  Answered'
<1> USE DEF Core, Base
<1>1. depth[t] > 0 /\ Top(t).at \in {"recv", "sendrecv"} /\ UNCHANGED signaled
  BY ReceiveSendsEffect
<1>2. Top(t) \in Frame /\ depth[t] \in Depth /\ FrameOK(t, depth[t], Top(t), clock)
  BY <1>1, TopOK
<1>3. CASE Replaced(t, Received(Top(t)))
  <2>1. /\ Received(Top(t)).at = IF Top(t).at = "recv" THEN "scan" ELSE "sendwait"
        /\ Received(Top(t)).ready = Top(t).ready /\ Received(Top(t)).waited = Top(t).waited
    BY <1>1, <1>2, ReceivedStands
  <2>2. KeepsAnswer(t, Received(Top(t)))
    BY <1>1, <2>1 DEF KeepsAnswer, AnswerLabels, SendLabels
  <2> QED
    BY <1>1, <1>3, <2>2, MovesAnswered DEF Moves
<1>4. ASSUME NEW s \in Receivable(t, Top(t)), Pushed(t, Top(t), Handling(s))
      PROVE  Answered'
  <2>1. s \in sendlist_[t]
    BY DEF Receivable
  <2>2. Handling(s).at \notin SendLabels
    BY <2>1, HandlingFrame DEF SendLabels
  <2>3. KeepsAnswer(t, Top(t))
    BY DEF KeepsAnswer
  <2> QED
    BY <1>1, <1>4, <2>2, <2>3, MovesAnswered DEF Moves
<1> QED
  BY <1>3, <1>4, ReceiveSendsEffect

LEMMA SendHandledAnswered ==
  ASSUME Core, Answered, NEW t \in Thread, SendHandled(t)
  PROVE  Answered'
<1> USE DEF Core, Base
<1>1. PICK x, c, caller, n :
        /\ x = Top(t).from /\ c = Top(t).fromDepth /\ caller = frame[t][depth[t] - 1]
        /\ n = depth[t]
  OBVIOUS
<1>2. /\ n >= 2 /\ n \in Depth /\ n - 1 \in Depth /\ Top(t).at = "run"
      /\ x \in Thread /\ x # t /\ c \in Depth
      /\ caller \in Frame /\ caller.at \in {"recv", "sendrecv"}
      /\ FrameOK(t, n - 1, caller, clock)
      /\ signaled' = [signaled EXCEPT ![x] = TRUE]
      /\ frame'[x][c] = [frame[x][c] EXCEPT !.ready = TRUE]
      /\ \A y \in Thread, d \in Depth :
           ~(y = x /\ d = c) /\ ~(y = t /\ d \in {n - 1, n}) => frame'[y][d] = frame[y][d]
  BY <1>1, SendHandledEffect
<1>3. \/ /\ frame'[t][n - 1] = Received(caller)
         /\ depth' = [depth EXCEPT ![t] = @ - 1]
      \/ \E s \in sendlist_[t] :
           /\ frame'[t][n] = Handling(s) /\ frame'[t][n - 1] = caller /\ depth' = depth
  BY <1>1, SendHandledEffect DEF Receivable
<1>4. /\ depth \in [Thread -> 0..MaxDepth] /\ n = depth[t] /\ n \in Nat
      /\ frame[t][n - 1] = caller /\ frame[t][n] = Top(t)
  BY <1>1 DEF TypeOK, Top
<1>5. (\A y \in Thread : signaled[y] => signaled'[y]) /\ signaled'[x]
  BY <1>2 DEF TypeOK
<1>6. ASSUME NEW y \in Thread, y # t PROVE Harmless(y)
  <2>1. CASE y = x
    BY <1>5, <2>1 DEF Harmless
  <2>2. CASE y # x
    <3>1. depth'[y] = depth[y]
      BY <1>3, <1>4, <1>6
    <3>2. \A d \in Depth : frame'[y][d] = frame[y][d]
      BY <1>2, <1>6, <2>2
    <3> QED
      BY <1>5, <3>1, <3>2 DEF Harmless, Notified, HandsOn
  <2> QED
    BY <2>1, <2>2
<1>7. Harmless(t)
  <2>1. \A d \in Depth : d \notin {n - 1, n} => frame'[t][d] = frame[t][d]
    BY <1>2
  <2>2. CASE frame'[t][n - 1] = Received(caller) /\ depth' = [depth EXCEPT ![t] = @ - 1]
    <3>1. /\ Received(caller).at = IF caller.at = "recv" THEN "scan" ELSE "sendwait"
          /\ Received(caller).ready = caller.ready /\ Received(caller).waited = caller.waited
      <4>1. PICK e \in Depth : e = n - 1
        BY <1>2
      <4> QED
        BY <1>2, <4>1, ReceivedStands
    <3>2. depth'[t] = n - 1
      BY <1>4, <2>2
    <3>3. ASSUME NEW d \in Depth PROVE Notified(t, d)' => Notified(t, d)
      <4>1. CASE d = n - 1
        BY <1>2, <1>4, <2>2, <3>1, <3>2, <4>1 DEF Notified, AnswerLabels
      <4>2. CASE d # n - 1
        BY <1>4, <2>1, <3>2, <4>2 DEF Notified, Depth
      <4> QED
        BY <4>1, <4>2
    <3>4. ASSUME NEW d \in Depth PROVE HandsOn(t, d) => HandsOn(t, d)'
      <4>1. CASE d = n - 1
        <5>1. caller.at \in SendLabels => Received(caller).at \in SendLabels
          BY <1>2, <3>1 DEF SendLabels
        <5>2. d <= depth'[t]
          BY <1>4, <3>2, <4>1
        <5>3. frame[t][d] = caller /\ frame'[t][d] = Received(caller)
          BY <1>4, <2>2, <4>1
        <5> QED
          BY <3>1, <5>1, <5>2, <5>3 DEF HandsOn
      <4>2. CASE d = n
        BY <1>2, <1>4, <4>2 DEF HandsOn, SendLabels
      <4>3. CASE d \notin {n - 1, n}
        BY <1>4, <2>1, <3>2, <4>3 DEF HandsOn, Depth
      <4> QED
        BY <4>1, <4>2, <4>3
    <3> QED
      BY <1>5, <3>3, <3>4 DEF Harmless
  <2>3. ASSUME NEW s \in sendlist_[t], frame'[t][n] = Handling(s), frame'[t][n - 1] = caller,
               depth' = depth
        PROVE  Harmless(t)
    <3>1. Handling(s).at = "run"
      BY HandlingFrame
    <3>2. \A d \in Depth : d # n => frame'[t][d] = frame[t][d]
      BY <1>4, <2>1, <2>3
    <3>3. ASSUME NEW d \in Depth
          PROVE  (Notified(t, d)' => Notified(t, d)) /\ (HandsOn(t, d) => HandsOn(t, d)')
      <4>1. CASE d = n
        BY <1>2, <1>4, <2>3, <3>1, <4>1 DEF Notified, HandsOn, AnswerLabels, SendLabels
      <4>2. CASE d # n
        BY <2>3, <3>2, <4>2 DEF Notified, HandsOn
      <4> QED
        BY <4>1, <4>2
    <3> QED
      BY <1>5, <3>3 DEF Harmless
  <2> QED
    BY <1>3, <2>2, <2>3
<1> QED
  BY <1>6, <1>7, HarmlessAnswered DEF Answered

LEMMA CallClearAnswered ==
  ASSUME Core, Answered, NEW t \in Thread, CallClear(t)
  PROVE  Answered'
<1>1. Cleared
  BY CallClearCore
<1>2. ASSUME NEW x \in Thread PROVE Harmless(x)
  <2>1. \A d \in Depth : /\ frame'[x][d].at = frame[x][d].at
                         /\ frame'[x][d].waited = frame[x][d].waited
    BY <1>1 DEF Cleared, SameCall
  <2>2. depth' = depth /\ (signaled[x] => signaled'[x])
    BY <1>1 DEF Cleared
  <2>3. \A d \in Depth : frame'[x][d].ready => frame[x][d].ready \/ signaled'[x]
    BY <1>1 DEF Cleared
  <2> QED
    BY <2>1, <2>2, <2>3 DEF Harmless, Notified, HandsOn
<1> QED
  BY <1>2, HarmlessAnswered DEF Answered

LEMMA CallStartAnswered ==
  ASSUME Core, Answered, NEW t \in Thread, CallStart(t)
  PROVE  Answered'
<1> USE DEF Core, Base
<1>1. UNCHANGED signaled
  BY CallStartEffect
<1>2. PICK u \in Worker :
        /\ depth[u] = 0 /\ depth' = [depth EXCEPT ![u] = 1] /\ frame'[u][1] = Loop(Forever)
        /\ \A x \in Thread, d \in Depth : x # u \/ d # 1 => frame'[x][d] = frame[x][d]
  BY CallStartEffect
<1>3. u \in Thread /\ depth \in [Thread -> 0..MaxDepth] /\ Loop(Forever).at = "recv"
  BY LoopFrame DEF TypeOK, Thread, Forever
<1>4. ASSUME NEW x \in Thread PROVE Harmless(x)
  <2>1. CASE x = u
    BY <1>1, <1>2, <1>3, <2>1 DEF Harmless, Notified, HandsOn, AnswerLabels, Depth
  <2>2. CASE x # u
    BY <1>1, <1>2, <1>3, <2>2 DEF Harmless, Notified, HandsOn
  <2> QED
    BY <2>1, <2>2
<1> QED
  BY <1>4, HarmlessAnswered DEF Answered

\* Without loops inside handlers: a thread that waits in Send and was answered
\* has its event signaled, whatever its handlers have sent meanwhile, and one
\* that its peer has sent something has it signaled or about to be.
THEOREM SendersWakeUp == ~NestedLoops => (Spec => []SenderWakesUp)
<1> SUFFICES ASSUME ~NestedLoops PROVE Spec => []SenderWakesUp
  OBVIOUS
<1>1. Init => Answered
  <2> SUFFICES ASSUME Init, NEW t \in Thread, NEW d \in Depth PROVE ~Notified(t, d)
    BY DEF Answered, AnsweredAt
  <2>1. ~User.ready /\ ~[User EXCEPT !.at = "recv"].ready
    BY DEF User
  <2>2. frame[t][d] = User \/ frame[t][d] = [User EXCEPT !.at = "recv"]
    BY DEF Init, Free
  <2> QED
    BY <2>1, <2>2 DEF Notified
<1>2. Core /\ Answered /\ [Next]_vars => Answered'
  <2> SUFFICES ASSUME Core, Answered, [Next]_vars PROVE Answered'
    OBVIOUS
  <2>1. CASE Tick \/ UNCHANGED vars
    <3>1. UNCHANGED <<signaled, stacks>>
      BY <2>1 DEF Tick, vars
    <3> QED
      BY <3>1 DEF Answered, AnsweredAt, Notified, HandsOn, stacks
  <2>2. ASSUME NEW t \in Thread, Calls(t) PROVE Answered'
    BY <2>2, QuietAnswered, CallClearAnswered, CallStartAnswered DEF Calls
  <2>3. ASSUME NEW t \in Thread, Step(t) PROVE Answered'
    BY <2>3, QuietAnswered, WakeUpAnswered, CheckReadyAnswered, SendWaitAnswered,
       ReceiveSendsAnswered, SendHandledAnswered, WaitSignalAnswered DEF Step
  <2> QED
    BY <2>1, <2>2, <2>3 DEF Next
<1>3. Core /\ Watchful /\ Answered => SenderWakesUp
  <2> SUFFICES ASSUME Core, Watchful, Answered, NEW t \in Thread, At(t, "sendwait")
               PROVE  /\ Top(t).ready => signaled[t]
                      /\ (\E s \in sendlist_[t] : s.from = Top(t).peer)
                           => signaled[t] \/ WakeUpComing(t)
    BY DEF SenderWakesUp
  <2>1. depth[t] > 0 /\ Top(t).at = "sendwait"
    BY DEF At
  <2>2. depth[t] \in Depth /\ depth[t] \in Nat
    BY <2>1, TopOK DEF Core, Depth
  <2>3. Top(t).ready => signaled[t]
    <3>1. Top(t).ready => Notified(t, depth[t])
      BY <2>1, <2>2 DEF Notified, AnswerLabels, Top
    <3>2. \A e \in Depth : depth[t] < e => ~HandsOn(t, e)
      BY <2>2 DEF HandsOn, Depth
    <3> QED
      BY <2>2, <3>1, <3>2 DEF Answered, AnsweredAt
  <2> QED
    BY <2>1, <2>3 DEF Watchful, Sleepless, Rested
<1> QED
  BY <1>1, <1>2, <1>3, CoreHolds, WatchfulHolds, PTL DEF Spec
------------------------------------------------------------------------------
(* The order of delayed messages. *)

InOrder(t) ==
  \A a \in msgq_[t] :
    /\ \A b \in msgq_[t] : a.pos < b.pos => ~Overtakes(a, b)
    /\ \A b \in dmsgq_[t] : ~Overtakes(a, b)

\* Positions and numbers that were given are below those still to be given.
OrderedAt(t) ==
  /\ \A m \in msgq_[t] : m.pos < appended[t]
                         /\ (m.trigger # Immediate => m.num < dmsgq_next_num_[t])
  /\ \A m \in dmsgq_[t] : m.num < dmsgq_next_num_[t]
  /\ InOrder(t)

Ordered == \A t \in Thread : OrderedAt(t)

LEMMA FewerOrdered ==
  ASSUME NEW t, OrderedAt(t), msgq_'[t] \subseteq msgq_[t], dmsgq_'[t] \subseteq dmsgq_[t],
         appended'[t] = appended[t], dmsgq_next_num_'[t] = dmsgq_next_num_[t]
  PROVE  OrderedAt(t)'
BY DEF OrderedAt, InOrder

LEMMA PushPostOrdered ==
  ASSUME Base, Ordered, NEW t \in Thread, PushPost(t)
  PROVE  Ordered'
<1> USE DEF Base
<1>1. PICK u \in Thread : u = Top(t).peer
  BY TopOK DEF PushPost, At, FrameOK
<1> DEFINE f == Top(t)
           m == [handler |-> f.handler, trigger |-> Immediate, num |-> 0, pos |-> appended[u]]
           n == [handler |-> f.handler, trigger |-> f.when, num |-> dmsgq_next_num_[u], pos |-> 0]
<1>2. appended[u] \in Nat /\ dmsgq_next_num_[u] \in Nat /\ OrderedAt(u)
      /\ msgq_[u] \subseteq Message /\ dmsgq_[u] \subseteq Message
  BY <1>1 DEF TypeOK, Ordered
<1>3. ASSUME NEW x \in Thread, x # u PROVE OrderedAt(x)'
  <2>1. /\ msgq_'[x] = msgq_[x] /\ dmsgq_'[x] = dmsgq_[x] /\ appended'[x] = appended[x]
        /\ dmsgq_next_num_'[x] = dmsgq_next_num_[x]
    BY <1>1, <1>3 DEF PushPost, TypeOK
  <2> QED
    BY <2>1, FewerOrdered DEF Ordered
<1>4. CASE f.when = Immediate
  <2>1. /\ msgq_'[u] = msgq_[u] \cup {m} /\ appended'[u] = appended[u] + 1
        /\ dmsgq_'[u] = dmsgq_[u] /\ dmsgq_next_num_'[u] = dmsgq_next_num_[u]
    BY <1>1, <1>4 DEF PushPost, TypeOK
  <2>2. m.trigger = Immediate /\ m.pos = appended[u]
    OBVIOUS
  <2> HIDE DEF m
  <2>3. \A k \in Message : k.pos \in Nat
    BY DEF Message
  <2>4. \A k \in msgq_'[u] : k.pos < appended'[u]
                             /\ (k.trigger # Immediate => k.num < dmsgq_next_num_'[u])
    BY <1>2, <2>1, <2>2, <2>3 DEF OrderedAt
  <2>5. InOrder(u)'
    BY <1>2, <2>1, <2>2 DEF OrderedAt, InOrder, Overtakes
  <2>6. OrderedAt(u)'
    BY <1>2, <2>1, <2>4, <2>5 DEF OrderedAt
  <2> QED
    BY <1>3, <2>6 DEF Ordered
<1>5. CASE f.when # Immediate
  <2>1. /\ dmsgq_'[u] = dmsgq_[u] \cup {n} /\ dmsgq_next_num_'[u] = dmsgq_next_num_[u] + 1
        /\ msgq_'[u] = msgq_[u] /\ appended'[u] = appended[u]
    BY <1>1, <1>5 DEF PushPost, TypeOK
  <2>2. n.num = dmsgq_next_num_[u]
    OBVIOUS
  <2> HIDE DEF n
  <2>3. \A k \in Message : k.num \in Nat
    BY DEF Message
  <2>4. /\ \A k \in msgq_[u] : k.trigger # Immediate => k.num < dmsgq_next_num_[u] + 1
        /\ \A k \in dmsgq_'[u] : k.num < dmsgq_next_num_[u] + 1
    BY <1>2, <2>1, <2>2, <2>3 DEF OrderedAt
  <2>5. \A k \in msgq_[u] : ~Overtakes(k, n)
    BY <1>2, <2>2, <2>3 DEF OrderedAt, Overtakes
  <2>6. InOrder(u)'
    BY <1>2, <2>1, <2>5 DEF OrderedAt, InOrder
  <2>7. OrderedAt(u)'
    BY <1>2, <2>1, <2>4, <2>6 DEF OrderedAt
  <2> QED
    BY <1>3, <2>7 DEF Ordered
<1> QED
  BY <1>4, <1>5

\* Of two posts between which the number did not wrap the later has the higher.
LEMMA LaterNumber ==
  ASSUME NEW a \in Nat, NEW b \in Nat, a < b, a \div Numbers = b \div Numbers
  PROVE  a % Numbers < b % Numbers
BY NumbersAssumption, SMT

\* The messages that are moved keep their order.
LEMMA MovedInOrder ==
  ASSUME Base, NEW t \in Thread, NEW p \in Orders(t)
  PROVE  /\ \A a \in Moved(t, p) : /\ a.pos >= appended[t]
                                   /\ a.pos < appended[t] + Cardinality(Due(t))
                                   /\ \E m \in Due(t) : a.trigger = m.trigger /\ a.num = m.num
         /\ \A a \in Moved(t, p), b \in Moved(t, p) : a.pos < b.pos => ~Overtakes(a, b)
<1>1. Cardinality(Due(t)) \in Nat /\ Due(t) \subseteq Message /\ appended[t] \in Nat
  BY DueMessages DEF Base, TypeOK
<1>2. \A m \in Due(t) : m.trigger \in Int /\ m.num \in Nat
  BY <1>1 DEF Message
<1>3. ASSUME NEW a \in Moved(t, p)
      PROVE  /\ a.pos >= appended[t] /\ a.pos < appended[t] + Cardinality(Due(t))
             /\ \E m \in Due(t) : a.trigger = m.trigger /\ a.num = m.num
  <2>1. PICK m \in Due(t) : /\ a.trigger = m.trigger /\ a.num = m.num
                            /\ a.pos = appended[t] + p[m]
                            /\ p[m] \in 0..(Cardinality(Due(t)) - 1)
    BY MovedMessages
  <2> QED
    BY <1>1, <2>1
<1>4. ASSUME NEW a \in Moved(t, p), NEW b \in Moved(t, p), a.pos < b.pos, Overtakes(a, b)
      PROVE  FALSE
  <2>1. PICK m \in Due(t) : /\ a.trigger = m.trigger /\ a.num = m.num
                            /\ a.pos = appended[t] + p[m]
                            /\ p[m] \in 0..(Cardinality(Due(t)) - 1)
    BY MovedMessages
  <2>2. PICK n \in Due(t) : /\ b.trigger = n.trigger /\ b.num = n.num
                            /\ b.pos = appended[t] + p[n]
                            /\ p[n] \in 0..(Cardinality(Due(t)) - 1)
    BY MovedMessages
  <2>3. /\ n.num < m.num
        /\ \/ n.trigger < m.trigger
           \/ n.trigger = m.trigger /\ n.num \div Numbers = m.num \div Numbers
    BY <1>4, <2>1, <2>2 DEF Overtakes
  <2>4. Sooner(n, m)
    BY <1>2, <2>3, LaterNumber DEF Sooner, Number
  <2>5. p[n] < p[m]
    BY <2>4 DEF Orders
  <2> QED
    BY <1>1, <1>4, <2>1, <2>2, <2>5
<1> QED
  BY <1>3, <1>4

LEMMA ScanOrdered ==
  ASSUME Base, Ordered, NEW t \in Thread, Scan(t)
  PROVE  Ordered'
<1> USE DEF Base
<1> DEFINE w == NextTrigger(dmsgq_[t] \ Due(t))
<1>0. PICK p \in Orders(t) : /\ msgq_[t] \cup Moved(t, p) \in SUBSET Message
                             /\ Take(t, msgq_[t] \cup Moved(t, p), [Top(t) EXCEPT !.when = w])
  BY ScanEffect
<1> DEFINE q == msgq_[t] \cup Moved(t, p)
<1>1. /\ depth[t] > 0 /\ Top(t).at = "scan" /\ w \in Times /\ q \in SUBSET Message
      /\ Take(t, q, [Top(t) EXCEPT !.when = w])
      /\ dmsgq_' = [dmsgq_ EXCEPT ![t] = @ \ Due(t)]
      /\ appended' = [appended EXCEPT ![t] = @ + Cardinality(Due(t))]
      /\ UNCHANGED dmsgq_next_num_
  BY <1>0, ScanEffect
<1> HIDE DEF w
<1>2. msgq_'[t] \subseteq q /\ \A x \in Thread : x # t => msgq_'[x] = msgq_[x]
  <2> HIDE DEF q
  <2> QED
    BY <1>1, TakeLocal
<1>3. ASSUME NEW x \in Thread, x # t PROVE OrderedAt(x)'
  <2>1. msgq_'[x] = msgq_[x] /\ dmsgq_'[x] = dmsgq_[x] /\ appended'[x] = appended[x]
    BY <1>1, <1>2, <1>3 DEF TypeOK
  <2> QED
    BY <1>1, <2>1, FewerOrdered DEF Ordered
<1>4. /\ dmsgq_'[t] = dmsgq_[t] \ Due(t)
      /\ appended'[t] = appended[t] + Cardinality(Due(t))
      /\ appended[t] \in Nat /\ Cardinality(Due(t)) \in Nat /\ OrderedAt(t)
      /\ Due(t) \subseteq dmsgq_[t]
  BY <1>1, DueMessages DEF TypeOK, Ordered
<1>5. /\ \A a \in Moved(t, p) : /\ a.pos >= appended[t]
                             /\ a.pos < appended[t] + Cardinality(Due(t))
                             /\ \E m \in Due(t) : a.trigger = m.trigger /\ a.num = m.num
      /\ \A a \in Moved(t, p), b \in Moved(t, p) : a.pos < b.pos => ~Overtakes(a, b)
  BY MovedInOrder
<1>6. /\ \A m \in q : m.pos \in Nat /\ m.trigger \in Int
      /\ \A m \in dmsgq_[t] : m.trigger \in Int
      /\ \A m \in Due(t) : m.trigger <= Top(t).cur
      /\ \A m \in dmsgq_[t] \ Due(t) : ~(m.trigger <= Top(t).cur)
      /\ Top(t).cur \in Int
  BY <1>1, TopOK DEF TypeOK, Message, Due, Frame
<1>7. ASSUME NEW a \in q
      PROVE  /\ a.pos < appended'[t]
             /\ a.trigger # Immediate => a.num < dmsgq_next_num_'[t]
  <2>1. CASE a \in msgq_[t]
    BY <1>1, <1>4, <1>6, <2>1 DEF OrderedAt
  <2>2. CASE a \in Moved(t, p)
    BY <1>1, <1>4, <1>5, <2>2 DEF OrderedAt
  <2> QED
    BY <2>1, <2>2
<1>8. ASSUME NEW a \in q, NEW b \in q, a.pos < b.pos PROVE ~Overtakes(a, b)
  <2>1. CASE a \in msgq_[t] /\ b \in msgq_[t]
    BY <1>4, <1>8, <2>1 DEF OrderedAt, InOrder
  <2>2. CASE a \in msgq_[t] /\ b \in Moved(t, p)
    <3>1. PICK m \in Due(t) : b.trigger = m.trigger /\ b.num = m.num
      BY <1>5, <2>2
    <3>2. ~Overtakes(a, m)
      BY <1>4, <2>2, <3>1 DEF OrderedAt, InOrder
    <3> QED
      BY <3>1, <3>2 DEF Overtakes
  <2>3. CASE a \in Moved(t, p) /\ b \in msgq_[t]
    BY <1>4, <1>5, <1>6, <1>8, <2>3 DEF OrderedAt
  <2>4. CASE a \in Moved(t, p) /\ b \in Moved(t, p)
    BY <1>5, <1>8, <2>4
  <2> QED
    BY <2>1, <2>2, <2>3, <2>4
<1>9. ASSUME NEW a \in q, NEW b \in dmsgq_[t] \ Due(t) PROVE ~Overtakes(a, b)
  <2>1. CASE a \in msgq_[t]
    BY <1>4, <2>1 DEF OrderedAt, InOrder
  <2>2. CASE a \in Moved(t, p)
    <3>1. a.trigger <= Top(t).cur /\ ~(b.trigger <= Top(t).cur)
      BY <1>5, <1>6, <2>2
    <3> QED
      BY <1>6, <3>1 DEF Overtakes
  <2> QED
    BY <2>1, <2>2
<1>10. OrderedAt(t)'
  <2> HIDE DEF q
  <2>1. InOrder(t)'
    BY <1>2, <1>4, <1>8, <1>9 DEF InOrder
  <2>2. \A m \in dmsgq_'[t] : m.num < dmsgq_next_num_'[t]
    BY <1>1, <1>4 DEF OrderedAt
  <2> QED
    BY <1>2, <1>7, <2>1, <2>2 DEF OrderedAt
<1> QED
  BY <1>3, <1>10 DEF Ordered

LEMMA NextOrdered ==
  ASSUME Core, Ordered, [Next]_vars
  PROVE  Ordered'
<1> USE DEF Core, Base
<1>1. CASE UNCHANGED <<msgq_, dmsgq_, dmsgq_next_num_, appended>>
  BY <1>1, FewerOrdered DEF Ordered
<1>2. ASSUME NEW t \in Thread, PushSend(t) PROVE Ordered'
  <2>1. UNCHANGED <<msgq_, dmsgq_, dmsgq_next_num_>>
    BY <1>2 DEF PushSend
  <2>2. \A x \in Thread : appended'[x] = appended[x] \/ appended'[x] = appended[x] + 1
    BY <1>2 DEF PushSend, TypeOK
  <2>3. ASSUME NEW x \in Thread PROVE OrderedAt(x)'
    <3>1. appended[x] \in Nat /\ \A m \in msgq_[x] : m.pos \in Nat
      BY DEF TypeOK, Message
    <3>2. \A m \in msgq_[x] : m.pos < appended'[x]
      BY <2>2, <3>1 DEF Ordered, OrderedAt
    <3> QED
      BY <2>1, <3>2 DEF Ordered, OrderedAt, InOrder
  <2> QED
    BY <2>3 DEF Ordered
<1>3. ASSUME NEW t \in Thread, NextPass(t) PROVE Ordered'
  <2>1. UNCHANGED <<dmsgq_, dmsgq_next_num_, appended>>
    BY <1>3 DEF NextPass
  <2>2. PICK w : w = Top(t).when
    OBVIOUS
  <2>3. /\ depth[t] > 0 /\ Top(t).at = "pop" /\ w \in Times /\ msgq_[t] \in SUBSET Message
        /\ Take(t, msgq_[t], [Top(t) EXCEPT !.when = w])
    BY <1>3, <2>2, NextPassEffect
  <2>4. msgq_'[t] \subseteq msgq_[t] /\ \A x \in Thread : x # t => msgq_'[x] = msgq_[x]
    BY <2>3, TakeLocal
  <2> QED
    BY <2>1, <2>4, FewerOrdered DEF Ordered
<1>4. ASSUME NEW t \in Thread, CallClear(t) PROVE Ordered'
  <2>1. UNCHANGED <<dmsgq_next_num_, appended>> /\ Cleared
    BY <1>4, CallClearCore DEF CallClear
  <2> QED
    BY <2>1, FewerOrdered DEF Ordered, Cleared
<1>5. ASSUME NEW t \in Thread, Calls(t) PROVE Ordered'
  BY <1>1, <1>4, <1>5 DEF Calls, CallPost, CallSend, CallProcessMessages, CallQuit,
     CallStop,
     CallStart, queues
<1>6. ASSUME NEW t \in Thread, Step(t) PROVE Ordered'
  BY <1>1, <1>2, <1>3, <1>6, PushPostOrdered, ScanOrdered DEF Step, WakeUp, CheckReady,
     SendWait,
     ReceiveSends, HandlerReturns, SendHandled, LoopAgain, CheckQuit, WaitSignal, WaitTimeout,
     Join, queues
<1> QED
  BY <1>1, <1>5, <1>6 DEF Next, Tick, vars, queues

\* Delayed messages reach the queue, and leave it, in the order of their
\* trigger times, and of posting where these are equal.
THEOREM DelayedInOrder == Spec => []DueOrder
<1>1. Init => Ordered
  <2> SUFFICES ASSUME Init, NEW t \in Thread PROVE OrderedAt(t)
    BY DEF Ordered
  <2>1. dmsgq_[t] = {} /\ appended[t] = 1
    BY DEF Init
  <2>2. \A m \in msgq_[t] : m.trigger = Immediate /\ m.pos = 0
    BY DEF Init
  <2> QED
    BY <2>1, <2>2 DEF OrderedAt, InOrder, Overtakes
<1>2. Core /\ Ordered /\ [Next]_vars => Ordered'
  BY NextOrdered
<1>3. Ordered => DueOrder
  BY DEF Ordered, OrderedAt, InOrder, DueOrder
<1> QED
  BY <1>1, <1>2, <1>3, CoreHolds, PTL DEF Spec
------------------------------------------------------------------------------
(* Sends are a rendezvous: what each step does to the three sets of calls. *)

Sends == Thread \X Depth \X Thread

\* The message of call d of thread x to y is in the list, or its handler runs.
Listed(x, d, y) == \E s \in sendlist_[y] : s.from = x /\ s.depth = d
Handled(x, d, y) == \E e \in Depth : Runs(y, e, x, d)

\* The sets, call by call.
Tracked ==
  /\ InSend \in SUBSET Sends /\ InList \in SUBSET Sends /\ InHandler \in SUBSET Sends
  /\ \A x \in Thread, d \in Depth, y \in Thread :
       /\ <<x, d, y>> \in InSend <=> Sending(x, d, y)
       /\ <<x, d, y>> \in InList <=> Listed(x, d, y)
       /\ <<x, d, y>> \in InHandler <=> Handled(x, d, y)

LEMMA Members == Core => Tracked
<1> SUFFICES ASSUME Core PROVE Tracked
  OBVIOUS
<1>1. frame \in [Thread -> [Depth -> Frame]] /\ depth \in [Thread -> 0..MaxDepth]
      /\ sendlist_ \in [Thread -> SUBSET Sent]
  BY DEF Core, Base, TypeOK
<1>2. ASSUME NEW x \in Thread, NEW d \in Depth, d <= depth[x]
      PROVE  /\ frame[x][d].at \in SendLabels => frame[x][d].peer \in Thread
             /\ frame[x][d].from # NoThread => frame[x][d].from \in Thread
             /\ frame[x][d].fromDepth \in Depth
  <2>1. frame[x][d] \in Frame
    BY <1>1
  <2>2. d \in 1..depth[x]
    BY <1>1, <1>2 DEF Depth
  <2>3. FrameOK(x, d, frame[x][d], clock)
    BY <2>2 DEF Core, Base, Shape
  <2> QED
    BY <2>1, <2>3 DEF FrameOK, Frame
<1>3. \A u \in Thread : \A s \in sendlist_[u] : s.from \in Thread /\ s.depth \in Depth
  BY <1>1 DEF Sent
<1>4. \A x \in Thread, d \in Depth : <<x, d>> \in Calling <=> d <= depth[x]
  BY DEF Calling
<1>5. \A p \in Calling : p[1] \in Thread /\ p[2] \in Depth /\ p[2] <= depth[p[1]]
  BY DEF Calling
<1>6. InSend \in SUBSET Sends /\ InHandler \in SUBSET Sends
  BY <1>2, <1>5 DEF InSend, InHandler, Sends
<1>7. InList \in SUBSET Sends
  BY <1>3 DEF InList, Sends
<1>8. ASSUME NEW x \in Thread, NEW d \in Depth, NEW y \in Thread
      PROVE  <<x, d, y>> \in InSend <=> Sending(x, d, y)
  <2>1. <<x, d, y>> \in InSend => Sending(x, d, y)
    BY <1>5 DEF InSend, Sending
  <2>2. ASSUME Sending(x, d, y) PROVE <<x, d, y>> \in InSend
    <3>1. PICK p \in Calling : p = <<x, d>>
      BY <1>4, <2>2 DEF Sending
    <3>2. p[1] = x /\ p[2] = d
      BY <3>1
    <3>3. p \in {q \in Calling : frame[q[1]][q[2]].at \in SendLabels}
      BY <2>2, <3>2 DEF Sending
    <3>4. <<x, d, y>> = <<p[1], p[2], frame[p[1]][p[2]].peer>>
      BY <2>2, <3>2 DEF Sending
    <3> QED
      BY <3>3, <3>4 DEF InSend
  <2> QED
    BY <2>1, <2>2
<1>9. ASSUME NEW x \in Thread, NEW d \in Depth, NEW y \in Thread
      PROVE  <<x, d, y>> \in InList <=> Listed(x, d, y)
  BY DEF InList, Listed
<1>10. ASSUME NEW x \in Thread, NEW d \in Depth, NEW y \in Thread
       PROVE  <<x, d, y>> \in InHandler <=> Handled(x, d, y)
  <2>1. <<x, d, y>> \in InHandler => Handled(x, d, y)
    BY <1>5 DEF InHandler, Handled, Runs
  <2>2. ASSUME Handled(x, d, y) PROVE <<x, d, y>> \in InHandler
    <3>1. PICK e \in Depth : Runs(y, e, x, d)
      BY <2>2 DEF Handled
    <3>2. PICK p \in Calling : p = <<y, e>>
      BY <1>4, <3>1 DEF Runs
    <3>3. p[1] = y /\ p[2] = e
      BY <3>2
    <3>4. p \in {q \in Calling : frame[q[1]][q[2]].from # NoThread}
      BY <3>1, <3>3 DEF Runs
    <3>5. <<x, d, y>> = <<frame[p[1]][p[2]].from, frame[p[1]][p[2]].fromDepth, p[1]>>
      BY <3>1, <3>3 DEF Runs
    <3> QED
      BY <3>4, <3>5 DEF InHandler
  <2> QED
    BY <2>1, <2>2
<1> QED
  BY <1>6, <1>7, <1>8, <1>9, <1>10 DEF Tracked

LEMMA MembersNext == Core' => Tracked'
BY Members, PTL

LEMMA SameMembers ==
  ASSUME NEW S \in SUBSET Sends, NEW R \in SUBSET Sends,
         \A x \in Thread, d \in Depth, y \in Thread : <<x, d, y>> \in S <=> <<x, d, y>> \in R
  PROVE  S = R
<1>1. \A c \in Sends : c = <<c[1], c[2], c[3]>> /\ c[1] \in Thread /\ c[2] \in Depth /\ c[3] \in Thread
  BY DEF Sends
<1>2. \A c \in Sends : c \in S <=> c \in R
  BY <1>1
<1> QED
  BY <1>2

\* S has the members of R and call d of thread x to y; or all but that one.
Gains(S, R, x, d, y) ==
  \A a \in Thread, b \in Depth, u \in Thread :
    <<a, b, u>> \in S <=> <<a, b, u>> \in R \/ (a = x /\ b = d /\ u = y)
Loses(S, R, x, d, y) ==
  \A a \in Thread, b \in Depth, u \in Thread :
    <<a, b, u>> \in S <=> <<a, b, u>> \in R /\ ~(a = x /\ b = d /\ u = y)

LEMMA Added ==
  ASSUME NEW S \in SUBSET Sends, NEW R \in SUBSET Sends,
         NEW x \in Thread, NEW d \in Depth, NEW y \in Thread, Gains(S, R, x, d, y)
  PROVE  S = R \cup {<<x, d, y>>}
<1>0. <<x, d, y>> \in Sends
  BY DEF Sends
<1>1. PICK T \in SUBSET Sends : T = R \cup {<<x, d, y>>}
  BY <1>0
<1>2. \A a \in Thread, b \in Depth, u \in Thread : <<a, b, u>> \in S <=> <<a, b, u>> \in T
  BY <1>1 DEF Gains
<1>3. S = T
  BY <1>2, SameMembers, Zenon
<1> QED
  BY <1>1, <1>3

LEMMA Removed ==
  ASSUME NEW S \in SUBSET Sends, NEW R \in SUBSET Sends,
         NEW x \in Thread, NEW d \in Depth, NEW y \in Thread, Loses(S, R, x, d, y)
  PROVE  S = R \ {<<x, d, y>>}
<1>1. PICK T \in SUBSET Sends : T = R \ {<<x, d, y>>}
  OBVIOUS
<1>2. \A a \in Thread, b \in Depth, u \in Thread : <<a, b, u>> \in S <=> <<a, b, u>> \in T
  BY <1>1 DEF Loses
<1>3. S = T
  BY <1>2, SameMembers, Zenon
<1> QED
  BY <1>1, <1>3

\* No Send begins or returns; no handler begins or returns.
LEMMA SendsStay ==
  ASSUME Core, Core',
         \A x \in Thread, d \in Depth, y \in Thread : Sending(x, d, y)' <=> Sending(x, d, y)
  PROVE  InSend' = InSend
<1>1. Tracked /\ Tracked'
  BY Members, MembersNext
<1>2. InSend \in SUBSET Sends /\ InSend' \in SUBSET Sends
  BY <1>1 DEF Tracked
<1>3. \A x \in Thread, d \in Depth, y \in Thread : <<x, d, y>> \in InSend' <=> <<x, d, y>> \in InSend
  BY <1>1 DEF Tracked
<1> QED
  BY <1>2, <1>3, SameMembers, Zenon

LEMMA HandlersStay ==
  ASSUME Core, Core',
         \A y \in Thread, e \in Depth, x \in Thread, d \in Depth :
            Runs(y, e, x, d)' <=> Runs(y, e, x, d)
  PROVE  InHandler' = InHandler
<1>1. Tracked /\ Tracked'
  BY Members, MembersNext
<1>2. InHandler \in SUBSET Sends /\ InHandler' \in SUBSET Sends
  BY <1>1 DEF Tracked
<1>3. \A x \in Thread, d \in Depth, y \in Thread : Handled(x, d, y)' <=> Handled(x, d, y)
  BY DEF Handled
<1>4. \A x \in Thread, d \in Depth, y \in Thread :
        <<x, d, y>> \in InHandler' <=> <<x, d, y>> \in InHandler
  BY <1>1, <1>3 DEF Tracked
<1> QED
  BY <1>2, <1>4, SameMembers, Zenon

\* A step of which the rendezvous sees nothing.
LEMMA StillMeets ==
  ASSUME Core, Core', UNCHANGED sendlist_,
         \A x \in Thread, d \in Depth, y \in Thread : Sending(x, d, y)' <=> Sending(x, d, y),
         \A y \in Thread, e \in Depth, x \in Thread, d \in Depth :
            Runs(y, e, x, d)' <=> Runs(y, e, x, d)
  PROVE  UNCHANGED Meeting!calls
<1>1. InList' = InList
  BY DEF InList
<1> QED
  BY <1>1, SendsStay, HandlersStay DEF Meeting!calls

\* The same Send, wherever it stands, or none.
SameTarget(f, g) ==
  /\ f.at \in SendLabels <=> g.at \in SendLabels
  /\ f.at \in SendLabels => g.peer = f.peer

\* A step of t after which the calls on its stack are in the same Sends.
Steady(t) ==
  \/ UNCHANGED stacks
  \/ \E f : Replaced(t, f) /\ SameTarget(Top(t), f)
  \/ \E f, g : Pushed(t, f, g) /\ SameTarget(Top(t), f) /\ g.at \notin SendLabels
  \/ Popped(t) /\ Top(t).at \notin SendLabels

LEMMA SteadySends ==
  ASSUME Base, NEW t \in Thread, depth[t] > 0, Steady(t)
  PROVE  \A x \in Thread, d \in Depth, y \in Thread : Sending(x, d, y)' <=> Sending(x, d, y)
<1>1. frame \in [Thread -> [Depth -> Frame]] /\ depth \in [Thread -> 0..MaxDepth]
  BY DEF Base, TypeOK
<1>2. depth[t] \in Depth /\ Top(t) = frame[t][depth[t]]
  BY <1>1 DEF Depth, Top
<1>3. CASE UNCHANGED stacks
  BY <1>3 DEF stacks, Sending
<1>4. CASE \E f : Replaced(t, f) /\ SameTarget(Top(t), f)
  BY <1>1, <1>2, <1>4 DEF Replaced, SameTarget, Sending
<1>5. CASE \E f, g : Pushed(t, f, g) /\ SameTarget(Top(t), f) /\ g.at \notin SendLabels
  <2>1. PICK f, g : Pushed(t, f, g) /\ SameTarget(Top(t), f) /\ g.at \notin SendLabels
    BY <1>5
  <2>2. \A x \in Thread, d \in Depth :
          \/ x = t /\ d = depth[t] /\ frame'[x][d] = f
          \/ x = t /\ d = depth[t] + 1 /\ frame'[x][d] = g
          \/ frame'[x][d] = frame[x][d] /\ (d <= depth'[x] <=> d <= depth[x])
    BY <1>1, <1>2, <2>1 DEF Pushed, Depth
  <2>3. depth'[t] = depth[t] + 1
    BY <1>1, <2>1 DEF Pushed
  <2> QED
    BY <1>1, <1>2, <2>1, <2>2, <2>3 DEF SameTarget, Sending, Depth
<1>6. CASE Popped(t) /\ Top(t).at \notin SendLabels
  <2>1. \A x \in Thread, d \in Depth :
          \/ x = t /\ d = depth[t] /\ ~(d <= depth'[x])
          \/ frame'[x][d] = frame[x][d] /\ (d <= depth'[x] <=> d <= depth[x])
    BY <1>1, <1>2, <1>6 DEF Popped, Depth
  <2> QED
    BY <1>2, <1>6, <2>1 DEF Sending
<1> QED
  BY <1>3, <1>4, <1>5, <1>6 DEF Steady

LEMMA SteadyMeets ==
  ASSUME Core, Core', NEW t \in Thread, depth[t] > 0, Local(t), Steady(t), UNCHANGED sendlist_
  PROVE  UNCHANGED Meeting!calls
<1>1. Base
  BY DEF Core
<1> QED
  BY <1>1, LocalKeeps, SteadySends, StillMeets

\* Calls and steps that touch no send list, and Send's return left aside.
LEMMA QuietMeets ==
  ASSUME Core, Core', NEW t \in Thread,
         \/ CallPost(t) \/ CallSend(t) \/ CallProcessMessages(t) \/ WakeUp(t)
         \/ SendWait(t) \/ HandlerReturns(t) \/ LoopAgain(t) \/ CheckQuit(t)
         \/ WaitSignal(t) \/ WaitTimeout(t) \/ CallQuit(t) \/ CallStop(t)
         \/ PushPost(t) \/ Scan(t) \/ NextPass(t)
  PROVE  UNCHANGED Meeting!calls
<1>0. Base
  BY DEF Core
<1>1. ASSUME depth[t] > 0, Top(t).at \notin SendLabels,
             \/ Popped(t) \/ UNCHANGED stacks
             \/ \E f : Replaced(t, f) /\ f.at \notin SendLabels
             \/ \E f, g : Pushed(t, f, g) /\ f.at \notin SendLabels /\ g.at \notin SendLabels
      PROVE  Steady(t)
  BY <1>1 DEF Steady, SameTarget
<1>2. depth[t] > 0 /\ Local(t) /\ Steady(t) /\ UNCHANGED sendlist_
  <2>1. CASE CallPost(t)
    <3>1. Top(t).at = "run" /\ UNCHANGED sendlist_
      BY <2>1 DEF CallPost, Call, At, queues
    <3> QED
      BY <1>0, <1>1, <2>1, <3>1, CallPostLocal DEF SendLabels
  <2>2. CASE CallSend(t)
    <3>1. Top(t).at = "run" /\ User.at = "run" /\ UNCHANGED sendlist_
      BY <2>2 DEF CallSend, Call, At, queues, User
    <3> QED
      BY <1>0, <1>1, <2>2, <3>1, CallSendLocal DEF SendLabels
  <2>3. CASE CallProcessMessages(t)
    <3>1. Top(t).at = "run" /\ UNCHANGED sendlist_
      BY <2>3 DEF CallProcessMessages, Call, At, queues
    <3> QED
      BY <1>0, <1>1, <2>3, <3>1, CallProcessMessagesLocal DEF SendLabels
  <2>4. CASE WakeUp(t)
    <3>1. UNCHANGED sendlist_
      BY <2>4 DEF WakeUp, queues
    <3>2. depth[t] > 0 /\ Local(t)
      BY <1>0, <2>4, WakeUpLocal
    <3>3. PICK f \in Frame :
            /\ Replaced(t, f) /\ f.at \in {"run", "check", "join"}
            /\ Top(t).at \in SendLabels => f.at = "check" /\ f.peer = Top(t).peer
            /\ f.at = "check" => Top(t).at \in SendLabels
      BY <1>0, <2>4, WakeUpLocal
    <3>4. SameTarget(Top(t), f)
      BY <3>3 DEF SameTarget, SendLabels
    <3> QED
      BY <3>1, <3>2, <3>3, <3>4 DEF Steady
  <2>5. CASE SendWait(t)
    <3> DEFINE f == [Top(t) EXCEPT !.at = "check", !.waited = TRUE]
    <3>1. UNCHANGED sendlist_
      BY <2>5 DEF SendWait, queues
    <3>2. depth[t] > 0 /\ Local(t) /\ Top(t).at = "sendwait" /\ Replaced(t, f)
      BY <1>0, <2>5, SendWaitLocal
    <3>3. f.at = "check" /\ f.peer = Top(t).peer
      BY <1>0, <3>2, TopOK DEF Frame
    <3> HIDE DEF f
    <3>4. SameTarget(Top(t), f)
      BY <3>2, <3>3 DEF SameTarget, SendLabels
    <3> QED
      BY <3>1, <3>2, <3>4 DEF Steady
  <2>6. CASE HandlerReturns(t)
    <3>1. UNCHANGED sendlist_
      BY <2>6 DEF HandlerReturns, queues
    <3> QED
      BY <1>0, <1>1, <2>6, <3>1, HandlerReturnsLocal DEF SendLabels
  <2>7. CASE LoopAgain(t)
    <3>1. UNCHANGED sendlist_
      BY <2>7 DEF LoopAgain, queues
    <3> QED
      BY <1>0, <1>1, <2>7, <3>1, LoopAgainLocal DEF SendLabels
  <2>8. CASE CheckQuit(t)
    <3> DEFINE f == [Top(t) EXCEPT !.at = "wait", !.when = Deadline(Top(t))]
    <3>1. UNCHANGED sendlist_
      BY <2>8 DEF CheckQuit, queues
    <3>2. depth[t] > 0 /\ Local(t) /\ Top(t).at = "quit" /\ (Popped(t) \/ Replaced(t, f))
      BY <1>0, <2>8, CheckQuitLocal
    <3>3. f.at = "wait"
      BY <1>0, <3>2, TopOK DEF Frame
    <3> HIDE DEF f
    <3> QED
      BY <1>1, <3>1, <3>2, <3>3 DEF SendLabels
  <2>9. CASE WaitSignal(t) \/ WaitTimeout(t)
    <3>1. depth[t] > 0 /\ Top(t).at = "wait" /\ Awake(t) /\ UNCHANGED sendlist_
      BY <2>9 DEF WaitSignal, WaitTimeout, At, queues
    <3> QED
      BY <1>0, <1>1, <3>1, AwakeLocal DEF SendLabels
  <2>10. CASE CallQuit(t) \/ CallStop(t)
    <3>1. Top(t).at = "run" /\ UNCHANGED sendlist_
      BY <2>10 DEF CallQuit, CallStop, Call, At, queues
    <3>2. depth[t] > 0 /\ Local(t) /\ \E f : Replaced(t, f) /\ f.at \in {"wake", "stop"}
      BY <1>0, <2>10, CallQuitLocal
    <3> QED
      BY <1>1, <3>1, <3>2 DEF SendLabels
  <2>11. CASE PushPost(t)
    <3> DEFINE f == [Top(t) EXCEPT !.at = "wake"]
    <3>1. Top(t).at = "post" /\ UNCHANGED sendlist_
      BY <2>11 DEF PushPost, At
    <3>2. depth[t] > 0 /\ Local(t) /\ Replaced(t, f)
      BY <1>0, <2>11, PushPostLocal
    <3>3. f.at = "wake"
      BY <1>0, <3>2, TopOK DEF Frame
    <3> HIDE DEF f
    <3> QED
      BY <1>1, <3>1, <3>2, <3>3 DEF SendLabels
  <2>12. CASE Scan(t)
    <3> DEFINE w == NextTrigger(dmsgq_[t] \ Due(t))
               f == [Top(t) EXCEPT !.when = w]
    <3>1. /\ depth[t] > 0 /\ Top(t).at = "scan" /\ w \in Times
          /\ \E q \in SUBSET Message : Take(t, q, f)
          /\ UNCHANGED sendlist_
      BY <1>0, <2>12, ScanEffect
    <3> HIDE DEF w
    <3>2. /\ Local(t)
          /\ \/ \E g : Replaced(t, g) /\ g.at \in {"quit", "pop"}
             \/ \E g : g.at = "got" /\ Pushed(t, g, User)
      BY <1>0, <3>1, TakeLocal
    <3>3. User.at = "run"
      BY DEF User
    <3> QED
      BY <1>1, <3>1, <3>2, <3>3 DEF SendLabels
  <2>13. CASE NextPass(t)
    <3> DEFINE f == [Top(t) EXCEPT !.when = Top(t).when]
    <3>1. /\ depth[t] > 0 /\ Top(t).at = "pop" /\ Top(t).when \in Times
          /\ msgq_[t] \in SUBSET Message /\ Take(t, msgq_[t], f)
      BY <1>0, <2>13, NextPassEffect
    <3>2. /\ Local(t)
          /\ \/ \E g : Replaced(t, g) /\ g.at \in {"quit", "pop"}
             \/ \E g : g.at = "got" /\ Pushed(t, g, User)
      BY <1>0, <3>1, TakeLocal
    <3>3. User.at = "run" /\ UNCHANGED sendlist_
      BY <2>13 DEF User, NextPass
    <3> QED
      BY <1>1, <3>1, <3>2, <3>3 DEF SendLabels
  <2> QED
    BY <2>1, <2>2, <2>3, <2>4, <2>5, <2>6, <2>7, <2>8, <2>9, <2>10, <2>11, <2>12, <2>13
<1> QED
  BY <1>2, SteadyMeets

\* Send returns once it was answered.
LEMMA CheckReadyMeets ==
  ASSUME Core, Core', NEW t \in Thread, CheckReady(t)
  PROVE  [Meeting!RendezvousNext]_Meeting!calls
<1>1. Base /\ UNCHANGED sendlist_
  BY DEF Core, CheckReady, queues
<1>2. depth[t] > 0 /\ Local(t) /\ Top(t).at = "check"
  BY <1>1, CheckReadyLocal
<1>3. Top(t) \in Frame /\ depth[t] \in Depth /\ FrameOK(t, depth[t], Top(t), clock)
  BY <1>1, <1>2, TopOK
<1>4. CASE ~Top(t).ready
  <2> DEFINE f == [Top(t) EXCEPT !.at = "sendrecv"]
  <2>1. Replaced(t, f)
    BY <1>1, <1>4, CheckReadyLocal
  <2>2. f.at = "sendrecv" /\ f.peer = Top(t).peer
    BY <1>3 DEF Frame
  <2> HIDE DEF f
  <2>3. Steady(t)
    BY <1>2, <2>1, <2>2 DEF Steady, SameTarget, SendLabels
  <2> QED
    BY <1>1, <1>2, <2>3, SteadyMeets
<1>5. CASE Top(t).ready
  <2>1. Replaced(t, Finished(t)) /\ Finished(t).at = "run"
    BY <1>1, <1>5, CheckReadyLocal
  <2>2. PICK u \in Thread, e \in Depth : u = Top(t).peer /\ e = depth[t]
    BY <1>2, <1>3 DEF FrameOK, SendLabels
  <2>3. Sending(t, e, u) /\ \A y \in Thread : ~Open(t, e, y)
    BY <1>2, <1>3, <1>5, <2>2 DEF Sending, Open, Top, SendLabels, Depth
  <2>4. ~Listed(t, e, u) /\ ~Handled(t, e, u)
    BY <2>3 DEF Core, Account, Listed, Handled
  <2>5. \A x \in Thread, d \in Depth, y \in Thread :
          Sending(x, d, y)' <=> Sending(x, d, y) /\ ~(x = t /\ d = e /\ y = u)
    BY <2>1, <2>2, <2>3 DEF Replaced, Sending, SendLabels
  <2>6. Tracked /\ Tracked'
    BY Members, MembersNext
  <2>7. InSend' = InSend \ {<<t, e, u>>}
    <3>1. InSend \in SUBSET Sends /\ InSend' \in SUBSET Sends
      BY <2>6 DEF Tracked
    <3>2. Loses(InSend', InSend, t, e, u)
      BY <2>5, <2>6 DEF Tracked, Loses
    <3> QED
      BY <3>1, <3>2, Removed
  <2>8. InHandler' = InHandler
    BY <1>2, LocalKeeps, HandlersStay
  <2>9. InList' = InList
    BY <1>1 DEF InList
  <2>10. <<t, e, u>> \in InSend /\ <<t, e, u>> \notin InList /\ <<t, e, u>> \notin InHandler
    BY <2>3, <2>4, <2>6 DEF Tracked
  <2> QED
    BY <2>7, <2>8, <2>9, <2>10 DEF Meeting!RendezvousNext, Meeting!Return
<1> QED
  BY <1>4, <1>5

\* The message is put into the list: a call begins.
LEMMA PushSendMeets ==
  ASSUME Core, Core', NEW t \in Thread, PushSend(t)
  PROVE  [Meeting!RendezvousNext]_Meeting!calls
<1>1. Base
  BY DEF Core
<1> DEFINE f == [Top(t) EXCEPT !.at = "sendwake"]
<1>2. PICK u \in Thread : u = Top(t).peer
  BY <1>1, PushSendEffect
<1>3. PICK s : /\ s.from = t /\ s.depth = depth[t]
              /\ sendlist_' = [sendlist_ EXCEPT ![u] = @ \cup {s}]
  <2> DEFINE s == [from |-> t, depth |-> depth[t], handler |-> Top(t).handler, pos |-> appended[u]]
  <2>1. sendlist_' = [sendlist_ EXCEPT ![u] = @ \cup {s}]
    BY <1>2 DEF PushSend
  <2>2. s.from = t /\ s.depth = depth[t]
    OBVIOUS
  <2> HIDE DEF s
  <2> QED
    BY <2>1, <2>2
<1>4. /\ depth[t] > 0 /\ Top(t).at = "send" /\ f.at = "sendwake" /\ f.peer = u
      /\ f.from = Top(t).from /\ f.fromDepth = Top(t).fromDepth /\ Replaced(t, f)
  BY <1>1, <1>2, PushSendEffect
<1> HIDE DEF f
<1>5. PICK e \in Depth : e = depth[t] /\ Top(t) = frame[t][e]
  BY <1>1, <1>4, TopOK DEF Top
<1>6. \A y \in Thread : ~Sending(t, e, y)
  BY <1>4, <1>5 DEF Sending, SendLabels
<1>7. \A x \in Thread, d \in Depth, y \in Thread :
        Sending(x, d, y)' <=> Sending(x, d, y) \/ (x = t /\ d = e /\ y = u)
  <2>1. e <= depth[t]
    BY <1>1, <1>5 DEF Base, TypeOK
  <2> QED
    BY <1>4, <1>5, <1>6, <2>1 DEF Sending, SendLabels, Replaced
<1>8. \A y \in Thread, h \in Depth, x \in Thread, d \in Depth :
        Runs(y, h, x, d)' <=> Runs(y, h, x, d)
  BY <1>4, <1>5 DEF Runs, Replaced
<1>9. \A x \in Thread, d \in Depth, y \in Thread :
        Listed(x, d, y)' <=> Listed(x, d, y) \/ (x = t /\ d = e /\ y = u)
  <2>1. \A y \in Thread : sendlist_'[y] = IF y = u THEN sendlist_[u] \cup {s} ELSE sendlist_[y]
    BY <1>1, <1>3 DEF Base, TypeOK
  <2> QED
    BY <1>3, <1>5, <2>1 DEF Listed
<1>10. Tracked /\ Tracked'
  BY Members, MembersNext
<1>11. InSend' = InSend \cup {<<t, e, u>>}
  <2>1. InSend \in SUBSET Sends /\ InSend' \in SUBSET Sends
    BY <1>10 DEF Tracked
  <2>2. Gains(InSend', InSend, t, e, u)
    BY <1>7, <1>10 DEF Tracked, Gains
  <2> QED
    BY <2>1, <2>2, Added
<1>12. InList' = InList \cup {<<t, e, u>>}
  <2>1. InList \in SUBSET Sends /\ InList' \in SUBSET Sends
    BY <1>10 DEF Tracked
  <2>2. Gains(InList', InList, t, e, u)
    BY <1>9, <1>10 DEF Tracked, Gains
  <2> QED
    BY <2>1, <2>2, Added
<1>13. InHandler' = InHandler
  BY <1>8, HandlersStay
<1>14. <<t, e, u>> \in InSend' \ InSend
  BY <1>6, <1>10, <1>11 DEF Tracked
<1>15. ASSUME NEW w \in InSend PROVE w[1] # t \/ w[2] # e
  <2>1. w = <<w[1], w[2], w[3]>> /\ w[1] \in Thread /\ w[2] \in Depth /\ w[3] \in Thread
    BY <1>10 DEF Tracked, Sends
  <2>2. Sending(w[1], w[2], w[3])
    BY <1>10, <2>1 DEF Tracked
  <2> QED
    BY <1>6, <2>1, <2>2
<1>16. Meeting!Ask(<<t, e, u>>)
  BY <1>11, <1>12, <1>13, <1>15 DEF Meeting!Ask, Meeting!Call
<1> QED
  BY <1>14, <1>16 DEF Meeting!RendezvousNext

\* A message is taken out of the list and its handler begins.
LEMMA ReceiveSendsMeets ==
  ASSUME Core, Core', NEW t \in Thread, ReceiveSends(t)
  PROVE  [Meeting!RendezvousNext]_Meeting!calls
<1> USE DEF Base
<1>1. Base
  BY DEF Core
<1>2. depth[t] > 0 /\ Top(t).at \in {"recv", "sendrecv"}
  BY <1>1, ReceiveSendsEffect
<1>3. Top(t) \in Frame /\ depth[t] \in Depth /\ FrameOK(t, depth[t], Top(t), clock)
  BY <1>1, <1>2, TopOK
<1>4. CASE UNCHANGED sendlist_ /\ Replaced(t, Received(Top(t))) /\ Local(t)
  <2>1. SameTarget(Top(t), Received(Top(t)))
    BY <1>2, <1>3, ReceivedStands DEF SameTarget, SendLabels
  <2> QED
    BY <1>2, <1>4, <2>1, SteadyMeets DEF Steady
<1>5. ASSUME NEW s \in Receivable(t, Top(t)), Pushed(t, Top(t), Handling(s)),
             depth[t] < MaxDepth, sendlist_' = [sendlist_ EXCEPT ![t] = @ \ {s}]
      PROVE  Meeting!RendezvousNext
  <2>1. s \in sendlist_[t]
    BY DEF Receivable
  <2>2. /\ Handling(s).at = "run" /\ Handling(s).from = s.from /\ Handling(s).fromDepth = s.depth
        /\ s.from \in Thread /\ s.depth \in Depth
    BY <1>1, <2>1, HandlingFrame
  <2>3. PICK x \in Thread, d \in Depth, e \in Depth : x = s.from /\ d = s.depth /\ e = depth[t] + 1
    BY <1>3, <1>5, <2>2 DEF Depth
  <2>4. \A y \in Thread, h \in Depth :
          \/ y = t /\ h = e /\ frame'[y][h] = Handling(s) /\ depth'[y] = h /\ ~(h <= depth[y])
          \/ /\ y # t \/ h # e
             /\ frame'[y][h] = frame[y][h] /\ (h <= depth'[y] <=> h <= depth[y])
    BY <1>1, <1>3, <1>5, <2>3, SMTT(30) DEF Pushed, Top, TypeOK, Depth
  <2>5. \A a \in Thread, b \in Depth, y \in Thread : Sending(a, b, y)' <=> Sending(a, b, y)
    BY <2>2, <2>4 DEF Sending, SendLabels
  <2>6. \A y \in Thread, h \in Depth, a \in Thread, b \in Depth :
          Runs(y, h, a, b)' <=> Runs(y, h, a, b) \/ (y = t /\ h = e /\ a = x /\ b = d)
    <3>1. \A h \in Depth : h <= h
      BY DEF Depth
    <3> QED
      BY <2>2, <2>3, <2>4, <3>1 DEF Runs
  <2>7. \A a \in Thread, b \in Depth, y \in Thread :
          Listed(a, b, y)' <=> Listed(a, b, y) /\ ~(a = x /\ b = d /\ y = t)
    <3>1. \A y \in Thread : sendlist_'[y] = IF y = t THEN sendlist_[t] \ {s} ELSE sendlist_[y]
      BY <1>1, <1>5 DEF TypeOK
    <3>2. \A r \in sendlist_[t] : r.from = x /\ r.depth = d => r = s
      BY <2>1, <2>3 DEF Core, Once
    <3> QED
      BY <2>3, <3>1, <3>2 DEF Listed
  <2>8. \A a \in Thread, b \in Depth, y \in Thread :
          Handled(a, b, y)' <=> Handled(a, b, y) \/ (a = x /\ b = d /\ y = t)
    BY <2>6 DEF Handled
  <2>9. Tracked /\ Tracked'
    BY Members, MembersNext
  <2>10. InList \in SUBSET Sends /\ InList' \in SUBSET Sends
         /\ InHandler \in SUBSET Sends /\ InHandler' \in SUBSET Sends
    BY <2>9 DEF Tracked
  <2>11. Loses(InList', InList, x, d, t) /\ Gains(InHandler', InHandler, x, d, t)
    BY <2>7, <2>8, <2>9 DEF Tracked, Loses, Gains
  <2>12. InList' = InList \ {<<x, d, t>>}
    BY <2>10, <2>11, Removed
  <2>13. InHandler' = InHandler \cup {<<x, d, t>>}
    BY <2>10, <2>11, Added
  <2>14. InSend' = InSend
    BY <2>5, SendsStay
  <2>15. <<x, d, t>> \in InList
    BY <2>1, <2>3, <2>9 DEF Tracked, Listed
  <2> QED
    BY <2>12, <2>13, <2>14, <2>15 DEF Meeting!RendezvousNext, Meeting!Serve
<1> QED
  BY <1>1, <1>4, <1>5, ReceiveSendsEffect

\* A handler returns and its sender is answered; the next message may be taken
\* out of the list in the same breath.
LEMMA SendHandledMeets ==
  ASSUME Core, Core', NEW t \in Thread, SendHandled(t)
  PROVE  Meeting!RendezvousNext
<1>1. Base /\ TypeOK
  BY DEF Core, Base
<1>0. PICK caller : caller = frame[t][depth[t] - 1]
  OBVIOUS
<1>2. /\ depth[t] >= 2 /\ Top(t).at = "run" /\ caller \in Frame
      /\ caller.at \in {"recv", "sendrecv"} /\ FrameOK(t, depth[t] - 1, caller, clock)
      /\ Top(t).from # t
  BY <1>0, SendHandledEffect
<1>3. PICK x \in Thread, d \in Depth, e \in Depth, g \in Depth :
        x = Top(t).from /\ d = Top(t).fromDepth /\ e = depth[t] /\ g = depth[t] - 1
  BY SendHandledEffect
<1>4. g < e /\ e <= depth[t] /\ g <= depth[t] /\ frame[t][e] = Top(t) /\ frame[t][g] = caller
      /\ x # t
  BY <1>0, <1>1, <1>2, <1>3 DEF Top, Depth, TypeOK
<1>5. /\ frame'[x][d] = [frame[x][d] EXCEPT !.ready = TRUE]
      /\ \A y \in Thread, h \in Depth :
           ~(y = x /\ h = d) /\ ~(y = t /\ h \in {g, e}) => frame'[y][h] = frame[y][h]
  BY <1>3, SendHandledEffect
<1>6. /\ frame'[x][d].at = frame[x][d].at /\ frame'[x][d].peer = frame[x][d].peer
      /\ frame'[x][d].from = frame[x][d].from /\ frame'[x][d].fromDepth = frame[x][d].fromDepth
  <2>1. frame[x][d] \in Frame
    BY <1>1 DEF TypeOK
  <2> QED
    BY <1>5, <2>1 DEF Frame
<1>7. Runs(t, e, x, d) /\ \A h \in Depth : Runs(t, h, x, d) => h = e
  BY <1>3, <1>4 DEF Runs, Core, Once
<1>8. Tracked /\ Tracked'
  BY Members, MembersNext
<1>9. InList \in SUBSET Sends /\ InList' \in SUBSET Sends
      /\ InHandler \in SUBSET Sends /\ InHandler' \in SUBSET Sends
  BY <1>8 DEF Tracked
<1>10. <<x, d, t>> \in InHandler
  BY <1>7, <1>8 DEF Tracked, Handled
<1>11. CASE /\ UNCHANGED sendlist_ /\ frame'[t][depth[t] - 1] = Received(caller)
            /\ depth' = [depth EXCEPT ![t] = @ - 1]
  <2>1. /\ Received(caller).at = IF caller.at = "recv" THEN "scan" ELSE "sendwait"
        /\ Received(caller).peer = caller.peer /\ Received(caller).from = caller.from
        /\ Received(caller).fromDepth = caller.fromDepth
    BY <1>2, <1>3, ReceivedStands
  <2>2. SameTarget(caller, Received(caller))
    BY <1>2, <2>1 DEF SameTarget, SendLabels
  <2>3. \A y \in Thread, h \in Depth :
          \/ y = t /\ h = e /\ h <= depth[y] /\ ~(h <= depth'[y])
          \/ /\ ~(y = t /\ h = e) /\ (h <= depth'[y] <=> h <= depth[y])
             /\ SameTarget(frame[y][h], frame'[y][h])
             /\ frame'[y][h].from = frame[y][h].from
             /\ frame'[y][h].fromDepth = frame[y][h].fromDepth
    <3>1. \A y \in Thread, h \in Depth :
            \/ y = t /\ h = e /\ h <= depth[y] /\ ~(h <= depth'[y])
            \/ ~(y = t /\ h = e) /\ (h <= depth'[y] <=> h <= depth[y])
      BY <1>1, <1>3, <1>4, <1>11, SMTT(30) DEF TypeOK, Depth
    <3>2. ASSUME NEW y \in Thread, NEW h \in Depth, ~(y = t /\ h = e)
          PROVE  /\ SameTarget(frame[y][h], frame'[y][h])
                 /\ frame'[y][h].from = frame[y][h].from
                 /\ frame'[y][h].fromDepth = frame[y][h].fromDepth
      <4>1. CASE y = x /\ h = d
        BY <1>6, <4>1 DEF SameTarget
      <4>2. CASE y = t /\ h = g
        BY <1>3, <1>4, <1>11, <2>1, <2>2, <4>2
      <4>3. CASE ~(y = x /\ h = d) /\ ~(y = t /\ h = g)
        BY <1>5, <3>2, <4>3 DEF SameTarget
      <4> QED
        BY <4>1, <4>2, <4>3
    <3> QED
      BY <3>1, <3>2
  <2>4. \A a \in Thread, b \in Depth, y \in Thread : Sending(a, b, y)' <=> Sending(a, b, y)
    BY <1>2, <1>4, <2>3 DEF Sending, SameTarget, SendLabels
  <2>5. \A y \in Thread, h \in Depth, a \in Thread, b \in Depth :
          Runs(y, h, a, b)' <=> Runs(y, h, a, b) /\ ~(y = t /\ h = e)
    BY <2>3 DEF Runs
  <2>6. \A a \in Thread, b \in Depth, y \in Thread :
          Handled(a, b, y)' <=> Handled(a, b, y) /\ ~(a = x /\ b = d /\ y = t)
    BY <1>7, <2>5, OneAnswer DEF Handled
  <2>7. Loses(InHandler', InHandler, x, d, t)
    BY <1>8, <2>6 DEF Tracked, Loses
  <2>8. InHandler' = InHandler \ {<<x, d, t>>}
    BY <1>9, <2>7, Removed
  <2>9. InSend' = InSend
    BY <2>4, SendsStay
  <2>10. InList' = InList
    BY <1>11 DEF InList
  <2> QED
    BY <1>10, <2>8, <2>9, <2>10 DEF Meeting!RendezvousNext, Meeting!Answer
<1>12. ASSUME NEW s \in Receivable(t, caller), frame'[t][depth[t]] = Handling(s),
              frame'[t][depth[t] - 1] = caller,
              sendlist_' = [sendlist_ EXCEPT ![t] = @ \ {s}], depth' = depth
       PROVE  Meeting!RendezvousNext
  <2>1. s \in sendlist_[t]
    BY DEF Receivable
  <2>2. /\ Handling(s).at = "run" /\ Handling(s).from = s.from /\ Handling(s).fromDepth = s.depth
        /\ s.from \in Thread /\ s.depth \in Depth
    BY <1>1, <2>1, HandlingFrame
  <2>3. PICK z \in Thread, c \in Depth : z = s.from /\ c = s.depth
    BY <2>2
  <2>4. ASSUME NEW y \in Thread, NEW h \in Depth, ~(y = t /\ h = e)
        PROVE  /\ SameTarget(frame[y][h], frame'[y][h])
               /\ frame'[y][h].from = frame[y][h].from
               /\ frame'[y][h].fromDepth = frame[y][h].fromDepth
    <3>1. CASE y = x /\ h = d
      BY <1>6, <3>1 DEF SameTarget
    <3>2. CASE y = t /\ h = g
      BY <1>3, <1>4, <1>12, <3>2 DEF SameTarget
    <3>3. CASE ~(y = x /\ h = d) /\ ~(y = t /\ h = g)
      BY <1>5, <2>4, <3>3 DEF SameTarget
    <3> QED
      BY <3>1, <3>2, <3>3
  <2>5. frame'[t][e] = Handling(s)
    BY <1>3, <1>12
  <2>6. \A a \in Thread, b \in Depth, y \in Thread : Sending(a, b, y)' <=> Sending(a, b, y)
    <3>1. frame[t][e].at = "run" /\ frame'[t][e].at = "run"
      BY <1>2, <1>4, <2>2, <2>5
    <3> QED
      BY <1>12, <2>4, <3>1 DEF Sending, SameTarget, SendLabels
  <2>7. \A y \in Thread, h \in Depth, a \in Thread, b \in Depth :
          Runs(y, h, a, b)' <=> \/ Runs(y, h, a, b) /\ ~(y = t /\ h = e)
                                \/ y = t /\ h = e /\ a = z /\ b = c
    BY <1>4, <1>12, <2>2, <2>3, <2>4, <2>5 DEF Runs
  <2>8. \A a \in Thread, b \in Depth, y \in Thread :
          Handled(a, b, y)' <=> \/ Handled(a, b, y) /\ ~(a = x /\ b = d /\ y = t)
                                \/ a = z /\ b = c /\ y = t
    BY <1>7, <2>7, OneAnswer DEF Handled
  <2>9. \A a \in Thread, b \in Depth, y \in Thread :
          Listed(a, b, y)' <=> Listed(a, b, y) /\ ~(a = z /\ b = c /\ y = t)
    <3>1. \A y \in Thread : sendlist_'[y] = IF y = t THEN sendlist_[t] \ {s} ELSE sendlist_[y]
      BY <1>1, <1>12 DEF TypeOK
    <3>2. \A r \in sendlist_[t] : r.from = z /\ r.depth = c => r = s
      BY <2>1, <2>3 DEF Core, Once
    <3> QED
      BY <2>3, <3>1, <3>2 DEF Listed
  <2>10. InList' = InList \ {<<z, c, t>>}
    <3>1. Loses(InList', InList, z, c, t)
      BY <1>8, <2>9 DEF Tracked, Loses
    <3> QED
      BY <1>9, <3>1, Removed
  <2>11. InHandler' = (InHandler \ {<<x, d, t>>}) \cup {<<z, c, t>>}
    <3>1. PICK R \in SUBSET Sends : R = InHandler \ {<<x, d, t>>}
      BY <1>9
    <3>2. \A a \in Thread, b \in Depth, y \in Thread :
            <<a, b, y>> \in R <=> Handled(a, b, y) /\ ~(a = x /\ b = d /\ y = t)
      BY <1>8, <3>1 DEF Tracked
    <3>3. Gains(InHandler', R, z, c, t)
      BY <1>8, <2>8, <3>2 DEF Tracked, Gains
    <3>4. InHandler' = R \cup {<<z, c, t>>}
      BY <1>9, <3>3, Added
    <3> QED
      BY <3>1, <3>4
  <2>12. InSend' = InSend
    BY <2>6, SendsStay
  <2>13. <<z, c, t>> \in InList
    BY <1>8, <2>1, <2>3 DEF Tracked, Listed
  <2>14. <<z, c, t>>[3] = <<x, d, t>>[3]
    OBVIOUS
  <2>15. Meeting!AnswerAndServe(<<x, d, t>>, <<z, c, t>>)
    BY <2>10, <2>11, <2>12, <2>14 DEF Meeting!AnswerAndServe
  <2> QED
    BY <1>10, <2>13, <2>15 DEF Meeting!RendezvousNext
<1>13. \/ /\ UNCHANGED sendlist_ /\ frame'[t][depth[t] - 1] = Received(caller)
          /\ depth' = [depth EXCEPT ![t] = @ - 1]
       \/ \E s \in Receivable(t, caller) :
            /\ frame'[t][depth[t]] = Handling(s) /\ frame'[t][depth[t] - 1] = caller
            /\ sendlist_' = [sendlist_ EXCEPT ![t] = @ \ {s}] /\ depth' = depth
  BY <1>0, SendHandledEffect
<1> QED
  BY <1>11, <1>12, <1>13

\* Clear drops messages of one list: their calls are neither in a list nor
\* handled any more, and may return.
LEMMA CallClearMeets ==
  ASSUME Core, Core', NEW t \in Thread, CallClear(t)
  PROVE  Meeting!RendezvousNext
<1>1. Cleared
  BY CallClearCore
<1>2. PICK u \in Thread : \A y \in Thread : y # u => sendlist_'[y] = sendlist_[y]
  BY DEF CallClear, Core, Base, TypeOK
<1>3. \A a \in Thread, b \in Depth, y \in Thread : Sending(a, b, y)' <=> Sending(a, b, y)
  BY <1>1 DEF Cleared, SameCall, Sending
<1>4. \A y \in Thread, e \in Depth, a \in Thread, b \in Depth :
        Runs(y, e, a, b)' <=> Runs(y, e, a, b)
  BY <1>1 DEF Cleared, SameCall, Runs
<1>5. \A a \in Thread, b \in Depth, y \in Thread :
        /\ Listed(a, b, y)' => Listed(a, b, y)
        /\ Listed(a, b, y) /\ ~Listed(a, b, y)' => y = u
  BY <1>1, <1>2 DEF Cleared, Listed
<1>6. Tracked /\ Tracked'
  BY Members, MembersNext
<1>7. \A c \in InList \cup InList' :
        c = <<c[1], c[2], c[3]>> /\ c[1] \in Thread /\ c[2] \in Depth /\ c[3] \in Thread
  BY <1>6 DEF Tracked, Sends
<1>8. \A a \in Thread, b \in Depth, y \in Thread :
        /\ <<a, b, y>> \in InList' => <<a, b, y>> \in InList
        /\ <<a, b, y>> \in InList /\ <<a, b, y>> \notin InList' => y = u
  BY <1>5, <1>6 DEF Tracked
<1>9. InList' \subseteq InList /\ \A c \in InList \ InList' : c[3] = u
  BY <1>7, <1>8
<1>10. InSend' = InSend /\ InHandler' = InHandler
  BY <1>3, <1>4, SendsStay, HandlersStay
<1> QED
  BY <1>9, <1>10 DEF Meeting!RendezvousNext, Meeting!Withdraw

\* Stop() and Start() find no Send on the stacks they change.
LEMMA JoinMeets ==
  ASSUME Core, Core', NEW t \in Thread, Join(t)
  PROVE  UNCHANGED Meeting!calls
<1>1. Base /\ UNCHANGED sendlist_
  BY DEF Core, Join, queues
<1>2. depth[t] > 0 /\ Replaced(t, User) /\ Top(t).at = "join"
  BY JoinCore
<1>3. User.at = "run" /\ User.from = NoThread
  BY DEF User
<1>4. depth[t] = 1 /\ Top(t).from = NoThread
  BY <1>1, <1>2, TopOK DEF FrameOK, Base, Shape, Top
<1>5. \A x \in Thread, d \in Depth, y \in Thread : Sending(x, d, y)' <=> Sending(x, d, y)
  BY <1>1, <1>2, <1>3, SteadySends DEF Steady, SameTarget, SendLabels
<1>6. \A y \in Thread, e \in Depth, x \in Thread, d \in Depth :
        Runs(y, e, x, d)' <=> Runs(y, e, x, d)
  BY <1>2, <1>3, <1>4 DEF Runs, Replaced, Top
<1> QED
  BY <1>1, <1>5, <1>6, StillMeets

LEMMA CallStartMeets ==
  ASSUME Core, Core', NEW t \in Thread, CallStart(t)
  PROVE  UNCHANGED Meeting!calls
<1>1. Base /\ UNCHANGED sendlist_
  BY CallStartEffect DEF Core, queues
<1>2. PICK u \in Worker :
        /\ depth[u] = 0 /\ depth' = [depth EXCEPT ![u] = 1] /\ frame'[u][1] = Loop(Forever)
        /\ \A x \in Thread, d \in Depth : x # u \/ d # 1 => frame'[x][d] = frame[x][d]
  BY <1>1, CallStartEffect
<1>3. Loop(Forever).at = "recv" /\ Loop(Forever).from = NoThread
  BY <1>1, LoopFrame DEF Forever
<1>4. \A x \in Thread, d \in Depth :
        \/ x = u /\ d = 1 /\ frame'[x][d] = Loop(Forever) /\ ~(d <= depth[x])
        \/ frame'[x][d] = frame[x][d] /\ (d <= depth'[x] <=> d <= depth[x])
  BY <1>1, <1>2 DEF Base, TypeOK, Depth, Thread
<1>5. \A x \in Thread, d \in Depth, y \in Thread : Sending(x, d, y)' <=> Sending(x, d, y)
  BY <1>3, <1>4 DEF Sending, SendLabels
<1>6. \A y \in Thread, e \in Depth, x \in Thread, d \in Depth :
        Runs(y, e, x, d)' <=> Runs(y, e, x, d)
  BY <1>3, <1>4 DEF Runs
<1> QED
  BY <1>1, <1>5, <1>6, StillMeets

LEMMA NextMeets ==
  ASSUME Core, Core', [Next]_vars
  PROVE  [Meeting!RendezvousNext]_Meeting!calls
<1>1. CASE Tick \/ UNCHANGED vars
  BY <1>1 DEF Tick, vars, queues, stacks, Meeting!calls, InSend, InList, InHandler, Calling
<1>2. ASSUME NEW t \in Thread, Calls(t) PROVE [Meeting!RendezvousNext]_Meeting!calls
  BY <1>2, QuietMeets, CallClearMeets, CallStartMeets DEF Calls
<1>3. ASSUME NEW t \in Thread, Step(t) PROVE [Meeting!RendezvousNext]_Meeting!calls
  BY <1>3, QuietMeets, CheckReadyMeets, PushSendMeets, ReceiveSendsMeets, SendHandledMeets,
     JoinMeets DEF Step
<1> QED
  BY <1>1, <1>2, <1>3 DEF Next

\* Send keeps its promise, for any number of threads that send to each other
\* from handlers that run during a Send, stop, restart and clear each other:
\* what they do to the lists, the stacks and the ready flags is, step by step, a
\* rendezvous.  A Send returns only after its message was handled, once, by the
\* thread it was sent to, or was cleared before anybody had taken it.
THEOREM SendIsRendezvous == Spec => SendsRendezvous
<1>1. Init => Meeting!RendezvousInit
  <2> SUFFICES ASSUME Init PROVE Meeting!RendezvousInit
    OBVIOUS
  <2>1. InList = {}
    BY DEF Init, InList
  <2>2. \A p \in Calling : /\ frame[p[1]][p[2]].at \in {"run", "recv"}
                           /\ frame[p[1]][p[2]].from = NoThread
    BY DEF Init, Calling, Free, User
  <2>3. InSend = {} /\ InHandler = {}
    BY <2>2 DEF InSend, InHandler, SendLabels
  <2> QED
    BY <2>1, <2>3 DEF Meeting!RendezvousInit
<1>2. Core /\ Core' /\ [Next]_vars => [Meeting!RendezvousNext]_Meeting!calls
  BY NextMeets
<1> QED
  BY <1>1, <1>2, CoreHolds, PTL DEF Spec, SendsRendezvous, Meeting!RendezvousSpec

==============================================================================
