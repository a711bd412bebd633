------------------------------ MODULE Rendezvous ------------------------------
(***************************************************************************)
(* What Thread::Send promises its callers, without any list, event, wait   *)
(* or nested loop: parties that call each other and wait for the answer.   *)
(* A message that was sent is handled once, by the party it was sent to,   *)
(* or withdrawn (Clear) before anybody has begun to handle it; the call    *)
(* returns after that and never before.  A party may wait in several calls *)
(* at once, one at each place of its stack, when what it handles while it  *)
(* waits calls others in turn.                                             *)
(***************************************************************************)
CONSTANTS Party,   \* who calls and is called
          Place    \* the calls a party can be in at once

VARIABLES waiting,   \* calls that have not returned
          asked,     \* those whose message nobody has begun to handle
          served     \* those whose message is being handled

calls == <<waiting, asked, served>>

\* The caller, the place the call has on its stack, and the one called.
Call == Party \X Place \X Party

RendezvousInit == waiting = {} /\ asked = {} /\ served = {}

Ask(c) ==
  /\ c \in Call
  /\ \A w \in waiting : w[1] # c[1] \/ w[2] # c[2]
  /\ waiting' = waiting \cup {c} /\ asked' = asked \cup {c}
  /\ UNCHANGED served

Serve(c) ==
  /\ asked' = asked \ {c} /\ served' = served \cup {c}
  /\ UNCHANGED waiting

Answer(c) ==
  /\ served' = served \ {c}
  /\ UNCHANGED <<waiting, asked>>

\* One answer is given and the next message taken up without a pause.
AnswerAndServe(c, n) ==
  /\ n[3] = c[3]
  /\ served' = (served \ {c}) \cup {n} /\ asked' = asked \ {n}
  /\ UNCHANGED waiting

\* Messages that wait for the same party are dropped.
Withdraw ==
  /\ asked' \subseteq asked
  /\ \A c \in asked \ asked', d \in asked \ asked' : c[3] = d[3]
  /\ UNCHANGED <<waiting, served>>

Return(c) ==
  /\ c \notin asked /\ c \notin served
  /\ waiting' = waiting \ {c}
  /\ UNCHANGED <<asked, served>>

RendezvousNext ==
  \/ Withdraw
  \/ \E c \in waiting' \ waiting : Ask(c)
  \/ \E c \in asked : Serve(c)
  \/ \E c \in served : Answer(c) \/ \E n \in asked : AnswerAndServe(c, n)
  \/ \E c \in waiting : Return(c)

RendezvousSpec == RendezvousInit /\ [][RendezvousNext]_calls
==============================================================================
