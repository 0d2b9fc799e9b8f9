--------------------------- MODULE PostTaskAndReply ---------------------------
(***************************************************************************)
(* base/threading/post_task_and_reply_impl.cc, with which an observer that *)
(* crosses threads asks its factory's thread for something: a relay goes   *)
(* to the target loop with the task and comes back to the loop it was made *)
(* on with the reply.  Loops are the queues that TaskQueue promises.       *)
(***************************************************************************)
EXTENDS Integers, Sequences, SequencesExt

CONSTANTS
  Thread,  \* threads with a message loop
  Relay,   \* the relays, one for each call
  NONE     \* no relay; no thread

ASSUME RelayAssumption == NONE \notin Thread /\ NONE \notin Relay

VARIABLES
  alive,        \* the loops that exist
  queue,        \* what is posted to each: a relay, out with its task or back
  running,      \* the item each thread runs
  relay,        \* what each relay is about
  task_gone,    \* the thread on which the task closure was deleted
  reply_gone,   \* the thread on which the reply closure was deleted
  calls,        \* history: the relays whose post succeeded, in order
  replies       \* history: the relays whose reply ran, in order

relayVars ==
  <<alive, queue, running, relay, task_gone, reply_gone, calls, replies>>

Item == [r : Relay, leg : {"Run", "RunReplyAndSelfDestruct"}]

Nothing == [r |-> NONE, leg |-> "Run"]

RelayInit ==
  /\ alive = Thread
  /\ queue = [th \in Thread |-> <<>>]
  /\ running = [th \in Thread |-> Nothing]
  /\ relay = [r \in Relay |-> [origin |-> NONE, target |-> NONE]]
  /\ task_gone = [r \in Relay |-> NONE]
  /\ reply_gone = [r \in Relay |-> NONE]
  /\ calls = <<>>
  /\ replies = <<>>

Unused(r) == relay[r].origin = NONE

\* PostTaskAndReply; a relay that cannot be posted is deleted where it was made.
Call(r, o, t) ==
  /\ o \in alive
  /\ Unused(r)
  /\ relay' = [relay EXCEPT ![r] = [origin |-> o, target |-> t]]
  /\ IF t \in alive
     THEN /\ queue' = [queue EXCEPT ![t] = Append(@, [r |-> r, leg |-> "Run"])]
          /\ calls' = Append(calls, r)
          /\ UNCHANGED <<task_gone, reply_gone>>
     ELSE /\ task_gone' = [task_gone EXCEPT ![r] = o]
          /\ reply_gone' = [reply_gone EXCEPT ![r] = o]
          /\ UNCHANGED <<queue, calls>>
  /\ UNCHANGED <<alive, running, replies>>

NothingRuns(th) == running[th] = Nothing

Takes(th, leg) ==
  /\ NothingRuns(th)
  /\ queue[th] # <<>>
  /\ Head(queue[th]).leg = leg
  /\ queue' = [queue EXCEPT ![th] = Tail(@)]
  /\ running' = [running EXCEPT ![th] = Head(queue[th])]

RunTask(th) ==
  /\ Takes(th, "Run")
  /\ UNCHANGED <<alive, relay, task_gone, reply_gone, calls, replies>>

\* The bug of a relay that drops the task closure where it ran it.
TaskRanResets(th) ==
  /\ running[th].leg = "Run" /\ ~NothingRuns(th)
  /\ LET r == running[th].r
         o == relay[r].origin
     IN  /\ queue' = IF o \in alive
                     THEN [queue EXCEPT ![o] =
                            Append(@, [r |-> r, leg |-> "RunReplyAndSelfDestruct"])]
                     ELSE queue
         /\ task_gone' = [task_gone EXCEPT ![r] = th]
  /\ running' = [running EXCEPT ![th] = Nothing]
  /\ UNCHANGED <<alive, relay, reply_gone, calls, replies>>

\* The bug of a reply that is posted twice.
TaskRanTwice(th) ==
  /\ running[th].leg = "Run" /\ ~NothingRuns(th)
  /\ LET r    == running[th].r
         o    == relay[r].origin
         back == [r |-> r, leg |-> "RunReplyAndSelfDestruct"]
     IN  queue' = IF o \in alive
                  THEN [queue EXCEPT ![o] = @ \o <<back, back>>]
                  ELSE queue
  /\ running' = [running EXCEPT ![th] = Nothing]
  /\ UNCHANGED <<alive, relay, task_gone, reply_gone, calls, replies>>

\* The bug of a relay that goes back only to another thread.
TaskRanHere(th) ==
  /\ running[th].leg = "Run" /\ ~NothingRuns(th)
  /\ LET r == running[th].r
         o == relay[r].origin
     IN  queue' = IF o \in alive /\ o # th
                  THEN [queue EXCEPT ![o] =
                         Append(@, [r |-> r, leg |-> "RunReplyAndSelfDestruct"])]
                  ELSE queue
  /\ running' = [running EXCEPT ![th] = Nothing]
  /\ UNCHANGED <<alive, relay, task_gone, reply_gone, calls, replies>>

\* The rest of Run; that the reply cannot be posted goes unnoticed.
TaskRan(th) ==
  /\ running[th].leg = "Run" /\ ~NothingRuns(th)
  /\ LET r == running[th].r
         o == relay[r].origin
     IN  queue' = IF o \in alive
                  THEN [queue EXCEPT ![o] =
                         Append(@, [r |-> r, leg |-> "RunReplyAndSelfDestruct"])]
                  ELSE queue
  /\ running' = [running EXCEPT ![th] = Nothing]
  /\ UNCHANGED <<alive, relay, task_gone, reply_gone, calls, replies>>

RunReply(th) ==
  /\ Takes(th, "RunReplyAndSelfDestruct")
  /\ LET r == Head(queue[th]).r
     IN  /\ task_gone' = [task_gone EXCEPT ![r] = th]
         /\ replies' = Append(replies, r)
  /\ UNCHANGED <<alive, relay, reply_gone, calls>>

\* The reply returns, and the relay deletes itself and both closures.
SelfDestruct(th) ==
  /\ running[th].leg = "RunReplyAndSelfDestruct"
  /\ LET r == running[th].r
     IN  /\ task_gone' = [task_gone EXCEPT ![r] = th]
         /\ reply_gone' = [reply_gone EXCEPT ![r] = th]
  /\ running' = [running EXCEPT ![th] = Nothing]
  /\ UNCHANGED <<alive, queue, relay, calls, replies>>

\* A loop is deleted with the tasks that wait in it.  They hold their relays by
\* bare pointers, so the relays are not.
LoopDies(th) ==
  /\ th \in alive
  /\ NothingRuns(th)
  /\ alive' = alive \ {th}
  /\ queue' = [queue EXCEPT ![th] = <<>>]
  /\ UNCHANGED <<running, relay, task_gone, reply_gone, calls, replies>>

LoopStep(th) == RunTask(th) \/ TaskRan(th) \/ RunReply(th) \/ SelfDestruct(th)

RelayNext ==
  \/ \E r \in Relay, o, t \in Thread : Call(r, o, t)
  \/ \E th \in Thread : LoopStep(th) \/ LoopDies(th)

RelaySpec == RelayInit /\ [][RelayNext]_relayVars

\* Loops that exist run what is posted to them.
RelayFairness == \A th \in Thread : WF_relayVars(LoopStep(th))

-----------------------------------------------------------------------------
\* The types of the relays (post_task_and_reply_impl.cc:63-66) and the loops.
RelayTypeOK ==
  /\ alive \subseteq Thread
  /\ queue \in [Thread -> Seq(Item)]
  /\ running \in [Thread -> Item \cup {Nothing}]
  /\ relay \in [Relay -> [origin : Thread \cup {NONE}, target : Thread \cup {NONE}]]
  /\ {task_gone, reply_gone} \subseteq [Relay -> Thread \cup {NONE}]
  /\ {calls, replies} \subseteq Seq(Relay)
  /\ IsInjective(calls) /\ IsInjective(replies)

\* "Both |task| and |reply| are guaranteed to be deleted on the thread from
\* which PostTaskAndReply() is invoked" (task_runner.h:88), if at all; and the
\* task before the reply runs (post_task_and_reply_impl.cc:17).
DeletedAtOrigin ==
  \A r \in Relay :
    /\ {task_gone[r], reply_gone[r]} \subseteq {NONE, relay[r].origin}
    /\ r \in Range(replies) => task_gone[r] # NONE

\* Replies of one thread's calls to one target run in the order of the calls
\* (post_task_and_reply_impl.cc:40-61): the host relies on it when it answers
\* Init and Destroy.
RepliesInOrder ==
  \A i, j \in DOMAIN replies :
    (i < j /\ relay[replies[i]] = relay[replies[j]])
      => \E k, l \in DOMAIN calls :
           k < l /\ calls[k] = replies[i] /\ calls[l] = replies[j]

\* No loop has the relay, nobody runs it, and it still exists.
Leaked(r) ==
  /\ ~Unused(r)
  /\ reply_gone[r] = NONE
  /\ \A th \in Thread : running[th].r # r /\ \A i \in DOMAIN queue[th] : queue[th][i].r # r

\* A call whose post succeeded is answered and its relay deleted, unless one of
\* the two loops is deleted first (post_task_and_reply_impl.cc:73-86).
LeaksOnlyWithDeadLoop ==
  \A r \in Relay : Leaked(r) => ~({relay[r].origin, relay[r].target} \subseteq alive)

\* The rest of what a caller relies on, whichever loops are deleted.
RelaySound == RelayTypeOK /\ RepliesInOrder /\ LeaksOnlyWithDeadLoop

\* "On completion, |reply| is posted to the thread that called
\* PostTaskAndReply()" (task_runner.h:86).
CallsAreAnswered ==
  \A r \in Relay :
    []<>(r \in Range(calls) =>
           \/ reply_gone[r] # NONE
           \/ ~({relay[r].origin, relay[r].target} \subseteq alive))
=============================================================================
