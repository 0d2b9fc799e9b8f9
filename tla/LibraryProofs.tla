----------------------------- MODULE LibraryProofs -----------------------------
(***************************************************************************)
(* Objects of the library that several threads share, for every number of  *)
(* threads.  PostTaskAndReply: where the closures of a relay are deleted,  *)
(* in which order the answers come and when a relay is lost.  WeakPtr: who *)
(* may believe that its object is there.  The pool of PosixDynamicThread-  *)
(* Pool: workers enough, which begin the tasks in the order of the posts.  *)
(* AtExit: what is used was made before, and it is destroyed once.         *)
(***************************************************************************)
EXTENDS PostTaskAndReply, WeakPtr, PosixDynamicThreadPool, AtExit,
        FiniteSetTheorems, SequenceTheorems, TLAPS

-----------------------------------------------------------------------------
(* PostTaskAndReply.                                                         *)

\* The types the proof needs; RelayTypeOK adds that the histories repeat nothing.
Typed ==
  /\ alive \subseteq Thread
  /\ queue \in [Thread -> Seq(Item)]
  /\ running \in [Thread -> Item \cup {Nothing}]
  /\ relay \in [Relay -> [origin : Thread \cup {NONE}, target : Thread \cup {NONE}]]
  /\ task_gone \in [Relay -> Thread \cup {NONE}]
  /\ reply_gone \in [Relay -> Thread \cup {NONE}]
  /\ replies \in Seq(Relay)

\* An item belongs to a relay in use; on its way back it is at the origin.
AtHome(table, it, th) ==
  /\ table[it.r].origin # NONE
  /\ it.leg = "RunReplyAndSelfDestruct" => table[it.r].origin = th

ItemsAtHome ==
  \A th \in Thread :
    /\ \A i \in DOMAIN queue[th] : AtHome(relay, queue[th][i], th)
    /\ running[th] # Nothing => AtHome(relay, running[th], th)

ClosuresAtHome ==
  /\ \A r \in Relay : task_gone[r] \in {NONE, relay[r].origin}
  /\ \A r \in Relay : reply_gone[r] \in {NONE, relay[r].origin}
  /\ \A i \in DOMAIN replies : task_gone[replies[i]] # NONE

HomeInv == Typed /\ ItemsAtHome /\ ClosuresAtHome

USE RelayAssumption

LEMMA ItemFacts ==
  /\ Nothing \notin Item
  /\ \A it \in Item : it.r \in Relay /\ it.leg \in {"Run", "RunReplyAndSelfDestruct"}
  /\ \A r \in Relay : /\ [r |-> r, leg |-> "Run"] \in Item
                      /\ [r |-> r, leg |-> "RunReplyAndSelfDestruct"] \in Item
BY DEF Item, Nothing

\* What the queues hold after a post and after a task was taken.
LEMMA AppendItems ==
  \A s \in Seq(Item), x \in Item :
    /\ Append(s, x) \in Seq(Item)
    /\ \A i \in DOMAIN Append(s, x) :
         Append(s, x)[i] = x \/ (i \in DOMAIN s /\ Append(s, x)[i] = s[i])
OBVIOUS

LEMMA TailItems ==
  \A s \in Seq(Item) : s # <<>> =>
    /\ Head(s) \in Item /\ Tail(s) \in Seq(Item)
    /\ 1 \in DOMAIN s /\ Head(s) = s[1]
    /\ \A i \in DOMAIN Tail(s) : i + 1 \in DOMAIN s /\ Tail(s)[i] = s[i + 1]
OBVIOUS

LEMMA HomeInit == RelayInit => HomeInv
<1> SUFFICES ASSUME RelayInit PROVE HomeInv
  OBVIOUS
<1>1. Typed
  BY DEF RelayInit, Typed
<1>2. ItemsAtHome
  BY DEF RelayInit, ItemsAtHome
<1>3. ClosuresAtHome
  BY DEF RelayInit, ClosuresAtHome
<1> QED
  BY <1>1, <1>2, <1>3 DEF HomeInv

\* A call makes a relay that no item, and no deleted closure, is about.
LEMMA CallStep ==
  ASSUME HomeInv, NEW r \in Relay, NEW o \in Thread, NEW t \in Thread, Call(r, o, t)
  PROVE  HomeInv'
<1> DEFINE out == [r |-> r, leg |-> "Run"]
<1>1. out \in Item /\ out.r = r /\ out.leg = "Run"
  BY ItemFacts
<1>2. relay' = [relay EXCEPT ![r] = [origin |-> o, target |-> t]]
      /\ relay[r].origin = NONE /\ running' = running /\ replies' = replies
  BY DEF Call, Unused
<1>3. \A x \in Relay : relay[x].origin # NONE => relay'[x] = relay[x]
  BY <1>2 DEF HomeInv, Typed
<1>4. relay'[r].origin = o
  BY <1>2 DEF HomeInv, Typed
<1>5. \/ queue' = queue
      \/ queue' = [queue EXCEPT ![t] = Append(@, out)]
  BY DEF Call
<1>6. \/ task_gone' = task_gone /\ reply_gone' = reply_gone
      \/ /\ task_gone' = [task_gone EXCEPT ![r] = o]
         /\ reply_gone' = [reply_gone EXCEPT ![r] = o]
  BY DEF Call
<1> HIDE DEF out
<1>7. Typed'
  <2>1. alive' \subseteq Thread
    BY DEF Call, HomeInv, Typed
  <2>2. queue' \in [Thread -> Seq(Item)]
    <3>1. queue \in [Thread -> Seq(Item)]
      BY DEF HomeInv, Typed
    <3>2. Append(queue[t], out) \in Seq(Item)
      BY <1>1, <1>5, <3>1, AppendItems
    <3> QED
      BY <1>1, <1>5, <3>1, <3>2
  <2>3. relay' \in [Relay -> [origin : Thread \cup {NONE}, target : Thread \cup {NONE}]]
    BY <1>2 DEF HomeInv, Typed
  <2>4. task_gone' \in [Relay -> Thread \cup {NONE}]
        /\ reply_gone' \in [Relay -> Thread \cup {NONE}]
    <3>1. /\ task_gone \in [Relay -> Thread \cup {NONE}]
          /\ reply_gone \in [Relay -> Thread \cup {NONE}]
          /\ o \in Thread \cup {NONE}
      BY DEF HomeInv, Typed
    <3> QED
      BY <1>6, <3>1
  <2> QED
    BY <1>2, <2>1, <2>2, <2>3, <2>4 DEF HomeInv, Typed
<1>8. ItemsAtHome'
  <2> SUFFICES ASSUME NEW th \in Thread
               PROVE  /\ \A i \in DOMAIN queue'[th] : AtHome(relay', queue'[th][i], th)
                      /\ running'[th] # Nothing => AtHome(relay', running'[th], th)
    BY DEF ItemsAtHome
  <2>1. \A it \in Item : AtHome(relay, it, th) => AtHome(relay', it, th)
    BY <1>3, ItemFacts DEF AtHome
  <2>2. AtHome(relay', out, th)
    BY <1>1, <1>4 DEF AtHome
  <2>3. queue[th] \in Seq(Item) /\ running[th] \in Item \cup {Nothing}
    BY DEF HomeInv, Typed
  <2>4. \A i \in DOMAIN queue[th] : queue[th][i] \in Item /\ AtHome(relay, queue[th][i], th)
    BY <2>3 DEF HomeInv, ItemsAtHome
  <2>5. queue'[th] = queue[th] \/ queue'[th] = Append(queue[th], out)
    BY <1>5 DEF HomeInv, Typed
  <2>6. \A i \in DOMAIN queue'[th] :
          queue'[th][i] = out \/ (i \in DOMAIN queue[th] /\ queue'[th][i] = queue[th][i])
    BY <1>1, <2>3, <2>5, AppendItems
  <2>7. \A i \in DOMAIN queue'[th] : AtHome(relay', queue'[th][i], th)
    BY <2>1, <2>2, <2>4, <2>6
  <2>8. running[th] # Nothing => running[th] \in Item /\ AtHome(relay, running[th], th)
    BY <2>3 DEF HomeInv, ItemsAtHome
  <2> QED
    BY <1>2, <2>1, <2>7, <2>8
<1>9. ClosuresAtHome'
  <2>1. \A x \in Relay : relay'[x].origin = relay[x].origin \/ relay[x].origin = NONE
    BY <1>3
  <2>2. \A x \in Relay : task_gone'[x] \in {NONE, relay'[x].origin}
    BY <1>4, <1>6, <2>1 DEF HomeInv, Typed, ClosuresAtHome
  <2>3. \A x \in Relay : reply_gone'[x] \in {NONE, relay'[x].origin}
    BY <1>4, <1>6, <2>1 DEF HomeInv, Typed, ClosuresAtHome
  <2>4. \A x \in Relay : task_gone[x] # NONE => task_gone'[x] # NONE
    BY <1>6 DEF HomeInv, Typed
  <2>5. \A i \in DOMAIN replies : replies[i] \in Relay
    BY DEF HomeInv, Typed
  <2> QED
    BY <1>2, <2>2, <2>3, <2>4, <2>5 DEF HomeInv, ClosuresAtHome
<1> QED
  BY <1>7, <1>8, <1>9 DEF HomeInv

\* A thread takes the oldest item from its queue.
LEMMA TakesStep ==
  ASSUME HomeInv, NEW th \in Thread, NEW leg, Takes(th, leg), relay' = relay
  PROVE  /\ queue' \in [Thread -> Seq(Item)]
         /\ running' \in [Thread -> Item \cup {Nothing}]
         /\ ItemsAtHome'
         /\ Head(queue[th]) \in Item
         /\ Head(queue[th]).leg = leg
         /\ AtHome(relay, Head(queue[th]), th)
<1>1. queue[th] \in Seq(Item) /\ queue[th] # <<>> /\ Head(queue[th]).leg = leg
  BY DEF HomeInv, Typed, Takes
<1>2. /\ queue' = [queue EXCEPT ![th] = Tail(@)]
      /\ running' = [running EXCEPT ![th] = Head(queue[th])]
  BY DEF Takes
<1>3. Head(queue[th]) \in Item /\ Tail(queue[th]) \in Seq(Item)
  BY <1>1, TailItems
<1>4. AtHome(relay, Head(queue[th]), th)
  BY <1>1, TailItems DEF HomeInv, ItemsAtHome
<1>5. ItemsAtHome'
  <2> SUFFICES ASSUME NEW u \in Thread
               PROVE  /\ \A i \in DOMAIN queue'[u] : AtHome(relay', queue'[u][i], u)
                      /\ running'[u] # Nothing => AtHome(relay', running'[u], u)
    BY DEF ItemsAtHome
  <2>1. \A it : AtHome(relay, it, u) => AtHome(relay', it, u)
    BY DEF AtHome
  <2>2. \A i \in DOMAIN queue[u] : AtHome(relay, queue[u][i], u)
    BY DEF HomeInv, ItemsAtHome
  <2>3. CASE u = th
    <3>1. queue'[u] = Tail(queue[th]) /\ running'[u] = Head(queue[th])
      BY <1>2, <2>3 DEF HomeInv, Typed
    <3>2. \A i \in DOMAIN queue'[u] : i + 1 \in DOMAIN queue[u] /\ queue'[u][i] = queue[u][i + 1]
      BY <1>1, <2>3, <3>1, TailItems
    <3>3. \A i \in DOMAIN queue'[u] : AtHome(relay, queue'[u][i], u)
      BY <2>2, <3>2
    <3> QED
      BY <1>4, <2>1, <2>3, <3>1, <3>3
  <2>4. CASE u # th
    <3>1. queue'[u] = queue[u] /\ running'[u] = running[u]
      BY <1>2, <2>4 DEF HomeInv, Typed
    <3> QED
      BY <2>1, <2>2, <3>1 DEF HomeInv, ItemsAtHome
  <2> QED
    BY <2>3, <2>4
<1> QED
  BY <1>1, <1>2, <1>3, <1>4, <1>5 DEF HomeInv, Typed

LEMMA RunTaskStep ==
  ASSUME HomeInv, NEW th \in Thread, RunTask(th)
  PROVE  HomeInv'
<1>1. Takes(th, "Run")
      /\ UNCHANGED <<alive, relay, task_gone, reply_gone, replies>>
  BY DEF RunTask
<1>2. Typed' /\ ItemsAtHome'
  BY <1>1, TakesStep DEF HomeInv, Typed
<1>3. ClosuresAtHome'
  BY <1>1 DEF HomeInv, ClosuresAtHome
<1> QED
  BY <1>2, <1>3 DEF HomeInv

\* The relay goes back to where it came from.
LEMMA TaskRanStep ==
  ASSUME HomeInv, NEW th \in Thread, TaskRan(th)
  PROVE  HomeInv'
<1> DEFINE r == running[th].r
           o == relay[r].origin
           back == [r |-> r, leg |-> "RunReplyAndSelfDestruct"]
<1>1. running[th] \in Item /\ r \in Relay /\ o \in Thread
  <2>1. running[th] \in Item
    BY DEF TaskRan, NothingRuns, HomeInv, Typed
  <2>2. o # NONE
    BY DEF TaskRan, NothingRuns, HomeInv, ItemsAtHome, AtHome
  <2> QED
    BY <2>1, <2>2, ItemFacts DEF HomeInv, Typed
<1>2. back \in Item /\ back.r = r /\ back.leg = "RunReplyAndSelfDestruct"
  BY <1>1, ItemFacts
<1>3. /\ running' = [running EXCEPT ![th] = Nothing]
      /\ UNCHANGED <<alive, relay, task_gone, reply_gone, replies>>
  BY DEF TaskRan
<1>4. queue' = queue \/ queue' = [queue EXCEPT ![o] = Append(@, back)]
  BY DEF TaskRan
<1>5. AtHome(relay, back, o)
  BY <1>1, <1>2 DEF AtHome
<1> HIDE DEF r, o, back
<1>6. Typed'
  <2>1. queue' \in [Thread -> Seq(Item)]
    <3>1. queue \in [Thread -> Seq(Item)]
      BY DEF HomeInv, Typed
    <3>2. Append(queue[o], back) \in Seq(Item)
      BY <1>1, <1>2, <1>4, <3>1, AppendItems
    <3> QED
      BY <1>1, <1>2, <1>4, <3>1, <3>2
  <2>2. running' \in [Thread -> Item \cup {Nothing}]
    BY <1>3 DEF HomeInv, Typed
  <2> QED
    BY <1>3, <2>1, <2>2 DEF HomeInv, Typed
<1>7. ItemsAtHome'
  <2> SUFFICES ASSUME NEW u \in Thread
               PROVE  /\ \A i \in DOMAIN queue'[u] : AtHome(relay', queue'[u][i], u)
                      /\ running'[u] # Nothing => AtHome(relay', running'[u], u)
    BY DEF ItemsAtHome
  <2>1. \A it : AtHome(relay, it, u) => AtHome(relay', it, u)
    BY <1>3 DEF AtHome
  <2>2. queue[u] \in Seq(Item)
    BY DEF HomeInv, Typed
  <2>3. queue'[u] = queue[u] \/ (u = o /\ queue'[u] = Append(queue[u], back))
    BY <1>1, <1>4 DEF HomeInv, Typed
  <2>4. \A i \in DOMAIN queue'[u] :
          \/ u = o /\ queue'[u][i] = back
          \/ i \in DOMAIN queue[u] /\ queue'[u][i] = queue[u][i]
    BY <1>2, <2>2, <2>3, AppendItems
  <2>5. \A i \in DOMAIN queue[u] : AtHome(relay, queue[u][i], u)
    BY DEF HomeInv, ItemsAtHome
  <2>6. \A i \in DOMAIN queue'[u] : AtHome(relay, queue'[u][i], u)
    BY <1>5, <2>4, <2>5
  <2>7. running'[u] = Nothing \/ running'[u] = running[u]
    BY <1>3 DEF HomeInv, Typed
  <2>8. running'[u] # Nothing => AtHome(relay, running'[u], u)
    BY <2>7 DEF HomeInv, ItemsAtHome
  <2> QED
    BY <2>1, <2>6, <2>8
<1>8. ClosuresAtHome'
  BY <1>3 DEF HomeInv, ClosuresAtHome
<1> QED
  BY <1>6, <1>7, <1>8 DEF HomeInv

\* The reply runs at the origin, and there the task closure is deleted first.
LEMMA RunReplyStep ==
  ASSUME HomeInv, NEW th \in Thread, RunReply(th)
  PROVE  HomeInv'
<1> DEFINE r == Head(queue[th]).r
<1>1. /\ Takes(th, "RunReplyAndSelfDestruct")
      /\ task_gone' = [task_gone EXCEPT ![r] = th]
      /\ replies' = Append(replies, r)
      /\ UNCHANGED <<alive, relay, reply_gone>>
  BY DEF RunReply
<1>2. /\ queue' \in [Thread -> Seq(Item)]
      /\ running' \in [Thread -> Item \cup {Nothing}]
      /\ ItemsAtHome'
      /\ r \in Relay /\ relay[r].origin = th
  BY <1>1, TakesStep, ItemFacts DEF AtHome
<1> HIDE DEF r
<1>3. Typed'
  <2>1. task_gone' \in [Relay -> Thread \cup {NONE}] /\ replies' \in Seq(Relay)
    BY <1>1, <1>2 DEF HomeInv, Typed
  <2> QED
    BY <1>1, <1>2, <2>1 DEF HomeInv, Typed
<1>4. ClosuresAtHome'
  <2>1. \A x \in Relay : task_gone'[x] \in {NONE, relay'[x].origin}
    BY <1>1, <1>2 DEF HomeInv, Typed, ClosuresAtHome
  <2>2. \A x \in Relay : reply_gone'[x] \in {NONE, relay'[x].origin}
    BY <1>1 DEF HomeInv, ClosuresAtHome
  <2>3. task_gone'[r] = th /\ th # NONE
    BY <1>1, <1>2 DEF HomeInv, Typed
  <2>4. \A x \in Relay : task_gone[x] # NONE => task_gone'[x] # NONE
    BY <1>1, <2>3 DEF HomeInv, Typed
  <2>5. \A i \in DOMAIN replies' :
          replies'[i] = r \/ (i \in DOMAIN replies /\ replies'[i] = replies[i])
    BY <1>1, <1>2 DEF HomeInv, Typed
  <2>6. \A i \in DOMAIN replies : replies[i] \in Relay /\ task_gone[replies[i]] # NONE
    BY DEF HomeInv, Typed, ClosuresAtHome
  <2>7. \A i \in DOMAIN replies' : task_gone'[replies'[i]] # NONE
    BY <2>3, <2>4, <2>5, <2>6
  <2> QED
    BY <2>1, <2>2, <2>7 DEF ClosuresAtHome
<1> QED
  BY <1>2, <1>3, <1>4 DEF HomeInv

LEMMA SelfDestructStep ==
  ASSUME HomeInv, NEW th \in Thread, SelfDestruct(th)
  PROVE  HomeInv'
<1> DEFINE r == running[th].r
<1>1. running[th].leg = "RunReplyAndSelfDestruct" /\ running[th] # Nothing
  BY DEF SelfDestruct, Nothing
<1>2. running[th] \in Item /\ r \in Relay /\ relay[r].origin = th
  <2>1. running[th] \in Item
    BY <1>1 DEF HomeInv, Typed
  <2> QED
    BY <1>1, <2>1, ItemFacts DEF HomeInv, ItemsAtHome, AtHome
<1>3. /\ task_gone' = [task_gone EXCEPT ![r] = th]
      /\ reply_gone' = [reply_gone EXCEPT ![r] = th]
      /\ running' = [running EXCEPT ![th] = Nothing]
      /\ UNCHANGED <<alive, queue, relay, replies>>
  BY DEF SelfDestruct
<1> HIDE DEF r
<1>4. Typed'
  BY <1>2, <1>3 DEF HomeInv, Typed
<1>5. ItemsAtHome'
  <2>1. \A u \in Thread : running'[u] = Nothing \/ running'[u] = running[u]
    BY <1>3 DEF HomeInv, Typed
  <2> QED
    BY <1>3, <2>1 DEF HomeInv, ItemsAtHome, AtHome
<1>6. ClosuresAtHome'
  <2>1. \A x \in Relay : task_gone[x] # NONE => task_gone'[x] # NONE
    BY <1>2, <1>3 DEF HomeInv, Typed
  <2>2. \A i \in DOMAIN replies : replies[i] \in Relay
    BY DEF HomeInv, Typed
  <2>3. \A x \in Relay : /\ task_gone'[x] \in {NONE, relay'[x].origin}
                         /\ reply_gone'[x] \in {NONE, relay'[x].origin}
    BY <1>2, <1>3 DEF HomeInv, Typed, ClosuresAtHome
  <2> QED
    BY <1>3, <2>1, <2>2, <2>3 DEF HomeInv, ClosuresAtHome
<1> QED
  BY <1>4, <1>5, <1>6 DEF HomeInv

LEMMA LoopDiesStep ==
  ASSUME HomeInv, NEW th \in Thread, LoopDies(th)
  PROVE  HomeInv'
<1>1. /\ alive' = alive \ {th}
      /\ queue' = [queue EXCEPT ![th] = <<>>]
      /\ UNCHANGED <<running, relay, task_gone, reply_gone, replies>>
  BY DEF LoopDies
<1>2. Typed'
  BY <1>1 DEF HomeInv, Typed
<1>3. ItemsAtHome'
  <2>1. \A u \in Thread : queue'[u] = <<>> \/ queue'[u] = queue[u]
    BY <1>1 DEF HomeInv, Typed
  <2> QED
    BY <1>1, <2>1 DEF HomeInv, ItemsAtHome, AtHome
<1>4. ClosuresAtHome'
  BY <1>1 DEF HomeInv, ClosuresAtHome
<1> QED
  BY <1>2, <1>3, <1>4 DEF HomeInv

LEMMA HomeStep == HomeInv /\ [RelayNext]_relayVars => HomeInv'
<1> SUFFICES ASSUME HomeInv, [RelayNext]_relayVars PROVE HomeInv'
  OBVIOUS
<1>1. CASE \E r \in Relay, o, t \in Thread : Call(r, o, t)
  BY <1>1, CallStep
<1>2. CASE \E th \in Thread : LoopStep(th) \/ LoopDies(th)
  BY <1>2, RunTaskStep, TaskRanStep, RunReplyStep, SelfDestructStep, LoopDiesStep
     DEF LoopStep
<1>3. CASE UNCHANGED relayVars
  BY <1>3 DEF relayVars, HomeInv, Typed, ItemsAtHome, AtHome, ClosuresAtHome
<1> QED
  BY <1>1, <1>2, <1>3 DEF RelayNext

\* "Both |task| and |reply| are guaranteed to be deleted on the thread from
\* which PostTaskAndReply() is invoked" (task_runner.h:88), the task before the
\* reply runs: never anywhere else, whichever loops die meanwhile.
THEOREM RelayDeletedAtOrigin == RelaySpec => []DeletedAtOrigin
<1>1. HomeInv => DeletedAtOrigin
  <2> SUFFICES ASSUME HomeInv, NEW r \in Relay
               PROVE  /\ {task_gone[r], reply_gone[r]} \subseteq {NONE, relay[r].origin}
                      /\ r \in Range(replies) => task_gone[r] # NONE
    BY DEF DeletedAtOrigin
  <2> QED
    BY DEF HomeInv, ClosuresAtHome, Range
<1> QED
  BY <1>1, HomeInit, HomeStep, PTL DEF RelaySpec

-----------------------------------------------------------------------------
(* The order of the replies, and what becomes of a relay.                  *)

Out(r) == [r |-> r, leg |-> "Run"]
Back(r) == [r |-> r, leg |-> "RunReplyAndSelfDestruct"]

GoingOut(r, i) ==
  i \in DOMAIN queue[relay[r].target] /\ queue[relay[r].target][i] = Out(r)

InTask(r) == running[relay[r].target] = Out(r)

ComingBack(r, i) ==
  i \in DOMAIN queue[relay[r].origin] /\ queue[relay[r].origin][i] = Back(r)

Answered(r, i) == i \in DOMAIN replies /\ replies[i] = r

\* Where a relay is on its way, from 1 to 4, and at which place there.
Place(r, m, i) ==
  \/ m = 1 /\ GoingOut(r, i)
  \/ m = 2 /\ i = 0 /\ InTask(r)
  \/ m = 3 /\ ComingBack(r, i)
  \/ m = 4 /\ Answered(r, i)

Ahead(m, i, n, j) == m > n \/ (m = n /\ i < j)

\* Relays that take the same way do not overtake one another, nor themselves.
InOrder ==
  \A k, l \in DOMAIN calls : relay[calls[k]] = relay[calls[l]] =>
    \A m, n \in 1..4, i, j \in Nat :
      Place(calls[k], m, i) /\ Place(calls[l], n, j) /\ Ahead(m, i, n, j) => k < l

Called(r) == \E k \in DOMAIN calls : calls[k] = r

CallsTyped ==
  /\ calls \in Seq(Relay)
  /\ \A k, l \in DOMAIN calls : calls[k] = calls[l] => k = l
  /\ \A k \in DOMAIN calls : relay[calls[k]] \in [origin : Thread, target : Thread]

\* Everything on its way was called, and goes to its target first.
OnItsWay(it, th) == Called(it.r) /\ (it.leg = "Run" => relay[it.r].target = th)

AllOnTheirWay ==
  /\ \A th \in Thread :
       /\ \A i \in DOMAIN queue[th] : OnItsWay(queue[th][i], th)
       /\ running[th] # Nothing => OnItsWay(running[th], th)
  /\ \A i \in DOMAIN replies : Called(replies[i])

WayInv == CallsTyped /\ AllOnTheirWay /\ InOrder

\* A relay that was not deleted is somewhere while both of its loops exist.
Somewhere(r) ==
  \/ \E i \in Nat : GoingOut(r, i) \/ ComingBack(r, i)
  \/ InTask(r)
  \/ running[relay[r].origin] = Back(r)

KeptInv ==
  \A r \in Relay :
    (/\ relay[r].origin # NONE /\ reply_gone[r] = NONE
     /\ relay[r].origin \in alive /\ relay[r].target \in alive) => Somewhere(r)

LEMMA WayInit == RelayInit => WayInv /\ KeptInv
<1> SUFFICES ASSUME RelayInit PROVE WayInv /\ KeptInv
  OBVIOUS
<1>1. CallsTyped
  BY DEF RelayInit, CallsTyped
<1>2. AllOnTheirWay
  BY DEF RelayInit, AllOnTheirWay
<1>3. InOrder
  BY DEF RelayInit, InOrder
<1>4. KeptInv
  BY DEF RelayInit, KeptInv
<1> QED
  BY <1>1, <1>2, <1>3, <1>4 DEF WayInv

\* An item in the queue or in the hands of a thread is the relay's out or back.
LEMMA ItemForm ==
  \A it \in Item : \/ it.leg = "Run" /\ it = Out(it.r)
                   \/ it.leg = "RunReplyAndSelfDestruct" /\ it = Back(it.r)
BY DEF Item, Out, Back

LEMMA FormDiffers ==
  \A r, s : /\ Out(r) # Back(s)
            /\ Out(r) = Out(s) => r = s
            /\ Back(r) = Back(s) => r = s
            /\ Out(r).r = r /\ Back(r).r = r
            /\ Out(r).leg = "Run" /\ Back(r).leg = "RunReplyAndSelfDestruct"
<1> TAKE r, s
<1>1. /\ Out(r).r = r /\ Back(r).r = r /\ Out(s).r = s /\ Back(s).r = s
      /\ Out(r).leg = "Run" /\ Back(s).leg = "RunReplyAndSelfDestruct"
      /\ Back(r).leg = "RunReplyAndSelfDestruct"
  BY DEF Out, Back
<1> QED
  BY <1>1

\* What a thread takes was first in its queue; what waits behind moves up.
LEMMA TakesPlaces ==
  ASSUME HomeInv, NEW th \in Thread, NEW leg, Takes(th, leg), relay' = relay,
         NEW r \in Relay, relay[r] \in [origin : Thread, target : Thread],
         NEW i \in Nat
  PROVE  /\ GoingOut(r, i)' =>
              GoingOut(r, IF relay[r].target = th THEN i + 1 ELSE i)
         /\ ComingBack(r, i)' =>
              ComingBack(r, IF relay[r].origin = th THEN i + 1 ELSE i)
         /\ InTask(r)' =>
              InTask(r) \/ (relay[r].target = th /\ leg = "Run" /\ GoingOut(r, 1))
<1> DEFINE o == relay[r].origin
           t == relay[r].target
<1>1. o \in Thread /\ t \in Thread
  OBVIOUS
<1>2. queue[th] \in Seq(Item) /\ queue[th] # <<>> /\ Head(queue[th]).leg = leg
  BY DEF HomeInv, Typed, Takes
<1>3. /\ queue' = [queue EXCEPT ![th] = Tail(@)]
      /\ running' = [running EXCEPT ![th] = Head(queue[th])]
      /\ queue \in [Thread -> Seq(Item)]
      /\ running \in [Thread -> Item \cup {Nothing}]
  BY DEF Takes, HomeInv, Typed
<1>4. /\ Head(queue[th]) = queue[th][1] /\ 1 \in DOMAIN queue[th]
      /\ \A x \in DOMAIN Tail(queue[th]) :
           x + 1 \in DOMAIN queue[th] /\ Tail(queue[th])[x] = queue[th][x + 1]
  BY <1>2, TailItems
<1>5. /\ queue'[th] = Tail(queue[th]) /\ running'[th] = Head(queue[th])
      /\ \A u \in Thread : u # th => queue'[u] = queue[u] /\ running'[u] = running[u]
  BY <1>3
<1>6. ASSUME GoingOut(r, i)'
      PROVE  GoingOut(r, IF t = th THEN i + 1 ELSE i)
  <2>1. i \in DOMAIN queue'[t] /\ queue'[t][i] = Out(r)
    BY <1>6 DEF GoingOut
  <2>2. CASE t = th
    BY <1>4, <1>5, <2>1, <2>2 DEF GoingOut
  <2>3. CASE t # th
    BY <1>1, <1>5, <2>1, <2>3 DEF GoingOut
  <2> QED
    BY <2>2, <2>3
<1>7. ASSUME ComingBack(r, i)'
      PROVE  ComingBack(r, IF o = th THEN i + 1 ELSE i)
  <2>1. i \in DOMAIN queue'[o] /\ queue'[o][i] = Back(r)
    BY <1>7 DEF ComingBack
  <2>2. CASE o = th
    BY <1>4, <1>5, <2>1, <2>2 DEF ComingBack
  <2>3. CASE o # th
    BY <1>1, <1>5, <2>1, <2>3 DEF ComingBack
  <2> QED
    BY <2>2, <2>3
<1>8. ASSUME InTask(r)', ~InTask(r)
      PROVE  t = th /\ leg = "Run" /\ GoingOut(r, 1)
  <2>1. running'[t] = Out(r) /\ running[t] # Out(r)
    BY <1>8 DEF InTask
  <2>2. t = th /\ queue[t][1] = Out(r) /\ Head(queue[t]) = Out(r)
    BY <1>1, <1>4, <1>5, <2>1
  <2> QED
    BY <1>2, <1>4, <2>2, FormDiffers DEF GoingOut
<1> QED
  BY <1>6, <1>7, <1>8

\* The relays whose way the invariant is about.
LEMMA WayEnd ==
  ASSUME CallsTyped, NEW k \in DOMAIN calls
  PROVE  calls[k] \in Relay /\ relay[calls[k]] \in [origin : Thread, target : Thread]
BY DEF CallsTyped

\* A step that keeps the relays on their way in the order they were in.
LEMMA OrderKept ==
  ASSUME InOrder, CallsTyped, calls' = calls, relay' = relay,
         \A r, s \in Relay :
           (/\ relay[r] = relay[s]
            /\ relay[r] \in [origin : Thread, target : Thread]
            /\ Called(r) /\ Called(s)) =>
             \A m, n \in 1..4, i, j \in Nat :
               Place(r, m, i)' /\ Place(s, n, j)' /\ Ahead(m, i, n, j) =>
                 \E p, q \in 1..4, x, y \in Nat :
                   Place(r, p, x) /\ Place(s, q, y) /\ Ahead(p, x, q, y)
  PROVE  InOrder'
<1> SUFFICES ASSUME NEW k \in DOMAIN calls, NEW l \in DOMAIN calls,
                    relay[calls[k]] = relay[calls[l]],
                    NEW m \in 1..4, NEW n \in 1..4, NEW i \in Nat, NEW j \in Nat,
                    Place(calls[k], m, i)', Place(calls[l], n, j)',
                    Ahead(m, i, n, j)
             PROVE  k < l
  BY DEF InOrder, Ahead
<1>1. PICK r \in Relay : r = calls[k] /\ relay[r] \in [origin : Thread, target : Thread]
  BY WayEnd
<1>2. PICK s \in Relay : s = calls[l]
  BY WayEnd
<1>3. Called(r) /\ Called(s)
  BY <1>1, <1>2 DEF Called
<1>4. Place(r, m, i)' /\ Place(s, n, j)'
  BY <1>1, <1>2 DEF Place, GoingOut, InTask, ComingBack, Answered
<1>5. PICK p \in 1..4, q \in 1..4, x \in Nat, y \in Nat :
        Place(r, p, x) /\ Place(s, q, y) /\ Ahead(p, x, q, y)
  BY <1>1, <1>2, <1>3, <1>4
<1>6. Place(calls[k], p, x) /\ Place(calls[l], q, y)
  BY <1>1, <1>2, <1>5
<1> QED
  BY <1>5, <1>6 DEF InOrder

\* The places of a queue are counted from 1.
LEMMA PlaceFacts ==
  ASSUME Typed, NEW r \in Relay, relay[r] \in [origin : Thread, target : Thread],
         NEW i \in Nat
  PROVE  /\ GoingOut(r, i) \/ ComingBack(r, i) => i >= 1
         /\ Answered(r, i) => i >= 1
<1>1. /\ queue[relay[r].target] \in Seq(Item)
      /\ queue[relay[r].origin] \in Seq(Item)
      /\ replies \in Seq(Relay)
  BY DEF Typed
<1>2. GoingOut(r, i) => i >= 1
  BY <1>1 DEF GoingOut
<1>3. ComingBack(r, i) => i >= 1
  BY <1>1 DEF ComingBack
<1>4. Answered(r, i) => i >= 1
  BY <1>1 DEF Answered
<1> QED
  BY <1>2, <1>3, <1>4

LEMMA PlaceFactsNext ==
  ASSUME Typed', NEW r \in Relay, relay'[r] \in [origin : Thread, target : Thread],
         NEW i \in Nat
  PROVE  /\ GoingOut(r, i)' \/ ComingBack(r, i)' => i >= 1
         /\ Answered(r, i)' => i >= 1
<1>1. /\ queue'[relay'[r].target] \in Seq(Item)
      /\ queue'[relay'[r].origin] \in Seq(Item)
      /\ replies' \in Seq(Relay)
  BY DEF Typed
<1>2. GoingOut(r, i)' => i >= 1
  BY <1>1 DEF GoingOut
<1>3. ComingBack(r, i)' => i >= 1
  BY <1>1 DEF ComingBack
<1>4. Answered(r, i)' => i >= 1
  BY <1>1 DEF Answered
<1> QED
  BY <1>2, <1>3, <1>4

LEMMA PlaceIs ==
  \A r, i : /\ Place(r, 1, i) <=> GoingOut(r, i)
            /\ Place(r, 2, i) <=> i = 0 /\ InTask(r)
            /\ Place(r, 3, i) <=> ComingBack(r, i)
            /\ Place(r, 4, i) <=> Answered(r, i)
BY DEF Place

LEMMA PlaceIsNext ==
  \A r, i : /\ Place(r, 1, i)' <=> GoingOut(r, i)'
            /\ Place(r, 2, i)' <=> i = 0 /\ InTask(r)'
            /\ Place(r, 3, i)' <=> ComingBack(r, i)'
            /\ Place(r, 4, i)' <=> Answered(r, i)'
BY DEF Place

\* A relay starts from the front of its target's queue.
LEMMA RunTaskOrder ==
  ASSUME HomeInv, HomeInv', WayInv, NEW th \in Thread, RunTask(th)
  PROVE  InOrder'
<1>1. Takes(th, "Run") /\ UNCHANGED <<relay, calls, replies>>
  BY DEF RunTask
<1> SUFFICES ASSUME NEW r \in Relay, NEW s \in Relay, relay[r] = relay[s],
                    relay[r] \in [origin : Thread, target : Thread],
                    NEW m \in 1..4, NEW n \in 1..4, NEW i \in Nat, NEW j \in Nat,
                    Place(r, m, i)', Place(s, n, j)', Ahead(m, i, n, j)
             PROVE  \E p, q \in 1..4, x, y \in Nat :
                      Place(r, p, x) /\ Place(s, q, y) /\ Ahead(p, x, q, y)
  BY <1>1, OrderKept DEF WayInv
<1> DEFINE o == relay[r].origin
           t == relay[r].target
           S(k, z) == IF (k = 1 /\ t = th) \/ (k = 3 /\ o = th) THEN z + 1 ELSE z
<1>2. ASSUME NEW a \in {r, s}, NEW k \in 1..4, NEW z \in Nat, Place(a, k, z)'
      PROVE  /\ k # 2 => z >= 1
             /\ k = 2 => z = 0
             /\ Place(a, k, S(k, z)) \/ (k = 2 /\ t = th /\ Place(a, 1, 1))
  <2>1. /\ a \in Relay /\ relay[a].target = t /\ relay[a].origin = o
        /\ relay[a] \in [origin : Thread, target : Thread]
        /\ relay'[a] = relay[a]
    BY <1>1
  <2>2. Typed'
    BY DEF HomeInv
  <2> HIDE DEF o, t
  <2>3. CASE k = 1
    <3>1. GoingOut(a, z)'
      BY <1>2, <2>3, PlaceIsNext
    <3>2. z >= 1
      BY <2>1, <2>2, <3>1, PlaceFactsNext
    <3>3. GoingOut(a, IF t = th THEN z + 1 ELSE z)
      BY <1>1, <2>1, <3>1, TakesPlaces
    <3> QED
      BY <2>3, <3>2, <3>3, PlaceIs
  <2>4. CASE k = 2
    <3>1. InTask(a)' /\ z = 0
      BY <1>2, <2>4, PlaceIsNext
    <3>2. InTask(a) \/ (t = th /\ GoingOut(a, 1))
      BY <1>1, <2>1, <3>1, TakesPlaces
    <3> QED
      BY <2>4, <3>1, <3>2, PlaceIs
  <2>5. CASE k = 3
    <3>1. ComingBack(a, z)'
      BY <1>2, <2>5, PlaceIsNext
    <3>2. z >= 1
      BY <2>1, <2>2, <3>1, PlaceFactsNext
    <3>3. ComingBack(a, IF o = th THEN z + 1 ELSE z)
      BY <1>1, <2>1, <3>1, TakesPlaces
    <3> QED
      BY <2>5, <3>2, <3>3, PlaceIs
  <2>6. CASE k = 4
    <3>1. Answered(a, z)'
      BY <1>2, <2>6, PlaceIsNext
    <3>2. z >= 1
      BY <2>1, <2>2, <3>1, PlaceFactsNext
    <3>3. Answered(a, z)
      BY <1>1, <3>1 DEF Answered
    <3> QED
      BY <2>6, <3>2, <3>3, PlaceIs
  <2> QED
    BY <2>3, <2>4, <2>5, <2>6
<1>3. /\ m # 2 => i >= 1
      /\ m = 2 => i = 0
      /\ Place(r, m, S(m, i)) \/ (m = 2 /\ t = th /\ Place(r, 1, 1))
  BY <1>2
<1>4. /\ n # 2 => j >= 1
      /\ n = 2 => j = 0
      /\ Place(s, n, S(n, j)) \/ (n = 2 /\ t = th /\ Place(s, 1, 1))
  BY <1>2
<1> HIDE DEF o, t
<1>5. S(m, i) \in Nat /\ S(n, j) \in Nat
  OBVIOUS
<1>6. CASE Place(r, m, S(m, i)) /\ Place(s, n, S(n, j))
  <2>1. Ahead(m, S(m, i), n, S(n, j))
    BY DEF Ahead
  <2> QED
    BY <1>5, <1>6, <2>1
<1>7. CASE m = 2 /\ t = th /\ Place(r, 1, 1) /\ Place(s, n, S(n, j))
  <2>1. n = 1 /\ Ahead(1, 1, n, S(n, j))
    BY <1>3, <1>4, <1>7 DEF Ahead
  <2> QED
    BY <1>5, <1>7, <2>1
<1>8. CASE n = 2 /\ Place(s, 1, 1) /\ Place(r, m, S(m, i))
  <2>1. Ahead(m, S(m, i), 1, 1)
    BY <1>3, <1>4, <1>8 DEF Ahead
  <2> QED
    BY <1>5, <1>8, <2>1
<1>9. CASE m = 2 /\ n = 2
  BY <1>3, <1>4, <1>9 DEF Ahead
<1> QED
  BY <1>3, <1>4, <1>6, <1>7, <1>8, <1>9

\* What TaskRan takes: the relay that was in its task is the one that goes back.
LEMMA TaskRanPlaces ==
  ASSUME HomeInv, WayInv, NEW th \in Thread, TaskRan(th)
  PROVE  \E b \in Relay :
           /\ running[th] = Out(b) /\ relay[b].target = th
           /\ relay[b] \in [origin : Thread, target : Thread]
           /\ running' = [running EXCEPT ![th] = Nothing]
           /\ queue' = IF relay[b].origin \in alive
                       THEN [queue EXCEPT ![relay[b].origin] = Append(@, Back(b))]
                       ELSE queue
           /\ UNCHANGED <<alive, relay, task_gone, reply_gone, calls, replies>>
<1> DEFINE b == running[th].r
<1>1. running[th] \in Item /\ running[th].leg = "Run" /\ running[th] # Nothing
  BY DEF TaskRan, NothingRuns, HomeInv, Typed
<1>2. running[th] = Out(b) /\ b \in Relay
  BY <1>1, ItemForm, ItemFacts
<1>3. Called(b) /\ relay[b].target = th
  BY <1>1 DEF WayInv, AllOnTheirWay, OnItsWay
<1>4. relay[b] \in [origin : Thread, target : Thread]
  BY <1>3 DEF Called, WayInv, CallsTyped
<1>5. /\ running' = [running EXCEPT ![th] = Nothing]
      /\ queue' = IF relay[b].origin \in alive
                  THEN [queue EXCEPT ![relay[b].origin] = Append(@, Back(b))]
                  ELSE queue
      /\ UNCHANGED <<alive, relay, task_gone, reply_gone, calls, replies>>
  BY DEF TaskRan, Back
<1> QED
  BY <1>2, <1>3, <1>4, <1>5

\* What a post leaves in a queue: the old items where they were, the new one last.
LEMMA AppendPlaces ==
  \A q \in Seq(Item), x \in Item :
    /\ Append(q, x) \in Seq(Item)
    /\ Len(Append(q, x)) = Len(q) + 1
    /\ \A i \in DOMAIN Append(q, x) :
         \/ i \in DOMAIN q /\ Append(q, x)[i] = q[i]
         \/ i = Len(q) + 1 /\ Append(q, x)[i] = x
    /\ \A i \in DOMAIN Append(q, x) : i <= Len(q) + 1
OBVIOUS

LEMMA AppendKeeps ==
  \A q \in Seq(Item), x \in Item :
    /\ \A i \in DOMAIN q : i \in DOMAIN Append(q, x) /\ Append(q, x)[i] = q[i]
    /\ Len(q) + 1 \in Nat /\ Len(q) + 1 \in DOMAIN Append(q, x)
    /\ Append(q, x)[Len(q) + 1] = x
OBVIOUS

\* It goes back behind those that went before.
LEMMA TaskRanOrder ==
  ASSUME HomeInv, HomeInv', WayInv, NEW th \in Thread, TaskRan(th)
  PROVE  InOrder'
<1>1. PICK b \in Relay :
           /\ running[th] = Out(b) /\ relay[b].target = th
           /\ relay[b] \in [origin : Thread, target : Thread]
           /\ running' = [running EXCEPT ![th] = Nothing]
           /\ queue' = IF relay[b].origin \in alive
                       THEN [queue EXCEPT ![relay[b].origin] = Append(@, Back(b))]
                       ELSE queue
           /\ UNCHANGED <<alive, relay, task_gone, reply_gone, calls, replies>>
  BY TaskRanPlaces
<1> SUFFICES ASSUME NEW r \in Relay, NEW s \in Relay, relay[r] = relay[s],
                    relay[r] \in [origin : Thread, target : Thread],
                    NEW m \in 1..4, NEW n \in 1..4, NEW i \in Nat, NEW j \in Nat,
                    Place(r, m, i)', Place(s, n, j)', Ahead(m, i, n, j)
             PROVE  \E p, q \in 1..4, x, y \in Nat :
                      Place(r, p, x) /\ Place(s, q, y) /\ Ahead(p, x, q, y)
  BY <1>1, OrderKept DEF WayInv
<1> DEFINE o == relay[r].origin
           t == relay[r].target
           old == queue[o]
<1>2. /\ o \in Thread /\ t \in Thread
      /\ queue \in [Thread -> Seq(Item)]
      /\ running \in [Thread -> Item \cup {Nothing}]
      /\ old \in Seq(Item) /\ Back(b) \in Item
  BY ItemFacts DEF HomeInv, Typed, Back
<1>3. \A u \in Thread :
        \/ queue'[u] = queue[u]
        \/ u = relay[b].origin /\ queue'[u] = Append(queue[u], Back(b))
  BY <1>1, <1>2
<1>4. ASSUME NEW a \in {r, s}, NEW k \in 1..4, NEW z \in Nat, Place(a, k, z)'
      PROVE  /\ k = 2 => z = 0 /\ t # th
             /\ k = 3 => z <= Len(old) + 1
             /\ \/ Place(a, k, z)
                \/ k = 3 /\ z = Len(old) + 1 /\ t = th /\ Place(a, 2, 0)
  <2>1. /\ a \in Relay /\ relay[a].target = t /\ relay[a].origin = o
        /\ relay'[a] = relay[a]
    BY <1>1
  <2>2. \A u \in Thread : queue[u] \in Seq(Item)
    BY <1>2
  <2> HIDE DEF o, t, old
  <2>3. CASE k = 1
    <3>1. z \in DOMAIN queue'[t] /\ queue'[t][z] = Out(a)
      BY <1>4, <2>1, <2>3, PlaceIsNext DEF GoingOut
    <3>2. z \in DOMAIN queue[t] /\ queue[t][z] = Out(a)
      <4>1. CASE queue'[t] = queue[t]
        BY <3>1, <4>1
      <4>2. CASE queue'[t] = Append(queue[t], Back(b))
        <5>1. queue[t] \in Seq(Item)
          BY <1>2, <2>2
        <5>2. queue'[t][z] # Back(b)
          BY <3>1, FormDiffers
        <5> QED
          BY <1>2, <3>1, <4>2, <5>1, <5>2, AppendPlaces
      <4> QED
        BY <1>2, <1>3, <4>1, <4>2
    <3> QED
      BY <2>1, <2>3, <3>2, PlaceIs DEF GoingOut
  <2>4. CASE k = 2
    <3>1. running'[t] = Out(a) /\ z = 0
      BY <1>4, <2>1, <2>4, PlaceIsNext DEF InTask
    <3>2. t # th /\ running[t] = Out(a)
      BY <1>1, <1>2, <2>1, <3>1, ItemFacts DEF Out
    <3> QED
      BY <2>1, <2>4, <3>1, <3>2, PlaceIs DEF InTask
  <2>5. CASE k = 3
    <3>1. z \in DOMAIN queue'[o] /\ queue'[o][z] = Back(a)
      BY <1>4, <2>1, <2>5, PlaceIsNext DEF ComingBack
    <3>2. old = queue[o]
      BY DEF old
    <3>3. /\ z <= Len(old) + 1
          /\ \/ z \in DOMAIN old /\ old[z] = Back(a)
             \/ z = Len(old) + 1 /\ Back(a) = Back(b)
      <4>1. CASE queue'[o] = old
        <5>1. z \in DOMAIN old /\ old[z] = Back(a) /\ old \in Seq(Item)
          BY <1>2, <3>1, <4>1
        <5>2. z <= Len(old)
          BY <5>1
        <5> QED
          BY <5>1, <5>2
      <4>2. CASE queue'[o] = Append(old, Back(b))
        BY <1>2, <3>1, <4>2, AppendPlaces
      <4> QED
        BY <1>2, <1>3, <3>2, <4>1, <4>2
    <3>4. Back(a) = Back(b) => a = b
      BY FormDiffers
    <3>5. a = b => t = th /\ Place(a, 2, 0)
      BY <1>1, <2>1, PlaceIs DEF InTask
    <3>6. z \in DOMAIN old /\ old[z] = Back(a) => Place(a, 3, z)
      BY <2>1, <3>2, PlaceIs DEF ComingBack
    <3> QED
      BY <2>5, <3>3, <3>4, <3>5, <3>6
  <2>6. CASE k = 4
    BY <1>1, <1>4, <2>6, PlaceIs, PlaceIsNext DEF Answered
  <2> QED
    BY <2>3, <2>4, <2>5, <2>6
<1>5. /\ m = 2 => i = 0 /\ t # th
      /\ m = 3 => i <= Len(old) + 1
      /\ \/ Place(r, m, i)
         \/ m = 3 /\ i = Len(old) + 1 /\ t = th /\ Place(r, 2, 0)
  BY <1>4
<1>6. /\ n = 2 => j = 0 /\ t # th
      /\ n = 3 => j <= Len(old) + 1
      /\ \/ Place(s, n, j)
         \/ n = 3 /\ j = Len(old) + 1 /\ t = th /\ Place(s, 2, 0)
  BY <1>4
<1>7. Len(old) \in Nat
  BY <1>2
<1> HIDE DEF o, t, old
<1>8. CASE Place(r, m, i) /\ Place(s, n, j)
  BY <1>8
<1>9. CASE m = 3 /\ i = Len(old) + 1 /\ t = th /\ Place(r, 2, 0) /\ Place(s, n, j)
  <2>1. n = 1
    BY <1>6, <1>7, <1>9 DEF Ahead
  <2>2. Ahead(2, 0, n, j)
    BY <2>1 DEF Ahead
  <2> QED
    BY <1>9, <2>2
<1>10. CASE n = 3 /\ j = Len(old) + 1 /\ Place(s, 2, 0) /\ Place(r, m, i)
  <2>1. Ahead(m, i, 2, 0)
    BY <1>10 DEF Ahead
  <2> QED
    BY <1>10, <2>1
<1>11. CASE m = 3 /\ i = Len(old) + 1 /\ n = 3 /\ j = Len(old) + 1
  BY <1>7, <1>11 DEF Ahead
<1> QED
  BY <1>5, <1>6, <1>8, <1>9, <1>10, <1>11

\* An answer comes after those that were before it in the queue.
LEMMA RunReplyOrder ==
  ASSUME HomeInv, HomeInv', WayInv, NEW th \in Thread, RunReply(th)
  PROVE  InOrder'
<1> DEFINE b == Head(queue[th]).r
<1>1. /\ Takes(th, "RunReplyAndSelfDestruct") /\ UNCHANGED <<relay, calls>>
      /\ replies' = Append(replies, b)
  BY DEF RunReply
<1>2. queue[th] \in Seq(Item) /\ queue[th] # <<>>
      /\ Head(queue[th]).leg = "RunReplyAndSelfDestruct"
  BY <1>1 DEF HomeInv, Typed, Takes
<1>3. /\ Head(queue[th]) \in Item /\ 1 \in DOMAIN queue[th]
      /\ Head(queue[th]) = queue[th][1]
  BY <1>2, TailItems
<1>4. queue[th][1] = Back(b) /\ b \in Relay
  BY <1>2, <1>3, ItemForm, ItemFacts
<1>5. relay[b].origin = th
  BY <1>1, TakesStep DEF AtHome
<1> HIDE DEF b
<1> SUFFICES ASSUME NEW r \in Relay, NEW s \in Relay, relay[r] = relay[s],
                    relay[r] \in [origin : Thread, target : Thread],
                    NEW m \in 1..4, NEW n \in 1..4, NEW i \in Nat, NEW j \in Nat,
                    Place(r, m, i)', Place(s, n, j)', Ahead(m, i, n, j)
             PROVE  \E p, q \in 1..4, x, y \in Nat :
                      Place(r, p, x) /\ Place(s, q, y) /\ Ahead(p, x, q, y)
  BY <1>1, OrderKept DEF WayInv
<1> DEFINE o == relay[r].origin
           t == relay[r].target
           S(k, z) == IF (k = 1 /\ t = th) \/ (k = 3 /\ o = th) THEN z + 1 ELSE z
<1>6. replies \in Seq(Relay) /\ Len(replies) \in Nat
  BY DEF HomeInv, Typed
<1>7. ASSUME NEW a \in {r, s}, NEW k \in 1..4, NEW z \in Nat, Place(a, k, z)'
      PROVE  /\ k # 2 => z >= 1
             /\ k = 4 => z <= Len(replies) + 1
             /\ \/ Place(a, k, S(k, z))
                \/ k = 4 /\ z = Len(replies) + 1 /\ o = th /\ Place(a, 3, 1)
  <2>1. /\ a \in Relay /\ relay[a].target = t /\ relay[a].origin = o
        /\ relay[a] \in [origin : Thread, target : Thread]
        /\ relay'[a] = relay[a]
    BY <1>1
  <2>2. Typed'
    BY DEF HomeInv
  <2> HIDE DEF o, t
  <2>3. CASE k = 1
    <3>1. GoingOut(a, z)'
      BY <1>7, <2>3, PlaceIsNext
    <3>2. z >= 1
      BY <2>1, <2>2, <3>1, PlaceFactsNext
    <3>3. GoingOut(a, IF t = th THEN z + 1 ELSE z)
      BY <1>1, <2>1, <3>1, TakesPlaces
    <3> QED
      BY <2>3, <3>2, <3>3, PlaceIs
  <2>4. CASE k = 2
    <3>1. InTask(a)' /\ z = 0
      BY <1>7, <2>4, PlaceIsNext
    <3>2. InTask(a)
      BY <1>1, <2>1, <3>1, TakesPlaces
    <3> QED
      BY <2>4, <3>1, <3>2, PlaceIs
  <2>5. CASE k = 3
    <3>1. ComingBack(a, z)'
      BY <1>7, <2>5, PlaceIsNext
    <3>2. z >= 1
      BY <2>1, <2>2, <3>1, PlaceFactsNext
    <3>3. ComingBack(a, IF o = th THEN z + 1 ELSE z)
      BY <1>1, <2>1, <3>1, TakesPlaces
    <3> QED
      BY <2>5, <3>2, <3>3, PlaceIs
  <2>6. CASE k = 4
    <3>1. Answered(a, z)'
      BY <1>7, <2>6, PlaceIsNext
    <3>2. z >= 1
      BY <2>1, <2>2, <3>1, PlaceFactsNext
    <3>3. z \in DOMAIN replies' /\ replies'[z] = a
      BY <3>1 DEF Answered
    <3>4. /\ z <= Len(replies) + 1
          /\ \/ z \in DOMAIN replies /\ replies[z] = a
             \/ z = Len(replies) + 1 /\ a = b
      BY <1>1, <1>4, <1>6, <3>3
    <3>5. a = b => o = th /\ Place(a, 3, 1)
      BY <1>3, <1>4, <1>5, <2>1, PlaceIs DEF ComingBack
    <3>6. z \in DOMAIN replies /\ replies[z] = a => Place(a, 4, z)
      BY PlaceIs DEF Answered
    <3> QED
      BY <2>6, <3>2, <3>4, <3>5, <3>6
  <2> QED
    BY <2>3, <2>4, <2>5, <2>6
<1>8. /\ m # 2 => i >= 1
      /\ m = 4 => i <= Len(replies) + 1
      /\ \/ Place(r, m, S(m, i))
         \/ m = 4 /\ i = Len(replies) + 1 /\ o = th /\ Place(r, 3, 1)
  BY <1>7
<1>9. /\ n # 2 => j >= 1
      /\ n = 4 => j <= Len(replies) + 1
      /\ \/ Place(s, n, S(n, j))
         \/ n = 4 /\ j = Len(replies) + 1 /\ o = th /\ Place(s, 3, 1)
  BY <1>7
<1> DEFINE len == Len(replies)
<1> HIDE DEF o, t, len
<1>10. S(m, i) \in Nat /\ S(n, j) \in Nat
  OBVIOUS
<1>11. CASE Place(r, m, S(m, i)) /\ Place(s, n, S(n, j))
  <2>1. Ahead(m, S(m, i), n, S(n, j))
    BY DEF Ahead
  <2> QED
    BY <1>10, <1>11, <2>1
<1>12. CASE m = 4 /\ i = len + 1 /\ o = th /\ Place(r, 3, 1) /\ Place(s, n, S(n, j))
  <2>1. n < 4
    BY <1>6, <1>9, <1>12 DEF Ahead, len
  <2>2. Ahead(3, 1, n, S(n, j))
    BY <1>9, <1>12, <2>1 DEF Ahead
  <2> QED
    BY <1>10, <1>12, <2>2
<1>13. CASE n = 4 /\ Place(s, 3, 1) /\ Place(r, m, S(m, i))
  <2>1. Ahead(m, S(m, i), 3, 1)
    BY <1>13 DEF Ahead
  <2> QED
    BY <1>10, <1>13, <2>1
<1>14. CASE m = 4 /\ i = len + 1 /\ n = 4 /\ j = len + 1
  BY <1>6, <1>14 DEF Ahead, len
<1> QED
  BY <1>8, <1>9, <1>11, <1>12, <1>13, <1>14 DEF len

\* What is deleted with its loop, and a reply that is over, change no order.
LEMMA SelfDestructOrder ==
  ASSUME HomeInv, WayInv, NEW th \in Thread, SelfDestruct(th)
  PROVE  InOrder'
<1>1. UNCHANGED <<queue, relay, calls, replies>>
      /\ running' = [running EXCEPT ![th] = Nothing]
  BY DEF SelfDestruct
<1>2. ASSUME NEW r \in Relay, relay[r] \in [origin : Thread, target : Thread],
             NEW m \in 1..4, NEW i \in Nat, Place(r, m, i)'
      PROVE  Place(r, m, i)
  <2>1. InTask(r)' => InTask(r)
    BY <1>1, <1>2, ItemFacts DEF InTask, HomeInv, Typed, Out
  <2>2. /\ GoingOut(r, i)' => GoingOut(r, i)
        /\ ComingBack(r, i)' => ComingBack(r, i)
        /\ Answered(r, i)' => Answered(r, i)
    BY <1>1 DEF GoingOut, ComingBack, Answered
  <2> QED
    BY <1>2, <2>1, <2>2 DEF Place
<1> QED
  BY <1>1, <1>2, OrderKept DEF WayInv

LEMMA LoopDiesOrder ==
  ASSUME HomeInv, WayInv, NEW th \in Thread, LoopDies(th)
  PROVE  InOrder'
<1>1. UNCHANGED <<running, relay, calls, replies>>
      /\ queue' = [queue EXCEPT ![th] = <<>>]
  BY DEF LoopDies
<1>2. ASSUME NEW r \in Relay, relay[r] \in [origin : Thread, target : Thread],
             NEW m \in 1..4, NEW i \in Nat, Place(r, m, i)'
      PROVE  Place(r, m, i)
  <2>1. InTask(r)' => InTask(r)
    BY <1>1 DEF InTask
  <2>2. \A u \in Thread : queue'[u] = queue[u] \/ queue'[u] = <<>>
    BY <1>1 DEF HomeInv, Typed
  <2>3. /\ GoingOut(r, i)' => GoingOut(r, i)
        /\ ComingBack(r, i)' => ComingBack(r, i)
        /\ Answered(r, i)' => Answered(r, i)
    BY <1>1, <1>2, <2>2 DEF GoingOut, ComingBack, Answered
  <2> QED
    BY <1>2, <2>1, <2>3 DEF Place
<1> QED
  BY <1>1, <1>2, OrderKept DEF WayInv

\* A call puts its relay behind all others, and nothing of it was on its way.
LEMMA CallPlaces ==
  ASSUME HomeInv, WayInv, NEW b \in Relay, NEW o \in Thread, NEW t \in Thread,
         Call(b, o, t), NEW r \in Relay, Called(r), NEW m \in 1..4, NEW i \in Nat
  PROVE  /\ r # b /\ relay'[r] = relay[r]
         /\ Place(r, m, i)' => Place(r, m, i)
<1>1. /\ relay' = [relay EXCEPT ![b] = [origin |-> o, target |-> t]]
      /\ relay[b].origin = NONE
      /\ UNCHANGED <<running, replies>>
      /\ queue' = queue \/ queue' = [queue EXCEPT ![t] = Append(@, Out(b))]
  BY DEF Call, Unused, Out
<1>2. relay[r] \in [origin : Thread, target : Thread]
  BY DEF Called, WayInv, CallsTyped
<1>3. r # b
  BY <1>1, <1>2
<1>4. relay'[r] = relay[r]
  BY <1>1, <1>3 DEF HomeInv, Typed
<1>5. Answered(r, i)' => Answered(r, i)
  BY <1>1 DEF Answered
<1>6. InTask(r)' => InTask(r)
  BY <1>1, <1>4 DEF InTask
<1>7. ASSUME NEW u \in Thread, NEW it, it # Out(b), i \in DOMAIN queue'[u],
             queue'[u][i] = it
      PROVE  i \in DOMAIN queue[u] /\ queue[u][i] = it
  <2>1. queue[u] \in Seq(Item) /\ Out(b) \in Item
    BY ItemFacts DEF HomeInv, Typed, Out
  <2>2. queue'[u] = queue[u] \/ queue'[u] = Append(queue[u], Out(b))
    BY <1>1 DEF HomeInv, Typed
  <2>3. CASE queue'[u] = queue[u]
    BY <1>7, <2>3
  <2>4. CASE queue'[u] = Append(queue[u], Out(b))
    BY <1>7, <2>1, <2>4, AppendPlaces
  <2> QED
    BY <2>2, <2>3, <2>4
<1>8. Out(r) # Out(b) /\ Back(r) # Out(b)
  BY <1>3, FormDiffers
<1>9. GoingOut(r, i)' => GoingOut(r, i)
  BY <1>2, <1>4, <1>7, <1>8 DEF GoingOut
<1>10. ComingBack(r, i)' => ComingBack(r, i)
  BY <1>2, <1>4, <1>7, <1>8 DEF ComingBack
<1> QED
  BY <1>3, <1>4, <1>5, <1>6, <1>9, <1>10 DEF Place

\* The relay of a call is last in the queue of its target.
LEMMA CallLast ==
  ASSUME HomeInv, WayInv, NEW b \in Relay, NEW o \in Thread, NEW t \in Thread,
         Call(b, o, t), NEW m \in 1..4, NEW i \in Nat, Place(b, m, i)'
  PROVE  m = 1 /\ i = Len(queue[t]) + 1
<1>1. /\ relay' = [relay EXCEPT ![b] = [origin |-> o, target |-> t]]
      /\ relay[b].origin = NONE
      /\ UNCHANGED <<running, replies>>
      /\ queue' = queue \/ queue' = [queue EXCEPT ![t] = Append(@, Out(b))]
  BY DEF Call, Unused, Out
<1>2. relay'[b].origin = o /\ relay'[b].target = t
  BY <1>1 DEF HomeInv, Typed
<1>3. ~Called(b)
  BY <1>1 DEF Called, WayInv, CallsTyped
<1>4. ~Answered(b, i)'
  BY <1>1, <1>3 DEF Answered, WayInv, AllOnTheirWay
<1>5. \A u \in Thread : \A x \in DOMAIN queue[u] : queue[u][x].r # b
  BY <1>3 DEF WayInv, AllOnTheirWay, OnItsWay
<1>6. running[t] # Out(b)
  <2>1. running[t] # Nothing => running[t].r # b
    BY <1>3 DEF WayInv, AllOnTheirWay, OnItsWay
  <2>2. Out(b) \in Item /\ Out(b).r = b
    BY ItemFacts DEF Out
  <2> QED
    BY <2>1, <2>2, ItemFacts
<1>7. ~InTask(b)'
  BY <1>1, <1>2, <1>6 DEF InTask
<1>8. ASSUME NEW u \in Thread, i \in DOMAIN queue'[u], queue'[u][i].r = b
      PROVE  u = t /\ i = Len(queue[t]) + 1 /\ queue'[u][i] = Out(b)
  <2>1. queue[u] \in Seq(Item) /\ Out(b) \in Item
    BY ItemFacts DEF HomeInv, Typed, Out
  <2>2. queue'[u] = queue[u] \/ (u = t /\ queue'[u] = Append(queue[u], Out(b)))
    BY <1>1 DEF HomeInv, Typed
  <2>3. CASE queue'[u] = queue[u]
    BY <1>5, <1>8, <2>3
  <2>4. CASE u = t /\ queue'[u] = Append(queue[u], Out(b))
    <3>1. ~(i \in DOMAIN queue[u] /\ queue'[u][i] = queue[u][i])
      BY <1>5, <1>8
    <3> QED
      BY <1>8, <2>1, <2>4, <3>1, AppendPlaces
  <2> QED
    BY <2>2, <2>3, <2>4
<1>9. ~ComingBack(b, i)'
  <2>1. SUFFICES ASSUME i \in DOMAIN queue'[o], queue'[o][i] = Back(b)
                 PROVE  FALSE
    BY <1>2 DEF ComingBack
  <2> QED
    BY <1>8, <2>1, FormDiffers
<1>10. GoingOut(b, i)' => i = Len(queue[t]) + 1
  BY <1>2, <1>8, FormDiffers DEF GoingOut
<1> QED
  BY <1>4, <1>7, <1>9, <1>10 DEF Place

LEMMA CallWay ==
  ASSUME HomeInv, HomeInv', WayInv, NEW b \in Relay, NEW o \in Thread,
         NEW t \in Thread, Call(b, o, t)
  PROVE  WayInv'
<1>1. /\ relay' = [relay EXCEPT ![b] = [origin |-> o, target |-> t]]
      /\ relay[b].origin = NONE
      /\ UNCHANGED <<running, replies>>
      /\ \/ queue' = queue /\ calls' = calls
         \/ /\ queue' = [queue EXCEPT ![t] = Append(@, Out(b))]
            /\ calls' = Append(calls, b)
  BY DEF Call, Unused, Out
<1>2. /\ calls \in Seq(Relay)
      /\ \A k \in DOMAIN calls : Called(calls[k]) /\ calls[k] \in Relay
  BY DEF WayInv, CallsTyped, Called
<1>3. \A k \in DOMAIN calls : calls[k] # b /\ relay'[calls[k]] = relay[calls[k]]
  <2> TAKE k \in DOMAIN calls
  <2>1. 1 \in 1..4 /\ 1 \in Nat
    OBVIOUS
  <2> QED
    BY <1>2, <2>1, CallPlaces
<1>4. /\ calls' \in Seq(Relay)
      /\ \A k \in DOMAIN calls : k \in DOMAIN calls' /\ calls'[k] = calls[k]
      /\ \A k \in DOMAIN calls' :
           \/ k \in DOMAIN calls
           \/ k = Len(calls) + 1 /\ calls'[k] = b /\ calls' = Append(calls, b)
  BY <1>1, <1>2
<1>5. relay'[b] \in [origin : Thread, target : Thread]
  BY <1>1 DEF HomeInv, Typed
<1>6. CallsTyped'
  <2>1. \A k, l \in DOMAIN calls' : calls'[k] = calls'[l] => k = l
    BY <1>3, <1>4 DEF WayInv, CallsTyped
  <2>2. \A k \in DOMAIN calls' : relay'[calls'[k]] \in [origin : Thread, target : Thread]
    BY <1>3, <1>4, <1>5 DEF WayInv, CallsTyped
  <2> QED
    BY <1>4, <2>1, <2>2 DEF CallsTyped
<1>7. \A r : Called(r) => \E k \in DOMAIN calls' : calls'[k] = r
  BY <1>4 DEF Called
<1>8. AllOnTheirWay'
  <2>1. ASSUME NEW th \in Thread, NEW i \in DOMAIN queue'[th]
        PROVE  OnItsWay(queue[th][i], th)'
    <3>1. queue[th] \in Seq(Item) /\ Out(b) \in Item
      BY ItemFacts DEF HomeInv, Typed, Out
    <3>2. \/ queue'[th] = queue[th]
          \/ /\ th = t /\ queue'[th] = Append(queue[th], Out(b))
             /\ calls' = Append(calls, b)
      BY <1>1 DEF HomeInv, Typed
    <3>3. ASSUME i \in DOMAIN queue[th], queue'[th][i] = queue[th][i]
          PROVE  OnItsWay(queue[th][i], th)'
      <4>1. Called(queue[th][i].r)
            /\ (queue[th][i].leg = "Run" => relay[queue[th][i].r].target = th)
        BY <3>3 DEF WayInv, AllOnTheirWay, OnItsWay
      <4>2. relay'[queue[th][i].r] = relay[queue[th][i].r]
        BY <1>3, <4>1 DEF Called
      <4> QED
        BY <1>7, <3>3, <4>1, <4>2 DEF OnItsWay, Called
    <3>4. ASSUME th = t, calls' = Append(calls, b), queue'[th][i] = Out(b)
          PROVE  OnItsWay(queue[th][i], th)'
      <4>1. Len(calls) + 1 \in DOMAIN calls' /\ calls'[Len(calls) + 1] = b
        BY <1>2, <3>4
      <4>2. \E k \in DOMAIN calls' : calls'[k] = b
        BY <4>1
      <4>3. relay'[b].target = th
        BY <1>1, <3>4 DEF HomeInv, Typed
      <4> QED
        BY <3>4, <4>2, <4>3, FormDiffers DEF OnItsWay, Called
    <3>5. CASE queue'[th] = queue[th]
      BY <3>3, <3>5
    <3>6. CASE /\ th = t /\ queue'[th] = Append(queue[th], Out(b))
               /\ calls' = Append(calls, b)
      BY <3>1, <3>3, <3>4, <3>6, AppendPlaces
    <3> QED
      BY <3>2, <3>5, <3>6
  <2>2. ASSUME NEW th \in Thread, running'[th] # Nothing
        PROVE  OnItsWay(running[th], th)'
    <3>1. Called(running[th].r)
          /\ (running[th].leg = "Run" => relay[running[th].r].target = th)
      BY <1>1, <2>2 DEF WayInv, AllOnTheirWay, OnItsWay
    <3>2. relay'[running[th].r] = relay[running[th].r]
      BY <1>3, <3>1 DEF Called
    <3> QED
      BY <1>1, <1>7, <3>1, <3>2 DEF OnItsWay, Called
  <2>3. \A i \in DOMAIN replies' : Called(replies[i])'
    BY <1>1, <1>7 DEF WayInv, AllOnTheirWay, Called
  <2> QED
    BY <2>1, <2>2, <2>3 DEF AllOnTheirWay
<1>9. InOrder'
  <2> SUFFICES ASSUME NEW k \in DOMAIN calls', NEW l \in DOMAIN calls',
                      relay'[calls'[k]] = relay'[calls'[l]],
                      NEW m \in 1..4, NEW n \in 1..4, NEW i \in Nat, NEW j \in Nat,
                      Place(calls[k], m, i)', Place(calls[l], n, j)',
                      Ahead(m, i, n, j)
               PROVE  k < l
    BY DEF InOrder, Ahead
  <2>1. PICK r \in Relay : r = calls'[k]
    BY <1>4
  <2>2. PICK s \in Relay : s = calls'[l]
    BY <1>4
  <2>3. Place(r, m, i)' /\ Place(s, n, j)'
    BY <2>1, <2>2 DEF Place, GoingOut, InTask, ComingBack, Answered
  <2> DEFINE len == Len(queue[t])
             c == Len(calls)
  <2>4. len \in Nat /\ c \in Nat /\ DOMAIN calls = 1..c
    BY <1>2 DEF HomeInv, Typed
  <2>5. CASE k \in DOMAIN calls /\ l \in DOMAIN calls
    <3>1. r = calls[k] /\ s = calls[l] /\ Called(r) /\ Called(s)
      BY <1>2, <1>4, <2>1, <2>2, <2>5
    <3>2. Place(r, m, i) /\ Place(s, n, j)
      BY <2>3, <3>1, CallPlaces
    <3>3. relay[r] = relay[s]
      BY <1>3, <1>4, <2>5, <3>1
    <3>4. Place(calls[k], m, i) /\ Place(calls[l], n, j)
      BY <3>1, <3>2
    <3> QED
      BY <2>5, <3>1, <3>3, <3>4 DEF WayInv, InOrder
  <2>6. CASE k \in DOMAIN calls /\ l \notin DOMAIN calls
    BY <1>4, <2>4, <2>6
  <2>7. CASE k \notin DOMAIN calls
    <3>1. r = b
      BY <1>4, <2>1, <2>7
    <3>2. m = 1 /\ i = len + 1
      BY <2>3, <3>1, CallLast
    <3>3. n = 1 /\ i < j
      BY <3>2 DEF Ahead
    <3>4. queue'[t] = Append(queue[t], Out(b)) /\ queue[t] \in Seq(Item) /\ Out(b) \in Item
      BY <1>1, <1>4, <2>7, ItemFacts DEF HomeInv, Typed, Out
    <3>5. relay'[s] = relay'[r] /\ relay'[s].target = t
      BY <1>1, <2>1, <2>2, <3>1 DEF HomeInv, Typed
    <3>6. j \in DOMAIN queue'[t]
      BY <2>3, <3>3, <3>5, PlaceIsNext DEF GoingOut
    <3>7. j <= len + 1
      BY <3>4, <3>6, AppendPlaces
    <3> QED
      BY <2>4, <3>2, <3>3, <3>7
  <2> QED
    BY <2>5, <2>6, <2>7
<1> QED
  BY <1>6, <1>8, <1>9 DEF WayInv

\* What moves is about the same relays.
LEMMA TakesWay ==
  ASSUME HomeInv, AllOnTheirWay, NEW th \in Thread, NEW leg, Takes(th, leg),
         calls' = calls, relay' = relay,
         \A i \in DOMAIN replies' : \/ i \in DOMAIN replies /\ replies'[i] = replies[i]
                                    \/ replies'[i] = Head(queue[th]).r
  PROVE  AllOnTheirWay'
<1>1. queue[th] \in Seq(Item) /\ queue[th] # <<>>
  BY DEF HomeInv, Typed, Takes
<1>2. /\ queue' = [queue EXCEPT ![th] = Tail(@)]
      /\ running' = [running EXCEPT ![th] = Head(queue[th])]
      /\ queue \in [Thread -> Seq(Item)]
      /\ running \in [Thread -> Item \cup {Nothing}]
  BY DEF Takes, HomeInv, Typed
<1>3. \A it, u : OnItsWay(it, u) => Called(it.r)
                   /\ (it.leg = "Run" => relay[it.r].target = u)
  BY DEF OnItsWay
<1>4. \A it, u : OnItsWay(it, u)' <=> OnItsWay(it, u)
  BY DEF OnItsWay, Called
<1>5. \A i \in DOMAIN queue[th] : OnItsWay(queue[th][i], th)
  BY DEF AllOnTheirWay
<1>6. OnItsWay(Head(queue[th]), th)
  BY <1>1, <1>5, TailItems
<1>7. ASSUME NEW u \in Thread, NEW i \in DOMAIN queue'[u]
      PROVE  OnItsWay(queue[u][i], u)'
  <2>1. CASE u = th
    <3>1. queue'[u] = Tail(queue[th])
      BY <1>2, <2>1
    <3>2. i + 1 \in DOMAIN queue[th] /\ queue'[u][i] = queue[th][i + 1]
      BY <1>1, <3>1, TailItems
    <3> QED
      BY <1>5, <2>1, <3>2 DEF OnItsWay, Called
  <2>2. CASE u # th
    <3>1. queue'[u] = queue[u]
      BY <1>2, <2>2
    <3> QED
      BY <3>1 DEF AllOnTheirWay, OnItsWay, Called
  <2> QED
    BY <2>1, <2>2
<1>8. ASSUME NEW u \in Thread, running'[u] # Nothing
      PROVE  OnItsWay(running[u], u)'
  <2>1. running'[u] = running[u] \/ (u = th /\ running'[u] = Head(queue[th]))
    BY <1>2
  <2> QED
    BY <1>6, <1>8, <2>1 DEF AllOnTheirWay, OnItsWay, Called
<1>9. \A i \in DOMAIN replies' : Called(replies[i])'
  BY <1>6 DEF AllOnTheirWay, OnItsWay, Called
<1> QED
  BY <1>7, <1>8, <1>9 DEF AllOnTheirWay

LEMMA TaskRanWay ==
  ASSUME HomeInv, WayInv, NEW th \in Thread, TaskRan(th)
  PROVE  AllOnTheirWay'
<1>1. PICK b \in Relay :
           /\ running[th] = Out(b) /\ relay[b].target = th
           /\ relay[b] \in [origin : Thread, target : Thread]
           /\ running' = [running EXCEPT ![th] = Nothing]
           /\ queue' = IF relay[b].origin \in alive
                       THEN [queue EXCEPT ![relay[b].origin] = Append(@, Back(b))]
                       ELSE queue
           /\ UNCHANGED <<alive, relay, task_gone, reply_gone, calls, replies>>
  BY TaskRanPlaces
<1>2. Called(b)
  <2>1. running[th] # Nothing /\ running[th].r = b
    <3>1. Out(b) \in Item /\ Out(b).r = b
      BY ItemFacts DEF Out
    <3> QED
      BY <1>1, <3>1, ItemFacts
  <2> QED
    BY <2>1 DEF WayInv, AllOnTheirWay, OnItsWay
<1>3. ASSUME NEW u \in Thread, NEW i \in DOMAIN queue'[u]
      PROVE  OnItsWay(queue[u][i], u)'
  <2>1. queue[u] \in Seq(Item) /\ Back(b) \in Item
    BY ItemFacts DEF HomeInv, Typed, Back
  <2>2. queue'[u] = queue[u] \/ queue'[u] = Append(queue[u], Back(b))
    BY <1>1 DEF HomeInv, Typed
  <2>3. (i \in DOMAIN queue[u] /\ queue'[u][i] = queue[u][i]) \/ queue'[u][i] = Back(b)
    BY <2>1, <2>2, AppendPlaces
  <2>4. Back(b).r = b /\ Back(b).leg # "Run"
    BY FormDiffers
  <2> QED
    BY <1>1, <1>2, <2>3, <2>4 DEF WayInv, AllOnTheirWay, OnItsWay, Called
<1>4. ASSUME NEW u \in Thread, running'[u] # Nothing
      PROVE  OnItsWay(running[u], u)'
  <2>1. running'[u] = running[u]
    BY <1>1, <1>4 DEF HomeInv, Typed
  <2> QED
    BY <1>1, <1>4, <2>1 DEF WayInv, AllOnTheirWay, OnItsWay, Called
<1>5. \A i \in DOMAIN replies' : Called(replies[i])'
  BY <1>1 DEF WayInv, AllOnTheirWay, Called
<1> QED
  BY <1>3, <1>4, <1>5 DEF AllOnTheirWay

LEMMA WayStep == HomeInv /\ HomeInv' /\ WayInv /\ [RelayNext]_relayVars => WayInv'
<1> SUFFICES ASSUME HomeInv, HomeInv', WayInv, [RelayNext]_relayVars PROVE WayInv'
  OBVIOUS
<1>1. CASE \E r \in Relay, o, t \in Thread : Call(r, o, t)
  BY <1>1, CallWay
<1>2. ASSUME calls' = calls, relay' = relay
      PROVE  CallsTyped'
  BY <1>2 DEF WayInv, CallsTyped
<1>3. ASSUME NEW th \in Thread, RunTask(th)
      PROVE  WayInv'
  <2>1. Takes(th, "Run") /\ UNCHANGED <<relay, calls, replies>>
    BY <1>3 DEF RunTask
  <2>2. AllOnTheirWay'
    BY <2>1, TakesWay DEF WayInv
  <2>3. InOrder'
    BY <1>3, RunTaskOrder
  <2> QED
    BY <1>2, <2>1, <2>2, <2>3 DEF WayInv
<1>4. ASSUME NEW th \in Thread, TaskRan(th)
      PROVE  WayInv'
  <2>1. UNCHANGED <<relay, calls>>
    BY <1>4 DEF TaskRan
  <2>2. AllOnTheirWay' /\ InOrder'
    BY <1>4, TaskRanWay, TaskRanOrder
  <2> QED
    BY <1>2, <2>1, <2>2 DEF WayInv
<1>5. ASSUME NEW th \in Thread, RunReply(th)
      PROVE  WayInv'
  <2> DEFINE b == Head(queue[th]).r
  <2>1. /\ Takes(th, "RunReplyAndSelfDestruct") /\ UNCHANGED <<relay, calls>>
        /\ replies' = Append(replies, b)
    BY <1>5 DEF RunReply
  <2>2. replies \in Seq(Relay) /\ b \in Relay
    BY <2>1, TakesStep, ItemFacts DEF HomeInv, Typed
  <2> HIDE DEF b
  <2>3. \A i \in DOMAIN replies' : \/ i \in DOMAIN replies /\ replies'[i] = replies[i]
                                   \/ replies'[i] = b
    BY <2>1, <2>2
  <2>4. AllOnTheirWay'
    BY <2>1, <2>3, TakesWay DEF WayInv, b
  <2>5. InOrder'
    BY <1>5, RunReplyOrder
  <2> QED
    BY <1>2, <2>1, <2>4, <2>5 DEF WayInv
<1>6. ASSUME NEW th \in Thread, SelfDestruct(th)
      PROVE  WayInv'
  <2>1. UNCHANGED <<queue, relay, calls, replies>>
        /\ running' = [running EXCEPT ![th] = Nothing]
    BY <1>6 DEF SelfDestruct
  <2>2. \A u \in Thread : running'[u] # Nothing => running'[u] = running[u]
    BY <2>1 DEF HomeInv, Typed
  <2>3. AllOnTheirWay'
    BY <2>1, <2>2 DEF WayInv, AllOnTheirWay, OnItsWay, Called
  <2> QED
    BY <1>2, <1>6, <2>1, <2>3, SelfDestructOrder DEF WayInv
<1>7. ASSUME NEW th \in Thread, LoopDies(th)
      PROVE  WayInv'
  <2>1. UNCHANGED <<running, relay, calls, replies>>
        /\ queue' = [queue EXCEPT ![th] = <<>>]
    BY <1>7 DEF LoopDies
  <2>2. \A u \in Thread : queue'[u] = queue[u] \/ queue'[u] = <<>>
    BY <2>1 DEF HomeInv, Typed
  <2>3. AllOnTheirWay'
    BY <2>1, <2>2 DEF WayInv, AllOnTheirWay, OnItsWay, Called
  <2> QED
    BY <1>2, <1>7, <2>1, <2>3, LoopDiesOrder DEF WayInv
<1>8. CASE UNCHANGED relayVars
  <2>1. CallsTyped' /\ AllOnTheirWay'
    BY <1>8 DEF relayVars, WayInv, CallsTyped, AllOnTheirWay, OnItsWay, Called
  <2>2. \A r, m, i : Place(r, m, i)' <=> Place(r, m, i)
    BY <1>8 DEF relayVars, Place, GoingOut, InTask, ComingBack, Answered
  <2>3. calls' = calls /\ relay' = relay
    BY <1>8 DEF relayVars
  <2>4. InOrder'
    BY <2>2, <2>3, OrderKept DEF WayInv
  <2> QED
    BY <2>1, <2>4 DEF WayInv
<1> QED
  BY <1>1, <1>3, <1>4, <1>5, <1>6, <1>7, <1>8 DEF RelayNext, LoopStep

\* What a thread takes is in its hands then.
LEMMA TakesKeeps ==
  ASSUME HomeInv, NEW th \in Thread, NEW leg, Takes(th, leg), relay' = relay,
         NEW r \in Relay, relay[r] \in [origin : Thread, target : Thread],
         Somewhere(r)
  PROVE  Somewhere(r)'
<1> DEFINE o == relay[r].origin
           t == relay[r].target
<1>1. queue[th] \in Seq(Item) /\ queue[th] # <<>> /\ running[th] = Nothing
  BY DEF HomeInv, Typed, Takes, NothingRuns
<1>2. /\ queue' = [queue EXCEPT ![th] = Tail(@)]
      /\ running' = [running EXCEPT ![th] = Head(queue[th])]
      /\ queue \in [Thread -> Seq(Item)]
      /\ running \in [Thread -> Item \cup {Nothing}]
  BY DEF Takes, HomeInv, Typed
<1>3. /\ queue'[th] = Tail(queue[th]) /\ running'[th] = queue[th][1]
      /\ \A u \in Thread : u # th => queue'[u] = queue[u] /\ running'[u] = running[u]
  BY <1>1, <1>2, TailItems
<1>4. o \in Thread /\ t \in Thread /\ relay'[r].origin = o /\ relay'[r].target = t
  OBVIOUS
<1> HIDE DEF o, t
<1>5. ASSUME NEW i \in DOMAIN queue[th], i # 1
      PROVE  i - 1 \in Nat /\ i - 1 \in DOMAIN queue'[th]
             /\ queue'[th][i - 1] = queue[th][i]
  BY <1>1, <1>3, <1>5
<1>6. Out(r) # Nothing /\ Back(r) # Nothing
  BY ItemFacts DEF Out, Back
<1>7. ASSUME NEW i \in Nat, GoingOut(r, i)
      PROVE  Somewhere(r)'
  <2>1. i \in DOMAIN queue[t] /\ queue[t][i] = Out(r)
    BY <1>7 DEF GoingOut, t
  <2>2. CASE t = th /\ i = 1
    BY <1>3, <1>4, <2>1, <2>2 DEF Somewhere, InTask
  <2>3. CASE t = th /\ i # 1
    <3>1. i - 1 \in Nat /\ GoingOut(r, i - 1)'
      BY <1>4, <1>5, <2>1, <2>3 DEF GoingOut
    <3> QED
      BY <3>1 DEF Somewhere
  <2>4. CASE t # th
    <3>1. GoingOut(r, i)'
      BY <1>3, <1>4, <2>1, <2>4 DEF GoingOut
    <3> QED
      BY <3>1 DEF Somewhere
  <2> QED
    BY <2>2, <2>3, <2>4
<1>8. ASSUME NEW i \in Nat, ComingBack(r, i)
      PROVE  Somewhere(r)'
  <2>1. i \in DOMAIN queue[o] /\ queue[o][i] = Back(r)
    BY <1>8 DEF ComingBack, o
  <2>2. CASE o = th /\ i = 1
    BY <1>3, <1>4, <2>1, <2>2 DEF Somewhere
  <2>3. CASE o = th /\ i # 1
    <3>1. i - 1 \in Nat /\ ComingBack(r, i - 1)'
      BY <1>4, <1>5, <2>1, <2>3 DEF ComingBack
    <3> QED
      BY <3>1 DEF Somewhere
  <2>4. CASE o # th
    <3>1. ComingBack(r, i)'
      BY <1>3, <1>4, <2>1, <2>4 DEF ComingBack
    <3> QED
      BY <3>1 DEF Somewhere
  <2> QED
    BY <2>2, <2>3, <2>4
<1>9. CASE InTask(r)
  <2>1. t # th /\ running[t] = Out(r)
    BY <1>1, <1>6, <1>9 DEF InTask, t
  <2> QED
    BY <1>3, <1>4, <2>1 DEF Somewhere, InTask
<1>10. CASE running[o] = Back(r)
  <2>1. o # th
    BY <1>1, <1>6, <1>10
  <2> QED
    BY <1>3, <1>4, <1>10, <2>1 DEF Somewhere
<1> QED
  BY <1>7, <1>8, <1>9, <1>10 DEF Somewhere, o

LEMMA TaskRanKeeps ==
  ASSUME HomeInv, WayInv, NEW th \in Thread, TaskRan(th), NEW r \in Relay,
         relay[r] \in [origin : Thread, target : Thread],
         relay[r].origin \in alive, Somewhere(r)
  PROVE  Somewhere(r)'
<1>1. PICK b \in Relay :
           /\ running[th] = Out(b) /\ relay[b].target = th
           /\ relay[b] \in [origin : Thread, target : Thread]
           /\ running' = [running EXCEPT ![th] = Nothing]
           /\ queue' = IF relay[b].origin \in alive
                       THEN [queue EXCEPT ![relay[b].origin] = Append(@, Back(b))]
                       ELSE queue
           /\ UNCHANGED <<alive, relay, task_gone, reply_gone, calls, replies>>
  BY TaskRanPlaces
<1> DEFINE o == relay[r].origin
           t == relay[r].target
<1>2. o \in Thread /\ t \in Thread /\ relay'[r].origin = o /\ relay'[r].target = t
  BY <1>1
<1>3. /\ queue \in [Thread -> Seq(Item)]
      /\ running \in [Thread -> Item \cup {Nothing}]
      /\ Back(b) \in Item
  BY ItemFacts DEF HomeInv, Typed, Back
<1>4. ASSUME NEW u \in Thread, NEW i \in DOMAIN queue[u]
      PROVE  i \in DOMAIN queue'[u] /\ queue'[u][i] = queue[u][i]
  <2>1. queue[u] \in Seq(Item)
    BY <1>3
  <2>2. queue'[u] = queue[u] \/ queue'[u] = Append(queue[u], Back(b))
    BY <1>1, <1>3
  <2> QED
    BY <1>3, <1>4, <2>1, <2>2, AppendKeeps
<1>5. \A u \in Thread : u # th => running'[u] = running[u]
  BY <1>1, <1>3
<1> HIDE DEF o, t
<1>6. ASSUME NEW i \in Nat, GoingOut(r, i)
      PROVE  Somewhere(r)'
  <2>1. GoingOut(r, i)'
    BY <1>2, <1>4, <1>6 DEF GoingOut, t
  <2> QED
    BY <2>1 DEF Somewhere
<1>7. ASSUME NEW i \in Nat, ComingBack(r, i)
      PROVE  Somewhere(r)'
  <2>1. ComingBack(r, i)'
    BY <1>2, <1>4, <1>7 DEF ComingBack, o
  <2> QED
    BY <2>1 DEF Somewhere
<1>8. CASE running[o] = Back(r)
  <2>1. o # th
    BY <1>1, <1>8, FormDiffers
  <2> QED
    BY <1>2, <1>5, <1>8, <2>1 DEF Somewhere
<1>9. CASE InTask(r) /\ t # th
  BY <1>2, <1>5, <1>9 DEF InTask, Somewhere, t
<1>10. CASE InTask(r) /\ t = th
  <2>1. r = b
    BY <1>1, <1>10, FormDiffers DEF InTask, t
  <2>2. o \in alive /\ queue' = [queue EXCEPT ![o] = Append(@, Back(r))]
    BY <1>1, <2>1 DEF o
  <2>3. queue'[o] = Append(queue[o], Back(r)) /\ queue[o] \in Seq(Item)
    BY <1>2, <1>3, <2>2
  <2>4. \E i \in Nat : ComingBack(r, i)'
    <3> DEFINE i == Len(queue[o]) + 1
    <3>1. Back(r) \in Item
      BY ItemFacts DEF Back
    <3>2. i \in Nat /\ i \in DOMAIN queue'[o] /\ queue'[o][i] = Back(r)
      BY <2>3, <3>1, AppendKeeps
    <3> QED
      BY <1>2, <3>2 DEF ComingBack, o
  <2> QED
    BY <2>4 DEF Somewhere
<1> QED
  BY <1>6, <1>7, <1>8, <1>9, <1>10 DEF Somewhere, o

LEMMA CallKeeps ==
  ASSUME HomeInv, KeptInv, NEW b \in Relay, NEW o \in Thread, NEW t \in Thread,
         Call(b, o, t)
  PROVE  KeptInv'
<1>1. /\ relay' = [relay EXCEPT ![b] = [origin |-> o, target |-> t]]
      /\ o \in alive /\ alive' = alive
      /\ UNCHANGED <<running, replies>>
      /\ queue' = queue \/ queue' = [queue EXCEPT ![t] = Append(@, Out(b))]
      /\ IF t \in alive
         THEN queue' = [queue EXCEPT ![t] = Append(@, Out(b))] /\ reply_gone' = reply_gone
         ELSE reply_gone' = [reply_gone EXCEPT ![b] = o]
  BY DEF Call, Out
<1>2. /\ queue \in [Thread -> Seq(Item)] /\ alive \subseteq Thread
      /\ reply_gone \in [Relay -> Thread \cup {NONE}] /\ Out(b) \in Item
  BY ItemFacts DEF HomeInv, Typed, Out
<1>3. ASSUME NEW u \in Thread, NEW i \in DOMAIN queue[u]
      PROVE  i \in DOMAIN queue'[u] /\ queue'[u][i] = queue[u][i]
  <2>1. queue[u] \in Seq(Item)
    BY <1>2
  <2>2. queue'[u] = queue[u] \/ queue'[u] = Append(queue[u], Out(b))
    BY <1>1, <1>2
  <2> QED
    BY <1>2, <1>3, <2>1, <2>2, AppendKeeps
<1> SUFFICES ASSUME NEW r \in Relay, relay'[r].origin # NONE, reply_gone'[r] = NONE,
                    relay'[r].origin \in alive', relay'[r].target \in alive'
             PROVE  Somewhere(r)'
  BY DEF KeptInv
<1>4. CASE r = b
  <2>1. relay'[b].origin = o /\ relay'[b].target = t
    BY <1>1 DEF HomeInv, Typed
  <2>2. queue'[t] = Append(queue[t], Out(b)) /\ queue[t] \in Seq(Item)
    BY <1>1, <1>2, <1>4, <2>1
  <2>3. \E i \in Nat : GoingOut(b, i)'
    <3> DEFINE i == Len(queue[t]) + 1
    <3>1. i \in Nat /\ i \in DOMAIN queue'[t] /\ queue'[t][i] = Out(b)
      BY <1>2, <2>2, AppendKeeps
    <3> QED
      BY <2>1, <3>1 DEF GoingOut
  <2> QED
    BY <1>4, <2>3 DEF Somewhere
<1>5. CASE r # b
  <2>1. relay'[r] = relay[r] /\ reply_gone'[r] = reply_gone[r]
    BY <1>1, <1>2, <1>5 DEF HomeInv, Typed
  <2>2. relay[r].origin \in Thread /\ relay[r].target \in Thread
    BY <1>1, <1>2, <2>1
  <2>3. Somewhere(r)
    BY <1>1, <2>1 DEF KeptInv
  <2>4. ASSUME NEW i \in Nat
        PROVE  /\ GoingOut(r, i) => GoingOut(r, i)'
               /\ ComingBack(r, i) => ComingBack(r, i)'
    BY <1>3, <2>1, <2>2 DEF GoingOut, ComingBack
  <2>5. /\ InTask(r) => InTask(r)'
        /\ running'[relay'[r].origin] = running[relay[r].origin]
    BY <1>1, <2>1 DEF InTask
  <2> QED
    BY <2>3, <2>4, <2>5 DEF Somewhere
<1> QED
  BY <1>4, <1>5

LEMMA KeptStep ==
  HomeInv /\ WayInv /\ KeptInv /\ [RelayNext]_relayVars => KeptInv'
<1> SUFFICES ASSUME HomeInv, WayInv, KeptInv, [RelayNext]_relayVars PROVE KeptInv'
  OBVIOUS
<1>1. CASE \E r \in Relay, o, t \in Thread : Call(r, o, t)
  BY <1>1, CallKeeps
<1>2. ASSUME NEW r \in Relay, relay[r].origin \in alive, relay[r].target \in alive
      PROVE  relay[r] \in [origin : Thread, target : Thread]
  BY <1>2 DEF HomeInv, Typed
<1>3. ASSUME NEW th \in Thread, RunTask(th) \/ RunReply(th)
      PROVE  KeptInv'
  <2>1. /\ \E leg : Takes(th, leg)
        /\ UNCHANGED <<alive, relay, reply_gone>>
    BY <1>3 DEF RunTask, RunReply
  <2> QED
    BY <1>2, <2>1, TakesKeeps DEF KeptInv
<1>4. ASSUME NEW th \in Thread, TaskRan(th)
      PROVE  KeptInv'
  <2>1. UNCHANGED <<alive, relay, reply_gone>>
    BY <1>4 DEF TaskRan
  <2> QED
    BY <1>2, <1>4, <2>1, TaskRanKeeps DEF KeptInv
<1>5. ASSUME NEW th \in Thread, SelfDestruct(th)
      PROVE  KeptInv'
  <2> DEFINE b == running[th].r
  <2>1. running[th].leg = "RunReplyAndSelfDestruct" /\ running[th] # Nothing
    BY <1>5 DEF SelfDestruct, Nothing
  <2>2. running[th] = Back(b) /\ b \in Relay
    BY <2>1, ItemForm, ItemFacts DEF HomeInv, Typed
  <2>3. /\ UNCHANGED <<alive, queue, relay>>
        /\ running' = [running EXCEPT ![th] = Nothing]
        /\ reply_gone' = [reply_gone EXCEPT ![b] = th]
    BY <1>5 DEF SelfDestruct
  <2> HIDE DEF b
  <2> SUFFICES ASSUME NEW r \in Relay, relay'[r].origin # NONE, reply_gone'[r] = NONE,
                      relay'[r].origin \in alive', relay'[r].target \in alive'
               PROVE  Somewhere(r)'
    BY DEF KeptInv
  <2>4. r # b
    BY <2>2, <2>3 DEF HomeInv, Typed
  <2>5. reply_gone[r] = NONE
    BY <2>3, <2>4 DEF HomeInv, Typed
  <2>6. Somewhere(r) /\ relay[r] \in [origin : Thread, target : Thread]
    BY <1>2, <2>3, <2>5 DEF KeptInv
  <2>7. /\ running[th] # Out(r) /\ running[th] # Back(r)
    BY <2>2, <2>4, FormDiffers
  <2>8. \A u \in Thread : u # th => running'[u] = running[u]
    BY <2>3 DEF HomeInv, Typed
  <2>9. InTask(r) => InTask(r)'
    BY <2>3, <2>6, <2>7, <2>8 DEF InTask
  <2>10. running[relay[r].origin] = Back(r) => running'[relay'[r].origin] = Back(r)
    BY <2>3, <2>6, <2>7, <2>8
  <2>11. \A i \in Nat : /\ GoingOut(r, i) => GoingOut(r, i)'
                        /\ ComingBack(r, i) => ComingBack(r, i)'
    BY <2>3 DEF GoingOut, ComingBack
  <2> QED
    BY <2>6, <2>9, <2>10, <2>11 DEF Somewhere
<1>6. ASSUME NEW th \in Thread, LoopDies(th)
      PROVE  KeptInv'
  <2>1. /\ UNCHANGED <<running, relay, reply_gone>> /\ alive' = alive \ {th}
        /\ queue' = [queue EXCEPT ![th] = <<>>]
    BY <1>6 DEF LoopDies
  <2> SUFFICES ASSUME NEW r \in Relay, relay'[r].origin # NONE, reply_gone'[r] = NONE,
                      relay'[r].origin \in alive', relay'[r].target \in alive'
               PROVE  Somewhere(r)'
    BY DEF KeptInv
  <2>2. Somewhere(r) /\ relay[r] \in [origin : Thread, target : Thread]
    BY <1>2, <2>1 DEF KeptInv
  <2>3. /\ queue'[relay[r].origin] = queue[relay[r].origin]
        /\ queue'[relay[r].target] = queue[relay[r].target]
    BY <2>1, <2>2 DEF HomeInv, Typed
  <2>4. \A i \in Nat : /\ GoingOut(r, i) => GoingOut(r, i)'
                       /\ ComingBack(r, i) => ComingBack(r, i)'
    BY <2>1, <2>3 DEF GoingOut, ComingBack
  <2>5. InTask(r) => InTask(r)'
    BY <2>1 DEF InTask
  <2> QED
    BY <2>1, <2>2, <2>4, <2>5 DEF Somewhere
<1>7. CASE UNCHANGED relayVars
  BY <1>7 DEF relayVars, KeptInv, Somewhere, GoingOut, InTask, ComingBack
<1> QED
  BY <1>1, <1>3, <1>4, <1>5, <1>6, <1>7 DEF RelayNext, LoopStep

\* The answers of one thread's calls to one target come in the order of the calls,
\* each once, and a relay is lost only with one of its loops
\* (post_task_and_reply_impl.cc:40-86), for every number of threads and calls.
THEOREM RelayIsSound == RelaySpec => []RelaySound
<1>1. HomeInv /\ WayInv => RelayTypeOK
  <2> SUFFICES ASSUME HomeInv, WayInv PROVE RelayTypeOK
    OBVIOUS
  <2>1. IsInjective(calls)
    BY DEF WayInv, CallsTyped, IsInjective
  <2>2. ASSUME NEW i \in DOMAIN replies, NEW j \in DOMAIN replies,
               replies[i] = replies[j], i < j
        PROVE  FALSE
    <3>1. PICK k \in DOMAIN calls : calls[k] = replies[i]
      BY DEF WayInv, AllOnTheirWay, Called
    <3>2. i \in Nat /\ j \in Nat
      BY DEF HomeInv, Typed
    <3>3. Place(calls[k], 4, i) /\ Place(calls[k], 4, j) /\ Ahead(4, i, 4, j)
      BY <2>2, <3>1 DEF Place, Answered, Ahead
    <3>4. k < k
      BY <3>2, <3>3 DEF WayInv, InOrder
    <3>5. k \in Nat
      BY DEF WayInv, CallsTyped
    <3> QED
      BY <3>4, <3>5
  <2>3. IsInjective(replies)
    <3>1. \A i \in DOMAIN replies : i \in Nat
      BY DEF HomeInv, Typed
    <3>2. \A i, j \in DOMAIN replies : replies[i] = replies[j] => ~(i < j) /\ ~(j < i)
      BY <2>2
    <3>3. \A i, j \in DOMAIN replies : replies[i] = replies[j] => i = j
      BY <3>1, <3>2
    <3> QED
      BY <3>3 DEF IsInjective
  <2>4. calls \in Seq(Relay)
    BY DEF WayInv, CallsTyped
  <2> QED
    BY <2>1, <2>3, <2>4 DEF HomeInv, Typed, RelayTypeOK
<1>2. HomeInv /\ WayInv => RepliesInOrder
  <2> SUFFICES ASSUME HomeInv, WayInv, NEW i \in DOMAIN replies, NEW j \in DOMAIN replies,
                      i < j, relay[replies[i]] = relay[replies[j]]
               PROVE  \E k, l \in DOMAIN calls :
                        k < l /\ calls[k] = replies[i] /\ calls[l] = replies[j]
    BY DEF RepliesInOrder
  <2>1. PICK k \in DOMAIN calls : calls[k] = replies[i]
    BY DEF WayInv, AllOnTheirWay, Called
  <2>2. PICK l \in DOMAIN calls : calls[l] = replies[j]
    BY DEF WayInv, AllOnTheirWay, Called
  <2>3. i \in Nat /\ j \in Nat
    BY DEF HomeInv, Typed
  <2>4. Place(calls[k], 4, i) /\ Place(calls[l], 4, j) /\ Ahead(4, i, 4, j)
    BY <2>1, <2>2 DEF Place, Answered, Ahead
  <2>5. k < l
    BY <2>1, <2>2, <2>3, <2>4 DEF WayInv, InOrder
  <2> QED
    BY <2>1, <2>2, <2>5
<1>3. HomeInv /\ KeptInv => LeaksOnlyWithDeadLoop
  <2> SUFFICES ASSUME HomeInv, KeptInv, NEW r \in Relay, Leaked(r),
                      {relay[r].origin, relay[r].target} \subseteq alive
               PROVE  FALSE
    BY DEF LeaksOnlyWithDeadLoop
  <2>1. Somewhere(r) /\ relay[r].origin \in Thread /\ relay[r].target \in Thread
    BY DEF KeptInv, Leaked, Unused, HomeInv, Typed
  <2>2. \A th \in Thread : /\ running[th] # Out(r) /\ running[th] # Back(r)
                           /\ \A i \in DOMAIN queue[th] :
                                queue[th][i] # Out(r) /\ queue[th][i] # Back(r)
    BY FormDiffers DEF Leaked
  <2> QED
    BY <2>1, <2>2 DEF Somewhere, GoingOut, InTask, ComingBack
<1>4. RelaySpec => [](HomeInv /\ WayInv /\ KeptInv)
  BY HomeInit, WayInit, HomeStep, WayStep, KeptStep, PTL DEF RelaySpec
<1> QED
  BY <1>1, <1>2, <1>3, <1>4, PTL DEF RelaySound

-----------------------------------------------------------------------------
(* Weak pointers.                                                            *)

Flags == [thread : PtrThread \cup {"gone"}, is_valid : BOOLEAN]
Pointers == [flag : Nat, by : PtrThread \cup {"gone"}, calls : Nat]

PtrTyped ==
  /\ cancelable \in BOOLEAN /\ returning \in BOOLEAN
  /\ owner \in PtrThread \cup {"gone"}
  /\ flags \in Seq(Flags)
  /\ flag_ \in 0..Len(flags)
  /\ pointers \subseteq Pointers
  /\ \A p \in pointers : p.flag \in 1..Len(flags)
  /\ forwarder_ \in {0, flag_} /\ (~cancelable => forwarder_ = 0)
  /\ callback_ \in Nat

\* A reference that is being returned is one more the object's thread holds.
ReturnedIsSafe == returning => flag_ # 0 /\ owner = flags[flag_].thread

PtrInv == PtrTyped /\ ReturnedIsSafe /\ PtrSound

LEMMA PtrInitInv == PtrInit => PtrInv
<1> SUFFICES ASSUME PtrInit PROVE PtrInv
  OBVIOUS
<1>1. pointers = {} /\ flag_ = 0 /\ flags = <<>> /\ returning = FALSE
  BY DEF PtrInit
<1>2. flags \in Seq(Flags) /\ flag_ \in 0..Len(flags)
  BY <1>1
<1>3. forwarder_ = 0 /\ callback_ = 0 /\ cancelable \in BOOLEAN /\ owner \in PtrThread
  BY DEF PtrInit
<1>4. PtrTyped
  BY <1>1, <1>2, <1>3 DEF PtrTyped
<1> QED
  BY <1>1, <1>4 DEF PtrInv, ReturnedIsSafe, PtrSound, ValidIsSafe, InvalidateOnItsThread,
                    HasRefs, ForwardsToItsCallback

\* What Invalidate does to the flags: those that pointers refer to are all invalid.
LEMMA InvalidatedFacts ==
  ASSUME PtrInv
  PROVE  /\ Invalidated \in Seq(Flags) /\ Len(Invalidated) = Len(flags)
         /\ \A p \in pointers : ~Invalidated[p.flag].is_valid
<1>1. CASE flag_ = 0
  <2>1. Invalidated = flags
    BY <1>1 DEF Invalidated
  <2> QED
    BY <1>1, <2>1 DEF PtrInv, PtrTyped, PtrSound, ValidIsSafe
<1>2. CASE flag_ # 0
  <2>1. Invalidated = [flags EXCEPT ![flag_].is_valid = FALSE]
    BY <1>2 DEF Invalidated
  <2>2. flag_ \in 1..Len(flags) /\ flags \in Seq(Flags)
    BY <1>2 DEF PtrInv, PtrTyped
  <2>3. flags[flag_] \in Flags
    BY <2>2
  <2>4. [flags[flag_] EXCEPT !.is_valid = FALSE] \in Flags
    BY <2>3 DEF Flags
  <2>5. Invalidated \in Seq(Flags) /\ Len(Invalidated) = Len(flags)
    BY <2>1, <2>2, <2>4
  <2>6. ~Invalidated[flag_].is_valid
    BY <2>1, <2>2, <2>3 DEF Flags
  <2>7. \A i \in 1..Len(flags) : i # flag_ => Invalidated[i] = flags[i]
    BY <2>1, <2>2
  <2> QED
    BY <2>5, <2>6, <2>7 DEF PtrInv, PtrTyped, PtrSound, ValidIsSafe
<1> QED
  BY <1>1, <1>2

\* A new flag at the end of flags whose pointers are all invalid.
LEMMA AppendFlag ==
  ASSUME NEW fs \in Seq(Flags), owner \in PtrThread \cup {"gone"}
  PROVE  /\ Append(fs, NewFlag) \in Seq(Flags)
         /\ Len(Append(fs, NewFlag)) = Len(fs) + 1
         /\ \A i \in 1..Len(fs) : Append(fs, NewFlag)[i] = fs[i]
         /\ Append(fs, NewFlag)[Len(fs) + 1] = NewFlag
         /\ NewFlag.thread = owner
<1>1. NewFlag \in Flags /\ NewFlag.thread = owner
  BY DEF NewFlag, Flags
<1> QED
  BY <1>1

\* InvalidateWeakPtrs, the destructor, Cancel.
LEMMA InvalidateKeeps ==
  ASSUME PtrInv, flags' = Invalidated, flag_' = 0, ~returning,
         UNCHANGED <<cancelable, returning, pointers>>,
         owner' \in {owner, "gone"}, forwarder_' = 0, callback_' \in {0, callback_}
  PROVE  PtrInv'
<1>1. /\ flags' \in Seq(Flags) /\ Len(flags') = Len(flags)
      /\ \A p \in pointers' : ~flags'[p.flag].is_valid
  BY InvalidatedFacts
<1>2. PtrTyped'
  BY <1>1 DEF PtrInv, PtrTyped
<1>3. PtrSound'
  BY <1>1 DEF PtrSound, ValidIsSafe, InvalidateOnItsThread, HasRefs, ForwardsToItsCallback
<1> QED
  BY <1>2, <1>3 DEF PtrInv, ReturnedIsSafe

LEMMA GetFirstRefKeeps ==
  ASSUME PtrInv, GetFirstRef
  PROVE  PtrInv'
<1> DEFINE new == Len(flags) + 1
           p == [flag |-> new, by |-> owner, calls |-> 0]
<1>1. /\ ~returning /\ ~HasRefs
      /\ flags' = Append(flags, NewFlag) /\ flag_' = new
      /\ pointers' = pointers \cup {p}
      /\ UNCHANGED <<owner, returning, cancelable, forwarder_, callback_>>
  BY DEF GetFirstRef, Usable, cancelableVars
<1>2. /\ flags' \in Seq(Flags) /\ Len(flags') = new
      /\ \A i \in 1..Len(flags) : flags'[i] = flags[i]
      /\ flags'[new].thread = owner
  BY <1>1, AppendFlag DEF PtrInv, PtrTyped
<1>3. Len(flags) \in Nat /\ new \in 1..new /\ new # 0 /\ 1..Len(flags) \subseteq 1..new
      /\ new \in 0..new
  BY DEF PtrInv, PtrTyped
<1>4. p \in Pointers /\ p.flag = new /\ p.calls = 0
  BY <1>3 DEF Pointers, PtrInv, PtrTyped
<1>5. forwarder_ = 0
  BY <1>1 DEF PtrInv, PtrTyped, HasRefs
<1>6. \A q \in pointers : ~flags[q.flag].is_valid
  <2>1. \A q \in pointers : flag_ # 0 => q.flag # flag_
    BY <1>1 DEF HasRefs
  <2>2. \A q \in pointers : q.flag # 0
    BY DEF PtrInv, PtrTyped
  <2> QED
    BY <2>1, <2>2 DEF PtrInv, PtrSound, ValidIsSafe
<1> HIDE DEF p, new
<1>7. \A q \in pointers : flags'[q.flag] = flags[q.flag]
  BY <1>2 DEF PtrInv, PtrTyped
<1>8. PtrTyped'
  BY <1>1, <1>2, <1>3, <1>4, <1>5 DEF PtrInv, PtrTyped
<1>9. PtrSound'
  BY <1>1, <1>2, <1>4, <1>6, <1>7
  DEF PtrSound, ValidIsSafe, InvalidateOnItsThread, HasRefs, ForwardsToItsCallback
<1> QED
  BY <1>1, <1>8, <1>9 DEF PtrInv, ReturnedIsSafe

LEMMA ResetKeepsPointers ==
  ASSUME PtrInv, Reset
  PROVE  PtrInv'
<1> DEFINE new == Len(flags) + 1
<1>1. /\ ~returning /\ cancelable
      /\ flags' = Append(Invalidated, NewFlag) /\ flag_' = new /\ forwarder_' = flag_'
      /\ callback_' \in 1..MaxCallbacks
      /\ UNCHANGED <<cancelable, owner, returning, pointers>>
  BY DEF Reset, Usable
<1>2. /\ flags' \in Seq(Flags) /\ Len(flags') = new
      /\ \A i \in 1..Len(flags) : flags'[i] = Invalidated[i]
      /\ flags'[new].thread = owner
  BY <1>1, AppendFlag, InvalidatedFacts DEF PtrInv, PtrTyped
<1>3. Len(flags) \in Nat /\ new # 0 /\ 1..Len(flags) \subseteq 1..new /\ new \in 0..new
  BY DEF PtrInv, PtrTyped
<1> HIDE DEF new
<1>4. \A q \in pointers' : ~flags'[q.flag].is_valid
  BY <1>1, <1>2, InvalidatedFacts DEF PtrInv, PtrTyped
<1>5. PtrTyped'
  BY <1>1, <1>2, <1>3 DEF PtrInv, PtrTyped
<1>6. PtrSound'
  BY <1>1, <1>2, <1>4
  DEF PtrSound, ValidIsSafe, InvalidateOnItsThread, HasRefs, ForwardsToItsCallback
<1> QED
  BY <1>1, <1>5, <1>6 DEF PtrInv, ReturnedIsSafe

\* One more pointer to the flag of the object, on its thread.
LEMMA OneMorePointer ==
  ASSUME PtrInv, NEW n \in {0, callback_},
         flag_ # 0, owner = flags[flag_].thread,
         pointers' = pointers \cup {[flag |-> flag_, by |-> owner, calls |-> n]},
         returning' \in {returning, FALSE},
         UNCHANGED <<owner, flags, flag_, cancelableVars>>
  PROVE  PtrInv'
<1> DEFINE p == [flag |-> flag_, by |-> owner, calls |-> n]
<1>1. p \in Pointers /\ p.flag = flag_ /\ p.calls \in {0, callback_} /\ flag_ \in 1..Len(flags)
  BY DEF Pointers, PtrInv, PtrTyped
<1>2. UNCHANGED <<cancelable, forwarder_, callback_>> /\ pointers' = pointers \cup {p}
  BY DEF cancelableVars
<1> HIDE DEF p
<1>3. PtrTyped'
  BY <1>1, <1>2 DEF PtrInv, PtrTyped
<1>4. PtrSound'
  BY <1>1, <1>2
  DEF PtrInv, PtrSound, ValidIsSafe, InvalidateOnItsThread, HasRefs, ForwardsToItsCallback
<1> QED
  BY <1>3, <1>4 DEF PtrInv, ReturnedIsSafe

\* Pointers that are copied and dropped on any thread.
LEMMA PointersKeep ==
  ASSUME PtrInv,
         \A q \in pointers' : q \in Pointers
                              /\ \E p \in pointers : q.flag = p.flag /\ q.calls = p.calls,
         UNCHANGED <<owner, flags, flag_, returning, cancelableVars>>
  PROVE  PtrInv'
<1>1. UNCHANGED <<cancelable, forwarder_, callback_>>
  BY DEF cancelableVars
<1>2. PtrTyped'
  BY <1>1 DEF PtrInv, PtrTyped
<1>3. PtrSound'
  <2>1. ValidIsSafe' /\ ForwardsToItsCallback'
    BY <1>1 DEF PtrInv, PtrSound, ValidIsSafe, ForwardsToItsCallback
  <2>2. HasRefs' => HasRefs
    BY <1>1 DEF HasRefs
  <2> QED
    BY <2>1, <2>2 DEF PtrInv, PtrSound, InvalidateOnItsThread
<1> QED
  BY <1>2, <1>3 DEF PtrInv, ReturnedIsSafe

LEMMA CopyPointerKeeps ==
  ASSUME PtrInv, NEW t \in PtrThread, CopyPointer(t)
  PROVE  PtrInv'
<1>1. PICK p \in pointers : pointers' = pointers \cup {[p EXCEPT !.by = t]}
  BY DEF CopyPointer
<1> DEFINE copy == [p EXCEPT !.by = t]
<1>2. p \in Pointers
  BY DEF PtrInv, PtrTyped
<1>3. copy \in Pointers /\ copy.flag = p.flag /\ copy.calls = p.calls
  BY <1>2 DEF Pointers
<1> HIDE DEF copy
<1>4. \A q \in pointers' : q \in Pointers
                           /\ \E r \in pointers : q.flag = r.flag /\ q.calls = r.calls
  BY <1>1, <1>3 DEF PtrInv, PtrTyped, copy
<1> QED
  BY <1>4, PointersKeep DEF CopyPointer

LEMMA DropPointerKeeps ==
  ASSUME PtrInv, NEW t \in PtrThread, DropPointer(t)
  PROVE  PtrInv'
<1>1. pointers' \subseteq pointers
  BY DEF DropPointer
<1>2. pointers \subseteq Pointers
  BY DEF PtrInv, PtrTyped
<1> QED
  BY <1>1, <1>2, PointersKeep DEF DropPointer

LEMMA HandOverKeeps ==
  ASSUME PtrInv, HandOver
  PROVE  PtrInv'
<1>1. /\ ~returning /\ ~HasRefs /\ owner' \in PtrThread
      /\ UNCHANGED <<flags, flag_, returning, pointers, cancelable, forwarder_, callback_>>
  BY DEF HandOver, Usable, cancelableVars
<1>2. ~HasRefs'
  BY <1>1 DEF HasRefs
<1>3. \A q \in pointers : ~flags[q.flag].is_valid
  <2>1. \A q \in pointers : flag_ # 0 => q.flag # flag_
    BY <1>1 DEF HasRefs
  <2>2. \A q \in pointers : q.flag # 0
    BY DEF PtrInv, PtrTyped
  <2> QED
    BY <2>1, <2>2 DEF PtrInv, PtrSound, ValidIsSafe
<1>4. PtrTyped'
  BY <1>1 DEF PtrInv, PtrTyped
<1> QED
  BY <1>1, <1>2, <1>3, <1>4
  DEF PtrInv, ReturnedIsSafe, PtrSound, ValidIsSafe, InvalidateOnItsThread,
      ForwardsToItsCallback

LEMMA PtrStep ==
  ASSUME PtrInv, [PtrNext]_ptrVars
  PROVE  PtrInv'
<1>1. CASE GetFirstRef
  BY <1>1, GetFirstRefKeeps
<1>2. CASE GetRef
  <2>1. PtrTyped'
    BY <1>2 DEF GetRef, PtrInv, PtrTyped, cancelableVars
  <2>2. PtrSound'
    BY <1>2 DEF GetRef, PtrInv, PtrSound, ValidIsSafe, InvalidateOnItsThread, HasRefs,
                ForwardsToItsCallback, cancelableVars
  <2>3. ReturnedIsSafe'
    BY <1>2 DEF GetRef, PtrInv, PtrSound, InvalidateOnItsThread, HasRefs, ReturnedIsSafe
  <2> QED
    BY <2>1, <2>2, <2>3 DEF PtrInv
<1>3. CASE GetRefReturns
  <2>1. flag_ # 0 /\ owner = flags[flag_].thread
    BY <1>3 DEF GetRefReturns, PtrInv, ReturnedIsSafe
  <2> QED
    BY <1>3, <2>1, OneMorePointer DEF GetRefReturns
<1>4. CASE InvalidateWeakPtrs
  <2>1. forwarder_ = 0
    BY <1>4 DEF InvalidateWeakPtrs, PtrInv, PtrTyped
  <2> QED
    BY <1>4, <2>1, InvalidateKeeps DEF InvalidateWeakPtrs, Usable, cancelableVars
<1>5. CASE DeleteObject
  BY <1>5, InvalidateKeeps DEF DeleteObject, Usable
<1>6. CASE HandOver
  BY <1>6, HandOverKeeps
<1>7. CASE Cancel
  BY <1>7, InvalidateKeeps DEF Cancel, Usable
<1>8. CASE Reset
  BY <1>8, ResetKeepsPointers
<1>9. CASE CopyForwarder
  <2>1. forwarder_ = flag_ /\ flag_ # 0
    BY <1>9 DEF CopyForwarder, PtrInv, PtrTyped
  <2>2. owner = flags[flag_].thread
    BY <2>1 DEF PtrInv, PtrSound, InvalidateOnItsThread, HasRefs
  <2> QED
    BY <1>9, <2>1, <2>2, OneMorePointer DEF CopyForwarder
<1>10. ASSUME NEW t \in PtrThread, CopyPointer(t) \/ DropPointer(t)
       PROVE  PtrInv'
  BY <1>10, CopyPointerKeeps, DropPointerKeeps
<1>11. CASE UNCHANGED ptrVars
  BY <1>11 DEF ptrVars, cancelableVars, PtrInv, PtrTyped, ReturnedIsSafe, PtrSound,
               ValidIsSafe, InvalidateOnItsThread, HasRefs, ForwardsToItsCallback
<1> QED
  BY <1>1, <1>2, <1>3, <1>4, <1>5, <1>6, <1>7, <1>8, <1>9, <1>10, <1>11 DEF PtrNext

\* A WeakPtr that says it is valid is, on the thread it is bound to, and a forwarder
\* runs the callback it was copied for: for any number of threads, pointers and
\* flags, however GetRef races with threads that drop the last reference
\* (weak_ptr.cc:11-71).
THEOREM PtrIsSound == PtrSpec => []PtrSound
<1>1. PtrInv /\ [PtrNext]_ptrVars => PtrInv'
  BY PtrStep
<1>2. PtrInv => PtrSound
  BY DEF PtrInv
<1> QED
  BY <1>1, <1>2, PtrInitInv, PTL DEF PtrSpec

-----------------------------------------------------------------------------
(* PosixDynamicThreadPool.                                                   *)

USE DynamicPoolAssumption

DynamicTyped ==
  /\ pending_dynamic_ \in Seq(Nat)
  /\ num_idle_threads_ \in Int
  /\ terminated_ \in BOOLEAN
  /\ worker_thread \in [PoolThread ->
                          {"none", "start", "wait", "woken", "run", "exit"}]
  /\ tasks_begun \in Seq(Nat)

\* The threads that the pool counts as idle, and all those that are not busy.
IdleThreads == ThreadIn("wait") \cup ThreadIn("woken")
ReadyThreads == ThreadIn("start") \cup IdleThreads

\* A thread is created with the task that makes it, and none before.
ThreadsInTurn == \A w \in PoolThread : w > NumPosted => worker_thread[w] = "none"

TasksInOrder ==
  /\ \A i \in 1..Len(tasks_begun) : tasks_begun[i] = i
  /\ \A i \in 1..Len(pending_dynamic_) : pending_dynamic_[i] = Len(tasks_begun) + i

ThreadsCounted ==
  /\ num_idle_threads_ = Cardinality(IdleThreads)
  /\ ~terminated_ => Len(pending_dynamic_) <= Cardinality(ReadyThreads)

DynamicInv == DynamicTyped /\ ThreadsInTurn /\ TasksInOrder /\ ThreadsCounted

LEMMA CountThreads ==
  ASSUME NEW S \in SUBSET PoolThread
  PROVE  /\ Cardinality(S) \in Nat
         /\ \A w \in PoolThread \ S : Cardinality(S \cup {w}) = Cardinality(S) + 1
         /\ \A w \in S : Cardinality(S \ {w}) = Cardinality(S) - 1
<1>1. IsFiniteSet(PoolThread)
  BY FS_Interval DEF PoolThread
<1>2. IsFiniteSet(S)
  BY <1>1, FS_Subset
<1> QED
  BY <1>2, FS_CardinalityType, FS_AddElement, FS_RemoveElement

LEMMA ThreadSets ==
  /\ IdleThreads \in SUBSET PoolThread
  /\ ReadyThreads \in SUBSET PoolThread
BY DEF IdleThreads, ReadyThreads, ThreadIn

LEMMA DynamicInitInv == DynamicInit => DynamicInv
<1> SUFFICES ASSUME DynamicInit PROVE DynamicInv
  OBVIOUS
<1>1. IdleThreads = {} /\ ReadyThreads = {}
  BY DEF DynamicInit, IdleThreads, ReadyThreads, ThreadIn
<1>2. DynamicTyped
  <2>1. <<>> \in Seq(Nat)
    OBVIOUS
  <2>2. num_idle_threads_ \in Int
    BY DEF DynamicInit
  <2>4. terminated_ \in BOOLEAN
    BY DEF DynamicInit
  <2>3. worker_thread \in [PoolThread ->
                             {"none", "start", "wait", "woken", "run", "exit"}]
    BY DEF DynamicInit
  <2> QED
    BY <2>1, <2>2, <2>3, <2>4 DEF DynamicInit, DynamicTyped
<1>a. ThreadsInTurn
  BY DEF DynamicInit, ThreadsInTurn
<1>3. Len(tasks_begun) = 0 /\ Len(pending_dynamic_) = 0
  BY DEF DynamicInit
<1>4. TasksInOrder
  BY <1>3 DEF TasksInOrder
<1>5. ThreadsCounted
  BY <1>1, <1>3, FS_EmptySet DEF DynamicInit, ThreadsCounted
<1> QED
  BY <1>2, <1>a, <1>4, <1>5 DEF DynamicInv

\* What a step of one thread does to the sets.
LEMMA BecomesSets ==
  ASSUME DynamicTyped, NEW w \in PoolThread, Becomes(w, "start") \/ Becomes(w, "wait")
           \/ Becomes(w, "woken") \/ Becomes(w, "run") \/ Becomes(w, "exit")
  PROVE  /\ worker_thread'[w] \in {"wait", "woken"} =>
              IdleThreads' = IdleThreads \cup {w}
         /\ worker_thread'[w] \notin {"wait", "woken"} =>
              IdleThreads' = IdleThreads \ {w}
         /\ worker_thread'[w] \in {"start", "wait", "woken"} =>
              ReadyThreads' = ReadyThreads \cup {w}
         /\ worker_thread'[w] \notin {"start", "wait", "woken"} =>
              ReadyThreads' = ReadyThreads \ {w}
         /\ \A v \in PoolThread : v # w => worker_thread'[v] = worker_thread[v]
         /\ worker_thread' \in [PoolThread ->
                                  {"none", "start", "wait", "woken", "run", "exit"}]
<1>1. /\ \A v \in PoolThread : v # w => worker_thread'[v] = worker_thread[v]
      /\ worker_thread' \in [PoolThread ->
                               {"none", "start", "wait", "woken", "run", "exit"}]
  BY DEF Becomes, DynamicTyped
<1> QED
  BY <1>1 DEF IdleThreads, ReadyThreads, ThreadIn

LEMMA WhereThreads ==
  ASSUME DynamicTyped, NEW w \in PoolThread
  PROVE  /\ w \in IdleThreads <=> worker_thread[w] \in {"wait", "woken"}
         /\ w \in ReadyThreads <=> worker_thread[w] \in {"start", "wait", "woken"}
BY DEF IdleThreads, ReadyThreads, ThreadIn

\* A wakeup changes none of the numbers.
LEMMA SignalOneKeeps ==
  ASSUME DynamicTyped, SignalOne
  PROVE  /\ UNCHANGED <<IdleThreads, ReadyThreads>>
         /\ \A v \in PoolThread : worker_thread[v] = "none" => worker_thread'[v] = "none"
         /\ worker_thread' \in [PoolThread ->
                                  {"none", "start", "wait", "woken", "run", "exit"}]
<1>1. CASE ThreadIn("wait") = {}
  <2>1. worker_thread' = worker_thread
    BY <1>1 DEF SignalOne
  <2> QED
    BY <2>1 DEF DynamicTyped, IdleThreads, ReadyThreads, ThreadIn
<1>2. ASSUME NEW w \in ThreadIn("wait"), Becomes(w, "woken")
      PROVE  /\ UNCHANGED <<IdleThreads, ReadyThreads>>
             /\ \A v \in PoolThread : worker_thread[v] = "none" => worker_thread'[v] = "none"
             /\ worker_thread' \in [PoolThread ->
                                  {"none", "start", "wait", "woken", "run", "exit"}]
  <2>1. w \in PoolThread /\ worker_thread[w] = "wait" /\ worker_thread'[w] = "woken"
    BY <1>2 DEF ThreadIn, Becomes, DynamicTyped
  <2> QED
    BY <1>2, <2>1, BecomesSets, WhereThreads
<1> QED
  BY <1>1, <1>2 DEF SignalOne

\* A thread that has not been made before a post has not after it, unless it is the
\* one that the post makes.
LEMMA TurnGoesOn ==
  ASSUME NEW n \in Nat, NumPosted + 1 = n, NumPosted \in Nat, NumPosted' = n,
         ThreadsInTurn,
         \A v \in PoolThread :
           v # n /\ worker_thread[v] = "none" => worker_thread'[v] = "none"
  PROVE  ThreadsInTurn'
<1> SUFFICES ASSUME NEW w \in PoolThread, w > n
             PROVE  worker_thread'[w] = "none"
  BY DEF ThreadsInTurn
<1>1. w # n /\ w > NumPosted
  BY DEF PoolThread
<1> QED
  BY <1>1 DEF ThreadsInTurn

LEMMA AddTaskKeeps ==
  ASSUME DynamicInv, AddTask
  PROVE  DynamicInv'
<1> DEFINE n == NumPosted + 1
           waiting == Len(pending_dynamic_)
<1>1. /\ n \in PoolThread /\ waiting \in Nat
      /\ Len(tasks_begun) \in Nat /\ n = waiting + Len(tasks_begun) + 1
      /\ NumPosted \in Nat /\ n \in Nat /\ NumPosted + 1 = n
      /\ pending_dynamic_' = Append(pending_dynamic_, n)
      /\ UNCHANGED <<num_idle_threads_, terminated_, tasks_begun>>
  BY DEF AddTask, NumPosted, PoolThread, DynamicInv, DynamicTyped
<1>2. /\ pending_dynamic_' \in Seq(Nat)
      /\ Len(pending_dynamic_') = waiting + 1
      /\ \A i \in 1..waiting : pending_dynamic_'[i] = pending_dynamic_[i]
      /\ pending_dynamic_'[waiting + 1] = n
  BY <1>1 DEF DynamicInv, DynamicTyped, PoolThread
<1> HIDE DEF n, waiting
<1>3. TasksInOrder'
  <2>1. \A i \in 1..Len(tasks_begun') : tasks_begun'[i] = i
    BY <1>1 DEF DynamicInv, TasksInOrder
  <2>2. \A i \in 1..waiting : pending_dynamic_[i] = Len(tasks_begun) + i
    BY DEF DynamicInv, TasksInOrder, waiting
  <2>3. ASSUME NEW i \in 1..Len(pending_dynamic_')
        PROVE  pending_dynamic_'[i] = Len(tasks_begun) + i
    <3>1. CASE i \in 1..waiting
      BY <1>2, <2>2, <3>1
    <3>2. CASE i = waiting + 1
      BY <1>1, <1>2, <3>2
    <3> QED
      BY <1>1, <1>2, <3>1, <3>2
  <2> QED
    BY <1>1, <2>1, <2>3 DEF TasksInOrder
<1>4. NumPosted' = n
  BY <1>1, <1>2 DEF NumPosted
<1>5. /\ Cardinality(IdleThreads) \in Nat /\ Cardinality(ReadyThreads) \in Nat
      /\ ~terminated_ /\ waiting <= Cardinality(ReadyThreads)
      /\ num_idle_threads_ = Cardinality(IdleThreads)
  BY ThreadSets, CountThreads DEF AddTask, DynamicInv, ThreadsCounted, waiting
<1>6. CASE EnoughIdle
  <2>1. SignalOne
    BY <1>6 DEF AddTask
  <2>2. /\ UNCHANGED <<IdleThreads, ReadyThreads>>
        /\ \A v \in PoolThread : worker_thread[v] = "none" => worker_thread'[v] = "none"
        /\ worker_thread' \in [PoolThread ->
                                 {"none", "start", "wait", "woken", "run", "exit"}]
    BY <2>1, SignalOneKeeps DEF DynamicInv
  <2>3. ThreadsInTurn'
    BY <1>1, <1>4, <2>2, TurnGoesOn DEF DynamicInv
  <2>4. Cardinality(IdleThreads) >= waiting + 1
    <3>1. num_idle_threads_ >= Len(pending_dynamic_')
      BY <1>6 DEF EnoughIdle
    <3>2. Len(pending_dynamic_') = waiting + 1
      BY <1>2
    <3> QED
      BY <1>5, <3>1, <3>2
  <2>5. IdleThreads \subseteq ReadyThreads /\ IsFiniteSet(ReadyThreads)
    <3>1. IsFiniteSet(PoolThread)
      BY FS_Interval DEF PoolThread
    <3>2. IsFiniteSet(ReadyThreads)
      BY <3>1, ThreadSets, FS_Subset
    <3> QED
      BY <3>2 DEF ReadyThreads
  <2>6. Cardinality(IdleThreads) <= Cardinality(ReadyThreads)
    BY <2>5, FS_Subset, FS_CardinalityType
  <2>7. ThreadsCounted'
    BY <1>1, <1>2, <1>5, <2>2, <2>4, <2>6 DEF ThreadsCounted
  <2> QED
    BY <1>1, <1>2, <1>3, <2>2, <2>3, <2>7 DEF DynamicInv, DynamicTyped
<1>7. CASE ~EnoughIdle
  <2>1. Becomes(n, "start") /\ worker_thread[n] = "none"
    <3>1. Becomes(n, "start")
      BY <1>1, <1>7 DEF AddTask
    <3>2. n > NumPosted
      BY <1>1
    <3> QED
      BY <1>1, <3>1, <3>2 DEF DynamicInv, ThreadsInTurn
  <2>2. worker_thread'[n] = "start" /\ n \notin IdleThreads /\ n \notin ReadyThreads
    BY <1>1, <2>1, WhereThreads DEF Becomes, DynamicInv, DynamicTyped
  <2>3. /\ IdleThreads' = IdleThreads /\ ReadyThreads' = ReadyThreads \cup {n}
        /\ \A v \in PoolThread : v # n => worker_thread'[v] = worker_thread[v]
        /\ worker_thread' \in [PoolThread ->
                                 {"none", "start", "wait", "woken", "run", "exit"}]
    <3>1. /\ IdleThreads' = IdleThreads \ {n} /\ ReadyThreads' = ReadyThreads \cup {n}
          /\ \A v \in PoolThread : v # n => worker_thread'[v] = worker_thread[v]
          /\ worker_thread' \in [PoolThread ->
                                   {"none", "start", "wait", "woken", "run", "exit"}]
      BY <1>1, <2>1, <2>2, BecomesSets DEF DynamicInv
    <3> QED
      BY <2>2, <3>1
  <2>4. Cardinality(ReadyThreads') = Cardinality(ReadyThreads) + 1
    BY <1>1, <2>2, <2>3, ThreadSets, CountThreads
  <2>5. ThreadsInTurn'
    BY <1>1, <1>4, <2>3, TurnGoesOn DEF DynamicInv
  <2>6. ThreadsCounted'
    BY <1>1, <1>2, <1>5, <2>3, <2>4 DEF ThreadsCounted
  <2> QED
    BY <1>1, <1>2, <1>3, <2>3, <2>5, <2>6 DEF DynamicInv, DynamicTyped
<1> QED
  BY <1>6, <1>7

\* A thread that is not busy takes the first task.
LEMMA TakeTaskKeeps ==
  ASSUME DynamicInv, NEW w \in PoolThread, pending_dynamic_ # <<>>, TakeTask(w),
         UNCHANGED terminated_,
         \/ worker_thread[w] = "start" /\ UNCHANGED num_idle_threads_
         \/ worker_thread[w] = "woken" /\ num_idle_threads_' = num_idle_threads_ - 1
  PROVE  DynamicInv'
<1> DEFINE waiting == Len(pending_dynamic_)
<1>1. /\ waiting \in Nat /\ waiting > 0 /\ Len(tasks_begun) \in Nat
      /\ pending_dynamic_' = Tail(pending_dynamic_) /\ pending_dynamic_' \in Seq(Nat)
      /\ Len(pending_dynamic_') = waiting - 1
      /\ \A i \in 1..waiting - 1 : pending_dynamic_'[i] = pending_dynamic_[i + 1]
      /\ Head(pending_dynamic_) = pending_dynamic_[1]
      /\ Head(pending_dynamic_) \in Nat
  BY DEF TakeTask, DynamicInv, DynamicTyped
<1>2. /\ tasks_begun' \in Seq(Nat)
      /\ Len(tasks_begun') = Len(tasks_begun) + 1
      /\ \A i \in 1..Len(tasks_begun) : tasks_begun'[i] = tasks_begun[i]
      /\ tasks_begun'[Len(tasks_begun) + 1] = Head(pending_dynamic_)
  BY <1>1 DEF TakeTask, DynamicInv, DynamicTyped
<1>3. TasksInOrder'
  <2>1. Head(pending_dynamic_) = Len(tasks_begun) + 1
    BY <1>1 DEF DynamicInv, TasksInOrder
  <2>2. ASSUME NEW i \in 1..Len(tasks_begun')
        PROVE  tasks_begun'[i] = i
    <3>1. CASE i \in 1..Len(tasks_begun)
      BY <1>2, <3>1 DEF DynamicInv, TasksInOrder
    <3>2. CASE i = Len(tasks_begun) + 1
      BY <1>2, <2>1, <3>2
    <3> QED
      BY <1>1, <1>2, <3>1, <3>2
  <2>3. ASSUME NEW i \in 1..Len(pending_dynamic_')
        PROVE  pending_dynamic_'[i] = Len(tasks_begun') + i
    <3>1. i + 1 \in 1..waiting /\ i \in 1..waiting - 1
      BY <1>1
    <3>2. pending_dynamic_'[i] = Len(tasks_begun) + (i + 1)
      BY <1>1, <3>1 DEF DynamicInv, TasksInOrder
    <3> QED
      BY <1>1, <1>2, <3>2
  <2> QED
    BY <2>2, <2>3 DEF TasksInOrder
<1>4. NumPosted' = NumPosted
  BY <1>1, <1>2 DEF NumPosted
<1>5. Becomes(w, "run") /\ worker_thread'[w] = "run"
  BY DEF TakeTask, Becomes, DynamicInv, DynamicTyped
<1>6. /\ IdleThreads' = IdleThreads \ {w} /\ ReadyThreads' = ReadyThreads \ {w}
      /\ \A v \in PoolThread : v # w => worker_thread'[v] = worker_thread[v]
      /\ worker_thread' \in [PoolThread ->
                               {"none", "start", "wait", "woken", "run", "exit"}]
  BY <1>5, BecomesSets DEF DynamicInv
<1>7. ThreadsInTurn'
  BY <1>4, <1>6 DEF DynamicInv, ThreadsInTurn
<1>8. w \in ReadyThreads /\ (w \in IdleThreads <=> worker_thread[w] = "woken")
  BY WhereThreads DEF DynamicInv
<1>9. /\ Cardinality(ReadyThreads) \in Nat /\ Cardinality(IdleThreads) \in Nat
      /\ Cardinality(ReadyThreads') = Cardinality(ReadyThreads) - 1
      /\ w \in IdleThreads => Cardinality(IdleThreads') = Cardinality(IdleThreads) - 1
      /\ w \notin IdleThreads => IdleThreads' = IdleThreads
  BY <1>6, <1>8, ThreadSets, CountThreads
<1>10. num_idle_threads_' = Cardinality(IdleThreads')
  BY <1>8, <1>9 DEF DynamicInv, ThreadsCounted
<1>11. ThreadsCounted'
  BY <1>1, <1>9, <1>10 DEF DynamicInv, ThreadsCounted
<1>12. num_idle_threads_' \in Int
  BY DEF DynamicInv, DynamicTyped
<1> QED
  BY <1>1, <1>2, <1>3, <1>6, <1>7, <1>11, <1>12 DEF DynamicInv, DynamicTyped

\* The steps of a thread that leave the tasks where they are.
LEMMA NoTaskKeeps ==
  ASSUME DynamicInv, NEW w \in PoolThread,
         UNCHANGED <<pending_dynamic_, tasks_begun, terminated_>>,
         \/ /\ worker_thread[w] = "start" /\ Becomes(w, "exit") /\ terminated_
            /\ UNCHANGED num_idle_threads_
         \/ /\ worker_thread[w] = "start" /\ Becomes(w, "wait")
            /\ num_idle_threads_' = num_idle_threads_ + 1
         \/ /\ worker_thread[w] = "woken" /\ Becomes(w, "exit")
            /\ pending_dynamic_ = <<>>
            /\ num_idle_threads_' = num_idle_threads_ - 1
         \/ /\ worker_thread[w] = "wait" /\ Becomes(w, "woken")
            /\ UNCHANGED num_idle_threads_
         \/ /\ worker_thread[w] = "run" /\ Becomes(w, "start")
            /\ UNCHANGED num_idle_threads_
  PROVE  DynamicInv'
<1>1. /\ worker_thread[w] # "none"
      /\ \/ Becomes(w, "start") /\ worker_thread'[w] = "start"
         \/ Becomes(w, "wait") /\ worker_thread'[w] = "wait"
         \/ Becomes(w, "woken") /\ worker_thread'[w] = "woken"
         \/ Becomes(w, "exit") /\ worker_thread'[w] = "exit"
  BY DEF Becomes, DynamicInv, DynamicTyped
<1>2. /\ worker_thread'[w] \in {"wait", "woken"} => IdleThreads' = IdleThreads \cup {w}
      /\ worker_thread'[w] \notin {"wait", "woken"} => IdleThreads' = IdleThreads \ {w}
      /\ worker_thread'[w] \in {"start", "wait", "woken"} =>
           ReadyThreads' = ReadyThreads \cup {w}
      /\ worker_thread'[w] \notin {"start", "wait", "woken"} =>
           ReadyThreads' = ReadyThreads \ {w}
      /\ \A v \in PoolThread : v # w => worker_thread'[v] = worker_thread[v]
      /\ worker_thread' \in [PoolThread ->
                               {"none", "start", "wait", "woken", "run", "exit"}]
  BY <1>1, BecomesSets DEF DynamicInv
<1>3. ThreadsInTurn' /\ TasksInOrder'
  BY <1>1, <1>2 DEF DynamicInv, ThreadsInTurn, TasksInOrder, NumPosted
<1>4. /\ w \in IdleThreads <=> worker_thread[w] \in {"wait", "woken"}
      /\ w \in ReadyThreads <=> worker_thread[w] \in {"start", "wait", "woken"}
  BY WhereThreads DEF DynamicInv
<1>5. /\ Cardinality(IdleThreads) \in Nat /\ Cardinality(ReadyThreads) \in Nat
      /\ w \in IdleThreads => Cardinality(IdleThreads \ {w}) = Cardinality(IdleThreads) - 1
      /\ w \notin IdleThreads =>
           Cardinality(IdleThreads \cup {w}) = Cardinality(IdleThreads) + 1
      /\ w \notin ReadyThreads =>
           Cardinality(ReadyThreads \cup {w}) = Cardinality(ReadyThreads) + 1
      /\ Cardinality(ReadyThreads \ {w}) \in Nat
  BY ThreadSets, CountThreads
<1>6. num_idle_threads_' = Cardinality(IdleThreads') /\ num_idle_threads_' \in Int
  <2>1. CASE worker_thread[w] = "start" /\ Becomes(w, "exit")
    <3>1. worker_thread'[w] = "exit" /\ UNCHANGED num_idle_threads_
      BY <2>1, <1>1 DEF Becomes, DynamicInv, DynamicTyped
    <3>2. IdleThreads' = IdleThreads
      BY <1>2, <1>4, <2>1, <3>1
    <3> QED
      BY <3>1, <3>2, <1>5 DEF DynamicInv, ThreadsCounted
  <2>2. CASE worker_thread[w] = "start" /\ Becomes(w, "wait")
    <3>1. worker_thread'[w] = "wait" /\ num_idle_threads_' = num_idle_threads_ + 1
      BY <2>2, <1>1 DEF Becomes, DynamicInv, DynamicTyped
    <3>2. IdleThreads' = IdleThreads \cup {w} /\ w \notin IdleThreads
      BY <1>2, <1>4, <2>2, <3>1
    <3> QED
      BY <3>1, <3>2, <1>5 DEF DynamicInv, ThreadsCounted
  <2>3. CASE worker_thread[w] = "woken"
    <3>1. worker_thread'[w] = "exit" /\ num_idle_threads_' = num_idle_threads_ - 1
      BY <2>3, <1>1 DEF Becomes, DynamicInv, DynamicTyped
    <3>2. IdleThreads' = IdleThreads \ {w} /\ w \in IdleThreads
      BY <1>2, <1>4, <2>3, <3>1
    <3> QED
      BY <3>1, <3>2, <1>5 DEF DynamicInv, ThreadsCounted
  <2>4. CASE worker_thread[w] = "wait"
    <3>1. worker_thread'[w] = "woken" /\ UNCHANGED num_idle_threads_
      BY <2>4, <1>1 DEF Becomes, DynamicInv, DynamicTyped
    <3>2. IdleThreads' = IdleThreads
      BY <1>2, <1>4, <2>4, <3>1
    <3> QED
      BY <3>1, <3>2, <1>5 DEF DynamicInv, ThreadsCounted
  <2>5. CASE worker_thread[w] = "run"
    <3>1. worker_thread'[w] = "start" /\ UNCHANGED num_idle_threads_
      BY <2>5, <1>1 DEF Becomes, DynamicInv, DynamicTyped
    <3>2. IdleThreads' = IdleThreads
      BY <1>2, <1>4, <2>5, <3>1
    <3> QED
      BY <3>1, <3>2, <1>5 DEF DynamicInv, ThreadsCounted
  <2> QED
    BY <2>1, <2>2, <2>3, <2>4, <2>5
<1>7. ~terminated_' => Len(pending_dynamic_') <= Cardinality(ReadyThreads')
  <2> SUFFICES ASSUME ~terminated_
               PROVE  Len(pending_dynamic_) <= Cardinality(ReadyThreads')
    OBVIOUS
  <2>1. Len(pending_dynamic_) <= Cardinality(ReadyThreads)
    BY DEF DynamicInv, ThreadsCounted
  <2>2. CASE pending_dynamic_ = <<>>
    BY <1>2, <1>5, <2>1, <2>2, ThreadSets, CountThreads
  <2>3. CASE pending_dynamic_ # <<>>
    <3>1. ReadyThreads' = ReadyThreads \cup {w}
      <4>1. worker_thread'[w] \in {"start", "wait", "woken"}
        BY <2>3 DEF Becomes, DynamicInv, DynamicTyped
      <4> QED
        BY <1>2, <4>1
    <3>2. CASE w \in ReadyThreads
      <4>1. ReadyThreads' = ReadyThreads
        BY <3>1, <3>2
      <4> QED
        BY <2>1, <4>1
    <3>3. CASE w \notin ReadyThreads
      <4>1. Cardinality(ReadyThreads') = Cardinality(ReadyThreads) + 1
        BY <1>5, <3>1, <3>3
      <4>2. Len(pending_dynamic_) \in Nat
        BY DEF DynamicInv, DynamicTyped
      <4> QED
        BY <1>5, <2>1, <4>1, <4>2
    <3> QED
      BY <3>2, <3>3
  <2> QED
    BY <2>2, <2>3
<1> QED
  BY <1>2, <1>3, <1>6, <1>7 DEF DynamicInv, DynamicTyped, ThreadsCounted

LEMMA TerminateKeeps ==
  ASSUME DynamicInv, Terminate
  PROVE  DynamicInv'
<1>1. /\ worker_thread' = [w \in PoolThread |->
           IF worker_thread[w] = "wait" THEN "woken" ELSE worker_thread[w]]
      /\ terminated_' /\ UNCHANGED <<pending_dynamic_, num_idle_threads_, tasks_begun>>
  BY DEF Terminate
<1>2. /\ worker_thread' \in [PoolThread ->
                               {"none", "start", "wait", "woken", "run", "exit"}]
      /\ \A w \in PoolThread : worker_thread[w] = "none" => worker_thread'[w] = "none"
  BY <1>1 DEF DynamicInv, DynamicTyped
<1>3. IdleThreads' = IdleThreads
  BY <1>1 DEF IdleThreads, ThreadIn
<1>4. ThreadsInTurn' /\ TasksInOrder' /\ terminated_' \in BOOLEAN
  BY <1>1, <1>2 DEF Terminate, DynamicInv, ThreadsInTurn, TasksInOrder, NumPosted
<1> QED
  BY <1>1, <1>2, <1>3, <1>4 DEF DynamicInv, DynamicTyped, ThreadsCounted

LEMMA DynamicStep == DynamicInv /\ [DynamicNext]_dynamicVars => DynamicInv'
<1> SUFFICES ASSUME DynamicInv, [DynamicNext]_dynamicVars
             PROVE  DynamicInv'
  OBVIOUS
<1>1. CASE AddTask
  BY <1>1, AddTaskKeeps
<1>2. CASE Terminate
  BY <1>2, TerminateKeeps
<1>3. ASSUME NEW w \in PoolThread, WaitForTask(w)
      PROVE  DynamicInv'
  <2>1. CASE ~terminated_ /\ pending_dynamic_ # <<>> /\ TakeTask(w)
             /\ UNCHANGED num_idle_threads_
    BY <1>3, <2>1, TakeTaskKeeps DEF WaitForTask
  <2>2. CASE ~(~terminated_ /\ pending_dynamic_ # <<>> /\ TakeTask(w)
               /\ UNCHANGED num_idle_threads_)
    BY <1>3, <2>2, NoTaskKeeps DEF WaitForTask
  <2> QED
    BY <2>1, <2>2
<1>4. ASSUME NEW w \in PoolThread, WaitIsOver(w)
      PROVE  DynamicInv'
  BY <1>4, NoTaskKeeps DEF WaitIsOver
<1>5. ASSUME NEW w \in PoolThread, Resume(w)
      PROVE  DynamicInv'
  <2>1. CASE pending_dynamic_ # <<>>
    BY <1>5, <2>1, TakeTaskKeeps DEF Resume
  <2>2. CASE pending_dynamic_ = <<>>
    BY <1>5, <2>2, NoTaskKeeps DEF Resume
  <2> QED
    BY <2>1, <2>2
<1>6. ASSUME NEW w \in PoolThread, TaskReturns(w)
      PROVE  DynamicInv'
  BY <1>6, NoTaskKeeps DEF TaskReturns
<1>7. CASE UNCHANGED dynamicVars
  BY <1>7 DEF dynamicVars, DynamicInv, DynamicTyped, ThreadsInTurn, TasksInOrder,
              ThreadsCounted, IdleThreads, ReadyThreads, ThreadIn, NumPosted
<1> QED
  BY <1>1, <1>2, <1>3, <1>4, <1>5, <1>6, <1>7 DEF DynamicNext

\* For every task that waits there is a thread that is not busy, however wakeups,
\* timeouts and new tasks cross, and tasks begin in the order of their posts: for
\* any number of tasks (worker_pool_posix.cc:105-173).
THEOREM DynamicPoolIsSafe == DynamicSpec => []DynamicPoolSafe
<1>1. DynamicInv => DynamicPoolSafe
  <2> SUFFICES ASSUME DynamicInv PROVE DynamicPoolSafe
    OBVIOUS
  <2>1. ReadyThreads = ThreadIn("start") \cup ThreadIn("wait") \cup ThreadIn("woken")
    BY DEF ReadyThreads, IdleThreads
  <2>2. tasks_begun = [i \in 1..Len(tasks_begun) |-> i]
    BY DEF DynamicInv, DynamicTyped, TasksInOrder
  <2> QED
    BY <2>1, <2>2 DEF DynamicInv, ThreadsCounted, DynamicPoolSafe, EnoughWorkers
<1> QED
  BY <1>1, DynamicInitInv, DynamicStep, PTL DEF DynamicSpec

-----------------------------------------------------------------------------
(* AtExit.                                                                   *)

USE AtExitAssumption

Frame ==
  [at : {"look", "construct", "register", "destroy"}, of : Instance,
   uses : SUBSET Instance]

ExitTyped ==
  /\ instance_ \in [Instance -> {"none", "creating", "created"}]
  /\ getting \in [UserThread -> Seq(Frame)]
  /\ stack_ \in Seq(Instance)
  /\ exit_ \in {"no", "running", "done"}

\* A call of get waits for the one that it made.
CallsNest ==
  \A t \in UserThread : \A k \in DOMAIN getting[t] :
    k < Len(getting[t]) => getting[t][k].at \in {"construct", "destroy"}

\* What a constructor got is made, or the call that gets it is the next one.
GotOrGetting(t, k) ==
  \A u \in Uses(getting[t][k].of) \ getting[t][k].uses :
    \/ instance_[u] = "created"
    \/ k < Len(getting[t]) /\ getting[t][k + 1].of = u

Constructs ==
  \A t \in UserThread : \A k \in DOMAIN getting[t] :
    getting[t][k].at = "construct" =>
      instance_[getting[t][k].of] = "creating" /\ GotOrGetting(t, k)

Registers ==
  \A t \in UserThread : \A k \in DOMAIN getting[t] :
    getting[t][k].at = "register" =>
      /\ instance_[getting[t][k].of] = "created"
      /\ \A j \in DOMAIN stack_ : stack_[j] # getting[t][k].of

Destroys ==
  \A t \in UserThread : \A k \in DOMAIN getting[t] :
    getting[t][k].at = "destroy" =>
      /\ t = MainThread /\ k = 1 /\ exit_ = "running"
      /\ stack_ # <<>> /\ getting[t][k].of = stack_[Len(stack_)]

\* One call makes an instance, from the compare-and-swap it won to the end.
Makes(f) == f.at \in {"construct", "register"}
OneMaker ==
  \A s, t \in UserThread : \A k \in DOMAIN getting[s], l \in DOMAIN getting[t] :
    Makes(getting[s][k]) /\ Makes(getting[t][l]) /\ getting[s][k].of = getting[t][l].of
      => s = t /\ k = l

\* An instance that is being made has its call, and one that is made has a callback
\* or a call that is about to register it.
MadeByCall(i, at) ==
  \E t \in UserThread : \E k \in DOMAIN getting[t] :
    getting[t][k].at = at /\ getting[t][k].of = i

StackInv ==
  /\ \A i \in Instance : instance_[i] = "creating" => MadeByCall(i, "construct")
  /\ \A i \in Instance : instance_[i] = "created" =>
       (\E j \in DOMAIN stack_ : stack_[j] = i) \/ MadeByCall(i, "register")
  /\ \A j \in DOMAIN stack_ : instance_[stack_[j]] = "created"
  /\ IsInjective(stack_)

\* At exit only the main thread is left.
ExitPhase ==
  /\ exit_ # "no" => \A t \in UserThread \ {MainThread} : getting[t] = <<>>
  /\ exit_ = "done" => getting[MainThread] = <<>> /\ stack_ = <<>>

ExitInv ==
  /\ ExitTyped /\ CallsNest /\ Constructs /\ Registers /\ Destroys
  /\ OneMaker /\ StackInv /\ ExitPhase /\ MadeBeforeUse

LEMMA ExitInitInv == ExitInit => ExitInv
<1> SUFFICES ASSUME ExitInit PROVE ExitInv
  OBVIOUS
<1>1. ExitTyped
  <2>1. <<>> \in Seq(Frame) /\ <<>> \in Seq(Instance)
    OBVIOUS
  <2> QED
    BY <2>1 DEF ExitInit, ExitTyped
<1>2. /\ \A t \in UserThread : getting[t] = <<>> /\ DOMAIN getting[t] = {}
      /\ DOMAIN stack_ = {}
  BY DEF ExitInit
<1>3. CallsNest /\ Constructs /\ Registers /\ Destroys /\ OneMaker
  BY <1>2 DEF CallsNest, Constructs, Registers, Destroys, OneMaker
<1>4. StackInv
  BY <1>2 DEF ExitInit, StackInv, IsInjective
<1>5. ExitPhase /\ MadeBeforeUse
  BY DEF ExitInit, ExitPhase, MadeBeforeUse
<1> QED
  BY <1>1, <1>3, <1>4, <1>5 DEF ExitInv

LEMMA FrontFacts ==
  ASSUME NEW q \in Seq(Frame), q # <<>>
  PROVE  /\ Len(q) \in Nat /\ Len(q) >= 1
         /\ Front(q) \in Seq(Frame) /\ Len(Front(q)) = Len(q) - 1
         /\ \A k \in 1..Len(q) - 1 : Front(q)[k] = q[k]
<1> DEFINE m == Len(q) - 1
<1>1. Len(q) \in Nat /\ Len(q) >= 1 /\ m \in Nat /\ m = Len(q) - 1
  OBVIOUS
<1>2. Front(q) = SubSeq(q, 1, m)
  BY DEF Front
<1>3. \A i \in 1..m : q[i] \in Frame
  BY <1>1
<1> HIDE DEF m
<1>4. /\ SubSeq(q, 1, m) \in Seq(Frame)
      /\ Len(SubSeq(q, 1, m)) = IF 1 <= m THEN m - 1 + 1 ELSE 0
      /\ \A i \in 1..m - 1 + 1 : SubSeq(q, 1, m)[i] = q[1 + i - 1]
  <2>1. 1 \in Int /\ m \in Int
    BY <1>1
  <2> QED
    BY <1>3, <2>1, SubSeqProperties
<1>5. Len(SubSeq(q, 1, m)) = m /\ \A k \in 1..m : SubSeq(q, 1, m)[k] = q[k]
  BY <1>1, <1>4
<1> QED
  BY <1>1, <1>2, <1>4, <1>5

LEMMA CallFacts ==
  ASSUME ExitTyped, NEW t \in UserThread
  PROVE  /\ Len(getting[t]) \in Nat /\ DOMAIN getting[t] = 1..Len(getting[t])
         /\ \A k \in DOMAIN getting[t] :
              /\ getting[t][k] \in Frame /\ getting[t][k].of \in Instance
              /\ getting[t][k].uses \subseteq Instance
         /\ getting[t] # <<>> =>
              /\ Len(getting[t]) >= 1 /\ Len(getting[t]) \in DOMAIN getting[t]
              /\ Last(getting[t]) = getting[t][Len(getting[t])]
<1>1. getting[t] \in Seq(Frame)
  BY DEF ExitTyped
<1>2. Len(getting[t]) \in Nat /\ DOMAIN getting[t] = 1..Len(getting[t])
  BY <1>1
<1>3. \A k \in DOMAIN getting[t] :
        /\ getting[t][k] \in Frame /\ getting[t][k].of \in Instance
        /\ getting[t][k].uses \subseteq Instance
  <2>1. ASSUME NEW k \in DOMAIN getting[t]
        PROVE  getting[t][k] \in Frame
    BY <1>1, <1>2
  <2> QED
    BY <2>1 DEF Frame
<1>4. getting[t] # <<>> => Len(getting[t]) >= 1
  BY <1>1
<1> QED
  BY <1>2, <1>3, <1>4 DEF Last

\* The innermost call returns.
LEMMA Returns ==
  ASSUME ExitTyped, NEW t \in UserThread, getting[t] # <<>>, ReplaceLast(t, <<>>)
  PROVE  /\ getting' \in [UserThread -> Seq(Frame)]
         /\ \A s \in UserThread : s # t => getting'[s] = getting[s]
         /\ Len(getting'[t]) = Len(getting[t]) - 1
         /\ \A s \in UserThread : \A k \in DOMAIN getting'[s] :
              /\ k \in DOMAIN getting[s] /\ getting'[s][k] = getting[s][k]
              /\ Len(getting'[s]) <= Len(getting[s])
              /\ k < Len(getting[s])
                   \/ (s # t /\ k = Len(getting[s]) /\ Len(getting'[s]) = Len(getting[s]))
         /\ \A s \in UserThread : \A k \in DOMAIN getting[s] :
              \/ s = t /\ k = Len(getting[t])
              \/ k \in DOMAIN getting'[s] /\ getting'[s][k] = getting[s][k]
<1> DEFINE n == Len(getting[t])
<1>1. /\ getting[t] \in Seq(Frame) /\ n \in Nat /\ n >= 1
      /\ DOMAIN getting = UserThread
  BY CallFacts DEF ExitTyped
<1>2. getting' = [getting EXCEPT ![t] = Front(@) \o <<>>]
  BY DEF ReplaceLast
<1>3. getting'[t] = Front(getting[t]) \o <<>>
  BY <1>1, <1>2
<1>4. /\ Front(getting[t]) \in Seq(Frame) /\ Len(Front(getting[t])) = n - 1
      /\ \A k \in 1..n - 1 : Front(getting[t])[k] = getting[t][k]
  BY <1>1, FrontFacts
<1>5. /\ getting'[t] \in Seq(Frame) /\ Len(getting'[t]) = n - 1
      /\ \A k \in 1..n - 1 : getting'[t][k] = getting[t][k]
  BY <1>1, <1>3, <1>4
<1>6. \A s \in UserThread : s # t => getting'[s] = getting[s]
  BY <1>1, <1>2
<1>7. getting' \in [UserThread -> Seq(Frame)]
  BY <1>2, <1>3, <1>5 DEF ExitTyped
<1>8. \A s \in UserThread : /\ DOMAIN getting[s] = 1..Len(getting[s]) /\ Len(getting[s]) \in Nat
                            /\ DOMAIN getting'[s] = 1..Len(getting'[s])
  BY <1>7 DEF ExitTyped
<1> HIDE DEF n
<1>9. n = Len(getting[t])
  BY DEF n
<1>10. ASSUME NEW s \in UserThread, NEW k \in DOMAIN getting'[s]
       PROVE  /\ k \in DOMAIN getting[s] /\ getting'[s][k] = getting[s][k]
              /\ Len(getting'[s]) <= Len(getting[s])
              /\ k < Len(getting[s])
                   \/ (s # t /\ k = Len(getting[s]) /\ Len(getting'[s]) = Len(getting[s]))
  <2>1. CASE s = t
    BY <1>1, <1>5, <1>8, <1>9, <2>1
  <2>2. CASE s # t
    BY <1>6, <1>8, <2>2
  <2> QED
    BY <2>1, <2>2
<1>11. ASSUME NEW s \in UserThread, NEW k \in DOMAIN getting[s]
       PROVE  \/ s = t /\ k = Len(getting[t])
              \/ k \in DOMAIN getting'[s] /\ getting'[s][k] = getting[s][k]
  <2>1. CASE s = t
    BY <1>1, <1>5, <1>8, <1>9, <2>1
  <2>2. CASE s # t
    BY <1>6, <1>8, <2>2
  <2> QED
    BY <2>1, <2>2
<1> QED
  BY <1>5, <1>6, <1>7, <1>9, <1>10, <1>11

\* The innermost call goes on.
LEMMA GoesOn ==
  ASSUME ExitTyped, NEW t \in UserThread, getting[t] # <<>>, NEW f \in Frame,
         ReplaceLast(t, <<f>>)
  PROVE  /\ getting' \in [UserThread -> Seq(Frame)]
         /\ \A s \in UserThread : /\ Len(getting'[s]) = Len(getting[s])
                                  /\ DOMAIN getting'[s] = DOMAIN getting[s]
         /\ \A s \in UserThread : s # t => getting'[s] = getting[s]
         /\ \A s \in UserThread : \A k \in DOMAIN getting[s] :
              s # t \/ k # Len(getting[t]) => getting'[s][k] = getting[s][k]
         /\ getting'[t][Len(getting[t])] = f
<1> DEFINE n == Len(getting[t])
<1>1. /\ getting[t] \in Seq(Frame) /\ n \in Nat /\ n >= 1
      /\ DOMAIN getting = UserThread
  BY CallFacts DEF ExitTyped
<1>2. getting' = [getting EXCEPT ![t] = Front(@) \o <<f>>]
  BY DEF ReplaceLast
<1>3. getting'[t] = Front(getting[t]) \o <<f>>
  BY <1>1, <1>2
<1>4. /\ Front(getting[t]) \in Seq(Frame) /\ Len(Front(getting[t])) = n - 1
      /\ \A k \in 1..n - 1 : Front(getting[t])[k] = getting[t][k]
  BY <1>1, FrontFacts
<1>5. /\ getting'[t] \in Seq(Frame) /\ Len(getting'[t]) = n
      /\ \A k \in 1..n - 1 : getting'[t][k] = getting[t][k]
      /\ getting'[t][n] = f
  <2>1. <<f>> \in Seq(Frame) /\ Len(<<f>>) = 1 /\ <<f>>[1] = f
    OBVIOUS
  <2> DEFINE front == Front(getting[t])
  <2>2. /\ front \in Seq(Frame) /\ Len(front) = n - 1 /\ getting'[t] = front \o <<f>>
        /\ \A k \in 1..n - 1 : front[k] = getting[t][k]
    BY <1>3, <1>4
  <2> HIDE DEF n, front
  <2>3. getting'[t] \in Seq(Frame) /\ Len(getting'[t]) = n
    BY <1>1, <2>1, <2>2
  <2>4. ASSUME NEW k \in 1..n - 1
        PROVE  getting'[t][k] = getting[t][k]
    <3>1. (front \o <<f>>)[k] = front[k]
      BY <1>1, <2>1, <2>2
    <3> QED
      BY <2>2, <3>1
  <2>5. getting'[t][n] = f
    BY <1>1, <2>1, <2>2
  <2> QED
    BY <2>3, <2>4, <2>5
<1>6. \A s \in UserThread : s # t => getting'[s] = getting[s]
  BY <1>1, <1>2
<1>7. getting' \in [UserThread -> Seq(Frame)]
  BY <1>2, <1>3, <1>5 DEF ExitTyped
<1>8. \A s \in UserThread : /\ DOMAIN getting[s] = 1..Len(getting[s]) /\ Len(getting[s]) \in Nat
                            /\ DOMAIN getting'[s] = 1..Len(getting'[s])
  BY <1>7 DEF ExitTyped
<1> HIDE DEF n
<1>9. n = Len(getting[t])
  BY DEF n
<1>10. ASSUME NEW s \in UserThread
       PROVE  /\ Len(getting'[s]) = Len(getting[s])
              /\ DOMAIN getting'[s] = DOMAIN getting[s]
  BY <1>5, <1>6, <1>8, <1>9
<1>11. ASSUME NEW s \in UserThread, NEW k \in DOMAIN getting[s],
              s # t \/ k # Len(getting[t])
       PROVE  getting'[s][k] = getting[s][k]
  <2>1. CASE s = t
    BY <1>1, <1>5, <1>8, <1>9, <1>11, <2>1
  <2>2. CASE s # t
    BY <1>6, <2>2
  <2> QED
    BY <2>1, <2>2
<1> QED
  BY <1>5, <1>6, <1>7, <1>9, <1>10, <1>11

\* The innermost call gets another instance.
LEMMA Descends ==
  ASSUME ExitTyped, NEW t \in UserThread, getting[t] # <<>>, NEW f \in Frame,
         NEW g \in Frame, ReplaceLast(t, <<f, g>>)
  PROVE  /\ getting' \in [UserThread -> Seq(Frame)]
         /\ \A s \in UserThread : s # t => getting'[s] = getting[s]
         /\ Len(getting'[t]) = Len(getting[t]) + 1
         /\ \A s \in UserThread : \A k \in DOMAIN getting[s] :
              /\ k \in DOMAIN getting'[s]
              /\ s # t \/ k # Len(getting[t]) => getting'[s][k] = getting[s][k]
         /\ \A s \in UserThread : \A k \in DOMAIN getting'[s] :
              k \in DOMAIN getting[s] \/ (s = t /\ k = Len(getting[t]) + 1)
         /\ getting'[t][Len(getting[t])] = f
         /\ getting'[t][Len(getting[t]) + 1] = g
<1> DEFINE n == Len(getting[t])
<1>1. /\ getting[t] \in Seq(Frame) /\ n \in Nat /\ n >= 1
      /\ DOMAIN getting = UserThread
  BY CallFacts DEF ExitTyped
<1>2. getting' = [getting EXCEPT ![t] = Front(@) \o <<f, g>>]
  BY DEF ReplaceLast
<1>3. getting'[t] = Front(getting[t]) \o <<f, g>>
  BY <1>1, <1>2
<1>4. /\ Front(getting[t]) \in Seq(Frame) /\ Len(Front(getting[t])) = n - 1
      /\ \A k \in 1..n - 1 : Front(getting[t])[k] = getting[t][k]
  BY <1>1, FrontFacts
<1>5. /\ getting'[t] \in Seq(Frame) /\ Len(getting'[t]) = n + 1
      /\ \A k \in 1..n - 1 : getting'[t][k] = getting[t][k]
      /\ getting'[t][n] = f /\ getting'[t][n + 1] = g
  <2>1. <<f, g>> \in Seq(Frame) /\ Len(<<f, g>>) = 2 /\ <<f, g>>[1] = f /\ <<f, g>>[2] = g
    OBVIOUS
  <2> QED
    <3> DEFINE q == Front(getting[t])
               c == <<f, g>>
    <3>1. /\ q \in Seq(Frame) /\ Len(q) = n - 1 /\ c \in Seq(Frame) /\ Len(c) = 2
          /\ c[1] = f /\ c[2] = g /\ \A k \in 1..n - 1 : q[k] = getting[t][k]
      BY <1>4, <2>1
    <3>3. getting'[t] = q \o c
      BY <1>3
    <3> HIDE DEF n, q, c
    <3>2. /\ q \o c \in Seq(Frame) /\ Len(q \o c) = n + 1
          /\ \A k \in 1..n - 1 : (q \o c)[k] = q[k]
          /\ (q \o c)[n] = c[1] /\ (q \o c)[n + 1] = c[2]
      <4>1. /\ q \o c \in Seq(Frame) /\ Len(q \o c) = Len(q) + Len(c)
            /\ \A k \in 1..Len(q) + Len(c) :
                 (q \o c)[k] = IF k <= Len(q) THEN q[k] ELSE c[k - Len(q)]
        BY <3>1, ConcatProperties
      <4>2. Len(q) + Len(c) = n + 1 /\ n \in Nat /\ n >= 1 /\ Len(q) = n - 1
        BY <1>1, <3>1
      <4>3. ASSUME NEW k \in 1..n - 1
            PROVE  (q \o c)[k] = q[k]
        BY <4>1, <4>2
      <4>4. (q \o c)[n] = c[1]
        <5>1. n \in 1..n + 1 /\ ~(n <= n - 1) /\ n - (n - 1) = 1
          BY <4>2
        <5> QED
          BY <4>1, <4>2, <5>1
      <4>5. (q \o c)[n + 1] = c[2]
        <5>1. n + 1 \in 1..n + 1 /\ ~(n + 1 <= n - 1) /\ n + 1 - (n - 1) = 2
          BY <4>2
        <5> QED
          BY <4>1, <4>2, <5>1
      <4> QED
        BY <4>1, <4>2, <4>3, <4>4, <4>5
    <3> QED
      BY <3>1, <3>2, <3>3
<1>6. \A s \in UserThread : s # t => getting'[s] = getting[s]
  BY <1>1, <1>2
<1>7. getting' \in [UserThread -> Seq(Frame)]
  BY <1>2, <1>3, <1>5 DEF ExitTyped
<1>8. \A s \in UserThread : /\ DOMAIN getting[s] = 1..Len(getting[s]) /\ Len(getting[s]) \in Nat
                            /\ DOMAIN getting'[s] = 1..Len(getting'[s])
  BY <1>7 DEF ExitTyped
<1> HIDE DEF n
<1>9. n = Len(getting[t])
  BY DEF n
<1> QED
  BY <1>1, <1>5, <1>6, <1>7, <1>8, <1>9

\* Who uses instances while the manager runs its callbacks.
LEMMA UserIsAllowed ==
  ASSUME ExitInv, NEW t \in UserThread, getting[t] # <<>>
  PROVE  exit_ # "done" /\ (t # MainThread => exit_ = "no")
BY DEF ExitInv, ExitPhase, ExitTyped

\* The innermost call returns with an instance that is made.
LEMMA ReturnsMade ==
  ASSUME ExitInv, NEW t \in UserThread, getting[t] # <<>>, ReplaceLast(t, <<>>),
         instance_[getting[t][Len(getting[t])].of] = "created",
         UNCHANGED <<instance_, exit_>>
  PROVE  /\ getting' \in [UserThread -> Seq(Frame)] /\ instance_' = instance_
         /\ CallsNest' /\ Constructs' /\ OneMaker' /\ MadeBeforeUse'
         /\ exit_' # "no" => \A s \in UserThread \ {MainThread} : getting'[s] = <<>>
         /\ exit_' # "done"
<1>1. /\ getting' \in [UserThread -> Seq(Frame)]
      /\ \A s \in UserThread : s # t => getting'[s] = getting[s]
      /\ Len(getting'[t]) = Len(getting[t]) - 1
      /\ \A s \in UserThread : \A k \in DOMAIN getting'[s] :
           /\ k \in DOMAIN getting[s] /\ getting'[s][k] = getting[s][k]
           /\ Len(getting'[s]) <= Len(getting[s])
           /\ k < Len(getting[s])
                \/ (s # t /\ k = Len(getting[s]) /\ Len(getting'[s]) = Len(getting[s]))
      /\ \A s \in UserThread : \A k \in DOMAIN getting[s] :
           \/ s = t /\ k = Len(getting[t])
           \/ k \in DOMAIN getting'[s] /\ getting'[s][k] = getting[s][k]
  BY Returns DEF ExitInv
<1>2. \A s \in UserThread : /\ Len(getting[s]) \in Nat /\ DOMAIN getting[s] = 1..Len(getting[s])
                            /\ Len(getting'[s]) \in Nat
                            /\ DOMAIN getting'[s] = 1..Len(getting'[s])
  BY <1>1, CallFacts DEF ExitInv
<1>3. CallsNest'
  <2> SUFFICES ASSUME NEW s \in UserThread, NEW k \in DOMAIN getting'[s],
                      k < Len(getting'[s])
               PROVE  getting'[s][k].at \in {"construct", "destroy"}
    BY DEF CallsNest
  <2>1. /\ k \in DOMAIN getting[s] /\ getting'[s][k] = getting[s][k]
        /\ Len(getting'[s]) <= Len(getting[s])
    BY <1>1
  <2>2. k < Len(getting[s])
    BY <1>2, <2>1
  <2> QED
    BY <2>1, <2>2 DEF ExitInv, CallsNest
<1>4. Constructs'
  <2> SUFFICES ASSUME NEW s \in UserThread, NEW k \in DOMAIN getting'[s],
                      getting'[s][k].at = "construct"
               PROVE  instance_[getting'[s][k].of] = "creating" /\ GotOrGetting(s, k)'
    BY DEF Constructs
  <2>1. k \in DOMAIN getting[s] /\ getting'[s][k] = getting[s][k]
    BY <1>1
  <2>2. instance_[getting[s][k].of] = "creating" /\ GotOrGetting(s, k)
    BY <2>1 DEF ExitInv, Constructs
  <2>3. ASSUME NEW u \in Uses(getting[s][k].of) \ getting[s][k].uses
        PROVE  instance_[u] = "created" \/ (k < Len(getting'[s]) /\ getting'[s][k + 1].of = u)
    <3>1. CASE instance_[u] = "created"
      BY <3>1
    <3>2. CASE k < Len(getting[s]) /\ getting[s][k + 1].of = u
      <4>1. k + 1 \in DOMAIN getting[s] /\ k \in Nat
        BY <1>2, <2>1, <3>2
      <4>2. CASE s = t /\ k + 1 = Len(getting[t])
        BY <3>2, <4>2
      <4>3. CASE k + 1 \in DOMAIN getting'[s] /\ getting'[s][k + 1] = getting[s][k + 1]
        <5>1. k < Len(getting'[s])
          BY <1>2, <4>1, <4>3
        <5> QED
          BY <3>2, <4>3, <5>1
      <4> QED
        BY <1>1, <4>1, <4>2, <4>3
    <3> QED
      BY <2>2, <3>1, <3>2 DEF GotOrGetting
  <2> QED
    BY <2>1, <2>2, <2>3 DEF GotOrGetting
<1>5. OneMaker'
  <2>1. \A s \in UserThread : \A k \in DOMAIN getting'[s] :
          k \in DOMAIN getting[s] /\ getting'[s][k] = getting[s][k]
    BY <1>1
  <2> QED
    BY <2>1 DEF ExitInv, OneMaker, Makes
<1>6. MadeBeforeUse'
  BY DEF ExitInv, MadeBeforeUse
<1>7. /\ exit_' # "no" => \A s \in UserThread \ {MainThread} : getting'[s] = <<>>
      /\ exit_' # "done"
  BY <1>1, UserIsAllowed DEF ExitInv, ExitPhase
<1> QED
  BY <1>1, <1>3, <1>4, <1>5, <1>6, <1>7

LEMMA LookFoundKeeps ==
  ASSUME ExitInv, NEW t \in UserThread, GetAt(t, "look"), FoundInstance(t),
         ReplaceLast(t, <<>>), UNCHANGED <<instance_, stack_, exit_>>
  PROVE  ExitInv'
<1> DEFINE n == Len(getting[t])
           f == getting[t][n]
<1>1. /\ getting[t] # <<>> /\ f.at = "look" /\ instance_[f.of] = "created"
      /\ n \in DOMAIN getting[t]
  BY CallFacts DEF GetAt, FoundInstance, This, ExitInv
<1>2. /\ getting' \in [UserThread -> Seq(Frame)]
      /\ CallsNest' /\ Constructs' /\ OneMaker' /\ MadeBeforeUse'
      /\ exit_' # "no" => \A s \in UserThread \ {MainThread} : getting'[s] = <<>>
      /\ exit_' # "done"
  BY <1>1, ReturnsMade
<1>3. /\ \A s \in UserThread : \A k \in DOMAIN getting'[s] :
           k \in DOMAIN getting[s] /\ getting'[s][k] = getting[s][k]
      /\ \A s \in UserThread : \A k \in DOMAIN getting[s] :
           \/ s = t /\ k = n
           \/ k \in DOMAIN getting'[s] /\ getting'[s][k] = getting[s][k]
  BY <1>1, Returns DEF ExitInv
<1>4. Registers' /\ Destroys'
  BY <1>3 DEF ExitInv, Registers, Destroys
<1>5. \A i \in Instance, at \in {"construct", "register"} :
        MadeByCall(i, at) => MadeByCall(i, at)'
  BY <1>1, <1>3 DEF MadeByCall
<1>6. StackInv'
  BY <1>5 DEF ExitInv, StackInv
<1>7. ExitTyped' /\ ExitPhase'
  BY <1>2 DEF ExitInv, ExitTyped, ExitPhase
<1> QED
  BY <1>2, <1>4, <1>6, <1>7 DEF ExitInv

LEMMA RegisterKeeps ==
  ASSUME ExitInv, NEW t \in UserThread, RegisterCallback(t)
  PROVE  ExitInv'
<1> DEFINE n == Len(getting[t])
           f == getting[t][n]
           m == Len(stack_)
<1>1. /\ getting[t] # <<>> /\ f.at = "register" /\ n \in DOMAIN getting[t]
      /\ This(t) = f.of /\ f.of \in Instance /\ instance_[f.of] = "created"
      /\ \A j \in DOMAIN stack_ : stack_[j] # f.of
  <2>1. getting[t] # <<>> /\ Last(getting[t]).at = "register"
    BY DEF RegisterCallback, GetAt
  <2>2. n \in DOMAIN getting[t] /\ Last(getting[t]) = f /\ f.of \in Instance
    BY <2>1, CallFacts DEF ExitInv
  <2> QED
    BY <2>1, <2>2 DEF This, ExitInv, Registers
<1>2. /\ ReplaceLast(t, <<>>) /\ UNCHANGED <<instance_, exit_>>
      /\ stack_' = Append(stack_, f.of) /\ exit_ # "running"
  BY <1>1 DEF RegisterCallback
<1>3. /\ getting' \in [UserThread -> Seq(Frame)]
      /\ CallsNest' /\ Constructs' /\ OneMaker' /\ MadeBeforeUse'
      /\ exit_' # "no" => \A s \in UserThread \ {MainThread} : getting'[s] = <<>>
      /\ exit_' # "done"
  BY <1>1, <1>2, ReturnsMade
<1>4. /\ \A s \in UserThread : \A k \in DOMAIN getting'[s] :
           k \in DOMAIN getting[s] /\ getting'[s][k] = getting[s][k] /\ (s # t \/ k # n)
      /\ \A s \in UserThread : \A k \in DOMAIN getting[s] :
           \/ s = t /\ k = n
           \/ k \in DOMAIN getting'[s] /\ getting'[s][k] = getting[s][k]
  <2>1. \A s \in UserThread : \A k \in DOMAIN getting[s] : k \in Int
    BY CallFacts DEF ExitInv
  <2> QED
    BY <1>1, <1>2, <2>1, Returns DEF ExitInv
<1>5. /\ m \in Nat /\ DOMAIN stack_ = 1..m
      /\ DOMAIN stack_' = 1..m + 1 /\ stack_' \in Seq(Instance)
      /\ \A j \in 1..m : stack_'[j] = stack_[j]
      /\ stack_'[m + 1] = f.of
  <2>1. stack_ \in Seq(Instance)
    BY DEF ExitInv, ExitTyped
  <2> QED
    BY <1>1, <1>2, <2>1
<1> HIDE DEF m, n, f
<1>6. Registers'
  <2> SUFFICES ASSUME NEW s \in UserThread, NEW k \in DOMAIN getting'[s],
                      getting'[s][k].at = "register"
               PROVE  /\ instance_[getting'[s][k].of] = "created"
                      /\ \A j \in DOMAIN stack_' : stack_'[j] # getting'[s][k].of
    BY <1>2 DEF Registers
  <2>1. /\ k \in DOMAIN getting[s] /\ getting'[s][k] = getting[s][k] /\ (s # t \/ k # n)
    BY <1>4
  <2>2. /\ instance_[getting[s][k].of] = "created"
        /\ \A j \in DOMAIN stack_ : stack_[j] # getting[s][k].of
    BY <2>1 DEF ExitInv, Registers
  <2>3. getting[s][k].of # f.of
    BY <1>1, <2>1 DEF ExitInv, OneMaker, Makes, n, f
  <2> QED
    BY <1>5, <2>1, <2>2, <2>3
<1>7. Destroys'
  BY <1>2, <1>4 DEF ExitInv, Destroys
<1>8. \A i \in Instance : /\ MadeByCall(i, "construct") => MadeByCall(i, "construct")'
                          /\ MadeByCall(i, "register") /\ i # f.of =>
                               MadeByCall(i, "register")'
  BY <1>1, <1>4 DEF MadeByCall, n, f
<1>9. \A j \in DOMAIN stack_' : instance_[stack_'[j]] = "created"
  BY <1>1, <1>5 DEF ExitInv, StackInv
<1>10. IsInjective(stack_')
  <2> SUFFICES ASSUME NEW a \in DOMAIN stack_', NEW b \in DOMAIN stack_',
                      stack_'[a] = stack_'[b]
               PROVE  a = b
    BY DEF IsInjective
  <2>1. \A c, d \in 1..m : stack_[c] = stack_[d] => c = d
    BY <1>5 DEF ExitInv, StackInv, IsInjective
  <2> QED
    BY <1>1, <1>5, <2>1
<1>11. \A i \in Instance : instance_[i] = "created" =>
         (\E j \in DOMAIN stack_' : stack_'[j] = i) \/ MadeByCall(i, "register")'
  <2> SUFFICES ASSUME NEW i \in Instance, instance_[i] = "created"
               PROVE  (\E j \in DOMAIN stack_' : stack_'[j] = i) \/ MadeByCall(i, "register")'
    OBVIOUS
  <2>1. m + 1 \in DOMAIN stack_' /\ DOMAIN stack_ \subseteq DOMAIN stack_'
    BY <1>5
  <2>2. CASE i = f.of
    BY <1>5, <2>1, <2>2
  <2>3. CASE i # f.of
    BY <1>5, <1>8, <2>1, <2>3 DEF ExitInv, StackInv
  <2> QED
    BY <2>2, <2>3
<1>12. StackInv'
  BY <1>2, <1>8, <1>9, <1>10, <1>11 DEF ExitInv, StackInv
<1>13. ExitTyped' /\ ExitPhase'
  BY <1>2, <1>3, <1>5 DEF ExitInv, ExitTyped, ExitPhase
<1> QED
  BY <1>3, <1>6, <1>7, <1>12, <1>13 DEF ExitInv

\* A call wins the compare-and-swap, or its constructor returns.
LEMMA MakerGoesOn ==
  ASSUME ExitInv, NEW t \in UserThread, getting[t] # <<>>,
         NEW f \in Frame, f.of = getting[t][Len(getting[t])].of,
         ReplaceLast(t, <<f>>), UNCHANGED <<stack_, exit_>>,
         \/ /\ getting[t][Len(getting[t])].at = "look" /\ f.at = "construct"
            /\ f.uses = Uses(f.of) /\ instance_[f.of] = "none"
            /\ instance_' = [instance_ EXCEPT ![f.of] = "creating"]
         \/ /\ getting[t][Len(getting[t])].at = "construct" /\ f.at = "register"
            /\ getting[t][Len(getting[t])].uses = {}
            /\ instance_' = [instance_ EXCEPT ![f.of] = "created"]
  PROVE  ExitInv'
<1> DEFINE n == Len(getting[t])
<1>1. /\ getting' \in [UserThread -> Seq(Frame)]
      /\ \A s \in UserThread : /\ Len(getting'[s]) = Len(getting[s])
                               /\ DOMAIN getting'[s] = DOMAIN getting[s]
      /\ \A s \in UserThread : s # t => getting'[s] = getting[s]
      /\ \A s \in UserThread : \A k \in DOMAIN getting[s] :
           s # t \/ k # n => getting'[s][k] = getting[s][k]
      /\ getting'[t][n] = f
  BY GoesOn DEF ExitInv
<1>2. /\ \A s \in UserThread : /\ Len(getting[s]) \in Nat
                               /\ DOMAIN getting[s] = 1..Len(getting[s])
                               /\ \A k \in DOMAIN getting[s] : getting[s][k].of \in Instance
      /\ n \in DOMAIN getting[t] /\ f.of \in Instance
      /\ instance_ \in [Instance -> {"none", "creating", "created"}]
      /\ n \in Nat
  BY CallFacts DEF ExitInv, ExitTyped
<1> DEFINE last == getting[t][n]
<1>3. f.of = last.of /\ n = Len(getting[t])
  OBVIOUS
<1>4. \/ /\ last.at = "look" /\ f.at = "construct"
         /\ f.uses = Uses(f.of) /\ instance_[f.of] = "none"
         /\ instance_' = [instance_ EXCEPT ![f.of] = "creating"]
         /\ instance_'[f.of] = "creating"
      \/ /\ last.at = "construct" /\ f.at = "register" /\ last.uses = {}
         /\ instance_[f.of] = "creating"
         /\ instance_' = [instance_ EXCEPT ![f.of] = "created"]
         /\ instance_'[f.of] = "created"
  BY <1>2, <1>3 DEF ExitInv, Constructs
<1>5. /\ \A i \in Instance : i # f.of => instance_'[i] = instance_[i]
      /\ \A i \in Instance : instance_[i] = "created" => instance_'[i] = "created"
      /\ instance_' \in [Instance -> {"none", "creating", "created"}]
      /\ instance_[f.of] # "created"
  BY <1>2, <1>4
<1> HIDE DEF n
<1>6. \A s \in UserThread : \A k \in DOMAIN getting[s] :
        Makes(getting[s][k]) /\ (s # t \/ k # n) => getting[s][k].of # f.of
  <2> SUFFICES ASSUME NEW s \in UserThread, NEW k \in DOMAIN getting[s],
                      Makes(getting[s][k]), s # t \/ k # n, getting[s][k].of = f.of
               PROVE  FALSE
    OBVIOUS
  <2>1. instance_[f.of] # "none"
    BY DEF Makes, ExitInv, Constructs, Registers
  <2>2. Makes(last)
    BY <1>4, <2>1 DEF Makes
  <2> QED
    BY <1>2, <1>3, <2>2 DEF ExitInv, OneMaker
<1>7. CallsNest'
  <2> SUFFICES ASSUME NEW s \in UserThread, NEW k \in DOMAIN getting'[s],
                      k < Len(getting'[s])
               PROVE  getting'[s][k].at \in {"construct", "destroy"}
    BY DEF CallsNest
  <2>1. k \in DOMAIN getting[s] /\ k < Len(getting[s])
    BY <1>1
  <2>2. s # t \/ k # n
    BY <1>2, <1>3, <2>1
  <2> QED
    BY <1>1, <2>1, <2>2 DEF ExitInv, CallsNest
<1>8. Constructs'
  <2> SUFFICES ASSUME NEW s \in UserThread, NEW k \in DOMAIN getting'[s],
                      getting'[s][k].at = "construct"
               PROVE  instance_'[getting'[s][k].of] = "creating" /\ GotOrGetting(s, k)'
    BY DEF Constructs
  <2>1. k \in DOMAIN getting[s] /\ k \in Nat
    BY <1>1, <1>2
  <2>2. CASE s = t /\ k = n
    <3>1. getting'[s][k] = f /\ f.uses = Uses(f.of) /\ instance_'[f.of] = "creating"
      BY <1>1, <1>4, <2>2
    <3> QED
      BY <3>1 DEF GotOrGetting
  <2>3. CASE s # t \/ k # n
    <3>1. getting'[s][k] = getting[s][k]
      BY <1>1, <2>1, <2>3
    <3>2. instance_[getting[s][k].of] = "creating" /\ GotOrGetting(s, k)
      BY <2>1, <3>1 DEF ExitInv, Constructs
    <3>3. getting[s][k].of # f.of /\ getting[s][k].of \in Instance
      BY <1>2, <1>6, <2>1, <2>3, <3>1 DEF Makes
    <3>4. instance_'[getting[s][k].of] = "creating"
      BY <1>5, <3>2, <3>3
    <3>5. ASSUME NEW u \in Uses(getting[s][k].of) \ getting[s][k].uses
          PROVE  instance_'[u] = "created" \/ (k < Len(getting'[s]) /\ getting'[s][k + 1].of = u)
      <4>1. u \in Instance
        BY <3>3
      <4>2. CASE instance_[u] = "created"
        BY <1>5, <4>1, <4>2
      <4>3. CASE k < Len(getting[s]) /\ getting[s][k + 1].of = u
        <5>1. k + 1 \in DOMAIN getting[s]
          BY <1>2, <2>1, <4>3
        <5>2. getting'[s][k + 1].of = u
          BY <1>1, <1>3, <4>3, <5>1
        <5> QED
          BY <1>1, <4>3, <5>2
      <4> QED
        BY <3>2, <4>2, <4>3 DEF GotOrGetting
    <3> QED
      BY <3>1, <3>4, <3>5 DEF GotOrGetting
  <2> QED
    BY <2>2, <2>3
<1>9. Registers'
  <2> SUFFICES ASSUME NEW s \in UserThread, NEW k \in DOMAIN getting'[s],
                      getting'[s][k].at = "register"
               PROVE  /\ instance_'[getting'[s][k].of] = "created"
                      /\ \A j \in DOMAIN stack_ : stack_[j] # getting'[s][k].of
    BY DEF Registers
  <2>1. k \in DOMAIN getting[s]
    BY <1>1
  <2>2. CASE s = t /\ k = n
    <3>1. getting'[s][k] = f /\ instance_'[f.of] = "created"
      BY <1>1, <1>4, <2>2
    <3>2. \A j \in DOMAIN stack_ : instance_[stack_[j]] = "created"
      BY DEF ExitInv, StackInv
    <3> QED
      BY <1>5, <3>1, <3>2
  <2>3. CASE s # t \/ k # n
    <3>1. getting'[s][k] = getting[s][k]
      BY <1>1, <2>1, <2>3
    <3> QED
      BY <1>2, <1>5, <2>1, <3>1 DEF ExitInv, Registers
  <2> QED
    BY <2>2, <2>3
<1>10. Destroys'
  <2> SUFFICES ASSUME NEW s \in UserThread, NEW k \in DOMAIN getting'[s],
                      getting'[s][k].at = "destroy"
               PROVE  /\ s = MainThread /\ k = 1 /\ exit_ = "running"
                      /\ stack_ # <<>> /\ getting'[s][k].of = stack_[Len(stack_)]
    BY DEF Destroys
  <2>1. k \in DOMAIN getting[s] /\ (s # t \/ k # n)
    BY <1>1, <1>4
  <2> QED
    BY <1>1, <2>1 DEF ExitInv, Destroys
<1>11. OneMaker'
  <2> SUFFICES ASSUME NEW s \in UserThread, NEW k \in DOMAIN getting'[s],
                      NEW r \in UserThread, NEW l \in DOMAIN getting'[r],
                      Makes(getting'[s][k]), Makes(getting'[r][l]),
                      getting'[s][k].of = getting'[r][l].of
               PROVE  s = r /\ k = l
    BY DEF OneMaker, Makes
  <2>1. k \in DOMAIN getting[s] /\ l \in DOMAIN getting[r]
    BY <1>1
  <2>2. CASE (s # t \/ k # n) /\ (r # t \/ l # n)
    BY <1>1, <2>1, <2>2 DEF ExitInv, OneMaker, Makes
  <2>3. CASE s = t /\ k = n /\ (r # t \/ l # n)
    BY <1>1, <1>6, <2>1, <2>3 DEF Makes
  <2>4. CASE r = t /\ l = n /\ (s # t \/ k # n)
    BY <1>1, <1>6, <2>1, <2>4 DEF Makes
  <2> QED
    BY <2>2, <2>3, <2>4
<1>12. StackInv'
  <2>1. \A i \in Instance : i # f.of =>
          /\ MadeByCall(i, "construct") => MadeByCall(i, "construct")'
          /\ MadeByCall(i, "register") => MadeByCall(i, "register")'
    <3>1. ASSUME NEW i \in Instance, i # f.of, NEW at,
                 NEW s \in UserThread, NEW k \in DOMAIN getting[s],
                 getting[s][k].at = at, getting[s][k].of = i
          PROVE  /\ k \in DOMAIN getting'[s]
                 /\ getting'[s][k].at = at /\ getting'[s][k].of = i
      <4>1. s # t \/ k # n
        BY <1>3, <3>1
      <4> QED
        BY <1>1, <3>1, <4>1
    <3>2. ASSUME NEW i \in Instance, i # f.of, MadeByCall(i, "construct")
          PROVE  MadeByCall(i, "construct")'
      <4>1. PICK s \in UserThread : \E k \in DOMAIN getting[s] :
              getting[s][k].at = "construct" /\ getting[s][k].of = i
        BY <3>2 DEF MadeByCall
      <4>2. PICK k \in DOMAIN getting[s] :
              getting[s][k].at = "construct" /\ getting[s][k].of = i
        BY <4>1
      <4>3. k \in DOMAIN getting'[s] /\ getting'[s][k].at = "construct" /\ getting'[s][k].of = i
        BY <3>1, <3>2, <4>2
      <4> QED
        BY <4>3 DEF MadeByCall
    <3>3. ASSUME NEW i \in Instance, i # f.of, MadeByCall(i, "register")
          PROVE  MadeByCall(i, "register")'
      <4>1. PICK s \in UserThread : \E k \in DOMAIN getting[s] :
              getting[s][k].at = "register" /\ getting[s][k].of = i
        BY <3>3 DEF MadeByCall
      <4>2. PICK k \in DOMAIN getting[s] :
              getting[s][k].at = "register" /\ getting[s][k].of = i
        BY <4>1
      <4>3. k \in DOMAIN getting'[s] /\ getting'[s][k].at = "register" /\ getting'[s][k].of = i
        BY <3>1, <3>3, <4>2
      <4> QED
        BY <4>3 DEF MadeByCall
    <3> QED
      BY <3>2, <3>3
  <2>2. MadeByCall(f.of, f.at)'
    BY <1>1, <1>2 DEF MadeByCall
  <2>3. \A j \in DOMAIN stack_ : stack_[j] \in Instance
    BY DEF ExitInv, ExitTyped
  <2>4. \A i \in Instance : instance_'[i] = "creating" => MadeByCall(i, "construct")'
    BY <1>4, <1>5, <2>1, <2>2 DEF ExitInv, StackInv
  <2>5. \A i \in Instance : instance_'[i] = "created" =>
          (\E j \in DOMAIN stack_ : stack_[j] = i) \/ MadeByCall(i, "register")'
    BY <1>4, <1>5, <2>1, <2>2 DEF ExitInv, StackInv
  <2>6. \A j \in DOMAIN stack_ : instance_'[stack_[j]] = "created"
    BY <1>5, <2>3 DEF ExitInv, StackInv
  <2> QED
    BY <2>4, <2>5, <2>6 DEF ExitInv, StackInv
<1>13. MadeBeforeUse'
  <2> SUFFICES ASSUME exit_ = "no", NEW i \in Instance, instance_'[i] = "created",
                      NEW u \in Uses(i)
               PROVE  instance_'[u] = "created"
    BY DEF MadeBeforeUse
  <2>1. u \in Instance
    OBVIOUS
  <2>2. CASE i # f.of
    BY <1>5, <2>1, <2>2 DEF ExitInv, MadeBeforeUse
  <2>3. CASE i = f.of
    <3>1. last.at = "construct" /\ last.uses = {} /\ last.of = i
      BY <1>3, <1>4, <2>3
    <3>2. GotOrGetting(t, n)
      BY <1>2, <3>1 DEF ExitInv, Constructs
    <3>3. instance_[u] = "created"
      BY <1>2, <1>3, <3>1, <3>2 DEF GotOrGetting
    <3> QED
      BY <1>5, <2>1, <3>3
  <2> QED
    BY <2>2, <2>3
<1>14. ExitTyped' /\ ExitPhase'
  BY <1>1, <1>5, UserIsAllowed DEF ExitInv, ExitTyped, ExitPhase
<1> QED
  BY <1>7, <1>8, <1>9, <1>10, <1>11, <1>12, <1>13, <1>14 DEF ExitInv

LEMMA GetUsedKeeps ==
  ASSUME ExitInv, NEW t \in UserThread, GetUsed(t)
  PROVE  ExitInv'
<1> DEFINE n == Len(getting[t])
           last == getting[t][n]
<1>1. /\ getting[t] # <<>> /\ n \in DOMAIN getting[t] /\ n \in Nat
      /\ Last(getting[t]) = last /\ last \in Frame
      /\ last.at \in {"construct", "destroy"}
      /\ UNCHANGED <<instance_, stack_, exit_>>
  BY CallFacts DEF GetUsed, GetAt, ExitInv
<1>2. PICK i \in last.uses :
        ReplaceLast(t, <<[Last(getting[t]) EXCEPT !.uses = @ \ {i}], Look(i)>>)
  BY <1>1 DEF GetUsed
<1> DEFINE f == [last EXCEPT !.uses = @ \ {i}]
           g == Look(i)
<1>3. /\ f \in Frame /\ f.at = last.at /\ f.of = last.of /\ f.uses = last.uses \ {i}
      /\ g \in Frame /\ g.at = "look" /\ g.of = i
      /\ ReplaceLast(t, <<f, g>>)
  BY <1>1, <1>2 DEF Frame, Look
<1> HIDE DEF f, g
<1>4. /\ getting' \in [UserThread -> Seq(Frame)]
      /\ \A s \in UserThread : s # t => getting'[s] = getting[s]
      /\ Len(getting'[t]) = n + 1
      /\ \A s \in UserThread : \A k \in DOMAIN getting[s] :
           /\ k \in DOMAIN getting'[s]
           /\ s # t \/ k # n => getting'[s][k] = getting[s][k]
      /\ \A s \in UserThread : \A k \in DOMAIN getting'[s] :
           k \in DOMAIN getting[s] \/ (s = t /\ k = n + 1)
      /\ getting'[t][n] = f
      /\ getting'[t][n + 1] = g
  BY <1>1, <1>3, Descends DEF ExitInv
<1>5. \A s \in UserThread : Len(getting[s]) \in Nat /\ DOMAIN getting[s] = 1..Len(getting[s])
  BY CallFacts DEF ExitInv
<1>6. n = Len(getting[t]) /\ last = getting[t][n]
  OBVIOUS
<1> HIDE DEF n, last
\* Where a call was its kind stays, and where there was none is a call that looks.
<1>7. ASSUME NEW s \in UserThread, NEW k \in DOMAIN getting'[s],
             getting'[s][k].at # "look"
      PROVE  /\ k \in DOMAIN getting[s] /\ k \in Nat
             /\ getting'[s][k].at = getting[s][k].at
             /\ getting'[s][k].of = getting[s][k].of
             /\ getting'[s][k] = getting[s][k] \/ (s = t /\ k = n)
  <2>1. ~(s = t /\ k = n + 1)
    BY <1>3, <1>4, <1>7
  <2>2. k \in DOMAIN getting[s]
    BY <1>4, <2>1
  <2> QED
    BY <1>3, <1>4, <1>5, <1>6, <2>2
<1>8. CallsNest'
  <2> SUFFICES ASSUME NEW s \in UserThread, NEW k \in DOMAIN getting'[s],
                      k < Len(getting'[s])
               PROVE  getting'[s][k].at \in {"construct", "destroy"}
    BY DEF CallsNest
  <2>1. CASE s = t /\ k = n
    BY <1>1, <1>3, <1>4, <2>1
  <2>2. CASE s # t \/ k # n
    <3>1. ~(s = t /\ k = n + 1)
      BY <1>1, <1>4
    <3>2. k \in DOMAIN getting[s]
      BY <1>4, <3>1
    <3>3. k < Len(getting[s]) /\ getting'[s][k] = getting[s][k]
      BY <1>1, <1>4, <1>5, <1>6, <2>2, <3>2
    <3> QED
      BY <3>2, <3>3 DEF ExitInv, CallsNest
  <2> QED
    BY <2>1, <2>2
<1>9. Constructs'
  <2> SUFFICES ASSUME NEW s \in UserThread, NEW k \in DOMAIN getting'[s],
                      getting'[s][k].at = "construct"
               PROVE  instance_'[getting'[s][k].of] = "creating" /\ GotOrGetting(s, k)'
    BY DEF Constructs
  <2>1. /\ k \in DOMAIN getting[s] /\ k \in Nat
        /\ getting[s][k].at = "construct"
        /\ getting'[s][k].of = getting[s][k].of
        /\ getting'[s][k] = getting[s][k] \/ (s = t /\ k = n)
    BY <1>7
  <2>2. instance_[getting[s][k].of] = "creating" /\ GotOrGetting(s, k)
    BY <2>1 DEF ExitInv, Constructs
  <2>3. CASE s = t /\ k = n
    <3>1. getting'[s][k] = f /\ f.of = last.of /\ f.uses = last.uses \ {i}
      BY <1>3, <1>4, <2>3
    <3>2. k < Len(getting'[s]) /\ getting'[s][k + 1].of = i
      BY <1>1, <1>3, <1>4, <2>3
    <3>3. ASSUME NEW u \in Uses(last.of) \ last.uses
          PROVE  instance_[u] = "created"
      BY <1>1, <1>6, <2>2, <2>3 DEF GotOrGetting
    <3> QED
      BY <1>1, <2>1, <2>2, <3>1, <3>2, <3>3 DEF GotOrGetting
  <2>4. CASE s # t \/ k # n
    <3>1. getting'[s][k] = getting[s][k]
      BY <2>1, <2>4
    <3>2. ASSUME k < Len(getting[s])
          PROVE  k < Len(getting'[s]) /\ getting'[s][k + 1].of = getting[s][k + 1].of
      <4>1. k + 1 \in DOMAIN getting[s]
        BY <1>5, <2>1, <3>2
      <4>2. getting'[s][k + 1].of = getting[s][k + 1].of
        BY <1>3, <1>4, <1>6, <4>1
      <4>3. k < Len(getting'[s])
        <5>1. CASE s = t
          BY <1>1, <1>4, <1>6, <2>1, <3>2, <5>1
        <5>2. CASE s # t
          BY <1>4, <3>2, <5>2
        <5> QED
          BY <5>1, <5>2
      <4> QED
        BY <4>2, <4>3
    <3> QED
      BY <1>1, <2>2, <3>1, <3>2 DEF GotOrGetting
  <2> QED
    BY <2>3, <2>4
<1>10. Registers' /\ Destroys' /\ OneMaker'
  BY <1>1, <1>7 DEF ExitInv, Registers, Destroys, OneMaker, Makes
<1>11. \A j \in Instance, at \in {"construct", "register"} :
         MadeByCall(j, at) => MadeByCall(j, at)'
  <2> SUFFICES ASSUME NEW j \in Instance, NEW at \in {"construct", "register"},
                      NEW s \in UserThread, NEW k \in DOMAIN getting[s],
                      getting[s][k].at = at, getting[s][k].of = j
               PROVE  /\ k \in DOMAIN getting'[s]
                      /\ getting'[s][k].at = at /\ getting'[s][k].of = j
    BY DEF MadeByCall
  <2> QED
    BY <1>3, <1>4, <1>6
<1>12. StackInv' /\ MadeBeforeUse'
  BY <1>1, <1>11 DEF ExitInv, StackInv, MadeBeforeUse
<1>13. ExitTyped' /\ ExitPhase'
  BY <1>1, <1>4, UserIsAllowed DEF ExitInv, ExitTyped, ExitPhase
<1> QED
  BY <1>8, <1>9, <1>10, <1>12, <1>13 DEF ExitInv

LEMMA GetKeeps ==
  ASSUME ExitInv, NEW t \in UserThread, NEW i \in Instance, Get(t, i)
  PROVE  ExitInv'
<1>1. /\ exit_ = "no" /\ getting[t] = <<>> /\ Look(i) \in Frame /\ Look(i).at = "look"
      /\ getting' = [getting EXCEPT ![t] = <<Look(i)>>]
      /\ UNCHANGED <<instance_, stack_, exit_>>
  BY DEF Get, Look, Frame
<1>2. /\ getting' \in [UserThread -> Seq(Frame)]
      /\ getting'[t] = <<Look(i)>>
      /\ \A s \in UserThread : s # t => getting'[s] = getting[s]
  BY <1>1 DEF ExitInv, ExitTyped
<1>3. /\ Len(getting'[t]) = 1 /\ DOMAIN getting'[t] = {1} /\ getting'[t][1].at = "look"
      /\ DOMAIN getting[t] = {}
  BY <1>1, <1>2
<1>4. \A s \in UserThread : \A k \in DOMAIN getting'[s] :
        getting'[s][k].at # "look" => s # t
  BY <1>3
<1>5. CallsNest'
  <2> SUFFICES ASSUME NEW s \in UserThread, NEW k \in DOMAIN getting'[s],
                      k < Len(getting'[s])
               PROVE  getting'[s][k].at \in {"construct", "destroy"}
    BY DEF CallsNest
  <2>1. ASSUME s = t PROVE FALSE
    <3>1. k \in {1} /\ k < 1
      BY <1>3, <2>1
    <3> QED
      BY <3>1
  <2> QED
    BY <1>2, <2>1 DEF ExitInv, CallsNest
<1>6. Constructs'
  <2> SUFFICES ASSUME NEW s \in UserThread, NEW k \in DOMAIN getting'[s],
                      getting'[s][k].at = "construct"
               PROVE  instance_'[getting'[s][k].of] = "creating" /\ GotOrGetting(s, k)'
    BY DEF Constructs
  <2>1. getting'[s] = getting[s]
    BY <1>2, <1>4
  <2> QED
    BY <1>1, <2>1 DEF ExitInv, Constructs, GotOrGetting
<1>7. Registers' /\ Destroys'
  BY <1>1, <1>2, <1>4 DEF ExitInv, Registers, Destroys
<1>8. OneMaker'
  BY <1>2, <1>4 DEF ExitInv, OneMaker, Makes
<1>9. \A j \in Instance, at \in {"construct", "register"} :
        MadeByCall(j, at) => MadeByCall(j, at)'
  BY <1>2, <1>3 DEF MadeByCall
<1>10. StackInv' /\ MadeBeforeUse'
  BY <1>1, <1>9 DEF ExitInv, StackInv, MadeBeforeUse
<1>11. ExitTyped' /\ ExitPhase'
  BY <1>1, <1>2 DEF ExitInv, ExitTyped, ExitPhase
<1> QED
  BY <1>5, <1>6, <1>7, <1>8, <1>10, <1>11 DEF ExitInv

LEMMA RunCallbackKeeps ==
  ASSUME ExitInv, RunCallback
  PROVE  ExitInv'
<1> DEFINE i == stack_[Len(stack_)]
           f == [at |-> "destroy", of |-> i, uses |-> Uses(i)]
<1>1. /\ exit_ = "running" /\ getting[MainThread] = <<>> /\ stack_ # <<>>
      /\ Last(stack_) = i /\ i \in Instance /\ f \in Frame /\ f.at = "destroy" /\ f.of = i
      /\ getting' = [getting EXCEPT ![MainThread] = <<f>>]
      /\ UNCHANGED <<instance_, stack_, exit_>>
  <2>1. stack_ \in Seq(Instance) /\ stack_ # <<>> /\ Last(stack_) = i
    BY DEF RunCallback, ExitInv, ExitTyped, Last
  <2>2. i \in Instance
    BY <2>1
  <2>3. f \in Frame
    BY <2>2 DEF Frame
  <2> QED
    BY <2>1, <2>2, <2>3 DEF RunCallback
<1> HIDE DEF f
<1>2. /\ getting' \in [UserThread -> Seq(Frame)]
      /\ getting'[MainThread] = <<f>>
      /\ \A s \in UserThread \ {MainThread} : getting'[s] = <<>> /\ getting[s] = <<>>
  BY <1>1 DEF ExitInv, ExitTyped, ExitPhase
<1>3. /\ Len(getting'[MainThread]) = 1 /\ DOMAIN getting'[MainThread] = {1}
      /\ getting'[MainThread][1] = f
      /\ \A s \in UserThread : DOMAIN getting[s] = {}
      /\ \A s \in UserThread \ {MainThread} : DOMAIN getting'[s] = {}
  BY <1>1, <1>2
<1>4. \A s \in UserThread : \A k \in DOMAIN getting'[s] :
        s = MainThread /\ k = 1 /\ getting'[s][k] = f /\ ~(k < Len(getting'[s]))
  <2> SUFFICES ASSUME NEW s \in UserThread, NEW k \in DOMAIN getting'[s]
               PROVE  s = MainThread /\ k = 1 /\ getting'[s][k] = f /\ ~(k < Len(getting'[s]))
    OBVIOUS
  <2>1. s = MainThread
    BY <1>3
  <2>2. k \in {1}
    BY <1>3, <2>1
  <2>3. k = 1 /\ getting'[s][k] = f /\ Len(getting'[s]) = 1
    BY <1>3, <2>1, <2>2
  <2> QED
    BY <2>1, <2>3
<1>5. CallsNest' /\ Constructs' /\ Registers' /\ OneMaker'
  BY <1>1, <1>4 DEF CallsNest, Constructs, Registers, OneMaker, Makes
<1>6. Destroys'
  BY <1>1, <1>4 DEF Destroys
<1>7. \A j \in Instance, at \in {"construct", "register"} : ~MadeByCall(j, at)
  BY <1>3 DEF MadeByCall
<1>8. StackInv' /\ MadeBeforeUse'
  BY <1>1, <1>7 DEF ExitInv, StackInv, MadeBeforeUse
<1>9. ExitTyped' /\ ExitPhase'
  BY <1>1, <1>2 DEF ExitInv, ExitTyped, ExitPhase
<1> QED
  BY <1>5, <1>6, <1>8, <1>9 DEF ExitInv

\* OnExit runs to its end, when no other call is left.
LEMMA DeleteKeeps ==
  ASSUME ExitInv, Delete
  PROVE  ExitInv'
<1> DEFINE n == Len(getting[MainThread])
           f == getting[MainThread][n]
           m == Len(stack_)
<1>1. /\ getting[MainThread] # <<>> /\ n \in DOMAIN getting[MainThread]
      /\ f.at = "destroy" /\ This(MainThread) = f.of
  BY CallFacts DEF Delete, GetAt, This, ExitInv
<1>2. /\ n = 1 /\ exit_ = "running" /\ stack_ # <<>> /\ f.of = stack_[m]
  BY <1>1 DEF ExitInv, Destroys
<1>3. /\ ReplaceLast(MainThread, <<>>) /\ UNCHANGED exit_
      /\ instance_' = [instance_ EXCEPT ![f.of] = "none"]
      /\ stack_' = Front(stack_)
  BY <1>1 DEF Delete
<1>4. /\ stack_ \in Seq(Instance) /\ m \in Nat /\ m >= 1 /\ DOMAIN stack_ = 1..m
      /\ f.of \in Instance /\ m \in DOMAIN stack_
  <2>1. stack_ \in Seq(Instance)
    BY DEF ExitInv, ExitTyped
  <2> QED
    BY <1>2, <2>1
<1> HIDE DEF f
<1>5. /\ stack_' \in Seq(Instance) /\ DOMAIN stack_' = 1..m - 1
      /\ \A j \in 1..m - 1 : stack_'[j] = stack_[j]
  <2> DEFINE p == m - 1
  <2>1. p \in Nat /\ p = m - 1 /\ p \in Int /\ \A j \in 1..p : stack_[j] \in Instance
    BY <1>4
  <2>2. stack_' = SubSeq(stack_, 1, p)
    BY <1>3 DEF Front
  <2> HIDE DEF p, m
  <2>3. /\ SubSeq(stack_, 1, p) \in Seq(Instance)
        /\ Len(SubSeq(stack_, 1, p)) = IF 1 <= p THEN p - 1 + 1 ELSE 0
        /\ \A j \in 1..p - 1 + 1 : SubSeq(stack_, 1, p)[j] = stack_[1 + j - 1]
    <3>1. 1 \in Int /\ p \in Int
      BY <2>1
    <3> QED
      BY <2>1, <3>1, SubSeqProperties
  <2>4. Len(stack_') = p /\ \A j \in 1..p : stack_'[j] = stack_[j]
    BY <2>1, <2>2, <2>3
  <2>5. stack_' \in Seq(Instance) /\ DOMAIN stack_' = 1..p
    BY <2>2, <2>3, <2>4
  <2> QED
    BY <2>1, <2>4, <2>5
<1>6. /\ getting' \in [UserThread -> Seq(Frame)]
      /\ \A s \in UserThread : s # MainThread => getting'[s] = getting[s]
      /\ Len(getting'[MainThread]) = 0
  BY <1>1, <1>2, <1>3, Returns DEF ExitInv
<1>7. \A s \in UserThread : getting'[s] = <<>> /\ DOMAIN getting'[s] = {}
  <2>1. getting'[MainThread] \in Seq(Frame)
    BY <1>6
  <2>2. getting'[MainThread] = <<>>
    BY <1>6, <2>1
  <2> QED
    BY <1>2, <1>6, <2>2 DEF ExitInv, ExitPhase
<1>8. CallsNest' /\ Constructs' /\ Registers' /\ OneMaker' /\ Destroys'
  BY <1>7 DEF CallsNest, Constructs, Registers, OneMaker, Destroys
<1>9. ASSUME NEW s \in UserThread, NEW k \in DOMAIN getting[s]
      PROVE  getting[s][k].at = "destroy"
  <2>1. s = MainThread
    BY <1>2, <1>9 DEF ExitInv, ExitPhase
  <2>2. DOMAIN getting[MainThread] = 1..1
    BY <1>2, CallFacts DEF ExitInv
  <2> QED
    BY <1>1, <1>2, <2>1, <2>2 DEF f
<1>10. \A i \in Instance, at \in {"construct", "register"} : ~MadeByCall(i, at)
  BY <1>9 DEF MadeByCall
<1>11. /\ instance_ \in [Instance -> {"none", "creating", "created"}]
       /\ instance_' \in [Instance -> {"none", "creating", "created"}]
       /\ instance_'[f.of] = "none"
       /\ \A i \in Instance : i # f.of => instance_'[i] = instance_[i]
  BY <1>3, <1>4 DEF ExitInv, ExitTyped
<1> HIDE DEF m
<1>12. StackInv'
  <2>1. \A i \in Instance : instance_'[i] # "creating"
    BY <1>10, <1>11 DEF ExitInv, StackInv
  <2>2. ASSUME NEW i \in Instance, instance_'[i] = "created"
        PROVE  \E j \in DOMAIN stack_' : stack_'[j] = i
    <3>1. PICK j \in DOMAIN stack_ : stack_[j] = i
      BY <1>10, <1>11, <2>2 DEF ExitInv, StackInv
    <3>2. j \in 1..m - 1
      BY <1>2, <1>4, <1>11, <2>2, <3>1 DEF m
    <3> QED
      BY <1>5, <3>1, <3>2
  <2>3. \A a, b \in 1..m : stack_[a] = stack_[b] => a = b
    BY <1>4 DEF ExitInv, StackInv, IsInjective
  <2>4. ASSUME NEW j \in DOMAIN stack_'
        PROVE  instance_'[stack_'[j]] = "created"
    <3>1. j \in 1..m /\ j # m /\ stack_'[j] = stack_[j] /\ m \in 1..m
      BY <1>4, <1>5
    <3>2. stack_[j] # f.of /\ stack_[j] \in Instance
      BY <1>2, <1>4, <2>3, <3>1 DEF m
    <3> QED
      BY <1>4, <1>11, <3>1, <3>2 DEF ExitInv, StackInv
  <2>5. IsInjective(stack_')
    <3>1. \A j \in DOMAIN stack_' : j \in 1..m
      BY <1>4, <1>5
    <3> QED
      BY <1>5, <2>3, <3>1 DEF IsInjective
  <2> QED
    BY <2>1, <2>2, <2>4, <2>5 DEF StackInv
<1>13. MadeBeforeUse' /\ ExitPhase' /\ ExitTyped'
  BY <1>2, <1>3, <1>5, <1>6, <1>7, <1>11 DEF MadeBeforeUse, ExitPhase, ExitTyped
<1> QED
  BY <1>8, <1>12, <1>13 DEF ExitInv

LEMMA ExitStepKeeps == ExitInv /\ [ExitNext]_exitVars => ExitInv'
<1> SUFFICES ASSUME ExitInv, [ExitNext]_exitVars
             PROVE  ExitInv'
  OBVIOUS
<1>1. ASSUME NEW t \in UserThread, NEW i \in Instance, Get(t, i)
      PROVE  ExitInv'
  BY <1>1, GetKeeps
<1>2. ASSUME NEW t \in UserThread, LookAtInstance(t)
      PROVE  ExitInv'
  <2>1. getting[t] # <<>> /\ Last(getting[t]) = getting[t][Len(getting[t])]
        /\ Last(getting[t]).at = "look" /\ Last(getting[t]).of \in Instance
    BY <1>2, CallFacts DEF LookAtInstance, GetAt, ExitInv
  <2>2. CASE FoundInstance(t) /\ ReplaceLast(t, <<>>) /\ UNCHANGED instance_
    BY <1>2, <2>2, LookFoundKeeps DEF LookAtInstance
  <2>3. CASE /\ instance_[This(t)] = "none"
             /\ instance_' = [instance_ EXCEPT ![This(t)] = "creating"]
             /\ Goes(t, "construct", Uses(This(t)))
    <3> DEFINE f == [at |-> "construct", of |-> This(t), uses |-> Uses(This(t))]
    <3>1. /\ f \in Frame /\ f.of = getting[t][Len(getting[t])].of /\ f.at = "construct"
          /\ f.uses = Uses(f.of) /\ f.of = This(t)
      BY <2>1 DEF Frame, This
    <3>2. ReplaceLast(t, <<f>>) /\ UNCHANGED <<stack_, exit_>>
      BY <1>2, <2>3 DEF LookAtInstance, Goes
    <3> HIDE DEF f
    <3> QED
      BY <2>1, <2>3, <3>1, <3>2, MakerGoesOn
  <2> QED
    BY <1>2, <2>2, <2>3 DEF LookAtInstance
<1>3. ASSUME NEW t \in UserThread, GetUsed(t)
      PROVE  ExitInv'
  BY <1>3, GetUsedKeeps
<1>4. ASSUME NEW t \in UserThread, Publish(t)
      PROVE  ExitInv'
  <2>1. /\ getting[t] # <<>> /\ Last(getting[t]) = getting[t][Len(getting[t])]
        /\ Last(getting[t]).at = "construct" /\ Last(getting[t]).of \in Instance
        /\ Last(getting[t]).uses = {}
    BY <1>4, CallFacts DEF Publish, GetAt, ExitInv
  <2> DEFINE f == [at |-> "register", of |-> This(t), uses |-> {}]
  <2>2. /\ f \in Frame /\ f.of = getting[t][Len(getting[t])].of /\ f.at = "register"
        /\ f.of = This(t)
    BY <2>1 DEF Frame, This
  <2>3. /\ ReplaceLast(t, <<f>>) /\ UNCHANGED <<stack_, exit_>>
        /\ instance_' = [instance_ EXCEPT ![This(t)] = "created"]
    BY <1>4 DEF Publish, Goes
  <2> HIDE DEF f
  <2> QED
    BY <2>1, <2>2, <2>3, MakerGoesOn
<1>5. ASSUME NEW t \in UserThread, RegisterCallback(t)
      PROVE  ExitInv'
  BY <1>5, RegisterKeeps
<1>6. CASE BeginExit
  <2>1. /\ \A t \in UserThread : getting[t] = <<>> /\ DOMAIN getting[t] = {}
        /\ exit_' = "running" /\ UNCHANGED <<instance_, getting, stack_>>
    BY <1>6 DEF BeginExit
  <2>2. CallsNest' /\ Constructs' /\ Registers' /\ Destroys' /\ OneMaker'
    BY <2>1 DEF CallsNest, Constructs, Registers, Destroys, OneMaker
  <2>3. StackInv'
    BY <2>1 DEF ExitInv, StackInv, MadeByCall
  <2> QED
    BY <2>1, <2>2, <2>3 DEF ExitInv, ExitTyped, ExitPhase, MadeBeforeUse
<1>7. CASE RunCallback
  BY <1>7, RunCallbackKeeps
<1>8. CASE Delete
  BY <1>8, DeleteKeeps
<1>9. CASE ExitReturns
  <2>1. /\ exit_ = "running" /\ getting[MainThread] = <<>> /\ stack_ = <<>>
        /\ exit_' = "done" /\ UNCHANGED <<instance_, getting, stack_>>
    BY <1>9 DEF ExitReturns
  <2>2. \A t \in UserThread : getting[t] = <<>> /\ DOMAIN getting[t] = {}
    BY <2>1 DEF ExitInv, ExitPhase
  <2>3. CallsNest' /\ Constructs' /\ Registers' /\ Destroys' /\ OneMaker'
    BY <2>1, <2>2 DEF CallsNest, Constructs, Registers, Destroys, OneMaker
  <2>4. StackInv'
    BY <2>1 DEF ExitInv, StackInv, MadeByCall
  <2> QED
    BY <2>1, <2>2, <2>3, <2>4 DEF ExitInv, ExitTyped, ExitPhase, MadeBeforeUse
<1>10. CASE UNCHANGED exitVars
  BY <1>10 DEF exitVars, ExitInv, ExitTyped, CallsNest, Constructs, GotOrGetting, Registers,
               Destroys, OneMaker, Makes, StackInv, MadeByCall, ExitPhase, MadeBeforeUse
<1> QED
  BY <1>1, <1>2, <1>3, <1>4, <1>5, <1>6, <1>7, <1>8, <1>9, <1>10
  DEF ExitNext, UserStep, ExitStep

\* What an instance uses was made before it, and at exit every instance is destroyed,
\* once: for any number of threads that race to make any number of instances, however
\* they use one another, in a circle too (at_exit.cc:44-77, singleton.h:213-287,
\* lazy_instance.h:138-172).
THEOREM InstancesAreSafe == ExitSpec => []InstancesSafe
<1>1. ExitInv => InstancesSafe
  <2> SUFFICES ASSUME ExitInv PROVE InstancesSafe
    OBVIOUS
  <2>1. MadeBeforeUse /\ IsInjective(stack_)
    BY DEF ExitInv, StackInv
  <2>2. ASSUME exit_ = "done", NEW i \in Instance
        PROVE  instance_[i] = "none"
    <3>1. /\ \A t \in UserThread : DOMAIN getting[t] = {}
          /\ DOMAIN stack_ = {}
      BY <2>2 DEF ExitInv, ExitPhase
    <3>2. ~MadeByCall(i, "construct") /\ ~MadeByCall(i, "register")
      BY <3>1 DEF MadeByCall
    <3> QED
      BY <3>1, <3>2 DEF ExitInv, StackInv, ExitTyped
  <2> QED
    BY <2>1, <2>2 DEF InstancesSafe, DestroyedOnce
<1> QED
  BY <1>1, ExitInitInv, ExitStepKeeps, PTL DEF ExitSpec
================================================================================
