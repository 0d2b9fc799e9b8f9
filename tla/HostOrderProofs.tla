--------------------------- MODULE HostOrderProofs ---------------------------
(***************************************************************************)
(* Proofs about the order of a host's tasks in FactoryHosts, and what      *)
(* follows from it: callbacks while initialised, data in order and without *)
(* loss, an end told once.  They hold for any number of hosts and threads, *)
(* any placement of the hosts on the threads and any set of quitting loops.*)
(***************************************************************************)
EXTENDS FactoryHostsProofs

Callbacks == {"OnDataProduced", "OnFactoryDestory"}

Answers == {"ReplyDestroy", "StubReplyDestroy"}

\* What the host thread runs for a host.
HostOps == {"ReplyInit"} \cup Callbacks \cup Answers

IsOp(task, g, ops) == task.host = g /\ task.op \in ops

\* A task of g with one of these operations is in the queue.
Has(q, g, ops) == \E i \in DOMAIN q : IsOp(q[i], g, ops)

\* The order of two tasks of one host on its thread: OnInit, the data in the
\* order of their ids, the end of the factory, OnDestroy.
Before(a, b) ==
  /\ b.op # "ReplyInit"
  /\ a.op \in Answers => b.op \in Answers
  /\ a.op = "OnFactoryDestory" => b.op \in Answers
  /\ a.op = "OnDataProduced" /\ b.op = "OnDataProduced" => a.id < b.id

InOrder(q, g) ==
  \A i, j \in DOMAIN q :
    i < j /\ IsOp(q[i], g, HostOps) /\ IsOp(q[j], g, HostOps)
      => Before(q[i], q[j])

\* The queue of g's own thread.
Mine(g) == queue[HostThread[g]]

Gone(g) == loop[HostThread[g]] = "gone"

\* OnInit of g has been posted, and something that follows it has happened
\* or may yet.
Started(g) ==
  \/ destroy_[g]
  \/ Has(Mine(g), g, Callbacks \cup Answers)
  \/ stub_[g] /\ ~Gone(g)

OrderFor(g) ==
  /\ InOrder(Mine(g), g)
  /\ Has(Mine(g), g, {"ReplyInit"}) => ~init_[g]
  /\ Started(g) => init_[g] \/ Has(Mine(g), g, {"ReplyInit"})
  /\ called[g] = "Destroy" => init_[g]
  /\ stub_[g] => ~destroy_[g]
                 /\ ~Has(Mine(g), g, {"OnFactoryDestory"} \cup Answers)
  /\ destroy_[g] => ~Has(Mine(g), g, {"ReplyInit"} \cup Callbacks)

\* Where a task of the protocol can be.
PlacedFor(g) ==
  \A t \in Thread : \A i \in DOMAIN queue[t] :
    queue[t][i].host = g =>
      IF queue[t][i].op \in HostOps THEN t = HostThread[g]
                                    ELSE t = FactoryThread

DeletedInv == \A t \in Thread : loop[t] = "gone" => queue[t] = <<>>

\* One more than the last data that g's stub was offered.
Bound(g) == id + (IF factory = "notify" /\ g \notin todo THEN 1 ELSE 0)

DataFor(g) ==
  /\ hostData[g] < Bound(g)
  /\ \A i \in DOMAIN Mine(g) : IsOp(Mine(g)[i], g, {"OnDataProduced"}) =>
       hostData[g] < Mine(g)[i].id /\ Mine(g)[i].id < Bound(g)

FactoryDataInv ==
  IF factory = "notify" THEN data_ = id ELSE data_ < id

FreshFor(g) ==
  called[g] = "none" \/ ~NoPostInit(queue, g)
    => sent[g] = 0 /\ receive_[g] = 0 /\ destroyTime[g] = 0

\* The ids of the data of g in the queue.
Ids(q, g) ==
  {q[i].id : i \in {k \in DOMAIN q : IsOp(q[k], g, {"OnDataProduced"})}}

\* What was forwarded to g and has not arrived.
OnTheWay(g) == (first[g] + receive_[g]) .. (first[g] + sent[g] - 1)

LossFor(g) ==
  /\ receive_[g] <= sent[g]
  /\ stub_[g] => first[g] + sent[g] = Bound(g)
  /\ destroy_[g] => receive_[g] = sent[g]
  /\ Ids(Mine(g), g) \subseteq OnTheWay(g)
  /\ ~Gone(g) => Ids(Mine(g), g) = OnTheWay(g)

OneAnswer(q, g) ==
  \A i, j \in DOMAIN q :
    i < j => ~(IsOp(q[i], g, Answers) /\ IsOp(q[j], g, Answers))

OnceFor(g) ==
  /\ stub_[g] => destroyTime[g] = 0
  /\ "PostDestroy" \notin dcheck =>
       /\ destroyTime[g] <= 1
       /\ Has(Mine(g), g, Answers) => destroyTime[g] = 0
       /\ OneAnswer(Mine(g), g)

CalledFor(g) ==
  \A t \in Thread :
    Has(queue[t], g, {"PostDestroy", "ReplyDestroy"}) => called[g] = "Destroy"

-----------------------------------------------------------------------------
(* Sequences of tasks *)

\* The tasks of g in q are tasks of p, in the same order.
Embeds(p, q, g) ==
  /\ \A i \in DOMAIN q : IsOp(q[i], g, HostOps) =>
       \E k \in DOMAIN p : p[k] = q[i]
  /\ \A i, j \in DOMAIN q :
       i < j /\ IsOp(q[i], g, HostOps) /\ IsOp(q[j], g, HostOps) =>
         \E k, l \in DOMAIN p : k < l /\ p[k] = q[i] /\ p[l] = q[j]

\* No task of g in p is missing from q.
Retains(p, q, g) ==
  \A k \in DOMAIN p : IsOp(p[k], g, HostOps) =>
    \E i \in DOMAIN q : q[i] = p[k]

Same(p, q, g) == Embeds(p, q, g) /\ Retains(p, q, g)

LEMMA TailElements ==
  ASSUME NEW p \in Seq(Task), p # <<>>
  PROVE  /\ Tail(p) \in Seq(Task)
         /\ 1 \in DOMAIN p /\ Head(p) = p[1]
         /\ \A i \in DOMAIN Tail(p) : i \in Nat /\ i + 1 \in DOMAIN p
                                      /\ Tail(p)[i] = p[i + 1]
         /\ \A k \in DOMAIN p : k # 1 =>
              k \in Nat /\ k - 1 \in DOMAIN Tail(p) /\ Tail(p)[k - 1] = p[k]
  OBVIOUS

LEMMA AppendElements ==
  ASSUME NEW p \in Seq(Task), NEW x \in Task
  PROVE  /\ Append(p, x) \in Seq(Task)
         /\ Len(p) + 1 \in DOMAIN Append(p, x)
         /\ Append(p, x)[Len(p) + 1] = x
         /\ \A k \in DOMAIN p : k \in Nat /\ k < Len(p) + 1
                                /\ k \in DOMAIN Append(p, x)
                                /\ Append(p, x)[k] = p[k]
         /\ \A k \in DOMAIN Append(p, x) : k \in DOMAIN p \/ k = Len(p) + 1
  OBVIOUS

LEMMA TailEmbeds ==
  ASSUME NEW p \in Seq(Task), p # <<>>, NEW g
  PROVE  /\ Embeds(p, Tail(p), g)
         /\ ~IsOp(Head(p), g, HostOps) => Retains(p, Tail(p), g)
<1> DEFINE q == Tail(p)
<1>1. /\ \A i \in DOMAIN q : i \in Nat /\ i + 1 \in DOMAIN p
                             /\ q[i] = p[i + 1]
      /\ \A k \in DOMAIN p : k # 1 =>
              k \in Nat /\ k - 1 \in DOMAIN q /\ q[k - 1] = p[k]
      /\ Head(p) = p[1]
  BY TailElements
<1> HIDE DEF q
<1>2. Embeds(p, q, g)
  BY <1>1 DEF Embeds
<1>3. ~IsOp(Head(p), g, HostOps) => Retains(p, q, g)
  BY <1>1 DEF Retains
<1> QED
  BY <1>2, <1>3 DEF q

LEMMA AppendOther ==
  ASSUME NEW p \in Seq(Task), NEW x \in Task, NEW g,
         ~IsOp(x, g, HostOps)
  PROVE  Same(p, Append(p, x), g)
<1> DEFINE q == Append(p, x)
<1>1. /\ q[Len(p) + 1] = x
      /\ \A k \in DOMAIN p : k \in DOMAIN q /\ q[k] = p[k]
      /\ \A k \in DOMAIN q : k \in DOMAIN p \/ k = Len(p) + 1
  BY AppendElements
<1> HIDE DEF q
<1> QED
  BY <1>1 DEF Same, Embeds, Retains, q

LEMMA SameReflexive ==
  ASSUME NEW p, NEW g
  PROVE  Same(p, p, g)
  BY DEF Same, Embeds, Retains

LEMMA SameTransitive ==
  ASSUME NEW p, NEW q, NEW r, NEW g, Same(p, q, g), Same(q, r, g)
  PROVE  Same(p, r, g)
<1>1. Embeds(p, r, g)
  BY DEF Same, Embeds
<1>2. Retains(p, r, g)
  BY DEF Same, Retains
<1> QED
  BY <1>1, <1>2 DEF Same

LEMMA EmbedsInOrder ==
  ASSUME NEW p, NEW q, NEW g, Embeds(p, q, g), InOrder(p, g)
  PROVE  InOrder(q, g)
  BY DEF Embeds, InOrder

LEMMA EmbedsHas ==
  ASSUME NEW p, NEW q, NEW g, Embeds(p, q, g), NEW ops \in SUBSET HostOps,
         Has(q, g, ops)
  PROVE  Has(p, g, ops)
  BY DEF Embeds, Has, IsOp

LEMMA RetainsHas ==
  ASSUME NEW p, NEW q, NEW g, Retains(p, q, g), NEW ops \in SUBSET HostOps,
         Has(p, g, ops)
  PROVE  Has(q, g, ops)
  BY DEF Retains, Has, IsOp

\* What runs first precedes everything else of its host.
LEMMA HeadBefore ==
  ASSUME NEW p \in Seq(Task), p # <<>>, NEW g, InOrder(p, g),
         IsOp(Head(p), g, HostOps)
  PROVE  \A i \in DOMAIN Tail(p) : IsOp(Tail(p)[i], g, HostOps) =>
           Before(Head(p), Tail(p)[i])
<1> DEFINE q == Tail(p)
<1>1. /\ \A i \in DOMAIN q : i \in Nat /\ i + 1 \in DOMAIN p
                             /\ q[i] = p[i + 1]
      /\ 1 \in DOMAIN p /\ Head(p) = p[1]
  BY TailElements
<1> HIDE DEF q
<1>2. \A i \in DOMAIN q : IsOp(q[i], g, HostOps) => Before(p[1], q[i])
  <2> SUFFICES ASSUME NEW i \in DOMAIN q, IsOp(q[i], g, HostOps)
               PROVE  Before(p[1], q[i])
    OBVIOUS
  <2>1. i + 1 \in DOMAIN p /\ q[i] = p[i + 1] /\ 1 < i + 1
    BY <1>1
  <2> QED
    BY <1>1, <2>1 DEF InOrder
<1> QED
  BY <1>1, <1>2 DEF q

LEMMA TailHas ==
  ASSUME NEW p \in Seq(Task), p # <<>>, NEW g, NEW ops,
         Has(p, g, ops), ~IsOp(Head(p), g, ops)
  PROVE  Has(Tail(p), g, ops)
<1> DEFINE q == Tail(p)
<1>1. /\ \A k \in DOMAIN p : k # 1 =>
              k \in Nat /\ k - 1 \in DOMAIN q /\ q[k - 1] = p[k]
      /\ Head(p) = p[1]
  BY TailElements
<1> HIDE DEF q
<1>2. Has(q, g, ops)
  BY <1>1 DEF Has
<1> QED
  BY <1>2 DEF q

LEMMA AppendHas ==
  ASSUME NEW p \in Seq(Task), NEW x \in Task, NEW g, NEW ops
  PROVE  Has(Append(p, x), g, ops) <=> Has(p, g, ops) \/ IsOp(x, g, ops)
<1> DEFINE q == Append(p, x)
<1>1. /\ Len(p) + 1 \in DOMAIN q
      /\ q[Len(p) + 1] = x
      /\ \A k \in DOMAIN p : k \in DOMAIN q /\ q[k] = p[k]
      /\ \A k \in DOMAIN q : k \in DOMAIN p \/ k = Len(p) + 1
  BY AppendElements
<1> HIDE DEF q
<1>2. Has(q, g, ops) <=> Has(p, g, ops) \/ IsOp(x, g, ops)
  BY <1>1 DEF Has
<1> QED
  BY <1>2 DEF q

LEMMA AppendInOrder ==
  ASSUME NEW p \in Seq(Task), NEW x \in Task, NEW g, InOrder(p, g),
         \A i \in DOMAIN p : IsOp(p[i], g, HostOps) => Before(p[i], x)
  PROVE  InOrder(Append(p, x), g)
<1> DEFINE q == Append(p, x)
<1>1. /\ q[Len(p) + 1] = x
      /\ \A k \in DOMAIN p : k \in Nat /\ k < Len(p) + 1
                             /\ k \in DOMAIN q /\ q[k] = p[k]
      /\ \A k \in DOMAIN q : k \in DOMAIN p \/ k = Len(p) + 1
  BY AppendElements
<1> HIDE DEF q
<1>2. Len(p) \in Nat
  OBVIOUS
<1>3. InOrder(q, g)
  <2> SUFFICES ASSUME NEW i \in DOMAIN q, NEW j \in DOMAIN q, i < j,
                      IsOp(q[i], g, HostOps), IsOp(q[j], g, HostOps)
               PROVE  Before(q[i], q[j])
    BY DEF InOrder
  <2>1. i \in DOMAIN p /\ q[i] = p[i]
    BY <1>1, <1>2
  <2>2. CASE j \in DOMAIN p
    BY <1>1, <2>1, <2>2 DEF InOrder
  <2>3. CASE j = Len(p) + 1
    BY <1>1, <2>1, <2>3
  <2> QED
    BY <1>1, <2>2, <2>3
<1> QED
  BY <1>3 DEF q

-----------------------------------------------------------------------------
(* What a step does to the tasks of one host *)

LEMMA PostAt ==
  ASSUME NEW q \in [Thread -> Seq(Task)], NEW t \in Thread, NEW x \in Task,
         NEW u \in Thread
  PROVE  Post(q, t, x)[u] = IF u = t /\ loop[t] # "gone" THEN Append(q[u], x)
                                                         ELSE q[u]
  BY DEF Post

LEMMA PopAt ==
  ASSUME NEW q \in [Thread -> Seq(Task)], NEW t \in Thread, NEW u \in Thread
  PROVE  Pop(q, t)[u] = IF u = t THEN Tail(q[u]) ELSE q[u]
  BY DEF Pop

LEMMA PostSame ==
  ASSUME NEW q \in [Thread -> Seq(Task)], NEW t \in Thread, NEW x \in Task,
         NEW u \in Thread, NEW g, ~IsOp(x, g, HostOps)
  PROVE  Same(q[u], Post(q, t, x)[u], g)
<1>1. q[u] \in Seq(Task)
  OBVIOUS
<1> QED
  BY <1>1, PostAt, AppendOther, SameReflexive

LEMMA PopSame ==
  ASSUME NEW q \in [Thread -> Seq(Task)], NEW t \in Thread, q[t] # <<>>,
         NEW u \in Thread, NEW g, ~IsOp(Head(q[t]), g, HostOps)
  PROVE  Same(q[u], Pop(q, t)[u], g)
<1>1. q[u] \in Seq(Task)
  OBVIOUS
<1> QED
  BY <1>1, PopAt, TailEmbeds, SameReflexive DEF Same

\* What the protocol keeps of one host.
Own(g) == <<stub_[g], init_[g], destroy_[g], hostData[g], receive_[g],
            destroyTime[g], first[g], sent[g]>>

QuietFor(g) ==
  /\ UNCHANGED Own(g)
  /\ Gone(g)' <=> Gone(g)
  /\ Same(Mine(g), Mine(g)', g)

VanishFor(g) ==
  /\ UNCHANGED Own(g)
  /\ Gone(g)'
  /\ Mine(g)' = <<>>

\* A client's posts are for the factory thread.
LEMMA ClientQuiet ==
  ASSUME TypeOK, NEW h \in Host, ClientStep(h), NEW g \in Host
  PROVE  QuietFor(g)
<1> USE DEF TypeOK
<1>1. UNCHANGED Own(g) /\ UNCHANGED loop
  BY DEF ClientStep, HostInit, HostDestroy, ReleaseHandle, Own, listVars,
         flagVars, countVars, historyVars, loopVars
<1>2. Same(Mine(g), Mine(g)', g)
  <2>1. FactoryThread \in Thread /\ HostThread[g] \in Thread
    BY HostAssumption
  <2>2. ASSUME NEW op \in {"PostInit", "PostDestroy"},
               queue' = Post(queue, FactoryThread, TaskFor(op, h))
        PROVE  Same(Mine(g), Mine(g)', g)
    <3>1. TaskFor(op, h) \in Task
      BY <2>2, TaskTyped DEF Ops
    <3>2. ~IsOp(TaskFor(op, h), g, HostOps)
      BY TaskForFields DEF IsOp, HostOps, Callbacks, Answers
    <3> QED
      BY <2>1, <2>2, <3>1, <3>2, PostSame DEF Mine
  <2>3. ReleaseHandle(h) => UNCHANGED queue
    BY DEF ReleaseHandle, loopVars
  <2> QED
    BY <2>2, <2>3, SameReflexive
       DEF ClientStep, HostInit, HostDestroy, Mine
<1> QED
  BY <1>1, <1>2 DEF QuietFor, Gone

LEMMA OtherHostQuiet ==
  ASSUME TypeOK, NEW h \in Host, HostStep(h), NEW g \in Host, g # h
  PROVE  QuietFor(g)
<1> USE DEF TypeOK
<1>1. UNCHANGED Own(g) /\ UNCHANGED loop
  BY DEF HostStep, ReplyInit, ReplyDestroy, OnDataProduced, OnFactoryDestory,
         Own, listVars, flagVars, countVars, historyVars
<1>2. /\ queue' = Pop(queue, HostThread[h])
      /\ queue[HostThread[h]] # <<>>
      /\ Head(queue[HostThread[h]]).host = h
      /\ HostThread[g] \in Thread /\ HostThread[h] \in Thread
  BY HostAssumption DEF HostStep, ReplyInit, ReplyDestroy, OnDataProduced,
     OnFactoryDestory, IsNext
<1>3. Same(Mine(g), Mine(g)', g)
  BY <1>2, PopSame DEF Mine, IsOp
<1> QED
  BY <1>1, <1>3 DEF QuietFor, Gone

\* A stub writes to its own host only, and a relay takes its own task.
LEMMA OtherStubQuiet ==
  ASSUME TypeOK, NEW h \in Host, StubStep(h), NEW g \in Host, g # h
  PROVE  QuietFor(g)
<1> USE DEF TypeOK
<1>1. UNCHANGED Own(g) /\ UNCHANGED loop
  BY DEF StubStep, PostInitCrash, PostInit, PostDestroy, StubOnDataProduced,
         StubSkipsData, StubOnFactoryDestroy, Own, listVars, flagVars,
         countVars, historyVars, loopVars
<1>2. FactoryThread \in Thread /\ HostThread[g] \in Thread
      /\ HostThread[h] \in Thread
  BY HostAssumption
<1>3. /\ \A op \in Ops : TaskFor(op, h) \in Task
                         /\ ~IsOp(TaskFor(op, h), g, HostOps)
      /\ DataTask(h, data_) \in Task
      /\ ~IsOp(DataTask(h, data_), g, HostOps)
  BY TaskTyped, TaskForFields DEF IsOp, FactoryTypeOK, Ops
<1>4. CASE UNCHANGED queue
  BY <1>1, <1>4, SameReflexive DEF QuietFor, Gone, Mine
<1>5. CASE PostInit(h) \/ PostDestroy(h)
  <2> DEFINE q == Pop(queue, FactoryThread)
  <2>1. queue[FactoryThread] # <<>> /\ Head(queue[FactoryThread]).host = h
    BY <1>5 DEF PostInit, PostDestroy, IsNext
  <2>2. q \in [Thread -> Seq(Task)] /\ Same(Mine(g), q[HostThread[g]], g)
    BY <1>2, <2>1, PopTyped, PopSame DEF IsOp, Mine
  <2>3. \E op \in Ops : queue' = Post(q, HostThread[h], TaskFor(op, h))
    BY <1>5 DEF PostInit, PostDestroy, Ops
  <2> HIDE DEF q
  <2>4. Same(q[HostThread[g]], Mine(g)', g)
    BY <1>2, <1>3, <2>2, <2>3, PostSame DEF Mine
  <2>5. Same(Mine(g), Mine(g)', g)
    BY <2>2, <2>4, SameTransitive
  <2> QED
    BY <1>1, <2>5 DEF QuietFor, Gone
<1>6. CASE StubOnDataProduced(h)
  <2>1. queue' = Post(queue, HostThread[h], DataTask(h, data_))
    BY <1>6 DEF StubOnDataProduced
  <2>2. Same(Mine(g), Mine(g)', g)
    BY <1>2, <1>3, <2>1, PostSame DEF Mine
  <2> QED
    BY <1>1, <2>2 DEF QuietFor, Gone
<1>7. CASE StubOnFactoryDestroy(h)
  <2> DEFINE q == Post(queue, HostThread[h], TaskFor("OnFactoryDestory", h))
  <2>1. q \in [Thread -> Seq(Task)] /\ Same(Mine(g), q[HostThread[g]], g)
    BY <1>2, <1>3, PostTyped, PostSame DEF Mine, Ops
  <2>2. queue' = Post(q, HostThread[h], TaskFor("StubReplyDestroy", h))
    BY <1>7 DEF StubOnFactoryDestroy
  <2> HIDE DEF q
  <2>3. Same(q[HostThread[g]], Mine(g)', g)
    BY <1>2, <1>3, <2>1, <2>2, PostSame DEF Mine, Ops
  <2>4. Same(Mine(g), Mine(g)', g)
    BY <2>1, <2>3, SameTransitive
  <2> QED
    BY <1>1, <2>4 DEF QuietFor, Gone
<1> QED
  BY <1>4, <1>5, <1>6, <1>7
     DEF StubStep, PostInitCrash, StubSkipsData, loopVars

\* Steps that touch no queue and nothing of a host.
LEMMA IdleQuiet ==
  ASSUME NEW g \in Host, UNCHANGED Own(g), UNCHANGED loopVars
  PROVE  QuietFor(g)
  BY SameReflexive DEF QuietFor, Gone, Mine, loopVars

LEMMA LoopStepQuiet ==
  ASSUME TypeOK, NEW t \in Thread, QuitLoop(t) \/ DestroyLoop(t),
         NEW g \in Host
  PROVE  QuietFor(g) \/ VanishFor(g)
<1> USE DEF TypeOK
<1>1. UNCHANGED Own(g)
  BY DEF QuitLoop, DestroyLoop, Own, listVars, flagVars, countVars,
         historyVars
<1>2. HostThread[g] \in Thread
  BY HostAssumption
<1>3. CASE QuitLoop(t)
  BY <1>1, <1>2, <1>3, SameReflexive DEF QuitLoop, CanRun, QuietFor, Gone, Mine
<1>4. CASE DestroyLoop(t) /\ t = HostThread[g]
  BY <1>1, <1>2, <1>4 DEF DestroyLoop, VanishFor, Gone, Mine
<1>5. CASE DestroyLoop(t) /\ t # HostThread[g]
  BY <1>1, <1>2, <1>5, SameReflexive DEF DestroyLoop, QuietFor, Gone, Mine
<1> QED
  BY <1>3, <1>4, <1>5

\* The steps that concern g; every other one leaves g and its tasks alone, or
\* destroys g's queue.
OwnStep(g) ==
  \/ HostStep(g)
  \/ PostInit(g)
  \/ PostDestroy(g)
  \/ StubOnDataProduced(g)
  \/ StubOnFactoryDestroy(g)

LEMMA StepKinds ==
  ASSUME TypeOK, [Next]_vars, NEW g \in Host
  PROVE  QuietFor(g) \/ VanishFor(g) \/ OwnStep(g)
<1>1. ASSUME NEW h \in Host, HostStep(h)
      PROVE  QuietFor(g) \/ OwnStep(g)
  BY <1>1, OtherHostQuiet DEF OwnStep
<1>2. ASSUME NEW h \in Host, StubStep(h)
      PROVE  QuietFor(g) \/ OwnStep(g)
  <2>1. CASE PostInitCrash(h) \/ StubSkipsData(h)
    BY <2>1, IdleQuiet DEF PostInitCrash, StubSkipsData, Own, listVars,
       flagVars, countVars, historyVars
  <2> QED
    BY <1>2, <2>1, OtherStubQuiet DEF StubStep, OwnStep
<1>3. CASE FactoryTask \/ NotifyDone
  BY <1>3, IdleQuiet DEF FactoryTask, NotifyDone, Own, flagVars, countVars,
     historyVars
<1>4. CASE UNCHANGED vars
  BY <1>4, IdleQuiet DEF vars, hostVars, Own, listVars, flagVars, countVars,
     historyVars
<1> QED
  BY <1>1, <1>2, <1>3, <1>4, ClientQuiet, LoopStepQuiet DEF Next

\* A callback or a reply leaves the queue of its host's thread.
LEMMA HostStepMine ==
  ASSUME TypeOK, NEW g \in Host, HostStep(g)
  PROVE  /\ Mine(g) \in Seq(Task) /\ Mine(g) # <<>>
         /\ Mine(g)' = Tail(Mine(g))
         /\ Head(Mine(g)) \in Task
         /\ Head(Mine(g)).host = g
         /\ ~Gone(g) /\ ~Gone(g)'
<1>1. /\ queue' = Pop(queue, HostThread[g])
      /\ queue[HostThread[g]] # <<>>
      /\ Head(queue[HostThread[g]]).host = g
      /\ HostThread[g] \in Thread
      /\ loop[HostThread[g]] = "running"
      /\ UNCHANGED loop
  BY HostAssumption DEF HostStep, ReplyInit, ReplyDestroy, OnDataProduced,
     OnFactoryDestory, IsNext, CanRun
<1>2. queue[HostThread[g]] \in Seq(Task)
  BY <1>1 DEF TypeOK
<1>3. Head(queue[HostThread[g]]) \in Task
  BY <1>1, <1>2, TailElements
<1> QED
  BY <1>1, <1>2, <1>3, PopAt DEF Mine, Gone, TypeOK

\* PostInit was the only task of its host; its reply is the first one.
LEMMA PostInitMine ==
  ASSUME TypeOK, AloneInv, NEW g \in Host, PostInit(g)
  PROVE  /\ Gone(g)' <=> Gone(g)
         /\ \E p \in Seq(Task) :
              /\ \A i \in DOMAIN p : p[i].host # g
              /\ Mine(g)' = IF Gone(g) THEN p
                            ELSE Append(p, TaskFor("ReplyInit", g))
<1>0. queue \in [Thread -> Seq(Task)]
  BY DEF TypeOK
<1> DEFINE q == Pop(queue, FactoryThread)
           p == q[HostThread[g]]
           s == queue[FactoryThread]
<1>1. /\ FactoryThread \in Thread /\ HostThread[g] \in Thread
      /\ s # <<>> /\ Head(s).host = g /\ Head(s).op = "PostInit"
      /\ s \in Seq(Task)
      /\ UNCHANGED loop
      /\ queue' = Post(q, HostThread[g], TaskFor("ReplyInit", g))
  BY <1>0, HostAssumption DEF PostInit, IsNext
<1>2. q \in [Thread -> Seq(Task)] /\ p \in Seq(Task)
  BY <1>0, <1>1, PopTyped
<1>3. 1 \in DOMAIN s /\ Head(s) = s[1]
      /\ \A i \in DOMAIN Tail(s) : i \in Nat /\ i + 1 \in DOMAIN s
                                   /\ Tail(s)[i] = s[i + 1]
  <2> HIDE DEF s
  <2> QED
    BY <1>1, TailElements
<1>4. \A t \in Thread : \A j \in DOMAIN queue[t] :
        queue[t][j].host = g => t = FactoryThread /\ j = 1
  BY <1>1, <1>3 DEF AloneInv, Alone, IsPostInit
<1>5. \A i \in DOMAIN p : p[i].host # g
  <2>1. CASE HostThread[g] = FactoryThread
    <3>1. p = Tail(s)
      <4>1. FactoryThread \in Thread
        BY <1>1
      <4>2. Pop(queue, FactoryThread)[FactoryThread] = Tail(s)
        BY <1>0, <4>1, PopAt
      <4> QED
        BY <2>1, <4>2
    <3>2. \A i \in DOMAIN Tail(s) : Tail(s)[i].host # g
      <4> SUFFICES ASSUME NEW i \in DOMAIN Tail(s)
                   PROVE  Tail(s)[i].host # g
        OBVIOUS
      <4>1. /\ i \in Nat /\ i + 1 \in DOMAIN s /\ i + 1 # 1
            /\ Tail(s)[i] = s[i + 1]
        BY <1>3
      <4> QED
        BY <1>1, <1>4, <4>1
    <3> HIDE DEF q, s
    <3> QED
      BY <3>1, <3>2
  <2>2. CASE HostThread[g] # FactoryThread
    <3>1. p = queue[HostThread[g]]
      BY <1>0, <1>1, <2>2, PopAt
    <3> QED
      BY <1>1, <1>4, <2>2, <3>1
  <2> QED
    BY <2>1, <2>2
<1>6. Mine(g)' = IF Gone(g) THEN p ELSE Append(p, TaskFor("ReplyInit", g))
  <2>1. TaskFor("ReplyInit", g) \in Task
    BY TaskTyped DEF Ops
  <2> HIDE DEF q
  <2>2. queue'[HostThread[g]] =
          IF loop[HostThread[g]] # "gone"
          THEN Append(p, TaskFor("ReplyInit", g)) ELSE p
    BY <1>1, <1>2, <2>1, PostAt, SMTT(20)
  <2> HIDE DEF p
  <2> QED
    BY <2>2 DEF Mine, Gone
<1> QED
  BY <1>1, <1>2, <1>5, <1>6 DEF Gone

LEMMA PostDestroyMine ==
  ASSUME TypeOK, NEW g \in Host, PostDestroy(g)
  PROVE  /\ Gone(g)' <=> Gone(g)
         /\ \E p \in Seq(Task) :
              /\ Same(Mine(g), p, g)
              /\ Mine(g)' = IF Gone(g) THEN p
                            ELSE Append(p, TaskFor("ReplyDestroy", g))
<1>0. queue \in [Thread -> Seq(Task)]
  BY DEF TypeOK
<1> DEFINE q == Pop(queue, FactoryThread)
           p == q[HostThread[g]]
<1>1. /\ FactoryThread \in Thread /\ HostThread[g] \in Thread
      /\ queue[FactoryThread] # <<>>
      /\ Head(queue[FactoryThread]).op = "PostDestroy"
      /\ UNCHANGED loop
      /\ queue' = Post(q, HostThread[g], TaskFor("ReplyDestroy", g))
  BY HostAssumption DEF PostDestroy, IsNext
<1>2. q \in [Thread -> Seq(Task)] /\ p \in Seq(Task)
  BY <1>0, <1>1, PopTyped
<1>3. Same(Mine(g), p, g)
  BY <1>0, <1>1, PopSame DEF Mine, IsOp, HostOps, Callbacks, Answers
<1>4. Mine(g)' = IF Gone(g) THEN p ELSE Append(p, TaskFor("ReplyDestroy", g))
  <2>1. TaskFor("ReplyDestroy", g) \in Task
    BY TaskTyped DEF Ops
  <2> HIDE DEF q
  <2>2. queue'[HostThread[g]] =
          IF loop[HostThread[g]] # "gone"
          THEN Append(p, TaskFor("ReplyDestroy", g)) ELSE p
    BY <1>1, <1>2, <2>1, PostAt, SMTT(20)
  <2> HIDE DEF p
  <2> QED
    BY <2>2 DEF Mine, Gone
<1> QED
  BY <1>1, <1>2, <1>3, <1>4 DEF Gone

LEMMA StubDataMine ==
  ASSUME TypeOK, NEW g \in Host, StubOnDataProduced(g)
  PROVE  /\ Gone(g)' <=> Gone(g)
         /\ Mine(g) \in Seq(Task)
         /\ DataTask(g, data_) \in Task
         /\ Mine(g)' = IF Gone(g) THEN Mine(g)
                       ELSE Append(Mine(g), DataTask(g, data_))
<1>1. DataTask(g, data_) \in Task
  BY TaskTyped DEF TypeOK, FactoryTypeOK, Ops
<1>2. HostThread[g] \in Thread
  BY HostAssumption
<1>3. /\ queue \in [Thread -> Seq(Task)] /\ UNCHANGED loop
      /\ queue' = Post(queue, HostThread[g], DataTask(g, data_))
  BY DEF StubOnDataProduced, TypeOK
<1> QED
  BY <1>1, <1>2, <1>3, PostAt DEF Mine, Gone

LEMMA StubEndMine ==
  ASSUME TypeOK, NEW g \in Host, StubOnFactoryDestroy(g)
  PROVE  /\ Gone(g)' <=> Gone(g)
         /\ Mine(g) \in Seq(Task)
         /\ TaskFor("OnFactoryDestory", g) \in Task
         /\ TaskFor("StubReplyDestroy", g) \in Task
         /\ Append(Mine(g), TaskFor("OnFactoryDestory", g)) \in Seq(Task)
         /\ Mine(g)' = IF Gone(g) THEN Mine(g)
                       ELSE Append(Append(Mine(g),
                                          TaskFor("OnFactoryDestory", g)),
                                   TaskFor("StubReplyDestroy", g))
<1>0. queue \in [Thread -> Seq(Task)]
  BY DEF TypeOK
<1> DEFINE q == Post(queue, HostThread[g], TaskFor("OnFactoryDestory", g))
<1>1. /\ HostThread[g] \in Thread
      /\ TaskFor("OnFactoryDestory", g) \in Task
      /\ TaskFor("StubReplyDestroy", g) \in Task
  BY HostAssumption, TaskTyped DEF Ops
<1>2. /\ queue' = Post(q, HostThread[g], TaskFor("StubReplyDestroy", g))
      /\ UNCHANGED loop
  BY DEF StubOnFactoryDestroy
<1>3. /\ q \in [Thread -> Seq(Task)]
      /\ q[HostThread[g]] =
           IF loop[HostThread[g]] # "gone"
           THEN Append(queue[HostThread[g]], TaskFor("OnFactoryDestory", g))
           ELSE queue[HostThread[g]]
  BY <1>0, <1>1, PostTyped, PostAt
<1>4. Mine(g)' = IF Gone(g) THEN q[HostThread[g]]
                 ELSE Append(q[HostThread[g]], TaskFor("StubReplyDestroy", g))
  <2> DEFINE r == q[HostThread[g]]
             x == TaskFor("StubReplyDestroy", g)
  <2> HIDE DEF q
  <2>1. queue'[HostThread[g]] =
          IF loop[HostThread[g]] # "gone" THEN Append(r, x) ELSE r
    BY <1>1, <1>2, <1>3, PostAt
  <2> HIDE DEF r, x
  <2> QED
    BY <2>1 DEF Mine, Gone, r, x
<1>5. Mine(g) \in Seq(Task)
  BY <1>0, <1>1 DEF Mine
<1>6. Append(Mine(g), TaskFor("OnFactoryDestory", g)) \in Seq(Task)
  BY <1>1, <1>5
<1> HIDE DEF q
<1> QED
  BY <1>1, <1>2, <1>3, <1>4, <1>5, <1>6 DEF Mine, Gone

-----------------------------------------------------------------------------
(* Which tasks a step adds to the queues, and who posts them *)

\* Every task of q[t] was in p[t], or is x.
Grows(p, q, t, x) ==
  \A u \in Thread : \A i \in DOMAIN q[u] :
    \/ \E k \in DOMAIN p[u] : q[u][i] = p[u][k]
    \/ u = t /\ q[u][i] = x /\ loop[t] # "gone"

\* A task that this step has posted to t, whose loop is not gone.
Posted(t, x) ==
  loop[t] # "gone" /\ \E h \in Host :
    \/ t = FactoryThread /\ x = TaskFor("PostInit", h) /\ HostInit(h)
    \/ t = FactoryThread /\ x = TaskFor("PostDestroy", h) /\ HostDestroy(h)
    \/ /\ t = HostThread[h]
       /\ \/ x = TaskFor("ReplyInit", h) /\ PostInit(h)
          \/ x = TaskFor("ReplyDestroy", h) /\ PostDestroy(h)
          \/ x = DataTask(h, data_) /\ StubOnDataProduced(h)
          \/ /\ x \in {TaskFor("OnFactoryDestory", h),
                       TaskFor("StubReplyDestroy", h)}
             /\ StubOnFactoryDestroy(h)

NewTasks ==
  \A t \in Thread : \A i \in DOMAIN queue'[t] :
    \/ \E k \in DOMAIN queue[t] : queue'[t][i] = queue[t][k]
    \/ Posted(t, queue'[t][i])

LEMMA PostGrows ==
  ASSUME NEW q \in [Thread -> Seq(Task)], NEW t \in Thread, NEW x \in Task
  PROVE  Grows(q, Post(q, t, x), t, x)
<1> DEFINE r == Post(q, t, x)
<1>1. \A u \in Thread : \A i \in DOMAIN r[u] :
        \/ i \in DOMAIN q[u] /\ r[u][i] = q[u][i]
        \/ u = t /\ r[u][i] = x /\ loop[t] # "gone"
  <2> SUFFICES ASSUME NEW u \in Thread
               PROVE  \A i \in DOMAIN r[u] :
                        \/ i \in DOMAIN q[u] /\ r[u][i] = q[u][i]
                        \/ u = t /\ r[u][i] = x /\ loop[t] # "gone"
    OBVIOUS
  <2>1. q[u] \in Seq(Task)
    OBVIOUS
  <2>2. r[u] = IF u = t /\ loop[t] # "gone" THEN Append(q[u], x) ELSE q[u]
    BY PostAt
  <2> HIDE DEF r
  <2> QED
    BY <2>1, <2>2, AppendElements
<1> HIDE DEF r
<1> QED
  BY <1>1 DEF Grows, r

LEMMA PopShrinks ==
  ASSUME NEW q \in [Thread -> Seq(Task)], NEW t \in Thread, q[t] # <<>>
  PROVE  \A u \in Thread : \A i \in DOMAIN Pop(q, t)[u] :
           \E k \in DOMAIN q[u] : Pop(q, t)[u][i] = q[u][k]
<1> SUFFICES ASSUME NEW u \in Thread, NEW i \in DOMAIN Pop(q, t)[u]
             PROVE  \E k \in DOMAIN q[u] : Pop(q, t)[u][i] = q[u][k]
  OBVIOUS
<1>1. CASE u = t
  <2>1. Pop(q, t)[u] = Tail(q[u]) /\ q[u] \in Seq(Task) /\ q[u] # <<>>
    BY <1>1, PopAt
  <2> DEFINE s == q[u]
  <2> HIDE DEF s
  <2>2. s \in Seq(Task) /\ s # <<>> /\ i \in DOMAIN Tail(s)
    BY <2>1 DEF s
  <2>3. i + 1 \in DOMAIN s /\ Tail(s)[i] = s[i + 1]
    BY <2>2, TailElements
  <2> QED
    BY <2>1, <2>3 DEF s
<1>2. CASE u # t
  BY <1>2, PopAt
<1> QED
  BY <1>1, <1>2

LEMMA ClientPosts ==
  ASSUME TypeOK, NEW h \in Host, ClientStep(h)
  PROVE  NewTasks
<1>0. queue \in [Thread -> Seq(Task)] /\ FactoryThread \in Thread
      /\ TaskFor("PostInit", h) \in Task /\ TaskFor("PostDestroy", h) \in Task
  BY HostAssumption, TaskTyped DEF TypeOK, Ops
<1>1. CASE HostInit(h)
  <2>1. Grows(queue, queue', FactoryThread, TaskFor("PostInit", h))
    BY <1>0, <1>1, PostGrows DEF HostInit
  <2> QED
    BY <1>1, <2>1 DEF Grows, NewTasks, Posted
<1>2. CASE HostDestroy(h)
  <2>1. Grows(queue, queue', FactoryThread, TaskFor("PostDestroy", h))
    BY <1>0, <1>2, PostGrows DEF HostDestroy
  <2> QED
    BY <1>2, <2>1 DEF Grows, NewTasks, Posted
<1>3. CASE ReleaseHandle(h)
  BY <1>3 DEF ReleaseHandle, loopVars, NewTasks
<1> QED
  BY <1>1, <1>2, <1>3 DEF ClientStep

LEMMA StubPosts ==
  ASSUME TypeOK, NEW h \in Host, StubStep(h)
  PROVE  NewTasks
<1>0. /\ queue \in [Thread -> Seq(Task)] /\ FactoryThread \in Thread
      /\ HostThread[h] \in Thread
      /\ \A op \in Ops : TaskFor(op, h) \in Task
      /\ DataTask(h, data_) \in Task
  BY HostAssumption, TaskTyped DEF TypeOK, FactoryTypeOK, Ops
<1>1. CASE PostInit(h) \/ PostDestroy(h)
  <2> DEFINE q == Pop(queue, FactoryThread)
  <2>1. PICK op \in {"ReplyInit", "ReplyDestroy"} :
          /\ queue' = Post(q, HostThread[h], TaskFor(op, h))
          /\ op = "ReplyInit" => PostInit(h)
          /\ op = "ReplyDestroy" => PostDestroy(h)
    BY <1>1 DEF PostInit, PostDestroy
  <2>2. queue[FactoryThread] # <<>>
    BY <1>1 DEF PostInit, PostDestroy, IsNext
  <2>3. /\ q \in [Thread -> Seq(Task)]
        /\ \A u \in Thread : \A i \in DOMAIN q[u] :
             \E k \in DOMAIN queue[u] : q[u][i] = queue[u][k]
    BY <1>0, <2>2, PopTyped, PopShrinks
  <2> HIDE DEF q
  <2>4. Grows(q, queue', HostThread[h], TaskFor(op, h))
    BY <1>0, <2>1, <2>3, PostGrows DEF Ops
  <2>5. loop[HostThread[h]] # "gone" => Posted(HostThread[h], TaskFor(op, h))
    BY <2>1 DEF Posted
  <2> QED
    BY <2>3, <2>4, <2>5 DEF Grows, NewTasks
<1>2. CASE StubOnDataProduced(h)
  <2>1. Grows(queue, queue', HostThread[h], DataTask(h, data_))
    BY <1>0, <1>2, PostGrows DEF StubOnDataProduced
  <2>2. loop[HostThread[h]] # "gone"
          => Posted(HostThread[h], DataTask(h, data_))
    BY <1>2 DEF Posted
  <2> QED
    BY <2>1, <2>2 DEF Grows, NewTasks
<1>3. CASE StubOnFactoryDestroy(h)
  <2> DEFINE x == TaskFor("OnFactoryDestory", h)
             y == TaskFor("StubReplyDestroy", h)
             q == Post(queue, HostThread[h], x)
  <2>1. /\ queue' = Post(q, HostThread[h], y)
        /\ x \in Task /\ y \in Task
        /\ q \in [Thread -> Seq(Task)]
    BY <1>0, <1>3, PostTyped DEF StubOnFactoryDestroy, Ops
  <2>2. loop[HostThread[h]] # "gone"
          => Posted(HostThread[h], x) /\ Posted(HostThread[h], y)
    BY <1>3 DEF Posted
  <2> HIDE DEF x, y
  <2>3. Grows(queue, q, HostThread[h], x)
    BY <1>0, <2>1, PostGrows
  <2> HIDE DEF q
  <2>4. Grows(q, queue', HostThread[h], y)
    BY <1>0, <2>1, PostGrows
  <2> QED
    BY <2>2, <2>3, <2>4 DEF Grows, NewTasks
<1>4. CASE PostInitCrash(h) \/ StubSkipsData(h)
  BY <1>4 DEF PostInitCrash, StubSkipsData, loopVars, NewTasks
<1> QED
  BY <1>1, <1>2, <1>3, <1>4 DEF StubStep

LEMMA HostPosts ==
  ASSUME TypeOK, NEW h \in Host, HostStep(h)
  PROVE  NewTasks
<1>1. /\ queue' = Pop(queue, HostThread[h])
      /\ HostThread[h] \in Thread /\ queue[HostThread[h]] # <<>>
      /\ queue \in [Thread -> Seq(Task)]
  BY HostAssumption DEF TypeOK, HostStep, ReplyInit, ReplyDestroy,
     OnDataProduced, OnFactoryDestory, IsNext
<1> QED
  BY <1>1, PopShrinks DEF NewTasks

\* What [Next]_vars adds to the queues.
LEMMA StepPosts ==
  ASSUME TypeOK, [Next]_vars
  PROVE  NewTasks
<1>1. ASSUME UNCHANGED queue
      PROVE  NewTasks
  BY <1>1 DEF NewTasks
<1>2. ASSUME NEW t \in Thread, DestroyLoop(t)
      PROVE  NewTasks
  BY <1>2 DEF DestroyLoop, NewTasks, TypeOK
<1>3. FactoryTask \/ NotifyDone \/ UNCHANGED vars => UNCHANGED queue
  BY DEF FactoryTask, NotifyDone, vars, hostVars, loopVars
<1>4. ASSUME NEW t \in Thread, QuitLoop(t)
      PROVE  UNCHANGED queue
  BY <1>4 DEF QuitLoop
<1> QED
  BY <1>1, <1>2, <1>3, <1>4, ClientPosts, StubPosts, HostPosts DEF Next

PlacedInv == \A g \in Host : PlacedFor(g)

LEMMA PlacedInvariant == Spec => []PlacedInv
<1>1. Init => PlacedInv
  BY DEF Init, PlacedInv, PlacedFor
<1>2. TypeOK /\ PlacedInv /\ [Next]_vars => PlacedInv'
  <2> SUFFICES ASSUME TypeOK, PlacedInv, [Next]_vars,
                      NEW g \in Host, NEW t \in Thread,
                      NEW i \in DOMAIN queue'[t], queue'[t][i].host = g
               PROVE  IF queue'[t][i].op \in HostOps THEN t = HostThread[g]
                                                     ELSE t = FactoryThread
    BY DEF PlacedInv, PlacedFor
  <2>1. CASE \E k \in DOMAIN queue[t] : queue'[t][i] = queue[t][k]
    BY <2>1 DEF PlacedInv, PlacedFor
  <2>2. CASE Posted(t, queue'[t][i])
    BY <2>2, TaskForFields DEF Posted, HostOps, Callbacks, Answers
  <2> QED
    BY <2>1, <2>2, StepPosts DEF NewTasks
<1> QED
  BY <1>1, <1>2, Typed, PTL DEF Spec

\* Nothing is posted to a loop that is gone.
LEMMA DeletedInvariant == Spec => []DeletedInv
<1>1. Init => DeletedInv
  BY DEF Init, DeletedInv
<1>2. TypeOK /\ TypeOK' /\ DeletedInv /\ [Next]_vars => DeletedInv'
  <2> SUFFICES ASSUME TypeOK, TypeOK', DeletedInv, [Next]_vars,
                      NEW t \in Thread, loop'[t] = "gone"
               PROVE  queue'[t] = <<>>
    BY DEF DeletedInv
  <2>1. ASSUME NEW u \in Thread, DestroyLoop(u), u = t
        PROVE  queue'[t] = <<>>
    BY <2>1 DEF DestroyLoop, TypeOK
  <2>2. CASE loop[t] = "gone"
    <3>1. queue[t] = <<>>
      BY <2>2 DEF DeletedInv
    <3>2. \A i \in DOMAIN queue'[t] : FALSE
      BY <2>2, <3>1, StepPosts DEF NewTasks, Posted
    <3>3. queue'[t] \in Seq(Task)
      BY DEF TypeOK
    <3> DEFINE s == queue'[t]
    <3> HIDE DEF s
    <3>4. s \in Seq(Task) /\ \A i \in DOMAIN s : FALSE
      BY <3>2, <3>3 DEF s
    <3> QED
      BY <3>4, TailElements DEF s
  <2>3. CASE loop[t] # "gone"
    <3>1. \E u \in Thread : DestroyLoop(u) /\ u = t
      BY <2>3 DEF TypeOK, Next, vars, hostVars, loopVars, HostStep, ReplyInit,
         ReplyDestroy, OnDataProduced, OnFactoryDestory, StubStep,
         PostInitCrash, PostInit, PostDestroy, StubOnDataProduced,
         StubSkipsData, StubOnFactoryDestroy, ClientStep, HostInit,
         HostDestroy, ReleaseHandle, FactoryTask, NotifyDone, QuitLoop,
         DestroyLoop
    <3> QED
      BY <2>1, <3>1
  <2> QED
    BY <2>2, <2>3
<1> QED
  BY <1>1, <1>2, Typed, PTL DEF Spec

LEMMA DestroyStays ==
  ASSUME TypeOK, [Next]_vars, NEW g \in Host, called[g] = "Destroy"
  PROVE  called'[g] = "Destroy"
  BY DEF TypeOK, Next, vars, hostVars, clientVars, HostStep, ReplyInit,
     ReplyDestroy, OnDataProduced, OnFactoryDestory, StubStep,
     PostInitCrash, PostInit, PostDestroy, StubOnDataProduced,
     StubSkipsData, StubOnFactoryDestroy, ClientStep, HostInit,
     HostDestroy, ReleaseHandle, FactoryTask, NotifyDone, QuitLoop,
     DestroyLoop

CalledInv == \A g \in Host : CalledFor(g)

\* A reply of Destroy comes from a PostDestroy, and that from the client.
LEMMA CalledInvariant == Spec => []CalledInv
<1>1. Init => CalledInv
  BY DEF Init, CalledInv, CalledFor, Has
<1>2. TypeOK /\ CalledInv /\ [Next]_vars => CalledInv'
  <2> SUFFICES ASSUME TypeOK, CalledInv, [Next]_vars,
                      NEW g \in Host, NEW t \in Thread,
                      NEW i \in DOMAIN queue'[t],
                      IsOp(queue'[t][i], g, {"PostDestroy", "ReplyDestroy"})
               PROVE  called'[g] = "Destroy"
    BY DEF CalledInv, CalledFor, Has
  <2>1. called[g] = "Destroy" => called'[g] = "Destroy"
    BY DestroyStays
  <2>2. CASE \E k \in DOMAIN queue[t] : queue'[t][i] = queue[t][k]
    BY <2>1, <2>2 DEF CalledInv, CalledFor, Has
  <2>3. CASE Posted(t, queue'[t][i])
    <3>1. HostDestroy(g) \/ PostDestroy(g)
      BY <2>3, TaskForFields DEF Posted, IsOp
    <3>2. CASE HostDestroy(g)
      BY <3>2 DEF HostDestroy, TypeOK
    <3>3. CASE PostDestroy(g)
      <4> DEFINE s == queue[FactoryThread]
      <4>1. /\ FactoryThread \in Thread /\ s \in Seq(Task) /\ s # <<>>
            /\ Head(s).op = "PostDestroy" /\ Head(s).host = g
        BY <3>3, HostAssumption DEF PostDestroy, IsNext, TypeOK
      <4>2. 1 \in DOMAIN s /\ Head(s) = s[1]
        <5> HIDE DEF s
        <5> QED
          BY <4>1, TailElements
      <4> QED
        BY <2>1, <4>1, <4>2 DEF CalledInv, CalledFor, Has, IsOp
    <3> QED
      BY <3>1, <3>2, <3>3
  <2> QED
    BY <2>2, <2>3, StepPosts DEF NewTasks
<1> QED
  BY <1>1, <1>2, Typed, PTL DEF Spec

-----------------------------------------------------------------------------
(* The order of a host's tasks *)

LEMMA HeadHas ==
  ASSUME NEW p \in Seq(Task), p # <<>>, NEW g, NEW ops,
         IsOp(Head(p), g, ops)
  PROVE  Has(p, g, ops)
  BY TailElements DEF Has

LEMMA OpsSubsets ==
  /\ {"ReplyInit"} \in SUBSET HostOps
  /\ Callbacks \in SUBSET HostOps
  /\ Answers \in SUBSET HostOps
  /\ Callbacks \cup Answers \in SUBSET HostOps
  /\ {"OnFactoryDestory"} \cup Answers \in SUBSET HostOps
  /\ {"ReplyInit"} \cup Callbacks \in SUBSET HostOps
  BY DEF HostOps, Callbacks, Answers

\* Init and Destroy of the client: the flag init_ precedes a Destroy.
DestroyAfterInit(g) == called[g] = "Destroy" => init_[g]

LEMMA DestroyAfterInitStep ==
  ASSUME TypeOK, [Next]_vars, NEW g \in Host, DestroyAfterInit(g)
  PROVE  DestroyAfterInit(g)'
<1>1. called'[g] = "Destroy" => called[g] = "Destroy" \/ init_[g]
  BY DEF TypeOK, Next, vars, hostVars, clientVars, HostStep, ReplyInit,
     ReplyDestroy, OnDataProduced, OnFactoryDestory, StubStep,
     PostInitCrash, PostInit, PostDestroy, StubOnDataProduced,
     StubSkipsData, StubOnFactoryDestroy, ClientStep, HostInit,
     HostDestroy, ReleaseHandle, FactoryTask, NotifyDone, QuitLoop,
     DestroyLoop
<1>2. init_[g] => init_'[g]
  BY DEF TypeOK, Next, vars, hostVars, flagVars, HostStep, ReplyInit,
     ReplyDestroy, OnDataProduced, OnFactoryDestory, StubStep,
     PostInitCrash, PostInit, PostDestroy, StubOnDataProduced,
     StubSkipsData, StubOnFactoryDestroy, ClientStep, HostInit,
     HostDestroy, ReleaseHandle, FactoryTask, NotifyDone, QuitLoop,
     DestroyLoop
<1> QED
  BY <1>1, <1>2 DEF DestroyAfterInit

LEMMA OrderQuiet ==
  ASSUME NEW g \in Host, OrderFor(g), DestroyAfterInit(g)', QuietFor(g)
  PROVE  OrderFor(g)'
<1> DEFINE p == Mine(g)
           q == Mine(g)'
<1>1. Embeds(p, q, g) /\ Retains(p, q, g)
  BY DEF QuietFor, Same
<1>2. InOrder(p, g) => InOrder(q, g)
  BY <1>1, EmbedsInOrder
<1>3. \A ops \in SUBSET HostOps : Has(p, g, ops) <=> Has(q, g, ops)
  BY <1>1, EmbedsHas, RetainsHas
<1>4. /\ stub_'[g] = stub_[g] /\ init_'[g] = init_[g]
      /\ destroy_'[g] = destroy_[g] /\ (Gone(g)' <=> Gone(g))
  BY DEF QuietFor, Own
<1>5. InOrder(Mine(g), g)' <=> InOrder(q, g)
  BY DEF InOrder
<1>6. \A ops : Has(Mine(g), g, ops)' <=> Has(q, g, ops)
  BY DEF Has
<1> HIDE DEF p, q
<1>7. \A ops \in SUBSET HostOps : Has(Mine(g), g, ops)' <=> Has(Mine(g), g, ops)
  BY <1>3, <1>6 DEF p
<1>8. InOrder(Mine(g), g) => InOrder(Mine(g), g)'
  BY <1>2, <1>5 DEF p
<1> QED
  BY <1>4, <1>7, <1>8, OpsSubsets
     DEF OrderFor, Started, DestroyAfterInit

\* OrderFor(g)', said of the new queue q.
LEMMA OrderNext ==
  ASSUME NEW g \in Host, NEW q, Mine(g)' = q,
         InOrder(q, g),
         Has(q, g, {"ReplyInit"}) => ~init_'[g],
         (destroy_'[g] \/ Has(q, g, Callbacks \cup Answers)
            \/ (stub_'[g] /\ ~Gone(g)'))
           => (init_'[g] \/ Has(q, g, {"ReplyInit"})),
         DestroyAfterInit(g)',
         stub_'[g] => ~destroy_'[g]
                      /\ ~Has(q, g, {"OnFactoryDestory"} \cup Answers),
         destroy_'[g] => ~Has(q, g, {"ReplyInit"} \cup Callbacks)
  PROVE  OrderFor(g)'
<1>1. InOrder(Mine(g), g)' <=> InOrder(q, g)
  BY DEF InOrder
<1>2. \A ops : Has(Mine(g), g, ops)' <=> Has(q, g, ops)
  BY DEF Has
<1> QED
  BY <1>1, <1>2 DEF OrderFor, Started, DestroyAfterInit

LEMMA OrderVanish ==
  ASSUME NEW g \in Host, OrderFor(g), DestroyAfterInit(g)', VanishFor(g)
  PROVE  OrderFor(g)'
<1>1. /\ InOrder(<<>>, g)
      /\ \A ops : ~Has(<<>>, g, ops)
  BY DEF InOrder, Has
<1>2. /\ stub_'[g] = stub_[g] /\ init_'[g] = init_[g]
      /\ destroy_'[g] = destroy_[g] /\ Gone(g)' /\ Mine(g)' = <<>>
  BY DEF VanishFor, Own
<1>3. destroy_[g] => init_[g]
  BY DEF OrderFor, Started, Has, IsOp
<1>4. stub_[g] => ~destroy_[g]
  BY DEF OrderFor
<1> QED
  BY <1>1, <1>2, <1>3, <1>4, OrderNext

LEMMA OrderPostInit ==
  ASSUME TypeOK, AloneInv, NEW g \in Host, DestroyAfterInit(g)', PostInit(g)
  PROVE  OrderFor(g)'
<1> DEFINE x == TaskFor("ReplyInit", g)
<1>1. x \in Task /\ x.host = g /\ x.op = "ReplyInit"
  BY TaskTyped, TaskForFields DEF Ops
<1> HIDE DEF x
<1>2. PICK p \in Seq(Task) :
        /\ \A i \in DOMAIN p : p[i].host # g
        /\ Mine(g)' = IF Gone(g) THEN p ELSE Append(p, x)
  BY PostInitMine DEF x
<1>3. ~init_[g] /\ ~destroy_[g]
  <2>1. ~NoPostInit(queue, g)
    <3>1. /\ queue[FactoryThread] \in Seq(Task)
          /\ queue[FactoryThread] # <<>>
          /\ IsPostInit(Head(queue[FactoryThread]), g)
      BY HostAssumption DEF PostInit, IsNext, IsPostInit, TypeOK
    <3> QED
      BY <3>1, TailElements DEF NoPostInit
  <2> QED
    BY <2>1 DEF AloneInv
<1>4. init_'[g] = init_[g] /\ destroy_'[g] = destroy_[g]
  BY DEF PostInit, flagVars
<1>5. Gone(g)' <=> Gone(g)
  BY PostInitMine
<1>6. InOrder(p, g) /\ \A ops : ~Has(p, g, ops)
  BY <1>2 DEF InOrder, Has, IsOp
<1>7. /\ InOrder(Append(p, x), g)
      /\ \A ops : Has(Append(p, x), g, ops) <=> "ReplyInit" \in ops
  <2>1. \A i \in DOMAIN p : IsOp(p[i], g, HostOps) => Before(p[i], x)
    BY <1>2 DEF IsOp
  <2> QED
    BY <1>1, <1>6, <2>1, AppendInOrder, AppendHas DEF IsOp
<1> DEFINE q == Mine(g)'
<1>8. /\ InOrder(q, g)
      /\ \A ops : Has(q, g, ops) <=> ~Gone(g) /\ "ReplyInit" \in ops
  BY <1>2, <1>6, <1>7
<1> HIDE DEF q
<1>9. ~Has(q, g, Callbacks \cup Answers)
      /\ ~Has(q, g, {"OnFactoryDestory"} \cup Answers)
  BY <1>8 DEF Callbacks, Answers
<1> QED
  BY <1>3, <1>4, <1>5, <1>8, <1>9, OrderNext DEF q

LEMMA OrderPostDestroy ==
  ASSUME TypeOK, CalledInv, NEW g \in Host, OrderFor(g),
         DestroyAfterInit(g)', PostDestroy(g)
  PROVE  OrderFor(g)'
<1> DEFINE x == TaskFor("ReplyDestroy", g)
<1>1. x \in Task /\ x.host = g /\ x.op = "ReplyDestroy"
  BY TaskTyped, TaskForFields DEF Ops
<1> HIDE DEF x
<1>2. PICK p \in Seq(Task) :
        /\ Same(Mine(g), p, g)
        /\ Mine(g)' = IF Gone(g) THEN p ELSE Append(p, x)
  BY PostDestroyMine DEF x
<1>3. init_[g]
  <2>1. /\ queue[FactoryThread] \in Seq(Task)
        /\ queue[FactoryThread] # <<>>
        /\ IsOp(Head(queue[FactoryThread]), g,
                {"PostDestroy", "ReplyDestroy"})
        /\ FactoryThread \in Thread
    BY HostAssumption DEF PostDestroy, IsNext, IsOp, TypeOK
  <2>2. called[g] = "Destroy"
    BY <2>1, HeadHas DEF CalledInv, CalledFor
  <2> QED
    BY <2>2 DEF OrderFor
<1>4. init_'[g] = init_[g] /\ destroy_'[g] = destroy_[g] /\ ~stub_'[g]
  BY DEF PostDestroy, flagVars, TypeOK
<1>5. /\ InOrder(p, g)
      /\ \A ops \in SUBSET HostOps : Has(Mine(g), g, ops) <=> Has(p, g, ops)
  BY <1>2, EmbedsInOrder, EmbedsHas, RetainsHas DEF Same, OrderFor
<1>6. /\ InOrder(Append(p, x), g)
      /\ \A ops : Has(Append(p, x), g, ops)
                    <=> Has(p, g, ops) \/ "ReplyDestroy" \in ops
  <2>1. \A i \in DOMAIN p : IsOp(p[i], g, HostOps) => Before(p[i], x)
    BY <1>1 DEF Before, Answers
  <2> QED
    BY <1>1, <1>5, <2>1, AppendInOrder, AppendHas DEF IsOp
<1> DEFINE q == Mine(g)'
<1>7. /\ InOrder(q, g)
      /\ \A ops \in SUBSET HostOps :
           Has(q, g, ops) => Has(Mine(g), g, ops) \/ "ReplyDestroy" \in ops
  BY <1>2, <1>5, <1>6
<1> HIDE DEF q
<1>8. ~Has(q, g, {"ReplyInit"})
  BY <1>3, <1>7, OpsSubsets DEF OrderFor
<1>9. destroy_[g] => ~Has(q, g, {"ReplyInit"} \cup Callbacks)
  BY <1>7, OpsSubsets DEF OrderFor, Callbacks
<1> QED
  BY <1>3, <1>4, <1>7, <1>8, <1>9, OrderNext DEF q

\* A stub's data follow OnInit and smaller data only.
LEMMA OrderStubData ==
  ASSUME TypeOK, StubInv, FactoryDataInv, NEW g \in Host, OrderFor(g),
         DataFor(g), DestroyAfterInit(g)', StubOnDataProduced(g)
  PROVE  OrderFor(g)'
<1> DEFINE x == DataTask(g, data_)
           p == Mine(g)
<1>1. x \in Task /\ x.host = g /\ x.op = "OnDataProduced" /\ x.id = id
  BY StubDataMine, TaskForFields DEF DataTask, FactoryDataInv,
     StubOnDataProduced
<1>2. /\ p \in Seq(Task)
      /\ Mine(g)' = IF Gone(g) THEN p ELSE Append(p, x)
      /\ Gone(g)' <=> Gone(g)
  BY StubDataMine
<1>3. stub_[g]
  BY DEF StubInv, StubsMatchFactory, StubOnDataProduced
<1>4. /\ stub_'[g] = stub_[g] /\ init_'[g] = init_[g]
      /\ destroy_'[g] = destroy_[g]
  BY DEF StubOnDataProduced, flagVars
<1>5. ~destroy_[g] /\ ~Has(p, g, {"OnFactoryDestory"} \cup Answers)
  BY <1>3 DEF OrderFor
<1>6. \A i \in DOMAIN p : IsOp(p[i], g, {"OnDataProduced"}) => p[i].id < id
  <2>1. Bound(g) = id
    BY DEF Bound, StubOnDataProduced, TypeOK, FactoryTypeOK
  <2> QED
    BY <2>1 DEF DataFor
<1> HIDE DEF x
<1>7. \A i \in DOMAIN p : IsOp(p[i], g, HostOps) => Before(p[i], x)
  <2> SUFFICES ASSUME NEW i \in DOMAIN p, IsOp(p[i], g, HostOps)
               PROVE  Before(p[i], x)
    OBVIOUS
  <2>1. p[i].op \notin {"OnFactoryDestory"} \cup Answers
    BY <1>5 DEF Has, IsOp
  <2>2. p[i].op = "OnDataProduced" => p[i].id < id
    BY <1>6 DEF IsOp
  <2> QED
    BY <1>1, <2>1, <2>2 DEF Before
<1> DEFINE q == Mine(g)'
<1>8. InOrder(p, g)
  BY DEF OrderFor
<1>9. /\ Started(g) => init_[g] \/ Has(p, g, {"ReplyInit"})
      /\ Has(p, g, {"ReplyInit"}) => ~init_[g]
  BY DEF OrderFor
<1>10. ~Gone(g) => Started(g)
  BY <1>3 DEF Started
<1>11. Gone(g) /\ Has(p, g, Callbacks \cup Answers) => Started(g)
  BY DEF Started
<1> HIDE DEF p
<1>12. /\ InOrder(q, g)
       /\ \A ops : Has(p, g, ops) => Has(q, g, ops)
       /\ \A ops : Has(q, g, ops) =>
            Has(p, g, ops) \/ (~Gone(g) /\ "OnDataProduced" \in ops)
  <2>1. /\ InOrder(Append(p, x), g)
        /\ \A ops : Has(Append(p, x), g, ops)
                      <=> Has(p, g, ops) \/ "OnDataProduced" \in ops
    BY <1>1, <1>2, <1>7, <1>8, AppendInOrder, AppendHas DEF IsOp
  <2> QED
    BY <1>2, <1>8, <2>1
<1> HIDE DEF q
<1>13. ~Has(q, g, {"OnFactoryDestory"} \cup Answers)
  BY <1>5, <1>12 DEF Answers
<1>14. Has(q, g, {"ReplyInit"}) <=> Has(p, g, {"ReplyInit"})
  BY <1>12
<1> QED
  BY <1>2, <1>3, <1>4, <1>5, <1>9, <1>10, <1>11, <1>12, <1>13, <1>14,
     OrderNext DEF q

\* The stub's last words: OnFactoryDestory, then OnDestroy.
LEMMA OrderStubEnd ==
  ASSUME TypeOK, StubInv, NEW g \in Host, OrderFor(g),
         DestroyAfterInit(g)', StubOnFactoryDestroy(g)
  PROVE  OrderFor(g)'
<1> DEFINE x == TaskFor("OnFactoryDestory", g)
           y == TaskFor("StubReplyDestroy", g)
           p == Mine(g)
           r == Append(p, x)
<1>1. /\ x.host = g /\ x.op = "OnFactoryDestory"
      /\ y.host = g /\ y.op = "StubReplyDestroy"
  BY TaskForFields
<1>2. /\ p \in Seq(Task) /\ r \in Seq(Task) /\ x \in Task /\ y \in Task
      /\ Mine(g)' = IF Gone(g) THEN p ELSE Append(r, y)
      /\ Gone(g)' <=> Gone(g)
  BY StubEndMine
<1>3. stub_[g]
  BY DEF StubInv, StubsMatchFactory, StubOnFactoryDestroy
<1>4. /\ ~stub_'[g] /\ init_'[g] = init_[g] /\ destroy_'[g] = destroy_[g]
  BY DEF StubOnFactoryDestroy, flagVars, TypeOK
<1>5. ~destroy_[g] /\ ~Has(p, g, {"OnFactoryDestory"} \cup Answers)
  BY <1>3 DEF OrderFor
<1>6. /\ InOrder(p, g)
      /\ Started(g) => init_[g] \/ Has(p, g, {"ReplyInit"})
      /\ Has(p, g, {"ReplyInit"}) => ~init_[g]
  BY DEF OrderFor
<1>7. ~Gone(g) => Started(g)
  BY <1>3 DEF Started
<1>8. Has(p, g, Callbacks \cup Answers) => Started(g)
  BY DEF Started
<1> HIDE DEF x, y, p
<1>9. /\ InOrder(r, g)
      /\ \A ops : Has(r, g, ops)
                    <=> Has(p, g, ops) \/ "OnFactoryDestory" \in ops
  <2>1. \A i \in DOMAIN p : IsOp(p[i], g, HostOps) => Before(p[i], x)
    BY <1>1, <1>5 DEF Before, Has, IsOp, Answers
  <2> QED
    BY <1>1, <1>2, <1>6, <2>1, AppendInOrder, AppendHas DEF IsOp
<1> HIDE DEF r
<1>10. /\ InOrder(Append(r, y), g)
       /\ \A ops : Has(Append(r, y), g, ops)
                     <=> Has(r, g, ops) \/ "StubReplyDestroy" \in ops
  <2>1. \A i \in DOMAIN r : IsOp(r[i], g, HostOps) => Before(r[i], y)
    BY <1>1 DEF Before, Answers
  <2> QED
    BY <1>1, <1>2, <1>9, <2>1, AppendInOrder, AppendHas DEF IsOp
<1> DEFINE q == Mine(g)'
<1>11. /\ InOrder(q, g)
       /\ Has(q, g, {"ReplyInit"}) <=> Has(p, g, {"ReplyInit"})
       /\ Gone(g) => q = p
  BY <1>2, <1>6, <1>9, <1>10
<1> HIDE DEF q
<1> QED
  BY <1>2, <1>4, <1>5, <1>6, <1>7, <1>8, <1>11, OrderNext DEF q

\* A task that runs has the tasks of its host that must precede it behind it.
LEMMA OrderHost ==
  ASSUME TypeOK, NEW g \in Host, OrderFor(g), DestroyAfterInit(g)',
         HostStep(g)
  PROVE  OrderFor(g)'
<1> DEFINE p == Mine(g)
           q == Tail(p)
           x == Head(p)
<1>1. /\ p \in Seq(Task) /\ p # <<>> /\ Mine(g)' = q
      /\ x.host = g /\ ~Gone(g) /\ ~Gone(g)'
  BY HostStepMine
<1>2. /\ InOrder(p, g)
      /\ Started(g) => init_[g] \/ Has(p, g, {"ReplyInit"})
      /\ Has(p, g, {"ReplyInit"}) => ~init_[g]
      /\ stub_[g] => ~destroy_[g]
                     /\ ~Has(p, g, {"OnFactoryDestory"} \cup Answers)
      /\ destroy_[g] => ~Has(p, g, {"ReplyInit"} \cup Callbacks)
  BY DEF OrderFor
<1>3. /\ destroy_[g] => Started(g)
      /\ Has(p, g, Callbacks \cup Answers) => Started(g)
      /\ stub_[g] => Started(g)
  BY <1>1 DEF Started
<1>4. x.op \in HostOps /\ stub_'[g] = stub_[g]
  BY DEF HostStep, ReplyInit, ReplyDestroy, OnDataProduced, OnFactoryDestory,
     IsNext, Mine, HostOps, Callbacks, Answers, listVars
<1> HIDE DEF p
<1>5. /\ InOrder(q, g)
      /\ \A ops \in SUBSET HostOps : Has(q, g, ops) => Has(p, g, ops)
  BY <1>1, <1>2, TailEmbeds, EmbedsInOrder, EmbedsHas
<1>6. \A i \in DOMAIN q : IsOp(q[i], g, HostOps) => Before(x, q[i])
  BY <1>1, <1>2, <1>4, HeadBefore DEF IsOp
<1>7. \A ops : Has(p, g, ops) /\ x.op \notin ops => Has(q, g, ops)
  BY <1>1, TailHas DEF IsOp
<1>8. \A ops : x.op \in ops => Has(p, g, ops)
  BY <1>1, HeadHas DEF IsOp
<1> HIDE DEF q, x
<1>9. ~Has(q, g, {"ReplyInit"})
  BY <1>6, OpsSubsets DEF Has, IsOp, Before
<1>10. x.op \in Answers => ~Has(q, g, {"ReplyInit"} \cup Callbacks)
  BY <1>6, OpsSubsets DEF Has, IsOp, Before, Answers, Callbacks
<1>11. CASE ReplyInit(g)
  <2>1. x.op = "ReplyInit" /\ init_'[g] /\ destroy_'[g] = destroy_[g]
    BY <1>11 DEF ReplyInit, IsNext, Mine, TypeOK, x, p
  <2>2. ~destroy_[g]
    BY <1>2, <1>8, <2>1
  <2>3. stub_[g] => ~Has(q, g, {"OnFactoryDestory"} \cup Answers)
    BY <1>2, <1>5, OpsSubsets
  <2> QED
    BY <1>1, <1>4, <1>5, <1>9, <2>1, <2>2, <2>3, OrderNext
<1>12. CASE ReplyDestroy(g)
  <2>1. x.op \in Answers /\ init_'[g] = init_[g]
    BY <1>12 DEF ReplyDestroy, IsNext, Mine, Answers, x, p
  <2>2. init_[g]
    <3>1. ~Has(p, g, {"ReplyInit"})
      BY <1>7, <1>9, <2>1 DEF Answers
    <3>2. Has(p, g, Callbacks \cup Answers)
      BY <1>8, <2>1
    <3> QED
      BY <1>2, <1>3, <3>1, <3>2
  <2>3. ~stub_[g]
    BY <1>2, <1>8, <2>1
  <2> QED
    BY <1>1, <1>4, <1>5, <1>9, <1>10, <2>1, <2>2, <2>3, OrderNext
<1>13. CASE OnDataProduced(g) \/ OnFactoryDestory(g)
  <2>1. /\ x.op \in Callbacks
        /\ init_'[g] = init_[g] /\ destroy_'[g] = destroy_[g]
    BY <1>13 DEF OnDataProduced, OnFactoryDestory, IsNext, Mine, Callbacks,
       flagVars, x, p
  <2>2. init_[g]
    <3>1. ~Has(p, g, {"ReplyInit"})
      BY <1>7, <1>9, <2>1 DEF Callbacks
    <3>2. Has(p, g, Callbacks \cup Answers)
      BY <1>8, <2>1
    <3> QED
      BY <1>2, <1>3, <3>1, <3>2
  <2>3. ~destroy_[g]
    BY <1>2, <1>8, <2>1
  <2>4. stub_[g] => ~Has(q, g, {"OnFactoryDestory"} \cup Answers)
    BY <1>2, <1>5, OpsSubsets
  <2> QED
    BY <1>1, <1>4, <1>5, <1>9, <2>1, <2>2, <2>3, <2>4, OrderNext
<1> QED
  BY <1>11, <1>12, <1>13 DEF HostStep

LEMMA OrderStep ==
  ASSUME TypeOK, StubInv, AloneInv, CalledInv, FactoryDataInv, [Next]_vars,
         NEW g \in Host, OrderFor(g), DataFor(g)
  PROVE  OrderFor(g)'
<1>1. DestroyAfterInit(g)'
  BY DestroyAfterInitStep DEF OrderFor, DestroyAfterInit
<1> QED
  BY <1>1, StepKinds, OrderQuiet, OrderVanish, OrderPostInit,
     OrderPostDestroy, OrderStubData, OrderStubEnd, OrderHost DEF OwnStep

-----------------------------------------------------------------------------
(* The ids of the data *)

LEMMA FactoryDataInvariant == Spec => []FactoryDataInv
<1>1. Init => FactoryDataInv
  BY DEF Init, FactoryInit, FactoryDataInv
<1>2. TypeOK /\ FactoryDataInv /\ [Next]_vars => FactoryDataInv'
  <2> SUFFICES ASSUME TypeOK, FactoryDataInv, [Next]_vars
               PROVE  FactoryDataInv'
    OBVIOUS
  <2>0. data_ \in Int /\ id \in Nat
    BY DEF TypeOK, FactoryTypeOK
  <2>1. CASE FactoryTask \/ NotifyDone
    BY <2>0, <2>1 DEF FactoryDataInv, FactoryTask, NotifyDone, CreateFactory,
       Start, Stop, ScheduleProduce, ScheduleStopped, ScheduleCancelled,
       Destroy, ProduceDone, DestroyDone
  <2>2. CASE UNCHANGED <<factory, id, data_>>
    BY <2>2 DEF FactoryDataInv
  <2> QED
    BY <2>1, <2>2 DEF Next, vars, factoryVars, HostStep, ReplyInit,
       ReplyDestroy, OnDataProduced, OnFactoryDestory, StubStep,
       PostInitCrash, PostInit, PostDestroy, StubOnDataProduced,
       StubSkipsData, StubOnFactoryDestroy, ClientStep, HostInit,
       HostDestroy, ReleaseHandle, QuitLoop, DestroyLoop
<1> QED
  BY <1>1, <1>2, Typed, PTL DEF Spec

\* The bound on a host's ids grows, and only a call of its stub, once the
\* stub is registered, moves it.
LEMMA BoundStep ==
  ASSUME TypeOK, StubInv, [Next]_vars, NEW g \in Host
  PROVE  /\ Bound(g) \in Int /\ Bound(g)' \in Int
         /\ Bound(g) <= Bound(g)'
         /\ stub_[g] /\ ~StubOnDataProduced(g) /\ ~StubSkipsData(g)
              => Bound(g)' = Bound(g)
<1>0. id \in Nat
  BY DEF TypeOK, FactoryTypeOK
<1>1. CASE FactoryTask
  <2>1. CASE /\ CreateFactory \/ Start \/ Stop \/ ScheduleStopped
                  \/ ScheduleCancelled
             /\ UNCHANGED todo
    BY <1>0, <2>1 DEF Bound, CreateFactory, Start, Stop, ScheduleStopped,
       ScheduleCancelled
  <2>2. CASE (ScheduleProduce \/ Destroy) /\ todo' = observers
    BY <1>0, <2>2 DEF Bound, ScheduleProduce, Destroy, StubInv,
       StubsMatchFactory
  <2> QED
    BY <1>1, <2>1, <2>2 DEF FactoryTask
<1>2. CASE NotifyDone
  BY <1>0, <1>2 DEF Bound, NotifyDone, ProduceDone, DestroyDone
<1>3. ASSUME NEW h \in Host, StubStep(h)
      PROVE  /\ UNCHANGED <<factory, id>>
             /\ todo' = todo \/ todo' = todo \ {h}
             /\ StubOnDataProduced(h) \/ StubSkipsData(h)
                  \/ factory # "notify" \/ todo' = todo
  BY <1>3 DEF StubStep, PostInitCrash, PostInit, PostDestroy,
     StubOnDataProduced, StubSkipsData, StubOnFactoryDestroy, factoryVars,
     listVars
<1>4. ASSUME NEW h \in Host, StubStep(h)
      PROVE  /\ Bound(g) <= Bound(g)'
             /\ ~StubOnDataProduced(g) /\ ~StubSkipsData(g)
                  => Bound(g)' = Bound(g)
  BY <1>0, <1>3, <1>4 DEF Bound
<1>5. CASE UNCHANGED <<factory, id, todo>>
  BY <1>0, <1>5 DEF Bound
<1>6. \/ FactoryTask \/ NotifyDone \/ \E h \in Host : StubStep(h)
      \/ UNCHANGED <<factory, id, todo>>
  BY DEF Next, vars, factoryVars, hostVars, listVars, HostStep, ReplyInit,
     ReplyDestroy, OnDataProduced, OnFactoryDestory, ClientStep, HostInit,
     HostDestroy, ReleaseHandle, QuitLoop, DestroyLoop
<1>7. Bound(g) \in Int /\ Bound(g)' \in Int
  <2>1. id' \in Nat
    BY TypeStep DEF TypeOK, FactoryTypeOK
  <2> QED
    BY <1>0, <2>1 DEF Bound
<1>8. CASE \E h \in Host : StubStep(h)
  BY <1>4, <1>7, <1>8
<1> QED
  BY <1>1, <1>2, <1>5, <1>6, <1>7, <1>8

\* Every data task of q is one of p.
FewerData(p, q, g) ==
  \A i \in DOMAIN q : IsOp(q[i], g, {"OnDataProduced"}) =>
    \E k \in DOMAIN p : p[k] = q[i]

LEMMA EmbedsFewer ==
  ASSUME NEW p, NEW q, NEW g, Embeds(p, q, g)
  PROVE  FewerData(p, q, g)
  BY DEF Embeds, FewerData, IsOp, HostOps, Callbacks

LEMMA AppendFewer ==
  ASSUME NEW p, NEW q \in Seq(Task), NEW x \in Task, NEW g,
         FewerData(p, q, g), x.op # "OnDataProduced"
  PROVE  FewerData(p, Append(q, x), g)
<1> DEFINE r == Append(q, x)
<1>1. /\ r[Len(q) + 1] = x
      /\ \A k \in DOMAIN r : k \in DOMAIN q \/ k = Len(q) + 1
      /\ \A k \in DOMAIN q : r[k] = q[k]
  BY AppendElements
<1> HIDE DEF r
<1> QED
  BY <1>1 DEF FewerData, IsOp, r

LEMMA MineTyped ==
  ASSUME TypeOK, NEW g \in Host
  PROVE  /\ Mine(g) \in Seq(Task)
         /\ \A i \in DOMAIN Mine(g) : Mine(g)[i] \in Task
                                      /\ Mine(g)[i].id \in Int
<1>1. Mine(g) \in Seq(Task)
  BY HostAssumption DEF Mine, TypeOK
<1>2. \A i \in DOMAIN Mine(g) : Mine(g)[i] \in Task
  BY <1>1
<1> QED
  BY <1>1, <1>2 DEF Task

LEMMA DataFewer ==
  ASSUME TypeOK, NEW g \in Host, DataFor(g), FewerData(Mine(g), Mine(g)', g),
         hostData'[g] = hostData[g], Bound(g) \in Int, Bound(g)' \in Int,
         Bound(g) <= Bound(g)'
  PROVE  DataFor(g)'
<1> DEFINE p == Mine(g)
           q == Mine(g)'
           b == Bound(g)
           c == Bound(g)'
<1>1. /\ \A i \in DOMAIN p : p[i].id \in Int
      /\ hostData[g] \in Int
      /\ b \in Int /\ c \in Int /\ b <= c
  BY MineTyped DEF TypeOK
<1>2. /\ hostData[g] < b
      /\ \A i \in DOMAIN p : IsOp(p[i], g, {"OnDataProduced"}) =>
           hostData[g] < p[i].id /\ p[i].id < b
  BY DEF DataFor
<1> HIDE DEF p, q, b, c
<1>3. /\ hostData[g] < c
      /\ \A i \in DOMAIN q : IsOp(q[i], g, {"OnDataProduced"}) =>
           hostData[g] < q[i].id /\ q[i].id < c
  <2>1. FewerData(p, q, g)
    BY DEF p, q
  <2>2. hostData[g] < c
    BY <1>1, <1>2
  <2>3. \A i \in DOMAIN p : IsOp(p[i], g, {"OnDataProduced"}) =>
           hostData[g] < p[i].id /\ p[i].id < c
    BY <1>1, <1>2
  <2> QED
    BY <2>1, <2>2, <2>3 DEF FewerData
<1> QED
  BY <1>3 DEF DataFor, q, c

LEMMA DataPostInit ==
  ASSUME TypeOK, AloneInv, FactoryDataInv, NEW g \in Host, PostInit(g)
  PROVE  DataFor(g)'
<1>1. PICK p \in Seq(Task) :
        /\ \A i \in DOMAIN p : p[i].host # g
        /\ Mine(g)' = IF Gone(g) THEN p
                      ELSE Append(p, TaskFor("ReplyInit", g))
  BY PostInitMine
<1>2. /\ TaskFor("ReplyInit", g) \in Task
      /\ TaskFor("ReplyInit", g).op # "OnDataProduced"
  BY TaskTyped, TaskForFields DEF Ops
<1>3. FewerData(<<>>, p, g)
  BY <1>1 DEF FewerData, IsOp
<1>4. FewerData(<<>>, Mine(g)', g)
  BY <1>1, <1>2, <1>3, AppendFewer
<1>5. \A i \in DOMAIN Mine(g)' : ~IsOp(Mine(g)'[i], g, {"OnDataProduced"})
  BY <1>4 DEF FewerData
<1>6. hostData'[g] = data_ /\ data_ < id /\ Bound(g)' = id
  BY DEF PostInit, TypeOK, FactoryTypeOK, FactoryDataInv, Bound, factoryVars
<1> QED
  BY <1>5, <1>6 DEF DataFor

LEMMA DataStub ==
  ASSUME TypeOK, FactoryDataInv, NEW g \in Host, DataFor(g),
         StubOnDataProduced(g)
  PROVE  DataFor(g)'
<1> DEFINE x == DataTask(g, data_)
           p == Mine(g)
<1>1. x \in Task /\ x.host = g /\ x.op = "OnDataProduced" /\ x.id = id
  BY StubDataMine, TaskForFields DEF DataTask, FactoryDataInv,
     StubOnDataProduced
<1>2. /\ p \in Seq(Task)
      /\ Mine(g)' = IF Gone(g) THEN p ELSE Append(p, x)
  BY StubDataMine
<1>3. id \in Nat /\ Bound(g) = id /\ Bound(g)' = id + 1
  BY DEF Bound, StubOnDataProduced, TypeOK, FactoryTypeOK, factoryVars
<1>4. /\ hostData[g] \in Int /\ hostData[g] < id
      /\ \A i \in DOMAIN p : p[i].id \in Int
                             /\ (IsOp(p[i], g, {"OnDataProduced"}) =>
                                   hostData[g] < p[i].id /\ p[i].id < id)
  BY <1>3, MineTyped DEF DataFor, TypeOK
<1>5. hostData'[g] = hostData[g]
  BY DEF StubOnDataProduced, countVars
<1> DEFINE q == Mine(g)'
<1> HIDE DEF x, p
<1>6. \A i \in DOMAIN q : (i \in DOMAIN p /\ q[i] = p[i]) \/ q[i] = x
  BY <1>1, <1>2, AppendElements
<1> HIDE DEF q
<1>7. \A i \in DOMAIN q : IsOp(q[i], g, {"OnDataProduced"}) =>
        hostData[g] < q[i].id /\ q[i].id < id + 1
  BY <1>1, <1>3, <1>4, <1>6
<1> QED
  BY <1>3, <1>4, <1>5, <1>7 DEF DataFor, q

\* The data that runs is smaller than those behind it.
LEMMA DataHost ==
  ASSUME TypeOK, StubInv, [Next]_vars, NEW g \in Host, OrderFor(g),
         DataFor(g), HostStep(g)
  PROVE  DataFor(g)'
<1> DEFINE p == Mine(g)
           x == Head(p)
           q == Mine(g)'
<1>1. /\ p \in Seq(Task) /\ p # <<>> /\ q = Tail(p)
      /\ x.host = g /\ x \in Task
  BY HostStepMine
<1>2. InOrder(p, g)
  BY DEF OrderFor
<1>3. Bound(g) \in Int /\ Bound(g)' = Bound(g)
  BY DEF HostStep, ReplyInit, ReplyDestroy, OnDataProduced, OnFactoryDestory,
     Bound, factoryVars, listVars, TypeOK, FactoryTypeOK
<1>4. CASE OnDataProduced(g)
  <2>1. x.op = "OnDataProduced" /\ hostData'[g] = x.id
    BY <1>4 DEF OnDataProduced, IsNext, Mine, TypeOK
  <2>2. \A i \in DOMAIN p : IsOp(p[i], g, {"OnDataProduced"}) =>
          p[i].id < Bound(g)
    BY DEF DataFor
  <2> HIDE DEF p
  <2>3. \A i \in DOMAIN q : IsOp(q[i], g, HostOps) => Before(x, q[i])
    BY <1>1, <1>2, <2>1, HeadBefore DEF IsOp, HostOps, Callbacks
  <2>4. \A i \in DOMAIN q : \E k \in DOMAIN p : q[i] = p[k]
    BY <1>1, TailElements
  <2>5. x.id < Bound(g)
    BY <1>1, <2>1, <2>2, TailElements DEF IsOp
  <2> HIDE DEF q, x
  <2>6. \A i \in DOMAIN q : IsOp(q[i], g, {"OnDataProduced"}) =>
          x.id < q[i].id /\ q[i].id < Bound(g)
    BY <2>1, <2>2, <2>3, <2>4 DEF IsOp, HostOps, Callbacks, Before
  <2> QED
    BY <1>3, <2>1, <2>5, <2>6 DEF DataFor, q
<1>5. CASE ReplyInit(g) \/ ReplyDestroy(g) \/ OnFactoryDestory(g)
  <2>1. hostData'[g] = hostData[g]
    BY <1>5 DEF ReplyInit, ReplyDestroy, OnFactoryDestory, countVars
  <2>2. FewerData(p, q, g)
    <3> HIDE DEF p
    <3> QED
      BY <1>1, TailEmbeds, EmbedsFewer
  <2> QED
    BY <1>3, <2>1, <2>2, DataFewer
<1> QED
  BY <1>4, <1>5 DEF HostStep

LEMMA DataStep ==
  ASSUME TypeOK, StubInv, AloneInv, FactoryDataInv, [Next]_vars,
         NEW g \in Host, OrderFor(g), DataFor(g)
  PROVE  DataFor(g)'
<1>1. /\ Bound(g) \in Int /\ Bound(g)' \in Int /\ Bound(g) <= Bound(g)'
  BY BoundStep
<1>2. CASE QuietFor(g) \/ VanishFor(g)
  <2>1. hostData'[g] = hostData[g]
    BY <1>2 DEF QuietFor, VanishFor, Own
  <2>2. FewerData(Mine(g), Mine(g)', g)
    BY <1>2, EmbedsFewer DEF QuietFor, VanishFor, Same, FewerData
  <2> QED
    BY <1>1, <2>1, <2>2, DataFewer
<1>3. CASE PostDestroy(g)
  <2>1. hostData'[g] = hostData[g]
    BY <1>3 DEF PostDestroy, countVars
  <2>2. PICK p \in Seq(Task) :
          /\ Same(Mine(g), p, g)
          /\ Mine(g)' = IF Gone(g) THEN p
                        ELSE Append(p, TaskFor("ReplyDestroy", g))
    BY <1>3, PostDestroyMine
  <2>3. FewerData(Mine(g), Mine(g)', g)
    BY <2>2, EmbedsFewer, AppendFewer, TaskTyped, TaskForFields
       DEF Same, Ops
  <2> QED
    BY <1>1, <2>1, <2>3, DataFewer
<1>4. CASE StubOnFactoryDestroy(g)
  <2> DEFINE x == TaskFor("OnFactoryDestory", g)
             y == TaskFor("StubReplyDestroy", g)
             p == Mine(g)
  <2>1. hostData'[g] = hostData[g]
    BY <1>4 DEF StubOnFactoryDestroy, countVars
  <2>2. /\ p \in Seq(Task) /\ Append(p, x) \in Seq(Task)
        /\ x \in Task /\ x.op # "OnDataProduced"
        /\ y \in Task /\ y.op # "OnDataProduced"
        /\ Mine(g)' = IF Gone(g) THEN p ELSE Append(Append(p, x), y)
    BY <1>4, StubEndMine, TaskForFields
  <2>3. FewerData(p, p, g)
    BY DEF FewerData
  <2>4. FewerData(p, Mine(g)', g)
    <3> HIDE DEF p, x, y
    <3>1. FewerData(p, Append(p, x), g)
      BY <2>2, <2>3, AppendFewer
    <3>2. FewerData(p, Append(Append(p, x), y), g)
      BY <2>2, <3>1, AppendFewer
    <3> QED
      BY <2>2, <2>3, <3>2
  <2> QED
    BY <1>1, <2>1, <2>4, DataFewer
<1> QED
  BY <1>2, <1>3, <1>4, StepKinds, DataPostInit, DataStub, DataHost DEF OwnStep

OrderInv == \A g \in Host : OrderFor(g) /\ DataFor(g)

LEMMA OrderInvariant == Spec => []OrderInv
<1>1. Init => OrderInv
  <2> SUFFICES ASSUME Init, NEW g \in Host
               PROVE  OrderFor(g) /\ DataFor(g)
    BY DEF OrderInv
  <2>1. Mine(g) = <<>>
    BY HostAssumption DEF Init, Mine
  <2>2. InOrder(Mine(g), g) /\ \A ops : ~Has(Mine(g), g, ops)
    BY <2>1 DEF InOrder, Has
  <2> QED
    BY <2>1, <2>2 DEF Init, FactoryInit, OrderFor, Started, DataFor, Bound
<1>2. TypeOK /\ StubInv /\ AloneInv /\ CalledInv /\ FactoryDataInv /\ OrderInv
        /\ [Next]_vars => OrderInv'
  BY OrderStep, DataStep DEF OrderInv
<1> QED
  BY <1>1, <1>2, Typed, StubInvariant, AloneInvariant, CalledInvariant,
     FactoryDataInvariant, PTL DEF Spec

\* A callback that runs finds its host initialised and not destroyed.
LEMMA CallbackRuns ==
  ASSUME TypeOK, NEW g \in Host, OrderFor(g),
         OnDataProduced(g) \/ OnFactoryDestory(g)
  PROVE  init_[g] /\ ~destroy_[g]
<1> DEFINE p == Mine(g)
           x == Head(p)
<1>1. /\ p \in Seq(Task) /\ p # <<>> /\ x.host = g
  BY HostStepMine DEF HostStep
<1>2. x.op \in Callbacks
  BY DEF OnDataProduced, OnFactoryDestory, IsNext, Mine, Callbacks
<1>3. /\ InOrder(p, g)
      /\ Started(g) => init_[g] \/ Has(p, g, {"ReplyInit"})
      /\ destroy_[g] => ~Has(p, g, {"ReplyInit"} \cup Callbacks)
      /\ Has(p, g, Callbacks \cup Answers) => Started(g)
  BY DEF OrderFor, Started
<1> HIDE DEF p
<1>4. \A ops : x.op \in ops => Has(p, g, ops)
  BY <1>1, HeadHas DEF IsOp
<1>5. ~Has(p, g, {"ReplyInit"})
  <2>1. \A i \in DOMAIN Tail(p) : IsOp(Tail(p)[i], g, HostOps) =>
          Before(x, Tail(p)[i])
    BY <1>1, <1>2, <1>3, HeadBefore DEF IsOp, HostOps
  <2>2. ~Has(Tail(p), g, {"ReplyInit"})
    BY <2>1 DEF Has, IsOp, HostOps, Before
  <2> QED
    BY <1>1, <1>2, <2>2, TailHas DEF IsOp, Callbacks
<1> QED
  BY <1>2, <1>3, <1>4, <1>5

\* Only the two callbacks write the counters of a host.
LEMMA CallbacksCount ==
  ASSUME TypeOK, [Next]_vars, NEW g \in Host
  PROVE  /\ receive_'[g] # receive_[g] => OnDataProduced(g)
         /\ factoryDestroy'[g] # factoryDestroy[g] => OnFactoryDestory(g)
  BY DEF TypeOK, Next, vars, hostVars, countVars, HostStep, ReplyInit,
     ReplyDestroy, OnDataProduced, OnFactoryDestory, StubStep,
     PostInitCrash, PostInit, PostDestroy, StubOnDataProduced,
     StubSkipsData, StubOnFactoryDestroy, ClientStep, HostInit,
     HostDestroy, ReleaseHandle, FactoryTask, NotifyDone, QuitLoop,
     DestroyLoop

\* A host's callbacks come after OnInit and before OnDestroy
\* (observer_cross_thread.cc:33-46, factory_host.cc:44-73): the reply of Init is
\* the first of its tasks in its thread's queue and an answer to Destroy the
\* last, however client, factory and replies are scheduled.
THEOREM CallbacksInTime == Spec => CallbacksWhileInitialised
<1>1. TypeOK /\ OrderInv /\ [Next]_vars =>
        [\A h \in Host :
           (receive_'[h] # receive_[h]
              \/ factoryDestroy'[h] # factoryDestroy[h])
             => init_[h] /\ ~destroy_[h]]_vars
  BY CallbacksCount, CallbackRuns DEF OrderInv
<1> QED
  BY <1>1, Typed, OrderInvariant, PTL DEF Spec, CallbacksWhileInitialised

\* A host sees data in the order of production, each at most once
\* (factory_host.cc:69-73): the ids in its queue increase and are all above
\* the one it has, the one PostInit wrote included.
THEOREM DataArrivesInOrder == Spec => DataInOrder
<1>1. TypeOK /\ OrderInv /\ [Next]_vars =>
        [\A h \in Host :
           receive_'[h] # receive_[h] => hostData'[h] > hostData[h]]_vars
  <2> SUFFICES ASSUME TypeOK, OrderInv, [Next]_vars, NEW h \in Host,
                      receive_'[h] # receive_[h]
               PROVE  hostData'[h] > hostData[h]
    OBVIOUS
  <2>1. OnDataProduced(h)
    BY CallbacksCount
  <2> DEFINE p == Mine(h)
  <2>2. /\ p \in Seq(Task) /\ p # <<>>
        /\ IsOp(Head(p), h, {"OnDataProduced"})
        /\ hostData'[h] = Head(p).id
    BY <2>1, HostStepMine
       DEF HostStep, OnDataProduced, IsNext, IsOp, Mine, TypeOK
  <2>3. \A i \in DOMAIN p : IsOp(p[i], h, {"OnDataProduced"}) =>
          hostData[h] < p[i].id
    BY DEF OrderInv, DataFor
  <2>4. hostData[h] \in Int /\ \A i \in DOMAIN p : p[i].id \in Int
    BY MineTyped DEF TypeOK
  <2> HIDE DEF p
  <2> QED
    BY <2>2, <2>3, <2>4, TailElements
<1> QED
  BY <1>1, Typed, OrderInvariant, PTL DEF Spec, DataInOrder

-----------------------------------------------------------------------------
(* No data are lost *)

LEMMA IdsElement ==
  ASSUME NEW q, NEW g, NEW n
  PROVE  n \in Ids(q, g) <=>
           \E i \in DOMAIN q : IsOp(q[i], g, {"OnDataProduced"})
                               /\ q[i].id = n
  BY DEF Ids

LEMMA IdsSame ==
  ASSUME NEW p, NEW q, NEW g, Same(p, q, g)
  PROVE  Ids(q, g) = Ids(p, g)
<1>1. \A n : n \in Ids(q, g) <=> n \in Ids(p, g)
  BY IdsElement DEF Same, Embeds, Retains, IsOp, HostOps, Callbacks
<1> QED
  BY <1>1

LEMMA IdsAppend ==
  ASSUME NEW p \in Seq(Task), NEW x \in Task, NEW g
  PROVE  /\ IsOp(x, g, {"OnDataProduced"}) =>
              Ids(Append(p, x), g) = Ids(p, g) \cup {x.id}
         /\ ~IsOp(x, g, {"OnDataProduced"}) =>
              Ids(Append(p, x), g) = Ids(p, g)
<1> DEFINE q == Append(p, x)
<1>1. /\ Len(p) + 1 \in DOMAIN q
      /\ q[Len(p) + 1] = x
      /\ \A k \in DOMAIN p : k \in DOMAIN q /\ q[k] = p[k]
      /\ \A k \in DOMAIN q : k \in DOMAIN p \/ k = Len(p) + 1
  BY AppendElements
<1> HIDE DEF q
<1>2. \A n : n \in Ids(q, g) =>
        n \in Ids(p, g) \/ (IsOp(x, g, {"OnDataProduced"}) /\ n = x.id)
  <2> SUFFICES ASSUME NEW n, NEW i \in DOMAIN q,
                      IsOp(q[i], g, {"OnDataProduced"}), q[i].id = n
               PROVE  \/ n \in Ids(p, g)
                      \/ IsOp(x, g, {"OnDataProduced"}) /\ n = x.id
    BY IdsElement
  <2>1. CASE i \in DOMAIN p
    BY <1>1, <2>1, IdsElement
  <2>2. CASE i = Len(p) + 1
    BY <1>1, <2>2
  <2> QED
    BY <1>1, <2>1, <2>2
<1>3. \A n : n \in Ids(p, g) => n \in Ids(q, g)
  BY <1>1, IdsElement
<1>4. IsOp(x, g, {"OnDataProduced"}) => x.id \in Ids(q, g)
  BY <1>1, IdsElement
<1>5. CASE IsOp(x, g, {"OnDataProduced"})
  <2>1. Ids(q, g) = Ids(p, g) \cup {x.id}
    BY <1>2, <1>3, <1>4, <1>5
  <2> QED
    BY <1>5, <2>1 DEF q
<1>6. CASE ~IsOp(x, g, {"OnDataProduced"})
  <2>1. Ids(q, g) = Ids(p, g)
    BY <1>2, <1>3, <1>6
  <2> QED
    BY <1>6, <2>1 DEF q
<1> QED
  BY <1>5, <1>6

LEMMA IdsTail ==
  ASSUME NEW p \in Seq(Task), p # <<>>, NEW g, InOrder(p, g)
  PROVE  /\ ~IsOp(Head(p), g, {"OnDataProduced"}) =>
              Ids(Tail(p), g) = Ids(p, g)
         /\ IsOp(Head(p), g, {"OnDataProduced"}) =>
              /\ Head(p).id \in Ids(p, g)
              /\ Ids(Tail(p), g) = Ids(p, g) \ {Head(p).id}
              /\ \A n \in Ids(p, g) : Head(p).id <= n
<1> DEFINE q == Tail(p)
<1>0. \A i \in DOMAIN p : p[i].id \in Int
  <2>1. \A i \in DOMAIN p : p[i] \in Task
    OBVIOUS
  <2> QED
    BY <2>1 DEF Task
<1>1. /\ 1 \in DOMAIN p /\ Head(p) = p[1]
      /\ \A i \in DOMAIN q : i \in Nat /\ i + 1 \in DOMAIN p
                             /\ q[i] = p[i + 1]
      /\ \A k \in DOMAIN p : k # 1 =>
           k \in Nat /\ k - 1 \in DOMAIN q /\ q[k - 1] = p[k]
  BY TailElements
<1> HIDE DEF q
<1>2. \A n : n \in Ids(q, g) => n \in Ids(p, g)
  BY <1>1, IdsElement
<1>3. \A n : n \in Ids(p, g) =>
        \/ n \in Ids(q, g)
        \/ IsOp(p[1], g, {"OnDataProduced"}) /\ n = p[1].id
  <2> SUFFICES ASSUME NEW n, NEW i \in DOMAIN p,
                      IsOp(p[i], g, {"OnDataProduced"}), p[i].id = n
               PROVE  \/ n \in Ids(q, g)
                      \/ IsOp(p[1], g, {"OnDataProduced"}) /\ n = p[1].id
    BY IdsElement
  <2>1. CASE i # 1
    BY <1>1, <2>1, IdsElement
  <2> QED
    BY <2>1
<1>4. ASSUME IsOp(p[1], g, {"OnDataProduced"})
      PROVE  \A n \in Ids(q, g) : p[1].id < n
  <2> SUFFICES ASSUME NEW i \in DOMAIN q,
                      IsOp(q[i], g, {"OnDataProduced"})
               PROVE  p[1].id < q[i].id
    BY IdsElement
  <2>1. i + 1 \in DOMAIN p /\ q[i] = p[i + 1] /\ 1 < i + 1
    BY <1>1
  <2> QED
    BY <1>1, <1>4, <2>1 DEF InOrder, IsOp, HostOps, Callbacks, Before
<1>5. \A n \in Ids(p, g) : n \in Int
  BY <1>0, IdsElement
<1>6. CASE IsOp(p[1], g, {"OnDataProduced"})
  <2>1. p[1].id \in Ids(p, g) /\ p[1].id \in Int
    BY <1>0, <1>1, <1>6, IdsElement
  <2>2. \A n \in Ids(q, g) : n # p[1].id
    BY <1>2, <1>4, <1>5, <1>6, <2>1
  <2>3. Ids(q, g) = Ids(p, g) \ {p[1].id}
    BY <1>2, <1>3, <2>2
  <2>4. \A n \in Ids(p, g) : p[1].id <= n
    BY <1>3, <1>4, <1>5, <1>6, <2>1
  <2> QED
    BY <1>1, <1>6, <2>1, <2>3, <2>4 DEF q
<1>7. CASE ~IsOp(p[1], g, {"OnDataProduced"})
  BY <1>1, <1>2, <1>3, <1>7 DEF q
<1> QED
  BY <1>6, <1>7

\* Until PostInit has run.
Fresh(g) == called[g] = "none" \/ ~NoPostInit(queue, g)

FreshInv == \A g \in Host : FreshFor(g)

LEMMA FreshBefore ==
  ASSUME TypeOK, [Next]_vars, NEW g \in Host, Fresh(g)'
  PROVE  Fresh(g)
<1>1. called'[g] = "none" => called[g] = "none"
  BY DEF TypeOK, Next, vars, hostVars, clientVars, HostStep, ReplyInit,
     ReplyDestroy, OnDataProduced, OnFactoryDestory, StubStep,
     PostInitCrash, PostInit, PostDestroy, StubOnDataProduced,
     StubSkipsData, StubOnFactoryDestroy, ClientStep, HostInit,
     HostDestroy, ReleaseHandle, FactoryTask, NotifyDone, QuitLoop,
     DestroyLoop
<1>2. ASSUME NEW i \in DOMAIN queue'[FactoryThread],
             IsPostInit(queue'[FactoryThread][i], g)
      PROVE  Fresh(g)
  <2>1. FactoryThread \in Thread
    BY HostAssumption
  <2>2. CASE \E k \in DOMAIN queue[FactoryThread] :
               queue'[FactoryThread][i] = queue[FactoryThread][k]
    BY <1>2, <2>2 DEF Fresh, NoPostInit
  <2>3. CASE Posted(FactoryThread, queue'[FactoryThread][i])
    <3>1. HostInit(g)
      BY <1>2, <2>3, TaskForFields DEF Posted, IsPostInit
    <3> QED
      BY <3>1 DEF HostInit, Fresh
  <2> QED
    BY <2>1, <2>2, <2>3, StepPosts DEF NewTasks
<1>3. Fresh(g)' <=> called'[g] = "none"
                    \/ ~(\A i \in DOMAIN queue'[FactoryThread] :
                           ~IsPostInit(queue'[FactoryThread][i], g))
  BY DEF Fresh, NoPostInit
<1> QED
  BY <1>1, <1>2, <1>3 DEF Fresh

LEMMA FreshInvariant == Spec => []FreshInv
<1>1. Init => FreshInv
  BY DEF Init, FreshInv, FreshFor
<1>2. TypeOK /\ StubInv /\ AloneInv /\ FreshInv /\ [Next]_vars => FreshInv'
  <2> SUFFICES ASSUME TypeOK, StubInv, AloneInv, FreshInv, [Next]_vars,
                      NEW g \in Host, Fresh(g)'
               PROVE  sent'[g] = 0 /\ receive_'[g] = 0 /\ destroyTime'[g] = 0
    BY DEF FreshInv, FreshFor, Fresh
  <2>1. Fresh(g)
    BY FreshBefore
  <2>2. sent[g] = 0 /\ receive_[g] = 0 /\ destroyTime[g] = 0
    BY <2>1 DEF FreshInv, FreshFor, Fresh
  <2>3. CASE QuietFor(g) \/ VanishFor(g) \/ PostInit(g) \/ PostDestroy(g)
               \/ StubOnFactoryDestroy(g)
    BY <2>2, <2>3 DEF QuietFor, VanishFor, Own, PostInit, PostDestroy,
       StubOnFactoryDestroy, countVars, historyVars
  <2>4. CASE StubOnDataProduced(g)
    BY <2>1, <2>4 DEF StubOnDataProduced, StubInv, StubsMatchFactory,
       AloneInv, Fresh
  <2>5. CASE HostStep(g)
    <3> DEFINE t == HostThread[g]
    <3>1. /\ AloneFor(g) /\ t \in Thread /\ queue[t] # <<>>
          /\ queue \in [Thread -> Seq(Task)]
          /\ Head(queue[t]).host = g /\ Head(queue[t]).op # "PostInit"
      BY <2>5, HostAssumption
         DEF AloneInv, AloneFor, HostStep, ReplyInit, ReplyDestroy,
             OnDataProduced, OnFactoryDestory, IsNext, TypeOK
    <3> HIDE DEF t
    <3>2. called[g] # "none" /\ NoPostInit(queue, g)
      BY <3>1, HeadCalled, HeadNoPostInit DEF AloneFor
    <3> QED
      BY <2>1, <3>2 DEF Fresh
  <2> QED
    BY <2>3, <2>4, <2>5, StepKinds DEF OwnStep
<1> QED
  BY <1>1, <1>2, Typed, StubInvariant, AloneInvariant, PTL DEF Spec

\* A PostInit that runs was queued.
LEMMA PostInitFresh ==
  ASSUME TypeOK, NEW g \in Host, PostInit(g)
  PROVE  Fresh(g)
<1>1. /\ queue[FactoryThread] \in Seq(Task)
      /\ queue[FactoryThread] # <<>>
      /\ IsPostInit(Head(queue[FactoryThread]), g)
  BY HostAssumption DEF PostInit, IsNext, IsPostInit, TypeOK
<1> QED
  BY <1>1, TailElements DEF Fresh, NoPostInit

\* The counters of a host as integers.
LEMMA CountersTyped ==
  ASSUME TypeOK, NEW g \in Host
  PROVE  receive_[g] \in Nat /\ sent[g] \in Nat /\ first[g] \in Nat
         /\ hostData[g] \in Int /\ destroyTime[g] \in Nat
  BY DEF TypeOK

\* Steps that leave the counters and the data of a host in its queue.
LEMMA LossKeeps ==
  ASSUME TypeOK, NEW g \in Host, LossFor(g),
         first'[g] = first[g], sent'[g] = sent[g], receive_'[g] = receive_[g],
         stub_'[g] => stub_[g] /\ Bound(g)' = Bound(g),
         destroy_'[g] => destroy_[g] \/ receive_[g] = sent[g],
         Ids(Mine(g)', g) \subseteq Ids(Mine(g), g),
         ~Gone(g)' => ~Gone(g) /\ Ids(Mine(g)', g) = Ids(Mine(g), g)
  PROVE  LossFor(g)'
<1>1. OnTheWay(g)' = OnTheWay(g)
  BY DEF OnTheWay
<1>2. Ids(Mine(g), g)' = Ids(Mine(g)', g)
  BY DEF Ids
<1> QED
  BY <1>1, <1>2 DEF LossFor

LEMMA LossQuiet ==
  ASSUME TypeOK, StubInv, [Next]_vars, NEW g \in Host \ FreqHost, LossFor(g),
         QuietFor(g) \/ VanishFor(g)
  PROVE  LossFor(g)'
<1>1. /\ first'[g] = first[g] /\ sent'[g] = sent[g]
      /\ receive_'[g] = receive_[g] /\ stub_'[g] = stub_[g]
      /\ destroy_'[g] = destroy_[g]
  BY DEF QuietFor, VanishFor, Own
<1>2. stub_[g] => Bound(g)' = Bound(g)
  <2>1. ~StubOnDataProduced(g)
    BY <1>1, CountersTyped DEF StubOnDataProduced, TypeOK
  <2>2. ~StubSkipsData(g)
    BY DEF StubSkipsData
  <2> QED
    BY <2>1, <2>2, BoundStep
<1>3. CASE QuietFor(g)
  <2>1. Ids(Mine(g)', g) = Ids(Mine(g), g) /\ (Gone(g)' <=> Gone(g))
    BY <1>3, IdsSame DEF QuietFor
  <2> QED
    BY <1>1, <1>2, <2>1, LossKeeps
<1>4. CASE VanishFor(g)
  <2>1. Gone(g)' /\ Ids(Mine(g)', g) = {}
    BY <1>4 DEF VanishFor, Ids
  <2> QED
    BY <1>1, <1>2, <2>1, LossKeeps
<1> QED
  BY <1>3, <1>4

\* LossFor(g)' for a step that moves data: q is the new queue.
LEMMA LossNext ==
  ASSUME NEW g \in Host, NEW q, Mine(g)' = q,
         receive_'[g] <= sent'[g],
         stub_'[g] => first'[g] + sent'[g] = Bound(g)',
         destroy_'[g] => receive_'[g] = sent'[g],
         Ids(q, g) \subseteq
           (first'[g] + receive_'[g]) .. (first'[g] + sent'[g] - 1),
         ~Gone(g)' =>
           Ids(q, g) = (first'[g] + receive_'[g]) .. (first'[g] + sent'[g] - 1)
  PROVE  LossFor(g)'
<1>1. Ids(Mine(g), g)' = Ids(q, g)
  BY DEF Ids
<1> QED
  BY <1>1 DEF LossFor, OnTheWay

LEMMA LossPostInit ==
  ASSUME TypeOK, AloneInv, FreshInv, NEW g \in Host, PostInit(g)
  PROVE  LossFor(g)'
<1> DEFINE x == TaskFor("ReplyInit", g)
<1>1. PICK p \in Seq(Task) :
        /\ \A i \in DOMAIN p : p[i].host # g
        /\ Mine(g)' = IF Gone(g) THEN p ELSE Append(p, x)
  BY PostInitMine
<1>2. x \in Task /\ ~IsOp(x, g, {"OnDataProduced"})
  BY TaskTyped, TaskForFields DEF Ops, IsOp
<1> HIDE DEF x
<1>3. Ids(p, g) = {}
  BY <1>1 DEF Ids, IsOp
<1>4. Ids(Mine(g)', g) = {}
  BY <1>1, <1>2, <1>3, IdsAppend
<1>5. sent[g] = 0 /\ receive_[g] = 0
  BY PostInitFresh DEF FreshInv, FreshFor, Fresh
<1>6. ~destroy_[g]
  BY PostInitFresh DEF AloneInv, Fresh
<1>7. /\ sent'[g] = 0 /\ receive_'[g] = 0 /\ destroy_'[g] = destroy_[g]
      /\ first'[g] = id /\ id \in Nat /\ Bound(g)' = id
  BY <1>5 DEF PostInit, TypeOK, FactoryTypeOK, Bound, factoryVars, flagVars
<1> DEFINE q == Mine(g)'
<1>8. Ids(q, g) = (first'[g] + receive_'[g]) .. (first'[g] + sent'[g] - 1)
  BY <1>4, <1>7
<1> HIDE DEF q
<1> QED
  BY <1>6, <1>7, <1>8, LossNext DEF q

LEMMA LossPostDestroy ==
  ASSUME TypeOK, NEW g \in Host, LossFor(g), PostDestroy(g)
  PROVE  LossFor(g)'
<1> DEFINE x == TaskFor("ReplyDestroy", g)
<1>1. /\ Gone(g)' <=> Gone(g)
      /\ \E p \in Seq(Task) :
           /\ Same(Mine(g), p, g)
           /\ Mine(g)' = IF Gone(g) THEN p ELSE Append(p, x)
  BY PostDestroyMine
<1>2. x \in Task /\ ~IsOp(x, g, {"OnDataProduced"})
  BY TaskTyped, TaskForFields DEF Ops, IsOp
<1> HIDE DEF x
<1>3. Ids(Mine(g)', g) = Ids(Mine(g), g)
  BY <1>1, <1>2, IdsSame, IdsAppend
<1>4. /\ first'[g] = first[g] /\ sent'[g] = sent[g]
      /\ receive_'[g] = receive_[g] /\ ~stub_'[g]
      /\ destroy_'[g] = destroy_[g]
  BY DEF PostDestroy, TypeOK, flagVars, countVars, historyVars
<1> QED
  BY <1>1, <1>3, <1>4, LossKeeps

LEMMA LossStubData ==
  ASSUME TypeOK, StubInv, FactoryDataInv, NEW g \in Host, OrderFor(g),
         LossFor(g), StubOnDataProduced(g)
  PROVE  LossFor(g)'
<1> DEFINE x == DataTask(g, data_)
           p == Mine(g)
           f == first[g]
           r == receive_[g]
           s == sent[g]
<1>1. x \in Task /\ IsOp(x, g, {"OnDataProduced"}) /\ x.id = id
  BY StubDataMine, TaskForFields DEF DataTask, FactoryDataInv,
     StubOnDataProduced, IsOp
<1>2. /\ p \in Seq(Task)
      /\ Mine(g)' = IF Gone(g) THEN p ELSE Append(p, x)
      /\ Gone(g)' <=> Gone(g)
  BY StubDataMine
<1>3. stub_[g] /\ ~destroy_[g]
  BY DEF StubInv, StubsMatchFactory, StubOnDataProduced, OrderFor
<1>4. /\ first'[g] = f /\ sent'[g] = s + 1 /\ receive_'[g] = r
      /\ destroy_'[g] = destroy_[g]
      /\ id \in Nat /\ Bound(g) = id /\ Bound(g)' = id + 1
  BY DEF StubOnDataProduced, TypeOK, FactoryTypeOK, Bound, factoryVars,
     flagVars, countVars
<1>5. f \in Nat /\ r \in Nat /\ s \in Nat
  BY CountersTyped
<1>6. /\ r <= s /\ f + s = id
      /\ Ids(p, g) \subseteq (f + r) .. (f + s - 1)
      /\ ~Gone(g) => Ids(p, g) = (f + r) .. (f + s - 1)
  BY <1>3, <1>4 DEF LossFor, OnTheWay
<1>7. Ids(Append(p, x), g) = Ids(p, g) \cup {id}
  <2> HIDE DEF p, x
  <2> QED
    BY <1>1, <1>2, IdsAppend
<1> DEFINE q == Mine(g)'
<1>8. Ids(q, g) = IF Gone(g) THEN Ids(p, g) ELSE Ids(p, g) \cup {id}
  BY <1>2, <1>7
<1> HIDE DEF p, q, f, r, s, x
<1>9. /\ Ids(q, g) \subseteq (f + r) .. (f + (s + 1) - 1)
      /\ ~Gone(g) => Ids(q, g) = (f + r) .. (f + (s + 1) - 1)
  <2>1. (f + r) .. (f + (s + 1) - 1) = ((f + r) .. (f + s - 1)) \cup {id}
    BY <1>5, <1>6
  <2> QED
    BY <1>6, <1>8, <2>1
<1>10. r <= s + 1 /\ f + (s + 1) = id + 1
  BY <1>4, <1>5, <1>6
<1> QED
  BY <1>2, <1>3, <1>4, <1>9, <1>10, LossNext DEF q

LEMMA LossStubEnd ==
  ASSUME TypeOK, NEW g \in Host, LossFor(g), StubOnFactoryDestroy(g)
  PROVE  LossFor(g)'
<1> DEFINE x == TaskFor("OnFactoryDestory", g)
           y == TaskFor("StubReplyDestroy", g)
           p == Mine(g)
<1>1. /\ p \in Seq(Task) /\ Append(p, x) \in Seq(Task)
      /\ x \in Task /\ ~IsOp(x, g, {"OnDataProduced"})
      /\ y \in Task /\ ~IsOp(y, g, {"OnDataProduced"})
      /\ Mine(g)' = IF Gone(g) THEN p ELSE Append(Append(p, x), y)
      /\ Gone(g)' <=> Gone(g)
  BY StubEndMine, TaskForFields DEF IsOp
<1> HIDE DEF x, y
<1>2. Ids(Mine(g)', g) = Ids(p, g)
  <2> HIDE DEF p
  <2>1. /\ Ids(Append(p, x), g) = Ids(p, g)
        /\ Ids(Append(Append(p, x), y), g) = Ids(Append(p, x), g)
    BY <1>1, IdsAppend
  <2> QED
    BY <1>1, <2>1
<1>3. /\ first'[g] = first[g] /\ sent'[g] = sent[g]
      /\ receive_'[g] = receive_[g] /\ ~stub_'[g]
      /\ destroy_'[g] = destroy_[g]
  BY DEF StubOnFactoryDestroy, TypeOK, flagVars, countVars, historyVars
<1> QED
  BY <1>1, <1>2, <1>3, LossKeeps

\* What runs is the oldest data on the way; OnDestroy runs when there is none.
LEMMA LossHost ==
  ASSUME TypeOK, NEW g \in Host, OrderFor(g), OrderFor(g)', LossFor(g),
         HostStep(g)
  PROVE  LossFor(g)'
<1> DEFINE p == Mine(g)
           x == Head(p)
           f == first[g]
           r == receive_[g]
           s == sent[g]
<1>1. /\ p \in Seq(Task) /\ p # <<>> /\ Mine(g)' = Tail(p)
      /\ x.host = g /\ ~Gone(g) /\ ~Gone(g)'
  BY HostStepMine
<1>2. InOrder(p, g)
  BY DEF OrderFor
<1>3. /\ first'[g] = f /\ sent'[g] = s /\ stub_'[g] = stub_[g]
      /\ Bound(g)' = Bound(g)
  BY DEF HostStep, ReplyInit, ReplyDestroy, OnDataProduced, OnFactoryDestory,
     historyVars, listVars, Bound, factoryVars
<1>4. /\ r <= s /\ f \in Nat /\ r \in Nat /\ s \in Nat
      /\ Ids(p, g) = (f + r) .. (f + s - 1)
      /\ stub_[g] => f + s = Bound(g)
      /\ destroy_[g] => r = s
  BY <1>1, CountersTyped DEF LossFor, OnTheWay
<1>5. CASE OnDataProduced(g)
  <2>1. /\ IsOp(x, g, {"OnDataProduced"})
        /\ receive_'[g] = r + 1 /\ destroy_'[g] = destroy_[g]
    BY <1>5 DEF OnDataProduced, IsNext, IsOp, Mine, TypeOK, flagVars
  <2>2. ~destroy_[g]
    BY <1>5, CallbackRuns
  <2> DEFINE q == Mine(g)'
  <2> HIDE DEF p
  <2>3. /\ x.id \in Ids(p, g)
        /\ Ids(q, g) = Ids(p, g) \ {x.id}
        /\ \A n \in Ids(p, g) : x.id <= n
    BY <1>1, <1>2, <2>1, IdsTail
  <2> HIDE DEF f, r, s, x, q
  <2>4. x.id = f + r /\ r + 1 <= s
    <3>1. x.id \in (f + r) .. (f + s - 1)
      BY <1>4, <2>3
    <3>2. x.id \in Int /\ f + r <= x.id /\ x.id <= f + s - 1
      BY <1>4, <3>1
    <3>3. f + r \in Ids(p, g)
      BY <1>4, <3>2
    <3>4. x.id <= f + r
      BY <2>3, <3>3
    <3> QED
      BY <1>4, <3>2, <3>4
  <2>5. Ids(q, g) = (f + (r + 1)) .. (f + s - 1)
    BY <1>4, <2>3, <2>4
  <2> QED
    BY <1>3, <1>4, <2>1, <2>2, <2>4, <2>5, LossNext DEF q
<1>6. CASE ReplyInit(g) \/ ReplyDestroy(g) \/ OnFactoryDestory(g)
  <2>1. /\ ~IsOp(x, g, {"OnDataProduced"})
        /\ receive_'[g] = r
        /\ destroy_'[g] => destroy_[g] \/ ReplyDestroy(g)
    BY <1>6 DEF ReplyInit, ReplyDestroy, OnFactoryDestory, IsNext, IsOp, Mine,
       countVars, flagVars
  <2>2. Ids(Mine(g)', g) = Ids(p, g)
    <3> HIDE DEF p
    <3> QED
      BY <1>1, <1>2, <2>1, IdsTail
  <2>3. ASSUME ReplyDestroy(g)
        PROVE  r = s
    <3>1. destroy_'[g]
      BY <2>3 DEF ReplyDestroy, TypeOK
    <3>2. ~Has(Mine(g)', g, {"ReplyInit"} \cup Callbacks)
      BY <3>1 DEF OrderFor, Has
    <3>3. Ids(Mine(g)', g) = {}
      BY <3>2 DEF Ids, Has, IsOp, Callbacks
    <3> HIDE DEF f, r, s, p
    <3>4. (f + r) .. (f + s - 1) = {}
      BY <1>4, <2>2, <3>3
    <3> QED
      BY <1>4, <3>4
  <2> QED
    BY <1>1, <1>3, <2>1, <2>2, <2>3, LossKeeps
<1> QED
  BY <1>5, <1>6 DEF HostStep

LossInv == \A g \in Host \ FreqHost : LossFor(g)

LEMMA LossInvariant == Spec => []LossInv
<1>1. Init => LossInv
  <2> SUFFICES ASSUME Init, NEW g \in Host
               PROVE  LossFor(g)
    BY DEF LossInv
  <2>1. Ids(Mine(g), g) = {}
    BY HostAssumption DEF Init, Mine, Ids
  <2>2. OnTheWay(g) = {}
    BY DEF Init, OnTheWay
  <2> QED
    BY <2>1, <2>2 DEF Init, LossFor
<1>2. TypeOK /\ StubInv /\ AloneInv /\ FreshInv /\ FactoryDataInv /\ OrderInv
        /\ OrderInv' /\ LossInv /\ [Next]_vars => LossInv'
  <2> SUFFICES ASSUME TypeOK, StubInv, AloneInv, FreshInv, FactoryDataInv,
                      OrderInv, OrderInv', LossInv, [Next]_vars,
                      NEW g \in Host \ FreqHost
               PROVE  LossFor(g)'
    BY DEF LossInv
  <2>1. LossFor(g) /\ OrderFor(g) /\ OrderFor(g)'
    BY DEF LossInv, OrderInv
  <2> QED
    BY <2>1, StepKinds, LossQuiet, LossPostInit, LossPostDestroy,
       LossStubData, LossStubEnd, LossHost DEF OwnStep
<1> QED
  BY <1>1, <1>2, Typed, StubInvariant, AloneInvariant, FreshInvariant,
     FactoryDataInvariant, OrderInvariant, PTL DEF Spec

\* TestNoLostProductData (factory_host_unittest.cc) for every moment of every
\* run: a plain host's stub forwards each data exactly once, its ids fill the
\* interval between what arrived and what was sent, and OnDestroy comes after
\* the last of them.
THEOREM NoDataIsLost == Spec => []NoLostData
<1>1. LossInv => NoLostData
  BY DEF LossInv, LossFor, NoLostData, Bound
<1> QED
  BY <1>1, LossInvariant, PTL

-----------------------------------------------------------------------------
(* OnDestroy once *)

LEMMA DcheckGrows ==
  ASSUME [Next]_vars
  PROVE  dcheck \subseteq dcheck'
  BY DEF Next, vars, hostVars, HostStep, ReplyInit, ReplyDestroy,
     OnDataProduced, OnFactoryDestory, StubStep, PostInitCrash, PostInit,
     PostDestroy, StubOnDataProduced, StubSkipsData, StubOnFactoryDestroy,
     ClientStep, HostInit, HostDestroy, ReleaseHandle, FactoryTask,
     NotifyDone, QuitLoop, DestroyLoop, ReleaseRefs

LEMMA OnceNext ==
  ASSUME NEW g \in Host, NEW q, Mine(g)' = q,
         stub_'[g] => destroyTime'[g] = 0,
         "PostDestroy" \notin dcheck' =>
           /\ destroyTime'[g] <= 1
           /\ Has(q, g, Answers) => destroyTime'[g] = 0
           /\ OneAnswer(q, g)
  PROVE  OnceFor(g)'
<1>1. /\ Has(Mine(g), g, Answers)' <=> Has(q, g, Answers)
      /\ OneAnswer(Mine(g), g)' <=> OneAnswer(q, g)
  BY DEF Has, OneAnswer
<1> QED
  BY <1>1 DEF OnceFor

LEMMA EmbedsOneAnswer ==
  ASSUME NEW p, NEW q, NEW g, Embeds(p, q, g), OneAnswer(p, g)
  PROVE  OneAnswer(q, g)
  BY DEF Embeds, OneAnswer, IsOp, HostOps

LEMMA AppendOneAnswer ==
  ASSUME NEW p \in Seq(Task), NEW x \in Task, NEW g, OneAnswer(p, g),
         Has(p, g, Answers) => ~IsOp(x, g, Answers)
  PROVE  OneAnswer(Append(p, x), g)
<1> DEFINE q == Append(p, x)
<1>1. /\ q[Len(p) + 1] = x
      /\ \A k \in DOMAIN p : k \in Nat /\ k < Len(p) + 1
                             /\ k \in DOMAIN q /\ q[k] = p[k]
      /\ \A k \in DOMAIN q : k \in DOMAIN p \/ k = Len(p) + 1
  BY AppendElements
<1> HIDE DEF q
<1>2. Len(p) \in Nat
  OBVIOUS
<1>3. ASSUME NEW i \in DOMAIN q, NEW j \in DOMAIN q, i < j,
             IsOp(q[i], g, Answers), IsOp(q[j], g, Answers)
      PROVE  FALSE
  <2>1. i \in DOMAIN p /\ q[i] = p[i]
    BY <1>1, <1>2, <1>3
  <2>2. CASE j \in DOMAIN p
    BY <1>1, <1>3, <2>1, <2>2 DEF OneAnswer
  <2>3. CASE j = Len(p) + 1
    BY <1>1, <1>3, <2>1, <2>3 DEF Has
  <2> QED
    BY <1>1, <2>2, <2>3
<1> QED
  BY <1>3 DEF OneAnswer, q

\* Steps that take tasks of g away, or none.
LEMMA OnceFewer ==
  ASSUME NEW g \in Host, OnceFor(g), dcheck \subseteq dcheck',
         stub_'[g] => stub_[g], destroyTime'[g] = destroyTime[g],
         Embeds(Mine(g), Mine(g)', g)
  PROVE  OnceFor(g)'
<1> DEFINE p == Mine(g)
           q == Mine(g)'
<1>1. Embeds(p, q, g)
  OBVIOUS
<1>2. /\ stub_[g] => destroyTime[g] = 0
      /\ "PostDestroy" \notin dcheck =>
           /\ destroyTime[g] <= 1
           /\ Has(p, g, Answers) => destroyTime[g] = 0
           /\ OneAnswer(p, g)
  BY DEF OnceFor
<1> HIDE DEF p, q
<1>3. /\ Has(q, g, Answers) => Has(p, g, Answers)
      /\ OneAnswer(p, g) => OneAnswer(q, g)
  BY <1>1, EmbedsHas, EmbedsOneAnswer, OpsSubsets
<1> QED
  BY <1>2, <1>3, OnceNext DEF q

\* An answer is posted without a failing DCHECK only by a stub, and then it
\* is the first one of its host.
LEMMA OnceStub ==
  ASSUME TypeOK, StubInv, NEW g \in Host, OrderFor(g), OnceFor(g),
         PostDestroy(g) \/ StubOnFactoryDestroy(g)
  PROVE  OnceFor(g)'
<1> DEFINE p == Mine(g)
           q == Mine(g)'
<1>1. ~stub_'[g] /\ destroyTime'[g] = destroyTime[g]
  BY DEF PostDestroy, StubOnFactoryDestroy, TypeOK, countVars
<1>2. ASSUME "PostDestroy" \notin dcheck'
      PROVE  stub_[g] /\ "PostDestroy" \notin dcheck
  BY <1>2 DEF PostDestroy, StubOnFactoryDestroy, ReleaseRefs, Fails
<1>3. /\ stub_[g] => destroyTime[g] = 0
      /\ stub_[g] => ~Has(p, g, Answers)
  BY DEF OnceFor, OrderFor, Has, IsOp
<1>4. "PostDestroy" \notin dcheck => OneAnswer(p, g)
  BY DEF OnceFor
<1>5. ASSUME stub_[g], OneAnswer(p, g)
      PROVE  OneAnswer(q, g)
  <2>1. CASE PostDestroy(g)
    <3> DEFINE x == TaskFor("ReplyDestroy", g)
    <3>1. x \in Task
      BY TaskTyped DEF Ops
    <3> HIDE DEF x
    <3>2. PICK r \in Seq(Task) :
            /\ Same(p, r, g)
            /\ q = IF Gone(g) THEN r ELSE Append(r, x)
      BY <2>1, PostDestroyMine DEF x
    <3> HIDE DEF p, q
    <3>3. OneAnswer(r, g) /\ ~Has(r, g, Answers)
      BY <1>3, <1>5, <3>2, EmbedsOneAnswer, EmbedsHas, OpsSubsets DEF Same
    <3> QED
      BY <3>1, <3>2, <3>3, AppendOneAnswer
  <2>2. CASE StubOnFactoryDestroy(g)
    <3> DEFINE x == TaskFor("OnFactoryDestory", g)
               y == TaskFor("StubReplyDestroy", g)
    <3>1. /\ p \in Seq(Task) /\ Append(p, x) \in Seq(Task)
          /\ x \in Task /\ ~IsOp(x, g, Answers)
          /\ y \in Task
          /\ q = IF Gone(g) THEN p ELSE Append(Append(p, x), y)
      BY <2>2, StubEndMine, TaskForFields DEF IsOp, Answers
    <3> HIDE DEF p, q, x, y
    <3>2. OneAnswer(Append(p, x), g) /\ ~Has(Append(p, x), g, Answers)
      BY <1>3, <1>5, <3>1, AppendOneAnswer, AppendHas
    <3> QED
      BY <1>5, <3>1, <3>2, AppendOneAnswer
  <2> QED
    BY <2>1, <2>2
<1> HIDE DEF p, q
<1> QED
  BY <1>1, <1>2, <1>3, <1>4, <1>5, OnceNext DEF q

LEMMA OncePostInit ==
  ASSUME TypeOK, AloneInv, FreshInv, NEW g \in Host, PostInit(g)
  PROVE  OnceFor(g)'
<1> DEFINE x == TaskFor("ReplyInit", g)
           q == Mine(g)'
<1>1. PICK p \in Seq(Task) :
        /\ \A i \in DOMAIN p : p[i].host # g
        /\ q = IF Gone(g) THEN p ELSE Append(p, x)
  BY PostInitMine
<1>2. x \in Task /\ ~IsOp(x, g, Answers)
  BY TaskTyped, TaskForFields DEF Ops, IsOp, Answers
<1>3. destroyTime'[g] = 0
  BY PostInitFresh DEF FreshInv, FreshFor, Fresh, PostInit
<1> HIDE DEF x, q
<1>4. ~Has(p, g, Answers) /\ OneAnswer(p, g)
  BY <1>1 DEF Has, OneAnswer, IsOp
<1>5. ~Has(q, g, Answers) /\ OneAnswer(q, g)
  BY <1>1, <1>2, <1>4, AppendHas, AppendOneAnswer
<1> QED
  BY <1>3, <1>5, OnceNext DEF q

LEMMA OnceStubData ==
  ASSUME TypeOK, NEW g \in Host, OnceFor(g), StubOnDataProduced(g)
  PROVE  OnceFor(g)'
<1> DEFINE x == DataTask(g, data_)
           p == Mine(g)
           q == Mine(g)'
<1>1. /\ x \in Task /\ ~IsOp(x, g, Answers)
      /\ p \in Seq(Task)
      /\ q = IF Gone(g) THEN p ELSE Append(p, x)
  BY StubDataMine, TaskForFields DEF IsOp, Answers
<1>2. /\ stub_'[g] = stub_[g] /\ destroyTime'[g] = destroyTime[g]
      /\ dcheck' = dcheck
  BY DEF StubOnDataProduced, countVars
<1>3. /\ stub_[g] => destroyTime[g] = 0
      /\ "PostDestroy" \notin dcheck =>
           /\ destroyTime[g] <= 1
           /\ Has(p, g, Answers) => destroyTime[g] = 0
           /\ OneAnswer(p, g)
  BY DEF OnceFor
<1> HIDE DEF x, p, q
<1>4. /\ Has(q, g, Answers) => Has(p, g, Answers)
      /\ OneAnswer(p, g) => OneAnswer(q, g)
  BY <1>1, AppendHas, AppendOneAnswer
<1> QED
  BY <1>2, <1>3, <1>4, OnceNext DEF q

\* OnDestroy was the only answer in the queue.
LEMMA OnceHost ==
  ASSUME TypeOK, [Next]_vars, NEW g \in Host, OrderFor(g), OnceFor(g),
         HostStep(g)
  PROVE  OnceFor(g)'
<1> DEFINE p == Mine(g)
           q == Mine(g)'
<1>0. dcheck \subseteq dcheck'
  BY DcheckGrows
<1>1. /\ p \in Seq(Task) /\ p # <<>> /\ q = Tail(p) /\ Head(p).host = g
  BY HostStepMine
<1>2. stub_'[g] = stub_[g]
  BY DEF HostStep, ReplyInit, ReplyDestroy, OnDataProduced, OnFactoryDestory,
     listVars
<1>3. CASE ReplyInit(g) \/ OnDataProduced(g) \/ OnFactoryDestory(g)
  <2>1. destroyTime'[g] = destroyTime[g]
    BY <1>3 DEF ReplyInit, OnDataProduced, OnFactoryDestory, countVars
  <2>2. Embeds(p, q, g)
    <3> HIDE DEF p
    <3> QED
      BY <1>1, TailEmbeds
  <2> QED
    BY <1>0, <1>2, <2>1, <2>2, OnceFewer
<1>4. CASE ReplyDestroy(g)
  <2>1. IsOp(Head(p), g, Answers) /\ destroyTime'[g] = destroyTime[g] + 1
        /\ destroyTime[g] \in Nat
    BY <1>4 DEF ReplyDestroy, IsNext, IsOp, Answers, Mine, TypeOK
  <2>2. /\ stub_[g] => ~Has(p, g, Answers)
        /\ "PostDestroy" \notin dcheck =>
             /\ Has(p, g, Answers) => destroyTime[g] = 0
             /\ OneAnswer(p, g)
    BY DEF OrderFor, OnceFor, Has, IsOp
  <2> HIDE DEF p, q
  <2>3. Has(p, g, Answers)
    BY <1>1, <2>1, HeadHas
  <2>4. OneAnswer(p, g) => ~Has(q, g, Answers)
    <3>1. 1 \in DOMAIN p /\ Head(p) = p[1]
          /\ \A i \in DOMAIN q : i \in Nat /\ i + 1 \in DOMAIN p
                                 /\ q[i] = p[i + 1] /\ 1 < i + 1
      <4>1. \A i \in DOMAIN q : i \in Nat /\ i # 0
        BY <1>1
      <4> QED
        BY <1>1, <4>1, TailElements
    <3> QED
      BY <2>1, <3>1 DEF OneAnswer, Has
  <2>5. OneAnswer(p, g) => OneAnswer(q, g)
    BY <1>1, TailEmbeds, EmbedsOneAnswer
  <2> QED
    BY <1>0, <1>2, <2>1, <2>2, <2>3, <2>4, <2>5, OnceNext DEF q
<1> QED
  BY <1>3, <1>4 DEF HostStep

OnceInv == \A g \in Host : OnceFor(g)

LEMMA OnceInvariant == Spec => []OnceInv
<1>1. Init => OnceInv
  <2> SUFFICES ASSUME Init, NEW g \in Host
               PROVE  OnceFor(g)
    BY DEF OnceInv
  <2>1. ~Has(Mine(g), g, Answers) /\ OneAnswer(Mine(g), g)
    BY HostAssumption DEF Init, Mine, Has, OneAnswer
  <2> QED
    BY <2>1 DEF Init, OnceFor
<1>2. TypeOK /\ StubInv /\ AloneInv /\ FreshInv /\ OrderInv /\ OnceInv
        /\ [Next]_vars => OnceInv'
  <2> SUFFICES ASSUME TypeOK, StubInv, AloneInv, FreshInv, OrderInv, OnceInv,
                      [Next]_vars, NEW g \in Host
               PROVE  OnceFor(g)'
    BY DEF OnceInv
  <2>1. OnceFor(g) /\ OrderFor(g)
    BY DEF OnceInv, OrderInv
  <2>2. CASE QuietFor(g) \/ VanishFor(g)
    <3>1. /\ stub_'[g] = stub_[g] /\ destroyTime'[g] = destroyTime[g]
          /\ Embeds(Mine(g), Mine(g)', g)
      BY <2>2 DEF QuietFor, VanishFor, Own, Same, Embeds
    <3> QED
      BY <2>1, <3>1, DcheckGrows, OnceFewer
  <2> QED
    BY <2>1, <2>2, StepKinds, OncePostInit, OnceStub, OnceStubData, OnceHost
       DEF OwnStep
<1> QED
  BY <1>1, <1>2, Typed, StubInvariant, AloneInvariant, FreshInvariant,
     OrderInvariant, PTL DEF Spec

-----------------------------------------------------------------------------
(* What a shutdown leaks *)

\* A task at the head of a thread's queue is in it.
LEMMA NextHas ==
  ASSUME TypeOK, NEW t \in Thread, NEW op, NEW g, IsNext(t, op, g)
  PROVE  \E i \in DOMAIN queue[t] :
           queue[t][i].op = op /\ queue[t][i].host = g
<1> DEFINE s == queue[t]
<1>1. s \in Seq(Task) /\ s # <<>> /\ Head(s).op = op /\ Head(s).host = g
  BY DEF TypeOK, IsNext
<1> HIDE DEF s
<1>2. 1 \in DOMAIN s /\ Head(s) = s[1]
  BY <1>1, TailElements
<1> QED
  BY <1>1, <1>2 DEF s

\* Nothing of g's Init is queued any more, and OnInit did not run.
InitLost(g) ==
  /\ called[g] = "Init" /\ ~init_[g]
  /\ \A t \in Thread : ~Has(queue[t], g, {"PostInit", "ReplyInit"})

LEMMA InitLostStep ==
  ASSUME TypeOK, [Next]_vars, NEW g \in Host, InitLost(g)
  PROVE  InitLost(g)'
<1>1. ~HostInit(g) /\ ~HostDestroy(g)
  BY DEF HostInit, HostDestroy, InitLost
<1>2. ~ReplyInit(g) /\ ~PostInit(g)
  BY NextHas, HostAssumption DEF ReplyInit, PostInit, InitLost, Has, IsOp
<1>3. called'[g] = called[g]
  BY <1>1 DEF TypeOK, Next, vars, hostVars, clientVars, HostStep, ReplyInit,
     ReplyDestroy, OnDataProduced, OnFactoryDestory, StubStep,
     PostInitCrash, PostInit, PostDestroy, StubOnDataProduced,
     StubSkipsData, StubOnFactoryDestroy, ClientStep, HostInit,
     HostDestroy, ReleaseHandle, FactoryTask, NotifyDone, QuitLoop,
     DestroyLoop
<1>4. init_'[g] = init_[g]
  BY <1>2 DEF TypeOK, Next, vars, hostVars, flagVars, HostStep, ReplyInit,
     ReplyDestroy, OnDataProduced, OnFactoryDestory, StubStep,
     PostInitCrash, PostInit, PostDestroy, StubOnDataProduced,
     StubSkipsData, StubOnFactoryDestroy, ClientStep, HostInit,
     HostDestroy, ReleaseHandle, FactoryTask, NotifyDone, QuitLoop,
     DestroyLoop
<1>5. ASSUME NEW t \in Thread, NEW i \in DOMAIN queue'[t],
             IsOp(queue'[t][i], g, {"PostInit", "ReplyInit"})
      PROVE  FALSE
  <2>1. CASE \E k \in DOMAIN queue[t] : queue'[t][i] = queue[t][k]
    BY <1>5, <2>1 DEF InitLost, Has
  <2>2. CASE Posted(t, queue'[t][i])
    BY <1>1, <1>2, <1>5, <2>2, TaskForFields DEF Posted, IsOp
  <2> QED
    BY <2>1, <2>2, StepPosts DEF NewTasks
<1> QED
  BY <1>3, <1>4, <1>5 DEF InitLost, Has

\* A destroyed loop leaks a host whose Init or Destroy it holds.
LEMMA DestroyLeaks ==
  ASSUME TypeOK, AloneInv, PlacedInv, CalledInv, NEW g \in Host, OrderFor(g),
         NEW t \in Thread, DestroyLoop(t), g \in leaked', g \notin leaked
  PROVE  called'[g] = "Destroy" \/ InitLost(g)'
<1>1. /\ called' = called /\ init_' = init_
      /\ queue' = [queue EXCEPT ![t] = <<>>]
      /\ queue \in [Thread -> Seq(Task)]
      /\ called[g] \in {"none", "Init", "Destroy"}
  BY DEF DestroyLoop, clientVars, flagVars, TypeOK
<1>2. PICK i \in DOMAIN queue[t] :
        queue[t][i].host = g /\ queue[t][i].op \in RelayOps
  BY DEF DestroyLoop
<1>3. called[g] # "none"
  BY <1>2 DEF AloneInv, Clean
<1>4. CASE queue[t][i].op \in {"PostDestroy", "ReplyDestroy"}
  BY <1>1, <1>2, <1>4 DEF CalledInv, CalledFor, Has, IsOp
<1>5. CASE queue[t][i].op \in {"PostInit", "ReplyInit"}
  <2>1. ~init_[g]
    <3>1. CASE queue[t][i].op = "PostInit"
      <4>1. t = FactoryThread
        BY <1>2, <3>1 DEF PlacedInv, PlacedFor, HostOps, Callbacks, Answers
      <4> QED
        BY <1>2, <3>1, <4>1 DEF AloneInv, NoPostInit, IsPostInit
    <3>2. CASE queue[t][i].op = "ReplyInit"
      <4>1. t = HostThread[g]
        BY <1>2, <3>2 DEF PlacedInv, PlacedFor, HostOps
      <4> QED
        BY <1>2, <3>2, <4>1 DEF OrderFor, Has, IsOp, Mine
    <3> QED
      BY <1>5, <3>1, <3>2
  <2>2. ASSUME NEW u \in Thread, u # t, NEW j \in DOMAIN queue[u],
               IsOp(queue[u][j], g, {"PostInit", "ReplyInit"})
        PROVE  FALSE
    <3>1. CASE queue[u][j].op = "PostInit"
      <4>1. u = FactoryThread
        BY <2>2, <3>1 DEF PlacedInv, PlacedFor, HostOps, Callbacks, Answers,
           IsOp
      <4> QED
        BY <1>2, <2>2, <3>1, <4>1 DEF AloneInv, Alone, IsPostInit, IsOp
    <3>2. CASE queue[u][j].op = "ReplyInit" /\ queue[t][i].op = "PostInit"
      <4>1. t = FactoryThread
        BY <1>2, <3>2 DEF PlacedInv, PlacedFor, HostOps, Callbacks, Answers
      <4> QED
        BY <1>2, <2>2, <3>2, <4>1 DEF AloneInv, Alone, IsPostInit, IsOp
    <3>3. CASE queue[u][j].op = "ReplyInit" /\ queue[t][i].op = "ReplyInit"
      BY <1>2, <2>2, <3>3 DEF PlacedInv, PlacedFor, HostOps, IsOp
    <3> QED
      BY <1>5, <2>2, <3>1, <3>2, <3>3 DEF IsOp
  <2>3. \A u \in Thread : ~Has(queue'[u], g, {"PostInit", "ReplyInit"})
    <3> SUFFICES ASSUME NEW u \in Thread
                 PROVE  ~Has(queue'[u], g, {"PostInit", "ReplyInit"})
      OBVIOUS
    <3>1. CASE u = t
      <4>1. queue'[u] = <<>>
        BY <1>1, <3>1
      <4> QED
        BY <4>1 DEF Has
    <3>2. CASE u # t
      <4>1. queue'[u] = queue[u]
        BY <1>1, <3>2
      <4> QED
        BY <2>2, <3>2, <4>1 DEF Has
    <3> QED
      BY <3>1, <3>2
  <2> QED
    BY <1>1, <1>3, <2>1, <2>3 DEF InitLost, Has
<1> QED
  BY <1>2, <1>4, <1>5 DEF RelayOps

LeakInv == \A g \in leaked : called[g] = "Destroy" \/ InitLost(g)

LEMMA LeakInvariant == Spec => []LeakInv
<1>1. Init => LeakInv
  BY DEF Init, LeakInv
<1>2. TypeOK /\ TypeOK' /\ AloneInv /\ PlacedInv /\ CalledInv /\ OrderInv
        /\ LeakInv /\ [Next]_vars => LeakInv'
  <2> SUFFICES ASSUME TypeOK, TypeOK', AloneInv, PlacedInv, CalledInv,
                      OrderInv, LeakInv, [Next]_vars, NEW g \in leaked'
               PROVE  called'[g] = "Destroy" \/ InitLost(g)'
    BY DEF LeakInv
  <2>0. g \in Host /\ OrderFor(g)
    BY DEF TypeOK, OrderInv
  <2>1. CASE g \in leaked
    <3>1. called[g] = "Destroy" => called'[g] = "Destroy"
      BY <2>0, DestroyStays
    <3> QED
      BY <2>0, <2>1, <3>1, InitLostStep DEF LeakInv
  <2>2. CASE g \notin leaked
    <3>1. \E t \in Thread : DestroyLoop(t)
      BY <2>2 DEF Next, vars, hostVars, HostStep,
         ReplyInit, ReplyDestroy, OnDataProduced, OnFactoryDestory, StubStep,
         PostInitCrash, PostInit, PostDestroy, StubOnDataProduced,
         StubSkipsData, StubOnFactoryDestroy, ClientStep, HostInit,
         HostDestroy, ReleaseHandle, FactoryTask, NotifyDone, QuitLoop
    <3> QED
      BY <2>0, <2>2, <3>1, DestroyLeaks
  <2> QED
    BY <2>1, <2>2
<1> QED
  BY <1>1, <1>2, Typed, AloneInvariant, PlacedInvariant, CalledInvariant,
     OrderInvariant, PTL DEF Spec

-----------------------------------------------------------------------------
(* Who holds a host *)

\* A reference to a host comes from another one.
LEMMA NoNewReference ==
  ASSUME TypeOK, StubInv, [Next]_vars, NEW g \in Host, Held(g)'
  PROVE  Held(g)
<1>1. handle'[g] => handle[g]
  BY DEF TypeOK, Next, vars, hostVars, clientVars, HostStep, ReplyInit,
     ReplyDestroy, OnDataProduced, OnFactoryDestory, StubStep,
     PostInitCrash, PostInit, PostDestroy, StubOnDataProduced,
     StubSkipsData, StubOnFactoryDestroy, ClientStep, HostInit,
     HostDestroy, ReleaseHandle, FactoryTask, NotifyDone, QuitLoop,
     DestroyLoop
<1>2. stub_'[g] => stub_[g] \/ PostInit(g)
  <2>1. ASSUME NEW h \in Host, PostInit(h)
        PROVE  stub_'[g] => stub_[g] \/ PostInit(g)
    BY <2>1 DEF PostInit, TypeOK
  <2>2. ASSUME NEW h \in Host, PostDestroy(h) \/ StubOnFactoryDestroy(h)
        PROVE  stub_'[g] => stub_[g]
    BY <2>2 DEF PostDestroy, StubOnFactoryDestroy, TypeOK
  <2>3. \/ \E h \in Host : PostInit(h)
        \/ \E h \in Host : PostDestroy(h) \/ StubOnFactoryDestroy(h)
        \/ UNCHANGED stub_
    BY DEF Next, vars, hostVars, listVars, HostStep, ReplyInit,
       ReplyDestroy, OnDataProduced, OnFactoryDestory, StubStep,
       PostInitCrash, StubOnDataProduced, StubSkipsData, ClientStep,
       HostInit, HostDestroy, ReleaseHandle, FactoryTask, NotifyDone,
       QuitLoop, DestroyLoop
  <2> QED
    BY <2>1, <2>2, <2>3
<1>3. g \in leaked' => g \in leaked \/ \E t \in Thread : DestroyLoop(t)
  BY DEF Next, vars, hostVars, HostStep, ReplyInit, ReplyDestroy,
     OnDataProduced, OnFactoryDestory, StubStep, PostInitCrash, PostInit,
     PostDestroy, StubOnDataProduced, StubSkipsData, StubOnFactoryDestroy,
     ClientStep, HostInit, HostDestroy, ReleaseHandle, FactoryTask,
     NotifyDone, QuitLoop
<1>4. ASSUME PostInit(g) \/ PostDestroy(g)
      PROVE  Held(g)
  BY <1>4, NextHas, HostAssumption DEF PostInit, PostDestroy, Held
<1>5. ASSUME NEW t \in Thread, DestroyLoop(t), g \in leaked'
      PROVE  Held(g)
  BY <1>5 DEF DestroyLoop, Held
<1>6. ASSUME NEW t \in Thread, NEW i \in DOMAIN queue'[t],
             queue'[t][i].host = g
      PROVE  Held(g)
  <2>1. CASE \E k \in DOMAIN queue[t] : queue'[t][i] = queue[t][k]
    BY <1>6, <2>1 DEF Held
  <2>2. CASE Posted(t, queue'[t][i])
    <3>1. \/ HostInit(g) \/ HostDestroy(g)
          \/ PostInit(g) \/ PostDestroy(g)
          \/ StubOnDataProduced(g) \/ StubOnFactoryDestroy(g)
      BY <1>6, <2>2, TaskForFields DEF Posted
    <3> QED
      BY <1>4, <3>1 DEF HostInit, HostDestroy, StubOnDataProduced,
         StubOnFactoryDestroy, StubInv, StubsMatchFactory, Held
  <2> QED
    BY <2>1, <2>2, StepPosts DEF NewTasks
<1>7. \/ handle'[g] \/ stub_'[g] \/ g \in leaked'
      \/ \E t \in Thread : \E i \in DOMAIN queue'[t] : queue'[t][i].host = g
  BY DEF Held
<1> QED
  BY <1>1, <1>2, <1>3, <1>4, <1>5, <1>6, <1>7 DEF Held

LEMMA PostRetains ==
  ASSUME NEW q \in [Thread -> Seq(Task)], NEW t \in Thread, NEW x \in Task,
         NEW u \in Thread, NEW i \in DOMAIN q[u]
  PROVE  i \in DOMAIN Post(q, t, x)[u] /\ Post(q, t, x)[u][i] = q[u][i]
<1> DEFINE p == q[u]
           r == Post(q, t, x)[u]
<1>1. p \in Seq(Task) /\ i \in DOMAIN p
  OBVIOUS
<1>2. r = p \/ r = Append(p, x)
  BY PostAt
<1> HIDE DEF p, r
<1>3. i \in DOMAIN r /\ r[i] = p[i]
  BY <1>1, <1>2, AppendElements
<1> QED
  BY <1>3 DEF p, r

\* The steps that drop references, and those that keep them all.
Drops == alive' = [h \in Host |-> alive[h] /\ Held(h)']

KeepsAll ==
  /\ UNCHANGED <<handle, stub_, leaked, alive>>
  /\ \A t \in Thread : \A i \in DOMAIN queue[t] :
       i \in DOMAIN queue'[t] /\ queue'[t][i] = queue[t][i]

LEMMA DropsOrKeeps ==
  ASSUME TypeOK, [Next]_vars
  PROVE  Drops \/ KeepsAll
<1> USE DEF loopVars, listVars, clientVars
<1>1. ASSUME NEW h \in Host,
             \/ ReplyInit(h) \/ ReplyDestroy(h) \/ OnDataProduced(h)
             \/ OnFactoryDestory(h) \/ PostInit(h) \/ PostDestroy(h)
             \/ StubOnFactoryDestroy(h) \/ ReleaseHandle(h)
      PROVE  Drops
  BY <1>1 DEF ReplyInit, ReplyDestroy, OnDataProduced, OnFactoryDestory,
     PostInit, PostDestroy, StubOnFactoryDestroy, ReleaseHandle, ReleaseRefs,
     Drops
<1>2. ASSUME NEW t \in Thread, DestroyLoop(t)
      PROVE  Drops
  BY <1>2 DEF DestroyLoop, ReleaseRefs, Drops
<1>3. ASSUME NEW h \in Host, PostInitCrash(h) \/ StubSkipsData(h)
      PROVE  KeepsAll
  BY <1>3 DEF PostInitCrash, StubSkipsData, KeepsAll
<1>4. ASSUME NEW h \in Host,
             HostInit(h) \/ HostDestroy(h) \/ StubOnDataProduced(h)
      PROVE  KeepsAll
  <2>1. /\ queue \in [Thread -> Seq(Task)]
        /\ FactoryThread \in Thread /\ HostThread[h] \in Thread
        /\ TaskFor("PostInit", h) \in Task
        /\ TaskFor("PostDestroy", h) \in Task
        /\ DataTask(h, data_) \in Task
    BY HostAssumption, TaskTyped DEF TypeOK, FactoryTypeOK, Ops
  <2>2. \E t \in Thread : \E x \in Task : queue' = Post(queue, t, x)
    BY <1>4, <2>1 DEF HostInit, HostDestroy, StubOnDataProduced
  <2>3. UNCHANGED <<handle, stub_, leaked, alive>>
    BY <1>4 DEF HostInit, HostDestroy, StubOnDataProduced
  <2> QED
    BY <2>1, <2>2, <2>3, PostRetains DEF KeepsAll
<1>5. CASE FactoryTask \/ NotifyDone \/ UNCHANGED vars
  BY <1>5 DEF FactoryTask, NotifyDone, vars, hostVars, KeepsAll
<1>6. ASSUME NEW t \in Thread, QuitLoop(t)
      PROVE  KeepsAll
  BY <1>6 DEF QuitLoop, KeepsAll
<1> QED
  BY <1>1, <1>2, <1>3, <1>4, <1>5, <1>6
     DEF Next, HostStep, StubStep, ClientStep

AliveInv == \A g \in Host : alive[g] <=> Held(g)

\* The reference counts: an object lives exactly as long as somebody holds
\* it.
LEMMA AliveInvariant == Spec => []AliveInv
<1>1. Init => AliveInv
  BY DEF Init, AliveInv, Held
<1>2. TypeOK /\ StubInv /\ AliveInv /\ [Next]_vars => AliveInv'
  <2> SUFFICES ASSUME TypeOK, StubInv, AliveInv, [Next]_vars, NEW g \in Host
               PROVE  alive'[g] <=> Held(g)'
    BY DEF AliveInv
  <2>1. Held(g)' => Held(g)
    BY NoNewReference
  <2>2. alive[g] <=> Held(g)
    BY DEF AliveInv
  <2>3. CASE Drops
    <3>1. alive'[g] <=> alive[g] /\ Held(g)'
      BY <2>3 DEF Drops
    <3> QED
      BY <2>1, <2>2, <3>1
  <2>4. CASE KeepsAll
    <3>1. Held(g) => Held(g)'
      BY <2>4 DEF KeepsAll, Held
    <3>2. alive'[g] = alive[g]
      BY <2>4 DEF KeepsAll
    <3> QED
      BY <2>1, <2>2, <3>1, <3>2
  <2> QED
    BY <2>3, <2>4, DropsOrKeeps
<1> QED
  BY <1>1, <1>2, Typed, StubInvariant, PTL DEF Spec

-----------------------------------------------------------------------------
(* How the protocol ends *)

\* OnDestroy is called at most once, unless the two Destroys crossed; a
\* shutdown leaks a host only while its Init or Destroy is unanswered; and
\* once every loop is gone, a host that its client has released lives on only
\* if it has leaked (post_task_and_reply_impl.cc:20, main.cc).
THEOREM ProtocolEndsWell == Spec => []HostsEndWell
<1>1. OnceInv => OnDestroyOnce
  BY DEF OnceInv, OnceFor, OnDestroyOnce
<1>2. LeakInv => LeakMeansUnanswered
  BY DEF LeakInv, InitLost, LeakMeansUnanswered
<1>3. AliveInv /\ DeletedInv /\ StubInv => ShutdownFreesHosts
  <2> SUFFICES ASSUME AliveInv, DeletedInv, StubInv, NEW h \in Host,
                      ~handle[h], factory = "none",
                      \A t \in Thread : loop[t] = "gone"
               PROVE  alive[h] <=> h \in leaked
    BY DEF ShutdownFreesHosts
  <2>1. ~stub_[h]
    BY DEF StubInv, StubsMatchFactory
  <2>2. \A t \in Thread : queue[t] = <<>>
    BY DEF DeletedInv
  <2> QED
    BY <2>1, <2>2 DEF AliveInv, Held
<1> QED
  BY <1>1, <1>2, <1>3, OnceInvariant, LeakInvariant, AliveInvariant,
     DeletedInvariant, StubInvariant, PTL DEF HostsEndWell

-----------------------------------------------------------------------------
(* The DCHECKs *)

\* Where no loop quits, who has been told OnInit, or will be, is still told
\* by a stub or will be told OnDestroy.
AnsweredFor(g) ==
  init_[g] \/ Has(Mine(g), g, {"ReplyInit"}) =>
    destroy_[g] \/ stub_[g] \/ Has(Mine(g), g, Answers)

AnsweredInv ==
  QuitThread = {} =>
    /\ \A t \in Thread : loop[t] = "running"
    /\ \A g \in Host : AnsweredFor(g)

\* AnsweredFor(g)', said of the new queue q.
LEMMA AnsweredNext ==
  ASSUME NEW g \in Host, NEW q, Mine(g)' = q,
         init_'[g] \/ Has(q, g, {"ReplyInit"}) =>
           destroy_'[g] \/ stub_'[g] \/ Has(q, g, Answers)
  PROVE  AnsweredFor(g)'
<1>1. \A ops : Has(Mine(g), g, ops)' <=> Has(q, g, ops)
  BY DEF Has
<1> QED
  BY <1>1 DEF AnsweredFor

LEMMA AnsweredQuiet ==
  ASSUME NEW g \in Host, AnsweredFor(g), QuietFor(g)
  PROVE  AnsweredFor(g)'
<1> DEFINE p == Mine(g)
           q == Mine(g)'
<1>1. Embeds(p, q, g) /\ Retains(p, q, g)
  BY DEF QuietFor, Same
<1>2. /\ stub_'[g] = stub_[g] /\ init_'[g] = init_[g]
      /\ destroy_'[g] = destroy_[g]
  BY DEF QuietFor, Own
<1>3. init_[g] \/ Has(p, g, {"ReplyInit"}) =>
        destroy_[g] \/ stub_[g] \/ Has(p, g, Answers)
  BY DEF AnsweredFor
<1> HIDE DEF p, q
<1>4. \A ops \in SUBSET HostOps : Has(p, g, ops) <=> Has(q, g, ops)
  BY <1>1, EmbedsHas, RetainsHas
<1> QED
  BY <1>2, <1>3, <1>4, OpsSubsets, AnsweredNext DEF q

LEMMA AnsweredStub ==
  ASSUME TypeOK, StubInv, NEW g \in Host, ~Gone(g),
         \/ PostInit(g) \/ PostDestroy(g)
         \/ StubOnDataProduced(g) \/ StubOnFactoryDestroy(g)
  PROVE  AnsweredFor(g)'
<1>1. CASE PostInit(g) \/ StubOnDataProduced(g)
  <2>1. stub_'[g]
    BY <1>1 DEF PostInit, StubOnDataProduced, StubInv, StubsMatchFactory,
       TypeOK
  <2> QED
    BY <2>1 DEF AnsweredFor
<1>2. CASE PostDestroy(g) \/ StubOnFactoryDestroy(g)
  <2> DEFINE x == TaskFor(IF PostDestroy(g) THEN "ReplyDestroy"
                                            ELSE "StubReplyDestroy", g)
             q == Mine(g)'
  <2>1. x \in Task /\ IsOp(x, g, Answers)
    BY TaskTyped, TaskForFields DEF Ops, IsOp, Answers
  <2>2. \E p \in Seq(Task) : q = Append(p, x)
    <3>1. CASE PostDestroy(g)
      BY <3>1, PostDestroyMine
    <3>2. CASE ~PostDestroy(g)
      BY <1>2, <3>2, StubEndMine
    <3> QED
      BY <3>1, <3>2
  <2> HIDE DEF x, q
  <2>3. Has(q, g, Answers)
    BY <2>1, <2>2, AppendHas
  <2> QED
    BY <2>3, AnsweredNext DEF q
<1> QED
  BY <1>1, <1>2

LEMMA AnsweredHost ==
  ASSUME TypeOK, NEW g \in Host, AnsweredFor(g), HostStep(g)
  PROVE  AnsweredFor(g)'
<1> DEFINE p == Mine(g)
           q == Mine(g)'
<1>1. /\ p \in Seq(Task) /\ p # <<>> /\ q = Tail(p) /\ Head(p).host = g
  BY HostStepMine
<1>2. init_[g] \/ Has(p, g, {"ReplyInit"}) =>
        destroy_[g] \/ stub_[g] \/ Has(p, g, Answers)
  BY DEF AnsweredFor
<1>3. CASE ReplyDestroy(g)
  <2>1. destroy_'[g]
    BY <1>3 DEF ReplyDestroy, TypeOK
  <2> QED
    BY <2>1 DEF AnsweredFor
<1>4. CASE ReplyInit(g) \/ OnDataProduced(g) \/ OnFactoryDestory(g)
  <2>1. /\ ~IsOp(Head(p), g, Answers)
        /\ ReplyInit(g) => IsOp(Head(p), g, {"ReplyInit"})
    BY <1>4 DEF ReplyInit, OnDataProduced, OnFactoryDestory, IsNext, IsOp,
       Answers, Mine
  <2>2. /\ stub_'[g] = stub_[g] /\ destroy_'[g] = destroy_[g]
        /\ init_'[g] => init_[g] \/ ReplyInit(g)
    BY <1>4 DEF ReplyInit, OnDataProduced, OnFactoryDestory, listVars,
       flagVars, TypeOK
  <2> HIDE DEF p, q
  <2>3. /\ Has(p, g, Answers) => Has(q, g, Answers)
        /\ Has(q, g, {"ReplyInit"}) => Has(p, g, {"ReplyInit"})
        /\ ReplyInit(g) => Has(p, g, {"ReplyInit"})
    BY <1>1, <2>1, TailHas, TailEmbeds, EmbedsHas, HeadHas, OpsSubsets
  <2> QED
    BY <1>2, <2>2, <2>3, AnsweredNext DEF q
<1> QED
  BY <1>3, <1>4 DEF HostStep

LEMMA AnsweredInvariant == Spec => []AnsweredInv
<1>1. Init => AnsweredInv
  <2>1. ASSUME Init, NEW g \in Host
        PROVE  AnsweredFor(g)
    <3>1. ~Has(Mine(g), g, {"ReplyInit"})
      BY <2>1, HostAssumption DEF Init, Mine, Has
    <3> QED
      BY <2>1, <3>1 DEF Init, AnsweredFor
  <2>2. Init => \A t \in Thread : loop[t] = "running"
    BY DEF Init
  <2> QED
    BY <2>1, <2>2 DEF AnsweredInv
<1>2. TypeOK /\ StubInv /\ AnsweredInv /\ [Next]_vars => AnsweredInv'
  <2> SUFFICES ASSUME TypeOK, StubInv, AnsweredInv, [Next]_vars,
                      QuitThread = {}
               PROVE  /\ \A t \in Thread : loop'[t] = "running"
                      /\ \A g \in Host : AnsweredFor(g)'
    BY DEF AnsweredInv
  <2>1. \A t \in Thread : loop[t] = "running"
    BY DEF AnsweredInv
  <2>2. \A t \in Thread : ~QuitLoop(t) /\ ~DestroyLoop(t)
    BY <2>1 DEF QuitLoop, DestroyLoop
  <2>3. UNCHANGED loop
    BY <2>2 DEF Next, vars, hostVars, loopVars, HostStep, ReplyInit,
       ReplyDestroy, OnDataProduced, OnFactoryDestory, StubStep,
       PostInitCrash, PostInit, PostDestroy, StubOnDataProduced,
       StubSkipsData, StubOnFactoryDestroy, ClientStep, HostInit,
       HostDestroy, ReleaseHandle, FactoryTask, NotifyDone
  <2>4. ASSUME NEW g \in Host
        PROVE  AnsweredFor(g)'
    <3>1. AnsweredFor(g) /\ ~Gone(g) /\ ~Gone(g)'
      BY <2>1, <2>3, HostAssumption DEF AnsweredInv, Gone
    <3> QED
      BY <3>1, StepKinds, AnsweredQuiet, AnsweredStub, AnsweredHost
         DEF OwnStep, VanishFor
  <2> QED
    BY <2>1, <2>3, <2>4
<1> QED
  BY <1>1, <1>2, Typed, StubInvariant, PTL DEF Spec

\* The destructor's DCHECK (observer_cross_thread.cc:62), where no loop quits:
\* nobody lets go of a host between its two flags.
LEMMA FlagsAgree ==
  ASSUME NEW g \in Host, HostThread[g] \in Thread, OrderFor(g)',
         AnsweredFor(g)', init_'[g] \in BOOLEAN, destroy_'[g] \in BOOLEAN,
         ~Held(g)'
  PROVE  init_'[g] = destroy_'[g]
<1>1. ~stub_'[g] /\ \A ops : ~Has(Mine(g), g, ops)'
  BY DEF Held, Has, IsOp, Mine
<1>2. destroy_'[g] => init_'[g]
  BY <1>1 DEF OrderFor, Started
<1>3. init_'[g] => destroy_'[g]
  BY <1>1 DEF AnsweredFor
<1> QED
  BY <1>2, <1>3

\* Whatever the schedule, PostInit finds no stub (line 29), ReplyInit no
\* destroyed host (line 35) and, where no loop quits, the destructor two
\* equal flags (line 62).
THEOREM DchecksHold == Spec => []NoOtherDcheck
<1>1. Init => NoOtherDcheck
  BY DEF Init, NoOtherDcheck
<1>2. TypeOK /\ TypeOK' /\ AloneInv /\ OrderInv /\ OrderInv' /\ AnsweredInv'
        /\ AliveInv' /\ NoOtherDcheck /\ [Next]_vars => NoOtherDcheck'
  <2> SUFFICES ASSUME TypeOK, TypeOK', AloneInv, OrderInv, OrderInv',
                      AnsweredInv', AliveInv', NoOtherDcheck, [Next]_vars
               PROVE  NoOtherDcheck'
    OBVIOUS
  <2>1. ASSUME NEW failures, failures \subseteq {"PostDestroy"},
               ReleaseRefs(failures)
        PROVE  NoOtherDcheck'
    <3>1. CASE QuitThread # {}
      BY <2>1, <3>1 DEF ReleaseRefs, NoOtherDcheck
    <3>2. CASE QuitThread = {}
      <4>1. ASSUME NEW h \in Host, ~alive'[h]
            PROVE  init_'[h] = destroy_'[h]
        <5>1. /\ ~Held(h)' /\ OrderFor(h)' /\ AnsweredFor(h)'
              /\ init_'[h] \in BOOLEAN /\ destroy_'[h] \in BOOLEAN
              /\ HostThread[h] \in Thread
          BY <3>2, <4>1, HostAssumption
             DEF AliveInv, OrderInv, AnsweredInv, TypeOK
        <5> QED
          BY <5>1, FlagsAgree
      <4> QED
        BY <2>1, <3>2, <4>1 DEF ReleaseRefs, NoOtherDcheck
    <3> QED
      BY <3>1, <3>2
  <2>2. ASSUME NEW h \in Host, PostInit(h)
        PROVE  NoOtherDcheck'
    <3>1. ~stub_[h]
      BY <2>2, PostInitFresh DEF AloneInv, Fresh
    <3> QED
      BY <2>1, <2>2, <3>1 DEF PostInit, Fails
  <2>3. ASSUME NEW h \in Host, ReplyInit(h)
        PROVE  NoOtherDcheck'
    <3>1. Has(Mine(h), h, {"ReplyInit"})
      BY <2>3, NextHas, HostAssumption DEF ReplyInit, Has, IsOp, Mine
    <3>2. ~destroy_[h]
      BY <3>1 DEF OrderInv, OrderFor, Has, IsOp
    <3> QED
      BY <2>1, <2>3, <3>2 DEF ReplyInit, Fails
  <2>4. ASSUME NEW h \in Host, PostDestroy(h) \/ StubOnFactoryDestroy(h)
        PROVE  NoOtherDcheck'
    <3>1. Fails("PostDestroy", stub_[h]) \subseteq {"PostDestroy"}
      BY DEF Fails
    <3> QED
      BY <2>1, <2>4, <3>1 DEF PostDestroy, StubOnFactoryDestroy
  <2>5. ASSUME NEW h \in Host,
               \/ ReplyDestroy(h) \/ OnDataProduced(h)
               \/ OnFactoryDestory(h) \/ ReleaseHandle(h)
        PROVE  NoOtherDcheck'
    BY <2>1, <2>5 DEF ReplyDestroy, OnDataProduced, OnFactoryDestory,
       ReleaseHandle
  <2>6. ASSUME NEW t \in Thread, DestroyLoop(t)
        PROVE  NoOtherDcheck'
    BY <2>1, <2>6 DEF DestroyLoop
  <2>7. ASSUME NEW h \in Host, PostInitCrash(h)
        PROVE  NoOtherDcheck'
    BY <2>7 DEF PostInitCrash, NoOtherDcheck
  <2>8. ASSUME NEW h \in Host,
               \/ HostInit(h) \/ HostDestroy(h) \/ StubOnDataProduced(h)
               \/ StubSkipsData(h)
        PROVE  NoOtherDcheck'
    BY <2>8 DEF HostInit, HostDestroy, StubOnDataProduced, StubSkipsData,
       NoOtherDcheck
  <2>9. CASE FactoryTask \/ NotifyDone \/ UNCHANGED vars
                         \/ \E t \in Thread : QuitLoop(t)
    BY <2>9 DEF FactoryTask, NotifyDone, vars, hostVars, QuitLoop,
       NoOtherDcheck
  <2> QED
    BY <2>2, <2>3, <2>4, <2>5, <2>6, <2>7, <2>8, <2>9
       DEF Next, HostStep, StubStep, ClientStep
<1> QED
  BY <1>1, <1>2, Typed, AloneInvariant, OrderInvariant, AnsweredInvariant,
     AliveInvariant, PTL DEF Spec
=============================================================================
