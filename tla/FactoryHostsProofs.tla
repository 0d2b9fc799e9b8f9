-------------------------- MODULE FactoryHostsProofs --------------------------
(***************************************************************************)
(* Proofs about Factory, for every number of data and of Schedule tasks,   *)
(* and about FactoryHosts, for any number of hosts and threads and any     *)
(* placement of the hosts on the threads.                                  *)
(***************************************************************************)
EXTENDS FactoryHosts, TLAPS

-----------------------------------------------------------------------------
(* The factory, on its own thread.                                          *)

\* start_ is only ever assigned a literal.
LEMMA StartBoolean ==
  ASSUME start_ \in BOOLEAN, [FactoryNext]_factoryVars
  PROVE  start_' \in BOOLEAN
<1>1. CASE CreateFactory \/ Start \/ Stop \/ DestroyDone
  BY <1>1, Zenon DEF CreateFactory, Start, Stop, DestroyDone
<1>2. CASE ScheduleProduce \/ ScheduleStopped \/ ScheduleCancelled
             \/ ProduceDone \/ Destroy
  BY <1>2 DEF ScheduleProduce, ScheduleStopped, ScheduleCancelled,
              ProduceDone, Destroy
<1>3. CASE UNCHANGED factoryVars
  BY <1>3 DEF factoryVars
<1> QED
  BY <1>1, <1>2, <1>3 DEF FactoryNext

\* The step part of FactoryTyped.
LEMMA FactoryTypeStep ==
  ASSUME FactoryTypeOK, [FactoryNext]_factoryVars
  PROVE  FactoryTypeOK'
<1> USE DEF FactoryTypeOK
<1>1. start_' \in BOOLEAN
  BY StartBoolean
<1>2. CASE CreateFactory
  BY <1>1, <1>2 DEF CreateFactory
<1>3. CASE Start \/ Stop
  BY <1>1, <1>3 DEF Start, Stop
<1>4. CASE ScheduleProduce \/ ProduceDone
  BY <1>1, <1>4 DEF ScheduleProduce, ProduceDone
<1>5. CASE ScheduleStopped \/ ScheduleCancelled
  BY <1>1, <1>5 DEF ScheduleStopped, ScheduleCancelled
<1>6. CASE Destroy \/ DestroyDone
  BY <1>1, <1>6 DEF Destroy, DestroyDone
<1>7. CASE UNCHANGED factoryVars
  BY <1>7 DEF factoryVars
<1> QED
  BY <1>2, <1>3, <1>4, <1>5, <1>6, <1>7 DEF FactoryNext

\* The initial part of FactoryTyped.
LEMMA FactoryTypeInit == FactoryInit => FactoryTypeOK
<1> SUFFICES ASSUME FactoryInit
             PROVE  FactoryTypeOK
  OBVIOUS
<1>1. start_ \in BOOLEAN
  BY Zenon DEF FactoryInit
<1> QED
  BY <1>1 DEF FactoryInit, FactoryTypeOK

\* The factory's variables keep their types (factory.h:69-82).
THEOREM FactoryTyped == FactorySpec => []FactoryTypeOK
  BY FactoryTypeInit, FactoryTypeStep, PTL DEF FactorySpec, FactorySafety

\* No order of Start, Stop, Schedule and Destroy stalls a started factory
\* (factory.cc:21-69): a Schedule leaves the queue for good only while the
\* factory is stopped or destroyed, and every Start posts a new one.
THEOREM FactoryNeverStalls == FactorySpec => []NeverStalls
<1> USE DEF FactoryTypeOK, NeverStalls
<1>1. FactoryInit => NeverStalls
  BY DEF FactoryInit
<1>2. FactoryTypeOK /\ NeverStalls /\ [FactoryNext]_factoryVars => NeverStalls'
  <2> SUFFICES ASSUME FactoryTypeOK, NeverStalls, [FactoryNext]_factoryVars
               PROVE  NeverStalls'
    OBVIOUS
  <2>1. CASE CreateFactory \/ Stop \/ DestroyDone
    BY <2>1 DEF CreateFactory, Stop, DestroyDone
  <2>2. CASE Start
    BY <2>2 DEF Start
  <2>3. CASE ScheduleProduce
    BY <2>3 DEF ScheduleProduce
  <2>4. CASE ScheduleStopped
    BY <2>4 DEF ScheduleStopped
  <2>5. CASE ScheduleCancelled \/ ProduceDone \/ Destroy
    BY <2>5 DEF ScheduleCancelled, ProduceDone, Destroy
  <2>6. CASE UNCHANGED factoryVars
    BY <2>6 DEF factoryVars
  <2> QED
    BY <2>1, <2>2, <2>3, <2>4, <2>5, <2>6 DEF FactoryNext
<1> QED
  BY <1>1, <1>2, FactoryTyped, PTL DEF FactorySpec, FactorySafety

\* A destroyed factory is never called by a Schedule task (factory.cc:103):
\* all that its chains left in the queue is invalidated with it, and nothing
\* but Start, on a living factory, posts another.
THEOREM FactoryNoScheduleAfterDelete == FactorySpec => []NoScheduleAfterDelete
<1> USE DEF FactoryTypeOK, NoScheduleAfterDelete
<1>1. FactoryInit => NoScheduleAfterDelete
  BY DEF FactoryInit
<1>2. FactoryTypeOK /\ NoScheduleAfterDelete /\ [FactoryNext]_factoryVars
        => NoScheduleAfterDelete'
  <2> SUFFICES ASSUME FactoryTypeOK, NoScheduleAfterDelete,
                      [FactoryNext]_factoryVars
               PROVE  NoScheduleAfterDelete'
    OBVIOUS
  <2>1. CASE CreateFactory \/ Start \/ Stop \/ ScheduleProduce
    BY <2>1 DEF CreateFactory, Start, Stop, ScheduleProduce
  <2>2. CASE ScheduleStopped \/ ScheduleCancelled
    BY <2>2 DEF ScheduleStopped, ScheduleCancelled
  <2>3. CASE ProduceDone \/ Destroy \/ DestroyDone
    BY <2>3 DEF ProduceDone, Destroy, DestroyDone
  <2>4. CASE UNCHANGED factoryVars
    BY <2>4 DEF factoryVars
  <2> QED
    BY <2>1, <2>2, <2>3, <2>4 DEF FactoryNext
<1> QED
  BY <1>1, <1>2, FactoryTyped, PTL DEF FactorySpec, FactorySafety

\* Both at once: a started factory never stalls and a deleted one is never
\* called (factory.cc:21-69, 103).
THEOREM FactoryIsSafe == FactorySpec => []FactorySafe
  BY FactoryNeverStalls, FactoryNoScheduleAfterDelete, PTL DEF FactorySafe

-----------------------------------------------------------------------------
(* The hosts: types.                                                        *)

LEMMA SetTrue ==
  ASSUME NEW S, NEW f \in [S -> BOOLEAN], NEW x, NEW b \in BOOLEAN
  PROVE  [f EXCEPT ![x] = b] \in [S -> BOOLEAN]
  OBVIOUS

LEMMA TaskTyped ==
  ASSUME NEW h \in Host, NEW op \in Ops, NEW n \in Int
  PROVE  /\ TaskFor(op, h) \in Task
         /\ DataTask(h, n) \in Task
  BY DEF Task, TaskFor, DataTask, Ops

\* Posting to a loop, dead or alive, and taking its first task.
LEMMA PostTyped ==
  ASSUME NEW q \in [Thread -> Seq(Task)], NEW t \in Thread, NEW task \in Task
  PROVE  Post(q, t, task) \in [Thread -> Seq(Task)]
  BY DEF Post

LEMMA PopTyped ==
  ASSUME NEW q \in [Thread -> Seq(Task)], NEW t \in Thread, q[t] # <<>>
  PROVE  Pop(q, t) \in [Thread -> Seq(Task)]
  BY DEF Pop

LEMMA ReleaseTyped ==
  ASSUME NEW failures, ReleaseRefs(failures)
  PROVE  alive' \in [Host -> BOOLEAN]
<1>1. \A h \in Host : (alive[h] /\ Held(h)') \in BOOLEAN
  OBVIOUS
<1> QED
  BY <1>1 DEF ReleaseRefs

LEMMA FactoryTypeStutter ==
  ASSUME FactoryTypeOK, UNCHANGED factoryVars
  PROVE  FactoryTypeOK'
  BY FactoryTypeStep

\* Client steps write called, handle and the factory thread's queue.
LEMMA ClientStepTyped ==
  ASSUME TypeOK, NEW h \in Host, ClientStep(h)
  PROVE  TypeOK'
<1> USE DEF TypeOK, loopVars, listVars, flagVars, clientVars, countVars,
            historyVars
<1>0. FactoryTypeOK'
  BY FactoryTypeStutter DEF ClientStep, HostInit, HostDestroy, ReleaseHandle
<1>1. CASE HostInit(h)
  <2>1. queue' \in [Thread -> Seq(Task)]
    BY <1>1, TaskTyped, PostTyped, HostAssumption DEF HostInit, Ops
  <2> QED
    BY <1>0, <1>1, <2>1 DEF HostInit
<1>2. CASE HostDestroy(h)
  <2>1. queue' \in [Thread -> Seq(Task)]
    BY <1>2, TaskTyped, PostTyped, HostAssumption DEF HostDestroy, Ops
  <2> QED
    BY <1>0, <1>2, <2>1 DEF HostDestroy
<1>3. CASE ReleaseHandle(h)
  <2>1. handle' \in [Host -> BOOLEAN]
    BY <1>3, SetTrue DEF ReleaseHandle
  <2>2. alive' \in [Host -> BOOLEAN]
    BY <1>3, ReleaseTyped DEF ReleaseHandle
  <2> QED
    BY <1>0, <1>3, <2>1, <2>2 DEF ReleaseHandle
<1> QED
  BY <1>1, <1>2, <1>3 DEF ClientStep

\* Steps of the stub: a relay, or one call of a notification loop.
LEMMA StubStepTyped ==
  ASSUME TypeOK, NEW h \in Host, StubStep(h)
  PROVE  TypeOK'
<1> USE DEF TypeOK, loopVars, listVars, flagVars, clientVars, countVars,
            historyVars
<1>0. FactoryTypeOK'
  BY FactoryTypeStutter DEF StubStep, PostInitCrash, PostInit, PostDestroy,
       StubOnDataProduced, StubSkipsData, StubOnFactoryDestroy
<1>1. CASE PostInitCrash(h)
  <2>1. crashed' \in BOOLEAN
    BY <1>1, Zenon DEF PostInitCrash
  <2> QED
    BY <1>0, <1>1, <2>1 DEF PostInitCrash
<1>2. CASE PostInit(h)
  <2>1. queue' \in [Thread -> Seq(Task)]
    <3>1. Pop(queue, FactoryThread) \in [Thread -> Seq(Task)]
      BY <1>2, PopTyped, HostAssumption DEF PostInit, IsNext
    <3> QED
      BY <1>2, <3>1, TaskTyped, PostTyped, HostAssumption DEF PostInit, Ops
  <2>2. stub_' \in [Host -> BOOLEAN]
    BY <1>2, SetTrue DEF PostInit
  <2>3. alive' \in [Host -> BOOLEAN]
    BY <1>2, ReleaseTyped DEF PostInit
  <2>4. data_ \in Int /\ id \in Nat
    BY DEF FactoryTypeOK
  <2> QED
    BY <1>0, <1>2, <2>1, <2>2, <2>3, <2>4 DEF PostInit
<1>3. CASE PostDestroy(h)
  <2>1. queue' \in [Thread -> Seq(Task)]
    <3>1. Pop(queue, FactoryThread) \in [Thread -> Seq(Task)]
      BY <1>3, PopTyped, HostAssumption DEF PostDestroy, IsNext
    <3> QED
      BY <1>3, <3>1, TaskTyped, PostTyped, HostAssumption DEF PostDestroy, Ops
  <2>2. stub_' \in [Host -> BOOLEAN]
    BY <1>3, SetTrue DEF PostDestroy
  <2>3. alive' \in [Host -> BOOLEAN]
    BY <1>3, ReleaseTyped DEF PostDestroy
  <2> QED
    BY <1>0, <1>3, <2>1, <2>2, <2>3 DEF PostDestroy
<1>4. CASE StubOnDataProduced(h)
  <2>1. DataTask(h, data_) \in Task
    BY DEF Task, DataTask, Ops, FactoryTypeOK
  <2>2. queue' \in [Thread -> Seq(Task)]
    BY <1>4, <2>1, PostTyped, HostAssumption DEF StubOnDataProduced
  <2> QED
    BY <1>0, <1>4, <2>2 DEF StubOnDataProduced
<1>5. CASE StubSkipsData(h)
  BY <1>0, <1>5 DEF StubSkipsData
<1>6. CASE StubOnFactoryDestroy(h)
  <2>1. queue' \in [Thread -> Seq(Task)]
    <3>1. Post(queue, HostThread[h], TaskFor("OnFactoryDestory", h))
            \in [Thread -> Seq(Task)]
      BY TaskTyped, PostTyped, HostAssumption DEF Ops
    <3> QED
      BY <1>6, <3>1, TaskTyped, PostTyped, HostAssumption
         DEF StubOnFactoryDestroy, Ops
  <2>2. stub_' \in [Host -> BOOLEAN]
    BY <1>6, SetTrue DEF StubOnFactoryDestroy
  <2>3. alive' \in [Host -> BOOLEAN]
    BY <1>6, ReleaseTyped DEF StubOnFactoryDestroy
  <2> QED
    BY <1>0, <1>6, <2>1, <2>2, <2>3 DEF StubOnFactoryDestroy
<1> QED
  BY <1>1, <1>2, <1>3, <1>4, <1>5, <1>6 DEF StubStep

\* Tasks on a host thread.
LEMMA HostStepTyped ==
  ASSUME TypeOK, NEW h \in Host, HostStep(h)
  PROVE  TypeOK'
<1> USE DEF TypeOK, loopVars, listVars, flagVars, clientVars, countVars,
            historyVars
<1>0. FactoryTypeOK'
  BY FactoryTypeStutter DEF HostStep, ReplyInit, ReplyDestroy, OnDataProduced,
       OnFactoryDestory
<1>1. alive' \in [Host -> BOOLEAN]
  BY ReleaseTyped DEF HostStep, ReplyInit, ReplyDestroy, OnDataProduced,
       OnFactoryDestory
<1>2. queue' \in [Thread -> Seq(Task)]
  <2>1. /\ queue' = Pop(queue, HostThread[h])
        /\ queue[HostThread[h]] # <<>>
    BY DEF HostStep, ReplyInit, ReplyDestroy, OnDataProduced,
           OnFactoryDestory, IsNext
  <2> QED
    BY <2>1, PopTyped, HostAssumption
<1>3. CASE ReplyInit(h)
  <2>1. init_' \in [Host -> BOOLEAN]
    BY <1>3, SetTrue DEF ReplyInit
  <2> QED
    BY <1>0, <1>1, <1>2, <1>3, <2>1 DEF ReplyInit
<1>4. CASE ReplyDestroy(h)
  <2>1. destroy_' \in [Host -> BOOLEAN]
    BY <1>4, SetTrue DEF ReplyDestroy
  <2> QED
    BY <1>0, <1>1, <1>2, <1>4, <2>1 DEF ReplyDestroy
<1>5. CASE OnDataProduced(h)
  <2>1. Head(queue[HostThread[h]]).id \in Int
    <3>1. /\ queue[HostThread[h]] \in Seq(Task)
          /\ queue[HostThread[h]] # <<>>
      BY <1>5, HostAssumption DEF OnDataProduced, IsNext
    <3>2. Head(queue[HostThread[h]]) \in Task
      BY <3>1
    <3> QED
      BY <3>2 DEF Task
  <2> QED
    BY <1>0, <1>1, <1>2, <1>5, <2>1 DEF OnDataProduced
<1>6. CASE OnFactoryDestory(h)
  BY <1>0, <1>1, <1>2, <1>6 DEF OnFactoryDestory
<1> QED
  BY <1>3, <1>4, <1>5, <1>6 DEF HostStep

\* The factory's own tasks, and the ends of its notification loops.
LEMMA FactoryStepTyped ==
  ASSUME TypeOK, FactoryTask \/ NotifyDone
  PROVE  TypeOK'
<1> USE DEF TypeOK, loopVars, flagVars, clientVars, countVars, historyVars
<1>1. FactoryTypeOK'
  BY FactoryTypeStep DEF FactoryTask, NotifyDone, FactoryNext
<1>2. observers' \subseteq Host /\ todo' \subseteq Host
  BY DEF FactoryTask, NotifyDone
<1> QED
  BY <1>1, <1>2 DEF FactoryTask, NotifyDone

\* Message loops that quit and are destroyed.
LEMMA LoopStepTyped ==
  ASSUME TypeOK, NEW t \in Thread, QuitLoop(t) \/ DestroyLoop(t)
  PROVE  TypeOK'
<1> USE DEF TypeOK, loopVars, listVars, flagVars, clientVars, countVars,
            historyVars
<1>1. CASE QuitLoop(t)
  BY <1>1, FactoryTypeStutter DEF QuitLoop
<1>2. CASE DestroyLoop(t)
  <2>1. FactoryTypeOK'
    BY <1>2 DEF DestroyLoop, FactoryTypeOK
  <2>2. leaked' \subseteq Host
    <3>1. \A i \in DOMAIN queue[t] : queue[t][i] \in Task
      OBVIOUS
    <3>2. \A i \in DOMAIN queue[t] : queue[t][i].host \in Host
      BY <3>1 DEF Task
    <3> QED
      BY <1>2, <3>2 DEF DestroyLoop
  <2>3. alive' \in [Host -> BOOLEAN]
    BY <1>2, ReleaseTyped DEF DestroyLoop
  <2> QED
    BY <1>2, <2>1, <2>2, <2>3 DEF DestroyLoop
<1> QED
  BY <1>1, <1>2

LEMMA TypeStep == TypeOK /\ [Next]_vars => TypeOK'
<1> SUFFICES ASSUME TypeOK, [Next]_vars
             PROVE  TypeOK'
  OBVIOUS
<1>1. CASE Next
  BY <1>1, ClientStepTyped, StubStepTyped, HostStepTyped, FactoryStepTyped,
     LoopStepTyped DEF Next
<1>2. CASE UNCHANGED vars
  BY <1>2, FactoryTypeStutter
     DEF TypeOK, vars, hostVars, loopVars, listVars, flagVars, clientVars,
         countVars, historyVars
<1> QED
  BY <1>1, <1>2

LEMMA TypeInit == Init => TypeOK
<1> SUFFICES ASSUME Init
             PROVE  TypeOK
  OBVIOUS
<1>1. FactoryTypeOK
  BY FactoryTypeInit DEF Init
<1>2. /\ stub_ \in [Host -> BOOLEAN] /\ init_ \in [Host -> BOOLEAN]
      /\ destroy_ \in [Host -> BOOLEAN] /\ handle \in [Host -> BOOLEAN]
      /\ alive \in [Host -> BOOLEAN] /\ crashed \in BOOLEAN
  BY Zenon DEF Init
<1> QED
  BY <1>1, <1>2 DEF Init, TypeOK

\* Every queue holds tasks of the protocol only, whatever the number of
\* hosts and threads (observer_cross_thread.cc, factory_host.cc).
THEOREM Typed == Spec => []TypeOK
  BY TypeInit, TypeStep, PTL DEF Spec

-----------------------------------------------------------------------------
(* Stubs and the factory's observer list *)

\* The inductive invariant behind StubsMatchFactory: a notification loop is
\* the only thing that has observers left to call, and NotifyDestroy calls
\* every observer that is left in the list.
StubInv ==
  /\ StubsMatchFactory
  /\ factory \in {"none", "idle"} => todo = {}
  /\ factory = "destroy" => todo = observers

StubTypes ==
  /\ stub_ \in [Host -> BOOLEAN]
  /\ observers \subseteq Host

\* Client tasks and Schedule tasks open a notification loop with all
\* observers, or none.
LEMMA FactoryTaskStubs ==
  ASSUME StubInv, FactoryTask
  PROVE  StubInv'
<1> USE DEF StubInv, StubsMatchFactory, FactoryTask
<1>1. CASE /\ CreateFactory \/ Start \/ Stop \/ ScheduleStopped
                 \/ ScheduleCancelled
           /\ UNCHANGED todo
  BY <1>1 DEF CreateFactory, Start, Stop, ScheduleStopped, ScheduleCancelled
<1>2. CASE (ScheduleProduce \/ Destroy) /\ todo' = observers
  BY <1>2 DEF ScheduleProduce, Destroy
<1> QED
  BY <1>1, <1>2

\* The end of a notification loop: NotifyDestroy has emptied the list.
LEMMA NotifyDoneStubs ==
  ASSUME StubInv, NotifyDone
  PROVE  StubInv'
  BY DEF StubInv, StubsMatchFactory, NotifyDone, ProduceDone, DestroyDone

LEMMA StubStepStubs ==
  ASSUME StubTypes, StubInv, NEW h \in Host, StubStep(h)
  PROVE  StubInv'
<1> USE DEF StubTypes, StubInv, StubsMatchFactory, factoryVars
<1>1. CASE PostInitCrash(h)
  BY <1>1 DEF PostInitCrash, listVars
<1>2. CASE PostInit(h)
  BY <1>2 DEF PostInit
<1>3. CASE PostDestroy(h)
  BY <1>3 DEF PostDestroy, IsNext, CanRun
<1>4. CASE StubOnDataProduced(h)
  BY <1>4 DEF StubOnDataProduced
<1>5. CASE StubSkipsData(h)
  BY <1>5 DEF StubSkipsData
<1>6. CASE StubOnFactoryDestroy(h)
  BY <1>6 DEF StubOnFactoryDestroy
<1> QED
  BY <1>1, <1>2, <1>3, <1>4, <1>5, <1>6 DEF StubStep

LEMMA StubInvariant == Spec => []StubInv
<1>1. Init => StubInv
  BY DEF Init, FactoryInit, StubInv, StubsMatchFactory
<1>2. TypeOK /\ StubInv /\ [Next]_vars => StubInv'
  <2> SUFFICES ASSUME TypeOK, StubInv, [Next]_vars
               PROVE  StubInv'
    OBVIOUS
  <2>1. ASSUME NEW h \in Host, StubStep(h)
        PROVE  StubInv'
    BY <2>1, StubStepStubs DEF TypeOK, StubTypes
  <2>2. ASSUME NEW h \in Host, HostStep(h) \/ ClientStep(h)
        PROVE  StubInv'
    BY <2>2 DEF HostStep, ReplyInit, ReplyDestroy, OnDataProduced,
       OnFactoryDestory, ClientStep, HostInit, HostDestroy, ReleaseHandle,
       factoryVars, listVars, StubInv, StubsMatchFactory
  <2>3. ASSUME NEW t \in Thread, QuitLoop(t) \/ DestroyLoop(t)
        PROVE  StubInv'
    BY <2>3 DEF QuitLoop, DestroyLoop, factoryVars, listVars, StubInv,
       StubsMatchFactory
  <2>4. CASE UNCHANGED vars
    BY <2>4 DEF vars, factoryVars, hostVars, listVars, StubInv,
       StubsMatchFactory
  <2> QED
    BY <2>1, <2>2, <2>3, <2>4, FactoryTaskStubs, NotifyDoneStubs DEF Next
<1> QED
  BY <1>1, <1>2, Typed, PTL DEF Spec

\* The observer list holds exactly the live stubs, and no stub outlives the
\* factory it points at (factory_host.h:52-55, factory_host.cc:44-67): for
\* any number of hosts the factory dies only when NotifyDestroy has detached
\* every stub.
THEOREM StubsMatch == Spec => []StubsMatchFactory
<1>1. StubInv => StubsMatchFactory
  BY DEF StubInv
<1> QED
  BY <1>1, StubInvariant, PTL

-----------------------------------------------------------------------------
(* PostInit has its host for itself *)

\* No task of h is queued anywhere.
Clean(q, h) ==
  \A t \in Thread : \A i \in DOMAIN q[t] : q[t][i].host # h

IsPostInit(task, h) == task.op = "PostInit" /\ task.host = h

NoPostInit(q, h) ==
  \A i \in DOMAIN q[FactoryThread] : ~IsPostInit(q[FactoryThread][i], h)

\* A queued PostInit of h is the only task of h.
Alone(q, h) ==
  \A i \in DOMAIN q[FactoryThread] : IsPostInit(q[FactoryThread][i], h) =>
    \A t \in Thread : \A j \in DOMAIN q[t] :
      q[t][j].host = h => t = FactoryThread /\ j = i

\* The inductive invariant behind InitTouchesHostAlone.
AloneInv ==
  \A h \in Host :
    /\ called[h] = "none" => ~init_[h] /\ ~destroy_[h] /\ ~stub_[h]
    /\ called[h] = "none" => Clean(queue, h)
    /\ Alone(queue, h)
    /\ init_[h] \/ destroy_[h] \/ stub_[h] => NoPostInit(queue, h)

\* What holds of the tasks of h in p holds in q.
Keeps(p, q, h) ==
  /\ Clean(p, h) => Clean(q, h)
  /\ Alone(p, h) => Alone(q, h)
  /\ NoPostInit(p, h) => NoPostInit(q, h)

LEMMA PopKeeps ==
  ASSUME NEW q \in [Thread -> Seq(Task)], NEW t \in Thread, q[t] # <<>>,
         NEW h \in Host
  PROVE  Keeps(q, Pop(q, t), h)
<1> DEFINE r == Pop(q, t)
<1>1. ASSUME NEW u \in Thread, NEW i \in DOMAIN r[u]
      PROVE  /\ u = t => i + 1 \in DOMAIN q[u] /\ r[u][i] = q[u][i + 1]
             /\ u # t => i \in DOMAIN q[u] /\ r[u][i] = q[u][i]
             /\ i \in Int
  BY <1>1 DEF Pop
<1> HIDE DEF r
<1>2. Clean(q, h) => Clean(r, h)
  BY <1>1 DEF Clean
<1>3. NoPostInit(q, h) => NoPostInit(r, h)
  BY <1>1, HostAssumption DEF NoPostInit
<1>4. ASSUME Alone(q, h)
      PROVE  Alone(r, h)
  <2> SUFFICES ASSUME NEW i \in DOMAIN r[FactoryThread],
                      IsPostInit(r[FactoryThread][i], h),
                      NEW u \in Thread, NEW j \in DOMAIN r[u],
                      r[u][j].host = h
               PROVE  u = FactoryThread /\ j = i
    BY DEF Alone
  <2>1. CASE FactoryThread = t
    <3>1. /\ i + 1 \in DOMAIN q[FactoryThread]
          /\ IsPostInit(q[FactoryThread][i + 1], h)
          /\ i \in Int
      BY <1>1, <2>1, HostAssumption
    <3>2. CASE u = t
      <4>1. /\ j + 1 \in DOMAIN q[u]
            /\ q[u][j + 1].host = h
            /\ j \in Int
        BY <1>1, <3>2
      <4>2. j + 1 = i + 1
        BY <1>4, <3>1, <4>1 DEF Alone
      <4> QED
        BY <2>1, <3>1, <3>2, <4>1, <4>2
    <3>3. CASE u # t
      <4>1. j \in DOMAIN q[u] /\ q[u][j].host = h
        BY <1>1, <3>3
      <4> QED
        BY <1>4, <2>1, <3>1, <3>3, <4>1 DEF Alone
    <3> QED
      BY <3>2, <3>3
  <2>2. CASE FactoryThread # t
    <3>1. /\ i \in DOMAIN q[FactoryThread]
          /\ IsPostInit(q[FactoryThread][i], h)
      BY <1>1, <2>2, HostAssumption
    <3>2. CASE u = t
      <4>1. j + 1 \in DOMAIN q[u] /\ q[u][j + 1].host = h
        BY <1>1, <3>2
      <4> QED
        BY <1>4, <2>2, <3>1, <3>2, <4>1 DEF Alone
    <3>3. CASE u # t
      <4>1. j \in DOMAIN q[u] /\ q[u][j].host = h
        BY <1>1, <3>3
      <4> QED
        BY <1>4, <3>1, <4>1 DEF Alone
    <3> QED
      BY <3>2, <3>3
  <2> QED
    BY <2>1, <2>2
<1> QED
  BY <1>2, <1>3, <1>4 DEF Keeps, r

LEMMA PostElements ==
  ASSUME NEW q \in [Thread -> Seq(Task)], NEW t \in Thread, NEW task \in Task
  PROVE  \A u \in Thread : \A i \in DOMAIN Post(q, t, task)[u] :
           \/ /\ i \in DOMAIN q[u]
              /\ Post(q, t, task)[u][i] = q[u][i]
           \/ /\ u = t
              /\ i = Len(q[t]) + 1
              /\ Post(q, t, task)[u][i] = task
  BY DEF Post

\* A task of another host changes nothing for h.
LEMMA PostOtherKeeps ==
  ASSUME NEW q \in [Thread -> Seq(Task)], NEW t \in Thread, NEW task \in Task,
         NEW h \in Host, task.host # h
  PROVE  Keeps(q, Post(q, t, task), h)
<1> DEFINE r == Post(q, t, task)
<1>1. ASSUME NEW u \in Thread, NEW i \in DOMAIN r[u], r[u][i].host = h
      PROVE  i \in DOMAIN q[u] /\ r[u][i] = q[u][i]
  BY <1>1, PostElements
<1> HIDE DEF r
<1> QED
  BY <1>1, HostAssumption DEF Keeps, Clean, Alone, NoPostInit, IsPostInit, r

\* Nor does any task but PostInit, once PostInit is gone.
LEMMA PostKeepsNoPostInit ==
  ASSUME NEW q \in [Thread -> Seq(Task)], NEW t \in Thread, NEW task \in Task,
         NEW h \in Host, task.op # "PostInit", NoPostInit(q, h)
  PROVE  NoPostInit(Post(q, t, task), h)
<1> DEFINE r == Post(q, t, task)
<1>1. ASSUME NEW i \in DOMAIN r[FactoryThread]
      PROVE  \/ /\ i \in DOMAIN q[FactoryThread]
                /\ r[FactoryThread][i] = q[FactoryThread][i]
             \/ r[FactoryThread][i] = task
  <2>1. FactoryThread \in Thread
    BY HostAssumption
  <2> QED
    BY <1>1, <2>1, PostElements
<1> HIDE DEF r
<1>2. NoPostInit(r, h)
  BY <1>1 DEF NoPostInit, IsPostInit
<1> QED
  BY <1>2 DEF r

LEMMA NoPostInitAlone ==
  ASSUME NEW q, NEW h, NoPostInit(q, h)
  PROVE  Alone(q, h)
  BY DEF NoPostInit, Alone

\* The first PostInit of a host without tasks is alone.
LEMMA PostInitAlone ==
  ASSUME NEW q \in [Thread -> Seq(Task)], NEW h \in Host, Clean(q, h)
  PROVE  Alone(Post(q, FactoryThread, TaskFor("PostInit", h)), h)
<1> DEFINE r == Post(q, FactoryThread, TaskFor("PostInit", h))
<1>1. TaskFor("PostInit", h) \in Task
  BY TaskTyped DEF Ops
<1>2. ASSUME NEW u \in Thread, NEW i \in DOMAIN r[u], r[u][i].host = h
      PROVE  u = FactoryThread /\ i = Len(q[FactoryThread]) + 1
  <2>1. FactoryThread \in Thread
    BY HostAssumption
  <2>2. \/ i \in DOMAIN q[u] /\ r[u][i] = q[u][i]
        \/ u = FactoryThread /\ i = Len(q[FactoryThread]) + 1
    BY <1>1, <2>1, PostElements
  <2> QED
    BY <1>2, <2>2 DEF Clean
<1> HIDE DEF r
<1>3. Alone(r, h)
  BY <1>2, HostAssumption DEF Alone, IsPostInit
<1> QED
  BY <1>3 DEF r

\* PostInit leaves the queue with no other PostInit of its host in it.
LEMMA PopPostInit ==
  ASSUME NEW q \in [Thread -> Seq(Task)], NEW h \in Host,
         q[FactoryThread] # <<>>, IsPostInit(Head(q[FactoryThread]), h),
         Alone(q, h)
  PROVE  NoPostInit(Pop(q, FactoryThread), h)
<1> DEFINE s == q[FactoryThread]
<1>1. s \in Seq(Task) /\ s # <<>>
  BY HostAssumption
<1>2. 1 \in DOMAIN s /\ Head(s) = s[1]
  BY <1>1
<1>3. ASSUME NEW i \in DOMAIN Pop(q, FactoryThread)[FactoryThread]
      PROVE  /\ i + 1 \in DOMAIN s
             /\ Pop(q, FactoryThread)[FactoryThread][i] = s[i + 1]
             /\ i + 1 # 1
  BY <1>1, <1>3, HostAssumption DEF Pop
<1> QED
  BY <1>2, <1>3, HostAssumption DEF NoPostInit, Alone, IsPostInit

\* A host with another task at the head of a queue has no PostInit.
LEMMA HeadNoPostInit ==
  ASSUME NEW q \in [Thread -> Seq(Task)], NEW h \in Host, NEW t \in Thread,
         q[t] # <<>>, Head(q[t]).host = h, Head(q[t]).op # "PostInit",
         Alone(q, h)
  PROVE  NoPostInit(q, h)
<1>1. 1 \in DOMAIN q[t] /\ Head(q[t]) = q[t][1]
  <2>1. q[t] \in Seq(Task)
    OBVIOUS
  <2> QED
    BY <2>1
<1> QED
  BY <1>1, HostAssumption DEF NoPostInit, Alone, IsPostInit

AloneFor(h) ==
  /\ called[h] = "none" => ~init_[h] /\ ~destroy_[h] /\ ~stub_[h]
  /\ called[h] = "none" => Clean(queue, h)
  /\ Alone(queue, h)
  /\ init_[h] \/ destroy_[h] \/ stub_[h] => NoPostInit(queue, h)

\* A step of another host that only pops a queue or posts a task of its own.
LEMMA OtherHostAlone ==
  ASSUME NEW g \in Host, AloneFor(g), Keeps(queue, queue', g),
         called'[g] = called[g], init_'[g] = init_[g],
         destroy_'[g] = destroy_[g], stub_'[g] = stub_[g]
  PROVE  AloneFor(g)'
  BY DEF AloneFor, Keeps

LEMMA KeepsReflexive ==
  ASSUME NEW q, NEW h
  PROVE  Keeps(q, q, h)
  BY DEF Keeps

LEMMA KeepsTransitive ==
  ASSUME NEW p, NEW q, NEW r, NEW h, Keeps(p, q, h), Keeps(q, r, h)
  PROVE  Keeps(p, r, h)
  BY DEF Keeps

LEMMA TaskForFields ==
  ASSUME NEW op, NEW h, NEW n
  PROVE  /\ TaskFor(op, h).host = h /\ TaskFor(op, h).op = op
         /\ DataTask(h, n).host = h /\ DataTask(h, n).op = "OnDataProduced"
  BY DEF TaskFor, DataTask

\* A task at the head of a queue: its client has called Init.
LEMMA HeadCalled ==
  ASSUME TypeOK, NEW h \in Host, AloneFor(h), NEW t \in Thread,
         queue[t] # <<>>, Head(queue[t]).host = h
  PROVE  called[h] # "none"
<1>1. queue[t] \in Seq(Task)
  BY DEF TypeOK
<1>2. 1 \in DOMAIN queue[t] /\ Head(queue[t]) = queue[t][1]
  BY <1>1
<1> QED
  BY <1>2 DEF AloneFor, Clean

LEMMA ClientStepAlone ==
  ASSUME TypeOK, AloneInv, NEW h \in Host, ClientStep(h), NEW g \in Host
  PROVE  AloneFor(g)'
<1> USE DEF TypeOK, flagVars, listVars, loopVars, clientVars
<1>0. AloneFor(g)
  BY DEF AloneInv, AloneFor
<1>1. CASE HostInit(h)
  <2> DEFINE task == TaskFor("PostInit", h)
  <2>1. /\ task \in Task /\ task.host = h /\ task.op = "PostInit"
        /\ FactoryThread \in Thread
    BY TaskTyped, TaskForFields, HostAssumption DEF Ops
  <2>0. queue' = Post(queue, FactoryThread, task)
    BY <1>1 DEF HostInit
  <2>2. CASE g = h
    <3>1. Clean(queue, h)
      BY <1>0, <1>1, <2>2 DEF HostInit, AloneFor
    <3>2. Alone(queue', h)
      BY <1>1, <3>1, PostInitAlone DEF HostInit
    <3> QED
      BY <1>0, <1>1, <2>2, <3>2 DEF HostInit, AloneFor
  <2>3. CASE g # h
    <3>1. Keeps(queue, queue', g)
      <4> HIDE DEF task
      <4> QED
        BY <2>0, <2>1, <2>3, PostOtherKeeps
    <3> QED
      BY <1>0, <1>1, <2>3, <3>1, OtherHostAlone DEF HostInit
  <2> QED
    BY <2>2, <2>3
<1>2. CASE HostDestroy(h)
  <2> DEFINE task == TaskFor("PostDestroy", h)
  <2>1. /\ task \in Task /\ task.host = h /\ task.op = "PostDestroy"
        /\ FactoryThread \in Thread
    BY TaskTyped, TaskForFields, HostAssumption DEF Ops
  <2>0. queue' = Post(queue, FactoryThread, task)
    BY <1>2 DEF HostDestroy
  <2>2. CASE g = h
    <3>1. NoPostInit(queue, h)
      BY <1>0, <1>2, <2>2 DEF HostDestroy, AloneFor
    <3>2. NoPostInit(queue', h)
      <4> HIDE DEF task
      <4> QED
        BY <2>0, <2>1, <3>1, PostKeepsNoPostInit
    <3> QED
      BY <1>2, <2>2, <3>2, NoPostInitAlone DEF HostDestroy, AloneFor
  <2>3. CASE g # h
    <3>1. Keeps(queue, queue', g)
      <4> HIDE DEF task
      <4> QED
        BY <2>0, <2>1, <2>3, PostOtherKeeps
    <3> QED
      BY <1>0, <1>2, <2>3, <3>1, OtherHostAlone DEF HostDestroy
  <2> QED
    BY <2>2, <2>3
<1>3. CASE ReleaseHandle(h)
  BY <1>0, <1>3 DEF ReleaseHandle, AloneFor
<1> QED
  BY <1>1, <1>2, <1>3 DEF ClientStep

LEMMA HostStepAlone ==
  ASSUME TypeOK, AloneInv, NEW h \in Host, HostStep(h), NEW g \in Host
  PROVE  AloneFor(g)'
<1> USE DEF TypeOK, flagVars, listVars, loopVars, clientVars
<1>0. AloneFor(g) /\ AloneFor(h)
  BY DEF AloneInv, AloneFor
<1> DEFINE t == HostThread[h]
<1>1. /\ queue' = Pop(queue, t)
      /\ t \in Thread /\ queue[t] # <<>>
      /\ Head(queue[t]).host = h
      /\ Head(queue[t]).op # "PostInit"
      /\ UNCHANGED <<stub_, called>>
      /\ g # h => init_'[g] = init_[g] /\ destroy_'[g] = destroy_[g]
  BY HostAssumption DEF HostStep, ReplyInit, ReplyDestroy, OnDataProduced,
     OnFactoryDestory, IsNext
<1> HIDE DEF t
<1>2. Keeps(queue, queue', g)
  BY <1>1, PopKeeps
<1>3. CASE g # h
  BY <1>0, <1>1, <1>2, <1>3, OtherHostAlone
<1>4. CASE g = h
  <2>1. NoPostInit(queue, h)
    BY <1>0, <1>1, HeadNoPostInit DEF AloneFor
  <2>2. NoPostInit(queue', h)
    BY <1>2, <1>4, <2>1 DEF Keeps
  <2>3. called'[h] # "none"
    BY <1>0, <1>1, HeadCalled
  <2> QED
    BY <1>4, <2>2, <2>3, NoPostInitAlone DEF AloneFor
<1> QED
  BY <1>3, <1>4

LEMMA RelayAlone ==
  ASSUME TypeOK, AloneInv, NEW h \in Host, PostInit(h) \/ PostDestroy(h),
         NEW g \in Host
  PROVE  AloneFor(g)'
<1> USE DEF TypeOK
<1>0. AloneFor(g) /\ AloneFor(h)
  BY DEF AloneInv, AloneFor
<1>1. PICK task \in Task :
        /\ queue' = Post(Pop(queue, FactoryThread), HostThread[h], task)
        /\ task.host = h /\ task.op # "PostInit"
  <2>1. /\ TaskFor("ReplyInit", h) \in Task
        /\ TaskFor("ReplyDestroy", h) \in Task
    BY TaskTyped DEF Ops
  <2>2. CASE PostInit(h)
    <3>1. queue' = Post(Pop(queue, FactoryThread), HostThread[h],
                        TaskFor("ReplyInit", h))
      BY <2>2 DEF PostInit
    <3>2. /\ TaskFor("ReplyInit", h).host = h
          /\ TaskFor("ReplyInit", h).op # "PostInit"
      BY TaskForFields
    <3> QED
      BY <2>1, <3>1, <3>2
  <2>3. CASE PostDestroy(h)
    <3>1. queue' = Post(Pop(queue, FactoryThread), HostThread[h],
                        TaskFor("ReplyDestroy", h))
      BY <2>3 DEF PostDestroy
    <3>2. /\ TaskFor("ReplyDestroy", h).host = h
          /\ TaskFor("ReplyDestroy", h).op # "PostInit"
      BY TaskForFields
    <3> QED
      BY <2>1, <3>1, <3>2
  <2> QED
    BY <2>2, <2>3
<1> DEFINE q == Pop(queue, FactoryThread)
<1>2. /\ FactoryThread \in Thread /\ HostThread[h] \in Thread
      /\ queue[FactoryThread] # <<>>
      /\ Head(queue[FactoryThread]).host = h
      /\ UNCHANGED <<init_, destroy_, called>>
      /\ g # h => stub_'[g] = stub_[g]
  BY HostAssumption DEF PostInit, PostDestroy, IsNext, flagVars, clientVars
<1>3. q \in [Thread -> Seq(Task)]
  BY <1>2, PopTyped
<1>4. Keeps(queue, q, g)
  BY <1>2, PopKeeps
<1>5. CASE g # h
  <2>1. Keeps(q, queue', g)
    <3> HIDE DEF q
    <3> QED
      BY <1>1, <1>2, <1>3, <1>5, PostOtherKeeps DEF q
  <2>2. Keeps(queue, queue', g)
    BY <1>4, <2>1, KeepsTransitive
  <2> QED
    BY <1>0, <1>2, <1>5, <2>2, OtherHostAlone
<1>6. CASE g = h
  <2>1. NoPostInit(q, h)
    <3>1. CASE IsPostInit(Head(queue[FactoryThread]), h)
      BY <1>0, <1>2, <3>1, PopPostInit DEF AloneFor
    <3>2. CASE Head(queue[FactoryThread]).op # "PostInit"
      <4>1. NoPostInit(queue, h)
        BY <1>0, <1>2, <3>2, HeadNoPostInit DEF AloneFor
      <4> QED
        BY <1>4, <1>6, <4>1 DEF Keeps
    <3> QED
      BY <1>2, <3>1, <3>2 DEF IsPostInit
  <2>2. NoPostInit(queue', h)
    <3> HIDE DEF q
    <3> QED
      BY <1>1, <1>2, <1>3, <2>1, PostKeepsNoPostInit DEF q
  <2>3. called'[h] # "none"
    BY <1>0, <1>2, HeadCalled
  <2> QED
    BY <1>6, <2>2, <2>3, NoPostInitAlone DEF AloneFor
<1> QED
  BY <1>5, <1>6

\* A stub that forwards data or the destruction exists, so that its host's
\* PostInit has run.
LEMMA StubCallAlone ==
  ASSUME TypeOK, StubInv, AloneInv, NEW h \in Host,
         StubOnDataProduced(h) \/ StubOnFactoryDestroy(h), NEW g \in Host
  PROVE  AloneFor(g)'
<1> USE DEF TypeOK
<1>0. AloneFor(g) /\ AloneFor(h)
  BY DEF AloneInv, AloneFor
<1>1. stub_[h]
  BY DEF StubInv, StubsMatchFactory, StubOnDataProduced, StubOnFactoryDestroy
<1>2. /\ UNCHANGED <<init_, destroy_, called>>
      /\ g # h => stub_'[g] = stub_[g]
  BY DEF StubOnDataProduced, StubOnFactoryDestroy, flagVars, clientVars,
         listVars
<1>3. NoPostInit(queue, h) /\ called[h] # "none"
  BY <1>0, <1>1 DEF AloneFor
<1>4. HostThread[h] \in Thread
  BY HostAssumption
<1>5. (g # h => Keeps(queue, queue', g)) /\ NoPostInit(queue', h)
  <2>1. CASE StubOnDataProduced(h)
    <3> DEFINE task == DataTask(h, data_)
    <3>1. task \in Task /\ task.host = h /\ task.op # "PostInit"
      BY TaskTyped, TaskForFields DEF Ops, FactoryTypeOK
    <3>2. queue' = Post(queue, HostThread[h], task)
      BY <2>1 DEF StubOnDataProduced
    <3> HIDE DEF task
    <3> QED
      BY <1>3, <1>4, <3>1, <3>2, PostOtherKeeps, PostKeepsNoPostInit
  <2>2. CASE StubOnFactoryDestroy(h)
    <3> DEFINE one == TaskFor("OnFactoryDestory", h)
               two == TaskFor("StubReplyDestroy", h)
               q == Post(queue, HostThread[h], one)
    <3>1. /\ one \in Task /\ one.host = h /\ one.op # "PostInit"
          /\ two \in Task /\ two.host = h /\ two.op # "PostInit"
      BY TaskTyped, TaskForFields DEF Ops
    <3>2. queue' = Post(q, HostThread[h], two)
      BY <2>2 DEF StubOnFactoryDestroy
    <3> HIDE DEF one, two
    <3>3. /\ q \in [Thread -> Seq(Task)]
          /\ NoPostInit(q, h)
          /\ g # h => Keeps(queue, q, g)
      BY <1>3, <1>4, <3>1, PostTyped, PostOtherKeeps, PostKeepsNoPostInit
    <3> HIDE DEF q
    <3>4. NoPostInit(queue', h) /\ (g # h => Keeps(q, queue', g))
      BY <1>4, <3>1, <3>2, <3>3, PostOtherKeeps, PostKeepsNoPostInit
    <3> QED
      BY <3>3, <3>4, KeepsTransitive
  <2> QED
    BY <2>1, <2>2
<1>6. CASE g # h
  BY <1>0, <1>2, <1>5, <1>6, OtherHostAlone
<1>7. CASE g = h
  BY <1>2, <1>3, <1>5, <1>7, NoPostInitAlone DEF AloneFor
<1> QED
  BY <1>6, <1>7

\* A destroyed message loop takes its queue with it.
LEMMA LoopStepAlone ==
  ASSUME TypeOK, AloneInv, NEW t \in Thread, QuitLoop(t) \/ DestroyLoop(t),
         NEW g \in Host
  PROVE  AloneFor(g)'
<1>0. AloneFor(g)
  BY DEF AloneInv, AloneFor
<1>1. UNCHANGED <<stub_, init_, destroy_, called>>
  BY DEF QuitLoop, DestroyLoop, listVars, flagVars, clientVars
<1>2. CASE QuitLoop(t)
  BY <1>0, <1>1, <1>2 DEF QuitLoop, AloneFor
<1>3. CASE DestroyLoop(t)
  <2>1. \A u \in Thread : queue'[u] = queue[u] \/ queue'[u] = <<>>
    BY <1>3 DEF DestroyLoop, TypeOK
  <2>2. Keeps(queue, queue', g)
    BY <2>1, HostAssumption DEF Keeps, Clean, Alone, NoPostInit
  <2> QED
    BY <1>0, <1>1, <2>2 DEF AloneFor, Keeps
<1> QED
  BY <1>2, <1>3

LEMMA AloneInvariant == Spec => []AloneInv
<1>1. Init => AloneInv
  BY HostAssumption DEF Init, AloneInv, Clean, Alone, NoPostInit
<1>2. TypeOK /\ StubInv /\ AloneInv /\ [Next]_vars => AloneInv'
  <2> SUFFICES ASSUME TypeOK, StubInv, AloneInv, [Next]_vars, NEW g \in Host
               PROVE  AloneFor(g)'
    BY DEF AloneInv, AloneFor
  <2>0. AloneFor(g)
    BY DEF AloneInv, AloneFor
  <2>1. ASSUME NEW h \in Host, HostStep(h) \/ ClientStep(h)
        PROVE  AloneFor(g)'
    BY <2>1, HostStepAlone, ClientStepAlone
  <2>2. ASSUME NEW h \in Host, StubStep(h)
        PROVE  AloneFor(g)'
    <3>1. CASE PostInitCrash(h) \/ StubSkipsData(h)
      BY <2>0, <3>1 DEF PostInitCrash, StubSkipsData, AloneFor, loopVars,
         listVars, flagVars, clientVars
    <3> QED
      BY <2>2, <3>1, RelayAlone, StubCallAlone DEF StubStep
  <2>3. CASE FactoryTask \/ NotifyDone
    BY <2>0, <2>3 DEF FactoryTask, NotifyDone, AloneFor, loopVars, flagVars,
       clientVars
  <2>4. ASSUME NEW t \in Thread, QuitLoop(t) \/ DestroyLoop(t)
        PROVE  AloneFor(g)'
    BY <2>4, LoopStepAlone
  <2>5. CASE UNCHANGED vars
    BY <2>0, <2>5 DEF vars, hostVars, AloneFor, loopVars, listVars, flagVars,
       clientVars
  <2> QED
    BY <2>1, <2>2, <2>3, <2>4, <2>5 DEF Next
<1> QED
  BY <1>1, <1>2, Typed, StubInvariant, PTL DEF Spec

\* The unlocked write of the host's data_ on the factory thread is safe
\* (factory_host.cc:48-50): while PostInit is queued its host has no other
\* task on any thread, for any number of hosts and any placement of them.
THEOREM InitAlone == Spec => []InitTouchesHostAlone
<1>1. AloneInv => InitTouchesHostAlone
  <2> SUFFICES ASSUME AloneInv, NEW h \in Host,
                      NEW i \in DOMAIN queue[FactoryThread],
                      queue[FactoryThread][i] = TaskFor("PostInit", h)
               PROVE  /\ ~init_[h] /\ ~destroy_[h] /\ ~stub_[h]
                      /\ \A t \in Thread : \A j \in DOMAIN queue[t] :
                           queue[t][j].host = h => queue[t][j].op = "PostInit"
    BY DEF InitTouchesHostAlone
  <2>1. IsPostInit(queue[FactoryThread][i], h)
    BY TaskForFields DEF IsPostInit
  <2> QED
    BY <2>1 DEF AloneInv, NoPostInit, Alone, IsPostInit
<1> QED
  BY <1>1, AloneInvariant, PTL
=============================================================================
