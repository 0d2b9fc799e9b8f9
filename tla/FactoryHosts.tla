----------------------------- MODULE FactoryHosts -----------------------------
(***************************************************************************)
(* FactoryHost objects that observe the Factory from other threads         *)
(* (observer_cross_thread.{h,cc}, factory_host.{h,cc}), composed with the  *)
(* Factory itself.                                                         *)
(*                                                                         *)
(* A host lives on its host thread; its stub lives on the factory thread,  *)
(* is registered with the factory and forwards what it is told as tasks.   *)
(* Init and Destroy cross over with PostTaskAndReply: a relay task on the  *)
(* factory thread, then a reply task on the host thread.  Each thread runs *)
(* its queue in FIFO order, one task at a time.                            *)
(*                                                                         *)
(* DCHECKs are modelled as in a release build, where a failing one has no  *)
(* effect, and their failures are collected in `dcheck'; a debug build     *)
(* runs the prefix up to the first failure.                                *)
(***************************************************************************)
EXTENDS Factory, Sequences, FiniteSets

CONSTANTS
  Host,           \* the FactoryHost objects
  FreqHost,       \* those of them that are FreqFactoryHost objects
  Thread,         \* the threads with a message loop
  FactoryThread,  \* task_thread_: the factory's thread
  HostThread,     \* host_thread_ of each host
  QuitThread      \* the threads whose message loop may quit

ASSUME HostAssumption ==
  /\ FreqHost \subseteq Host
  /\ FactoryThread \in Thread
  /\ HostThread \in [Host -> Thread]
  /\ QuitThread \subseteq Thread

VARIABLES
  queue,      \* per thread: the message loop's pending tasks
  loop,       \* per thread: "running", "quit" (Run returned), "gone"
  observers,  \* the hosts whose stub is in Factory::observer_list_
  todo,       \* observers the current notification has still to call
  stub_,      \* ObserverCrossThread::stub_ is not NULL
  init_, destroy_,
  called,     \* what the client has called: "none", "Init", "Destroy"
  handle,     \* the client still holds its scoped_refptr
  alive,      \* the object has not been deleted
  leaked,     \* hosts referenced by a leaked PostTaskAndReplyRelay
  hostData,   \* the id of FactoryHost::data_
  receive_, destroyTime, factoryDestroy,  \* FactoryHost's counters
  dcheck,     \* the DCHECKs that have failed so far
  crashed,    \* a NULL Factory* was dereferenced
  first, sent \* history: first id the stub could see, data it forwarded

loopVars == <<queue, loop>>
listVars == <<observers, todo, stub_>>
flagVars == <<init_, destroy_>>
clientVars == <<called, handle>>
countVars == <<hostData, receive_, destroyTime, factoryDestroy>>
historyVars == <<first, sent>>
hostVars == <<loopVars, listVars, flagVars, clientVars, countVars,
              historyVars, alive, leaked, dcheck, crashed>>
vars == <<factoryVars, hostVars>>

Ops == {"PostInit", "ReplyInit", "PostDestroy", "ReplyDestroy",
        "StubReplyDestroy", "OnDataProduced", "OnFactoryDestory"}

\* Tasks bound to an Unretained relay: when the queue that holds one is
\* deleted, the relay and the references inside it leak.
RelayOps == {"PostInit", "ReplyInit", "PostDestroy", "ReplyDestroy"}

Task == [op : Ops, host : Host, id : Int]

TaskFor(op, h) == [op |-> op, host |-> h, id |-> -1]

DataTask(h, n) == [op |-> "OnDataProduced", host |-> h, id |-> n]

\* MessageLoopProxyImpl::PostTaskHelper drops the task of a dead loop.
Post(q, t, task) ==
  IF loop[t] = "gone" THEN q ELSE [q EXCEPT ![t] = Append(@, task)]

Pop(q, t) == [q EXCEPT ![t] = Tail(@)]

\* Somebody holds a reference: the client, the stub's observer_, a bound
\* closure in a queue, or a leaked relay.
Held(h) ==
  \/ handle[h]
  \/ stub_[h]
  \/ h \in leaked
  \/ \E t \in Thread : \E i \in DOMAIN queue[t] : queue[t][i].host = h

\* The end of a step in which references were dropped: a host nobody holds
\* is deleted, and its destructor checks init_ against destroy_.
ReleaseRefs(failures) ==
  /\ alive' = [h \in Host |-> alive[h] /\ Held(h)']
  /\ dcheck' = dcheck \cup failures \cup
       (IF \E h \in Host : alive[h] /\ ~alive'[h] /\ init_'[h] # destroy_'[h]
        THEN {"~ObserverCrossThread"} ELSE {})

Fails(name, condition) == IF condition THEN {} ELSE {name}

\* The thread is between two tasks and its loop runs.
CanRun(t) ==
  /\ ~crashed
  /\ loop[t] = "running"
  /\ t = FactoryThread => factory \in {"none", "idle"}

IsNext(t, op, h) ==
  /\ CanRun(t)
  /\ queue[t] # <<>>
  /\ Head(queue[t]).op = op
  /\ Head(queue[t]).host = h

Init ==
  /\ FactoryInit
  /\ queue = [t \in Thread |-> <<>>]
  /\ loop = [t \in Thread |-> "running"]
  /\ observers = {}
  /\ todo = {}
  /\ stub_ = [h \in Host |-> FALSE]
  /\ init_ = [h \in Host |-> FALSE]
  /\ destroy_ = [h \in Host |-> FALSE]
  /\ called = [h \in Host |-> "none"]
  /\ handle = [h \in Host |-> TRUE]
  /\ alive = [h \in Host |-> TRUE]
  /\ leaked = {}
  /\ hostData = [h \in Host |-> -1]
  /\ receive_ = [h \in Host |-> 0]
  /\ destroyTime = [h \in Host |-> 0]
  /\ factoryDestroy = [h \in Host |-> 0]
  /\ dcheck = {}
  /\ crashed = FALSE
  /\ first = [h \in Host |-> 0]
  /\ sent = [h \in Host |-> 0]

-----------------------------------------------------------------------------
(* The client, on the host thread *)

\* The bug of an Init without the check for a second call.
HostInitTwice(h) ==
  /\ CanRun(HostThread[h])
  /\ handle[h]
  /\ ~init_[h]
  /\ factory # "none"
  /\ called' = [called EXCEPT ![h] = "Init"]
  /\ queue' = [queue EXCEPT ![FactoryThread] =
                 IF Len(@) < 2 THEN Append(@, TaskFor("PostInit", h)) ELSE @]
  /\ UNCHANGED <<factoryVars, loop, listVars, flagVars, handle, countVars,
                 historyVars, alive, leaked, dcheck, crashed>>

\* ObserverCrossThread::Init, once, after the factory was created.  A false
\* result of PostTaskAndReply is ignored.
HostInit(h) ==
  /\ CanRun(HostThread[h])
  /\ handle[h]
  /\ called[h] = "none"
  /\ factory # "none"
  /\ called' = [called EXCEPT ![h] = "Init"]
  /\ queue' = Post(queue, FactoryThread, TaskFor("PostInit", h))
  /\ UNCHANGED <<factoryVars, loop, listVars, flagVars, handle, countVars,
                 historyVars, alive, leaked, dcheck, crashed>>

\* ObserverCrossThread::Destroy, once, and only while its DCHECK holds.
HostDestroy(h) ==
  /\ CanRun(HostThread[h])
  /\ handle[h]
  /\ called[h] = "Init"
  /\ init_[h] /\ ~destroy_[h]
  /\ called' = [called EXCEPT ![h] = "Destroy"]
  /\ queue' = Post(queue, FactoryThread, TaskFor("PostDestroy", h))
  /\ UNCHANGED <<factoryVars, loop, listVars, flagVars, handle, countVars,
                 historyVars, alive, leaked, dcheck, crashed>>

\* The client sets its scoped_refptr to NULL.
ReleaseHandle(h) ==
  /\ ~crashed
  /\ loop[HostThread[h]] # "gone"
  /\ handle[h]
  /\ handle' = [handle EXCEPT ![h] = FALSE]
  /\ UNCHANGED <<factoryVars, loopVars, listVars, flagVars, called, countVars,
                 historyVars, leaked, crashed>>
  /\ ReleaseRefs({})

-----------------------------------------------------------------------------
(* Tasks on the factory thread *)

\* PostInit without a factory: CreateStub dereferences the NULL pointer that
\* GetFactory returned.
PostInitCrash(h) ==
  /\ IsNext(FactoryThread, "PostInit", h)
  /\ factory = "none"
  /\ crashed' = TRUE
  /\ dcheck' = dcheck \cup {"CreateStub"}
  /\ UNCHANGED <<factoryVars, loopVars, listVars, flagVars, clientVars,
                 countVars, historyVars, alive, leaked>>

\* The relay runs PostInit, then posts the reply: the FactoryStub constructor
\* hands over the last data and registers with the factory.
PostInit(h) ==
  /\ IsNext(FactoryThread, "PostInit", h)
  /\ factory = "idle"
  /\ stub_' = [stub_ EXCEPT ![h] = TRUE]
  /\ observers' = observers \cup {h}
  /\ hostData' = [hostData EXCEPT ![h] = data_]
  /\ first' = [first EXCEPT ![h] = id]
  /\ queue' = Post(Pop(queue, FactoryThread), HostThread[h],
                   TaskFor("ReplyInit", h))
  /\ UNCHANGED <<factoryVars, loop, todo, flagVars, clientVars, receive_,
                 destroyTime, factoryDestroy, sent, leaked, crashed>>
  /\ ReleaseRefs(Fails("PostInit", ~stub_[h]))

\* The bug of a stub whose destructor does not leave the observer list.
PostDestroyKeepsObserver(h) ==
  /\ IsNext(FactoryThread, "PostDestroy", h)
  /\ stub_' = [stub_ EXCEPT ![h] = FALSE]
  /\ queue' = Post(Pop(queue, FactoryThread), HostThread[h],
                   TaskFor("ReplyDestroy", h))
  /\ UNCHANGED <<factoryVars, loop, observers, todo, flagVars, clientVars,
                 countVars, historyVars, leaked, crashed>>
  /\ ReleaseRefs(Fails("PostDestroy", stub_[h]))

\* The bug of a PostDestroy that does not delete the stub.
PostDestroyKeepsStub(h) ==
  /\ IsNext(FactoryThread, "PostDestroy", h)
  /\ queue' = Post(Pop(queue, FactoryThread), HostThread[h],
                   TaskFor("ReplyDestroy", h))
  /\ UNCHANGED <<factoryVars, loop, listVars, flagVars, clientVars, countVars,
                 historyVars, leaked, crashed>>
  /\ ReleaseRefs(Fails("PostDestroy", stub_[h]))

\* The relay runs PostDestroy and posts the reply.  Deleting the stub takes
\* it out of the observer list.
PostDestroy(h) ==
  /\ IsNext(FactoryThread, "PostDestroy", h)
  /\ stub_' = [stub_ EXCEPT ![h] = FALSE]
  /\ observers' = observers \ {h}
  /\ queue' = Post(Pop(queue, FactoryThread), HostThread[h],
                   TaskFor("ReplyDestroy", h))
  /\ UNCHANGED <<factoryVars, loop, todo, flagVars, clientVars, countVars,
                 historyVars, leaked, crashed>>
  /\ ReleaseRefs(Fails("PostDestroy", stub_[h]))

\* The bug of a stub that forwards only to a host that knows of its Init.
StubOnDataProducedIfInit(h) ==
  /\ ~crashed
  /\ factory = "notify"
  /\ h \in todo
  /\ todo' = todo \ {h}
  /\ IF init_[h]
     THEN /\ sent' = [sent EXCEPT ![h] = @ + 1]
          /\ queue' = Post(queue, HostThread[h], DataTask(h, data_))
     ELSE UNCHANGED <<sent, queue>>
  /\ UNCHANGED <<factoryVars, loop, observers, stub_, flagVars, clientVars,
                 countVars, first, alive, leaked, dcheck, crashed>>

\* FactoryStub::OnDataProduced forwards the data to the host thread.
StubOnDataProduced(h) ==
  /\ ~crashed
  /\ factory = "notify"
  /\ h \in todo
  /\ todo' = todo \ {h}
  /\ sent' = [sent EXCEPT ![h] = @ + 1]
  /\ queue' = Post(queue, HostThread[h], DataTask(h, data_))
  /\ UNCHANGED <<factoryVars, loop, observers, stub_, flagVars, clientVars,
                 countVars, first, alive, leaked, dcheck, crashed>>

\* FreqFactoryHostStub::OnDataProduced when it is too early for a data.
StubSkipsData(h) ==
  /\ ~crashed
  /\ factory = "notify"
  /\ h \in todo \cap FreqHost
  /\ todo' = todo \ {h}
  /\ UNCHANGED <<factoryVars, loopVars, observers, stub_, flagVars,
                 clientVars, countVars, historyVars, alive, leaked, dcheck,
                 crashed>>

\* The bug of a stub that deletes itself behind the host's back.
StubDeletesItself(h) ==
  /\ ~crashed
  /\ factory = "destroy"
  /\ h \in todo
  /\ todo' = todo \ {h}
  /\ observers' = observers \ {h}
  /\ queue' = Post(Post(queue, HostThread[h], TaskFor("OnFactoryDestory", h)),
                   HostThread[h], TaskFor("StubReplyDestroy", h))
  /\ UNCHANGED <<factoryVars, loop, stub_, flagVars, clientVars, countVars,
                 historyVars, leaked, crashed>>
  /\ ReleaseRefs({})

\* The bug of a stub that posts ReplyDestroy before OnFactoryDestory.
StubDestroysFirst(h) ==
  /\ ~crashed
  /\ factory = "destroy"
  /\ h \in todo
  /\ todo' = todo \ {h}
  /\ observers' = observers \ {h}
  /\ stub_' = [stub_ EXCEPT ![h] = FALSE]
  /\ queue' = Post(Post(queue, HostThread[h], TaskFor("StubReplyDestroy", h)),
                   HostThread[h], TaskFor("OnFactoryDestory", h))
  /\ UNCHANGED <<factoryVars, loop, flagVars, clientVars, countVars,
                 historyVars, leaked, crashed>>
  /\ ReleaseRefs(Fails("PostDestroy", stub_[h]))

\* FactoryStub::OnFactoryDestroy: leaves the list, tells the host, deletes
\* itself through PostDestroy and posts ReplyDestroy without a relay.
StubOnFactoryDestroy(h) ==
  /\ ~crashed
  /\ factory = "destroy"
  /\ h \in todo
  /\ todo' = todo \ {h}
  /\ observers' = observers \ {h}
  /\ stub_' = [stub_ EXCEPT ![h] = FALSE]
  /\ queue' = Post(Post(queue, HostThread[h], TaskFor("OnFactoryDestory", h)),
                   HostThread[h], TaskFor("StubReplyDestroy", h))
  /\ UNCHANGED <<factoryVars, loop, flagVars, clientVars, countVars,
                 historyVars, leaked, crashed>>
  /\ ReleaseRefs(Fails("PostDestroy", stub_[h]))

\* Client tasks and Schedule tasks on the factory thread.
FactoryTask ==
  /\ CanRun(FactoryThread)
  /\ \/ (CreateFactory \/ Start \/ Stop \/ ScheduleStopped
          \/ ScheduleCancelled) /\ UNCHANGED todo
     \/ (ScheduleProduce \/ Destroy) /\ todo' = observers
  /\ UNCHANGED <<loopVars, observers, stub_, flagVars, clientVars, countVars,
                 historyVars, alive, leaked, dcheck, crashed>>

\* The end of a notification loop: ++id, or `delete this' with the list.
NotifyDone ==
  /\ ~crashed
  /\ todo = {}
  /\ \/ ProduceDone /\ UNCHANGED observers
     \/ DestroyDone /\ observers' = {}
  /\ UNCHANGED <<loopVars, todo, stub_, flagVars, clientVars, countVars,
                 historyVars, alive, leaked, dcheck, crashed>>

-----------------------------------------------------------------------------
(* Tasks on a host thread *)

ReplyInit(h) ==
  /\ IsNext(HostThread[h], "ReplyInit", h)
  /\ init_' = [init_ EXCEPT ![h] = TRUE]
  /\ queue' = Pop(queue, HostThread[h])
  /\ UNCHANGED <<factoryVars, loop, listVars, destroy_, clientVars, countVars,
                 historyVars, leaked, crashed>>
  /\ ReleaseRefs(Fails("ReplyInit", ~destroy_[h]))

\* Posted by the relay of Destroy or by Stub::Destroy; calls OnDestroy.
ReplyDestroy(h) ==
  /\ \/ IsNext(HostThread[h], "ReplyDestroy", h)
     \/ IsNext(HostThread[h], "StubReplyDestroy", h)
  /\ destroy_' = [destroy_ EXCEPT ![h] = TRUE]
  /\ destroyTime' = [destroyTime EXCEPT ![h] = @ + 1]
  /\ queue' = Pop(queue, HostThread[h])
  /\ UNCHANGED <<factoryVars, loop, listVars, init_, clientVars, hostData,
                 receive_, factoryDestroy, historyVars, leaked, crashed>>
  /\ ReleaseRefs({})

OnDataProduced(h) ==
  /\ IsNext(HostThread[h], "OnDataProduced", h)
  /\ hostData' = [hostData EXCEPT ![h] = Head(queue[HostThread[h]]).id]
  /\ receive_' = [receive_ EXCEPT ![h] = @ + 1]
  /\ queue' = Pop(queue, HostThread[h])
  /\ UNCHANGED <<factoryVars, loop, listVars, flagVars, clientVars,
                 destroyTime, factoryDestroy, historyVars, leaked, crashed>>
  /\ ReleaseRefs({})

OnFactoryDestory(h) ==
  /\ IsNext(HostThread[h], "OnFactoryDestory", h)
  /\ factoryDestroy' = [factoryDestroy EXCEPT ![h] = @ + 1]
  /\ queue' = Pop(queue, HostThread[h])
  /\ UNCHANGED <<factoryVars, loop, listVars, flagVars, clientVars, hostData,
                 receive_, destroyTime, historyVars, leaked, crashed>>
  /\ ReleaseRefs({})

-----------------------------------------------------------------------------
(* Shutdown *)

\* MessageLoop::Quit takes effect when the loop is idle.
QuitLoop(t) ==
  /\ t \in QuitThread
  /\ CanRun(t)
  /\ queue[t] = <<>>
  /\ loop' = [loop EXCEPT ![t] = "quit"]
  /\ UNCHANGED <<factoryVars, queue, listVars, flagVars, clientVars,
                 countVars, historyVars, alive, leaked, dcheck, crashed>>

\* The message loop is destroyed with the tasks it still holds: the factory
\* thread's first (thread.Stop() in main, ~Thread in the test), since a stub
\* holds its host's loop by a raw pointer.
DestroyLoop(t) ==
  /\ ~crashed
  /\ loop[t] = "quit"
  /\ t # FactoryThread => loop[FactoryThread] = "gone"
  /\ loop' = [loop EXCEPT ![t] = "gone"]
  /\ queue' = [queue EXCEPT ![t] = <<>>]
  /\ leaked' = leaked \cup {queue[t][i].host : i \in
                  {j \in DOMAIN queue[t] : queue[t][j].op \in RelayOps}}
  /\ IF t = FactoryThread
     THEN pending' = 0 /\ stale' = 0
     ELSE UNCHANGED <<pending, stale>>
  /\ UNCHANGED <<factory, start_, id, data_, listVars, flagVars, clientVars,
                 countVars, historyVars, crashed>>
  /\ ReleaseRefs({})

-----------------------------------------------------------------------------
HostStep(h) ==
  \/ ReplyInit(h)
  \/ ReplyDestroy(h)
  \/ OnDataProduced(h)
  \/ OnFactoryDestory(h)

StubStep(h) ==
  \/ PostInitCrash(h)
  \/ PostInit(h)
  \/ PostDestroy(h)
  \/ StubOnDataProduced(h)
  \/ StubSkipsData(h)
  \/ StubOnFactoryDestroy(h)

ClientStep(h) ==
  \/ HostInit(h)
  \/ HostDestroy(h)
  \/ ReleaseHandle(h)

Next ==
  \/ \E h \in Host : HostStep(h) \/ StubStep(h) \/ ClientStep(h)
  \/ FactoryTask
  \/ NotifyDone
  \/ \E t \in Thread : QuitLoop(t) \/ DestroyLoop(t)

\* Every message loop keeps running its tasks to the end and, its queue being
\* FIFO, no task waits for ever behind client tasks and timers; the clients
\* and timers themselves promise nothing.
Fairness ==
  /\ \A h \in Host : SF_vars(HostStep(h)) /\ SF_vars(StubStep(h))
  /\ WF_vars(NotifyDone)

Spec == Init /\ [][Next]_vars

FairSpec == Spec /\ Fairness

-----------------------------------------------------------------------------
(* Properties *)

\* The types of the protocol's variables (observer_cross_thread.h:67-75).
TypeOK ==
  /\ FactoryTypeOK
  /\ queue \in [Thread -> Seq(Task)]
  /\ loop \in [Thread -> {"running", "quit", "gone"}]
  /\ observers \subseteq Host
  /\ todo \subseteq Host
  /\ stub_ \in [Host -> BOOLEAN]
  /\ init_ \in [Host -> BOOLEAN]
  /\ destroy_ \in [Host -> BOOLEAN]
  /\ called \in [Host -> {"none", "Init", "Destroy"}]
  /\ handle \in [Host -> BOOLEAN]
  /\ alive \in [Host -> BOOLEAN]
  /\ leaked \subseteq Host
  /\ hostData \in [Host -> Int]
  /\ receive_ \in [Host -> Nat]
  /\ destroyTime \in [Host -> Nat]
  /\ factoryDestroy \in [Host -> Nat]
  /\ crashed \in BOOLEAN
  /\ first \in [Host -> Nat]
  /\ sent \in [Host -> Nat]

\* No dangling pointer in either direction between the factory and a stub:
\* the observer list holds exactly the live stubs, and none outlives the
\* factory its factory_ member points at.
StubsMatchFactory ==
  /\ \A h \in Host : stub_[h] <=> h \in observers
  /\ factory = "none" => observers = {}
  /\ todo \subseteq observers

\* "Before init the data only be access at this, so cross thread set data may
\* fine" (factory_host.cc:48): while PostInit is queued, which writes the
\* host's data_ on the factory thread, the host thread has no task of that
\* host to run.
InitTouchesHostAlone ==
  \A h \in Host :
    (\E i \in DOMAIN queue[FactoryThread] :
        queue[FactoryThread][i] = TaskFor("PostInit", h))
      => /\ ~init_[h] /\ ~destroy_[h] /\ ~stub_[h]
         /\ \A t \in Thread : \A i \in DOMAIN queue[t] :
              queue[t][i].host = h => queue[t][i].op = "PostInit"

\* The host's callbacks come after OnInit and before OnDestroy, whatever the
\* order in which client, factory and replies are scheduled.
CallbacksWhileInitialised ==
  [][\A h \in Host :
       (receive_'[h] # receive_[h] \/ factoryDestroy'[h] # factoryDestroy[h])
         => init_[h] /\ ~destroy_[h]]_vars

\* A host sees data in the order of production, each at most once.
DataInOrder ==
  [][\A h \in Host :
       receive_'[h] # receive_[h] => hostData'[h] > hostData[h]]_vars

\* TestNoLostProductData for every moment of the run: the stub of a plain
\* FactoryHost forwards every data produced while it is registered, and when
\* OnDestroy is called the host has received every one of them.
NoLostData ==
  \A h \in Host \ FreqHost :
    /\ stub_[h] => first[h] + sent[h] =
         id + (IF factory = "notify" /\ h \notin todo THEN 1 ELSE 0)
    /\ destroy_[h] => receive_[h] = sent[h]

\* The DCHECKs that scheduling must never make fail for a client that keeps
\* the rules: PostInit (29), ReplyInit (35) and, as long as no loop quits,
\* the destructor (62).
NoOtherDcheck ==
  dcheck \subseteq
    {"CreateStub", "PostDestroy"} \cup
    (IF QuitThread = {} THEN {} ELSE {"~ObserverCrossThread"})

\* OnDestroy is called at most once, unless the client's Destroy and the
\* factory's crossed each other.
OnDestroyOnce ==
  \A h \in Host : destroyTime[h] <= 1 \/ "PostDestroy" \in dcheck

\* "no create stub before" (observer_cross_thread.cc:50).
PostDestroyHasStub == "PostDestroy" \notin dcheck

\* "need call this after the factory Created" (factory_host.cc:12).
CreateStubHasFactory == "CreateStub" \notin dcheck

\* The destructor's DCHECK (observer_cross_thread.cc:62).
DestructorFlagsAgree == "~ObserverCrossThread" \notin dcheck

\* Init is answered.
InitCompletes == \A h \in Host : called[h] = "Init" ~> (init_[h] \/ crashed)

\* Destroy is answered, and so is the destruction of the factory.
DestroyCompletes ==
  \A h \in Host :
    (called[h] = "Destroy" \/ (factory = "destroy" /\ stub_[h]))
      ~> (destroy_[h] \/ crashed)

\* The cycle host -> stub -> host is broken: once its Destroy was called or
\* the factory destroys its stub, a host without client is deleted.
HostFreed ==
  \A h \in Host :
    (~handle[h] /\ (called[h] = "Destroy" \/ (factory = "destroy" /\ stub_[h])))
      ~> (~alive[h] \/ crashed)

\* A shutdown leaks a host (post_task_and_reply_impl.cc:20) only while its
\* Init or Destroy is unanswered.
LeakMeansUnanswered ==
  \A h \in leaked :
    \/ called[h] = "Init" /\ ~init_[h]
    \/ called[h] = "Destroy"

\* A shutdown in the order of main.cc, after the factory was destroyed,
\* leaves no host behind but the leaked ones.
ShutdownFreesHosts ==
  \A h \in Host :
    (~handle[h] /\ factory = "none" /\ \A t \in Thread : loop[t] = "gone")
      => (alive[h] <=> h \in leaked)

\* How the protocol ends for a host, whatever crossed on the way: told once,
\* leaked only unanswered, and freed otherwise.
HostsEndWell == OnDestroyOnce /\ LeakMeansUnanswered /\ ShutdownFreesHosts

\* With fair loops the protocol goes through, and without a failing DCHECK.
HostsAnswered ==
  []NoOtherDcheck /\ InitCompletes /\ DestroyCompletes /\ HostFreed
=============================================================================
