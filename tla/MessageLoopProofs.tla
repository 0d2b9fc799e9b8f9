-------------------------- MODULE MessageLoopProofs ---------------------------
(***************************************************************************)
(* Proofs about MessageLoop: no wakeup is lost, no post reaches a loop     *)
(* that is gone, a run loop told to quit starts nothing more, and tasks    *)
(* start once, in order, and alone when they have to.  They hold for any   *)
(* number of threads that post, of tasks, delays and nested run loops.     *)
(* About what is built on the loop: a Timer is never early, and a Thread   *)
(* uses its loop only while it is there and runs all that Stop finds.      *)
(***************************************************************************)
EXTENDS MessageLoop, Timer, BaseThread, SequenceTheorems, WellFoundedInduction, TLAPS

-----------------------------------------------------------------------------
(* The inductive invariant.                                                  *)

Task == [nestable : BOOLEAN, time : Nat]
Call == {NoCall} \cup [at : {"push"}, task : Task, proxy : BOOLEAN]
                 \cup [at : {"signal"}, proxy : BOOLEAN]
RunLoop == [at : {"work", "task", "delayed", "again", "idle", "wait"},
            did_work : BOOLEAN, from : {"none", "work", "delayed", "idle"},
            task : Nat, quit_called_ : BOOLEAN, quit_when_idle : BOOLEAN]

\* Indexes of tasks, as a queue.
Elements(q) == {q[i] : i \in 1..Len(q)}
Indexes(q) == q \in Seq(Nat) /\ Elements(q) \subseteq 1..Len(tasks)

LoopTyped ==
  /\ loop \in {"up", "deleting", "gone"} /\ target \in BOOLEAN
  /\ poster \in [Poster -> Call]
  /\ tasks \in Seq(Task) /\ ticks \in Nat
  /\ Indexes(incoming_queue_) /\ Indexes(work_queue_)
  /\ Indexes(deferred_non_nestable_work_queue_) /\ Indexes(started)
  /\ \A t \in delayed_work_queue_ : t \in 1..Len(tasks) /\ tasks[t].time > 0
  /\ event_ \in BOOLEAN /\ keep_running_ \in BOOLEAN
  /\ nestable_tasks_allowed_ \in BOOLEAN
  /\ delayed_work_time_ \in Nat
  /\ run_loops \in Seq(RunLoop)

\* Every run loop but the innermost one is in a task, and a task that is not
\* nestable is in the outermost.
TasksInv ==
  /\ \A d \in 1..(Len(run_loops) - 1) : run_loops[d].at = "task"
  /\ \A d \in 1..Len(run_loops) : run_loops[d].at = "task" =>
       /\ run_loops[d].task \in 1..Len(tasks)
       /\ ~tasks[run_loops[d].task].nestable => d = 1

\* The proxy forgets the loop as it is deleted, when nobody is about to push.
ProxyInv ==
  /\ target <=> loop # "gone"
  /\ loop = "gone" => Calls = {}

AnySignals == \E p \in Poster : poster[p].at = "signal"
InPhase(S) == run_loops # <<>> /\ Top.at \in S

\* The pump has looked at its queues, and will be woken for what came since then.
WakeInv ==
  nestable_tasks_allowed_ =>
    /\ InPhase({"idle", "wait"}) \/ (InPhase({"delayed"}) /\ ~Top.did_work) =>
         /\ work_queue_ = <<>>
         /\ incoming_queue_ = <<>> \/ event_ \/ AnySignals
    /\ InPhase({"idle", "wait"}) =>
         \A t \in delayed_work_queue_ :
           delayed_work_time_ > 0 /\ delayed_work_time_ <= tasks[t].time
    /\ InPhase({"wait"}) /\ Len(run_loops) = 1 =>
         deferred_non_nestable_work_queue_ = <<>>

\* A run loop told to quit has stopped the pump before it may look for work.
QuitInv ==
  run_loops # <<>> /\ Top.quit_called_ =>
    ~keep_running_ /\ Top.at \in {"task", "delayed", "again"}

Rising(q) == \A i, j \in 1..Len(q) : i < j => q[i] < q[j]
Once(q) == \A i, j \in 1..Len(q) : q[i] = q[j] => i = j
Below(S, T) == \A s \in S, t \in T : s < t

\* The tasks that were popped and do not wait for their time.
Popped == Elements(started) \cup Elements(deferred_non_nestable_work_queue_)

\* The two queues in which all tasks begin keep the order of the posts; what is
\* in the delayed queue does not precede a task that has left it.
OrderInv ==
  /\ Rising(work_queue_) /\ Rising(incoming_queue_)
  /\ Below(Elements(work_queue_), Elements(incoming_queue_))
  /\ Below(Popped \cup delayed_work_queue_, Elements(work_queue_))
  /\ Below(Popped \cup delayed_work_queue_, Elements(incoming_queue_))
  /\ Once(started) /\ Once(deferred_non_nestable_work_queue_)
  /\ \A t \in Elements(started) :
       t \notin Elements(deferred_non_nestable_work_queue_)
  /\ \A t \in Popped : t \notin delayed_work_queue_
  /\ \A s \in delayed_work_queue_ : \A t \in Popped :
       ~(s < t /\ tasks[s].time <= tasks[t].time)

\* A nestable task starts no later than one posted after it and due no earlier.
InOrder ==
  \A s, t \in 1..Len(tasks) :
    (s < t /\ tasks[s].time <= tasks[t].time /\ tasks[s].nestable
       /\ t \in Elements(started)) => s \in Elements(started)

\* No nestable task is lost while the loop lives; the order of those started
\* outlives it.
KeptInv ==
  /\ loop = "up" =>
       \A t \in 1..Len(tasks) : tasks[t].nestable =>
         t \in Elements(started) \cup Elements(work_queue_)
                 \cup Elements(incoming_queue_) \cup delayed_work_queue_
  /\ loop # "up" => run_loops = <<>>
  /\ loop # "up" => InOrder


\* The indexes of tasks are compared by time first; the soonest of some exists.
LEMMA LeastExists ==
  ASSUME NEW S \in SUBSET Nat, S # {}
  PROVE  \E m \in S : \A k \in S : m <= k
<1> DEFINE R == {ss \in Nat \X Nat : ss[1] < ss[2]}
<1>1. IsWellFoundedOn(R, Nat)
  BY NatLessThanWellFounded, Zenon DEF OpToRel
<1>2. PICK m \in S : \A k \in S : ~(<<k, m>> \in R)
  <2> HIDE DEF R
  <2> QED
    BY <1>1, WFMin
<1>3. \A k \in S : ~(k < m)
  BY <1>2
<1> QED
  BY <1>2, <1>3

-----------------------------------------------------------------------------
(* Queues of indexes.                                                        *)

LEMMA PushIndex ==
  ASSUME NEW q \in Seq(Nat), NEW x \in Nat
  PROVE  /\ Append(q, x) \in Seq(Nat)
         /\ Elements(Append(q, x)) = Elements(q) \cup {x}
         /\ Rising(q) /\ Below(Elements(q), {x}) => Rising(Append(q, x))
         /\ Once(q) /\ x \notin Elements(q) => Once(Append(q, x))
<1> DEFINE n == Len(q)
           r == Append(q, x)
<1>1. /\ r \in Seq(Nat) /\ n \in Nat /\ Len(r) = n + 1
      /\ (\A i \in 1..n : r[i] = q[i]) /\ r[n + 1] = x
  BY AppendProperties
<1> HIDE DEF n, r
<1>2. /\ \A i \in 1..Len(r) : i \in 1..n \/ i = n + 1
      /\ n + 1 \in 1..Len(r) /\ \A i \in 1..n : i \in 1..Len(r)
  BY <1>1
<1>3. Elements(r) = Elements(q) \cup {x}
  BY <1>1, <1>2 DEF Elements, n
<1>4. Rising(q) /\ Below(Elements(q), {x}) => Rising(r)
  <2> SUFFICES ASSUME Rising(q), Below(Elements(q), {x}), NEW i \in 1..Len(r),
                      NEW j \in 1..Len(r), i < j
               PROVE  r[i] < r[j]
    BY DEF Rising
  <2>1. i \in 1..n
    BY <1>1
  <2>2. CASE j \in 1..n
    BY <1>1, <2>1, <2>2 DEF Rising, n
  <2>3. CASE j = n + 1
    BY <1>1, <2>1, <2>3 DEF Below, Elements, n
  <2> QED
    BY <1>2, <2>2, <2>3
<1>5. Once(q) /\ x \notin Elements(q) => Once(r)
  BY <1>1, <1>2 DEF Once, Elements, n
<1> QED
  BY <1>1, <1>3, <1>4, <1>5 DEF r

LEMMA PopIndex ==
  ASSUME NEW q \in Seq(Nat), q # <<>>
  PROVE  /\ Tail(q) \in Seq(Nat) /\ Head(q) \in Elements(q)
         /\ Elements(q) = {Head(q)} \cup Elements(Tail(q))
         /\ Rising(q) => Rising(Tail(q)) /\ Below({Head(q)}, Elements(Tail(q)))
         /\ Once(q) => Once(Tail(q)) /\ Head(q) \notin Elements(Tail(q))
<1> DEFINE n == Len(q)
           r == Tail(q)
<1>1. n \in Nat \ {0}
  BY EmptySeq
<1>2. /\ r \in Seq(Nat) /\ Len(r) = n - 1
      /\ \A i \in 1..Len(r) : r[i] = q[i + 1]
  BY HeadTailProperties
<1>3. Head(q) = q[1]
  OBVIOUS
<1> HIDE DEF n, r
<1>4. \A i \in 1..n : i = 1 \/ (i - 1 \in 1..Len(r) /\ (i - 1) + 1 = i)
  BY <1>1, <1>2
<1>5. \A i \in 1..Len(r) : i + 1 \in 1..n /\ i + 1 # 1 /\ 1 < i + 1
  BY <1>1, <1>2
<1>6. 1 \in 1..n
  BY <1>1
<1>7. Head(q) \in Elements(q)
  BY <1>3, <1>6 DEF Elements, n
<1>8. Elements(q) = {Head(q)} \cup Elements(r)
  <2>1. ASSUME NEW e \in Elements(q) PROVE e \in {Head(q)} \cup Elements(r)
    <3>1. PICK i \in 1..n : e = q[i]
      BY DEF Elements, n
    <3>2. CASE i = 1
      BY <1>3, <3>1, <3>2
    <3>3. CASE i - 1 \in 1..Len(r) /\ (i - 1) + 1 = i
      <4>1. r[i - 1] = e
        BY <1>2, <3>1, <3>3
      <4> QED
        BY <3>3, <4>1 DEF Elements
    <3> QED
      BY <1>4, <3>2, <3>3
  <2>2. ASSUME NEW e \in Elements(r) PROVE e \in Elements(q)
    BY <1>2, <1>5 DEF Elements, n
  <2> QED
    BY <1>7, <2>1, <2>2
<1>9. Rising(q) => Rising(r) /\ Below({Head(q)}, Elements(r))
  <2> SUFFICES ASSUME Rising(q) PROVE Rising(r) /\ Below({Head(q)}, Elements(r))
    OBVIOUS
  <2>1. Rising(r)
    <3> SUFFICES ASSUME NEW i \in 1..Len(r), NEW j \in 1..Len(r), i < j PROVE r[i] < r[j]
      BY DEF Rising
    <3>1. i + 1 < j + 1
      BY <1>1, <1>2
    <3> QED
      BY <1>2, <1>5, <3>1 DEF Rising, n
  <2>2. Below({Head(q)}, Elements(r))
    BY <1>2, <1>3, <1>5, <1>6 DEF Rising, Below, Elements, n
  <2> QED
    BY <2>1, <2>2
<1>10. Once(q) => Once(r) /\ Head(q) \notin Elements(r)
  <2> SUFFICES ASSUME Once(q) PROVE Once(r) /\ Head(q) \notin Elements(r)
    OBVIOUS
  <2>1. Once(r)
    <3> SUFFICES ASSUME NEW i \in 1..Len(r), NEW j \in 1..Len(r), r[i] = r[j] PROVE i = j
      BY DEF Once
    <3>1. i + 1 = j + 1
      BY <1>2, <1>5 DEF Once, n
    <3> QED
      BY <1>1, <1>2, <3>1
  <2>2. ASSUME NEW i \in 1..Len(r), r[i] = Head(q) PROVE FALSE
    <3>1. q[i + 1] = q[1] /\ i + 1 \in 1..n /\ i + 1 # 1
      BY <1>2, <1>3, <1>5, <2>2
    <3> QED
      BY <1>6, <3>1 DEF Once, n
  <2>3. Head(q) \notin Elements(r)
    BY <2>2 DEF Elements
  <2> QED
    BY <2>1, <2>3
<1> QED
  BY <1>2, <1>7, <1>8, <1>9, <1>10 DEF r

LEMMA NoIndex ==
  /\ <<>> \in Seq(Nat) /\ Elements(<<>>) = {} /\ Rising(<<>>) /\ Once(<<>>)
  /\ \A q \in Seq(Nat) : Elements(q) = {} => q = <<>>
<1>1. <<>> \in Seq(Nat) /\ Len(<<>>) = 0
  OBVIOUS
<1>2. \A i \in 1..0 : FALSE
  OBVIOUS
<1>3. ASSUME NEW q \in Seq(Nat), q # <<>> PROVE Elements(q) # {}
  BY <1>3, PopIndex
<1> QED
  BY <1>1, <1>2, <1>3 DEF Elements, Rising, Once

-----------------------------------------------------------------------------
(* The stack of run loops.                                                   *)

Phases == {"work", "task", "delayed", "again", "idle", "wait"}

LEMMA TopFacts ==
  ASSUME LoopTyped, run_loops # <<>>
  PROVE  /\ Len(run_loops) \in Nat \ {0} /\ Top = run_loops[Len(run_loops)]
         /\ Top \in RunLoop /\ Len(run_loops) \in 1..Len(run_loops)
<1>1. Len(run_loops) \in Nat \ {0}
  BY EmptySeq DEF LoopTyped
<1>2. Top = run_loops[Len(run_loops)]
  BY DEF Top, Last
<1> QED
  BY <1>1, <1>2 DEF LoopTyped

\* The innermost run loop is r now, the others are as before.
Replaces(r) ==
  /\ run_loops # <<>> /\ r \in RunLoop
  /\ run_loops' \in Seq(RunLoop) /\ run_loops' # <<>>
  /\ Len(run_loops') = Len(run_loops)
  /\ \A d \in 1..(Len(run_loops) - 1) : run_loops'[d] = run_loops[d]
  /\ Top' = r

LEMMA ReplaceFacts ==
  ASSUME LoopTyped, run_loops # <<>>, NEW r \in RunLoop,
         run_loops' = [run_loops EXCEPT ![Len(run_loops)] = r]
  PROVE  Replaces(r)
<1>1. Len(run_loops) \in Nat \ {0} /\ Len(run_loops) \in 1..Len(run_loops)
  BY TopFacts
<1>2. run_loops' \in Seq(RunLoop) /\ Len(run_loops') = Len(run_loops)
  BY <1>1, ExceptSeq DEF LoopTyped
<1>3. run_loops'[Len(run_loops)] = r
  BY <1>1 DEF LoopTyped
<1>4. \A d \in 1..(Len(run_loops) - 1) : run_loops'[d] = run_loops[d]
  <2>1. \A d \in 1..(Len(run_loops) - 1) : d \in 1..Len(run_loops) /\ d # Len(run_loops)
    BY <1>1
  <2> QED
    BY <2>1 DEF LoopTyped
<1>5. run_loops' # <<>>
  BY <1>1, <1>2, EmptySeq
<1>6. Top' = r
  BY <1>2, <1>3 DEF Top, Last
<1> QED
  BY <1>2, <1>4, <1>5, <1>6 DEF Replaces

LEMMA GoToFacts ==
  ASSUME LoopTyped, run_loops # <<>>, NEW pc \in Phases, NEW b \in BOOLEAN, GoTo(pc, b)
  PROVE  \E r \in RunLoop : /\ Replaces(r) /\ r.at = pc /\ r.did_work = b /\ r.task = Top.task
                            /\ r.quit_called_ = Top.quit_called_
<1> DEFINE n == Len(run_loops)
           r == [[Top EXCEPT !.at = pc] EXCEPT !.did_work = b]
<1>1. n \in Nat \ {0} /\ Top = run_loops[n] /\ Top \in RunLoop /\ n \in 1..n
  BY TopFacts
<1>2. /\ r \in RunLoop /\ r.at = pc /\ r.did_work = b /\ r.task = Top.task
      /\ r.quit_called_ = Top.quit_called_
  BY <1>1 DEF RunLoop, Phases
<1>3. run_loops' = [run_loops EXCEPT ![n] = r]
  BY <1>1 DEF GoTo, LoopTyped
<1> HIDE DEF r
<1>4. Replaces(r)
  BY <1>2, <1>3, ReplaceFacts
<1> QED
  BY <1>2, <1>4

LEMMA RunTaskFacts ==
  ASSUME LoopTyped, run_loops # <<>>, NEW t \in Nat,
         NEW from \in {"none", "work", "delayed", "idle"}, RunTask(t, from)
  PROVE  /\ \E r \in RunLoop : /\ Replaces(r) /\ r.at = "task" /\ r.task = t
                               /\ r.quit_called_ = Top.quit_called_
         /\ nestable_tasks_allowed_' = FALSE /\ started' = Append(started, t)
<1> DEFINE n == Len(run_loops)
           r == [Top EXCEPT !.at = "task", !.task = t, !.from = from]
<1>1. n \in Nat \ {0} /\ Top = run_loops[n] /\ Top \in RunLoop /\ n \in 1..n
  BY TopFacts
<1>2. /\ r \in RunLoop /\ r.at = "task" /\ r.task = t
      /\ r.quit_called_ = Top.quit_called_
  BY <1>1 DEF RunLoop
<1>3. run_loops' = [run_loops EXCEPT ![n] = r]
  BY <1>1 DEF RunTask, LoopTyped
<1> HIDE DEF r
<1>4. Replaces(r)
  BY <1>2, <1>3, ReplaceFacts
<1> QED
  BY <1>2, <1>4 DEF RunTask

\* The pump's Run returns: an outer run loop, in its task, is the innermost.
LEMMA ReturnFacts ==
  ASSUME LoopTyped, TasksInv, run_loops # <<>>, ReturnFromRun
  PROVE  /\ run_loops' \in Seq(RunLoop) /\ Len(run_loops') = Len(run_loops) - 1
         /\ \A d \in 1..Len(run_loops') : run_loops'[d] = run_loops[d]
         /\ run_loops' # <<>> => Top'.at = "task" /\ (Top'.quit_called_ => ~keep_running_')
         /\ nestable_tasks_allowed_' \in BOOLEAN /\ keep_running_' \in BOOLEAN
<1> DEFINE n == Len(run_loops)
           m == n - 1
           r == SubSeq(run_loops, 1, m)
<1>1. n \in Nat \ {0} /\ Top = run_loops[n] /\ Top \in RunLoop /\ n \in 1..n
  BY TopFacts
<1>2. m \in Int /\ 1 \in Int /\ \A d \in 1..m : run_loops[d] \in RunLoop
  BY <1>1 DEF LoopTyped
<1>3. run_loops' = r
  BY DEF ReturnFromRun, Front
<1>4. m \in Nat /\ n = m + 1
  BY <1>1
<1> HIDE DEF m
<1>5. /\ r \in Seq(RunLoop) /\ Len(r) = IF 1 <= m THEN m - 1 + 1 ELSE 0
      /\ \A d \in 1..(m - 1 + 1) : r[d] = run_loops[1 + d - 1]
  BY <1>2, SubSeqProperties
<1> HIDE DEF r
<1>6. Len(r) = m /\ \A d \in 1..m : r[d] = run_loops[d]
  <2>1. m - 1 + 1 = m /\ \A d \in 1..m : 1 + d - 1 = d
    BY <1>4
  <2>2. Len(r) = m
    BY <1>4, <1>5
  <2> QED
    BY <1>5, <2>1, <2>2
<1>7. nestable_tasks_allowed_' \in BOOLEAN
  BY DEF ReturnFromRun
<1>8. ASSUME run_loops' # <<>>
      PROVE  /\ Top'.at = "task" /\ Last(Front(run_loops)) = Top'
             /\ Top' \in RunLoop /\ n > 1
  <2>1. m > 0 /\ m \in 1..m
    BY <1>3, <1>4, <1>5, <1>6, <1>8, EmptySeq
  <2>2. Top' = r[m]
    BY <1>3, <1>6 DEF Top, Last
  <2>3. Last(Front(run_loops)) = r[m]
    BY <1>3, <1>6 DEF ReturnFromRun, Last
  <2>4. r[m] = run_loops[m] /\ run_loops[m].at = "task" /\ run_loops[m] \in RunLoop
    BY <1>2, <1>4, <1>6, <2>1 DEF TasksInv, n
  <2> QED
    BY <1>4, <2>1, <2>2, <2>3, <2>4
<1>9. keep_running_' \in BOOLEAN
  <2>1. keep_running_' = ~(n > 1 /\ Last(Front(run_loops)).quit_called_)
    BY DEF ReturnFromRun
  <2> QED
    BY <2>1
<1>10. run_loops' # <<>> => (Top'.quit_called_ => ~keep_running_')
  BY <1>8 DEF ReturnFromRun
<1> QED
  BY <1>3, <1>4, <1>5, <1>6, <1>7, <1>8, <1>9, <1>10 DEF n

-----------------------------------------------------------------------------
(* Tasks, calls and the delayed queue.                                       *)

LEMMA CallFacts ==
  /\ NoCall \in Call /\ NoCall.at = "idle"
  /\ \A t \in Task, b \in BOOLEAN :
       LET c == [at |-> "push", task |-> t, proxy |-> b]
       IN  c \in Call /\ c.at = "push" /\ c.task = t /\ c.proxy = b
  /\ \A b \in BOOLEAN : LET c == [at |-> "signal", proxy |-> b]
                        IN  c \in Call /\ c.at = "signal" /\ c.proxy = b
  /\ \A c \in Call : /\ c.at \in {"idle", "push", "signal"}
                     /\ c.at = "push" => c.task \in Task /\ c.proxy \in BOOLEAN
                     /\ c.at = "signal" => c.proxy \in BOOLEAN
<1>1. NoCall \in Call /\ NoCall.at = "idle"
  BY DEF Call, NoCall
<1>2. \A t \in Task, b \in BOOLEAN :
       LET c == [at |-> "push", task |-> t, proxy |-> b]
       IN  c \in Call /\ c.at = "push" /\ c.task = t /\ c.proxy = b
  BY DEF Call
<1>3. \A b \in BOOLEAN : LET c == [at |-> "signal", proxy |-> b]
                         IN  c \in Call /\ c.at = "signal" /\ c.proxy = b
  BY DEF Call
<1>4. \A c \in Call : /\ c.at \in {"idle", "push", "signal"}
                      /\ c.at = "push" => c.task \in Task /\ c.proxy \in BOOLEAN
                      /\ c.at = "signal" => c.proxy \in BOOLEAN
  BY DEF Call, NoCall
<1> QED
  BY <1>1, <1>2, <1>3, <1>4

LEMMA NewTaskTyped == LoopTyped => NewTasks \subseteq Task
<1> SUFFICES ASSUME LoopTyped PROVE NewTasks \subseteq Task
  OBVIOUS
<1>1. \A x \in {0} \cup (ticks + 1)..MaxTicks : x \in Nat
  BY LoopAssumption DEF LoopTyped
<1> QED
  BY <1>1 DEF NewTasks, Task

\* The tasks of before are there, and as they were.
Extends ==
  /\ tasks' \in Seq(Task) /\ Len(tasks) \in Nat /\ Len(tasks') \in Nat
  /\ Len(tasks) <= Len(tasks')
  /\ \A t \in 1..Len(tasks) : t \in 1..Len(tasks') /\ tasks'[t] = tasks[t]

LEMMA GrowFacts ==
  ASSUME LoopTyped, NEW t \in Task, tasks' = Append(tasks, t)
  PROVE  /\ Extends /\ Len(tasks') = Len(tasks) + 1 /\ tasks'[Len(tasks) + 1] = t
         /\ Len(tasks) + 1 \in 1..Len(tasks') /\ Len(tasks) + 1 \in Nat
<1>1. /\ tasks' \in Seq(Task) /\ Len(tasks) \in Nat /\ Len(tasks') = Len(tasks) + 1
      /\ (\A i \in 1..Len(tasks) : tasks'[i] = tasks[i])
      /\ tasks'[Len(tasks) + 1] = t
  BY AppendProperties DEF LoopTyped
<1> QED
  BY <1>1 DEF Extends

LEMMA RestFacts ==
  ASSUME LoopTyped, tasks' = tasks
  PROVE  Extends
<1>1. tasks \in Seq(Task) /\ Len(tasks) \in Nat
  BY DEF LoopTyped
<1> QED
  BY <1>1 DEF Extends

LEMMA SoonestFacts ==
  ASSUME LoopTyped, NEW D \in SUBSET (1..Len(tasks)), D # {}
  PROVE  Soonest(D) \in D /\ \A t \in D : Earlier(Soonest(D), t)
<1> DEFINE time(t) == tasks[t].time
           T == {time(t) : t \in D}
<1>1. \A t \in D : t \in Nat /\ time(t) \in Nat
  <2>1. Len(tasks) \in Nat /\ \A t \in 1..Len(tasks) : tasks[t] \in Task
    BY DEF LoopTyped
  <2>2. \A x \in Task : x.time \in Nat
    BY DEF Task
  <2>3. \A t \in D : t \in Nat /\ tasks[t] \in Task
    BY <2>1
  <2> QED
    BY <2>2, <2>3
<1>2. PICK m \in T : \A k \in T : m <= k
  <2>1. T \in SUBSET Nat /\ T # {}
    BY <1>1
  <2> HIDE DEF T
  <2> QED
    BY <2>1, LeastExists
<1> DEFINE F == {t \in D : time(t) = m}
<1>3. PICK s \in F : \A k \in F : s <= k
  <2>1. F \in SUBSET Nat /\ F # {}
    BY <1>1
  <2> HIDE DEF F
  <2> QED
    BY <2>1, LeastExists
<1>4. s \in D /\ \A t \in D : Earlier(s, t)
  <2> SUFFICES ASSUME NEW t \in D PROVE s \in D /\ Earlier(s, t)
    BY <1>3
  <2>1. s \in D /\ time(s) = m /\ m <= time(t) /\ (time(t) = m => s <= t)
    BY <1>2, <1>3
  <2>2. time(s) \in Nat /\ time(t) \in Nat
    BY <1>1, <2>1
  <2>3. time(s) < time(t) \/ (time(s) = time(t) /\ s <= t)
    BY <2>1, <2>2
  <2> QED
    BY <2>1, <2>3 DEF Earlier
<1> QED
  BY <1>4 DEF Soonest

LEMMA SoonestIsLeast ==
  ASSUME LoopTyped, delayed_work_queue_ # {}
  PROVE  /\ Soonest(delayed_work_queue_) \in delayed_work_queue_
         /\ \A t \in delayed_work_queue_ : Earlier(Soonest(delayed_work_queue_), t)
  BY SoonestFacts DEF LoopTyped

\* What a step may do to the types, apart from the queues and the run loops.
LEMMA IndexesStay ==
  ASSUME LoopTyped, Extends, NEW q, Indexes(q)
  PROVE  q \in Seq(Nat) /\ Elements(q) \subseteq 1..Len(tasks')
  BY DEF Indexes, Extends

LEMMA DelayedStays ==
  ASSUME LoopTyped, Extends, delayed_work_queue_' \subseteq delayed_work_queue_
  PROVE  \A t \in delayed_work_queue_' : t \in 1..Len(tasks') /\ tasks'[t].time > 0
  BY DEF LoopTyped, Extends

-----------------------------------------------------------------------------
(* Types.                                                                    *)

LEMMA StepExtends == LoopTyped /\ [LoopNext]_loopVars => Extends
<1> SUFFICES ASSUME LoopTyped, [LoopNext]_loopVars PROVE Extends
  OBVIOUS
<1>1. ASSUME NEW p \in Poster, PostPush(p) PROVE Extends
  <2>1. poster[p].task \in Task
    BY <1>1, CallFacts DEF PostPush, LoopTyped
  <2> QED
    BY <1>1, <2>1, GrowFacts DEF PostPush
<1>2. CASE PostSelf
  <2>1. PICK t \in NewTasks : tasks' = Append(tasks, t)
    BY <1>2 DEF PostSelf
  <2> QED
    BY <2>1, NewTaskTyped, GrowFacts
<1>3. CASE tasks' = tasks
  BY <1>3, RestFacts
<1>4. ASSUME NEW p \in Poster, PostBegin(p) \/ PostSignal(p) PROVE tasks' = tasks
  BY <1>4 DEF PostBegin, PostSignal
<1>5. CASE Run \/ (\E d \in 1..MaxDepth : Quit(d)) \/ QuitWhenIdle \/ TaskDone
             \/ DeletePendingTasks \/ WillDestroyCurrentMessageLoop \/ LoopTick
  BY <1>3, <1>5 DEF Run, Quit, QuitWhenIdle, TaskDone, DeletePendingTasks,
                    WillDestroyCurrentMessageLoop, LoopTick
<1>6. CASE PumpStep
  BY <1>3, <1>6 DEF PumpStep, ReloadWorkQueue, AddToDelayedWorkQueue, DoWork, DeferWork,
                    NoWork, Break, Again, NoDelayedWork, DoDelayedWork, RunDeferred, Idle,
                    WakeUp, TimeOut, ReturnFromRun
<1>7. CASE UNCHANGED loopVars
  BY <1>3, <1>7 DEF loopVars
<1> QED
  BY <1>1, <1>2, <1>3, <1>4, <1>5, <1>6, <1>7 DEF LoopNext

QueuesTyped ==
  /\ Indexes(incoming_queue_) /\ Indexes(work_queue_)
  /\ Indexes(deferred_non_nestable_work_queue_) /\ Indexes(started)
  /\ \A t \in delayed_work_queue_ : t \in 1..Len(tasks) /\ tasks[t].time > 0

\* The steps that take tasks from queues and put them into others.
QueueStep ==
  \/ \E p \in Poster : PostPush(p)
  \/ PostSelf
  \/ ReloadWorkQueue \/ AddToDelayedWorkQueue \/ DoWork \/ DeferWork
  \/ DoDelayedWork \/ RunDeferred
  \/ DeletePendingTasks \/ WillDestroyCurrentMessageLoop

LEMMA QueuesRest ==
  ASSUME [LoopNext]_loopVars
  PROVE  QueueStep \/ UNCHANGED <<incoming_queue_, work_queue_, delayed_work_queue_,
                                  deferred_non_nestable_work_queue_, started>>
<1>1. ASSUME NEW p \in Poster, PostBegin(p) \/ PostSignal(p)
      PROVE  UNCHANGED <<queues, started>>
  BY <1>1 DEF PostBegin, PostSignal
<1>2. CASE Run \/ (\E d \in 1..MaxDepth : Quit(d)) \/ QuitWhenIdle \/ TaskDone \/ LoopTick
  BY <1>2 DEF Run, Quit, QuitWhenIdle, TaskDone, LoopTick, queues
<1>3. CASE NoWork \/ Break \/ Again \/ NoDelayedWork \/ Idle \/ WakeUp \/ TimeOut
  BY <1>3 DEF NoWork, Break, Again, NoDelayedWork, Idle, WakeUp, TimeOut, ReturnFromRun, queues
<1>4. CASE UNCHANGED loopVars
  BY <1>4 DEF loopVars, queues
<1>5. CASE \E p \in Poster : PostBegin(p) \/ PostPush(p) \/ PostSignal(p)
  BY <1>1, <1>5 DEF QueueStep, queues
<1>6. CASE PostSelf \/ DeletePendingTasks \/ WillDestroyCurrentMessageLoop
  BY <1>6 DEF QueueStep
<1>7. CASE PumpStep
  BY <1>3, <1>7 DEF PumpStep, QueueStep
<1> QED
  BY <1>2, <1>4, <1>5, <1>6, <1>7 DEF LoopNext

LEMMA QueuesStep == LoopTyped /\ [LoopNext]_loopVars => QueuesTyped'
<1> SUFFICES ASSUME LoopTyped, [LoopNext]_loopVars PROVE QueuesTyped'
  OBVIOUS
<1>1. Extends
  BY StepExtends
<1>2. \A q : Indexes(q) => q \in Seq(Nat) /\ Elements(q) \subseteq 1..Len(tasks')
  BY <1>1, IndexesStay
<1>3. /\ incoming_queue_ \in Seq(Nat) /\ Elements(incoming_queue_) \subseteq 1..Len(tasks')
      /\ work_queue_ \in Seq(Nat) /\ Elements(work_queue_) \subseteq 1..Len(tasks')
      /\ deferred_non_nestable_work_queue_ \in Seq(Nat)
      /\ Elements(deferred_non_nestable_work_queue_) \subseteq 1..Len(tasks')
      /\ started \in Seq(Nat) /\ Elements(started) \subseteq 1..Len(tasks')
  BY <1>2 DEF LoopTyped
<1>4. \A t \in delayed_work_queue_ : t \in 1..Len(tasks') /\ tasks'[t].time > 0
  BY <1>1, DelayedStays DEF LoopTyped, Extends
<1>5. ASSUME NEW q \in Seq(Nat), Elements(q) \subseteq 1..Len(tasks'), NEW t \in 1..Len(tasks')
      PROVE  Append(q, t) \in Seq(Nat) /\ Elements(Append(q, t)) \subseteq 1..Len(tasks')
  <2>1. t \in Nat
    BY <1>1 DEF Extends
  <2>2. Append(q, t) \in Seq(Nat) /\ Elements(Append(q, t)) = Elements(q) \cup {t}
    BY <2>1, PushIndex
  <2> QED
    BY <1>5, <2>2
<1>6. ASSUME NEW q \in Seq(Nat), Elements(q) \subseteq 1..Len(tasks'), q # <<>>
      PROVE  /\ Tail(q) \in Seq(Nat) /\ Elements(Tail(q)) \subseteq 1..Len(tasks')
             /\ Head(q) \in 1..Len(tasks')
  <2>1. /\ Tail(q) \in Seq(Nat) /\ Head(q) \in Elements(q)
        /\ Elements(q) = {Head(q)} \cup Elements(Tail(q))
    BY <1>6, PopIndex
  <2> QED
    BY <1>6, <2>1
<1>7. CASE UNCHANGED <<incoming_queue_, work_queue_, delayed_work_queue_,
                       deferred_non_nestable_work_queue_, started>>
  BY <1>3, <1>4, <1>7 DEF QueuesTyped, Indexes
<1>8. CASE (\E p \in Poster : PostPush(p)) \/ PostSelf
  <2>1. PICK t \in Task : tasks' = Append(tasks, t)
    BY <1>8, CallFacts, NewTaskTyped DEF PostPush, PostSelf, LoopTyped
  <2>2. Len(tasks) + 1 \in 1..Len(tasks')
    BY <2>1, GrowFacts
  <2>3. /\ incoming_queue_' = Append(incoming_queue_, Len(tasks) + 1)
        /\ UNCHANGED <<work_queue_, delayed_work_queue_, deferred_non_nestable_work_queue_,
                       started>>
    BY <1>8 DEF PostPush, PostSelf
  <2> QED
    BY <1>3, <1>4, <1>5, <2>2, <2>3 DEF QueuesTyped, Indexes
<1>9. CASE ReloadWorkQueue
  <2>1. /\ work_queue_' = incoming_queue_ /\ incoming_queue_' = <<>>
        /\ UNCHANGED <<delayed_work_queue_, deferred_non_nestable_work_queue_, started>>
    BY <1>9 DEF ReloadWorkQueue
  <2> QED
    BY <1>3, <1>4, <2>1, NoIndex DEF QueuesTyped, Indexes
<1>10. CASE AddToDelayedWorkQueue
  <2>1. /\ work_queue_ # <<>> /\ work_queue_' = Tail(work_queue_)
        /\ tasks[Head(work_queue_)].time > 0
        /\ delayed_work_queue_' = delayed_work_queue_ \cup {Head(work_queue_)}
        /\ UNCHANGED <<tasks, incoming_queue_, deferred_non_nestable_work_queue_, started>>
    BY <1>10 DEF AddToDelayedWorkQueue
  <2> QED
    BY <1>3, <1>4, <1>6, <2>1 DEF QueuesTyped, Indexes
<1>11. CASE DoWork
  <2>1. /\ work_queue_ # <<>> /\ work_queue_' = Tail(work_queue_)
        /\ started' = Append(started, Head(work_queue_))
        /\ UNCHANGED <<incoming_queue_, delayed_work_queue_,
                       deferred_non_nestable_work_queue_>>
    BY <1>11 DEF DoWork, RunTask
  <2>2. Head(work_queue_) \in 1..Len(tasks') /\ Indexes(work_queue_)'
    BY <1>3, <1>6, <2>1 DEF Indexes
  <2>3. Indexes(started)'
    BY <1>3, <1>5, <2>1, <2>2 DEF Indexes
  <2> QED
    BY <1>3, <1>4, <2>1, <2>2, <2>3 DEF QueuesTyped, Indexes
<1>12. CASE DeferWork
  <2>1. /\ work_queue_ # <<>> /\ work_queue_' = Tail(work_queue_)
        /\ deferred_non_nestable_work_queue_' =
             Append(deferred_non_nestable_work_queue_, Head(work_queue_))
        /\ UNCHANGED <<incoming_queue_, delayed_work_queue_, started>>
    BY <1>12 DEF DeferWork
  <2>2. Head(work_queue_) \in 1..Len(tasks') /\ Indexes(work_queue_)'
    BY <1>3, <1>6, <2>1 DEF Indexes
  <2>3. Indexes(deferred_non_nestable_work_queue_)'
    BY <1>3, <1>5, <2>1, <2>2 DEF Indexes
  <2> QED
    BY <1>3, <1>4, <2>1, <2>2, <2>3 DEF QueuesTyped, Indexes
<1>13. CASE DoDelayedWork
  <2> DEFINE t == Soonest(delayed_work_queue_)
  <2>1. /\ delayed_work_queue_ # {} /\ delayed_work_queue_' = delayed_work_queue_ \ {t}
        /\ \/ started' = Append(started, t) /\ UNCHANGED deferred_non_nestable_work_queue_
           \/ /\ deferred_non_nestable_work_queue_' =
                   Append(deferred_non_nestable_work_queue_, t)
              /\ UNCHANGED started
        /\ UNCHANGED <<incoming_queue_, work_queue_>>
    BY <1>13 DEF DoDelayedWork, RunTask
  <2>2. t \in 1..Len(tasks')
    BY <1>4, <2>1, SoonestIsLeast
  <2> HIDE DEF t
  <2>3. Indexes(started)' /\ Indexes(deferred_non_nestable_work_queue_)'
    BY <1>3, <1>5, <2>1, <2>2 DEF Indexes
  <2> QED
    BY <1>3, <1>4, <2>1, <2>3 DEF QueuesTyped, Indexes
<1>14. CASE RunDeferred
  <2> DEFINE q == deferred_non_nestable_work_queue_
  <2>1. /\ q # <<>> /\ q' = Tail(q) /\ started' = Append(started, Head(q))
        /\ UNCHANGED <<incoming_queue_, work_queue_, delayed_work_queue_>>
    BY <1>14 DEF RunDeferred, RunTask
  <2>2. Head(q) \in 1..Len(tasks') /\ Indexes(q)'
    BY <1>3, <1>6, <2>1 DEF Indexes
  <2>3. Indexes(started)'
    BY <1>3, <1>5, <2>1, <2>2 DEF Indexes
  <2> QED
    BY <1>3, <1>4, <2>1, <2>2, <2>3 DEF QueuesTyped, Indexes
<1>15. CASE DeletePendingTasks
  <2>1. /\ incoming_queue_' = <<>> /\ work_queue_' = <<>> /\ delayed_work_queue_' = {}
        /\ deferred_non_nestable_work_queue_' = <<>> /\ started' = started
    BY <1>15 DEF DeletePendingTasks
  <2> QED
    BY <1>3, <2>1, NoIndex DEF QueuesTyped, Indexes
<1>16. CASE WillDestroyCurrentMessageLoop
  <2>1. /\ incoming_queue_' = <<>>
        /\ UNCHANGED <<work_queue_, delayed_work_queue_, deferred_non_nestable_work_queue_,
                       started>>
    BY <1>16 DEF WillDestroyCurrentMessageLoop
  <2> QED
    BY <1>3, <1>4, <2>1, NoIndex DEF QueuesTyped, Indexes
<1> QED
  BY <1>7, <1>8, <1>9, <1>10, <1>11, <1>12, <1>13, <1>14, <1>15, <1>16, QueuesRest DEF QueueStep

-----------------------------------------------------------------------------
(* What a step does to the run loops.                                        *)

\* The innermost run loop is at work, and its pump was not told to quit when it
\* looked.
Looks ==
  /\ run_loops # <<>> /\ Top.at # "task"
  /\ Top.at \in {"delayed", "again"} => keep_running_

LoopsRest == UNCHANGED <<run_loops, keep_running_>>

Moves == \E r \in RunLoop :
  /\ Replaces(r) /\ r.quit_called_ = Top.quit_called_ /\ keep_running_' = keep_running_
  /\ \/ Looks /\ r.at # "task"
     \/ Top.at = "task" /\ r.at \in {"delayed", "again"}

Starts == \E r \in RunLoop :
  /\ Replaces(r) /\ r.quit_called_ = Top.quit_called_ /\ keep_running_' = keep_running_
  /\ Looks /\ r.at = "task" /\ r.task \in 1..Len(tasks)
  /\ tasks[r.task].nestable \/ Len(run_loops) = 1

Returns ==
  /\ run_loops # <<>>
  /\ run_loops' \in Seq(RunLoop) /\ Len(run_loops') = Len(run_loops) - 1
  /\ \A d \in 1..Len(run_loops') : run_loops'[d] = run_loops[d]
  /\ run_loops' # <<>> => Top'.at = "task" /\ (Top'.quit_called_ => ~keep_running_')

Nests == \E r \in RunLoop :
  /\ run_loops' = Append(run_loops, r) /\ r.at = "work" /\ r.quit_called_ = FALSE
  /\ loop = "up"
  /\ run_loops # <<>> => Top.at = "task"

Quits ==
  /\ run_loops' \in Seq(RunLoop) /\ Len(run_loops') = Len(run_loops)
  /\ \A d \in 1..Len(run_loops) :
       run_loops'[d].at = run_loops[d].at /\ run_loops'[d].task = run_loops[d].task
  /\ run_loops # <<>> /\ Top.at = "task" /\ Top'.at = "task"
  /\ Top'.quit_called_ /\ ~Top.quit_called_ => ~keep_running_'
  /\ ~keep_running_ => ~keep_running_'

LEMMA RunLoopTyped ==
  \A x \in RunLoop : /\ x.at \in Phases /\ x.did_work \in BOOLEAN
                     /\ x.quit_called_ \in BOOLEAN
  BY DEF RunLoop, Phases

LEMMA AtFacts ==
  ASSUME NEW pc, At(pc)
  PROVE  run_loops # <<>> /\ Top.at = pc
  BY DEF At

LEMMA GoToMoves ==
  ASSUME LoopTyped, Looks, NEW pc \in Phases, pc # "task", NEW b \in BOOLEAN, GoTo(pc, b),
         keep_running_' = keep_running_
  PROVE  Moves
<1>1. PICK r \in RunLoop : Replaces(r) /\ r.at = pc /\ r.quit_called_ = Top.quit_called_
  BY GoToFacts DEF Looks
<1> QED
  BY <1>1 DEF Moves

LEMMA RunTaskStarts ==
  ASSUME LoopTyped, Looks, NEW t \in 1..Len(tasks),
         NEW from \in {"work", "delayed", "idle"}, RunTask(t, from),
         MayRun(t) \/ Len(run_loops) = 1, keep_running_' = keep_running_
  PROVE  Starts
<1>1. t \in Nat
  BY DEF LoopTyped
<1>2. PICK r \in RunLoop : Replaces(r) /\ r.at = "task" /\ r.task = t
                           /\ r.quit_called_ = Top.quit_called_
  BY <1>1, RunTaskFacts DEF Looks
<1> QED
  BY <1>2 DEF Starts, MayRun

LEMMA ReturnReturns ==
  ASSUME LoopTyped, TasksInv, run_loops # <<>>, ReturnFromRun
  PROVE  Returns
  BY ReturnFacts DEF Returns

LEMMA RunNests == LoopTyped /\ Run => Nests /\ keep_running_' = keep_running_
<1> SUFFICES ASSUME LoopTyped, Run PROVE Nests /\ keep_running_' = keep_running_
  OBVIOUS
<1>1. PICK idle \in BOOLEAN :
        run_loops' = Append(run_loops,
            [at |-> "work", did_work |-> FALSE, from |-> "none", task |-> 0,
             quit_called_ |-> FALSE, quit_when_idle |-> idle])
  BY DEF Run
<1> DEFINE r == [at |-> "work", did_work |-> FALSE, from |-> "none", task |-> 0,
                 quit_called_ |-> FALSE, quit_when_idle |-> idle]
<1>2. r \in RunLoop /\ r.at = "work" /\ r.quit_called_ = FALSE
  BY DEF RunLoop
<1>3. loop = "up" /\ (run_loops # <<>> => Top.at = "task")
  BY DEF Run, ClientRuns
<1>4. keep_running_' = keep_running_
  BY DEF Run, pumpVars
<1> QED
  BY <1>1, <1>2, <1>3, <1>4 DEF Nests

LEMMA QuitQuits == ASSUME LoopTyped, NEW d, Quit(d) PROVE Quits
<1> DEFINE n == Len(run_loops)
           r == [run_loops[d] EXCEPT !.quit_called_ = TRUE]
<1>1. /\ d \in DOMAIN run_loops
      /\ run_loops' = [run_loops EXCEPT ![d].quit_called_ = TRUE]
      /\ keep_running_' = (keep_running_ /\ d # Len(run_loops))
      /\ ClientRuns
  BY DEF Quit
<1>2. d \in 1..n /\ run_loops[d] \in RunLoop
  BY <1>1 DEF LoopTyped
<1>3. run_loops # <<>>
  <2>1. CASE run_loops = <<>>
    BY <1>2, <2>1
  <2> QED
    BY <2>1
<1>4. Top.at = "task" /\ Top = run_loops[n] /\ n \in 1..n
  BY <1>1, <1>3, TopFacts DEF ClientRuns
<1>5. /\ r \in RunLoop /\ r.at = run_loops[d].at /\ r.task = run_loops[d].task
  BY <1>2 DEF RunLoop
<1>6. run_loops' = [run_loops EXCEPT ![d] = r]
  BY <1>1, <1>2 DEF LoopTyped
<1> HIDE DEF r
<1>7. /\ run_loops' \in Seq(RunLoop) /\ Len(run_loops') = n
      /\ \A e \in 1..n : run_loops'[e] = IF e = d THEN r ELSE run_loops[e]
  BY <1>2, <1>5, <1>6, ExceptSeq DEF LoopTyped
<1>8. Top' = run_loops'[n]
  BY <1>7 DEF Top, Last
<1>9. Top'.at = "task" /\ (Top'.quit_called_ /\ ~Top.quit_called_ => d = n)
  BY <1>4, <1>5, <1>7, <1>8
<1>10. \A e \in 1..n : run_loops'[e].at = run_loops[e].at /\ run_loops'[e].task = run_loops[e].task
  BY <1>5, <1>7
<1> QED
  BY <1>1, <1>3, <1>4, <1>7, <1>9, <1>10 DEF Quits

LEMMA QuitWhenIdleQuits ==
  ASSUME LoopTyped, QuitWhenIdle PROVE Quits /\ keep_running_' = keep_running_
<1> DEFINE n == Len(run_loops)
           r == [Top EXCEPT !.quit_when_idle = TRUE]
<1>1. run_loops # <<>> /\ n \in 1..n /\ Top = run_loops[n] /\ Top \in RunLoop
  BY TopFacts DEF QuitWhenIdle
<1>2. /\ r \in RunLoop /\ r.at = Top.at /\ r.task = Top.task
      /\ r.quit_called_ = Top.quit_called_
  BY <1>1 DEF RunLoop
<1>3. run_loops' = [run_loops EXCEPT ![n] = r]
  BY <1>1 DEF QuitWhenIdle, LoopTyped
<1>4. Top.at = "task" /\ keep_running_' = keep_running_
  BY <1>1 DEF QuitWhenIdle, ClientRuns, pumpVars
<1> HIDE DEF r
<1>5. /\ run_loops' \in Seq(RunLoop) /\ Len(run_loops') = n
      /\ \A e \in 1..n : run_loops'[e] = IF e = n THEN r ELSE run_loops[e]
  BY <1>1, <1>2, <1>3, ExceptSeq DEF LoopTyped
<1>6. Top' = r
  BY <1>1, <1>5 DEF Top, Last
<1>7. \A e \in 1..n : run_loops'[e].at = run_loops[e].at /\ run_loops'[e].task = run_loops[e].task
  BY <1>1, <1>2, <1>5
<1> QED
  BY <1>1, <1>2, <1>4, <1>5, <1>6, <1>7 DEF Quits

LEMMA LoopsMove ==
  ASSUME LoopTyped, TasksInv, [LoopNext]_loopVars
  PROVE  LoopsRest \/ Moves \/ Starts \/ Returns \/ (Nests /\ keep_running_' = keep_running_)
           \/ Quits
<1>1. \A p \in Poster : PostBegin(p) \/ PostPush(p) \/ PostSignal(p) => LoopsRest
  BY DEF PostBegin, PostPush, PostSignal, LoopsRest, pumpVars
<1>2. PostSelf \/ ReloadWorkQueue \/ AddToDelayedWorkQueue \/ DeferWork
        \/ DeletePendingTasks \/ WillDestroyCurrentMessageLoop \/ LoopTick
        \/ UNCHANGED loopVars => LoopsRest
  BY DEF PostSelf, ReloadWorkQueue, AddToDelayedWorkQueue, DeferWork, DeletePendingTasks,
         WillDestroyCurrentMessageLoop, LoopTick, loopVars, LoopsRest, pumpVars
<1>3. CASE Run
  BY <1>3, RunNests
<1>4. CASE (\E d \in 1..MaxDepth : Quit(d)) \/ QuitWhenIdle
  BY <1>4, QuitQuits, QuitWhenIdleQuits
<1>5. CASE DoWork
  <2>1. /\ run_loops # <<>> /\ Top.at = "work" /\ work_queue_ # <<>>
        /\ MayRun(Head(work_queue_)) /\ RunTask(Head(work_queue_), "work")
        /\ keep_running_' = keep_running_
    BY <1>5 DEF DoWork, At, pumpVars
  <2>2. Head(work_queue_) \in 1..Len(tasks)
    BY <2>1, PopIndex DEF LoopTyped, Indexes
  <2>3. Looks
    BY <2>1 DEF Looks
  <2> QED
    BY <2>1, <2>2, <2>3, RunTaskStarts
<1>6. CASE RunDeferred
  <2> DEFINE t == Head(deferred_non_nestable_work_queue_)
  <2>1. /\ run_loops # <<>> /\ Top.at = "idle" /\ deferred_non_nestable_work_queue_ # <<>>
        /\ Len(run_loops) = 1 /\ RunTask(t, "idle")
        /\ keep_running_' = keep_running_
    BY <1>6 DEF RunDeferred, At, pumpVars
  <2>2. t \in 1..Len(tasks)
    BY <2>1, PopIndex DEF LoopTyped, Indexes
  <2>3. Looks
    BY <2>1 DEF Looks
  <2> HIDE DEF t
  <2> QED
    BY <2>1, <2>2, <2>3, RunTaskStarts
<1>7. CASE DoDelayedWork
  <2> DEFINE t == Soonest(delayed_work_queue_)
  <2>1. /\ run_loops # <<>> /\ Top.at = "delayed" /\ delayed_work_queue_ # {}
        /\ keep_running_ /\ keep_running_' = keep_running_
        /\ (MayRun(t) /\ RunTask(t, "delayed")) \/ GoTo(NextPhase, FALSE)
    BY <1>7 DEF DoDelayedWork, At
  <2>2. t \in 1..Len(tasks)
    BY <2>1, SoonestIsLeast DEF LoopTyped
  <2>3. Looks
    BY <2>1 DEF Looks
  <2> HIDE DEF t
  <2>4. CASE MayRun(t) /\ RunTask(t, "delayed")
    BY <2>1, <2>2, <2>3, <2>4, RunTaskStarts
  <2>5. CASE GoTo(NextPhase, FALSE)
    <3>1. NextPhase \in Phases /\ NextPhase # "task"
      BY DEF NextPhase, Phases
    <3> HIDE DEF NextPhase
    <3> QED
      BY <2>1, <2>3, <2>5, <3>1, GoToMoves
  <2> QED
    BY <2>1, <2>4, <2>5
<1>8. CASE NoWork \/ Again \/ WakeUp \/ TimeOut
  <2>1. PICK pc \in {"delayed", "work"} : GoTo(pc, FALSE)
    BY <1>8 DEF NoWork, Again, WakeUp, TimeOut
  <2>2. Looks /\ keep_running_' = keep_running_
    BY <1>8 DEF NoWork, Again, WakeUp, TimeOut, At, Looks, pumpVars
  <2>3. pc \in Phases /\ pc # "task"
    BY DEF Phases
  <2> QED
    BY <2>1, <2>2, <2>3, GoToMoves
<1>9. CASE NoDelayedWork
  <2>1. GoTo(NextPhase, FALSE) /\ Looks /\ keep_running_' = keep_running_
    BY <1>9 DEF NoDelayedWork, At, Looks
  <2>2. NextPhase \in Phases /\ NextPhase # "task"
    BY DEF NextPhase, Phases
  <2> HIDE DEF NextPhase
  <2> QED
    BY <2>1, <2>2, GoToMoves
<1>10. CASE Idle
  <2>1. CASE ReturnFromRun
    BY <1>10, <2>1, ReturnReturns DEF Idle, At
  <2>2. CASE GoTo("wait", FALSE) /\ keep_running_' = keep_running_
    <3>1. Looks
      BY <1>10 DEF Idle, At, Looks
    <3> QED
      BY <2>2, <3>1, GoToMoves DEF Phases
  <2> QED
    BY <1>10, <2>1, <2>2 DEF Idle, pumpVars
<1>11. CASE Break
  BY <1>11, ReturnReturns DEF Break, At
<1>12. CASE TaskDone
  <2>1. /\ run_loops # <<>> /\ Top.at = "task" /\ keep_running_' = keep_running_
    BY <1>12 DEF TaskDone, At, pumpVars
  <2>2. PICK pc \in {"delayed", "again"}, b \in BOOLEAN : GoTo(pc, b)
    BY <1>12 DEF TaskDone
  <2>3. PICK r \in RunLoop : Replaces(r) /\ r.at = pc /\ r.quit_called_ = Top.quit_called_
    BY <2>1, <2>2, GoToFacts DEF Phases
  <2> QED
    BY <2>1, <2>3 DEF Moves
<1>13. CASE PumpStep
  BY <1>2, <1>5, <1>6, <1>7, <1>8, <1>9, <1>10, <1>11, <1>13 DEF PumpStep
<1> QED
  BY <1>1, <1>2, <1>3, <1>4, <1>12, <1>13 DEF LoopNext

LEMMA NestFacts ==
  ASSUME LoopTyped, NEW r \in RunLoop, run_loops' = Append(run_loops, r)
  PROVE  /\ run_loops' \in Seq(RunLoop) /\ run_loops' # <<>>
         /\ Len(run_loops') = Len(run_loops) + 1 /\ Len(run_loops) \in Nat
         /\ \A d \in 1..Len(run_loops) : run_loops'[d] = run_loops[d]
         /\ run_loops'[Len(run_loops')] = r /\ Top' = r
<1>1. /\ run_loops' \in Seq(RunLoop) /\ Len(run_loops) \in Nat
      /\ Len(run_loops') = Len(run_loops) + 1
      /\ (\A d \in 1..Len(run_loops) : run_loops'[d] = run_loops[d])
      /\ run_loops'[Len(run_loops) + 1] = r
  BY AppendProperties DEF LoopTyped
<1>2. run_loops' # <<>>
  BY AppendProperties DEF LoopTyped
<1> QED
  BY <1>1, <1>2 DEF Top, Last

LEMMA TasksStep == LoopTyped /\ TasksInv /\ [LoopNext]_loopVars => TasksInv'
<1> SUFFICES ASSUME LoopTyped, TasksInv, [LoopNext]_loopVars PROVE TasksInv'
  OBVIOUS
<1> DEFINE n == Len(run_loops)
           Fits(d, l) == /\ l.task \in 1..Len(tasks)
                         /\ ~tasks[l.task].nestable => d = 1
<1>1. Extends /\ n \in Nat
  BY StepExtends DEF LoopTyped
<1>2. \A d \in 1..n : run_loops[d].at = "task" => Fits(d, run_loops[d])
  BY DEF TasksInv
<1>3. ASSUME NEW d, NEW l, Fits(d, l)
      PROVE  l.task \in 1..Len(tasks') /\ (~tasks'[l.task].nestable => d = 1)
  BY <1>1, <1>3 DEF Extends
<1>4. \A d \in 1..(n - 1) : run_loops[d].at = "task"
  BY DEF TasksInv
<1>5. ASSUME Len(run_loops') \in Nat, \A d \in 1..(Len(run_loops') - 1) : run_loops'[d].at = "task",
             \A d \in 1..Len(run_loops') : run_loops'[d].at = "task" => Fits(d, run_loops'[d])
      PROVE  TasksInv'
  BY <1>3, <1>5 DEF TasksInv
<1> HIDE DEF Fits
<1>6. CASE LoopsRest
  BY <1>1, <1>2, <1>4, <1>5, <1>6 DEF LoopsRest
<1>7. CASE Moves \/ Starts
  <2>1. PICK r \in RunLoop : /\ Replaces(r)
                             /\ r.at = "task" => /\ r.task \in 1..Len(tasks)
                                                 /\ tasks[r.task].nestable \/ n = 1
    BY <1>7 DEF Moves, Starts
  <2>2. /\ Len(run_loops') = n /\ n \in Nat
        /\ \A d \in 1..(n - 1) : run_loops'[d] = run_loops[d]
        /\ run_loops'[n] = r
    BY <1>1, <2>1 DEF Replaces, Top, Last
  <2>3. r.at = "task" => Fits(n, r)
    BY <2>1 DEF Fits
  <2>4. \A d \in 1..n : d = n \/ d \in 1..(n - 1)
    BY <1>1
  <2>5. \A d \in 1..(n - 1) : d \in 1..n
    BY <1>1
  <2> QED
    BY <1>2, <1>4, <1>5, <2>2, <2>3, <2>4, <2>5
<1>8. CASE Returns
  <2>1. /\ run_loops' \in Seq(RunLoop) /\ Len(run_loops') = n - 1
        /\ \A d \in 1..Len(run_loops') : run_loops'[d] = run_loops[d]
    BY <1>8 DEF Returns
  <2>2. Len(run_loops') \in Nat
    BY <2>1
  <2>3. \A d \in 1..Len(run_loops') : d \in 1..n /\ d \in 1..(n - 1)
    BY <1>1, <2>1
  <2>4. \A d \in 1..(Len(run_loops') - 1) : d \in 1..Len(run_loops')
    BY <2>2
  <2> QED
    BY <1>2, <1>4, <1>5, <2>1, <2>2, <2>3, <2>4
<1>9. CASE Nests
  <2>1. PICK r \in RunLoop : /\ run_loops' = Append(run_loops, r) /\ r.at = "work"
                             /\ run_loops # <<>> => Top.at = "task"
    BY <1>9 DEF Nests
  <2>2. /\ Len(run_loops') = n + 1
        /\ \A d \in 1..n : run_loops'[d] = run_loops[d]
        /\ run_loops'[n + 1] = r
    BY <2>1, NestFacts
  <2>3. \A d \in 1..n : run_loops[d].at = "task"
    <3>1. ASSUME NEW d \in 1..n PROVE run_loops[d].at = "task"
      <4>1. d = n \/ d \in 1..(n - 1)
        BY <1>1
      <4>2. run_loops # <<>>
        BY <1>1
      <4>3. Top = run_loops[n]
        BY <4>2, TopFacts
      <4> QED
        BY <1>4, <2>1, <4>1, <4>2, <4>3
    <3> QED
      BY <3>1
  <2>4. \A d \in 1..(n + 1) : d \in 1..n \/ d = n + 1
    BY <1>1
  <2>5. Len(run_loops') - 1 = n /\ Len(run_loops') \in Nat
    BY <1>1, <2>2
  <2> QED
    BY <1>2, <1>5, <2>1, <2>2, <2>3, <2>4, <2>5
<1>10. CASE Quits
  <2>1. /\ Len(run_loops') = n
        /\ \A d \in 1..n : /\ run_loops'[d].at = run_loops[d].at
                          /\ run_loops'[d].task = run_loops[d].task
    BY <1>10 DEF Quits
  <2>2. \A d \in 1..n : run_loops'[d].at = "task" => Fits(d, run_loops'[d])
    BY <1>2, <2>1 DEF Fits
  <2>3. \A d \in 1..(n - 1) : d \in 1..n
    BY <1>1
  <2> QED
    BY <1>1, <1>4, <1>5, <2>1, <2>2, <2>3
<1> QED
  BY <1>6, <1>7, <1>8, <1>9, <1>10, LoopsMove

LEMMA QuitStep == LoopTyped /\ TasksInv /\ QuitInv /\ [LoopNext]_loopVars => QuitInv'
<1> SUFFICES ASSUME LoopTyped, TasksInv, QuitInv, [LoopNext]_loopVars,
                    run_loops' # <<>>, Top'.quit_called_
             PROVE  ~keep_running_' /\ Top'.at \in {"task", "delayed", "again"}
  BY DEF QuitInv
<1>1. CASE LoopsRest
  BY <1>1 DEF LoopsRest, QuitInv, Top
<1>2. CASE Moves \/ Starts
  <2>1. PICK r \in RunLoop : /\ Replaces(r) /\ r.quit_called_ = Top.quit_called_
                             /\ keep_running_' = keep_running_
                             /\ Looks \/ r.at \in {"delayed", "again"}
    BY <1>2 DEF Moves, Starts
  <2>2. run_loops # <<>> /\ Top' = r /\ Top.quit_called_
    BY <2>1 DEF Replaces
  <2>3. ~keep_running_ /\ Top.at \in {"task", "delayed", "again"}
    BY <2>2 DEF QuitInv
  <2> QED
    BY <2>1, <2>2, <2>3 DEF Looks
<1>3. CASE Returns
  BY <1>3 DEF Returns
<1>4. CASE Nests
  <2>1. PICK r \in RunLoop : run_loops' = Append(run_loops, r) /\ r.quit_called_ = FALSE
    BY <1>4 DEF Nests
  <2> QED
    BY <2>1, NestFacts
<1>5. CASE Quits
  BY <1>5 DEF Quits, QuitInv
<1> QED
  BY <1>1, <1>2, <1>3, <1>4, <1>5, LoopsMove

LEMMA NoWorkAfterQuit ==
  ASSUME LoopTyped, TasksInv, QuitInv, [LoopNext]_loopVars,
         NEW d \in DOMAIN run_loops \cap DOMAIN run_loops',
         run_loops[d].quit_called_, run_loops'[d].at = "task"
  PROVE  run_loops[d].at = "task"
<1> DEFINE n == Len(run_loops)
<1>1. n \in Nat /\ d \in 1..n /\ run_loops \in Seq(RunLoop)
  BY DEF LoopTyped
<1>2. CASE LoopsRest
  BY <1>2 DEF LoopsRest
<1>3. CASE Moves \/ Starts
  <2>1. PICK r \in RunLoop : /\ Replaces(r) /\ keep_running_' = keep_running_
                             /\ Looks \/ Top.at = "task"
    BY <1>3 DEF Moves, Starts
  <2>2. run_loops # <<>> /\ Top = run_loops[n]
    BY <2>1, TopFacts DEF Replaces
  <2>3. CASE d = n
    BY <2>1, <2>2, <2>3 DEF QuitInv, Looks
  <2>4. CASE d \in 1..(n - 1)
    BY <2>4 DEF TasksInv
  <2> QED
    BY <1>1, <2>3, <2>4
<1>4. CASE Returns
  <2>1. Len(run_loops') = n - 1 /\ DOMAIN run_loops' = 1..(n - 1)
    BY <1>4 DEF Returns
  <2> QED
    BY <2>1 DEF TasksInv
<1>5. CASE Nests
  <2>1. PICK r \in RunLoop : run_loops' = Append(run_loops, r)
    BY <1>5 DEF Nests
  <2> QED
    BY <1>1, <2>1, NestFacts
<1>6. CASE Quits
  BY <1>1, <1>6 DEF Quits
<1> QED
  BY <1>2, <1>3, <1>4, <1>5, <1>6, LoopsMove

LEMMA KeepTyped ==
  ASSUME LoopTyped, TasksInv, [LoopNext]_loopVars
  PROVE  keep_running_' \in BOOLEAN
<1>1. CASE keep_running_' = keep_running_
  BY <1>1 DEF LoopTyped
<1>2. ASSUME run_loops # <<>>, ReturnFromRun PROVE keep_running_' \in BOOLEAN
  BY <1>2, ReturnFacts
<1>3. ASSUME NEW d, Quit(d) PROVE keep_running_' \in BOOLEAN
  BY <1>3 DEF Quit
<1>4. \A p \in Poster : PostBegin(p) \/ PostPush(p) \/ PostSignal(p)
                          => keep_running_' = keep_running_
  BY DEF PostBegin, PostPush, PostSignal, pumpVars
<1>5. PostSelf \/ Run \/ QuitWhenIdle \/ TaskDone
        \/ DeletePendingTasks \/ WillDestroyCurrentMessageLoop \/ LoopTick
        \/ UNCHANGED loopVars => keep_running_' = keep_running_
  BY DEF PostSelf, Run, QuitWhenIdle, TaskDone, DeletePendingTasks,
         WillDestroyCurrentMessageLoop, LoopTick, loopVars, pumpVars
<1>6. CASE PumpStep
  <2>1. keep_running_' = keep_running_ \/ (run_loops # <<>> /\ ReturnFromRun)
    BY <1>6 DEF PumpStep, ReloadWorkQueue, AddToDelayedWorkQueue, DoWork, DeferWork, NoWork,
                Break, Again, NoDelayedWork, DoDelayedWork, RunDeferred, Idle, WakeUp, TimeOut,
                At, pumpVars
  <2> QED
    BY <1>1, <1>2, <2>1
<1> QED
  BY <1>1, <1>3, <1>4, <1>5, <1>6 DEF LoopNext

LEMMA LoopsTyped ==
  ASSUME LoopTyped, TasksInv, [LoopNext]_loopVars
  PROVE  run_loops' \in Seq(RunLoop)
<1>1. LoopsRest => run_loops' \in Seq(RunLoop)
  BY DEF LoopsRest, LoopTyped
<1>2. Moves \/ Starts => run_loops' \in Seq(RunLoop)
  BY DEF Moves, Starts, Replaces
<1>3. Returns \/ Quits => run_loops' \in Seq(RunLoop)
  BY DEF Returns, Quits
<1>4. Nests => run_loops' \in Seq(RunLoop)
  BY NestFacts DEF Nests
<1> QED
  BY <1>1, <1>2, <1>3, <1>4, LoopsMove

\* The event, whether tasks may nest, and the time of the delayed work.
LEMMA PumpTyped ==
  ASSUME LoopTyped, TasksInv, [LoopNext]_loopVars
  PROVE  /\ event_' \in BOOLEAN /\ nestable_tasks_allowed_' \in BOOLEAN
         /\ delayed_work_time_' \in Nat /\ ticks' \in Nat
<1>1. /\ event_ \in BOOLEAN /\ nestable_tasks_allowed_ \in BOOLEAN
      /\ delayed_work_time_ \in Nat /\ ticks \in Nat
  BY DEF LoopTyped
<1>2. ASSUME NEW t \in 1..Len(tasks) PROVE tasks[t].time \in Nat
  <2>1. tasks[t] \in Task
    BY DEF LoopTyped
  <2> QED
    BY <2>1 DEF Task
<1>3. ASSUME ReturnFromRun
      PROVE  /\ UNCHANGED <<event_, delayed_work_time_, ticks>>
             /\ nestable_tasks_allowed_' \in BOOLEAN
  BY <1>3 DEF ReturnFromRun
<1>4. ASSUME NEW t, NEW from, RunTask(t, from) PROVE nestable_tasks_allowed_' = FALSE
  BY <1>4 DEF RunTask
<1>5. \A p \in Poster : PostBegin(p) \/ PostPush(p) \/ PostSignal(p)
        => /\ event_' \in {event_, TRUE}
           /\ UNCHANGED <<nestable_tasks_allowed_, delayed_work_time_, ticks>>
  BY DEF PostBegin, PostPush, PostSignal, pumpVars
<1>6. CASE PostSelf \/ Run
  <2>1. UNCHANGED <<delayed_work_time_, ticks>>
    BY <1>6 DEF PostSelf, Run, pumpVars
  <2>2. event_' \in BOOLEAN
    BY <1>1, <1>6 DEF PostSelf, Run
  <2>3. nestable_tasks_allowed_' \in BOOLEAN
    BY <1>1, <1>6 DEF PostSelf, Run
  <2> QED
    BY <1>1, <2>1, <2>2, <2>3
<1>7. (\E d \in 1..MaxDepth : Quit(d)) \/ QuitWhenIdle \/ DeletePendingTasks
        \/ WillDestroyCurrentMessageLoop \/ UNCHANGED loopVars
        => UNCHANGED <<event_, nestable_tasks_allowed_, delayed_work_time_, ticks>>
  BY DEF Quit, QuitWhenIdle, DeletePendingTasks, WillDestroyCurrentMessageLoop, loopVars,
         pumpVars
<1>8. LoopTick => /\ ticks' = ticks + 1
                  /\ UNCHANGED <<event_, nestable_tasks_allowed_, delayed_work_time_>>
  BY DEF LoopTick, pumpVars
<1>9. TaskDone => /\ nestable_tasks_allowed_' = TRUE
                  /\ UNCHANGED <<event_, delayed_work_time_, ticks>>
  BY DEF TaskDone, pumpVars
<1>10. ReloadWorkQueue \/ DeferWork \/ NoWork \/ Again
        => UNCHANGED <<event_, nestable_tasks_allowed_, delayed_work_time_, ticks>>
  BY DEF ReloadWorkQueue, DeferWork, NoWork, Again, pumpVars
<1>11. CASE AddToDelayedWorkQueue
  <2>1. /\ work_queue_ # <<>>
        /\ delayed_work_time_' = tasks[Head(work_queue_)].time
             \/ delayed_work_time_' = delayed_work_time_
        /\ UNCHANGED <<event_, nestable_tasks_allowed_, ticks>>
    BY <1>11 DEF AddToDelayedWorkQueue
  <2>2. Head(work_queue_) \in 1..Len(tasks)
    BY <2>1, PopIndex DEF LoopTyped, Indexes
  <2> QED
    BY <1>1, <1>2, <2>1, <2>2
<1>12. CASE DoWork \/ RunDeferred
  BY <1>1, <1>4, <1>12 DEF DoWork, RunDeferred, pumpVars
<1>13. CASE Break
  BY <1>1, <1>3, <1>13 DEF Break
<1>14. CASE Idle
  BY <1>1, <1>3, <1>14 DEF Idle, pumpVars
<1>15. CASE NoDelayedWork
  <2>1. /\ \/ delayed_work_time_' = 0
           \/ delayed_work_queue_ # {}
                /\ delayed_work_time_' = tasks[Soonest(delayed_work_queue_)].time
        /\ UNCHANGED <<event_, nestable_tasks_allowed_, ticks>>
    BY <1>15 DEF NoDelayedWork
  <2>2. delayed_work_queue_ # {} => Soonest(delayed_work_queue_) \in 1..Len(tasks)
    BY SoonestIsLeast DEF LoopTyped
  <2> QED
    BY <1>1, <1>2, <2>1, <2>2
<1>16. CASE DoDelayedWork
  <2> DEFINE rest == delayed_work_queue_ \ {Soonest(delayed_work_queue_)}
  <2>1. /\ delayed_work_time_' = delayed_work_time_
             \/ (rest # {} /\ delayed_work_time_' = tasks[Soonest(rest)].time)
        /\ UNCHANGED <<event_, ticks>>
        /\ nestable_tasks_allowed_' \in {FALSE, nestable_tasks_allowed_}
    BY <1>4, <1>16 DEF DoDelayedWork
  <2>2. rest \in SUBSET (1..Len(tasks))
    BY DEF LoopTyped
  <2> HIDE DEF rest
  <2>3. rest # {} => Soonest(rest) \in 1..Len(tasks)
    BY <2>2, SoonestFacts
  <2> QED
    BY <1>1, <1>2, <2>1, <2>3
<1>17. CASE WakeUp
  BY <1>1, <1>17 DEF WakeUp, pumpVars
<1>18. CASE TimeOut
  BY <1>1, <1>18 DEF TimeOut
<1>19. CASE PumpStep
  BY <1>1, <1>10, <1>11, <1>12, <1>13, <1>14, <1>15, <1>16, <1>17, <1>18, <1>19 DEF PumpStep
<1>20. CASE \E p \in Poster : PostBegin(p) \/ PostPush(p) \/ PostSignal(p)
  <2>1. event_' \in {event_, TRUE}
        /\ UNCHANGED <<nestable_tasks_allowed_, delayed_work_time_, ticks>>
    BY <1>5, <1>20
  <2> QED
    BY <1>1, <2>1
<1>21. CASE LoopTick \/ TaskDone
  <2>1. ticks' \in {ticks, ticks + 1} /\ UNCHANGED <<event_, delayed_work_time_>>
        /\ nestable_tasks_allowed_' \in {nestable_tasks_allowed_, TRUE}
    BY <1>8, <1>9, <1>21
  <2>2. ticks' \in Nat
    BY <1>1, <2>1
  <2> QED
    BY <1>1, <2>1, <2>2
<1>22. CASE (\E d \in 1..MaxDepth : Quit(d)) \/ QuitWhenIdle \/ DeletePendingTasks
             \/ WillDestroyCurrentMessageLoop \/ UNCHANGED loopVars
  BY <1>1, <1>7, <1>22
<1> QED
  BY <1>6, <1>19, <1>20, <1>21, <1>22 DEF LoopNext

\* The proxy, the threads that post, and the end of the loop.
ProxyTyped ==
  /\ loop \in {"up", "deleting", "gone"} /\ target \in BOOLEAN
  /\ poster \in [Poster -> Call]

LEMMA ProxyStep == LoopTyped /\ ProxyInv /\ [LoopNext]_loopVars => ProxyTyped' /\ ProxyInv'
<1> SUFFICES ASSUME LoopTyped, ProxyInv, [LoopNext]_loopVars PROVE ProxyTyped' /\ ProxyInv'
  OBVIOUS
<1>1. ProxyTyped
  BY DEF LoopTyped, ProxyTyped
<1>2. CASE UNCHANGED proxyVars
  BY <1>1, <1>2 DEF ProxyTyped, ProxyInv, Calls, proxyVars
<1>3. ASSUME NEW p \in Poster, PostBegin(p) PROVE ProxyTyped' /\ ProxyInv'
  <2>1. PICK t \in NewTasks, proxy \in BOOLEAN :
          /\ IF proxy THEN LockFree /\ target ELSE loop = "up"
          /\ poster' = [poster EXCEPT ![p] = [at |-> "push", task |-> t, proxy |-> proxy]]
    BY <1>3 DEF PostBegin
  <2>2. [at |-> "push", task |-> t, proxy |-> proxy] \in Call
    BY CallFacts, NewTaskTyped
  <2>3. loop # "gone" /\ UNCHANGED <<loop, target>>
    BY <1>3, <2>1 DEF PostBegin, ProxyInv
  <2>4. poster' \in [Poster -> Call]
    BY <1>1, <2>1, <2>2 DEF ProxyTyped
  <2> QED
    BY <1>1, <2>3, <2>4 DEF ProxyTyped, ProxyInv
<1>4. ASSUME NEW p \in Poster, PostPush(p) \/ PostSignal(p) PROVE ProxyTyped' /\ ProxyInv'
  <2>1. PICK c \in Call : poster' = [poster EXCEPT ![p] = c] /\ c.at # "push"
    <3>1. CASE PostSignal(p)
      BY <3>1, CallFacts DEF PostSignal
    <3>2. CASE PostPush(p)
      <4>1. poster[p].proxy \in BOOLEAN
        BY <1>1, <3>2, CallFacts DEF PostPush, ProxyTyped
      <4>2. \/ poster' = [poster EXCEPT ![p] = [at |-> "signal", proxy |-> poster[p].proxy]]
            \/ poster' = [poster EXCEPT ![p] = NoCall]
        BY <3>2 DEF PostPush
      <4>3. /\ [at |-> "signal", proxy |-> poster[p].proxy] \in Call
            /\ [at |-> "signal", proxy |-> poster[p].proxy].at = "signal"
        BY <4>1, CallFacts
      <4> QED
        BY <4>2, <4>3, CallFacts
    <3> QED
      BY <1>4, <3>1, <3>2
  <2>2. UNCHANGED <<loop, target>>
    BY <1>4 DEF PostPush, PostSignal
  <2>3. poster' \in [Poster -> Call] /\ Calls' \subseteq Calls
    BY <1>1, <2>1 DEF ProxyTyped, Calls
  <2> QED
    BY <1>1, <2>2, <2>3 DEF ProxyTyped, ProxyInv
<1>5. CASE DeletePendingTasks
  BY <1>1, <1>5 DEF DeletePendingTasks, ProxyTyped, ProxyInv
<1>6. CASE WillDestroyCurrentMessageLoop
  <2>1. Calls = {}
    BY <1>6 DEF WillDestroyCurrentMessageLoop, LockFree, InCall, Calls
  <2> QED
    BY <1>1, <1>6, <2>1 DEF WillDestroyCurrentMessageLoop, ProxyTyped, ProxyInv, Calls
<1>7. PostSelf \/ Run \/ (\E d \in 1..MaxDepth : Quit(d)) \/ QuitWhenIdle \/ TaskDone
        \/ LoopTick \/ UNCHANGED loopVars => UNCHANGED proxyVars
  BY DEF PostSelf, Run, Quit, QuitWhenIdle, TaskDone, LoopTick, loopVars
<1>8. PumpStep => UNCHANGED proxyVars
  BY DEF PumpStep, ReloadWorkQueue, AddToDelayedWorkQueue, DoWork, DeferWork, NoWork, Break,
         Again, NoDelayedWork, DoDelayedWork, RunDeferred, Idle, WakeUp, TimeOut, ReturnFromRun
<1> QED
  BY <1>2, <1>3, <1>4, <1>5, <1>6, <1>7, <1>8 DEF LoopNext

LEMMA TypedStep ==
  LoopTyped /\ TasksInv /\ ProxyInv /\ [LoopNext]_loopVars => LoopTyped'
<1> SUFFICES ASSUME LoopTyped, TasksInv, ProxyInv, [LoopNext]_loopVars PROVE LoopTyped'
  OBVIOUS
<1>1. QueuesTyped' /\ ProxyTyped' /\ tasks' \in Seq(Task)
  BY QueuesStep, ProxyStep, StepExtends DEF Extends
<1> QED
  BY <1>1, KeepTyped, LoopsTyped, PumpTyped DEF LoopTyped, QueuesTyped, ProxyTyped

-----------------------------------------------------------------------------
(* No wakeup is lost.                                                        *)

Settled ==
  InPhase({"idle", "wait"}) \/ (InPhase({"delayed"}) /\ ~Top.did_work)
WillWake == incoming_queue_ = <<>> \/ event_ \/ AnySignals
InTime ==
  \A t \in delayed_work_queue_ :
    delayed_work_time_ > 0 /\ delayed_work_time_ <= tasks[t].time

LEMMA WakeIs ==
  WakeInv <=>
    (nestable_tasks_allowed_ =>
       /\ Settled => work_queue_ = <<>> /\ WillWake
       /\ InPhase({"idle", "wait"}) => InTime
       /\ InPhase({"wait"}) /\ Len(run_loops) = 1 => deferred_non_nestable_work_queue_ = <<>>)
  BY DEF WakeInv, Settled, WillWake, InTime

LEMMA PhaseFacts ==
  ASSUME LoopTyped, run_loops # <<>>, NEW r \in RunLoop, Replaces(r)
  PROVE  /\ Settled' <=> r.at \in {"idle", "wait"} \/ (r.at = "delayed" /\ ~r.did_work)
         /\ InPhase({"idle", "wait"})' <=> r.at \in {"idle", "wait"}
         /\ InPhase({"wait"})' <=> r.at = "wait"
  BY DEF Replaces, Settled, InPhase

LEMMA WakeVacuous ==
  ASSUME ~Settled' PROVE WakeInv'
<1>1. ~InPhase({"idle", "wait"})' /\ ~InPhase({"wait"})'
  BY DEF Settled, InPhase
<1> QED
  BY <1>1, WakeIs DEF WakeInv, Settled

\* What posts, the clock and the end of the loop do.
LEMMA WakeStays ==
  ASSUME LoopTyped, WakeInv, Extends, WillWake => WillWake',
         UNCHANGED <<run_loops, nestable_tasks_allowed_, work_queue_, delayed_work_queue_,
                     delayed_work_time_, deferred_non_nestable_work_queue_>>
  PROVE  WakeInv'
<1>1. /\ Settled' <=> Settled
      /\ InPhase({"idle", "wait"})' <=> InPhase({"idle", "wait"})
      /\ InPhase({"wait"})' <=> InPhase({"wait"})
  BY DEF Settled, InPhase, Top
<1>2. InTime => InTime'
  BY DEF InTime, LoopTyped, Extends
<1> QED
  BY <1>1, <1>2 DEF WakeInv, Settled, WillWake, InTime

LEMMA PostWakes ==
  ASSUME LoopTyped, NEW p \in Poster, PostBegin(p) \/ PostPush(p) \/ PostSignal(p)
  PROVE  /\ WillWake => WillWake'
         /\ UNCHANGED <<run_loops, nestable_tasks_allowed_, work_queue_, delayed_work_queue_,
                        delayed_work_time_, deferred_non_nestable_work_queue_>>
<1>1. poster \in [Poster -> Call] /\ \A q \in Poster : q # p => poster'[q] = poster[q]
  BY DEF LoopTyped, PostBegin, PostPush, PostSignal
<1>2. /\ UNCHANGED <<run_loops, nestable_tasks_allowed_, work_queue_, delayed_work_queue_,
                     delayed_work_time_, deferred_non_nestable_work_queue_>>
  BY DEF PostBegin, PostPush, PostSignal, queues, pumpVars
<1>3. CASE PostBegin(p)
  <2>1. poster[p].at = "idle" /\ UNCHANGED <<incoming_queue_, event_>>
    BY <1>3 DEF PostBegin, InCall, queues
  <2>2. AnySignals => AnySignals'
    BY <1>1, <2>1 DEF AnySignals
  <2> QED
    BY <1>2, <2>1, <2>2 DEF WillWake
<1>4. CASE PostPush(p)
  <2>1. poster[p].at = "push" /\ event_' = event_
    BY <1>4 DEF PostPush
  <2>2. AnySignals => AnySignals'
    BY <1>1, <2>1 DEF AnySignals
  <2>3. incoming_queue_ = <<>> => AnySignals'
    <3> SUFFICES ASSUME incoming_queue_ = <<>> PROVE AnySignals'
      OBVIOUS
    <3>1. poster'[p] = [at |-> "signal", proxy |-> poster[p].proxy]
      BY <1>1, <1>4 DEF PostPush
    <3>2. poster'[p].at = "signal"
      BY <3>1
    <3> QED
      BY <3>2 DEF AnySignals
  <2> QED
    BY <1>2, <2>1, <2>2, <2>3 DEF WillWake
<1>5. CASE PostSignal(p)
  <2>1. event_' = TRUE
    BY <1>5 DEF PostSignal
  <2> QED
    BY <1>2, <2>1 DEF WillWake
<1> QED
  BY <1>3, <1>4, <1>5

LEMMA NoWorkWakes ==
  ASSUME LoopTyped, NoWork PROVE WakeInv'
<1>1. /\ run_loops # <<>> /\ GoTo("delayed", FALSE)
      /\ nestable_tasks_allowed_ => work_queue_ = <<>> /\ incoming_queue_ = <<>>
      /\ UNCHANGED <<nestable_tasks_allowed_, work_queue_, incoming_queue_>>
  BY DEF NoWork, At, queues
<1>2. PICK r \in RunLoop : Replaces(r) /\ r.at = "delayed"
  BY <1>1, GoToFacts DEF Phases
<1>3. ~InPhase({"idle", "wait"})' /\ ~InPhase({"wait"})'
  BY <1>1, <1>2, PhaseFacts
<1> QED
  BY <1>1, <1>3 DEF WakeInv

\* A pump that found no delayed work, or only some it may not run yet.
LEMMA NextPhaseWakes ==
  ASSUME LoopTyped, WakeInv, run_loops # <<>>, Top.at = "delayed", GoTo(NextPhase, FALSE),
         UNCHANGED <<nestable_tasks_allowed_, work_queue_, incoming_queue_, event_, poster>>,
         nestable_tasks_allowed_ => InTime'
  PROVE  WakeInv'
<1>1. NextPhase \in Phases
  BY DEF NextPhase, Phases
<1>2. PICK r \in RunLoop : Replaces(r) /\ r.at = NextPhase
  BY <1>1, GoToFacts
<1>3. CASE Top.did_work
  <2>1. r.at = "work"
    BY <1>2, <1>3 DEF NextPhase
  <2> QED
    BY <1>2, <2>1, PhaseFacts, WakeVacuous
<1>4. CASE ~Top.did_work
  <2>1. r.at = "idle" /\ Settled
    BY <1>2, <1>4 DEF NextPhase, Settled, InPhase
  <2>2. ~InPhase({"wait"})'
    BY <1>2, <2>1, PhaseFacts
  <2>3. nestable_tasks_allowed_ => work_queue_ = <<>> /\ WillWake
    BY <2>1, WakeIs
  <2>4. nestable_tasks_allowed_' => work_queue_' = <<>> /\ WillWake'
    BY <2>3 DEF WillWake, AnySignals
  <2> QED
    BY <2>2, <2>4 DEF WakeInv, InTime, WillWake
<1> QED
  BY <1>3, <1>4

LEMMA TimeFacts ==
  ASSUME LoopTyped, NEW D \in SUBSET (1..Len(tasks)), D # {}, \A t \in D : tasks[t].time > 0
  PROVE  /\ tasks[Soonest(D)].time > 0
         /\ \A t \in D : tasks[Soonest(D)].time <= tasks[t].time
<1>1. Soonest(D) \in D /\ \A t \in D : Earlier(Soonest(D), t)
  BY SoonestFacts
<1>2. ASSUME NEW t \in 1..Len(tasks) PROVE tasks[t].time \in Nat
  <2>1. tasks[t] \in Task
    BY DEF LoopTyped
  <2> QED
    BY <2>1 DEF Task
<1>3. ASSUME NEW t \in D PROVE tasks[Soonest(D)].time <= tasks[t].time
  <2>1. PICK s \in D : s = Soonest(D)
    BY <1>1
  <2>2. tasks[s].time < tasks[t].time \/ tasks[s].time = tasks[t].time
    BY <1>1, <2>1 DEF Earlier
  <2>3. tasks[s].time \in Nat /\ tasks[t].time \in Nat
    BY <1>2
  <2>4. tasks[s].time <= tasks[t].time
    BY <2>2, <2>3
  <2> QED
    BY <2>1, <2>4
<1> QED
  BY <1>1, <1>3

LEMMA NoDelayedWorkWakes ==
  ASSUME LoopTyped, WakeInv, NoDelayedWork PROVE WakeInv'
<1> DEFINE D == delayed_work_queue_
<1>1. /\ run_loops # <<>> /\ Top.at = "delayed" /\ GoTo(NextPhase, FALSE)
      /\ nestable_tasks_allowed_ /\ D # {} => delayed_work_time_' = tasks[Soonest(D)].time
      /\ UNCHANGED <<nestable_tasks_allowed_, work_queue_, incoming_queue_, event_, poster,
                     delayed_work_queue_, tasks>>
  BY DEF NoDelayedWork, At, queues, proxyVars
<1>2. nestable_tasks_allowed_ => InTime'
  <2> SUFFICES ASSUME nestable_tasks_allowed_ PROVE InTime'
    OBVIOUS
  <2>1. D \in SUBSET (1..Len(tasks)) /\ \A t \in D : tasks[t].time > 0
    BY DEF LoopTyped
  <2>2. D # {} => /\ delayed_work_time_' > 0
                  /\ \A t \in D : delayed_work_time_' <= tasks[t].time
    BY <1>1, <2>1, TimeFacts
  <2> QED
    BY <1>1, <2>2 DEF InTime
<1> QED
  BY <1>1, <1>2, NextPhaseWakes

LEMMA DoDelayedWorkWakes ==
  ASSUME LoopTyped, WakeInv, DoDelayedWork PROVE WakeInv'
<1> DEFINE t == Soonest(delayed_work_queue_)
           D == delayed_work_queue_ \ {t}
<1>1. /\ run_loops # <<>> /\ Top.at = "delayed" /\ delayed_work_queue_ # {}
      /\ delayed_work_queue_' = D
      /\ D # {} => delayed_work_time_' = tasks[Soonest(D)].time
      /\ UNCHANGED <<work_queue_, incoming_queue_, event_, poster, tasks>>
      /\ RunTask(t, "delayed") \/ (GoTo(NextPhase, FALSE) /\ UNCHANGED nestable_tasks_allowed_)
  BY DEF DoDelayedWork, At, proxyVars
<1>2. CASE RunTask(t, "delayed")
  <2>1. t \in Nat
    BY <1>1, SoonestIsLeast DEF LoopTyped
  <2> HIDE DEF t
  <2>2. PICK r \in RunLoop : Replaces(r) /\ r.at = "task"
    BY <1>1, <1>2, <2>1, RunTaskFacts
  <2> QED
    BY <1>1, <2>2, PhaseFacts, WakeVacuous
<1>3. CASE GoTo(NextPhase, FALSE) /\ UNCHANGED nestable_tasks_allowed_
  <2>1. D \in SUBSET (1..Len(tasks)) /\ \A u \in D : tasks[u].time > 0
    BY DEF LoopTyped
  <2> HIDE DEF D, t
  <2>2. D # {} => /\ delayed_work_time_' > 0
                  /\ \A u \in D : delayed_work_time_' <= tasks[u].time
    BY <1>1, <2>1, TimeFacts
  <2>3. InTime'
    BY <1>1, <2>2 DEF InTime
  <2> QED
    BY <1>1, <1>3, <2>3, NextPhaseWakes
<1> QED
  BY <1>1, <1>2, <1>3

LEMMA IdleWakes ==
  ASSUME LoopTyped, TasksInv, WakeInv, Idle PROVE WakeInv'
<1>1. run_loops # <<>> /\ Top.at = "idle"
  BY DEF Idle, At
<1>2. CASE ReturnFromRun
  <2>1. ~Settled'
    BY <1>1, <1>2, ReturnFacts DEF Settled, InPhase
  <2> QED
    BY <2>1, WakeVacuous
<1>3. CASE /\ GoTo("wait", FALSE)
           /\ UNCHANGED <<proxyVars, queues, pumpVars, tasks, event_, nestable_tasks_allowed_>>
  <2>1. PICK r \in RunLoop : Replaces(r) /\ r.at = "wait"
    BY <1>1, <1>3, GoToFacts DEF Phases
  <2>2. UNCHANGED <<poster, incoming_queue_, work_queue_, delayed_work_queue_,
                    deferred_non_nestable_work_queue_, delayed_work_time_, tasks, event_,
                    nestable_tasks_allowed_>>
    BY <1>3 DEF proxyVars, queues, pumpVars
  <2>3. Settled /\ InPhase({"idle", "wait"})
    BY <1>1 DEF Settled, InPhase
  <2>4. nestable_tasks_allowed_ => work_queue_ = <<>> /\ WillWake /\ InTime
    BY <2>3, WakeIs
  <2>5. nestable_tasks_allowed_' => work_queue_' = <<>> /\ WillWake' /\ InTime'
    BY <2>2, <2>4 DEF WillWake, AnySignals, InTime
  <2>6. Len(run_loops') = 1 => deferred_non_nestable_work_queue_' = <<>>
    BY <2>1, <2>2 DEF Idle, Replaces
  <2> QED
    BY <2>5, <2>6 DEF WakeInv, WillWake, InTime
<1> QED
  BY <1>2, <1>3 DEF Idle

LEMMA WakeStep ==
  LoopTyped /\ TasksInv /\ WakeInv /\ [LoopNext]_loopVars => WakeInv'
<1> SUFFICES ASSUME LoopTyped, TasksInv, WakeInv, [LoopNext]_loopVars PROVE WakeInv'
  OBVIOUS
<1>1. Extends
  BY StepExtends
<1>2. CASE \E p \in Poster : PostBegin(p) \/ PostPush(p) \/ PostSignal(p)
  BY <1>1, <1>2, PostWakes, WakeStays
<1>3. CASE LoopTick \/ UNCHANGED loopVars
  <2>1. UNCHANGED <<run_loops, nestable_tasks_allowed_, work_queue_, delayed_work_queue_,
                    delayed_work_time_, deferred_non_nestable_work_queue_, incoming_queue_,
                    event_, poster>>
    BY <1>3 DEF LoopTick, loopVars, queues, pumpVars, proxyVars
  <2>2. WillWake => WillWake'
    BY <2>1 DEF WillWake, AnySignals
  <2> QED
    BY <1>1, <2>1, <2>2, WakeStays
<1>4. CASE WillDestroyCurrentMessageLoop
  <2>1. /\ incoming_queue_' = <<>>
        /\ UNCHANGED <<run_loops, nestable_tasks_allowed_, work_queue_, delayed_work_queue_,
                       delayed_work_time_, deferred_non_nestable_work_queue_>>
    BY <1>4 DEF WillDestroyCurrentMessageLoop, pumpVars
  <2>2. WillWake'
    BY <2>1 DEF WillWake
  <2> QED
    BY <1>1, <2>1, <2>2, WakeStays
<1>5. CASE DeletePendingTasks
  <2>1. run_loops' = <<>>
    BY <1>5 DEF DeletePendingTasks
  <2> QED
    BY <2>1, WakeVacuous DEF Settled, InPhase
<1>6. CASE PostSelf
  <2>1. run_loops' = run_loops /\ (run_loops # <<>> => Top.at = "task")
    BY <1>6 DEF PostSelf, ClientRuns
  <2> QED
    BY <2>1, WakeVacuous DEF Settled, InPhase, Top
<1>7. CASE Run
  <2>1. PICK r \in RunLoop : run_loops' = Append(run_loops, r) /\ r.at = "work"
    BY <1>7, RunNests DEF Nests
  <2> QED
    BY <2>1, NestFacts, WakeVacuous DEF Settled, InPhase
<1>8. CASE (\E d \in 1..MaxDepth : Quit(d)) \/ QuitWhenIdle
  <2>1. Quits
    BY <1>8, QuitQuits, QuitWhenIdleQuits
  <2> QED
    BY <2>1, WakeVacuous DEF Quits, Settled, InPhase
<1>9. CASE TaskDone
  <2>1. run_loops # <<>>
    BY <1>9 DEF TaskDone, At
  <2>2. CASE GoTo("delayed", TRUE)
    <3>1. PICK r \in RunLoop : Replaces(r) /\ r.at = "delayed" /\ r.did_work
      BY <2>1, <2>2, GoToFacts DEF Phases
    <3> QED
      BY <2>1, <3>1, PhaseFacts, WakeVacuous
  <2>3. CASE GoTo("again", FALSE)
    <3>1. PICK r \in RunLoop : Replaces(r) /\ r.at = "again"
      BY <2>1, <2>3, GoToFacts DEF Phases
    <3> QED
      BY <2>1, <3>1, PhaseFacts, WakeVacuous
  <2> QED
    BY <1>9, <2>2, <2>3 DEF TaskDone
<1>10. CASE ReloadWorkQueue \/ AddToDelayedWorkQueue \/ DeferWork
  <2>1. run_loops' = run_loops /\ Top.at = "work"
    BY <1>10 DEF ReloadWorkQueue, AddToDelayedWorkQueue, DeferWork, At
  <2> QED
    BY <2>1, WakeVacuous DEF Settled, InPhase, Top
<1>11. CASE DoWork \/ RunDeferred
  <2>1. /\ run_loops # <<>>
        /\ \/ work_queue_ # <<>> /\ RunTask(Head(work_queue_), "work")
           \/ /\ deferred_non_nestable_work_queue_ # <<>>
              /\ RunTask(Head(deferred_non_nestable_work_queue_), "idle")
    BY <1>11 DEF DoWork, RunDeferred, At
  <2>2. PICK t \in Nat, from \in {"work", "idle"} : RunTask(t, from)
    BY <2>1, PopIndex DEF LoopTyped, Indexes
  <2>3. PICK r \in RunLoop : Replaces(r) /\ r.at = "task"
    BY <2>1, <2>2, RunTaskFacts
  <2> QED
    BY <2>1, <2>3, PhaseFacts, WakeVacuous
<1>12. CASE Again \/ WakeUp \/ TimeOut
  <2>1. run_loops # <<>> /\ GoTo("work", FALSE)
    BY <1>12 DEF Again, WakeUp, TimeOut, At
  <2>2. PICK r \in RunLoop : Replaces(r) /\ r.at = "work"
    BY <2>1, GoToFacts DEF Phases
  <2> QED
    BY <2>1, <2>2, PhaseFacts, WakeVacuous
<1>13. CASE Break
  <2>1. ~Settled'
    BY <1>13, ReturnFacts DEF Break, At, Settled, InPhase
  <2> QED
    BY <2>1, WakeVacuous
<1>14. CASE PumpStep
  BY <1>10, <1>11, <1>12, <1>13, <1>14, NoWorkWakes, NoDelayedWorkWakes, DoDelayedWorkWakes,
     IdleWakes DEF PumpStep
<1> QED
  BY <1>2, <1>3, <1>4, <1>5, <1>6, <1>7, <1>8, <1>9, <1>14 DEF LoopNext

LEMMA LoopTypedInit == LoopInit => LoopTyped /\ TasksInv /\ ProxyInv /\ WakeInv /\ QuitInv
<1> SUFFICES ASSUME LoopInit
             PROVE  LoopTyped /\ TasksInv /\ ProxyInv /\ WakeInv /\ QuitInv
  OBVIOUS
<1>1. /\ run_loops = <<>> /\ tasks = <<>> /\ loop = "up" /\ target = TRUE
      /\ incoming_queue_ = <<>> /\ work_queue_ = <<>> /\ started = <<>>
      /\ deferred_non_nestable_work_queue_ = <<>> /\ delayed_work_queue_ = {}
      /\ ticks = 0 /\ event_ = FALSE /\ keep_running_ = TRUE /\ delayed_work_time_ = 0
      /\ nestable_tasks_allowed_ = TRUE
  BY DEF LoopInit
<1>2. poster \in [Poster -> Call]
  BY CallFacts DEF LoopInit
<1>3. Indexes(<<>>)
  BY NoIndex DEF Indexes
<1>4. run_loops \in Seq(RunLoop) /\ Len(run_loops) = 0 /\ tasks \in Seq(Task)
  BY <1>1
<1>5. LoopTyped
  BY <1>1, <1>2, <1>3, <1>4 DEF LoopTyped
<1>6. TasksInv
  BY <1>4 DEF TasksInv
<1>7. ProxyInv
  BY <1>1 DEF ProxyInv
<1> QED
  BY <1>1, <1>5, <1>6, <1>7 DEF WakeInv, QuitInv, InPhase

\* What the pump's and the proxy's side of LoopSafe rest on.
RunInv == LoopTyped /\ TasksInv /\ ProxyInv /\ WakeInv /\ QuitInv

LEMMA RunStep == RunInv /\ [LoopNext]_loopVars => RunInv'
  BY TypedStep, TasksStep, ProxyStep, WakeStep, QuitStep DEF RunInv

LEMMA RunInvSafe == RunInv => LoopSafe
<1> SUFFICES ASSUME RunInv PROVE LoopSafe
  OBVIOUS
<1>1. LoopTyped /\ ProxyInv /\ WakeInv
  BY DEF RunInv
<1>2. PostsReachLiveLoop
  BY <1>1 DEF PostsReachLiveLoop, ProxyInv
<1>3. ASSUME At("wait"), nestable_tasks_allowed_
      PROVE  /\ \/ incoming_queue_ = <<>>
                \/ event_
                \/ \E p \in Poster : poster[p].at = "signal"
             /\ work_queue_ = <<>>
             /\ delayed_work_queue_ # {} =>
                  delayed_work_time_ \in 1..tasks[Soonest(delayed_work_queue_)].time
             /\ Len(run_loops) = 1 => deferred_non_nestable_work_queue_ = <<>>
  <2>1. Settled /\ InPhase({"idle", "wait"}) /\ InPhase({"wait"})
    BY <1>3 DEF At, Settled, InPhase
  <2>2. work_queue_ = <<>> /\ WillWake /\ InTime
    BY <1>1, <1>3, <2>1, WakeIs
  <2>3. Len(run_loops) = 1 => deferred_non_nestable_work_queue_ = <<>>
    BY <1>1, <1>3, <2>1, WakeIs
  <2>4. delayed_work_queue_ # {} =>
          delayed_work_time_ \in 1..tasks[Soonest(delayed_work_queue_)].time
    <3> SUFFICES ASSUME delayed_work_queue_ # {}
                 PROVE  delayed_work_time_ \in 1..tasks[Soonest(delayed_work_queue_)].time
      OBVIOUS
    <3>1. PICK s \in delayed_work_queue_ : s = Soonest(delayed_work_queue_)
      BY <1>1, SoonestIsLeast
    <3>2. delayed_work_time_ > 0 /\ delayed_work_time_ <= tasks[s].time
      BY <2>2 DEF InTime
    <3>3. delayed_work_time_ \in Nat /\ tasks[s] \in Task
      BY <1>1 DEF LoopTyped
    <3>4. tasks[s].time \in Nat
      BY <3>3 DEF Task
    <3>5. delayed_work_time_ \in 1..tasks[s].time
      BY <3>2, <3>3, <3>4
    <3> QED
      BY <3>1, <3>5
  <2> QED
    BY <2>2, <2>3, <2>4 DEF WillWake, AnySignals
<1>4. NeverOversleeps
  BY <1>3 DEF NeverOversleeps
<1> QED
  BY <1>2, <1>4 DEF LoopSafe

\* No wakeup is lost and no post comes to a loop that is gone, for any number of
\* threads that post, of tasks and of nested run loops, and however far the clock
\* goes (message_loop.cc:580-603, message_pump_default.cc:20-63,
\* message_loop_proxy_impl.cc:69-83).
THEOREM LoopStaysSafe == LoopSpec => []LoopSafe
<1>1. LoopInit => RunInv
  BY LoopTypedInit DEF RunInv
<1> QED
  BY <1>1, RunStep, RunInvSafe, PTL DEF LoopSpec

\* A run loop that was told to quit starts no task, whichever loops nested in it
\* and reset the flag of the pump (run_loop.cc, message_pump_default.cc:24-62).
THEOREM QuitEndsAllWork == LoopSpec => QuitEndsWork
<1> DEFINE NoneStarts ==
      \A d \in DOMAIN run_loops \cap DOMAIN run_loops' :
        (run_loops[d].quit_called_ /\ run_loops'[d].at = "task")
          => run_loops[d].at = "task"
<1>1. LoopInit => RunInv
  BY LoopTypedInit DEF RunInv
<1>2. RunInv /\ [LoopNext]_loopVars => NoneStarts
  BY NoWorkAfterQuit DEF RunInv
<1> HIDE DEF NoneStarts
<1>3. LoopSpec => [][NoneStarts]_loopVars
  BY <1>1, <1>2, RunStep, PTL DEF LoopSpec
<1> QED
  BY <1>3 DEF QuitEndsWork, NoneStarts

-----------------------------------------------------------------------------
(* The order of the tasks.                                                   *)

LEMMA QueueFacts ==
  ASSUME LoopTyped
  PROVE  /\ Len(tasks) \in Nat
         /\ incoming_queue_ \in Seq(Nat) /\ Elements(incoming_queue_) \subseteq 1..Len(tasks)
         /\ work_queue_ \in Seq(Nat) /\ Elements(work_queue_) \subseteq 1..Len(tasks)
         /\ deferred_non_nestable_work_queue_ \in Seq(Nat)
         /\ Elements(deferred_non_nestable_work_queue_) \subseteq 1..Len(tasks)
         /\ started \in Seq(Nat) /\ Elements(started) \subseteq 1..Len(tasks)
         /\ delayed_work_queue_ \subseteq 1..Len(tasks)
         /\ Popped \subseteq 1..Len(tasks)
         /\ \A t \in 1..Len(tasks) : tasks[t] \in Task /\ tasks[t].time \in Nat
<1>1. Len(tasks) \in Nat /\ \A t \in 1..Len(tasks) : tasks[t] \in Task
  BY DEF LoopTyped
<1>2. \A x \in Task : x.time \in Nat
  BY DEF Task
<1> QED
  BY <1>1, <1>2 DEF LoopTyped, Indexes, Popped

\* The last part of OrderInv, of any tasks that are popped and that are delayed.
NoneOvertaken(P, D) ==
  \A s \in D, t \in P : ~(s < t /\ tasks[s].time <= tasks[t].time)

LEMMA OvertakenStays ==
  ASSUME LoopTyped, Extends, NEW P \in SUBSET (1..Len(tasks)), NEW D \in SUBSET (1..Len(tasks)),
         NoneOvertaken(P, D)
  PROVE  \A s \in D, t \in P : ~(s < t /\ tasks'[s].time <= tasks'[t].time)
  BY DEF NoneOvertaken, Extends

\* OrderInv, of any queues.
Ordered(w, i, d, f, s) ==
  /\ Rising(w) /\ Rising(i)
  /\ Below(Elements(w), Elements(i))
  /\ Below(Elements(s) \cup Elements(f) \cup d, Elements(w))
  /\ Below(Elements(s) \cup Elements(f) \cup d, Elements(i))
  /\ Once(s) /\ Once(f)
  /\ \A t \in Elements(s) : t \notin Elements(f)
  /\ \A t \in Elements(s) \cup Elements(f) : t \notin d
  /\ NoneOvertaken(Elements(s) \cup Elements(f), d)

LEMMA OrderIs ==
  OrderInv <=> Ordered(work_queue_, incoming_queue_, delayed_work_queue_,
                       deferred_non_nestable_work_queue_, started)
  BY DEF OrderInv, Ordered, Popped, NoneOvertaken

\* The queues of after a step in order, by the times of before.
LEMMA OrderAfter ==
  ASSUME LoopTyped, Extends,
         Ordered(work_queue_', incoming_queue_', delayed_work_queue_',
                 deferred_non_nestable_work_queue_', started'),
         Elements(started') \cup Elements(deferred_non_nestable_work_queue_')
           \subseteq 1..Len(tasks),
         delayed_work_queue_' \subseteq 1..Len(tasks)
  PROVE  OrderInv'
<1> DEFINE P == Elements(started') \cup Elements(deferred_non_nestable_work_queue_')
<1>1. NoneOvertaken(P, delayed_work_queue_')
  BY DEF Ordered
<1>2. P \in SUBSET (1..Len(tasks)) /\ delayed_work_queue_' \in SUBSET (1..Len(tasks))
  OBVIOUS
<1>3. \A s \in delayed_work_queue_', t \in P : ~(s < t /\ tasks'[s].time <= tasks'[t].time)
  BY <1>1, <1>2, OvertakenStays
<1> QED
  BY <1>3 DEF OrderInv, Ordered, Popped

LEMMA PostOrder ==
  ASSUME LoopTyped, OrderInv, Extends, incoming_queue_' = Append(incoming_queue_, Len(tasks) + 1),
         UNCHANGED <<work_queue_, delayed_work_queue_, deferred_non_nestable_work_queue_, started>>
  PROVE  OrderInv'
<1> DEFINE n == Len(tasks) + 1
           P == Elements(started) \cup Elements(deferred_non_nestable_work_queue_)
<1>1. n \in Nat /\ \A t \in 1..Len(tasks) : t < n
  BY QueueFacts
<1>2. Below(Elements(incoming_queue_), {n}) /\ Below(Elements(work_queue_), {n})
      /\ Below(P \cup delayed_work_queue_, {n})
  BY <1>1, QueueFacts DEF Below
<1> HIDE DEF n
<1>3. Ordered(work_queue_, incoming_queue_, delayed_work_queue_,
              deferred_non_nestable_work_queue_, started)
  BY OrderIs
<1>4. /\ Rising(incoming_queue_')
      /\ Elements(incoming_queue_') = Elements(incoming_queue_) \cup {n}
  BY <1>1, <1>2, <1>3, PushIndex, QueueFacts DEF Ordered, n
<1>5. Ordered(work_queue_', incoming_queue_', delayed_work_queue_',
              deferred_non_nestable_work_queue_', started')
  BY <1>2, <1>3, <1>4 DEF Ordered, Below, NoneOvertaken
<1> QED
  BY <1>5, OrderAfter, QueueFacts

LEMMA ReloadOrder ==
  ASSUME LoopTyped, OrderInv, ReloadWorkQueue PROVE OrderInv'
<1>1. /\ work_queue_' = incoming_queue_ /\ incoming_queue_' = <<>>
      /\ UNCHANGED <<tasks, delayed_work_queue_, deferred_non_nestable_work_queue_, started>>
  BY DEF ReloadWorkQueue
<1>2. Extends
  BY <1>1, RestFacts
<1>3. Ordered(work_queue_, incoming_queue_, delayed_work_queue_,
              deferred_non_nestable_work_queue_, started)
  BY OrderIs
<1>4. Ordered(work_queue_', incoming_queue_', delayed_work_queue_',
              deferred_non_nestable_work_queue_', started')
  BY <1>1, <1>3, NoIndex DEF Ordered, Below, NoneOvertaken
<1> QED
  BY <1>1, <1>2, <1>4, OrderAfter, QueueFacts

\* The head of the work queue precedes the rest and comes after all that was popped.
LEMMA HeadFacts ==
  ASSUME LoopTyped, OrderInv, work_queue_ # <<>>
  PROVE  LET t == Head(work_queue_)
         IN  /\ t \in 1..Len(tasks) /\ t \in Nat
             /\ Rising(Tail(work_queue_))
             /\ Elements(Tail(work_queue_)) \subseteq Elements(work_queue_)
             /\ Below({t}, Elements(Tail(work_queue_))) /\ Below({t}, Elements(incoming_queue_))
             /\ Below(Popped \cup delayed_work_queue_, {t})
             /\ t \notin Popped \cup delayed_work_queue_
<1> DEFINE t == Head(work_queue_)
           r == Tail(work_queue_)
<1>1. /\ t \in Elements(work_queue_) /\ Elements(work_queue_) = {t} \cup Elements(r)
      /\ Rising(work_queue_) => Rising(r) /\ Below({t}, Elements(r))
  BY PopIndex, QueueFacts
<1>2. t \in 1..Len(tasks)
  BY <1>1, QueueFacts
<1>3. t \in Nat /\ ~(t < t)
  BY <1>2
<1> HIDE DEF t, r
<1>4. /\ Rising(work_queue_) /\ Below(Elements(work_queue_), Elements(incoming_queue_))
      /\ Below(Popped \cup delayed_work_queue_, Elements(work_queue_))
  BY DEF OrderInv
<1>5. Below({t}, Elements(incoming_queue_)) /\ Below(Popped \cup delayed_work_queue_, {t})
  BY <1>1, <1>4 DEF Below
<1>6. t \notin Popped \cup delayed_work_queue_
  BY <1>3, <1>5 DEF Below
<1> QED
  BY <1>1, <1>2, <1>3, <1>4, <1>5, <1>6 DEF t, r

LEMMA DelayOrder ==
  ASSUME LoopTyped, OrderInv, AddToDelayedWorkQueue PROVE OrderInv'
<1> DEFINE t == Head(work_queue_)
           r == Tail(work_queue_)
           P == Elements(started) \cup Elements(deferred_non_nestable_work_queue_)
<1>1. /\ work_queue_ # <<>> /\ work_queue_' = r
      /\ delayed_work_queue_' = delayed_work_queue_ \cup {t}
      /\ UNCHANGED <<tasks, incoming_queue_, deferred_non_nestable_work_queue_, started>>
  BY DEF AddToDelayedWorkQueue
<1>2. /\ t \in 1..Len(tasks) /\ t \in Nat
      /\ Rising(r) /\ Elements(r) \subseteq Elements(work_queue_)
      /\ Below({t}, Elements(r)) /\ Below({t}, Elements(incoming_queue_))
      /\ Below(Popped \cup delayed_work_queue_, {t})
      /\ t \notin Popped \cup delayed_work_queue_
  BY <1>1, HeadFacts
<1> HIDE DEF t, r
<1>3. Extends
  BY <1>1, RestFacts
<1>4. Ordered(work_queue_, incoming_queue_, delayed_work_queue_,
              deferred_non_nestable_work_queue_, started)
  BY OrderIs
<1>5. NoneOvertaken(P, delayed_work_queue_ \cup {t})
  <2>1. \A u \in P : u < t /\ u \in Nat
    BY <1>2, QueueFacts DEF Below, Popped
  <2>2. \A u \in P : ~(t < u)
    BY <1>2, <2>1
  <2> QED
    BY <1>4, <2>2 DEF Ordered, NoneOvertaken
<1>6. Ordered(work_queue_', incoming_queue_', delayed_work_queue_',
              deferred_non_nestable_work_queue_', started')
  BY <1>1, <1>2, <1>4, <1>5 DEF Ordered, Below, Popped
<1> QED
  BY <1>1, <1>2, <1>3, <1>6, OrderAfter, QueueFacts

\* A task from the head of the work queue that has no delay starts or is deferred.
LEMMA TakeOrder ==
  ASSUME LoopTyped, OrderInv, UNCHANGED <<tasks, incoming_queue_, delayed_work_queue_>>,
         work_queue_ # <<>>, work_queue_' = Tail(work_queue_),
         tasks[Head(work_queue_)].time = 0,
         \/ /\ started' = Append(started, Head(work_queue_))
            /\ UNCHANGED deferred_non_nestable_work_queue_
         \/ /\ deferred_non_nestable_work_queue_' =
                 Append(deferred_non_nestable_work_queue_, Head(work_queue_))
            /\ UNCHANGED started
  PROVE  OrderInv'
<1> DEFINE t == Head(work_queue_)
           r == Tail(work_queue_)
           S == Elements(started)
           F == Elements(deferred_non_nestable_work_queue_)
<1>1. /\ t \in 1..Len(tasks) /\ t \in Nat
      /\ Rising(r) /\ Elements(r) \subseteq Elements(work_queue_)
      /\ Below({t}, Elements(r)) /\ Below({t}, Elements(incoming_queue_))
      /\ Below(Popped \cup delayed_work_queue_, {t})
      /\ t \notin Popped \cup delayed_work_queue_
  BY HeadFacts
<1>2. tasks[t].time = 0 /\ work_queue_' = r
  OBVIOUS
<1>3. \/ started' = Append(started, t) /\ UNCHANGED deferred_non_nestable_work_queue_
      \/ /\ deferred_non_nestable_work_queue_' = Append(deferred_non_nestable_work_queue_, t)
         /\ UNCHANGED started
  OBVIOUS
<1> HIDE DEF t, r
<1>4. Extends
  BY RestFacts
<1>5. Ordered(work_queue_, incoming_queue_, delayed_work_queue_,
              deferred_non_nestable_work_queue_, started)
  BY OrderIs
<1>6. t \notin S /\ t \notin F /\ t \notin delayed_work_queue_
  BY <1>1 DEF Popped
<1>7. /\ Elements(started') \cup Elements(deferred_non_nestable_work_queue_') = S \cup F \cup {t}
      /\ Once(started') /\ Once(deferred_non_nestable_work_queue_')
      /\ \A u \in Elements(started') : u \notin Elements(deferred_non_nestable_work_queue_')
  <2>1. /\ started \in Seq(Nat) /\ deferred_non_nestable_work_queue_ \in Seq(Nat) /\ t \in Nat
        /\ Once(started) /\ Once(deferred_non_nestable_work_queue_) /\ t \notin S /\ t \notin F
        /\ \A u \in S : u \notin F
    BY <1>1, <1>5, <1>6, QueueFacts DEF Ordered
  <2>2. CASE started' = Append(started, t)
             /\ deferred_non_nestable_work_queue_' = deferred_non_nestable_work_queue_
    <3>1. Elements(started') = S \cup {t} /\ Once(started')
      BY <2>1, <2>2, PushIndex
    <3> QED
      BY <2>1, <2>2, <3>1
  <2>3. CASE started' = started
             /\ deferred_non_nestable_work_queue_' = Append(deferred_non_nestable_work_queue_, t)
    <3>1. /\ Elements(deferred_non_nestable_work_queue_') = F \cup {t}
          /\ Once(deferred_non_nestable_work_queue_')
      BY <2>1, <2>3, PushIndex
    <3> QED
      BY <2>1, <2>3, <3>1
  <2> QED
    BY <1>3, <2>2, <2>3
<1>8. NoneOvertaken(S \cup F \cup {t}, delayed_work_queue_)
  <2>1. \A s \in delayed_work_queue_ : ~(tasks[s].time <= tasks[t].time)
    <3>1. \A s \in delayed_work_queue_ : tasks[s].time > 0 /\ tasks[s].time \in Nat
      BY QueueFacts DEF LoopTyped
    <3> QED
      BY <1>2, <3>1
  <2> QED
    BY <1>5, <2>1 DEF Ordered, NoneOvertaken
<1>9. Ordered(work_queue_', incoming_queue_', delayed_work_queue_',
              deferred_non_nestable_work_queue_', started')
  BY <1>1, <1>2, <1>5, <1>6, <1>7, <1>8 DEF Ordered, Below, Popped
<1>10. Elements(started') \cup Elements(deferred_non_nestable_work_queue_') \subseteq 1..Len(tasks)
       /\ delayed_work_queue_' \subseteq 1..Len(tasks)
  BY <1>1, <1>7, QueueFacts
<1> QED
  BY <1>4, <1>9, <1>10, OrderAfter

LEMMA DelayedOrder ==
  ASSUME LoopTyped, OrderInv, DoDelayedWork PROVE OrderInv'
<1> DEFINE t == Soonest(delayed_work_queue_)
           S == Elements(started)
           F == Elements(deferred_non_nestable_work_queue_)
           D == delayed_work_queue_ \ {t}
<1>1. /\ UNCHANGED <<tasks, incoming_queue_, work_queue_>>
      /\ delayed_work_queue_ # {} /\ delayed_work_queue_' = D
      /\ \/ started' = Append(started, t) /\ UNCHANGED deferred_non_nestable_work_queue_
         \/ /\ deferred_non_nestable_work_queue_' = Append(deferred_non_nestable_work_queue_, t)
            /\ UNCHANGED started
  BY DEF DoDelayedWork, RunTask
<1>2. t \in delayed_work_queue_ /\ \A u \in delayed_work_queue_ : Earlier(t, u)
  BY <1>1, SoonestIsLeast
<1> HIDE DEF t
<1>3. Extends
  BY <1>1, RestFacts
<1>4. Ordered(work_queue_, incoming_queue_, delayed_work_queue_,
              deferred_non_nestable_work_queue_, started)
  BY OrderIs
<1>5. t \notin S /\ t \notin F /\ t \in 1..Len(tasks) /\ t \in Nat
  BY <1>2, <1>4, QueueFacts DEF Ordered
<1>6. /\ Elements(started') \cup Elements(deferred_non_nestable_work_queue_') = S \cup F \cup {t}
      /\ Once(started') /\ Once(deferred_non_nestable_work_queue_')
      /\ \A u \in Elements(started') : u \notin Elements(deferred_non_nestable_work_queue_')
  <2>1. /\ started \in Seq(Nat) /\ deferred_non_nestable_work_queue_ \in Seq(Nat) /\ t \in Nat
        /\ Once(started) /\ Once(deferred_non_nestable_work_queue_) /\ t \notin S /\ t \notin F
        /\ \A u \in S : u \notin F
    BY <1>4, <1>5, QueueFacts DEF Ordered
  <2>2. CASE started' = Append(started, t)
             /\ deferred_non_nestable_work_queue_' = deferred_non_nestable_work_queue_
    <3>1. Elements(started') = S \cup {t} /\ Once(started')
      BY <2>1, <2>2, PushIndex
    <3> QED
      BY <2>1, <2>2, <3>1
  <2>3. CASE started' = started
             /\ deferred_non_nestable_work_queue_' = Append(deferred_non_nestable_work_queue_, t)
    <3>1. /\ Elements(deferred_non_nestable_work_queue_') = F \cup {t}
          /\ Once(deferred_non_nestable_work_queue_')
      BY <2>1, <2>3, PushIndex
    <3> QED
      BY <2>1, <2>3, <3>1
  <2> QED
    BY <1>1, <2>2, <2>3
<1>7. NoneOvertaken(S \cup F \cup {t}, D)
  <2>1. ASSUME NEW s \in D PROVE ~(s < t /\ tasks[s].time <= tasks[t].time)
    <3>1. s \in Nat /\ tasks[s].time \in Nat /\ tasks[t].time \in Nat
      BY <1>5, QueueFacts
    <3>2. tasks[t].time < tasks[s].time \/ (tasks[t].time = tasks[s].time /\ t <= s)
      BY <1>2 DEF Earlier
    <3> QED
      BY <1>5, <3>1, <3>2
  <2> QED
    BY <1>4, <2>1 DEF Ordered, NoneOvertaken
<1>8. Ordered(work_queue_', incoming_queue_', delayed_work_queue_',
              deferred_non_nestable_work_queue_', started')
  BY <1>1, <1>2, <1>4, <1>5, <1>6, <1>7 DEF Ordered, Below
<1>9. Elements(started') \cup Elements(deferred_non_nestable_work_queue_') \subseteq 1..Len(tasks)
      /\ delayed_work_queue_' \subseteq 1..Len(tasks)
  BY <1>1, <1>5, <1>6, QueueFacts
<1> QED
  BY <1>3, <1>8, <1>9, OrderAfter

LEMMA RunDeferredOrder ==
  ASSUME LoopTyped, OrderInv, RunDeferred PROVE OrderInv'
<1> DEFINE q == deferred_non_nestable_work_queue_
           t == Head(q)
           r == Tail(q)
           S == Elements(started)
           F == Elements(q)
<1>1. /\ q # <<>> /\ q' = r /\ started' = Append(started, t)
      /\ UNCHANGED <<tasks, incoming_queue_, work_queue_, delayed_work_queue_>>
  BY DEF RunDeferred, RunTask
<1>2. Ordered(work_queue_, incoming_queue_, delayed_work_queue_, q, started)
  BY OrderIs
<1>3. Once(started) /\ Once(q) /\ \A u \in S : u \notin F
  BY <1>2 DEF Ordered
<1>4. /\ t \in F /\ F = {t} \cup Elements(r) /\ Once(r) /\ t \notin Elements(r)
      /\ t \in Nat
  <2>1. q \in Seq(Nat) /\ F \subseteq 1..Len(tasks)
    BY QueueFacts
  <2> HIDE DEF q
  <2>2. t \in F /\ F = {t} \cup Elements(r) /\ Once(r) /\ t \notin Elements(r)
    BY <1>1, <1>3, <2>1, PopIndex
  <2> QED
    BY <2>1, <2>2
<1> HIDE DEF t, r
<1>5. Elements(started') = S \cup {t} /\ Once(started')
  BY <1>1, <1>3, <1>4, PushIndex, QueueFacts
<1>6. /\ Elements(started') \cup Elements(q') = S \cup F /\ Once(q')
      /\ \A u \in Elements(started') : u \notin Elements(q')
  BY <1>1, <1>3, <1>4, <1>5
<1>7. Extends
  BY <1>1, RestFacts
<1> HIDE DEF q, F
<1>8. Ordered(work_queue_', incoming_queue_', delayed_work_queue_', q', started')
  BY <1>1, <1>2, <1>5, <1>6 DEF Ordered, F
<1>9. Elements(started') \cup Elements(q') \subseteq 1..Len(tasks)
      /\ delayed_work_queue_' \subseteq 1..Len(tasks)
  BY <1>1, <1>6, QueueFacts DEF F, q
<1> QED
  BY <1>7, <1>8, <1>9, OrderAfter DEF q

\* ~MessageLoop empties queues, of which nothing is left to order.
LEMMA DestroyOrder ==
  ASSUME LoopTyped, OrderInv, DeletePendingTasks \/ WillDestroyCurrentMessageLoop
  PROVE  OrderInv'
<1>1. /\ incoming_queue_' = <<>> /\ UNCHANGED <<tasks, started>>
      /\ \/ UNCHANGED <<work_queue_, delayed_work_queue_, deferred_non_nestable_work_queue_>>
         \/ /\ work_queue_' = <<>> /\ delayed_work_queue_' = {}
            /\ deferred_non_nestable_work_queue_' = <<>>
  BY DEF DeletePendingTasks, WillDestroyCurrentMessageLoop
<1>2. Extends
  BY <1>1, RestFacts
<1>3. Ordered(work_queue_, incoming_queue_, delayed_work_queue_,
              deferred_non_nestable_work_queue_, started)
  BY OrderIs
<1>4. CASE UNCHANGED <<work_queue_, delayed_work_queue_, deferred_non_nestable_work_queue_>>
  <2>1. Ordered(work_queue_', incoming_queue_', delayed_work_queue_',
                deferred_non_nestable_work_queue_', started')
    BY <1>1, <1>3, <1>4, NoIndex DEF Ordered, Below
  <2> QED
    BY <1>1, <1>2, <1>4, <2>1, OrderAfter, QueueFacts
<1>5. CASE /\ work_queue_' = <<>> /\ delayed_work_queue_' = {}
           /\ deferred_non_nestable_work_queue_' = <<>>
  <2>1. Ordered(work_queue_', incoming_queue_', delayed_work_queue_',
                deferred_non_nestable_work_queue_', started')
    BY <1>1, <1>3, <1>5, NoIndex DEF Ordered, Below, NoneOvertaken
  <2> QED
    BY <1>1, <1>2, <1>5, <2>1, NoIndex, OrderAfter, QueueFacts
<1> QED
  BY <1>1, <1>4, <1>5

LEMMA OrderStep == LoopTyped /\ OrderInv /\ [LoopNext]_loopVars => OrderInv'
<1> SUFFICES ASSUME LoopTyped, OrderInv, [LoopNext]_loopVars PROVE OrderInv'
  OBVIOUS
<1>1. Extends
  BY StepExtends
<1>2. CASE UNCHANGED <<incoming_queue_, work_queue_, delayed_work_queue_,
                       deferred_non_nestable_work_queue_, started>>
  <2>1. Ordered(work_queue_', incoming_queue_', delayed_work_queue_',
                deferred_non_nestable_work_queue_', started')
    BY <1>2, OrderIs
  <2> QED
    BY <1>1, <1>2, <2>1, OrderAfter, QueueFacts
<1>3. CASE (\E p \in Poster : PostPush(p)) \/ PostSelf
  <2>1. /\ incoming_queue_' = Append(incoming_queue_, Len(tasks) + 1)
        /\ UNCHANGED <<work_queue_, delayed_work_queue_, deferred_non_nestable_work_queue_,
                       started>>
    BY <1>3 DEF PostPush, PostSelf
  <2> QED
    BY <1>1, <2>1, PostOrder
<1>4. CASE DoWork \/ DeferWork
  <2>1. /\ UNCHANGED <<tasks, incoming_queue_, delayed_work_queue_>>
        /\ work_queue_ # <<>> /\ work_queue_' = Tail(work_queue_)
        /\ tasks[Head(work_queue_)].time = 0
    BY <1>4 DEF DoWork, DeferWork
  <2>2. \/ /\ started' = Append(started, Head(work_queue_))
           /\ UNCHANGED deferred_non_nestable_work_queue_
        \/ /\ deferred_non_nestable_work_queue_' =
                Append(deferred_non_nestable_work_queue_, Head(work_queue_))
           /\ UNCHANGED started
    BY <1>4 DEF DoWork, DeferWork, RunTask
  <2> QED
    BY <2>1, <2>2, TakeOrder
<1>5. CASE ReloadWorkQueue \/ AddToDelayedWorkQueue
  BY <1>5, ReloadOrder, DelayOrder
<1>6. CASE DoDelayedWork \/ RunDeferred
  BY <1>6, DelayedOrder, RunDeferredOrder
<1>7. CASE DeletePendingTasks \/ WillDestroyCurrentMessageLoop
  BY <1>7, DestroyOrder
<1> QED
  BY <1>2, <1>3, <1>4, <1>5, <1>6, <1>7, QueuesRest DEF QueueStep

-----------------------------------------------------------------------------
(* What is kept until the loop is deleted.                                   *)

\* Where a task is that was posted, unless it is deferred.
Held == Elements(started) \cup Elements(work_queue_) \cup Elements(incoming_queue_)
          \cup delayed_work_queue_

\* A step that posts no task and takes none from a queue.
LEMMA TasksRest ==
  ASSUME [LoopNext]_loopVars
  PROVE  \/ (\E p \in Poster : PostPush(p)) \/ PostSelf
         \/ tasks' = tasks
<1>1. ASSUME NEW p \in Poster, PostBegin(p) \/ PostSignal(p) PROVE tasks' = tasks
  BY <1>1 DEF PostBegin, PostSignal
<1>2. CASE Run \/ (\E d \in 1..MaxDepth : Quit(d)) \/ QuitWhenIdle \/ TaskDone
             \/ DeletePendingTasks \/ WillDestroyCurrentMessageLoop \/ LoopTick
  BY <1>2 DEF Run, Quit, QuitWhenIdle, TaskDone, DeletePendingTasks,
              WillDestroyCurrentMessageLoop, LoopTick
<1>3. CASE PumpStep
  BY <1>3 DEF PumpStep, ReloadWorkQueue, AddToDelayedWorkQueue, DoWork, DeferWork,
              NoWork, Break, Again, NoDelayedWork, DoDelayedWork, RunDeferred, Idle,
              WakeUp, TimeOut, ReturnFromRun
<1>4. CASE UNCHANGED loopVars
  BY <1>4 DEF loopVars
<1> QED
  BY <1>1, <1>2, <1>3, <1>4 DEF LoopNext

\* The loop's life ends in its destructor, out of all run loops; what starts tasks
\* is a run loop.
LEMMA LifeFacts ==
  ASSUME [LoopNext]_loopVars
  PROVE  /\ \/ loop' = loop
            \/ DeletePendingTasks
            \/ WillDestroyCurrentMessageLoop
         /\ started' = started \/ (run_loops # <<>> /\ loop' = loop)
<1>1. ASSUME NEW p \in Poster, PostBegin(p) \/ PostPush(p) \/ PostSignal(p)
      PROVE  loop' = loop /\ started' = started
  BY <1>1 DEF PostBegin, PostPush, PostSignal, proxyVars
<1>2. CASE PostSelf \/ Run \/ (\E d \in 1..MaxDepth : Quit(d)) \/ QuitWhenIdle \/ TaskDone
             \/ LoopTick
  BY <1>2 DEF PostSelf, Run, Quit, QuitWhenIdle, TaskDone, LoopTick, proxyVars
<1>3. CASE DeletePendingTasks \/ WillDestroyCurrentMessageLoop
  BY <1>3 DEF DeletePendingTasks, WillDestroyCurrentMessageLoop
<1>4. CASE PumpStep
  BY <1>4 DEF PumpStep, ReloadWorkQueue, AddToDelayedWorkQueue, DoWork, DeferWork,
              NoWork, Break, Again, NoDelayedWork, DoDelayedWork, RunDeferred, Idle,
              WakeUp, TimeOut, ReturnFromRun, At, proxyVars
<1>5. CASE UNCHANGED loopVars
  BY <1>5 DEF loopVars, proxyVars
<1> QED
  BY <1>1, <1>2, <1>3, <1>4, <1>5 DEF LoopNext

\* A nestable task that is held stays so while the loop lives.
LEMMA HeldStays ==
  ASSUME LoopTyped, [LoopNext]_loopVars, loop' = "up",
         NEW t \in Held, tasks[t].nestable
  PROVE  t \in Held'
<1>1. CASE UNCHANGED <<incoming_queue_, work_queue_, delayed_work_queue_,
                       deferred_non_nestable_work_queue_, started>>
  BY <1>1 DEF Held
<1>2. CASE (\E p \in Poster : PostPush(p)) \/ PostSelf
  <2>1. /\ incoming_queue_' = Append(incoming_queue_, Len(tasks) + 1)
        /\ UNCHANGED <<work_queue_, delayed_work_queue_, started>>
    BY <1>2 DEF PostPush, PostSelf
  <2>2. Len(tasks) + 1 \in Nat
    BY QueueFacts
  <2>3. Elements(incoming_queue_) \subseteq Elements(incoming_queue_')
    BY <2>1, <2>2, PushIndex, QueueFacts
  <2> QED
    BY <2>1, <2>3 DEF Held
<1>3. CASE ReloadWorkQueue
  <2>1. /\ work_queue_ = <<>> /\ work_queue_' = incoming_queue_
        /\ UNCHANGED <<delayed_work_queue_, started>>
    BY <1>3 DEF ReloadWorkQueue
  <2> QED
    BY <2>1, NoIndex DEF Held
<1>4. ASSUME work_queue_ # <<>>, work_queue_' = Tail(work_queue_)
      PROVE  /\ Elements(work_queue_) = {Head(work_queue_)} \cup Elements(work_queue_')
             /\ Head(work_queue_) \in Nat
  <2>1. work_queue_ \in Seq(Nat) /\ Elements(work_queue_) \subseteq 1..Len(tasks)
    BY QueueFacts
  <2>2. /\ Head(work_queue_) \in Elements(work_queue_)
        /\ Elements(work_queue_) = {Head(work_queue_)} \cup Elements(Tail(work_queue_))
    BY <1>4, <2>1, PopIndex
  <2> QED
    BY <1>4, <2>1, <2>2
<1>5. CASE AddToDelayedWorkQueue
  <2>1. /\ work_queue_ # <<>> /\ work_queue_' = Tail(work_queue_)
        /\ delayed_work_queue_' = delayed_work_queue_ \cup {Head(work_queue_)}
        /\ UNCHANGED <<incoming_queue_, started>>
    BY <1>5 DEF AddToDelayedWorkQueue
  <2> QED
    BY <1>4, <2>1 DEF Held
<1>6. CASE DoWork
  <2>1. /\ work_queue_ # <<>> /\ work_queue_' = Tail(work_queue_)
        /\ started' = Append(started, Head(work_queue_))
        /\ UNCHANGED <<incoming_queue_, delayed_work_queue_>>
    BY <1>6 DEF DoWork, RunTask
  <2>2. Elements(started') = Elements(started) \cup {Head(work_queue_)}
    BY <1>4, <2>1, PushIndex, QueueFacts
  <2> QED
    BY <1>4, <2>1, <2>2 DEF Held
<1>7. CASE DeferWork
  <2>1. /\ work_queue_ # <<>> /\ work_queue_' = Tail(work_queue_)
        /\ ~tasks[Head(work_queue_)].nestable
        /\ UNCHANGED <<incoming_queue_, delayed_work_queue_, started>>
    BY <1>7 DEF DeferWork, MayRun
  <2> QED
    BY <1>4, <2>1 DEF Held
<1>8. CASE DoDelayedWork
  <2> DEFINE s == Soonest(delayed_work_queue_)
  <2>1. /\ delayed_work_queue_ # {} /\ delayed_work_queue_' = delayed_work_queue_ \ {s}
        /\ \/ started' = Append(started, s)
           \/ ~tasks[s].nestable /\ started' = started
        /\ UNCHANGED <<incoming_queue_, work_queue_>>
    BY <1>8 DEF DoDelayedWork, RunTask, MayRun
  <2>2. s \in Nat
    BY <2>1, SoonestIsLeast, QueueFacts
  <2> HIDE DEF s
  <2>3. CASE started' = Append(started, s)
    <3>1. Elements(started') = Elements(started) \cup {s}
      BY <2>2, <2>3, PushIndex, QueueFacts
    <3> QED
      BY <2>1, <3>1 DEF Held
  <2>4. CASE ~tasks[s].nestable /\ started' = started
    BY <2>1, <2>4 DEF Held
  <2> QED
    BY <2>1, <2>3, <2>4
<1>9. CASE RunDeferred
  <2> DEFINE q == deferred_non_nestable_work_queue_
  <2>1. /\ q # <<>> /\ started' = Append(started, Head(q))
        /\ UNCHANGED <<incoming_queue_, work_queue_, delayed_work_queue_>>
    BY <1>9 DEF RunDeferred, RunTask
  <2>2. Head(q) \in Nat
    BY <2>1, PopIndex, QueueFacts
  <2>3. Elements(started) \subseteq Elements(started')
    BY <2>1, <2>2, PushIndex, QueueFacts
  <2> QED
    BY <2>1, <2>3 DEF Held
<1>10. ~(DeletePendingTasks \/ WillDestroyCurrentMessageLoop)
  BY DEF DeletePendingTasks, WillDestroyCurrentMessageLoop
<1> QED
  BY <1>1, <1>2, <1>3, <1>5, <1>6, <1>7, <1>8, <1>9, <1>10, QueuesRest DEF QueueStep

\* Every task that is held precedes what was not popped, so what is popped is in
\* order.
LEMMA PoppedInOrder ==
  ASSUME LoopTyped, OrderInv, KeptInv
  PROVE  InOrder
<1>1. CASE loop # "up"
  BY <1>1 DEF KeptInv
<1>2. CASE loop = "up"
  <2> SUFFICES ASSUME NEW s \in 1..Len(tasks), NEW t \in 1..Len(tasks), s < t,
                      tasks[s].time <= tasks[t].time, tasks[s].nestable,
                      t \in Elements(started)
               PROVE  s \in Elements(started)
    BY DEF InOrder
  <2>1. ~(t < s) /\ t \in Popped
    BY QueueFacts DEF Popped
  <2>2. s \in Elements(started) \cup Elements(work_queue_) \cup Elements(incoming_queue_)
                \cup delayed_work_queue_
    BY <1>2 DEF KeptInv
  <2>3. s \notin Elements(work_queue_) /\ s \notin Elements(incoming_queue_)
    BY <2>1 DEF OrderInv, Below
  <2>4. s \notin delayed_work_queue_
    BY <2>1 DEF OrderInv
  <2> QED
    BY <2>2, <2>3, <2>4
<1> QED
  BY <1>1, <1>2

LEMMA KeptStep ==
  LoopTyped /\ TasksInv /\ OrderInv /\ KeptInv /\ [LoopNext]_loopVars => KeptInv'
<1> SUFFICES ASSUME LoopTyped, TasksInv, OrderInv, KeptInv, [LoopNext]_loopVars PROVE KeptInv'
  OBVIOUS
<1>1. Extends
  BY StepExtends
<1>2. ASSUME loop' = "up", NEW t \in 1..Len(tasks'), tasks'[t].nestable PROVE t \in Held'
  <2>1. loop = "up"
    BY <1>2, LifeFacts DEF DeletePendingTasks, WillDestroyCurrentMessageLoop
  <2>2. CASE t \in 1..Len(tasks)
    <3>1. tasks[t].nestable
      BY <1>1, <1>2, <2>2 DEF Extends
    <3>2. t \in Held
      BY <2>1, <2>2, <3>1 DEF KeptInv, Held
    <3> QED
      BY <1>2, <3>1, <3>2, HeldStays
  <2>3. CASE t \notin 1..Len(tasks)
    <3>1. (\E p \in Poster : PostPush(p)) \/ PostSelf
      BY <2>3, TasksRest
    <3>2. PICK x \in Task : tasks' = Append(tasks, x)
      BY <3>1, CallFacts, NewTaskTyped DEF PostPush, PostSelf, LoopTyped
    <3>3. Len(tasks') = Len(tasks) + 1 /\ Len(tasks) + 1 \in Nat /\ Len(tasks) \in Nat
      BY <3>2, GrowFacts, QueueFacts
    <3>4. t = Len(tasks) + 1
      BY <2>3, <3>3
    <3>5. incoming_queue_' = Append(incoming_queue_, Len(tasks) + 1)
      BY <3>1 DEF PostPush, PostSelf
    <3>6. t \in Elements(incoming_queue_')
      <4>1. Elements(incoming_queue_') = Elements(incoming_queue_) \cup {Len(tasks) + 1}
        BY <3>3, <3>5, PushIndex, QueueFacts
      <4> QED
        BY <3>4, <4>1
    <3> QED
      BY <3>6 DEF Held
  <2> QED
    BY <2>2, <2>3
<1>3. ASSUME loop' # "up" PROVE run_loops' = <<>>
  <2>1. CASE DeletePendingTasks
    BY <2>1 DEF DeletePendingTasks
  <2>2. CASE WillDestroyCurrentMessageLoop
    BY <2>2 DEF WillDestroyCurrentMessageLoop, KeptInv
  <2>3. CASE loop' = loop
    <3>1. loop # "up" /\ run_loops = <<>>
      BY <1>3, <2>3 DEF KeptInv
    <3> QED
      BY <3>1, LoopsMove DEF LoopsRest, Moves, Starts, Returns, Nests, Quits, Replaces
  <2> QED
    BY <2>1, <2>2, <2>3, LifeFacts
<1>4. ASSUME loop' # "up" PROVE InOrder'
  <2>1. InOrder
    BY PoppedInOrder
  <2>2. started' = started
    BY <1>4, LifeFacts DEF KeptInv
  <2>3. Elements(started) \subseteq 1..Len(tasks) /\ Len(tasks) \in Nat
    BY QueueFacts
  <2> SUFFICES ASSUME NEW s \in 1..Len(tasks'), NEW t \in 1..Len(tasks'), s < t,
                      tasks'[s].time <= tasks'[t].time, tasks'[s].nestable,
                      t \in Elements(started)
               PROVE  s \in Elements(started)
    BY <2>2 DEF InOrder
  <2>4. t \in 1..Len(tasks) /\ s \in 1..Len(tasks)
    BY <1>1, <2>3 DEF Extends
  <2> QED
    BY <1>1, <2>1, <2>4 DEF InOrder, Extends
<1> QED
  BY <1>2, <1>3, <1>4 DEF KeptInv, Held

-----------------------------------------------------------------------------
(* The types as the run checks them.                                         *)

LEMMA JoinFacts ==
  ASSUME NEW a \in Seq(Nat), NEW b \in Seq(Nat), Once(a), Once(b),
         \A t \in Elements(a) : t \notin Elements(b)
  PROVE  a \o b \in Seq(Nat) /\ Once(a \o b) /\ Elements(a \o b) = Elements(a) \cup Elements(b)
<1> DEFINE c == a \o b
           m == Len(a)
           n == Len(b)
<1>1. /\ c \in Seq(Nat) /\ Len(c) = m + n /\ m \in Nat /\ n \in Nat
      /\ \A i \in 1..(m + n) : c[i] = IF i <= m THEN a[i] ELSE b[i - m]
  BY ConcatProperties
<1> HIDE DEF c, m, n
<1>2. \A i \in 1..(m + n) : (i \in 1..m /\ i <= m) \/ (~(i <= m) /\ i - m \in 1..n)
  BY <1>1
<1>3. /\ \A i \in 1..m : i \in 1..(m + n) /\ i <= m
      /\ \A i \in 1..n : i + m \in 1..(m + n) /\ ~(i + m <= m) /\ (i + m) - m = i
  BY <1>1
<1>4. /\ \A i \in 1..m : c[i] = a[i] /\ a[i] \in Elements(a)
      /\ \A i \in 1..n : c[i + m] = b[i] /\ b[i] \in Elements(b)
  BY <1>1, <1>3 DEF Elements, m, n
<1>5. \A i \in 1..Len(c) : i \in 1..m \/ \E k \in 1..n : i = k + m
  <2> SUFFICES ASSUME NEW i \in 1..(m + n), i \notin 1..m PROVE \E k \in 1..n : i = k + m
    BY <1>1
  <2>1. i - m \in 1..n /\ i = (i - m) + m
    BY <1>1
  <2> QED
    BY <2>1
<1>6. Elements(c) = Elements(a) \cup Elements(b)
  <2>1. ASSUME NEW i \in 1..Len(c) PROVE c[i] \in Elements(a) \cup Elements(b)
    BY <1>4, <1>5
  <2>2. ASSUME NEW i \in 1..m PROVE a[i] \in Elements(c)
    BY <1>1, <1>3, <1>4 DEF Elements
  <2>3. ASSUME NEW i \in 1..n PROVE b[i] \in Elements(c)
    BY <1>1, <1>3, <1>4 DEF Elements
  <2> QED
    BY <2>1, <2>2, <2>3 DEF Elements, m, n
<1>7. Once(c)
  <2> SUFFICES ASSUME NEW i \in 1..Len(c), NEW j \in 1..Len(c), c[i] = c[j] PROVE i = j
    BY DEF Once
  <2>1. CASE i \in 1..m /\ j \in 1..m
    BY <1>4, <2>1 DEF Once, m
  <2>2. ASSUME NEW k \in 1..n, NEW l \in 1..n, i = k + m, j = l + m PROVE i = j
    <3>1. b[k] = b[l]
      BY <1>4, <2>2
    <3> QED
      BY <2>2, <3>1 DEF Once, n
  <2>3. ASSUME i \in 1..m, NEW l \in 1..n, j = l + m PROVE FALSE
    BY <1>4, <2>3
  <2>4. ASSUME j \in 1..m, NEW k \in 1..n, i = k + m PROVE FALSE
    BY <1>4, <2>4
  <2> QED
    BY <1>5, <2>1, <2>2, <2>3, <2>4
<1> QED
  BY <1>1, <1>6, <1>7 DEF c

LEMMA RisingOnce == \A q \in Seq(Nat) : Rising(q) => Once(q)
<1> SUFFICES ASSUME NEW q \in Seq(Nat), Rising(q), NEW i \in 1..Len(q), NEW j \in 1..Len(q),
                    q[i] = q[j]
             PROVE  i = j
  BY DEF Once
<1>1. i \in Nat /\ j \in Nat /\ q[i] \in Nat /\ q[j] \in Nat
  OBVIOUS
<1>2. ~(i < j) /\ ~(j < i)
  BY <1>1 DEF Rising
<1> QED
  BY <1>1, <1>2

\* A task is in one place at most.
LEMMA OnePlace ==
  ASSUME LoopTyped, OrderInv
  PROVE  IsInjective(started \o work_queue_ \o incoming_queue_
                       \o deferred_non_nestable_work_queue_)
<1> DEFINE S == Elements(started)
           W == Elements(work_queue_)
           I == Elements(incoming_queue_)
           F == Elements(deferred_non_nestable_work_queue_)
           sw == started \o work_queue_
           swi == sw \o incoming_queue_
           all == swi \o deferred_non_nestable_work_queue_
<1>1. Once(started) /\ Once(work_queue_) /\ Once(incoming_queue_)
      /\ Once(deferred_non_nestable_work_queue_)
  BY RisingOnce, QueueFacts DEF OrderInv
<1>2. ASSUME NEW P \in SUBSET Nat, NEW Q, Below(P, Q) PROVE \A t \in P : t \notin Q
  <2>1. \A t \in P : ~(t < t)
    OBVIOUS
  <2> QED
    BY <1>2, <2>1 DEF Below
<1>3. S \subseteq Nat /\ F \subseteq Nat /\ W \subseteq Nat
  BY QueueFacts
<1>4. /\ \A t \in S \cup F : t \notin W
      /\ \A t \in S \cup F : t \notin I
      /\ \A t \in W : t \notin I
      /\ \A t \in S : t \notin F
  <2>1. Below(S \cup F, W) /\ Below(S \cup F, I) /\ Below(W, I)
    BY DEF OrderInv, Popped, Below
  <2>2. S \cup F \in SUBSET Nat /\ W \in SUBSET Nat
    BY <1>3
  <2> HIDE DEF S, F, W, I
  <2>3. \A t \in S \cup F : t \notin W
    BY <1>2, <2>1, <2>2
  <2>4. \A t \in S \cup F : t \notin I
    BY <1>2, <2>1, <2>2
  <2>5. \A t \in W : t \notin I
    BY <1>2, <2>1, <2>2
  <2>6. \A t \in S : t \notin F
    BY DEF OrderInv, S, F
  <2> QED
    BY <2>3, <2>4, <2>5, <2>6
<1>5. sw \in Seq(Nat) /\ Once(sw) /\ Elements(sw) = S \cup W
  BY <1>1, <1>4, JoinFacts, QueueFacts
<1> HIDE DEF sw
<1>6. swi \in Seq(Nat) /\ Once(swi) /\ Elements(swi) = S \cup W \cup I
  BY <1>1, <1>4, <1>5, JoinFacts, QueueFacts
<1> HIDE DEF swi
<1>7. all \in Seq(Nat) /\ Once(all)
  BY <1>1, <1>4, <1>6, JoinFacts, QueueFacts
<1> HIDE DEF all
<1>8. IsInjective(all)
  BY <1>7 DEF Once, IsInjective
<1> QED
  BY <1>8 DEF all, swi, sw

LEMMA RightTyped == LoopTyped /\ OrderInv => LoopTypeOK
<1> SUFFICES ASSUME LoopTyped, OrderInv PROVE LoopTypeOK
  OBVIOUS
<1>1. \A p \in Poster : poster[p].at \in {"idle", "push", "signal"}
  BY CallFacts DEF LoopTyped
<1>2. tasks \in Seq([nestable : BOOLEAN, time : Nat]) /\ DOMAIN tasks = 1..Len(tasks)
  BY DEF LoopTyped, Task
<1>3. \A q : Indexes(q) => q \in Seq(DOMAIN tasks)
  <2> SUFFICES ASSUME NEW q \in Seq(Nat), Elements(q) \subseteq 1..Len(tasks)
               PROVE  q \in Seq(1..Len(tasks))
    BY <1>2 DEF Indexes
  <2>1. \A i \in 1..Len(q) : q[i] \in 1..Len(tasks)
    BY DEF Elements
  <2> QED
    BY <2>1
<1>4. {incoming_queue_, work_queue_, deferred_non_nestable_work_queue_, started}
        \subseteq Seq(DOMAIN tasks)
  BY <1>3 DEF LoopTyped
<1>5. run_loops \in Seq([at : {"work", "task", "delayed", "again", "idle", "wait"},
                         did_work : BOOLEAN,
                         from : {"none", "work", "delayed", "idle"},
                         task : Nat, quit_called_ : BOOLEAN,
                         quit_when_idle : BOOLEAN])
  BY DEF LoopTyped, RunLoop
<1>6. delayed_work_queue_ \subseteq DOMAIN tasks
  BY <1>2 DEF LoopTyped
<1>7. /\ loop \in {"up", "deleting", "gone"} /\ target \in BOOLEAN /\ ticks \in Nat
      /\ delayed_work_time_ \in Nat
      /\ {event_, keep_running_, nestable_tasks_allowed_} \subseteq BOOLEAN
  BY DEF LoopTyped
<1> QED
  BY <1>1, <1>2, <1>4, <1>5, <1>6, <1>7, OnePlace DEF LoopTypeOK

\* The inductive invariant, the order of the tasks included.
LoopInv == RunInv /\ OrderInv /\ KeptInv

LEMMA LoopInvInit == LoopInit => LoopInv
<1> SUFFICES ASSUME LoopInit PROVE LoopInv
  OBVIOUS
<1>1. /\ incoming_queue_ = <<>> /\ work_queue_ = <<>> /\ started = <<>>
      /\ deferred_non_nestable_work_queue_ = <<>> /\ delayed_work_queue_ = {}
      /\ tasks = <<>> /\ loop = "up"
  BY DEF LoopInit
<1>2. OrderInv
  BY <1>1, NoIndex DEF OrderInv, Popped, Below
<1>3. Len(tasks) = 0
  BY <1>1
<1>4. KeptInv
  BY <1>1, <1>3 DEF KeptInv
<1> QED
  BY <1>2, <1>4, LoopTypedInit DEF LoopInv, RunInv

LEMMA LoopInvStep == LoopInv /\ [LoopNext]_loopVars => LoopInv'
  BY RunStep, OrderStep, KeptStep DEF LoopInv, RunInv

LEMMA LoopInvRight == LoopInv => StartsRight
<1> SUFFICES ASSUME LoopInv PROVE StartsRight
  OBVIOUS
<1>1. LoopTyped /\ TasksInv /\ OrderInv /\ KeptInv
  BY DEF LoopInv, RunInv
<1>2. NonNestableAlone
  <2>1. DOMAIN run_loops = 1..Len(run_loops)
    BY <1>1 DEF LoopTyped
  <2> QED
    BY <1>1, <2>1 DEF NonNestableAlone, TasksInv
<1>3. StartInOrder
  <2>1. DOMAIN tasks = 1..Len(tasks) /\ DOMAIN started = 1..Len(started)
    BY <1>1 DEF LoopTyped, Indexes
  <2>2. \A t : HasStarted(t) <=> t \in Elements(started)
    BY <2>1 DEF HasStarted, Range, Elements
  <2>3. InOrder
    BY <1>1, PoppedInOrder
  <2> QED
    BY <2>1, <2>2, <2>3 DEF StartInOrder, InOrder
<1> QED
  BY <1>1, <1>2, <1>3, RightTyped DEF StartsRight

\* A task is in one queue at a time, starts once and in the order of the posts and
\* of the delays, and one that is not nestable runs in the outermost run loop only,
\* whichever loops nested and however posts raced with the end of the loop
\* (sequenced_task_runner.h:28-41, message_loop.cc:487-740).
THEOREM StartsAreRight == LoopSpec => []StartsRight
  BY LoopInvInit, LoopInvStep, LoopInvRight, PTL DEF LoopSpec

-----------------------------------------------------------------------------
(* Timer.                                                                    *)

USE TimerAssumption

Time == {t \in Int : t >= Past}

TimerRecord ==
  [alive : BOOLEAN, is_running_ : BOOLEAN, scheduled_task_ : 0..MaxTimerTasks,
   desired : Time, scheduled : Time, delay_ : Nat, user_task_ : BOOLEAN,
   is_repeating_ : BOOLEAN, retain_user_task_ : BOOLEAN]

RunnerTasks(links) ==
  /\ DOMAIN links \subseteq 1..MaxTimerTasks
  /\ links \in [DOMAIN links -> [due : Time, linked : BOOLEAN]]

TimerTyped ==
  /\ timer \in TimerRecord
  /\ RunnerTasks(timer_tasks)
  /\ promised \in Time \cup {Never}
  /\ early = FALSE
  /\ runner_alive \in BOOLEAN

\* The timer's own time is no earlier than the one it promised, and unless it was
\* reset to a later time than its task, neither is the task's.
NotTooSoon ==
  promised # Never =>
    /\ promised <= timer.desired
    /\ timer.desired <= timer.scheduled =>
         promised <= timer_tasks[timer.scheduled_task_].due

TimerInv == TimerTyped /\ TaskIsLinked /\ NotTooSoon

LEMMA DelayFacts ==
  /\ Nat \subseteq Time /\ Past \in Time /\ Never \notin Time /\ NoTask = 0
  /\ \A a \in Time : a \in Int /\ Sooner(a) \in Time /\ Sooner(a) # Never
  /\ \A a, b \in Time : a <= b => Sooner(a) <= Sooner(b)
  /\ \A a, b \in Time : a > b /\ Sooner(a) <= Sooner(b) => Sooner(a) = Past
  /\ \A a \in Time : Past <= a
BY DEF Time, Past, Never, Sooner, NoTask

LEMMA TimerInitInv == TimerInit => TimerInv
<1> SUFFICES ASSUME TimerInit PROVE TimerInv
  OBVIOUS
<1>1. timer \in TimerRecord /\ timer.scheduled_task_ = NoTask /\ timer.is_running_ = FALSE
  <2>1. /\ {TRUE} \subseteq BOOLEAN /\ {FALSE} \subseteq BOOLEAN
        /\ {NoTask} \subseteq 0..MaxTimerTasks /\ {Past} \subseteq Time /\ {0} \subseteq Nat
    BY DelayFacts
  <2> QED
    BY <2>1 DEF TimerInit, TimerRecord
<1>2. timer_tasks = [i \in {} |-> 0] /\ DOMAIN timer_tasks = {}
  BY DEF TimerInit
<1>3. RunnerTasks(timer_tasks)
  BY <1>2 DEF RunnerTasks
<1>4. TimerTyped
  BY <1>1, <1>3 DEF TimerInit, TimerTyped
<1>5. TaskIsLinked /\ NotTooSoon
  BY <1>1, <1>2 DEF TimerInit, TaskIsLinked, NotTooSoon, InRunner
<1> QED
  BY <1>4, <1>5 DEF TimerInv

\* PostNewScheduledTask, when no other task points to the timer.
LEMMA PostKeeps ==
  ASSUME NEW tm \in TimerRecord, tm.alive,
         NEW links, RunnerTasks(links), \A k \in DOMAIN links : ~links[k].linked,
         NEW i \in 1..MaxTimerTasks, i \notin DOMAIN links,
         NEW delay \in Nat, NEW late \in {0, 1},
         timer' = Posted(tm, i, delay, late),
         timer_tasks' = WithTask(links, i, delay),
         promised' \in Time, promised' <= delay,
         early' = FALSE, runner_alive' \in BOOLEAN
  PROVE  TimerInv'
<1>1. /\ delay \in Time /\ delay + late \in Time /\ i \in 0..MaxTimerTasks /\ i # 0
      /\ promised' \in Int
  BY DEF Time, Past
<1>2. /\ timer' \in TimerRecord
      /\ timer'.is_running_ = TRUE /\ timer'.alive = tm.alive
      /\ timer'.scheduled_task_ = i
      /\ timer'.desired = delay + late /\ timer'.scheduled = delay + late
  BY <1>1 DEF Posted, TimerRecord
<1>3. /\ DOMAIN timer_tasks' = DOMAIN links \cup {i}
      /\ timer_tasks'[i] = [due |-> delay, linked |-> TRUE]
      /\ \A k \in DOMAIN links : timer_tasks'[k] = links[k]
      /\ timer_tasks' = [j \in DOMAIN timer_tasks' |-> timer_tasks'[j]]
  BY DEF WithTask
<1>4. RunnerTasks(timer_tasks')
  <2>1. [due |-> delay, linked |-> TRUE] \in [due : Time, linked : BOOLEAN]
    BY <1>1
  <2>2. \A k \in DOMAIN links : links[k] \in [due : Time, linked : BOOLEAN]
    BY DEF RunnerTasks
  <2>3. \A k \in DOMAIN timer_tasks' : timer_tasks'[k] \in [due : Time, linked : BOOLEAN]
    BY <1>3, <2>1, <2>2
  <2> QED
    BY <1>3, <2>3 DEF RunnerTasks
<1>5. {k \in DOMAIN timer_tasks' : timer_tasks'[k].linked} = {i}
  BY <1>3
<1>6. TaskIsLinked'
  BY <1>1, <1>2, <1>5, DelayFacts DEF TaskIsLinked, InRunner
<1>7. promised' <= timer'.desired /\ promised' <= timer_tasks'[i].due
  BY <1>1, <1>2, <1>3
<1>8. NotTooSoon'
  BY <1>2, <1>7 DEF NotTooSoon
<1>9. TimerTyped'
  BY <1>2, <1>4 DEF TimerTyped
<1> QED
  BY <1>6, <1>8, <1>9 DEF TimerInv

LEMMA AbandonedFacts ==
  ASSUME NEW links, RunnerTasks(links), NEW i
  PROVE  /\ RunnerTasks(Abandoned(links, i)) /\ DOMAIN Abandoned(links, i) = DOMAIN links
         /\ \A k \in DOMAIN links :
              Abandoned(links, i)[k].linked <=> links[k].linked /\ k # i
BY DEF Abandoned, RunnerTasks

LEMMA WithoutFacts ==
  ASSUME NEW links, RunnerTasks(links), NEW i
  PROVE  /\ RunnerTasks(Without(links, i)) /\ DOMAIN Without(links, i) = DOMAIN links \ {i}
         /\ \A k \in DOMAIN links \ {i} : Without(links, i)[k] = links[k]
BY DEF Without, RunnerTasks

\* At most the scheduled task is linked.
LEMMA OnlyScheduled ==
  ASSUME TimerInv, NEW i \in InRunner
  PROVE  timer_tasks[i].linked <=> timer.scheduled_task_ # NoTask /\ i = timer.scheduled_task_
BY DelayFacts DEF TimerInv, TaskIsLinked, TimerTyped, RunnerTasks, InRunner

LEMMA ResetKeeps ==
  ASSUME TimerInv, NEW tm \in TimerRecord, tm.alive, timer.alive,
         tm.scheduled_task_ = timer.scheduled_task_, tm.scheduled = timer.scheduled,
         ResetTimer(tm), promised' = tm.delay_, UNCHANGED <<runner_alive, early>>
  PROVE  TimerInv'
<1>1. /\ tm.delay_ \in Nat /\ promised' \in Time /\ promised' \in Int /\ promised' # Never
      /\ early' = FALSE /\ runner_alive' \in BOOLEAN /\ promised' <= tm.delay_
  BY DelayFacts DEF TimerRecord, TimerInv, TimerTyped
<1>2. CASE tm.scheduled_task_ # NoTask /\ tm.delay_ > tm.scheduled
  <2>1. /\ timer' = [tm EXCEPT !.desired = tm.delay_, !.is_running_ = TRUE]
        /\ UNCHANGED timer_tasks
    BY <1>2 DEF ResetTimer
  <2>2. /\ timer' \in TimerRecord
        /\ timer'.desired = tm.delay_ /\ timer'.is_running_ = TRUE
        /\ timer'.scheduled = tm.scheduled /\ timer'.alive = tm.alive
        /\ timer'.scheduled_task_ = tm.scheduled_task_
    BY <1>1, <2>1, DelayFacts DEF TimerRecord
  <2>3. TimerTyped'
    BY <1>1, <2>1, <2>2 DEF TimerInv, TimerTyped
  <2>4. TaskIsLinked'
    BY <1>1, <1>2, <2>1, <2>2 DEF TimerInv, TaskIsLinked, InRunner
  <2>5. ~(timer'.desired <= timer'.scheduled) /\ promised' <= timer'.desired
    BY <1>1, <1>2, <2>2, DelayFacts DEF TimerRecord
  <2>6. NotTooSoon'
    BY <2>5 DEF NotTooSoon
  <2> QED
    BY <2>3, <2>4, <2>6 DEF TimerInv
<1>3. ASSUME NEW i \in 1..MaxTimerTasks \ InRunner, NEW late \in {0, 1},
             timer' = Posted(tm, i, tm.delay_, late),
             timer_tasks' = WithTask(Abandoned(timer_tasks, tm.scheduled_task_), i, tm.delay_)
      PROVE  TimerInv'
  <2> DEFINE links == Abandoned(timer_tasks, tm.scheduled_task_)
  <2>1. RunnerTasks(links) /\ DOMAIN links = InRunner
    BY AbandonedFacts DEF TimerInv, TimerTyped, InRunner
  <2>2. \A k \in DOMAIN links : ~links[k].linked
    BY <2>1, AbandonedFacts, OnlyScheduled DEF TimerInv, TimerTyped, InRunner
  <2> HIDE DEF links
  <2>3. timer_tasks' = WithTask(links, i, tm.delay_)
    BY <1>3 DEF links
  <2> QED
    BY <1>1, <1>3, <2>1, <2>2, <2>3, PostKeeps
<1> QED
  BY <1>2, <1>3 DEF ResetTimer

\* A timer that is stopped, or whose task and timer forget each other.
LEMMA StopKeeps ==
  ASSUME TimerInv, timer' \in TimerRecord, RunnerTasks(timer_tasks'),
         ~timer'.is_running_, promised' = Never,
         UNCHANGED early, runner_alive' \in BOOLEAN,
         {k \in DOMAIN timer_tasks' : timer_tasks'[k].linked} =
           {timer'.scheduled_task_} \ {NoTask}
  PROVE  TimerInv'
<1>1. TimerTyped'
  BY DEF TimerInv, TimerTyped
<1>2. TaskIsLinked'
  BY <1>1 DEF TaskIsLinked, InRunner, TimerTyped
<1> QED
  BY <1>1, <1>2 DEF TimerInv, NotTooSoon

LEMMA StoppedFacts ==
  ASSUME NEW tm \in TimerRecord
  PROVE  /\ Stopped(tm) \in TimerRecord /\ ~Stopped(tm).is_running_
         /\ Stopped(tm).scheduled_task_ = tm.scheduled_task_
         /\ Stopped(tm).alive = tm.alive
         /\ [tm EXCEPT !.scheduled_task_ = NoTask] \in TimerRecord
         /\ \A a \in BOOLEAN :
              LET gone == [Stopped(tm) EXCEPT !.alive = a, !.scheduled_task_ = NoTask]
              IN  /\ gone \in TimerRecord /\ ~gone.is_running_
                  /\ gone.scheduled_task_ = NoTask
<1> DEFINE kept == tm.user_task_ /\ tm.retain_user_task_
<1>1. Stopped(tm) = [tm EXCEPT !.is_running_ = FALSE, !.user_task_ = kept]
  BY DEF Stopped
<1>2. kept \in BOOLEAN /\ NoTask \in 0..MaxTimerTasks
  BY DelayFacts
<1> HIDE DEF kept
<1>3. /\ Stopped(tm) \in TimerRecord /\ ~Stopped(tm).is_running_
      /\ Stopped(tm).scheduled_task_ = tm.scheduled_task_
      /\ Stopped(tm).alive = tm.alive
  BY <1>1, <1>2 DEF TimerRecord
<1>4. \A r \in TimerRecord, a \in BOOLEAN :
        LET gone == [r EXCEPT !.alive = a, !.scheduled_task_ = NoTask]
        IN  /\ gone \in TimerRecord /\ gone.is_running_ = r.is_running_
            /\ gone.scheduled_task_ = NoTask
  BY <1>2 DEF TimerRecord
<1>5. [tm EXCEPT !.scheduled_task_ = NoTask] \in TimerRecord
  BY <1>2 DEF TimerRecord
<1> QED
  BY <1>3, <1>4, <1>5

LEMMA TimerRunsKeeps ==
  ASSUME TimerInv, NEW i \in 1..MaxTimerTasks, RunTimerTask(i)
  PROVE  TimerInv'
<1>1. /\ i \in InRunner /\ timer_tasks[i].due <= 0 /\ runner_alive' \in BOOLEAN
      /\ timer \in TimerRecord /\ RunnerTasks(timer_tasks) /\ early = FALSE
      /\ timer_tasks[i].due \in Time
  BY DEF RunTimerTask, TimerInv, TimerTyped, RunnerTasks, InRunner
<1> DEFINE links == Without(timer_tasks, i)
<1>2. /\ RunnerTasks(links) /\ DOMAIN links = InRunner \ {i}
      /\ \A k \in DOMAIN links : links[k] = timer_tasks[k]
  BY <1>1, WithoutFacts DEF InRunner
<1>3. CASE timer_tasks[i].linked /\ timer.is_running_
  <2>1. /\ i = timer.scheduled_task_ /\ timer.alive /\ promised # Never
        /\ promised \in Time
    BY <1>1, <1>3, OnlyScheduled DEF TimerInv, TaskIsLinked, TimerTyped
  <2>2. \A k \in DOMAIN links : ~links[k].linked
    BY <1>2, <2>1, OnlyScheduled
  <2>3. /\ promised <= timer.desired /\ timer.desired \in Time
        /\ timer.scheduled \in Time /\ timer.delay_ \in Nat /\ promised \in Int
        /\ timer.desired <= timer.scheduled => promised <= timer_tasks[i].due
    BY <1>1, <2>1, DelayFacts DEF TimerInv, NotTooSoon, TimerRecord
  <2> HIDE DEF links
  <2>4. CASE timer.desired > timer.scheduled /\ timer.desired > 0
    <3>1. PostContinuation(i)
      BY <1>3, <2>4 DEF RunTimerTask, RunScheduledTask
    <3>2. PICK j \in 1..MaxTimerTasks \ InRunner, late \in {0, 1} :
            /\ timer' = Posted(timer, j, timer.desired, late)
            /\ timer_tasks' = WithTask(links, j, timer.desired)
            /\ UNCHANGED <<promised, early>>
      BY <3>1 DEF PostContinuation, links
    <3>3. timer.desired \in Nat /\ j \notin DOMAIN links
      BY <1>2, <2>3, <2>4, DelayFacts
    <3> QED
      BY <1>1, <1>2, <2>1, <2>2, <2>3, <3>2, <3>3, PostKeeps
  <2>5. CASE ~(timer.desired > timer.scheduled /\ timer.desired > 0)
    <3>1. RunUserTask(i)
      BY <1>3, <2>5 DEF RunTimerTask, RunScheduledTask
    <3>2. promised <= 0
      <4>1. timer.desired \in Int /\ timer.scheduled \in Int
        BY <2>3, DelayFacts
      <4>2. timer.desired > 0 => timer.desired <= timer.scheduled
        BY <2>3, <2>5, <4>1
      <4>3. timer.desired > 0 => promised <= timer_tasks[i].due
        BY <2>3, <4>2
      <4>4. timer_tasks[i].due <= 0 /\ timer_tasks[i].due \in Int
        BY <1>1, DelayFacts
      <4>5. timer.desired <= 0 => promised <= 0
        BY <2>3, <4>1
      <4> QED
        BY <2>3, <4>1, <4>3, <4>4, <4>5
    <3>3. ~(promised > 0 \/ promised = Never)
      BY <2>1, <2>3, <3>2
    <3>4. early' = FALSE
      BY <1>1, <3>1, <3>3 DEF RunUserTask
    <3>5. CASE timer.is_repeating_
      <4>1. PICK j \in 1..MaxTimerTasks \ InRunner, late \in {0, 1} :
              /\ timer' = Posted(timer, j, timer.delay_, late)
              /\ timer_tasks' = WithTask(links, j, timer.delay_)
              /\ promised' = timer.delay_
        BY <3>1, <3>5 DEF RunUserTask, links
      <4>2. j \notin DOMAIN links /\ promised' \in Time /\ promised' <= timer.delay_
        BY <1>2, <2>3, <4>1, DelayFacts
      <4> QED
        BY <1>1, <1>2, <2>1, <2>2, <2>3, <3>4, <4>1, <4>2, PostKeeps
    <3>6. CASE ~timer.is_repeating_
      <4>1. /\ timer' = Stopped([timer EXCEPT !.scheduled_task_ = NoTask])
            /\ timer_tasks' = links /\ promised' = Never
        BY <3>1, <3>6 DEF RunUserTask, links
      <4>2. /\ timer' \in TimerRecord /\ ~timer'.is_running_
            /\ timer'.scheduled_task_ = NoTask
        <5>1. /\ [timer EXCEPT !.scheduled_task_ = NoTask] \in TimerRecord
              /\ [timer EXCEPT !.scheduled_task_ = NoTask].scheduled_task_ = NoTask
          BY <1>1, StoppedFacts DEF TimerRecord
        <5> QED
          BY <4>1, <5>1, StoppedFacts
      <4>3. {k \in DOMAIN timer_tasks' : timer_tasks'[k].linked} =
              {timer'.scheduled_task_} \ {NoTask}
        BY <2>2, <4>1, <4>2
      <4> QED
        BY <1>1, <1>2, <3>4, <4>1, <4>2, <4>3, StopKeeps
    <3> QED
      BY <3>5, <3>6
  <2> QED
    BY <2>4, <2>5
<1>4. CASE ~(timer_tasks[i].linked /\ timer.is_running_)
  <2>1. /\ timer_tasks' = links
        /\ timer' = IF timer_tasks[i].linked
                    THEN [timer EXCEPT !.scheduled_task_ = NoTask] ELSE timer
        /\ UNCHANGED <<promised, early>>
    BY <1>4 DEF RunTimerTask
  <2> HIDE DEF links
  <2>2. CASE timer_tasks[i].linked
    <3>1. ~timer.is_running_ /\ i = timer.scheduled_task_
      BY <1>1, <1>4, <2>2, OnlyScheduled
    <3>2. promised = Never
      BY <3>1 DEF TimerInv, TaskIsLinked
    <3>3. /\ timer' \in TimerRecord /\ ~timer'.is_running_
          /\ timer'.scheduled_task_ = NoTask
      BY <1>1, <2>1, <2>2, <3>1, StoppedFacts DEF TimerRecord
    <3>4. \A k \in DOMAIN links : ~links[k].linked
      BY <1>2, <3>1, OnlyScheduled
    <3>5. {k \in DOMAIN timer_tasks' : timer_tasks'[k].linked} =
            {timer'.scheduled_task_} \ {NoTask}
      BY <2>1, <3>3, <3>4
    <3> QED
      BY <1>1, <1>2, <2>1, <3>2, <3>3, <3>5, StopKeeps
  <2>3. CASE ~timer_tasks[i].linked
    <3>1. timer' = timer
      BY <2>1, <2>3
    <3>2. {k \in DOMAIN links : links[k].linked} = {k \in InRunner : timer_tasks[k].linked}
      BY <1>2, <2>3
    <3>3. TaskIsLinked'
      BY <2>1, <3>1, <3>2 DEF TimerInv, TaskIsLinked, InRunner
    <3>4. TimerTyped'
      BY <1>1, <1>2, <2>1, <3>1 DEF TimerInv, TimerTyped
    <3>5. NotTooSoon'
      <4>1. promised # Never => timer.scheduled_task_ \in InRunner /\ timer.scheduled_task_ # i
        BY <1>1, <2>3 DEF TimerInv, TaskIsLinked
      <4>2. promised # Never =>
              timer_tasks'[timer.scheduled_task_] = timer_tasks[timer.scheduled_task_]
        BY <1>2, <2>1, <4>1
      <4> QED
        BY <2>1, <3>1, <4>2 DEF TimerInv, NotTooSoon
    <3> QED
      BY <3>3, <3>4, <3>5 DEF TimerInv
  <2> QED
    BY <2>2, <2>3
<1> QED
  BY <1>3, <1>4

LEMMA TickKeeps ==
  ASSUME TimerInv, TimerTick
  PROVE  TimerInv'
<1>1. /\ timer \in TimerRecord /\ RunnerTasks(timer_tasks)
      /\ promised \in Time \cup {Never}
  BY DEF TimerInv, TimerTyped
<1>2. /\ timer' = [timer EXCEPT !.desired = Sooner(@), !.scheduled = Sooner(@)]
      /\ timer_tasks' = [i \in InRunner |-> [timer_tasks[i] EXCEPT !.due = Sooner(@)]]
      /\ promised' = IF promised = Never THEN Never ELSE Sooner(promised)
      /\ UNCHANGED <<runner_alive, early>>
  BY DEF TimerTick
<1>3. /\ timer.desired \in Time /\ timer.scheduled \in Time
      /\ Sooner(timer.desired) \in Time /\ Sooner(timer.scheduled) \in Time
  BY <1>1, DelayFacts DEF TimerRecord
<1>4. /\ timer' \in TimerRecord
      /\ timer'.desired = Sooner(timer.desired)
      /\ timer'.scheduled = Sooner(timer.scheduled)
      /\ timer'.scheduled_task_ = timer.scheduled_task_
      /\ timer'.is_running_ = timer.is_running_ /\ timer'.alive = timer.alive
  BY <1>1, <1>2, <1>3 DEF TimerRecord
<1>5. ASSUME NEW i \in InRunner
      PROVE  /\ timer_tasks'[i] \in [due : Time, linked : BOOLEAN]
             /\ timer_tasks'[i].due = Sooner(timer_tasks[i].due)
             /\ timer_tasks'[i].linked = timer_tasks[i].linked
             /\ timer_tasks[i].due \in Time
  <2>1. timer_tasks[i] \in [due : Time, linked : BOOLEAN]
    BY <1>1 DEF RunnerTasks, InRunner
  <2>2. timer_tasks[i].due \in Time /\ Sooner(timer_tasks[i].due) \in Time
    BY <2>1, DelayFacts
  <2> QED
    BY <1>2, <2>1, <2>2
<1>6. DOMAIN timer_tasks' = InRunner /\ RunnerTasks(timer_tasks')
  <2>1. DOMAIN timer_tasks' = InRunner
    BY <1>2
  <2>2. timer_tasks' \in [InRunner -> [due : Time, linked : BOOLEAN]]
    <3>1. timer_tasks' = [i \in InRunner |-> timer_tasks'[i]]
      BY <1>2
    <3> QED
      BY <1>5, <3>1
  <2> QED
    BY <1>1, <2>1, <2>2 DEF RunnerTasks, InRunner
<1>7. promised' \in Time \cup {Never} /\ (promised' = Never <=> promised = Never)
  BY <1>1, <1>2, DelayFacts
<1>8. TimerTyped'
  BY <1>2, <1>4, <1>6, <1>7 DEF TimerInv, TimerTyped
<1>9. TaskIsLinked'
  <2>1. {i \in DOMAIN timer_tasks' : timer_tasks'[i].linked}
          = {i \in InRunner : timer_tasks[i].linked}
    BY <1>5, <1>6
  <2> QED
    BY <1>4, <1>7, <2>1 DEF TimerInv, TaskIsLinked, InRunner
<1>10. NotTooSoon'
  <2> SUFFICES ASSUME promised' # Never
               PROVE  /\ promised' <= timer'.desired
                      /\ timer'.desired <= timer'.scheduled =>
                           promised' <= timer_tasks'[timer'.scheduled_task_].due
    BY DEF NotTooSoon
  <2>1. promised # Never /\ promised \in Time /\ promised' = Sooner(promised)
    BY <1>1, <1>2
  <2>2. timer.scheduled_task_ \in InRunner
    BY <2>1 DEF TimerInv, TaskIsLinked
  <2> DEFINE due == timer_tasks[timer.scheduled_task_].due
  <2>3. due \in Time /\ timer_tasks'[timer'.scheduled_task_].due = Sooner(due)
    BY <1>4, <1>5, <2>2
  <2>4. /\ promised <= timer.desired
        /\ timer.desired <= timer.scheduled => promised <= due
    BY <2>1 DEF TimerInv, NotTooSoon
  <2> HIDE DEF due
  <2>5. Sooner(promised) <= Sooner(timer.desired)
    BY <1>3, <2>1, <2>4, DelayFacts
  <2>6. ASSUME Sooner(timer.desired) <= Sooner(timer.scheduled)
        PROVE  Sooner(promised) <= Sooner(due)
    <3>1. CASE timer.desired <= timer.scheduled
      BY <2>1, <2>3, <2>4, <3>1, DelayFacts
    <3>2. CASE timer.desired > timer.scheduled
      <4>1. Sooner(timer.desired) = Past
        BY <1>3, <2>6, <3>2, DelayFacts
      <4>2. Sooner(promised) <= Past /\ Past <= Sooner(due)
        BY <2>3, <2>5, <4>1, DelayFacts
      <4> QED
        BY <2>1, <2>3, <4>2, DelayFacts
    <3> QED
      BY <1>3, <3>1, <3>2, DelayFacts
  <2> QED
    BY <1>4, <2>1, <2>3, <2>5, <2>6
<1> QED
  BY <1>8, <1>9, <1>10 DEF TimerInv

LEMMA TimerStep == TimerInv /\ [TimerNext]_timerVars => TimerInv'
<1> SUFFICES ASSUME TimerInv, [TimerNext]_timerVars
             PROVE  TimerInv'
  OBVIOUS
<1>0. /\ timer \in TimerRecord /\ RunnerTasks(timer_tasks) /\ runner_alive \in BOOLEAN
      /\ early = FALSE
      /\ {i \in InRunner : timer_tasks[i].linked} = {timer.scheduled_task_} \ {NoTask}
  BY DEF TimerInv, TimerTyped, TaskIsLinked
<1>1. ASSUME NEW delay \in Delay, Start(delay)
      PROVE  TimerInv'
  <2> DEFINE tm == [timer EXCEPT !.delay_ = delay, !.user_task_ = TRUE]
  <2>1. /\ tm \in TimerRecord /\ tm.alive = timer.alive /\ tm.delay_ = delay
        /\ tm.scheduled_task_ = timer.scheduled_task_ /\ tm.scheduled = timer.scheduled
    BY <1>0 DEF TimerRecord
  <2>2. /\ timer.alive /\ ResetTimer(tm) /\ promised' = delay
        /\ UNCHANGED <<runner_alive, early>>
    BY <1>1 DEF Start
  <2> HIDE DEF tm
  <2> QED
    BY <2>1, <2>2, ResetKeeps
<1>2. CASE Reset
  BY <1>0, <1>2, ResetKeeps DEF Reset
<1>3. CASE Stop
  BY <1>0, <1>3, StoppedFacts, StopKeeps DEF Stop, InRunner
<1>4. CASE DeleteTimer
  <2>1. /\ timer' = [Stopped(timer) EXCEPT !.alive = FALSE, !.scheduled_task_ = NoTask]
        /\ promised' = Never
        /\ timer_tasks' = Abandoned(timer_tasks, timer.scheduled_task_)
        /\ UNCHANGED <<runner_alive, early>>
    BY <1>4 DEF DeleteTimer, StopAndAbandon
  <2>2. /\ timer' \in TimerRecord /\ ~timer'.is_running_
        /\ timer'.scheduled_task_ = NoTask
    BY <1>0, <2>1, StoppedFacts
  <2>3. /\ RunnerTasks(timer_tasks') /\ DOMAIN timer_tasks' = InRunner
        /\ \A k \in InRunner : timer_tasks'[k].linked <=>
             timer_tasks[k].linked /\ k # timer.scheduled_task_
    BY <1>0, <2>1, AbandonedFacts DEF InRunner
  <2>4. {k \in DOMAIN timer_tasks' : timer_tasks'[k].linked} =
          {timer'.scheduled_task_} \ {NoTask}
    BY <2>2, <2>3, OnlyScheduled
  <2> QED
    BY <1>0, <2>1, <2>2, <2>3, <2>4, StopKeeps
<1>5. ASSUME NEW i \in 1..MaxTimerTasks, RunTimerTask(i)
      PROVE  TimerInv'
  BY <1>5, TimerRunsKeeps
<1>6. CASE DestroyRunner
  <2>1. /\ timer_tasks' = [i \in {} |-> 0] /\ DOMAIN timer_tasks' = {}
        /\ runner_alive' = FALSE /\ UNCHANGED early
    BY <1>6 DEF DestroyRunner
  <2>2. RunnerTasks(timer_tasks')
    BY <2>1 DEF RunnerTasks
  <2>3. CASE \E i \in InRunner : timer_tasks[i].linked
    <3>1. /\ timer' = [Stopped(timer) EXCEPT !.alive = timer.alive,
                                             !.scheduled_task_ = NoTask]
          /\ promised' = Never
      BY <1>6, <2>3 DEF DestroyRunner, StopAndAbandon
    <3>2. timer.alive \in BOOLEAN
      BY <1>0 DEF TimerRecord
    <3>3. /\ timer' \in TimerRecord /\ ~timer'.is_running_
          /\ timer'.scheduled_task_ = NoTask
      BY <1>0, <3>1, <3>2, StoppedFacts
    <3>4. {k \in DOMAIN timer_tasks' : timer_tasks'[k].linked} =
            {timer'.scheduled_task_} \ {NoTask}
      BY <2>1, <3>3
    <3> QED
      BY <2>1, <2>2, <3>1, <3>3, <3>4, StopKeeps
  <2>4. CASE ~\E i \in InRunner : timer_tasks[i].linked
    <3>1. UNCHANGED <<timer, promised>>
      BY <1>6, <2>4 DEF DestroyRunner
    <3>2. timer.scheduled_task_ = NoTask
      BY <1>0, <2>4
    <3>3. ~timer.is_running_ /\ promised = Never
      BY <3>2 DEF TimerInv, TaskIsLinked
    <3>4. {k \in DOMAIN timer_tasks' : timer_tasks'[k].linked} =
            {timer'.scheduled_task_} \ {NoTask}
      BY <2>1, <3>1, <3>2
    <3> QED
      BY <1>0, <2>1, <2>2, <3>1, <3>3, <3>4, StopKeeps
  <2> QED
    BY <2>3, <2>4
<1>7. CASE TimerTick
  BY <1>7, TickKeeps
<1>8. CASE UNCHANGED timerVars
  BY <1>8 DEF timerVars, TimerInv, TimerTyped, TaskIsLinked, NotTooSoon, InRunner
<1> QED
  BY <1>1, <1>2, <1>3, <1>4, <1>5, <1>6, <1>7, <1>8 DEF TimerNext

\* The user's task runs neither before the time promised by the last Start, Reset or
\* run, nor after Stop or the end of the timer, although tasks posted for earlier
\* times are used again; and exactly the scheduled task points to the timer: for
\* every delay and number of tasks (timer.cc:88-192).
THEOREM TimerIsSafe == TimerSpec => []TimerSafe
<1>1. TimerInv => TimerSafe
  BY DEF TimerInv, TimerTyped, TimerSafe
<1> QED
  BY <1>1, TimerInitInv, TimerStep, PTL DEF TimerSpec

-----------------------------------------------------------------------------
(* BaseThread.                                                               *)

ThreadTyped ==
  /\ thread \in [started_ : BOOLEAN, stopping_ : BOOLEAN, running_ : BOOLEAN,
                 message_loop_ : BOOLEAN]
  /\ startup_event \in BOOLEAN
  /\ owner \in {"idle", "starting", "joining"}
  /\ main \in {"none", "created", "init", "run", "cleanup", "leave", "exited"}
  /\ loop_tasks \in Seq(Nat)
  /\ thread_posted \in Nat
  /\ thread_ran \in Seq(Nat)

\* What the owner is doing says where the new thread may be.
PhaseInv ==
  /\ thread.message_loop_ <=> main \in {"init", "run", "cleanup"}
  /\ startup_event <=> owner = "starting" /\ main = "run"
  /\ owner = "starting" =>
       /\ ~thread.started_ /\ ~thread.stopping_
       /\ main \in {"created", "init", "run"}
  /\ owner = "joining" => thread.started_ /\ thread.stopping_
  /\ thread.started_ => owner # "starting"
  /\ thread.stopping_ => thread.started_
  /\ thread.started_ /\ ~thread.stopping_ => main = "run"
  /\ thread.started_ => main \in {"run", "cleanup", "leave", "exited"}
  /\ ~thread.started_ /\ owner = "idle" => main \in {"none", "exited"}

\* A loop that was told to quit has ThreadQuitHelper, and nothing after it.
QuitPosted == main = "run" /\ thread.stopping_

\* The tasks of this life ran or are queued, in order, and the end comes last.
TasksInTurn ==
  /\ \A i \in 1..Len(thread_ran) : thread_ran[i] = i
  /\ QuitPosted =>
       /\ Len(loop_tasks) = thread_posted - Len(thread_ran) + 1
       /\ loop_tasks[Len(loop_tasks)] = ThreadQuitHelper
  /\ ~QuitPosted => Len(loop_tasks) = thread_posted - Len(thread_ran)
  /\ \A i \in 1..Len(loop_tasks) :
       (QuitPosted => i # Len(loop_tasks)) => loop_tasks[i] = Len(thread_ran) + i
  /\ main # "run" => loop_tasks = <<>>

ThreadInv == ThreadTyped /\ PhaseInv /\ TasksInTurn

LEMMA ThreadInitInv == ThreadInit => ThreadInv
<1> SUFFICES ASSUME ThreadInit PROVE ThreadInv
  OBVIOUS
<1>1. ThreadTyped
  <2>1. <<>> \in Seq(Nat)
    OBVIOUS
  <2>2. thread \in [started_ : BOOLEAN, stopping_ : BOOLEAN, running_ : BOOLEAN,
                    message_loop_ : BOOLEAN]
    BY DEF ThreadInit
  <2> QED
    BY <2>1, <2>2 DEF ThreadInit, ThreadTyped
<1>2. PhaseInv
  BY DEF ThreadInit, PhaseInv
<1>3. ~QuitPosted /\ Len(loop_tasks) = 0 /\ Len(thread_ran) = 0 /\ thread_posted = 0
  BY DEF ThreadInit, QuitPosted
<1>4. TasksInTurn
  <2>1. loop_tasks = <<>> /\ 0 - 0 = 0 /\ \A i \in 1..0 : FALSE
    BY DEF ThreadInit
  <2> QED
    BY <1>3, <2>1 DEF TasksInTurn
<1> QED
  BY <1>1, <1>2, <1>4 DEF ThreadInv

LEMMA PostQuitKeeps ==
  ASSUME ThreadInv, owner = "idle", PostQuit,
         UNCHANGED <<startup_event, main, thread_posted, thread_ran>>,
         owner' = "idle" \/ (owner' = "joining" /\ thread.started_)
  PROVE  ThreadInv'
<1>1. CASE thread.stopping_ \/ ~thread.message_loop_
  <2>1. UNCHANGED <<thread, loop_tasks>>
    BY <1>1 DEF PostQuit
  <2> QED
    BY <1>1, <2>1 DEF ThreadInv, ThreadTyped, PhaseInv, TasksInTurn, QuitPosted
<1>2. CASE ~thread.stopping_ /\ thread.message_loop_
  <2>1. /\ thread' = [thread EXCEPT !.stopping_ = TRUE]
        /\ loop_tasks' = Append(loop_tasks, ThreadQuitHelper)
    BY <1>2 DEF PostQuit
  <2>2. thread.started_ /\ main = "run"
    BY <1>2 DEF ThreadInv, PhaseInv, ThreadTyped
  <2>3. ThreadTyped' /\ PhaseInv'
    <3>1. /\ thread'.stopping_ /\ thread'.started_ /\ thread'.message_loop_
          /\ thread' \in [started_ : BOOLEAN, stopping_ : BOOLEAN,
                          running_ : BOOLEAN, message_loop_ : BOOLEAN]
      BY <1>2, <2>1, <2>2 DEF ThreadInv, ThreadTyped
    <3>2. loop_tasks' \in Seq(Nat)
      BY <2>1 DEF ThreadInv, ThreadTyped, ThreadQuitHelper
    <3>3. ThreadTyped'
      BY <3>1, <3>2 DEF ThreadInv, ThreadTyped
    <3> QED
      BY <2>2, <3>1, <3>3 DEF ThreadInv, PhaseInv
  <2>4. ~QuitPosted /\ QuitPosted'
    BY <1>2, <2>1, <2>2 DEF QuitPosted, ThreadInv, ThreadTyped
  <2>5. TasksInTurn'
    BY <2>1, <2>2, <2>4 DEF ThreadInv, ThreadTyped, TasksInTurn
  <2> QED
    BY <2>3, <2>5 DEF ThreadInv
<1> QED
  BY <1>1, <1>2

LEMMA RunThreadTaskKeeps ==
  ASSUME ThreadInv, RunThreadTask
  PROVE  ThreadInv'
<1> DEFINE n == Len(loop_tasks)
<1>1. /\ main = "run" /\ n \in Nat /\ n > 0
      /\ Len(loop_tasks') = n - 1
      /\ \A i \in 1..n - 1 : loop_tasks'[i] = loop_tasks[i + 1]
      /\ Head(loop_tasks) = loop_tasks[1]
      /\ Head(loop_tasks) \in Nat /\ loop_tasks' \in Seq(Nat)
      /\ Len(thread_ran) \in Nat /\ thread_posted \in Nat
  BY DEF RunThreadTask, ThreadInv, ThreadTyped
<1>2. UNCHANGED <<thread, startup_event, owner, thread_posted>>
  BY DEF RunThreadTask
<1>a. /\ QuitPosted => n = thread_posted - Len(thread_ran) + 1 /\ loop_tasks[n] = 0
      /\ ~QuitPosted => n = thread_posted - Len(thread_ran)
      /\ \A i \in 1..n : (QuitPosted => i # n) => loop_tasks[i] = Len(thread_ran) + i
      /\ \A i \in 1..Len(thread_ran) : thread_ran[i] = i
  BY DEF ThreadInv, TasksInTurn, ThreadQuitHelper
<1> HIDE DEF n
<1>3. CASE Head(loop_tasks) = ThreadQuitHelper
  <2>1. main' = "cleanup" /\ UNCHANGED thread_ran
    BY <1>3 DEF RunThreadTask
  <2>2. QuitPosted /\ n = 1
    BY <1>1, <1>3, <1>a DEF ThreadQuitHelper
  <2>3. loop_tasks' = <<>> /\ ~QuitPosted'
    BY <1>1, <2>1, <2>2 DEF QuitPosted
  <2>4. TasksInTurn'
    <3>1. Len(thread_ran) = thread_posted
      BY <1>1, <2>2, <1>a
    <3>2. Len(loop_tasks') = 0
      BY <2>3
    <3> QED
      BY <1>1, <1>2, <2>1, <2>3, <3>1, <3>2, <1>a DEF TasksInTurn
  <2> QED
    BY <1>1, <1>2, <2>1, <2>2, <2>3, <2>4
    DEF ThreadInv, ThreadTyped, PhaseInv, QuitPosted
<1>4. CASE Head(loop_tasks) # ThreadQuitHelper
  <2>1. thread_ran' = Append(thread_ran, Head(loop_tasks)) /\ UNCHANGED main
    BY <1>4 DEF RunThreadTask
  <2>2. QuitPosted' = QuitPosted
    BY <1>2, <2>1 DEF QuitPosted
  <2>3. Head(loop_tasks) = Len(thread_ran) + 1
    <3>1. 1 \in 1..n /\ ~(QuitPosted /\ 1 = n)
      BY <1>1, <1>4, <1>a DEF ThreadQuitHelper
    <3> QED
      BY <1>1, <3>1, <1>a
  <2>4. QuitPosted => n > 1
    BY <1>1, <1>4, <1>a DEF ThreadQuitHelper
  <2>5. /\ Len(thread_ran') = Len(thread_ran) + 1
        /\ \A i \in 1..Len(thread_ran') : thread_ran'[i] = i
    <3>1. /\ Len(thread_ran') = Len(thread_ran) + 1
          /\ \A i \in 1..Len(thread_ran) : thread_ran'[i] = thread_ran[i]
          /\ thread_ran'[Len(thread_ran) + 1] = Len(thread_ran) + 1
      BY <1>1, <2>1, <2>3 DEF ThreadInv, ThreadTyped
    <3>2. ASSUME NEW i \in 1..Len(thread_ran')
          PROVE  thread_ran'[i] = i
      <4>1. CASE i = Len(thread_ran) + 1
        BY <3>1, <4>1
      <4>2. CASE i # Len(thread_ran) + 1
        <5>1. i \in 1..Len(thread_ran)
          BY <1>1, <3>1, <4>2
        <5> QED
          BY <1>a, <3>1, <5>1
      <4> QED
        BY <4>1, <4>2
    <3> QED
      BY <3>1, <3>2
  <2>6. TasksInTurn'
    <3>1. /\ QuitPosted => Len(loop_tasks') = thread_posted - Len(thread_ran') + 1
          /\ ~QuitPosted => Len(loop_tasks') = thread_posted - Len(thread_ran')
      BY <1>1, <1>2, <1>a, <2>5
    <3>2. QuitPosted => loop_tasks'[Len(loop_tasks')] = ThreadQuitHelper
      <4>1. QuitPosted => loop_tasks[n] = ThreadQuitHelper /\ n - 1 \in 1..n - 1
        BY <1>1, <2>4, <1>a DEF ThreadQuitHelper
      <4> QED
        BY <1>1, <4>1
    <3>4. ASSUME NEW i \in 1..Len(loop_tasks'), QuitPosted => i # Len(loop_tasks')
          PROVE  loop_tasks'[i] = Len(thread_ran') + i
      <4>1. i + 1 \in 1..n /\ i \in 1..n - 1 /\ (i # Len(loop_tasks') => i + 1 # n)
        BY <1>1
      <4>2. loop_tasks[i + 1] = Len(thread_ran) + (i + 1)
        BY <3>4, <4>1, <1>1, <1>a
      <4> QED
        BY <1>1, <2>5, <4>1, <4>2
    <3>3. main' = "run"
      BY <1>1, <2>1
    <3> QED
      BY <1>2, <2>2, <2>5, <3>1, <3>2, <3>3, <3>4 DEF TasksInTurn
  <2> QED
    BY <1>1, <1>2, <2>1, <2>6 DEF ThreadInv, ThreadTyped, PhaseInv
<1> QED
  BY <1>3, <1>4

LEMMA ThreadStep == ThreadInv /\ [ThreadNext]_threadVars => ThreadInv'
<1> SUFFICES ASSUME ThreadInv, [ThreadNext]_threadVars
             PROVE  ThreadInv'
  OBVIOUS
<1> USE DEF ThreadInv, ThreadTyped, PhaseInv, TasksInTurn, QuitPosted
<1>1. CASE StartThread
  <2>1. main \in {"none", "exited"} /\ loop_tasks' = <<>>
    BY <1>1 DEF StartThread
  <2>2. ~QuitPosted' /\ Len(loop_tasks') = 0 /\ Len(thread_ran') = 0 /\ thread_posted' = 0
    BY <1>1, <2>1 DEF StartThread
  <2>3. TasksInTurn'
    BY <2>1, <2>2
  <2>4. ThreadTyped'
    BY <1>1 DEF StartThread
  <2> QED
    BY <1>1, <2>3, <2>4 DEF StartThread
<1>2. CASE StartReturns
  BY <1>2 DEF StartReturns
<1>3. CASE PostToThread
  <2>1. main = "run" /\ ~QuitPosted /\ ~QuitPosted'
    BY <1>3 DEF PostToThread
  <2>2. /\ Len(loop_tasks') = Len(loop_tasks) + 1 /\ Len(loop_tasks) \in Nat
        /\ Len(thread_ran) \in Nat /\ main' = "run" /\ UNCHANGED thread_ran
        /\ thread_posted' = thread_posted + 1
        /\ \A i \in 1..Len(loop_tasks) : loop_tasks'[i] = loop_tasks[i]
        /\ loop_tasks'[Len(loop_tasks) + 1] = thread_posted + 1
    BY <1>3, <2>1 DEF PostToThread
  <2>3. TasksInTurn'
    <3> HIDE DEF QuitPosted
    <3>1. Len(loop_tasks') = thread_posted' - Len(thread_ran')
      <4>1. Len(loop_tasks) = thread_posted - Len(thread_ran) /\ thread_posted \in Nat
        BY <2>1
      <4> QED
        BY <2>2, <4>1
    <3>2. ASSUME NEW i \in 1..Len(loop_tasks')
          PROVE  loop_tasks'[i] = Len(thread_ran') + i
      <4>1. i \in 1..Len(loop_tasks) \/ i = Len(loop_tasks) + 1
        BY <2>2
      <4>2. i \in 1..Len(loop_tasks) => loop_tasks[i] = Len(thread_ran) + i
        BY <2>1
      <4>3. Len(loop_tasks) = thread_posted - Len(thread_ran)
        BY <2>1
      <4> QED
        BY <2>2, <4>1, <4>2, <4>3
    <3> QED
      BY <2>1, <2>2, <3>1, <3>2
  <2>4. ThreadTyped'
    BY <1>3 DEF PostToThread
  <2> QED
    BY <1>3, <2>3, <2>4 DEF PostToThread
<1>4. CASE StopSoon
  BY <1>4, PostQuitKeeps DEF StopSoon
<1>5. CASE StopThread
  BY <1>5, PostQuitKeeps DEF StopThread
<1>6. CASE Join
  BY <1>6 DEF Join
<1>7. CASE EnterMain
  BY <1>7 DEF EnterMain, MainStep
<1>8. CASE SignalStarted
  BY <1>8 DEF SignalStarted, MainStep
<1>9. CASE RunThreadTask
  BY <1>9, RunThreadTaskKeeps
<1>10. CASE CleanUp
  BY <1>10 DEF CleanUp, MainStep
<1>11. CASE DestroyLoop
  BY <1>11 DEF DestroyLoop, MainStep
<1>12. CASE UNCHANGED threadVars
  BY <1>12 DEF threadVars
<1> QED
  BY <1>1, <1>2, <1>3, <1>4, <1>5, <1>6, <1>7, <1>8, <1>9, <1>10, <1>11, <1>12
  DEF ThreadNext, ThreadMain

\* The owner of a thread uses message_loop_ without a lock and never sees a loop
\* that is gone, and when its Stop returns every task posted before it has run,
\* in order, in every life of the thread and for any number of tasks
\* (thread.cc:95-147, 149-204).
THEOREM ThreadIsSafe == ThreadSpec => []ThreadSafe
<1>1. ThreadInv => ThreadSafe
  BY DEF ThreadInv, ThreadTyped, PhaseInv, TasksInTurn, QuitPosted, ThreadSafe, LoopIsSafe,
         StopRunsTasks
<1> QED
  BY <1>1, ThreadInitInv, ThreadStep, PTL DEF ThreadSpec
================================================================================
