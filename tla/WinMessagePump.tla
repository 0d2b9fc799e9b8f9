---------------------------- MODULE WinMessagePump -----------------------------
(***************************************************************************)
(* The message pump for UI threads of Windows (message_pump_win.cc), which *)
(* runs the tasks of its loop between the window messages of its thread.   *)
(* What is dispatched may enter a modal loop of Windows, like MessageBox,  *)
(* that knows nothing of tasks: a message kMsgHaveWork, never more than    *)
(* one, makes it call the pump.  Messages that are sent are not queued:    *)
(* PeekMessage dispatches them before it returns.  A loop, a modal loop    *)
(* and what they dispatch are frames of a stack.  Timers, dispatchers and  *)
(* the workaround for mouse input in WaitForWork are left out.             *)
(***************************************************************************)
EXTENDS Integers, Sequences, SequencesExt, FiniteSets

CONSTANTS
  UIPoster,    \* the other threads that post tasks
  QueueSize,   \* how many messages Windows queues for a thread
  MaxUITasks,  \* bound: tasks posted
  MaxMessages, \* bound: messages of windows
  MaxFrames    \* bound: the stack

ASSUME PumpAssumption ==
  /\ QueueSize \in Nat \ {0}
  /\ MaxUITasks \in Nat /\ MaxMessages \in Nat /\ MaxFrames \in Nat

VARIABLES
  have_work_,
  messages,    \* Windows' queue: "work" is kMsgHaveWork, "window" any other
  sends,       \* how many threads wait in SendMessage for this one
  incoming,    \* how many tasks are in incoming_queue_ and in work_queue_
  work,
  may_nest,    \* nestable_tasks_allowed_
  stack,
  scheduling,  \* where each thread is in ScheduleWork
  posted,      \* history: the tasks posted,
  sent,        \*   the messages of windows, posted or sent,
  missed       \*   and why tasks may wait, until all are run: the queue was
               \*   "full", a kMsgHaveWork was "wasted" when no task could run,
               \*   or DoRunLoop "left" its tasks without one

delegate == <<incoming, work>>
windows == <<sends, sent>>
uiVars == <<have_work_, messages, delegate, may_nest, stack, scheduling, posted,
            windows, missed>>

UI == "UI"  \* the thread of the pump

UIInit ==
  /\ have_work_ = FALSE
  /\ messages = <<>>
  /\ sends = 0
  /\ incoming = 0
  /\ work = 0
  /\ may_nest = TRUE
  /\ stack = <<>>
  /\ scheduling = [t \in UIPoster \cup {UI} |-> "no"]
  /\ posted = 0
  /\ sent = 0
  /\ missed = {}

-----------------------------------------------------------------------------
(* ScheduleWork: InterlockedExchange, PostMessage, and if that fails       *)
(* another InterlockedExchange.                                             *)

Schedules(t, to) == scheduling' = [scheduling EXCEPT ![t] = to]

Exchange(t) ==
  /\ scheduling[t] = "exchange"
  /\ have_work_' = TRUE
  /\ Schedules(t, IF have_work_ THEN "no" ELSE "post")
  /\ UNCHANGED <<messages, delegate, may_nest, stack, posted, windows, missed>>

PostWork(t) ==
  /\ scheduling[t] = "post"
  /\ IF Len(messages) < QueueSize
     THEN /\ messages' = Append(messages, "work")
          /\ Schedules(t, "no")
          /\ UNCHANGED missed
     ELSE /\ Schedules(t, "clarify")
          /\ missed' = missed \cup {"full"}
          /\ UNCHANGED messages
  /\ UNCHANGED <<have_work_, delegate, may_nest, stack, posted, windows>>

Clarify(t) ==
  /\ scheduling[t] = "clarify"
  /\ have_work_' = FALSE
  /\ missed' = missed \cup {"full"}
  /\ Schedules(t, "no")
  /\ UNCHANGED <<messages, delegate, may_nest, stack, posted, windows>>

ScheduleStep(t) == Exchange(t) \/ PostWork(t) \/ Clarify(t)

\* AddToIncomingQueue, with the lock held for the push only.
AddToIncomingQueue(t) ==
  /\ scheduling[t] = "no"
  /\ posted < MaxUITasks
  /\ posted' = posted + 1
  /\ incoming' = incoming + 1
  /\ Schedules(t, IF incoming = 0 THEN "exchange" ELSE "no")
  /\ UNCHANGED <<have_work_, messages, work, may_nest, stack, windows, missed>>

\* A message for a window is posted, or another thread sends it and waits.
WindowMessage ==
  /\ sent < MaxMessages
  /\ sent' = sent + 1
  /\ \/ /\ Len(messages) < QueueSize
        /\ messages' = Append(messages, "window")
        /\ UNCHANGED sends
     \/ sends' = sends + 1 /\ UNCHANGED messages
  /\ UNCHANGED <<have_work_, delegate, may_nest, stack, scheduling, posted, missed>>

-----------------------------------------------------------------------------
(* The stack of the thread.  A loop remembers whether tasks might nest     *)
(* before it, DoRunLoop whether more work is plausible and should_quit, and *)
(* a modal loop whether its client has set os_modal_loop.                   *)

Frame(at) == [at |-> at, more |-> FALSE, quit |-> FALSE, nested |-> FALSE, os |-> FALSE]
Loop(at, os) ==
  [at |-> at, more |-> FALSE, quit |-> FALSE, nested |-> may_nest, os |-> os]

TopIs(at) == stack # <<>> /\ Last(stack).at = at /\ scheduling[UI] = "no"
Under == Front(stack)
Goes(at) == [Last(stack) EXCEPT !.at = at]

\* DoRunLoop before, in and after ProcessNextWindowsMessage, and in WaitForWork;
\* it has "peeked" when PeekMessage has dispatched a message that was sent.
IsRun(f) == f.at \in {"peek", "peeking", "peeked", "work", "wait"}
InRun == \E d \in DOMAIN stack : IsRun(stack[d])  \* state_ is not NULL

os_modal_loop == \E d \in DOMAIN stack : stack[d].os

\* Tasks, handlers of messages, and who calls Run first.
ClientOnTop ==
  scheduling[UI] = "no" /\ (stack = <<>> \/ TopIs("task") \/ TopIs("window"))

CanWork == may_nest /\ incoming + work > 0
Leaves == IF incoming + work > 0 /\ ~have_work_ THEN {"left"} ELSE {}

\* Run or a modal loop, with a ScopedNestableTaskAllower or without.
EnterLoop ==
  /\ ClientOnTop
  /\ Len(stack) < MaxFrames
  /\ \E at \in {"peek", "modal"}, allow, os \in BOOLEAN :
       /\ os => at = "modal"
       /\ stack' = Append(stack, Loop(at, os))
       /\ may_nest' = (may_nest \/ allow)
       /\ Schedules(UI, IF allow /\ ~may_nest THEN "exchange" ELSE "no")
  /\ UNCHANGED <<have_work_, messages, delegate, posted, windows, missed>>

LeaveLoop ==
  /\ TopIs("modal") \/ ((TopIs("peek") \/ TopIs("work")) /\ Last(stack).quit)
  /\ stack' = Under
  /\ may_nest' = Last(stack).nested
  /\ missed' = missed \cup (IF TopIs("modal") THEN {} ELSE Leaves)
  /\ UNCHANGED <<have_work_, messages, delegate, scheduling, posted, windows>>

QuitRun ==
  /\ ClientOnTop /\ InRun
  /\ LET d == CHOOSE d \in DOMAIN stack :
                /\ IsRun(stack[d])
                /\ \A e \in (d + 1)..Len(stack) : ~IsRun(stack[e])
     IN  stack' = [stack EXCEPT ![d].quit = TRUE]
  /\ UNCHANGED <<have_work_, messages, delegate, may_nest, scheduling, posted, windows,
                 missed>>

\* RunTask lets tasks nest again, whatever the task did.
ClientReturns ==
  /\ TopIs("task") \/ TopIs("window")
  /\ stack' = Under
  /\ may_nest' = (may_nest \/ TopIs("task"))
  /\ UNCHANGED <<have_work_, messages, delegate, scheduling, posted, windows, missed>>

\* DoWork runs one task on top of the frames given, if there is one.
RunUITask(frames) ==
  /\ CanWork
  /\ stack' = Append(frames, Frame("task"))
  /\ may_nest' = FALSE
  /\ incoming' = IF work = 0 THEN 0 ELSE incoming
  /\ work' = (IF work = 0 THEN incoming ELSE work) - 1
  /\ UNCHANGED <<have_work_, messages, scheduling, posted, windows, missed>>

NoTaskRuns ==
  /\ ~CanWork
  /\ missed' = IF incoming + work = 0 THEN {} ELSE missed \cup {"wasted"}
  /\ UNCHANGED <<have_work_, messages, delegate, may_nest, scheduling, posted, windows>>

-----------------------------------------------------------------------------
(* DoRunLoop.                                                               *)

Running(at) == TopIs(at) /\ ~Last(stack).quit

\* ProcessNextWindowsMessage asks first whether messages that were sent wait.
QueueStatus ==
  /\ Running("peek")
  /\ stack' = Append(Under, [Goes("peeking") EXCEPT !.more = sends > 0])
  /\ UNCHANGED <<have_work_, messages, delegate, may_nest, scheduling, posted, windows,
                 missed>>

\* PeekMessage, of DoRunLoop, of ProcessPumpReplacementMessage or of a modal loop,
\* dispatches a message that was sent.
DispatchSent ==
  /\ sends > 0
  /\ sends' = sends - 1
  /\ \E to \in {"peeked", "replaced", "modal"} :
       /\ CASE to = "peeked"   -> TopIs("peeking") \/ TopIs("peeked")
            [] to = "replaced" -> TopIs("replace") \/ TopIs("replaced")
            [] to = "modal"    -> TopIs("modal")
       /\ stack' = Append(Append(Under, Goes(to)), Frame("window"))
       /\ missed' = missed \cup (IF to = "peeked" THEN Leaves ELSE {})
  /\ UNCHANGED <<have_work_, messages, delegate, may_nest, scheduling, posted, sent>>

\* PeekMessage and ProcessMessageHelper.  If a message that was sent has been
\* dispatched, PeekMessage may return false.
NextWindowsMessage ==
  /\ TopIs("peeking") \/ TopIs("peeked")
  /\ sends = 0
  /\ LET Working(more) == Append(Under, [Goes("work") EXCEPT !.more = more])
     IN  \/ /\ messages = <<>> \/ TopIs("peeked")
            /\ stack' = Working(Last(stack).more)
            /\ UNCHANGED <<messages, missed>>
         \/ /\ messages # <<>>
            /\ messages' = Tail(messages)
            /\ IF Head(messages) = "work"
               THEN /\ stack' = Append(Working(FALSE), Frame("replace"))
                    /\ UNCHANGED missed
               ELSE /\ stack' = Append(Working(TRUE), Frame("window"))
                    /\ missed' = missed \cup Leaves
  /\ UNCHANGED <<have_work_, delegate, may_nest, scheduling, posted, windows>>

DoWork ==
  /\ Running("work")
  /\ \/ RunUITask(Append(Under, Goes("peek")))
     \/ /\ NoTaskRuns
        /\ stack' = Append(Under, Goes(IF Last(stack).more THEN "peek" ELSE "wait"))

UIWaitForWork ==
  /\ Running("wait")
  /\ messages # <<>> \/ sends > 0
  /\ stack' = Append(Under, Goes("peek"))
  /\ UNCHANGED <<have_work_, messages, delegate, may_nest, scheduling, posted, windows,
                 missed>>

-----------------------------------------------------------------------------
(* ProcessPumpReplacementMessage, in three steps and the messages that were *)
(* sent.                                                                    *)

\* In an os_modal_loop only a message to paint or of a timer will do, and "window"
\* stands for any message.
PeekReplacement ==
  /\ TopIs("replace") \/ TopIs("replaced")
  /\ sends = 0
  /\ \E more \in BOOLEAN :
       /\ IF more
          THEN messages # <<>> /\ messages' = Tail(messages)
          ELSE /\ messages = <<>> \/ os_modal_loop \/ TopIs("replaced")
               /\ UNCHANGED messages
       /\ stack' = Append(Under, [Goes("reset") EXCEPT !.more = more])
  /\ UNCHANGED <<have_work_, delegate, may_nest, scheduling, posted, windows, missed>>

\* The bug of a pump that trusts the next post to schedule work.
ResetHaveWorkOnly ==
  /\ TopIs("reset")
  /\ have_work_' = FALSE
  /\ stack' = IF Last(stack).more THEN Append(Under, Goes("dispatch")) ELSE Under
  /\ UNCHANGED <<messages, delegate, may_nest, scheduling, posted, windows, missed>>

ResetHaveWork ==
  /\ TopIs("reset")
  /\ have_work_' = FALSE
  /\ IF Last(stack).more
     THEN stack' = Append(Under, Goes("dispatch")) /\ Schedules(UI, "exchange")
     ELSE stack' = Under /\ UNCHANGED scheduling
  /\ UNCHANGED <<messages, delegate, may_nest, posted, windows, missed>>

\* More work is plausible for a DoRunLoop that called.
DispatchReplacement ==
  /\ TopIs("dispatch")
  /\ LET caller == Last(Under)
     IN  stack' = Front(Under) \o
                    <<[caller EXCEPT !.more = IsRun(caller)], Frame("window")>>
  /\ UNCHANGED <<have_work_, messages, delegate, may_nest, scheduling, posted, windows,
                 missed>>

-----------------------------------------------------------------------------
(* A modal loop, and HandleWorkMessage, which it dispatches to.             *)

ModalMessage ==
  /\ TopIs("modal")
  /\ sends = 0 /\ messages # <<>>
  /\ messages' = Tail(messages)
  /\ IF Head(messages) = "window"
     THEN /\ stack' = Append(stack, Frame("window"))
          /\ UNCHANGED <<have_work_, missed>>
     ELSE IF InRun
     THEN /\ stack' = stack \o <<Frame("handle"), Frame("replace")>>
          /\ UNCHANGED <<have_work_, missed>>
     ELSE /\ have_work_' = FALSE
          /\ missed' = missed \cup {"wasted"}
          /\ UNCHANGED stack
  /\ UNCHANGED <<delegate, may_nest, scheduling, posted, windows>>

HandleDoesWork ==
  /\ TopIs("handle")
  /\ \/ RunUITask(Append(Under, Goes("ran")))
     \/ NoTaskRuns /\ stack' = Under

HandleReschedules ==
  /\ TopIs("ran")
  /\ stack' = Under
  /\ Schedules(UI, "exchange")
  /\ UNCHANGED <<have_work_, messages, delegate, may_nest, posted, windows, missed>>

UINext ==
  \/ \E t \in UIPoster : AddToIncomingQueue(t)
  \/ ClientOnTop /\ AddToIncomingQueue(UI)
  \/ \E t \in UIPoster \cup {UI} : ScheduleStep(t)
  \/ WindowMessage
  \/ EnterLoop \/ LeaveLoop \/ QuitRun \/ ClientReturns
  \/ QueueStatus \/ DispatchSent \/ NextWindowsMessage \/ DoWork \/ UIWaitForWork
  \/ PeekReplacement \/ ResetHaveWork \/ DispatchReplacement
  \/ ModalMessage \/ HandleDoesWork \/ HandleReschedules

UISpec == UIInit /\ [][UINext]_uiVars

-----------------------------------------------------------------------------
(* Properties.                                                              *)

\* "at most one kMsgHaveWork message is EVER pending" (message_pump_win.h:106),
\* and have_work_ says so: the message is in the queue, about to be posted or
\* clarified, or was peeked and the flag is about to be reset.  So both DCHECKs
\* of ProcessPumpReplacementMessage hold.
FlagAgrees ==
  Cardinality({i \in DOMAIN messages : messages[i] = "work"})
    + Cardinality({t \in DOMAIN scheduling : scheduling[t] \in {"post", "clarify"}})
    + Cardinality({d \in DOMAIN stack : stack[d].at \in {"replace", "replaced", "reset"}})
    = IF have_work_ THEN 1 ELSE 0

\* The thread sleeps and nobody is about to wake it.
Asleep(at) ==
  TopIs(at) /\ messages = <<>> /\ sends = 0 /\ \A t \in UIPoster : scheduling[t] = "no"

\* A handler of a message that was sent runs inside the peek for the replacement
\* (message_pump_win.cc:419-422): kMsgHaveWork is gone and have_work_ still set, so
\* that ScheduleWork posts no other (108), until the handler returns.  A loop that
\* the handler runs may then sleep on tasks, whatever message_pump_win.h:110 says.
Replacing == \E d \in DOMAIN stack : stack[d].at = "replaced"

\* "The pump is automatically re-started when Tasks are queued"
\* (message_pump_win.h:110): a pump that sleeps has no task, unless a post failed
\* (message_pump_win.cc:113-124), and a modal loop under Run that sleeps while
\* tasks may nest has none either, unless the message came while no task could
\* run or DoRunLoop had consumed it.  Either may have tasks while it is Replacing.
PumpSound ==
  /\ FlagAgrees
  /\ Asleep("wait") /\ may_nest /\ ~Replacing =>
       incoming + work = 0 \/ "full" \in missed
  /\ Asleep("modal") /\ may_nest /\ InRun /\ ~Replacing =>
       incoming + work = 0 \/ missed # {}

\* "After running a task, the special message kMsgHaveWork is again posted to the
\* Windows Message queue, ensuring a future time slice for processing a future
\* event" (message_pump_win.h:103-105), in a modal loop that "a task, or windows
\* event, invokes" (90), whatever DoRunLoop has consumed.
SubPumpServesTasks ==
  Asleep("modal") /\ may_nest /\ InRun /\ ~Replacing /\ missed \subseteq {"left"} =>
    incoming + work = 0
=============================================================================
