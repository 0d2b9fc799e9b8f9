------------------------------- MODULE WinTicks --------------------------------
(***************************************************************************)
(* TimeTicks::Now() on Windows (base/time_win.cc), which every thread may  *)
(* call: the counter of the milliseconds since Windows has started rolls   *)
(* over, and RolloverProtectedNow adds what is lost.                       *)
(***************************************************************************)
EXTENDS Integers

CONSTANTS
  TickUser,  \* the threads
  Rollover,  \* 2^32, where timeGetTime() starts again
  MaxBoot    \* bound: when the clock stops

ASSUME TicksAssumption ==
  Rollover \in Nat \ {0} /\ MaxBoot \in Nat /\ "nobody" \notin TickUser

VARIABLES
  boot,           \* milliseconds since Windows has started
  rollover_ms, last_seen_now,
  rollover_lock,  \* who holds it
  ticking,        \* where each thread is, and what timeGetTime() returned
  returned,       \* history: what Now() returned last, in the order of the lock,
  read,           \*   boot when the counter was read for it, or 0,
  seldom          \*   the counter was not read for a roll over

ticksVars == <<boot, rollover_ms, last_seen_now, rollover_lock, ticking, returned,
               read, seldom>>

Nobody == "nobody"
Outside == [at |-> "outside", now |-> 0]

TicksInit ==
  /\ boot \in 0..MaxBoot
  /\ rollover_ms = 0
  /\ last_seen_now = 0
  /\ rollover_lock = Nobody
  /\ ticking = [t \in TickUser |-> Outside]
  /\ returned = 0
  /\ read = 0
  /\ seldom = (boot >= Rollover)

\* The bug of a Now() that reads the counter before it has the lock.
LockReads(t) ==
  /\ ticking[t].at \in {"outside", "read"}
  /\ IF ticking[t] = Outside
     THEN /\ ticking' = [ticking EXCEPT ![t] =
                           [at |-> "read", now |-> boot % Rollover]]
          /\ read' = boot
          /\ UNCHANGED rollover_lock
     ELSE /\ rollover_lock = Nobody
          /\ rollover_lock' = t
          /\ ticking' = [ticking EXCEPT ![t].at = "holds"]
          /\ UNCHANGED read
  /\ UNCHANGED <<boot, rollover_ms, last_seen_now, returned, seldom>>

Lock(t) ==
  /\ ticking[t] = Outside
  /\ rollover_lock = Nobody
  /\ rollover_lock' = t
  /\ ticking' = [ticking EXCEPT ![t].at = "locked"]
  /\ UNCHANGED <<boot, rollover_ms, last_seen_now, returned, read, seldom>>

\* "We should hold the lock while calling tick_function".
TickFunction(t) ==
  /\ ticking[t].at = "locked"
  /\ ticking' = [ticking EXCEPT ![t] = [at |-> "holds", now |-> boot % Rollover]]
  /\ read' = boot
  /\ UNCHANGED <<boot, rollover_ms, last_seen_now, rollover_lock, returned, seldom>>

ProtectedNow(t) ==
  /\ ticking[t].at = "holds"
  /\ rollover_ms' = rollover_ms +
       (IF ticking[t].now < last_seen_now THEN Rollover ELSE 0)
  /\ last_seen_now' = ticking[t].now
  /\ returned' = ticking[t].now + rollover_ms'
  /\ rollover_lock' = Nobody
  /\ ticking' = [ticking EXCEPT ![t] = Outside]
  /\ UNCHANGED <<boot, read, seldom>>

Millisecond ==
  /\ boot < MaxBoot
  /\ boot' = boot + 1
  /\ seldom' = (seldom \/ boot' >= read + Rollover)
  /\ UNCHANGED <<rollover_ms, last_seen_now, rollover_lock, ticking, returned, read>>

TicksNext ==
  \/ \E t \in TickUser : Lock(t) \/ TickFunction(t) \/ ProtectedNow(t)
  \/ Millisecond

TicksSpec == TicksInit /\ [][TicksNext]_ticksVars

-----------------------------------------------------------------------------
\* TimeTicks "is guaranteed not to decrease" (time.h:15), however threads and roll
\* overs interleave, "if TimeTicks::Now() is called at least every 49 days"
\* (time_win.cc:303) it is the time since Windows has started, and if it is not,
\* whole roll overs are missing.
TicksSound ==
  /\ [][returned' >= returned]_returned
  /\ [](rollover_lock = Nobody =>
          IF seldom THEN (read - returned) % Rollover = 0 /\ returned <= read
          ELSE returned = read)
=============================================================================
