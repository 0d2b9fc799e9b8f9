------------------------------ MODULE TimerLease -------------------------------
(***************************************************************************)
(* The lease of Windows' high-resolution timer that a message loop takes   *)
(* when a task with a short delay is posted (message_loop.cc,              *)
(* CalculateDelayedRuntime): on whatever thread posts it, and without a    *)
(* lock unless it comes through the loop's proxy.                          *)
(***************************************************************************)
EXTENDS Integers

CONSTANTS
  LeasePoster,  \* the other threads, which post through the proxy
  Owner,        \* the thread of the loop, which may post to it directly
  Lease,        \* kHighResolutionTimerModeLeaseTimeMs
  MaxLeaseTime, \* bound: when the clock stops
  MaxLeases     \* bound: how often the timer is activated

ASSUME LeaseAssumption ==
  /\ Owner \notin LeasePoster
  /\ Lease \in Nat /\ MaxLeaseTime \in Nat /\ MaxLeases \in Nat

VARIABLES
  clock,       \* TimeTicks::Now(), which is not 0
  enabled,     \* high_resolution_timer_enabled_
  periods,     \* calls of timeBeginPeriod less those of timeEndPeriod
  expiration,  \* high_resolution_timer_expiration_, 0 is null
  posting,     \* where each thread is in CalculateDelayedRuntime
  alive_loop,  \* ~MessageLoop has not run
  leases,      \* history: how often the timer was activated,
  overlapped   \*   and that a direct post ran beside one through the proxy

leaseVars == <<clock, enabled, periods, expiration, posting, alive_loop, leases,
               overlapped>>

LeaseInit ==
  /\ clock = 1
  /\ enabled \in BOOLEAN
  /\ periods = 0
  /\ expiration = 0
  /\ posting = [t \in LeasePoster \cup {Owner} |-> "no"]
  /\ alive_loop = TRUE
  /\ leases = 0
  /\ overlapped = FALSE

Posting == {t \in DOMAIN posting : posting[t] # "no"}
Moves(t, to) == posting' = [posting EXCEPT ![t] = to]

\* A delay of less than 32 ms asks for the timer, a longer one or none does not.
\* The proxy holds its lock until the task is in the queue.
PostBegins(t) ==
  /\ alive_loop
  /\ IF t = Owner THEN t \notin Posting ELSE Posting \subseteq {Owner}
  /\ Moves(t, "null") \/ Moves(t, "expired")
  /\ overlapped' = (overlapped \/ Posting # {})
  /\ UNCHANGED <<clock, enabled, periods, expiration, alive_loop, leases>>

\* high_resolution_timer_expiration_.is_null(), for a short delay.
IsNull(t) ==
  /\ posting[t] = "null"
  /\ Moves(t, IF expiration = 0 THEN "activate" ELSE "expired")
  /\ UNCHANGED <<clock, enabled, periods, expiration, alive_loop, leases, overlapped>>

\* Time::ActivateHighResolutionTimer(true).
Activate(t) ==
  /\ posting[t] = "activate"
  /\ leases < MaxLeases
  /\ IF enabled
     THEN periods' = periods + 1 /\ leases' = leases + 1 /\ Moves(t, "lease")
     ELSE UNCHANGED <<periods, leases>> /\ Moves(t, "expired")
  /\ UNCHANGED <<clock, enabled, expiration, alive_loop, overlapped>>

TakeLease(t) ==
  /\ posting[t] = "lease"
  /\ expiration' = clock + Lease
  /\ Moves(t, "expired")
  /\ UNCHANGED <<clock, enabled, periods, alive_loop, leases, overlapped>>

\* The second look at the expiration: is it null, and then, has it passed?
IsNotNull(t) ==
  /\ posting[t] = "expired"
  /\ Moves(t, IF expiration = 0 THEN "no" ELSE "compare")
  /\ UNCHANGED <<clock, enabled, periods, expiration, alive_loop, leases, overlapped>>

HasExpired(t) ==
  /\ posting[t] = "compare"
  /\ Moves(t, IF clock > expiration THEN "deactivate" ELSE "no")
  /\ UNCHANGED <<clock, enabled, periods, expiration, alive_loop, leases, overlapped>>

\* The bug of a timer that, while disabled, is not deactivated either.
DeactivateEnabled(t) ==
  /\ posting[t] = "deactivate"
  /\ periods' = IF enabled THEN periods - 1 ELSE periods
  /\ Moves(t, "clear")
  /\ UNCHANGED <<clock, enabled, expiration, alive_loop, leases, overlapped>>

\* Time::ActivateHighResolutionTimer(false), enabled or not.
Deactivate(t) ==
  /\ posting[t] = "deactivate"
  /\ periods' = periods - 1
  /\ Moves(t, "clear")
  /\ UNCHANGED <<clock, enabled, expiration, alive_loop, leases, overlapped>>

ClearLease(t) ==
  /\ posting[t] = "clear"
  /\ expiration' = 0
  /\ Moves(t, "no")
  /\ UNCHANGED <<clock, enabled, periods, alive_loop, leases, overlapped>>

\* ~MessageLoop, when the proxy has been told and nobody posts any more.
EndLoop ==
  /\ alive_loop /\ Posting = {}
  /\ alive_loop' = FALSE
  /\ periods' = IF expiration # 0 THEN periods - 1 ELSE periods
  /\ expiration' = 0
  /\ UNCHANGED <<clock, enabled, posting, leases, overlapped>>

\* HighResolutionTimerManager, when the power supply changes.
EnableHighResolutionTimer ==
  /\ enabled' = ~enabled
  /\ UNCHANGED <<clock, periods, expiration, posting, alive_loop, leases, overlapped>>

LeaseTick ==
  /\ clock < MaxLeaseTime
  /\ clock' = clock + 1
  /\ UNCHANGED <<enabled, periods, expiration, posting, alive_loop, leases, overlapped>>

LeaseNext ==
  \/ \E t \in LeasePoster \cup {Owner} :
       \/ PostBegins(t) \/ IsNull(t) \/ Activate(t) \/ TakeLease(t)
       \/ IsNotNull(t) \/ HasExpired(t) \/ Deactivate(t) \/ ClearLease(t)
  \/ EndLoop \/ EnableHighResolutionTimer \/ LeaseTick

LeaseSpec == LeaseInit /\ [][LeaseNext]_leaseVars

-----------------------------------------------------------------------------
\* "Each successful activate call must be paired with a subsequent deactivate
\* call" (time.h:316), as far as it holds: between posts a loop has activated the
\* timer once if it has a lease and not at all otherwise, its end included and
\* however the timer was enabled and disabled, until a direct post and one through
\* the proxy overlap: they read and write the expiration without a common lock,
\* and then the timer may stay active, or be deactivated twice.
LeaseIsPaired ==
  ~overlapped /\ Posting = {} => periods = IF expiration = 0 THEN 0 ELSE 1
=============================================================================
