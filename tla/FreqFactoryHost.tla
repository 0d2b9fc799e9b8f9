---------------------------- MODULE FreqFactoryHost ----------------------------
(***************************************************************************)
(* The rate limiter of FreqFactoryHostStub (freq_factory_host.cc), fed by  *)
(* the timed factory.  It reads the wall clock, base::Time::Now(), which   *)
(* an adjustment of the system's time may move either way, while the       *)
(* factory runs on ticks.                                                  *)
(***************************************************************************)
EXTENDS FactoryTimed

CONSTANTS
  Delta,     \* the microseconds of one period of freq_, cut to an integer
  MaxAdjust  \* bound: adjustments of the wall clock, in each direction

ASSUME LimiterAssumption == Delta \in Nat /\ MaxAdjust \in Nat

VARIABLES
  wall,    \* base::Time::Now()
  stub,    \* "none", "idle", or "called": this data is still to come
  last,    \* last_notify_time_, NoTime when is_null()
  count,   \* history, of this stub: data forwarded,
  first,   \*   wall clock at the first one,
  firstAt, lastAt, dataAt, \* ticks at the first, the last, the last data,
  ahead, back,  \* clock adjustments since the first one,
  steady   \*   no two data were further apart than Delta, nor adjustments

NoTime == -1

limiterVars == <<stub, last, count, first, firstAt, lastAt, dataAt, ahead,
                 back, steady>>

freqVars == <<timedVars, wall, limiterVars>>

FreqInit ==
  /\ TimedInit
  /\ wall = MaxAdjust
  /\ stub = "none"
  /\ last = NoTime
  /\ count = 0
  /\ first = 0
  /\ firstAt = 0
  /\ lastAt = 0
  /\ dataAt = 0
  /\ ahead = 0
  /\ back = 0
  /\ steady = TRUE

\* CreateStub: a new stub has a null last_notify_time_.
CreateStub ==
  /\ stub = "none"
  /\ factory = "idle"
  /\ stub' = "idle"
  /\ last' = NoTime
  /\ count' = 0
  /\ steady' = TRUE
  /\ UNCHANGED <<timedVars, wall, first, firstAt, lastAt, dataAt, ahead, back>>

\* The client's Destroy, or the factory's.
DeleteStub ==
  /\ stub = "idle"
  /\ factory \in {"idle", "destroy"}
  /\ stub' = "none"
  /\ last' = NoTime
  /\ count' = 0
  /\ first' = 0
  /\ firstAt' = 0
  /\ lastAt' = 0
  /\ dataAt' = 0
  /\ UNCHANGED <<timedVars, wall, ahead, back, steady>>

\* OnDataProduced with a null last_notify_time_.
FirstData ==
  /\ stub = "called"
  /\ last = NoTime
  /\ stub' = "idle"
  /\ last' = wall
  /\ count' = 1
  /\ first' = wall
  /\ firstAt' = now
  /\ lastAt' = now
  /\ dataAt' = now
  /\ ahead' = 0
  /\ back' = 0
  /\ steady' = TRUE
  /\ UNCHANGED <<timedVars, wall>>

\* The bug the comment warns of: last_notify_time_ = now.
ForwardFromNow ==
  /\ stub = "called"
  /\ last # NoTime
  /\ wall >= last + Delta
  /\ last' = wall
  /\ count' = count + 1
  /\ lastAt' = now
  /\ stub' = "idle"
  /\ dataAt' = now
  /\ steady' = (steady /\ now <= dataAt + Delta)
  /\ UNCHANGED <<timedVars, wall, first, firstAt, ahead, back>>

\* OnDataProduced a period after the last notification: "no now + delta".
Forward ==
  /\ stub = "called"
  /\ last # NoTime
  /\ wall >= last + Delta
  /\ last' = last + Delta
  /\ count' = count + 1
  /\ lastAt' = now
  /\ stub' = "idle"
  /\ dataAt' = now
  /\ steady' = (steady /\ now <= dataAt + Delta)
  /\ UNCHANGED <<timedVars, wall, first, firstAt, ahead, back>>

\* OnDataProduced too early.
Skip ==
  /\ stub = "called"
  /\ last # NoTime
  /\ wall < last + Delta
  /\ stub' = "idle"
  /\ dataAt' = now
  /\ steady' = (steady /\ now <= dataAt + Delta)
  /\ UNCHANGED <<timedVars, wall, last, count, first, firstAt, lastAt, ahead,
                 back>>

\* The factory's steps: a data calls the stub, and neither Produce nor the
\* factory's destruction ends before the stub has answered.
FactoryStep ==
  /\ \/ ScheduleProduce /\ stub' = IF stub = "idle" THEN "called" ELSE stub
     \/ ProduceDone /\ stub # "called" /\ UNCHANGED stub
     \/ DestroyDone /\ stub = "none" /\ UNCHANGED stub
     \/ /\ CreateFactory \/ Start \/ Stop \/ ScheduleStopped
             \/ ScheduleCancelled \/ Destroy
        /\ UNCHANGED stub
  /\ UNCHANGED <<wall, last, count, first, firstAt, lastAt, dataAt, ahead,
                 back, steady>>

\* Both clocks run.
TickBoth ==
  /\ Tick
  /\ wall' = wall + 1
  /\ UNCHANGED limiterVars

\* The system's time is set forward or back.
AdjustClock ==
  /\ \/ ahead < MaxAdjust /\ wall' = wall + 1 /\ ahead' = ahead + 1
          /\ UNCHANGED back
     \/ back < MaxAdjust /\ wall > 0 /\ wall' = wall - 1 /\ back' = back + 1
          /\ UNCHANGED ahead
  /\ steady' = FALSE
  /\ UNCHANGED <<timedVars, stub, last, count, first, firstAt, lastAt, dataAt>>

FreqNext ==
  \/ CreateStub
  \/ DeleteStub
  \/ FirstData
  \/ Forward
  \/ Skip
  \/ FactoryStep
  \/ TickBoth
  \/ AdjustClock

FreqSpec == FreqInit /\ [][FreqNext]_freqVars

-----------------------------------------------------------------------------
\* "unit is Hz" (freq_factory_host.h:34): the host never gets more data than
\* freq_ allows, measured from the first data in ticks, whatever the factory's
\* rate, but for the time the wall clock was set forward.
RateLimited ==
  count > 0 => (count - 1) * Delta <= lastAt - firstAt + ahead

\* "no now + delta, keep the freq" (freq_factory_host.cc:33): as long as the
\* data come at least as often as freq_ asks, no notification is lost: at each
\* data the host has got as many as freq_ allows by then.
KeepsFreq ==
  (count > 0 /\ steady /\ Delta > 0) => dataAt - firstAt < count * Delta

\* A stub that gets data is never silent for longer than a period of freq_
\* plus the time the wall clock was set back.
NeverSilent ==
  count > 0 => dataAt - lastAt <= Delta + back

\* The host gets what its frequency asks for: not too many data, not too few,
\* and not too late.
KeepsRate == RateLimited /\ KeepsFreq /\ NeverSilent
=============================================================================
