-------------------------- MODULE FactoryClockProofs --------------------------
(***************************************************************************)
(* Proofs about the factory and the limiter of FreqFactoryHost against the *)
(* clock.  For every period, delay and bound, FactoryTimed implements      *)
(* Factory, misses no period and does not get ahead of its speed.  For     *)
(* every period of the limiter and every history of the wall clock, the    *)
(* rate of what the limiter lets pass keeps the bounds of KeepsRate.       *)
(***************************************************************************)
EXTENDS FreqFactoryHost, FiniteSets, FiniteSetTheorems, TLAPS

-----------------------------------------------------------------------------
(* The factory.                                                             *)

LEMMA RemoveTyped ==
  ASSUME NEW s \in Seq(Nat), NEW i \in DOMAIN s
  PROVE  /\ RemoveAt(s, i) \in Seq(Nat)
         /\ Len(RemoveAt(s, i)) = Len(s) - 1
<1>1. i \in 1..Len(s) /\ Len(s) \in Nat
  OBVIOUS
<1>2. SubSeq(s, 1, i - 1) \in Seq(Nat) /\ Len(SubSeq(s, 1, i - 1)) = i - 1
  BY <1>1
<1>3. /\ SubSeq(s, i + 1, Len(s)) \in Seq(Nat)
      /\ Len(SubSeq(s, i + 1, Len(s))) = Len(s) - i
  BY <1>1
<1> DEFINE head == SubSeq(s, 1, i - 1)
           tail == SubSeq(s, i + 1, Len(s))
<1>4. RemoveAt(s, i) = head \o tail
  BY DEF RemoveAt
<1> HIDE DEF head, tail
<1>5. /\ head \o tail \in Seq(Nat)
      /\ Len(head \o tail) = Len(head) + Len(tail)
  BY <1>2, <1>3 DEF head, tail
<1>6. Len(head) = i - 1 /\ Len(tail) = Len(s) - i
  BY <1>2, <1>3 DEF head, tail
<1> QED
  BY <1>1, <1>4, <1>5, <1>6

\* Start posts a task that is due now.
LEMMA StartPosts ==
  ASSUME TimedTypeOK, Start
  PROVE  /\ due' \in Seq(Nat)
         /\ Len(due') = Len(due) + 1
         /\ Len(due) + 1 \in DOMAIN due'
         /\ due'[Len(due) + 1] = now
<1>1. due \in Seq(Nat) /\ now \in Nat
  BY DEF TimedTypeOK
<1>2. due' = Append(due, now)
  BY DEF Start
<1> QED
  BY <1>1, <1>2

\* The step that the provers need of start_ apart.
LEMMA StartBoolean ==
  ASSUME start_ \in BOOLEAN, [TimedNext]_timedVars
  PROVE  start_' \in BOOLEAN
<1>1. CASE CreateFactory \/ Start \/ Stop \/ DestroyDone
  BY <1>1, Zenon DEF CreateFactory, Start, Stop, DestroyDone
<1>2. CASE ScheduleProduce \/ ScheduleStopped
             \/ ScheduleCancelled \/ ProduceDone \/ Destroy \/ Tick
  BY <1>2 DEF ScheduleProduce, ScheduleStopped, ScheduleCancelled,
              ProduceDone, Destroy, Tick
<1>3. CASE UNCHANGED timedVars
  BY <1>3 DEF timedVars
<1> QED
  BY <1>1, <1>2, <1>3 DEF TimedNext

\* The due times stay natural numbers.
THEOREM TimedTyped == TimedSpec => []TimedTypeOK
<1> USE TimedAssumption DEF TimedTypeOK
<1>1. TimedInit => TimedTypeOK
  <2> SUFFICES ASSUME TimedInit
               PROVE  TimedTypeOK
    OBVIOUS
  <2>1. start_ \in BOOLEAN
    BY Zenon DEF TimedInit
  <2> QED
    BY <2>1 DEF TimedInit
<1>2. TimedTypeOK /\ [TimedNext]_timedVars => TimedTypeOK'
  <2> SUFFICES ASSUME TimedTypeOK, [TimedNext]_timedVars
               PROVE  TimedTypeOK'
    OBVIOUS
  <2>1. start_' \in BOOLEAN
    BY StartBoolean
  <2> USE <2>1
  <2>2. CASE CreateFactory \/ Stop
    BY <2>2 DEF CreateFactory, Stop
  <2>9. CASE Start
    BY <2>9, StartPosts DEF Start
  <2>3. CASE ScheduleProduce
    BY <2>3, SMTT(20) DEF ScheduleProduce
  <2>4. CASE ScheduleStopped
    BY <2>4, RemoveTyped DEF ScheduleStopped
  <2>5. CASE ScheduleCancelled
    BY <2>5, RemoveTyped DEF ScheduleCancelled
  <2>6. CASE ProduceDone \/ Destroy \/ Tick
    BY <2>6 DEF ProduceDone, Destroy, Tick
  <2>7. CASE DestroyDone
    BY <2>7 DEF DestroyDone
  <2>8. CASE UNCHANGED timedVars
    BY <2>8 DEF timedVars
  <2> QED
    BY <2>2, <2>3, <2>4, <2>5, <2>6, <2>7, <2>8, <2>9 DEF TimedNext
<1> QED
  BY <1>1, <1>2, PTL DEF TimedSpec

\* The timed factory implements the untimed one (factory.cc:21-105): a step
\* of the clock stutters, and every other step moves as many Schedule tasks
\* as the step of the same name in Factory.
THEOREM TimedImplements == TimedSpec => ImplementsFactory
<1>1. TimedInit => Untimed!FactoryInit
  BY DEF TimedInit, Untimed!FactoryInit
<1>2. TimedTypeOK /\ [TimedNext]_timedVars
        => [Untimed!FactoryNext]_Untimed!factoryVars
  <2> SUFFICES ASSUME TimedTypeOK, [TimedNext]_timedVars
               PROVE  Untimed!FactoryNext \/ UNCHANGED Untimed!factoryVars
    OBVIOUS
  <2> USE TimedAssumption
      DEF TimedTypeOK, Untimed!FactoryNext, Untimed!factoryVars
  <2>1. CASE CreateFactory
    BY <2>1 DEF CreateFactory, Untimed!CreateFactory
  <2>2. CASE Start
    BY <2>2, StartPosts DEF Start, Untimed!Start
  <2>3. CASE Stop
    BY <2>3 DEF Stop, Untimed!Stop
  <2>4. CASE ScheduleProduce
    BY <2>4 DEF ScheduleProduce, Untimed!ScheduleProduce
  <2>5. CASE ScheduleStopped
    BY <2>5, RemoveTyped DEF ScheduleStopped, Untimed!ScheduleStopped
  <2>6. CASE ScheduleCancelled
    BY <2>6, RemoveTyped DEF ScheduleCancelled, Untimed!ScheduleCancelled
  <2>7. CASE ProduceDone
    BY <2>7 DEF ProduceDone, Untimed!ProduceDone
  <2>8. CASE Destroy
    BY <2>8 DEF Destroy, Untimed!Destroy
  <2>9. CASE DestroyDone
    BY <2>9 DEF DestroyDone, Untimed!DestroyDone
  <2>10. CASE Tick
    BY <2>10 DEF Tick
  <2>11. CASE UNCHANGED timedVars
    BY <2>11 DEF timedVars
  <2> QED
    BY <2>1, <2>2, <2>3, <2>4, <2>5, <2>6, <2>7, <2>8, <2>9, <2>10, <2>11
       DEF TimedNext
<1> QED
  BY <1>1, <1>2, TimedTyped, PTL
     DEF TimedSpec, ImplementsFactory, Untimed!FactorySafety

\* Why no period is missed: a Schedule task is due within a period of the
\* last data, and the clock waits for nothing else.
PeriodInv ==
  /\ (factory \in {"idle", "notify"} /\ start_) =>
       \E i \in DOMAIN due : due[i] <= produced + Period
  /\ factory = "notify" => now <= produced + ProduceTime
  /\ KeepsPeriod

LEMMA PeriodStep ==
  ASSUME TimedTypeOK, PeriodInv, [TimedNext]_timedVars
  PROVE  PeriodInv'
<1> USE TimedAssumption DEF TimedTypeOK, PeriodInv, KeepsPeriod
<1>1. CASE CreateFactory \/ Stop \/ Destroy \/ DestroyDone \/ ScheduleStopped
             \/ ScheduleCancelled
  BY <1>1 DEF CreateFactory, Stop, Destroy, DestroyDone, ScheduleStopped,
     ScheduleCancelled
<1>2. CASE Start
  BY <1>2, StartPosts DEF Start
<1>3. CASE ScheduleProduce
  <2>1. PICK i \in DOMAIN due : due' = [due EXCEPT ![i] = now + Period]
    BY <1>3 DEF ScheduleProduce
  <2>2. i \in DOMAIN due' /\ due'[i] = now + Period
    BY <2>1
  <2>3. factory' = "notify" /\ produced' = now /\ now' = now
    BY <1>3 DEF ScheduleProduce
  <2>4. now' <= produced' + ProduceTime
    BY <2>3
  <2>5. due'[i] <= produced' + Period
    BY <2>2, <2>3
  <2> QED
    BY <2>2, <2>3, <2>4, <2>5
<1>4. CASE ProduceDone
  BY <1>4 DEF ProduceDone
<1>5. CASE Tick
  <2>1. \A i \in DOMAIN due : due[i] \in Range(due) /\ due[i] \in Nat
    BY DEF Range
  <2>2. factory # "notify" => \A i \in DOMAIN due : now < due[i] + Late
    BY <1>5, <2>1 DEF Tick
  <2>3. factory = "notify" => now < produced + ProduceTime
    BY <1>5 DEF Tick
  <2> QED
    BY <1>5, <2>1, <2>2, <2>3 DEF Tick
<1>6. CASE UNCHANGED timedVars
  BY <1>6 DEF timedVars
<1> QED
  BY <1>1, <1>2, <1>3, <1>4, <1>5, <1>6 DEF TimedNext

\* "no delay is no add up Produce() time" (factory.cc:59): a started factory
\* produces at least every period and delay of the loop, however long Produce
\* takes within that time and however often it was stopped and restarted.
THEOREM TimedKeepsPeriod == TimedSpec => []KeepsPeriod
<1>1. TimedInit => PeriodInv
  BY DEF TimedInit, PeriodInv, KeepsPeriod
<1>2. PeriodInv => KeepsPeriod
  BY DEF PeriodInv
<1> QED
  BY <1>1, <1>2, PeriodStep, TimedTyped, PTL DEF TimedSpec

-----------------------------------------------------------------------------
(* The speed limit *)

\* The number of the period that runs at t, and when the next one begins.
Periods(t) == t \div Period

NextPeriod(t) == (Periods(t) + 1) * Period

\* The tasks of s that are not due before b.
Ahead(s, b) == {i \in DOMAIN s : s[i] >= b}

\* How many of s are not due in the period that runs at t.
Waits(s, t) == Cardinality(Ahead(s, NextPeriod(t)))

\* The data that were made, the one that Produce hands out included.
Made == id + (IF factory = "notify" THEN 1 ELSE 0)

\* Why the speed has a limit: each of at most MaxPending Schedule tasks has
\* produced one data per period that is over, and one more if it waits for the
\* next period already; a task leaves the queue only when it is due.
SpeedInv ==
  /\ Len(due) + Len(stale) <= MaxPending
  /\ Made <= MaxPending * Periods(now) + Waits(due, now) + Waits(stale, now)

\* Periods, without a division.
LEMMA PeriodsBounds ==
  ASSUME NEW t \in Nat, NEW p \in Nat \ {0}
  PROVE  /\ t \div p \in Nat
         /\ (t \div p) * p <= t
         /\ t < ((t \div p) + 1) * p
<1> DEFINE n == t \div p
<1>1. n \in Nat /\ p * n <= t /\ t < p * n + p
  BY Z3
<1> HIDE DEF n
<1>2. n * p = p * n /\ (n + 1) * p = n * p + p
  BY <1>1
<1> QED
  BY <1>1, <1>2 DEF n

LEMMA AheadCount ==
  ASSUME NEW s \in Seq(Nat), NEW b \in Nat
  PROVE  /\ IsFiniteSet(Ahead(s, b))
         /\ Cardinality(Ahead(s, b)) \in Nat
         /\ Cardinality(Ahead(s, b)) <= Len(s)
<1>1. Ahead(s, b) \subseteq 1..Len(s) /\ Len(s) \in Nat
  BY DEF Ahead
<1>2. IsFiniteSet(1..Len(s)) /\ Cardinality(1..Len(s)) = Len(s)
  <2> DEFINE n == Len(s)
  <2> HIDE DEF n
  <2>1. n \in Nat
    BY <1>1 DEF n
  <2>2. IsFiniteSet(1..n)
        /\ Cardinality(1..n) = IF 1 > n THEN 0 ELSE n - 1 + 1
    BY <2>1, FS_Interval
  <2> QED
    BY <2>1, <2>2 DEF n
<1>3. IsFiniteSet(Ahead(s, b)) /\ Cardinality(Ahead(s, b)) <= Len(s)
  <2> DEFINE S == 1..Len(s)
             T == Ahead(s, b)
  <2> HIDE DEF S, T
  <2>1. IsFiniteSet(S) /\ T \in SUBSET S /\ Cardinality(S) = Len(s)
    BY <1>1, <1>2 DEF S, T
  <2>2. IsFiniteSet(T) /\ Cardinality(T) <= Cardinality(S)
    BY <2>1, FS_Subset
  <2> QED
    BY <2>1, <2>2 DEF T
<1> QED
  BY <1>3, FS_CardinalityType

\* A task that is due takes no place among those that are ahead.
LEMMA RemoveAhead ==
  ASSUME NEW s \in Seq(Nat), NEW b \in Nat, NEW i \in DOMAIN s,
         i \notin Ahead(s, b)
  PROVE  Cardinality(Ahead(RemoveAt(s, i), b)) = Cardinality(Ahead(s, b))
<1> DEFINE r == RemoveAt(s, i)
           S == Ahead(s, b)
           T == Ahead(r, b)
           f == [j \in S |-> IF j < i THEN j ELSE j - 1]
<1>1. i \in 1..Len(s) /\ Len(s) \in Nat
  OBVIOUS
<1>2. /\ DOMAIN r = 1..(Len(s) - 1)
      /\ \A j \in DOMAIN r : r[j] = IF j < i THEN s[j] ELSE s[j + 1]
  <2> DEFINE p == SubSeq(s, 1, i - 1)
             q == SubSeq(s, i + 1, Len(s))
  <2>1. /\ p \in Seq(Nat) /\ Len(p) = i - 1
        /\ \A j \in 1..(i - 1) : p[j] = s[j]
    BY <1>1
  <2>2. /\ q \in Seq(Nat) /\ Len(q) = Len(s) - i
        /\ \A j \in 1..(Len(s) - i) : q[j] = s[i + j]
    BY SMTT(20), <1>1
  <2>3. r = p \o q
    BY DEF RemoveAt
  <2> HIDE DEF p, q, r
  <2>4. /\ DOMAIN r = 1..(Len(p) + Len(q))
        /\ \A j \in DOMAIN r : r[j] = IF j <= Len(p) THEN p[j]
                                                     ELSE q[j - Len(p)]
    BY <2>1, <2>2, <2>3
  <2>5. Len(p) + Len(q) = Len(s) - 1
    BY <1>1, <2>1, <2>2
  <2>6. ASSUME NEW j \in DOMAIN r
        PROVE  r[j] = IF j < i THEN s[j] ELSE s[j + 1]
    <3>1. CASE j < i
      BY SMTT(20), <1>1, <2>1, <2>4, <2>5, <3>1
    <3>2. CASE ~(j < i)
      <4>1. /\ j - (i - 1) \in 1..(Len(s) - i)
            /\ i + (j - (i - 1)) = j + 1
            /\ ~(j <= Len(p)) /\ j - Len(p) = j - (i - 1)
        <5> DEFINE n == Len(s)
        <5>1. n \in Nat /\ i \in 1..n /\ j \in 1..(n - 1) /\ Len(p) = i - 1
          BY <1>1, <2>1, <2>4, <2>5
        <5> HIDE DEF n
        <5>2. /\ j - (i - 1) \in 1..(n - i)
              /\ i + (j - (i - 1)) = j + 1
              /\ ~(j <= i - 1)
          BY <5>1, <3>2
        <5> QED
          BY <5>1, <5>2 DEF n
      <4>2. r[j] = q[j - (i - 1)]
        BY <2>4, <4>1
      <4> QED
        BY <2>2, <3>2, <4>1, <4>2
    <3> QED
      BY <3>1, <3>2
  <2> QED
    BY <2>4, <2>5, <2>6
<1> HIDE DEF r
<1>3. /\ \A j \in S : j \in 1..Len(s) /\ j # i /\ s[j] >= b
      /\ \A j \in 1..Len(s) : s[j] >= b => j \in S
  BY DEF Ahead
<1>4. /\ \A j \in T : j \in DOMAIN r /\ r[j] >= b
      /\ \A j \in DOMAIN r : r[j] >= b => j \in T
  BY DEF Ahead
<1> HIDE DEF S, T
<1>5. f \in [S -> T]
  <2> SUFFICES ASSUME NEW j \in S
               PROVE  (IF j < i THEN j ELSE j - 1) \in T
    OBVIOUS
  <2>1. CASE j < i
    BY <1>1, <1>2, <1>3, <1>4, <2>1
  <2>2. CASE ~(j < i)
    <3>1. j > i /\ j - 1 \in DOMAIN r /\ ~(j - 1 < i) /\ (j - 1) + 1 = j
      BY <1>1, <1>2, <1>3, <2>2
    <3>2. r[j - 1] = s[j]
      BY <1>2, <3>1
    <3> QED
      BY <1>3, <1>4, <2>2, <3>1, <3>2
  <2> QED
    BY <2>1, <2>2
<1>6. \A j, k \in S : f[j] = f[k] => j = k
  BY <1>1, <1>3
<1>7. \A k \in T : \E j \in S : f[j] = k
  <2> SUFFICES ASSUME NEW k \in T
               PROVE  \E j \in S : f[j] = k
    OBVIOUS
  <2>1. CASE k < i
    BY <1>1, <1>2, <1>3, <1>4, <2>1
  <2>2. CASE ~(k < i)
    <3>1. k + 1 \in 1..Len(s) /\ s[k + 1] = r[k] /\ ~(k + 1 < i)
          /\ (k + 1) - 1 = k
      BY <1>1, <1>2, <1>4, <2>2
    <3>2. k + 1 \in S
      BY <1>3, <1>4, <3>1
    <3> QED
      BY <3>1, <3>2
  <2> QED
    BY <2>1, <2>2
<1> HIDE DEF f
<1>8. f \in Bijection(S, T)
  BY <1>5, <1>6, <1>7 DEF Bijection, Injection, Surjection, IsInjective
<1>9. IsFiniteSet(S)
  BY AheadCount DEF S
<1>10. Cardinality(T) = Cardinality(S)
  BY <1>8, <1>9, FS_Bijection DEF ExistsBijection
<1> QED
  BY <1>10 DEF S, T, r

\* The tasks of a destroyed factory join the dead ones.
LEMMA JoinAhead ==
  ASSUME NEW s \in Seq(Nat), NEW r \in Seq(Nat), NEW b \in Nat
  PROVE  Cardinality(Ahead(s \o r, b))
           = Cardinality(Ahead(s, b)) + Cardinality(Ahead(r, b))
<1> DEFINE q == s \o r
           S == Ahead(s, b)
           R == Ahead(r, b)
           T == Ahead(q, b) \ S
           f == [j \in R |-> j + Len(s)]
<1>1. /\ Len(s) \in Nat /\ Len(r) \in Nat
      /\ DOMAIN s = 1..Len(s) /\ DOMAIN r = 1..Len(r)
      /\ DOMAIN q = 1..(Len(s) + Len(r))
      /\ \A j \in DOMAIN q : q[j] = IF j <= Len(s) THEN s[j]
                                                   ELSE r[j - Len(s)]
      /\ q \in Seq(Nat)
  OBVIOUS
<1> HIDE DEF q
<1>2. /\ \A j : j \in S <=> j \in DOMAIN s /\ s[j] >= b
      /\ \A j : j \in R <=> j \in DOMAIN r /\ r[j] >= b
      /\ \A j : j \in Ahead(q, b)
                  <=> j \in DOMAIN q /\ q[j] >= b
  BY DEF Ahead
<1>3. S \subseteq Ahead(q, b)
  <2> SUFFICES ASSUME NEW j \in DOMAIN s, s[j] >= b
               PROVE  j \in DOMAIN q /\ q[j] >= b
    BY <1>2
  <2>1. j \in DOMAIN q /\ j <= Len(s)
    BY <1>1
  <2>2. q[j] = s[j]
    BY <1>1, <2>1
  <2> QED
    BY <2>1, <2>2
<1>4. \A j : j \in T <=> /\ j \in DOMAIN q /\ j > Len(s)
                         /\ r[j - Len(s)] >= b
  <2>1. \A j : j \in T <=> j \in Ahead(q, b) /\ j \notin S
    OBVIOUS
  <2> HIDE DEF S, T
  <2> QED
    BY <1>1, <1>2, <2>1
<1> HIDE DEF S, R, T
<1>5. f \in [R -> T]
  <2> SUFFICES ASSUME NEW j \in R
               PROVE  j + Len(s) \in T
    OBVIOUS
  <2>1. j \in 1..Len(r) /\ r[j] >= b
    BY <1>1, <1>2
  <2>2. /\ j + Len(s) \in 1..(Len(s) + Len(r)) /\ j + Len(s) > Len(s)
        /\ (j + Len(s)) - Len(s) = j
    BY <1>1, <2>1
  <2> QED
    BY <1>1, <1>4, <2>1, <2>2
<1>6. \A j, k \in R : f[j] = f[k] => j = k
  BY <1>1, <1>2
<1>7. \A k \in T : \E j \in R : f[j] = k
  <2> SUFFICES ASSUME NEW k \in T
               PROVE  \E j \in R : f[j] = k
    OBVIOUS
  <2>1. k - Len(s) \in R /\ (k - Len(s)) + Len(s) = k
    BY SMTT(20), <1>1, <1>2, <1>4
  <2> QED
    BY <2>1
<1> HIDE DEF f
<1>8. f \in Bijection(R, T)
  BY <1>5, <1>6, <1>7 DEF Bijection, Injection, Surjection, IsInjective
<1>9. IsFiniteSet(R) /\ IsFiniteSet(S)
  BY AheadCount DEF R, S
<1>10. IsFiniteSet(T) /\ Cardinality(T) = Cardinality(R)
  BY <1>8, <1>9, FS_Bijection DEF ExistsBijection
<1>11. S \cap T = {} /\ S \cup T = Ahead(q, b)
  BY <1>3 DEF T
<1>12. Cardinality(S \cup T)
         = Cardinality(S) + Cardinality(T) - Cardinality(S \cap T)
  BY <1>9, <1>10, FS_Union
<1>13. Cardinality(S \cap T) = 0
  BY <1>11, FS_EmptySet
<1>14. Cardinality(S) \in Nat /\ Cardinality(T) \in Nat
  BY <1>9, <1>10, FS_CardinalityType
<1> QED
  <2>1. Cardinality(S \cup T) = Cardinality(S) + Cardinality(T)
    BY <1>12, <1>13, <1>14
  <2>2. Cardinality(Ahead(q, b)) = Cardinality(S) + Cardinality(R)
    BY <1>10, <1>11, <2>1
  <2> QED
    BY <2>2 DEF S, R, q

LEMMA AppendAhead ==
  ASSUME NEW s \in Seq(Nat), NEW b \in Nat, NEW x \in Nat, x < b
  PROVE  Ahead(Append(s, x), b) = Ahead(s, b)
<1>1. /\ DOMAIN s = 1..Len(s) /\ Len(s) \in Nat
      /\ DOMAIN Append(s, x) = 1..(Len(s) + 1)
      /\ \A j \in DOMAIN s : Append(s, x)[j] = s[j]
      /\ Append(s, x)[Len(s) + 1] = x
  OBVIOUS
<1> DEFINE q == Append(s, x)
<1> HIDE DEF q
<1>2. /\ \A j : j \in DOMAIN q <=> j \in DOMAIN s \/ j = Len(s) + 1
      /\ \A j \in DOMAIN s : q[j] = s[j]
      /\ ~(q[Len(s) + 1] >= b)
  BY <1>1 DEF q
<1>3. Ahead(q, b) = Ahead(s, b)
  BY <1>2 DEF Ahead
<1> QED
  BY <1>3 DEF q

\* Schedule replaces a task that is due by one that is ahead.
LEMMA ReplaceAhead ==
  ASSUME NEW s \in Seq(Nat), NEW b \in Nat, NEW x \in Nat, x >= b,
         NEW i \in DOMAIN s, i \notin Ahead(s, b)
  PROVE  Cardinality(Ahead([s EXCEPT ![i] = x], b))
           = Cardinality(Ahead(s, b)) + 1
<1>1. Ahead([s EXCEPT ![i] = x], b) = Ahead(s, b) \cup {i}
  BY DEF Ahead
<1>2. IsFiniteSet(Ahead(s, b))
  BY AheadCount
<1> QED
  BY <1>1, <1>2, FS_AddElement

LEMMA Monotone ==
  ASSUME NEW m \in Nat, NEW n \in Nat, NEW p \in Nat, m <= n
  PROVE  m * p <= n * p /\ p * m <= p * n
<1> DEFINE d == n - m
<1>1. d \in Nat /\ n = m + d
  OBVIOUS
<1> HIDE DEF d
<1>2. d * p \in Nat /\ (m + d) * p = m * p + d * p
  BY <1>1
<1>3. m * p = p * m /\ n * p = p * n
  BY <1>1
<1> QED
  BY <1>1, <1>2, <1>3

LEMMA NextProduct ==
  ASSUME NEW m \in Nat, NEW n \in Nat
  PROVE  m * (n + 1) = m * n + m /\ m * n \in Nat
  OBVIOUS

LEMMA PeriodsTyped ==
  ASSUME NEW t \in Nat
  PROVE  /\ Periods(t) \in Nat /\ NextPeriod(t) \in Nat
         /\ Periods(t) * Period <= t /\ t < NextPeriod(t)
<1>1. /\ Periods(t) \in Nat /\ Periods(t) * Period <= t
      /\ t < (Periods(t) + 1) * Period
  BY PeriodsBounds, TimedAssumption DEF Periods
<1>2. (Periods(t) + 1) * Period \in Nat
  BY <1>1, TimedAssumption
<1> QED
  BY <1>1, <1>2 DEF NextPeriod

LEMMA PeriodsGrow ==
  ASSUME NEW t \in Nat, NEW u \in Nat, t <= u
  PROVE  Periods(t) <= Periods(u)
<1> DEFINE k == Periods(t)
           n == Periods(u)
           x == (n + 1) * Period
           y == k * Period
<1>1. k \in Nat /\ n \in Nat /\ y <= t /\ u < x
  BY PeriodsTyped DEF NextPeriod
<1>2. x \in Nat /\ y \in Nat
  BY <1>1, TimedAssumption
<1>3. n + 1 <= k => x <= y
  <2> HIDE DEF k, n
  <2> QED
    BY <1>1, Monotone, TimedAssumption
<1> HIDE DEF k, n, x, y
<1>4. k <= n
  BY <1>1, <1>2, <1>3
<1> QED
  BY <1>4 DEF k, n

LEMMA WaitsTyped ==
  ASSUME NEW s \in Seq(Nat), NEW t \in Nat
  PROVE  Waits(s, t) \in Nat /\ Waits(s, t) <= Len(s)
  BY AheadCount, PeriodsTyped DEF Waits

LEMMA CountsTyped ==
  ASSUME TimedTypeOK
  PROVE  /\ now \in Nat /\ due \in Seq(Nat) /\ stale \in Seq(Nat)
         /\ Len(due) \in Nat /\ Len(stale) \in Nat
         /\ Made \in Nat /\ id \in Nat /\ id <= Made
<1>1. now \in Nat /\ due \in Seq(Nat) /\ stale \in Seq(Nat) /\ id \in Nat
  BY DEF TimedTypeOK
<1>2. Made \in Nat /\ id <= Made
  BY <1>1 DEF Made
<1> QED
  BY <1>1, <1>2

LEMMA OneMore ==
  ASSUME NEW n \in Nat
  PROVE  n + 0 \in Nat /\ n + 1 \in Nat
BY SMT

LEMMA CountsTypedNext ==
  ASSUME TimedTypeOK'
  PROVE  /\ now' \in Nat /\ due' \in Seq(Nat) /\ stale' \in Seq(Nat)
         /\ Made' \in Nat
<1>1. now' \in Nat /\ due' \in Seq(Nat) /\ stale' \in Seq(Nat)
  BY DEF TimedTypeOK
<1>2. id' \in Nat
  BY DEF TimedTypeOK
<1>3. id' + 0 \in Nat /\ id' + 1 \in Nat
  BY <1>2, OneMore
<1>4. CASE factory' = "notify"
  <2>1. Made' = id' + 1
    BY <1>4 DEF Made
  <2> QED
    BY <1>1, <1>3, <2>1
<1>5. CASE factory' # "notify"
  <2>1. Made' = id' + 0
    BY <1>5 DEF Made
  <2> QED
    BY <1>1, <1>3, <2>1
<1> QED
  BY <1>4, <1>5

\* The end of a period: every task may have produced once more.
LEMMA SpeedBound ==
  ASSUME TimedTypeOK, SpeedInv
  PROVE  Made <= MaxPending * (Periods(now) + 1)
<1> DEFINE c == Waits(due, now)
           d == Waits(stale, now)
           m == MaxPending * Periods(now)
<1>1. /\ c \in Nat /\ c <= Len(due) /\ Len(due) \in Nat
      /\ d \in Nat /\ d <= Len(stale) /\ Len(stale) \in Nat
  BY CountsTyped, WaitsTyped
<1>2. /\ MaxPending * (Periods(now) + 1) = m + MaxPending
      /\ m \in Nat /\ MaxPending \in Nat
  BY CountsTyped, NextProduct, PeriodsTyped, TimedAssumption
<1>3. Made \in Nat /\ Made <= m + c + d /\ Len(due) + Len(stale) <= MaxPending
  BY CountsTyped DEF SpeedInv
<1> HIDE DEF c, d, m
<1> QED
  BY <1>1, <1>2, <1>3

\* While no period ends, a step that makes a data sets a task ahead.
LEMMA SpeedSame ==
  ASSUME TimedTypeOK, TimedTypeOK', SpeedInv, Periods(now') = Periods(now),
         Len(due') + Len(stale') <= MaxPending,
         NEW n \in Int, Made' <= Made + n,
         Waits(due', now) + Waits(stale', now)
           = Waits(due, now) + Waits(stale, now) + n
  PROVE  SpeedInv'
<1> DEFINE c == Waits(due, now)
           d == Waits(stale, now)
           e == Waits(due', now)
           f == Waits(stale', now)
           m == MaxPending * Periods(now)
<1>1. c \in Nat /\ d \in Nat /\ e \in Nat /\ f \in Nat
  BY CountsTyped, CountsTypedNext, WaitsTyped
<1>2. m \in Nat
  BY CountsTyped, NextProduct, PeriodsTyped, TimedAssumption
<1>3. Made \in Nat /\ Made' \in Nat
  BY CountsTyped, CountsTypedNext
<1>4. Made <= m + c + d /\ Made' <= Made + n /\ e + f = c + d + n
  BY DEF SpeedInv
<1>5. Waits(due', now') = e /\ Waits(stale', now') = f
      /\ MaxPending * Periods(now') = m
  BY DEF Waits, NextPeriod
<1> HIDE DEF c, d, e, f, m
<1>6. Made' <= m + e + f
  BY <1>1, <1>2, <1>3, <1>4
<1> QED
  BY <1>5, <1>6 DEF SpeedInv

LEMMA SpeedTick ==
  ASSUME TimedTypeOK, TimedTypeOK', SpeedInv, Tick
  PROVE  SpeedInv'
<1>1. /\ now' = now + 1 /\ due' = due /\ stale' = stale /\ Made' = Made
      /\ now \in Nat
  BY CountsTyped DEF Tick, Made
<1>2. CASE Periods(now') = Periods(now)
  <2>1. /\ Waits(due, now) \in Nat /\ Waits(stale, now) \in Nat
        /\ Made \in Nat
    BY CountsTyped, WaitsTyped
  <2>2. /\ Made' <= Made + 0
        /\ Waits(due', now) + Waits(stale', now)
             = Waits(due, now) + Waits(stale, now) + 0
    BY <1>1, <2>1
  <2>3. Len(due') + Len(stale') <= MaxPending
    BY <1>1 DEF SpeedInv
  <2> QED
    BY <1>2, <2>2, <2>3, SpeedSame
<1>3. CASE Periods(now') # Periods(now)
  <2> DEFINE k == Periods(now)
             n == Periods(now')
             c == Waits(due', now')
             d == Waits(stale', now')
             x == MaxPending * (k + 1)
             y == MaxPending * n
  <2>1. now \in Nat /\ now' \in Nat /\ now <= now'
    BY <1>1
  <2>2. k \in Nat /\ n \in Nat /\ k <= n /\ k # n
    BY <1>3, <2>1, PeriodsTyped, PeriodsGrow
  <2>3. c \in Nat /\ d \in Nat
    BY CountsTypedNext, WaitsTyped
  <2>4. Made' \in Nat /\ Made' <= x
    BY <1>1, CountsTypedNext, SpeedBound
  <2> HIDE DEF c, d, k, n
  <2>5. x <= y /\ x \in Nat /\ y \in Nat
    BY <2>2, Monotone, TimedAssumption
  <2> HIDE DEF x, y
  <2>6. Made' <= y + c + d
    BY <2>3, <2>4, <2>5
  <2>7. Len(due') + Len(stale') <= MaxPending
    BY <1>1 DEF SpeedInv
  <2> QED
    BY <2>6, <2>7 DEF SpeedInv, c, d, y, n
<1> QED
  BY <1>2, <1>3


LEMMA SpeedStep ==
  ASSUME TimedTypeOK, TimedTypeOK', SpeedInv, [TimedNext]_timedVars
  PROVE  SpeedInv'
<1> DEFINE b == NextPeriod(now)
<1>1. /\ b \in Nat /\ now < b /\ now \in Nat
      /\ due \in Seq(Nat) /\ stale \in Seq(Nat)
      /\ Made \in Nat
  BY CountsTyped, PeriodsTyped
<1>2. /\ Waits(due, now) \in Nat /\ Waits(stale, now) \in Nat
      /\ Waits(due, now) = Cardinality(Ahead(due, b))
      /\ Waits(stale, now) = Cardinality(Ahead(stale, b))
  BY <1>1, WaitsTyped DEF Waits
<1> HIDE DEF b
<1>3. ASSUME now' = now, UNCHANGED <<due, stale>>, Made' <= Made
      PROVE  SpeedInv'
  <2>1. /\ Made' <= Made + 0
        /\ Waits(due', now) + Waits(stale', now)
             = Waits(due, now) + Waits(stale, now) + 0
        /\ Made' \in Nat
    BY <1>1, <1>2, <1>3, CountsTypedNext
  <2> QED
    BY <1>3, <2>1, SpeedSame DEF SpeedInv
<1>4. CASE CreateFactory \/ Stop \/ ProduceDone \/ Destroy
             \/ UNCHANGED timedVars
  <2>1. now' = now /\ UNCHANGED <<due, stale>>
    BY <1>4 DEF CreateFactory, Stop, ProduceDone, Destroy, timedVars
  <2>2. Made' <= Made
    <3>1. id \in Nat
      BY CountsTyped
    <3> QED
      BY <1>4, <3>1 DEF CreateFactory, Stop, ProduceDone, Destroy, timedVars,
         Made
  <2> QED
    BY <1>3, <2>1, <2>2
<1>5. CASE Start
  <2>1. /\ now' = now /\ stale' = stale /\ due' = Append(due, now)
        /\ Made' = Made /\ Len(due) + Len(stale) < MaxPending
    BY <1>5 DEF Start, Made
  <2>2. Ahead(due', b) = Ahead(due, b)
    BY <1>1, <2>1, AppendAhead
  <2>3. Waits(due', now) = Waits(due, now)
    BY <2>2 DEF Waits, b
  <2>4. Len(due') = Len(due) + 1 /\ Len(due) \in Nat /\ Len(stale) \in Nat
    BY <1>1, <2>1
  <2>5. Len(due') + Len(stale') <= MaxPending
    BY <2>1, <2>4, TimedAssumption
  <2>6. /\ Made' <= Made + 0
        /\ Waits(due', now) + Waits(stale', now)
             = Waits(due, now) + Waits(stale, now) + 0
    BY <1>1, <1>2, <2>1, <2>3
  <2> QED
    BY <2>1, <2>5, <2>6, SpeedSame
<1>6. CASE ScheduleProduce
  <2>1. PICK i \in DOMAIN due :
          due[i] <= now /\ due' = [due EXCEPT ![i] = now + Period]
    BY <1>6 DEF ScheduleProduce
  <2>2. now' = now /\ stale' = stale /\ Made' = Made + 1
    BY <1>6, CountsTyped DEF ScheduleProduce, Made
  <2>3. now + Period \in Nat /\ now + Period >= b
    <3>1. /\ Periods(now) \in Nat /\ Periods(now) * Period <= now
          /\ b = Periods(now) * Period + Period
      BY <1>1, PeriodsTyped, TimedAssumption DEF b, NextPeriod
    <3> DEFINE y == Periods(now) * Period
    <3>2. y \in Nat /\ y <= now /\ b = y + Period
      BY <3>1, TimedAssumption
    <3> HIDE DEF y
    <3> QED
      BY <1>1, <3>2, TimedAssumption
  <2>4. i \notin Ahead(due, b)
    BY <1>1, <2>1 DEF Ahead
  <2>5. Cardinality(Ahead(due', b)) = Cardinality(Ahead(due, b)) + 1
    BY <1>1, <2>1, <2>3, <2>4, ReplaceAhead
  <2>6. Waits(due', now) = Waits(due, now) + 1
    BY <1>2, <2>5 DEF Waits, b
  <2>7. Len(due') = Len(due)
    BY <1>1, <2>1
  <2>8. /\ Made' <= Made + 1
        /\ Waits(due', now) + Waits(stale', now)
             = Waits(due, now) + Waits(stale, now) + 1
    BY <1>1, <1>2, <2>2, <2>6
  <2> QED
    BY <2>2, <2>7, <2>8, SpeedSame DEF SpeedInv
<1>7. CASE ScheduleStopped
  <2>1. PICK i \in DOMAIN due : due[i] <= now /\ due' = RemoveAt(due, i)
    BY <1>7 DEF ScheduleStopped
  <2>2. now' = now /\ stale' = stale /\ Made' = Made
    BY <1>7 DEF ScheduleStopped, Made
  <2>3. i \notin Ahead(due, b)
    BY <1>1, <2>1 DEF Ahead
  <2>4. Waits(due', now) = Waits(due, now)
    BY <1>1, <2>1, <2>3, RemoveAhead DEF Waits, b
  <2>5. Len(due') = Len(due) - 1 /\ Len(due) \in Nat /\ Len(stale) \in Nat
    BY <1>1, <2>1, RemoveTyped
  <2>6. Len(due') + Len(stale') <= MaxPending
    BY <2>2, <2>5, TimedAssumption DEF SpeedInv
  <2>7. /\ Made' <= Made + 0
        /\ Waits(due', now) + Waits(stale', now)
             = Waits(due, now) + Waits(stale, now) + 0
    BY <1>1, <1>2, <2>2, <2>4
  <2> QED
    BY <2>2, <2>6, <2>7, SpeedSame
<1>8. CASE ScheduleCancelled
  <2>1. PICK i \in DOMAIN stale :
          stale[i] <= now /\ stale' = RemoveAt(stale, i)
    BY <1>8 DEF ScheduleCancelled
  <2>2. now' = now /\ due' = due /\ Made' = Made
    BY <1>8 DEF ScheduleCancelled, Made
  <2>3. i \notin Ahead(stale, b)
    BY <1>1, <2>1 DEF Ahead
  <2>4. Waits(stale', now) = Waits(stale, now)
    BY <1>1, <2>1, <2>3, RemoveAhead DEF Waits, b
  <2>5. Len(stale') = Len(stale) - 1 /\ Len(due) \in Nat /\ Len(stale) \in Nat
    BY SMTT(20), <1>1, <2>1, RemoveTyped
  <2>6. Len(due') + Len(stale') <= MaxPending
    BY <2>2, <2>5, TimedAssumption DEF SpeedInv
  <2>7. /\ Made' <= Made + 0
        /\ Waits(due', now) + Waits(stale', now)
             = Waits(due, now) + Waits(stale, now) + 0
    BY <1>1, <1>2, <2>2, <2>4
  <2> QED
    BY <2>2, <2>6, <2>7, SpeedSame
<1>9. CASE DestroyDone
  <2>1. /\ now' = now /\ due' = <<>> /\ stale' = stale \o due
        /\ Made' = Made
    BY <1>9 DEF DestroyDone, Made
  <2>2. Waits(stale', now) = Waits(stale, now) + Waits(due, now)
    BY <1>1, <2>1, JoinAhead DEF Waits, b
  <2>3. Waits(due', now) = 0
    BY <2>1, FS_EmptySet DEF Waits, Ahead
  <2>4. /\ Len(due') = 0 /\ Len(stale') = Len(stale) + Len(due)
        /\ Len(due) \in Nat /\ Len(stale) \in Nat
    BY <1>1, <2>1
  <2>5. Len(due') + Len(stale') <= MaxPending
    BY <2>4 DEF SpeedInv
  <2>6. /\ Made' <= Made + 0
        /\ Waits(due', now) + Waits(stale', now)
             = Waits(due, now) + Waits(stale, now) + 0
    BY <1>1, <1>2, <2>1, <2>2, <2>3
  <2> QED
    BY <2>1, <2>5, <2>6, SpeedSame
<1> QED
  BY <1>4, <1>5, <1>6, <1>7, <1>8, <1>9, SpeedTick DEF TimedNext

\* "speed ad 1000 a second" (factory.cc:83), as far as it holds: n Schedule
\* tasks, dead ones included, make no more than n data per period, for every
\* period, delay and history of Start, Stop, Destroy and Create.
THEOREM TimedSpeedLimit == TimedSpec => []SpeedLimit
<1>1. TimedInit => SpeedInv
  <2> SUFFICES ASSUME TimedInit
               PROVE  SpeedInv
    OBVIOUS
  <2>1. /\ now \in Nat /\ Periods(now) \in Nat
        /\ due \in Seq(Nat) /\ stale \in Seq(Nat)
    BY PeriodsTyped DEF TimedInit
  <2>2. /\ Waits(due, now) \in Nat /\ Waits(stale, now) \in Nat
        /\ MaxPending * Periods(now) \in Nat
    BY <2>1, WaitsTyped, NextProduct, TimedAssumption
  <2>3. Made = 0 /\ Len(due) + Len(stale) = 0
    BY DEF TimedInit, Made
  <2> DEFINE x == MaxPending * Periods(now)
  <2> HIDE DEF x
  <2>4. Made <= x + Waits(due, now) + Waits(stale, now)
    BY <2>2, <2>3 DEF x
  <2> QED
    BY <2>3, <2>4, TimedAssumption DEF SpeedInv, x
<1>2. TimedTypeOK /\ SpeedInv => SpeedLimit
  <2> SUFFICES ASSUME TimedTypeOK, SpeedInv
               PROVE  SpeedLimit
    OBVIOUS
  <2> DEFINE x == MaxPending * (Periods(now) + 1)
  <2>1. Made <= x /\ id <= Made /\ id \in Nat /\ Made \in Nat
    BY SpeedBound, CountsTyped
  <2>2. x \in Nat
    <3> DEFINE n == Periods(now) + 1
    <3>1. now \in Nat
      BY CountsTyped
    <3>2. Periods(now) \in Nat
      BY <3>1, PeriodsTyped
    <3>3. n \in Nat
      BY <3>2
    <3>4. MaxPending \in Nat
      BY TimedAssumption
    <3> HIDE DEF n
    <3> QED
      BY <3>3, <3>4, NextProduct DEF n
  <2> HIDE DEF x
  <2>3. id <= x
    BY <2>1, <2>2
  <2> QED
    BY <2>3 DEF SpeedLimit, Periods, x
<1> QED
  BY <1>1, <1>2, SpeedStep, TimedTyped, PTL DEF TimedSpec

-----------------------------------------------------------------------------
(* The limiter of FreqFactoryHost.                                          *)

\* The numbers the limiter works with.
LimiterTypes ==
  /\ now \in Int /\ wall \in Int /\ last \in Int
  /\ count \in Nat
  /\ first \in Int /\ firstAt \in Int /\ lastAt \in Int /\ dataAt \in Int
  /\ ahead \in Nat /\ back \in Nat

\* The inductive invariant, LimiterInv.  last_notify_time_ is on the grid that starts at
\* the first data; the clocks differ by the adjustments; and the grid point
\* of the last notification was not ahead of the wall clock at the time.
LimiterBounds ==
  /\ wall - first = (now - firstAt) + ahead - back
  /\ last + (now - lastAt) <= wall + back
  /\ last - first = (count - 1) * Delta
  /\ last - first <= lastAt - firstAt + ahead
  /\ firstAt <= dataAt /\ dataAt <= now /\ lastAt <= dataAt
  /\ dataAt - lastAt <= Delta + back
  /\ steady => /\ ahead = 0 /\ back = 0
               /\ Delta > 0 => dataAt - firstAt < (last - first) + Delta

LimiterInv ==
  /\ count = 0 => last = NoTime
  /\ count > 0 => LimiterBounds

LEMMA NextPoint ==
  ASSUME NEW n \in Nat, n > 0
  PROVE  /\ (n + 1) - 1 = n
         /\ ((n + 1) - 1) * Delta = (n - 1) * Delta + Delta
         /\ n * Delta = (n - 1) * Delta + Delta
<1>1. Delta \in Int
  BY LimiterAssumption
<1>2. PICK m \in Nat : n = m + 1
  BY n - 1 \in Nat, n = (n - 1) + 1
<1>3. (m + 1) * Delta = m * Delta + Delta
  BY <1>1
<1> QED
  BY <1>1, <1>2, <1>3

LEMMA StepTyped ==
  ASSUME LimiterTypes, [FreqNext]_freqVars
  PROVE  LimiterTypes'
<1> USE LimiterAssumption DEF LimiterTypes, limiterVars, timedVars
<1>1. CASE CreateStub
  BY <1>1 DEF CreateStub, NoTime
<1>2. CASE DeleteStub
  BY <1>2 DEF DeleteStub, NoTime
<1>3. CASE FirstData
  BY <1>3 DEF FirstData
<1>4. CASE Forward
  BY <1>4 DEF Forward
<1>5. CASE Skip
  BY <1>5 DEF Skip
<1>6. CASE FactoryStep
  BY <1>6 DEF FactoryStep, ScheduleProduce, ProduceDone, DestroyDone,
     CreateFactory, Start, Stop, ScheduleStopped, ScheduleCancelled, Destroy
<1>7. CASE TickBoth
  BY <1>7 DEF TickBoth, Tick
<1>8. CASE AdjustClock
  BY <1>8 DEF AdjustClock
<1>9. CASE UNCHANGED freqVars
  BY <1>9 DEF freqVars
<1> QED
  BY <1>1, <1>2, <1>3, <1>4, <1>5, <1>6, <1>7, <1>8, <1>9 DEF FreqNext

\* A step that leaves the limiter and both clocks alone.
LEMMA ClocksAlone ==
  ASSUME LimiterInv, now' = now, wall' = wall, last' = last, count' = count,
         first' = first, firstAt' = firstAt, lastAt' = lastAt,
         dataAt' = dataAt, ahead' = ahead, back' = back, steady' = steady
  PROVE  LimiterInv'
  BY DEF LimiterInv, LimiterBounds

LEMMA DataStep ==
  ASSUME LimiterTypes, LimiterInv, Forward \/ Skip
  PROVE  LimiterInv'
<1> USE LimiterAssumption DEF LimiterTypes
<1>0. count > 0
  BY DEF Forward, Skip, LimiterInv
<1> USE <1>0
<1>1. CASE Forward
  <2>1. (count' - 1) * Delta = (count - 1) * Delta + Delta
    BY <1>1, NextPoint DEF Forward
  <2>2. last' - first' = (count' - 1) * Delta
    BY <1>1, <2>1 DEF Forward, LimiterInv, LimiterBounds
  <2>3. steady' => steady /\ now <= dataAt + Delta
    BY <1>1 DEF Forward
  <2> QED
    BY <1>1, <2>2, <2>3 DEF Forward, LimiterInv, LimiterBounds, timedVars
<1>2. CASE Skip
  <2>1. last' - first' = (count' - 1) * Delta
    BY <1>2 DEF Skip, LimiterInv, LimiterBounds
  <2>2. steady' => steady /\ now <= dataAt + Delta
    BY <1>2 DEF Skip
  <2> QED
    BY <1>2, <2>1, <2>2 DEF Skip, LimiterInv, LimiterBounds, timedVars
<1> QED
  BY <1>1, <1>2
LEMMA LimiterStep ==
  ASSUME LimiterTypes, LimiterInv, [FreqNext]_freqVars
  PROVE  LimiterInv'
<1> USE LimiterAssumption DEF LimiterTypes, LimiterInv, LimiterBounds,
        limiterVars, timedVars
<1>1. CASE CreateStub \/ DeleteStub
  BY <1>1 DEF CreateStub, DeleteStub
<1>2. CASE FirstData
  <2>1. (1 - 1) * Delta = 0
    OBVIOUS
  <2> QED
    BY <1>2, <2>1 DEF FirstData
<1>3. CASE Forward \/ Skip
  BY <1>3, DataStep
<1>4. CASE FactoryStep
  <2>1. now' = now
    BY <1>4 DEF FactoryStep, ScheduleProduce, ProduceDone, DestroyDone,
       CreateFactory, Start, Stop, ScheduleStopped, ScheduleCancelled, Destroy
  <2> QED
    BY <1>4, <2>1, ClocksAlone DEF FactoryStep
<1>5. CASE TickBoth
  BY <1>5 DEF TickBoth, Tick
<1>6. CASE AdjustClock
  BY <1>6 DEF AdjustClock
<1>7. CASE UNCHANGED freqVars
  BY <1>7, ClocksAlone DEF freqVars
<1> QED
  BY <1>1, <1>2, <1>3, <1>4, <1>5, <1>6, <1>7 DEF FreqNext

LEMMA LimiterInvariant == FreqSpec => [](LimiterTypes /\ LimiterInv)
<1>1. FreqInit => LimiterTypes /\ LimiterInv
  BY LimiterAssumption DEF FreqInit, TimedInit, LimiterTypes, LimiterInv, NoTime
<1>2. LimiterTypes /\ LimiterInv /\ [FreqNext]_freqVars
        => LimiterTypes' /\ LimiterInv'
  BY StepTyped, LimiterStep
<1> QED
  BY <1>1, <1>2, PTL DEF FreqSpec

\* The limiter keeps freq_ as an upper bound (freq_factory_host.cc:31): n data
\* take at least n - 1 periods of ticks, whatever the factory's rate.
THEOREM HostRateLimited == FreqSpec => []RateLimited
<1>1. LimiterTypes /\ LimiterInv => RateLimited
  BY DEF LimiterTypes, LimiterInv, LimiterBounds, RateLimited
<1> QED
  BY <1>1, LimiterInvariant, PTL

\* And as a lower bound, "no now + delta, keep the freq"
\* (freq_factory_host.cc:33), as long as the data keep coming.
THEOREM HostKeepsFreq == FreqSpec => []KeepsFreq
<1>1. LimiterTypes /\ LimiterInv => KeepsFreq
  <2> SUFFICES ASSUME LimiterTypes, LimiterInv, count > 0, steady, Delta > 0
               PROVE  dataAt - firstAt < count * Delta
    BY DEF KeepsFreq
  <2>1. count * Delta = (count - 1) * Delta + Delta
    BY NextPoint DEF LimiterTypes
  <2>2. (count - 1) * Delta = last - first
    BY DEF LimiterInv, LimiterBounds
  <2>3. dataAt - firstAt < (last - first) + Delta
    BY DEF LimiterInv, LimiterBounds
  <2> QED
    BY <2>1, <2>2, <2>3
<1> QED
  BY <1>1, LimiterInvariant, PTL

\* The silence of a limiter is bounded by its period and by what the wall
\* clock was set back (freq_factory_host.cc:31).
THEOREM HostNeverSilent == FreqSpec => []NeverSilent
<1>1. LimiterTypes /\ LimiterInv => NeverSilent
  BY DEF LimiterTypes, LimiterInv, LimiterBounds, NeverSilent
<1> QED
  BY <1>1, LimiterInvariant, PTL

\* All three, for every frequency: the host gets data at the rate it asked for
\* (freq_factory_host.cc:17-37).
THEOREM HostKeepsRate == FreqSpec => []KeepsRate
<1>1. RateLimited /\ KeepsFreq /\ NeverSilent => KeepsRate
  BY DEF KeepsRate
<1> QED
  BY <1>1, HostRateLimited, HostKeepsFreq, HostNeverSilent, PTL
=============================================================================
