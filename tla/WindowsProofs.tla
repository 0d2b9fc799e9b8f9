---------------------------- MODULE WindowsProofs -----------------------------
(* The parts of the library that are Windows' own.                           *)
(* TimeTicks: for every width of the counter, every number of threads and    *)
(* every time since the start, the ticks do not decrease, and they are the   *)
(* time since Windows has started but for whole roll overs that nobody was   *)
(* there to see.  The lease of the high-resolution timer: its activations    *)
(* are paired.  Thread local storage: its key, its tables and their end.     *)
(* The message pump for UI threads: for any number of threads that post, any *)
(* queue of Windows and any number of tasks, messages and nested loops, one  *)
(* kMsgHaveWork at most is under way, have_work_ says whether one is, and a  *)
(* pump with tasks does not sleep but for the reasons that "missed" names.   *)
(* That proof needs to know which frame of the stack calls which, whether    *)
(* tasks may nest in a modal loop when what it called returns, and where     *)
(* work must be scheduled before the pump gets to sleep.                     *)
EXTENDS WinTicks, TimerLease, WinThreadLocal, WinMessagePump, FiniteSetTheorems,
        SequenceTheorems, TLAPS

-----------------------------------------------------------------------------
(* TimeTicks.                                                                *)

\* What timeGetTime() may return.
Milliseconds == 0 .. Rollover - 1

\* The lengths of any number of roll overs.
Whole == {m * Rollover : m \in Nat}

-----------------------------------------------------------------------------
(* Numbers as roll overs and a rest.                                         *)

LEMMA WholeNat == Whole \subseteq Nat
  BY TicksAssumption DEF Whole

LEMMA WholeZero == 0 \in Whole
<1>1. 0 * Rollover = 0
  BY TicksAssumption
<1> QED
  BY <1>1 DEF Whole

LEMMA WholeNext == \A p \in Whole : p + Rollover \in Whole
<1> SUFFICES ASSUME NEW p \in Whole PROVE p + Rollover \in Whole
  OBVIOUS
<1>1. PICK m \in Nat : p = m * Rollover
  BY DEF Whole
<1>2. (m + 1) * Rollover = p + Rollover
  BY <1>1, TicksAssumption
<1> QED
  BY <1>2 DEF Whole

\* Two of them differ by whole roll overs.
LEMMA WholeDifference ==
  \A p, q \in Whole : p < q => q - p \in Whole /\ p + Rollover <= q
<1> SUFFICES ASSUME NEW p \in Whole, NEW q \in Whole, p < q
             PROVE  q - p \in Whole /\ p + Rollover <= q
  OBVIOUS
<1>1. PICK m \in Nat, j \in Nat : p = m * Rollover /\ q = j * Rollover
  BY DEF Whole
<1>2. m < j
  <2>1. CASE j <= m
    <3>1. PICK d \in Nat : m = j + d
      BY <2>1
    <3>2. p = q + d * Rollover /\ d * Rollover \in Nat
      BY <1>1, <3>1, TicksAssumption
    <3> QED
      BY <3>2, WholeNat
  <2> QED
    BY <2>1
<1>3. PICK d \in Nat : j = m + 1 + d
  <2>1. j - m - 1 \in Nat /\ j = m + 1 + (j - m - 1)
    BY <1>2
  <2> QED
    BY <2>1
<1>4. /\ q = p + Rollover + d * Rollover
      /\ q = p + (d + 1) * Rollover
      /\ d * Rollover \in Nat
      /\ (d + 1) * Rollover \in Nat
  BY <1>1, <1>3, TicksAssumption
<1>5. PICK e \in Nat : e = d * Rollover
  BY <1>4
<1>6. PICK f \in Whole : f = (d + 1) * Rollover
  BY DEF Whole
<1>7. q = p + Rollover + e /\ q = p + f
  BY <1>4, <1>5, <1>6
<1> QED
  BY <1>7, WholeNat, TicksAssumption

\* A counter that rolls over keeps the rest.
LEMMA Splits ==
  \A n \in Nat : \E p \in Whole : \E r \in Milliseconds :
    r = n % Rollover /\ n = p + r
<1> SUFFICES ASSUME NEW n \in Nat
             PROVE  \E p \in Whole : \E r \in Milliseconds :
                      r = n % Rollover /\ n = p + r
  OBVIOUS
<1>1. PICK j \in Nat : j = n \div Rollover
  BY TicksAssumption
<1>2. PICK r \in Milliseconds : r = n % Rollover
  BY TicksAssumption DEF Milliseconds
<1>3. r = n - Rollover * j
  BY <1>1, <1>2, TicksAssumption
<1>4. PICK p \in Whole : p = Rollover * j
  <2>1. j * Rollover = Rollover * j
    BY TicksAssumption
  <2> QED
    BY <2>1 DEF Whole
<1>5. r = n - p
  BY <1>3, <1>4
<1>6. n = p + r
  BY <1>5, WholeNat DEF Milliseconds
<1> QED
  BY <1>2, <1>4, <1>6

\* And there is only one way to split a number.
LEMMA SplitsOnce ==
  \A p, q \in Whole : \A a, b \in Milliseconds : p + a = q + b => p = q /\ a = b
<1> SUFFICES ASSUME NEW p \in Whole, NEW q \in Whole, NEW a \in Milliseconds,
                    NEW b \in Milliseconds, p + a = q + b
             PROVE  p = q /\ a = b
  OBVIOUS
<1>1. p < q => p + Rollover <= q
  BY WholeDifference
<1>2. q < p => q + Rollover <= p
  BY WholeDifference
<1> QED
  BY <1>1, <1>2, WholeNat, TicksAssumption DEF Milliseconds

LEMMA WholeHasNoRest == \A p \in Whole : p % Rollover = 0
<1> SUFFICES ASSUME NEW p \in Whole PROVE p % Rollover = 0
  OBVIOUS
<1>1. p \in Nat
  BY WholeNat
<1>2. PICK q \in Whole, r \in Milliseconds : r = p % Rollover /\ p = q + r
  BY <1>1, Splits
<1>3. 0 \in Milliseconds /\ p + 0 = q + r
  BY <1>1, <1>2, TicksAssumption DEF Milliseconds
<1>4. 0 = r
  BY <1>3, SplitsOnce
<1> QED
  BY <1>2, <1>4

\* What RolloverProtectedNow makes of a reading p + now of the counter after one
\* of last, with the roll overs r counted by then.
LEMMA Protected ==
  ASSUME NEW r \in Whole, NEW p \in Whole, NEW last \in Milliseconds,
         NEW now \in Milliseconds, r + last <= p + now,
         NEW r2, r2 = r + (IF now < last THEN Rollover ELSE 0)
  PROVE  /\ r2 \in Whole
         /\ r + last <= now + r2
         /\ now + r2 <= p + now
         /\ (p + now) - (now + r2) \in Whole
         /\ p + now < r + last + Rollover => p + now = now + r2
<1>1. r2 \in Whole /\ r2 \in Nat /\ r \in Nat /\ p \in Nat
  BY WholeNext, WholeNat, TicksAssumption
<1>2. r <= p /\ (now < last => r < p)
  <2>1. p < r => p + Rollover <= r
    BY WholeDifference
  <2> QED
    BY <1>1, <2>1, TicksAssumption DEF Milliseconds
<1>3. r < p => r + Rollover <= p
  BY WholeDifference
<1>4. r2 <= p
  BY <1>1, <1>2, <1>3, TicksAssumption
<1>5. r2 < p => p - r2 \in Whole /\ r2 + Rollover <= p
  BY <1>1, WholeDifference
<1>6. p - r2 \in Whole
  BY <1>1, <1>4, <1>5, WholeZero
<1>7. (p + now) - (now + r2) = p - r2
  BY <1>1 DEF Milliseconds
<1>8. p + now < r + last + Rollover => p = r2
  BY <1>1, <1>4, <1>5, TicksAssumption DEF Milliseconds
<1> QED
  BY <1>1, <1>4, <1>6, <1>7, <1>8, TicksAssumption DEF Milliseconds

-----------------------------------------------------------------------------
(* The invariant.                                                            *)

Holds(t) == ticking[t].at = "holds"

TicksTyped ==
  /\ boot \in Nat /\ read \in Nat /\ read <= boot
  /\ rollover_ms \in Whole /\ last_seen_now \in Milliseconds
  /\ returned = rollover_ms + last_seen_now
  /\ seldom \in BOOLEAN
  /\ ticking \in [TickUser -> [at : {"outside", "locked", "holds"}, now : Nat]]

\* The lock is held by the one thread that is inside.
OneInside == \A t \in TickUser : ticking[t].at # "outside" => rollover_lock = t

\* While nobody has a reading, the ticks are those of the last one, but for whole
\* roll overs; a reading is less than a roll over ahead, unless it is seldom.
ReadingFollows ==
  /\ returned <= read
  /\ ~seldom => boot < read + Rollover
  /\ (\A t \in TickUser : ~Holds(t)) =>
       read - returned \in Whole /\ (~seldom => returned = read)
  /\ \A t \in TickUser : Holds(t) =>
       /\ ticking[t].now \in Milliseconds
       /\ \E p \in Whole : read = p + ticking[t].now
       /\ ~seldom => read < returned + Rollover

TicksInv == TicksTyped /\ OneInside /\ ReadingFollows

LEMMA ReturnedNat == TicksTyped => returned \in Nat /\ rollover_ms \in Nat
  BY WholeNat DEF TicksTyped, Milliseconds

LEMMA TicksInitInv == TicksInit => TicksInv
<1> SUFFICES ASSUME TicksInit PROVE TicksInv
  OBVIOUS
<1>1. TicksTyped
  BY WholeZero, TicksAssumption
  DEF TicksInit, TicksTyped, Milliseconds, Outside
<1>2. OneInside
  BY DEF TicksInit, OneInside, Outside
<1>3. ReadingFollows
  <2>1. returned <= read /\ read - returned \in Whole /\ returned = read
    BY WholeZero DEF TicksInit
  <2>2. ~seldom => boot < read + Rollover
    <3>1. boot \in Nat /\ read = 0 /\ (boot < Rollover \/ boot >= Rollover)
      BY TicksAssumption DEF TicksInit
    <3>2. ~seldom => ~(boot >= Rollover)
      BY Zenon DEF TicksInit
    <3> QED
      BY <3>1, <3>2, TicksAssumption
  <2>3. \A t \in TickUser : ~Holds(t)
    BY DEF TicksInit, Holds, Outside
  <2> QED
    BY <2>1, <2>2, <2>3 DEF ReadingFollows
<1> QED
  BY <1>1, <1>2, <1>3 DEF TicksInv

LEMMA LockKeeps == \A t \in TickUser : TicksInv /\ Lock(t) => TicksInv'
<1> SUFFICES ASSUME NEW t \in TickUser, TicksInv, Lock(t) PROVE TicksInv'
  OBVIOUS
<1> USE DEF TicksInv, Lock
<1>1. TicksTyped'
  BY DEF TicksTyped
<1>2. OneInside'
  BY TicksAssumption DEF OneInside, TicksTyped, Nobody
<1>3. ReadingFollows'
  <2>1. \A u \in TickUser : ~Holds(u) /\ ~Holds(u)'
    BY TicksAssumption DEF Holds, OneInside, TicksTyped, Nobody
  <2> QED
    BY <2>1 DEF ReadingFollows
<1> QED
  BY <1>1, <1>2, <1>3

LEMMA TickFunctionKeeps ==
  \A t \in TickUser : TicksInv /\ TickFunction(t) => TicksInv'
<1> SUFFICES ASSUME NEW t \in TickUser, TicksInv, TickFunction(t) PROVE TicksInv'
  OBVIOUS
<1> USE DEF TicksInv, TickFunction
<1>1. PICK p \in Whole, r \in Milliseconds : r = boot % Rollover /\ boot = p + r
  BY Splits DEF TicksTyped
<1>2. TicksTyped'
  BY <1>1, TicksAssumption DEF TicksTyped, Milliseconds
<1>3. OneInside'
  BY DEF OneInside, TicksTyped
<1>4. \A u \in TickUser : ~Holds(u)
  BY DEF Holds, OneInside
<1>5. Holds(t)' /\ ticking'[t].now = r
  BY <1>1 DEF Holds, TicksTyped
<1>6. \A u \in TickUser : Holds(u)' => u = t
  BY <1>4 DEF Holds, TicksTyped
<1>7. ReadingFollows'
  <2>1. returned' <= read' /\ (~seldom' => boot' < read' + Rollover)
    BY SMTT(20), ReturnedNat, TicksAssumption DEF ReadingFollows, TicksTyped
  <2>2. ~seldom' => read' < returned' + Rollover
    BY <1>4, ReturnedNat, TicksAssumption DEF ReadingFollows, TicksTyped
  <2>3. ticking'[t].now \in Milliseconds /\ read' = p + ticking'[t].now
    BY <1>1, <1>5
  <2> QED
    BY <1>5, <1>6, <2>1, <2>2, <2>3 DEF ReadingFollows
<1> QED
  BY <1>2, <1>3, <1>7

LEMMA ProtectedNowKeeps ==
  \A t \in TickUser :
    TicksInv /\ ProtectedNow(t) => TicksInv' /\ returned' >= returned
<1> SUFFICES ASSUME NEW t \in TickUser, TicksInv, ProtectedNow(t)
             PROVE  TicksInv' /\ returned' >= returned
  OBVIOUS
<1> USE DEF TicksInv, ProtectedNow
<1>1. Holds(t) /\ ticking[t].now \in Milliseconds
  BY DEF Holds, ReadingFollows
<1>2. PICK p \in Whole : read = p + ticking[t].now
  BY <1>1 DEF ReadingFollows
<1>3. rollover_ms + last_seen_now <= p + ticking[t].now
  BY <1>2 DEF ReadingFollows, TicksTyped
<1>4. /\ rollover_ms' \in Whole
      /\ returned <= returned'
      /\ returned' <= read
      /\ read - returned' \in Whole
      /\ read < returned + Rollover => read = returned'
  BY <1>1, <1>2, <1>3, Protected DEF TicksTyped
<1>5. TicksTyped'
  <2>1. returned' = rollover_ms' + last_seen_now'
    BY <1>1, <1>4, WholeNat DEF Milliseconds
  <2> QED
    BY <1>1, <1>4, <2>1 DEF TicksTyped, Outside
<1>6. \A u \in TickUser : ticking'[u].at = "outside"
  BY <1>1 DEF OneInside, TicksTyped, Outside, Holds
<1>7. OneInside'
  BY <1>6 DEF OneInside
<1>8. ReadingFollows'
  BY <1>1, <1>4, <1>6 DEF ReadingFollows, Holds
<1>9. returned \in Nat /\ returned' \in Nat
  BY <1>5, WholeNat DEF TicksTyped, Milliseconds
<1> QED
  BY <1>4, <1>5, <1>7, <1>8, <1>9

LEMMA MillisecondKeeps == TicksInv /\ Millisecond => TicksInv'
<1> SUFFICES ASSUME TicksInv, Millisecond PROVE TicksInv'
  OBVIOUS
<1> USE DEF TicksInv, Millisecond
<1>1. TicksTyped'
  BY TicksAssumption DEF TicksTyped
<1>2. OneInside'
  BY DEF OneInside
<1>3. ReadingFollows'
  <2>1. ~seldom' => ~seldom /\ ~(boot' >= read + Rollover)
    BY Zenon
  <2>2. boot' < read' + Rollover <=> ~(boot' >= read + Rollover)
    BY TicksAssumption DEF TicksTyped
  <2>3. \A t \in TickUser : Holds(t)' <=> Holds(t)
    BY DEF Holds
  <2> QED
    BY <2>1, <2>2, <2>3 DEF ReadingFollows
<1> QED
  BY <1>1, <1>2, <1>3

LEMMA TicksStep ==
  TicksInv /\ [TicksNext]_ticksVars => TicksInv' /\ [returned' >= returned]_returned
<1> SUFFICES ASSUME TicksInv, [TicksNext]_ticksVars
             PROVE  TicksInv' /\ [returned' >= returned]_returned
  OBVIOUS
<1>1. CASE \E t \in TickUser : Lock(t)
  BY <1>1, LockKeeps DEF Lock
<1>2. CASE \E t \in TickUser : TickFunction(t)
  BY <1>2, TickFunctionKeeps DEF TickFunction
<1>3. CASE \E t \in TickUser : ProtectedNow(t)
  BY <1>3, ProtectedNowKeeps
<1>4. CASE Millisecond
  BY <1>4, MillisecondKeeps DEF Millisecond
<1>5. CASE UNCHANGED ticksVars
  BY <1>5 DEF ticksVars, TicksInv, TicksTyped, OneInside, ReadingFollows, Holds
<1> QED
  BY <1>1, <1>2, <1>3, <1>4, <1>5 DEF TicksNext

\* TimeTicks do not decrease, and are the time since Windows has started, but for
\* roll overs that nobody saw (time.h:15, time_win.cc:303).
THEOREM TicksAreSound == TicksSpec => TicksSound
<1> DEFINE Exact ==
      rollover_lock = Nobody =>
        IF seldom THEN (read - returned) % Rollover = 0 /\ returned <= read
        ELSE returned = read
<1>1. TicksInv => Exact
  <2> SUFFICES ASSUME TicksInv, rollover_lock = Nobody
               PROVE  IF seldom THEN (read - returned) % Rollover = 0 /\ returned <= read
                      ELSE returned = read
    OBVIOUS
  <2>1. \A t \in TickUser : ~Holds(t)
    BY TicksAssumption DEF TicksInv, OneInside, Holds, Nobody
  <2>2. read - returned \in Whole /\ (~seldom => returned = read) /\ returned <= read
    BY <2>1 DEF TicksInv, ReadingFollows
  <2>3. (read - returned) % Rollover = 0
    BY <2>2, WholeHasNoRest
  <2> QED
    BY <2>2, <2>3
<1> HIDE DEF Exact
<1>2. TicksSpec => []TicksInv /\ [][returned' >= returned]_returned
  BY TicksInitInv, TicksStep, PTL DEF TicksSpec
<1>3. TicksSpec => []Exact /\ [][returned' >= returned]_returned
  BY <1>1, <1>2, PTL
<1> QED
  BY <1>3 DEF TicksSound, Exact

-----------------------------------------------------------------------------
(* The lease of the high-resolution timer.                                   *)

AnyPoster == LeasePoster \cup {Owner}

\* Where the timer stands when a thread is at this point of
\* CalculateDelayedRuntime and no other thread is in it.
Accounts(at) ==
  /\ at \in {"activate", "lease"} => expiration = 0
  /\ at \in {"compare", "deactivate", "clear"} => expiration # 0
  /\ periods = IF at = "lease" \/ (expiration # 0 /\ at # "clear") THEN 1 ELSE 0

LeaseTyped ==
  /\ clock \in Nat \ {0} /\ periods \in Int /\ expiration \in Nat
  /\ overlapped \in BOOLEAN
  /\ posting \in [AnyPoster -> {"no", "null", "activate", "lease", "expired",
                                "compare", "deactivate", "clear"}]

OnePosts ==
  ~overlapped => \A t, u \in AnyPoster :
                   posting[t] # "no" /\ posting[u] # "no" => t = u

LeaseAccounts ==
  ~overlapped => /\ \A t \in AnyPoster : posting[t] # "no" => Accounts(posting[t])
                 /\ Posting = {} => Accounts("no")

LeaseInv == LeaseTyped /\ OnePosts /\ LeaseAccounts

LEMMA NobodyPosts ==
  LeaseTyped => (Posting = {} <=> \A t \in AnyPoster : posting[t] = "no")
BY DEF LeaseTyped, Posting

LEMMA NobodyPostsNext ==
  LeaseTyped' => (Posting' = {} <=> \A t \in AnyPoster : posting'[t] = "no")
BY DEF LeaseTyped, Posting

LEMMA LeaseInitInv == LeaseInit => LeaseInv
<1> SUFFICES ASSUME LeaseInit PROVE LeaseInv
  OBVIOUS
<1>1. LeaseTyped
  <2>1. overlapped \in BOOLEAN
    BY Zenon DEF LeaseInit
  <2>2. clock \in Nat \ {0} /\ periods \in Int /\ expiration \in Nat
    BY DEF LeaseInit
  <2>3. posting = [t \in AnyPoster |-> "no"]
    BY DEF LeaseInit, AnyPoster
  <2> QED
    BY <2>1, <2>2, <2>3 DEF LeaseTyped
<1>2. \A t \in AnyPoster : posting[t] = "no"
  BY DEF LeaseInit, AnyPoster
<1>3. Accounts("no")
  BY DEF LeaseInit, Accounts
<1> QED
  BY <1>1, <1>2, <1>3 DEF LeaseInv, OnePosts, LeaseAccounts

LEMMA PostBeginsKeeps ==
  ASSUME LeaseInv, NEW t \in AnyPoster, PostBegins(t)
  PROVE  LeaseInv'
<1>1. /\ posting' = [posting EXCEPT ![t] = "null"] \/ posting' = [posting EXCEPT ![t] = "expired"]
      /\ overlapped' = (overlapped \/ Posting # {})
      /\ UNCHANGED <<clock, periods, expiration>>
  BY DEF PostBegins, Moves
<1>2. LeaseTyped'
  BY <1>1 DEF LeaseInv, LeaseTyped
<1>3. CASE overlapped'
  BY <1>2, <1>3 DEF LeaseInv, OnePosts, LeaseAccounts
<1>4. CASE ~overlapped'
  <2>1. ~overlapped /\ Posting = {}
    BY <1>1, <1>4
  <2>2. \A u \in AnyPoster : posting[u] = "no"
    BY <2>1, NobodyPosts DEF LeaseInv
  <2>3. \A u \in AnyPoster : posting'[u] = IF u = t THEN posting'[t] ELSE "no"
    BY <1>1, <2>2 DEF LeaseInv, LeaseTyped
  <2>4. posting'[t] \in {"null", "expired"}
    BY <1>1 DEF LeaseInv, LeaseTyped
  <2>5. Accounts("no")
    BY <2>1 DEF LeaseInv, LeaseAccounts
  <2>6. \A u \in AnyPoster : posting'[u] # "no" => Accounts(posting[u])'
    BY <1>1, <2>3, <2>4, <2>5 DEF Accounts
  <2>7. Posting' # {}
    BY <1>2, <2>4, NobodyPostsNext
  <2> QED
    BY <1>2, <2>3, <2>6, <2>7 DEF LeaseInv, OnePosts, LeaseAccounts
<1> QED
  BY <1>3, <1>4

\* A step of a thread that is alone in CalculateDelayedRuntime.
LEMMA MoveKeeps ==
  ASSUME LeaseInv, LeaseTyped', NEW t \in AnyPoster, posting[t] # "no",
         overlapped' = overlapped,
         posting' = [posting EXCEPT ![t] = posting'[t]],
         Accounts(posting[t]) => Accounts(posting[t])'
  PROVE  LeaseInv'
<1>1. CASE overlapped
  BY <1>1 DEF LeaseInv, OnePosts, LeaseAccounts
<1>2. CASE ~overlapped
  <2>1. \A u \in AnyPoster : u # t => posting[u] = "no" /\ posting'[u] = "no"
    BY <1>2 DEF LeaseInv, OnePosts, LeaseTyped
  <2>2. Accounts(posting[t])'
    BY <1>2 DEF LeaseInv, LeaseAccounts
  <2>3. \A u \in AnyPoster : posting'[u] # "no" => Accounts(posting[u])'
    BY <2>1, <2>2
  <2>4. Posting' = {} => Accounts("no")'
    BY <2>2, NobodyPostsNext DEF Accounts
  <2> QED
    BY <2>1, <2>3, <2>4 DEF LeaseInv, OnePosts, LeaseAccounts
<1> QED
  BY <1>1, <1>2

LEMMA PosterKeeps ==
  ASSUME LeaseInv, NEW t \in AnyPoster,
         \/ IsNull(t) \/ Activate(t) \/ TakeLease(t) \/ IsNotNull(t)
         \/ HasExpired(t) \/ Deactivate(t) \/ ClearLease(t)
  PROVE  LeaseInv'
<1> USE DEF Moves
<1>1. posting[t] # "no" /\ overlapped' = overlapped
  BY DEF IsNull, Activate, TakeLease, IsNotNull, HasExpired, Deactivate, ClearLease
<1>2. LeaseTyped'
  BY LeaseAssumption
  DEF IsNull, Activate, TakeLease, IsNotNull, HasExpired, Deactivate, ClearLease,
      LeaseInv, LeaseTyped
<1>3. posting' = [posting EXCEPT ![t] = posting'[t]]
  BY DEF IsNull, Activate, TakeLease, IsNotNull, HasExpired, Deactivate, ClearLease,
         LeaseInv, LeaseTyped
<1>4. Accounts(posting[t]) => Accounts(posting[t])'
  BY LeaseAssumption
  DEF IsNull, Activate, TakeLease, IsNotNull, HasExpired, Deactivate, ClearLease,
      LeaseInv, LeaseTyped, Accounts
<1> QED
  BY <1>1, <1>2, <1>3, <1>4, MoveKeeps

LEMMA LeaseStep == LeaseInv /\ [LeaseNext]_leaseVars => LeaseInv'
<1> SUFFICES ASSUME LeaseInv, [LeaseNext]_leaseVars PROVE LeaseInv'
  OBVIOUS
<1>1. CASE \E t \in AnyPoster : PostBegins(t)
  BY <1>1, PostBeginsKeeps
<1>2. CASE \E t \in AnyPoster :
             \/ IsNull(t) \/ Activate(t) \/ TakeLease(t) \/ IsNotNull(t)
             \/ HasExpired(t) \/ Deactivate(t) \/ ClearLease(t)
  BY <1>2, PosterKeeps
<1>3. CASE EndLoop
  BY <1>3 DEF EndLoop, LeaseInv, LeaseTyped, OnePosts, LeaseAccounts, Accounts, Posting
<1>4. CASE EnableHighResolutionTimer
  BY <1>4 DEF EnableHighResolutionTimer, LeaseInv, LeaseTyped, OnePosts,
              LeaseAccounts, Accounts, Posting
<1>5. CASE LeaseTick
  BY <1>5 DEF LeaseTick, LeaseInv, LeaseTyped, OnePosts, LeaseAccounts, Accounts, Posting
<1>6. CASE UNCHANGED leaseVars
  BY <1>6 DEF leaseVars, LeaseInv, LeaseTyped, OnePosts, LeaseAccounts, Accounts, Posting
<1> QED
  BY <1>1, <1>2, <1>3, <1>4, <1>5, <1>6 DEF LeaseNext, AnyPoster

\* "Each successful activate call must be paired with a subsequent deactivate
\* call" (time.h:316), until a direct post and one through the proxy overlap, for
\* every lease and every number of threads.
THEOREM LeaseStaysPaired == LeaseSpec => []LeaseIsPaired
<1>1. LeaseInv => LeaseIsPaired
  BY DEF LeaseInv, LeaseAccounts, Accounts, LeaseIsPaired
<1> QED
  BY <1>1, LeaseInitInv, LeaseStep, PTL DEF LeaseSpec

-----------------------------------------------------------------------------
(* Thread local storage.                                                     *)

Places == 0..(kThreadLocalStorageSize - 1)

Doing ==
  [at : {"runs", "alloc", "table", "gone"}]
    \cup [at : {"exchange"}, key : Key]
    \cup [at : {"number"}, of : SlotObject, number : Number]
    \cup [at : {"scans", "destroys"}, number : Places, again : BOOLEAN,
          attempts : Nat]

TlsTyped ==
  /\ g_native_tls_key \in Key \cup {0} /\ native \subseteq Key
  /\ g_last_used_tls_key \in Places
  /\ g_tls_destructors \subseteq Number
  /\ slot_ \in [SlotObject -> Places]
  /\ table \in [TlsThread -> [key : Key \cup {0}, slots : [Number -> Nat]]]
  /\ doing \in [TlsThread -> Doing]
  /\ values \in Nat
  /\ destroyed \in Seq(Nat)

LEMMA KeyFacts == 0 \notin Key
  BY DEF Key

LEMMA NumberFacts ==
  /\ Number \subseteq Places /\ 0 \in Places /\ 0 \notin Number
  /\ \A n \in Places : n # 0 => n \in Number /\ n - 1 \in Places
  /\ \A n \in Places : n < kThreadLocalStorageSize - 1 => n + 1 \in Number
  /\ Places \subseteq Nat
  BY TlsAssumption DEF Number, Places

LEMMA DoingFacts ==
  /\ Runs \in Doing
  /\ \A at \in {"runs", "alloc", "table", "gone"} : [at |-> at] \in Doing
  /\ \A key \in Key : [at |-> "exchange", key |-> key] \in Doing
  /\ \A s \in SlotObject, n \in Number :
       [at |-> "number", of |-> s, number |-> n] \in Doing
  /\ \A n \in Places, a \in BOOLEAN, k \in Nat : \A at \in {"scans", "destroys"} :
       [at |-> at, number |-> n, again |-> a, attempts |-> k] \in Doing
  /\ \A d \in Doing :
       /\ d.at = "exchange" => d.key \in Key
       /\ d.at = "number" => d.of \in SlotObject /\ d.number \in Number
       /\ d.at \in {"scans", "destroys"} =>
            /\ d.number \in Places /\ d.again \in BOOLEAN /\ d.attempts \in Nat
            /\ d = [at |-> d.at, number |-> d.number, again |-> d.again,
                    attempts |-> d.attempts]
  BY DEF Doing, Runs

At(t) == doing[t].at

\* The keys there are: the one all threads use, and those of threads that are
\* about to offer theirs.
KeysInv ==
  /\ \A k : k \in native <=> \/ k = g_native_tls_key /\ k # 0
                             \/ \E t \in TlsThread : At(t) = "exchange" /\ doing[t].key = k
  /\ \A t, u \in TlsThread :
       At(t) = "exchange" /\ At(u) = "exchange" /\ doing[t].key = doing[u].key => t = u
  /\ \A t \in TlsThread : At(t) = "exchange" => doing[t].key # g_native_tls_key
  /\ \A t \in TlsThread : table[t].key \in {0, g_native_tls_key}
  /\ \A t \in TlsThread : At(t) \in {"alloc", "exchange", "table"} => table[t].key = 0

\* A number that is handed out but not used yet.
Pending(n) == \E t \in TlsThread : At(t) = "number" /\ doing[t].number = n

\* Only slots in use have values, or did.
NumbersInv ==
  /\ \A n : Pending(n) => n <= g_last_used_tls_key
  /\ \A s \in SlotObject : slot_[s] <= g_last_used_tls_key /\ ~Pending(slot_[s])
  /\ \A t \in TlsThread, n \in Number :
       table[t].slots[n] # 0 => n <= g_last_used_tls_key /\ ~Pending(n)
  /\ \A t, u \in TlsThread :
       At(t) = "number" /\ At(u) = "number" /\ doing[t].number = doing[u].number => t = u

\* A scan that has called no destructor has left nothing to destroy behind it.
ScanInv ==
  \A t \in TlsThread :
    /\ At(t) = "destroys" => doing[t].again /\ doing[t].number # 0
    /\ At(t) = "scans" /\ ~doing[t].again =>
         \A n \in Number \cap g_tls_destructors :
           n > doing[t].number => table[t].slots[n] = 0

\* A value is in one slot of one thread, until its destructor is called with it.
ValuesInv ==
  /\ \A t \in TlsThread, n \in Number : table[t].slots[n] <= values
  /\ \A t, u \in TlsThread, n, m \in Number :
       table[t].slots[n] # 0 /\ table[t].slots[n] = table[u].slots[m] => t = u /\ n = m
  /\ \A i \in DOMAIN destroyed :
       /\ destroyed[i] <= values
       /\ \A t \in TlsThread, n \in Number :
            table[t].slots[n] # 0 => table[t].slots[n] # destroyed[i]
  /\ \A i, j \in DOMAIN destroyed : destroyed[i] = destroyed[j] => i = j

TlsInv == TlsTyped /\ KeysInv /\ NumbersInv /\ ScanInv /\ ValuesInv

LEMMA TlsInitInv == TlsInit => TlsInv
<1> SUFFICES ASSUME TlsInit PROVE TlsInv
  OBVIOUS
<1>1. TlsTyped
  BY NumberFacts, DoingFacts DEF TlsInit, TlsTyped, NoTable, Runs
<1>2. \A t \in TlsThread : At(t) = "runs"
  BY DEF TlsInit, At, Runs
<1>3. \A t \in TlsThread : table[t] = NoTable
  BY DEF TlsInit
<1>4. \A t \in TlsThread, n \in Number : table[t].slots[n] = 0
  BY <1>3 DEF NoTable
<1>5. KeysInv
  <2>1. g_native_tls_key = 0 /\ native = {} /\ \A t \in TlsThread : table[t].key = 0
    BY <1>3 DEF TlsInit, NoTable
  <2> QED
    BY <1>2, <2>1 DEF KeysInv
<1>6. NumbersInv
  <2>1. \A n : ~Pending(n)
    BY <1>2 DEF Pending
  <2>2. \A s \in SlotObject : slot_[s] = 0
    BY DEF TlsInit
  <2>3. g_last_used_tls_key = 0
    BY DEF TlsInit
  <2> QED
    BY <1>2, <1>4, <2>1, <2>2, <2>3 DEF NumbersInv
<1>7. ScanInv
  BY <1>2 DEF ScanInv
<1>8. ValuesInv
  <2>1. values = 0 /\ destroyed = <<>>
    BY DEF TlsInit
  <2> QED
    BY <1>4, <2>1 DEF ValuesInv
<1> QED
  BY <1>1, <1>5, <1>6, <1>7, <1>8 DEF TlsInv

-----------------------------------------------------------------------------
(* Types.                                                                    *)

LEMMA DoesTyped ==
  ASSUME TlsTyped, NEW t \in TlsThread, NEW d \in Doing, Does(t, d)
  PROVE  /\ doing' \in [TlsThread -> Doing]
         /\ doing'[t] = d
         /\ \A u \in TlsThread : u # t => doing'[u] = doing[u]
  BY DEF TlsTyped, Does

LEMMA ScanFacts ==
  ASSUME TlsTyped, NEW t \in TlsThread
  PROVE  /\ Scan(kMaxDestructorIterations) \in Doing
         /\ doing[t].at \in {"scans", "destroys"} =>
              /\ doing[t].number \in Places /\ doing[t].again \in BOOLEAN
              /\ doing[t].attempts \in Nat
              /\ doing[t].attempts > 1 => Scan(doing[t].attempts - 1) \in Doing
<1>1. doing[t] \in Doing /\ g_last_used_tls_key \in Places
  BY DEF TlsTyped
<1>2. \A k \in Nat : Scan(k) \in Doing
  BY <1>1, DoingFacts DEF Scan
<1>3. kMaxDestructorIterations \in Nat
  BY TlsAssumption
<1>4. doing[t].at \in {"scans", "destroys"} =>
        /\ doing[t].number \in Places /\ doing[t].again \in BOOLEAN
        /\ doing[t].attempts \in Nat
  BY <1>1, DoingFacts
<1>5. \A k \in Nat : k > 1 => k - 1 \in Nat
  OBVIOUS
<1> QED
  BY <1>2, <1>3, <1>4, <1>5

\* A step of a thread that changes neither slots nor tables.
LEMMA MovesRest ==
  ASSUME TlsInv, NEW t \in TlsThread, NEW d \in Doing, Does(t, d),
         UNCHANGED <<slotVars, table, values, destroyed>>,
         d.at \notin {"number", "destroys"},
         d.at = "scans" /\ ~d.again =>
           \A n \in Number \cap g_tls_destructors : n > d.number => table[t].slots[n] = 0
  PROVE  NumbersInv' /\ ScanInv' /\ ValuesInv'
<1>1. /\ doing' \in [TlsThread -> Doing]
      /\ doing'[t] = d
      /\ \A u \in TlsThread : u # t => doing'[u] = doing[u]
  BY DoesTyped DEF TlsInv
<1>2. UNCHANGED <<g_last_used_tls_key, g_tls_destructors, slot_, table, values,
                  destroyed>>
  BY DEF slotVars
<1>3. NumbersInv'
  <2>1. \A n : \A u \in TlsThread : At(u)' = "number" /\ doing'[u].number = n =>
                 At(u) = "number" /\ doing[u].number = n
    BY <1>1 DEF At
  <2>2. \A n : Pending(n)' => Pending(n)
    BY <2>1 DEF Pending
  <2>3. \A s \in SlotObject : ~Pending(slot_[s])'
    BY <1>2, <2>2 DEF TlsInv, NumbersInv, Pending
  <2> QED
    BY <1>2, <2>1, <2>2, <2>3 DEF TlsInv, NumbersInv
<1>4. ScanInv'
  <2> SUFFICES ASSUME NEW u \in TlsThread
               PROVE  /\ At(u)' = "destroys" => doing'[u].again /\ doing'[u].number # 0
                      /\ At(u)' = "scans" /\ ~doing'[u].again =>
                           \A n \in Number \cap g_tls_destructors' :
                             n > doing'[u].number => table'[u].slots[n] = 0
    BY DEF ScanInv
  <2>1. CASE u = t
    BY <1>1, <1>2, <2>1 DEF At
  <2>2. CASE u # t
    BY <1>1, <1>2, <2>2 DEF TlsInv, ScanInv, At
  <2> QED
    BY <2>1, <2>2
<1>5. ValuesInv'
  BY <1>2 DEF TlsInv, ValuesInv
<1> QED
  BY <1>3, <1>4, <1>5

\* A step of a thread that changes only where it is.
LEMMA MovesKeep ==
  ASSUME TlsInv, NEW t \in TlsThread, NEW d \in Doing, Does(t, d),
         UNCHANGED <<keyVars, slotVars, table, values, destroyed>>,
         At(t) \notin {"exchange", "number"},
         d.at \notin {"exchange", "number", "destroys"},
         d.at \in {"alloc", "table"} => table[t].key = 0,
         d.at = "scans" /\ ~d.again =>
           \A n \in Number \cap g_tls_destructors : n > d.number => table[t].slots[n] = 0
  PROVE  TlsInv'
<1>1. /\ doing' \in [TlsThread -> Doing]
      /\ doing'[t] = d
      /\ \A u \in TlsThread : u # t => doing'[u] = doing[u]
  BY DoesTyped DEF TlsInv
<1>2. UNCHANGED <<g_native_tls_key, native, g_last_used_tls_key, g_tls_destructors,
                  slot_, table, values, destroyed>>
  BY DEF keyVars, slotVars
<1>3. TlsTyped'
  BY <1>1, <1>2 DEF TlsInv, TlsTyped
<1>4. KeysInv'
  BY <1>1, <1>2 DEF TlsInv, KeysInv, At
<1> QED
  BY <1>3, <1>4, MovesRest DEF TlsInv

LEMMA NeedTableKeeps ==
  ASSUME TlsInv, NEW t \in TlsThread, NeedTable(t)
  PROVE  TlsInv'
<1>1. PICK at \in {"alloc", "table"} : Does(t, [at |-> at])
  BY DEF NeedTable
<1>2. [at |-> at] \in Doing /\ [at |-> at].at = at
  BY DoingFacts
<1>3. At(t) = "runs"
  BY DEF NeedTable, At, Runs
<1>4. table[t].key = 0
  BY DEF NeedTable, HasTable, TlsInv, KeysInv
<1> DEFINE d == [at |-> at]
<1> HIDE DEF d
<1>5. d \in Doing /\ d.at \in {"alloc", "table"} /\ Does(t, d)
  BY <1>1, <1>2 DEF d
<1>6. UNCHANGED <<keyVars, slotVars, table, values, destroyed>>
  BY DEF NeedTable
<1> QED
  BY <1>3, <1>4, <1>5, <1>6, MovesKeep

\* A new scan has nothing behind it.
LEMMA NewScan ==
  ASSUME TlsInv, NEW t \in TlsThread, NEW k \in Nat, Does(t, Scan(k)),
         At(t) \in {"runs", "scans"},
         UNCHANGED <<keyVars, slotVars, table, values, destroyed>>
  PROVE  TlsInv'
<1> DEFINE d == Scan(k)
<1>1. /\ d.at = "scans" /\ d.number = g_last_used_tls_key
      /\ g_last_used_tls_key \in Places
  BY DEF Scan, TlsInv, TlsTyped
<1>2. d \in Doing
  BY <1>1, DoingFacts DEF Scan
<1>3. \A n \in Number : n > g_last_used_tls_key => table[t].slots[n] = 0
  <2>1. \A n \in Number : n > g_last_used_tls_key => ~(n <= g_last_used_tls_key)
    BY <1>1, NumberFacts
  <2> QED
    BY <2>1 DEF TlsInv, NumbersInv
<1> HIDE DEF d
<1> QED
  BY <1>1, <1>2, <1>3, MovesKeep DEF d

LEMMA ThreadExitsKeeps ==
  ASSUME TlsInv, NEW t \in TlsThread, ThreadExits(t)
  PROVE  TlsInv'
<1>1. /\ At(t) = "runs"
      /\ UNCHANGED <<keyVars, slotVars, table, values, destroyed>>
      /\ Does(t, Scan(kMaxDestructorIterations)) \/ Does(t, [at |-> "gone"])
  BY DEF ThreadExits, At, Runs
<1>2. CASE Does(t, Scan(kMaxDestructorIterations))
  BY <1>1, <1>2, NewScan, TlsAssumption
<1>3. CASE Does(t, [at |-> "gone"])
  <2> DEFINE d == [at |-> "gone"]
  <2>1. d \in Doing /\ d.at = "gone"
    BY DoingFacts
  <2> HIDE DEF d
  <2>2. Does(t, d)
    BY <1>3 DEF d
  <2> QED
    BY <1>1, <2>1, <2>2, MovesKeep
<1> QED
  BY <1>1, <1>2, <1>3

\* The next number of a scan.
LEMMA ScanMoves ==
  ASSUME NEW x \in Doing, x.at \in {"scans", "destroys"}, x.number # 0, NEW d,
         \/ d = [x EXCEPT !.at = "scans", !.number = @ - 1]
         \/ x.at = "scans" /\ d = [x EXCEPT !.number = @ - 1]
  PROVE  /\ d \in Doing /\ d.at = "scans"
         /\ d.number = x.number - 1 /\ d.again = x.again
         /\ x.number \in Number
<1> DEFINE S == [at : {"scans", "destroys"}, number : Places, again : BOOLEAN,
                 attempts : Nat]
<1>1. x \in S
  BY DoingFacts DEF Doing, Runs
<1>2. x.number \in Number /\ x.number - 1 \in Places
  BY <1>1, NumberFacts
<1>3. PICK m \in Places : m = x.number - 1
  BY <1>2
<1>4. \/ d = [x EXCEPT !.at = "scans", !.number = m]
      \/ x.at = "scans" /\ d = [x EXCEPT !.number = m]
  BY <1>3
<1>5. d \in S /\ d.at = "scans" /\ d.number = m /\ d.again = x.again
  BY <1>1, <1>4
<1>6. S \subseteq Doing
  BY DEF Doing
<1> QED
  BY <1>2, <1>3, <1>5, <1>6

LEMMA ScanPassesKeeps ==
  ASSUME TlsInv, NEW t \in TlsThread, ScanPasses(t)
  PROVE  TlsInv'
<1> DEFINE n == doing[t].number
           d == [doing[t] EXCEPT !.number = @ - 1]
<1>1. /\ doing[t].at = "scans" /\ n > 0
      /\ table[t].slots[n] = 0 \/ n \notin g_tls_destructors
      /\ Does(t, d)
      /\ UNCHANGED <<keyVars, slotVars, table, values, destroyed>>
  BY DEF ScanPasses, Scans, MustDestroy, Value
<1>2. doing[t] \in Doing /\ n \in Places
  BY <1>1, ScanFacts DEF TlsInv, TlsTyped
<1>3. n # 0
  BY <1>1, <1>2, NumberFacts
<1> HIDE DEF d
<1>5. /\ d \in Doing /\ d.at = "scans"
      /\ d.number = n - 1 /\ d.again = doing[t].again /\ n \in Number
  BY <1>1, <1>2, <1>3, ScanMoves DEF d
<1> HIDE DEF n
<1>6. ASSUME ~doing[t].again, NEW m \in Number \cap g_tls_destructors, m > n - 1
      PROVE  table[t].slots[m] = 0
  <2>1. m \in Nat /\ n \in Nat
    BY <1>2, NumberFacts
  <2>2. m = n \/ m > n
    BY <1>6, <2>1
  <2> QED
    BY <1>1, <1>6, <2>2 DEF TlsInv, ScanInv, At, n
<1> QED
  BY <1>1, <1>5, <1>6, MovesKeep DEF At

LEMMA DestructorReturnsKeeps ==
  ASSUME TlsInv, NEW t \in TlsThread, DestructorReturns(t)
  PROVE  TlsInv'
<1> DEFINE d == [doing[t] EXCEPT !.at = "scans", !.number = @ - 1]
<1>1. /\ doing[t].at = "destroys"
      /\ Does(t, d)
      /\ UNCHANGED <<keyVars, slotVars, table, values, destroyed>>
  BY DEF DestructorReturns
<1>2. doing[t] \in Doing
  BY DEF TlsInv, TlsTyped
<1>3. doing[t].again /\ doing[t].number # 0
  BY <1>1 DEF TlsInv, ScanInv, At
<1> HIDE DEF d
<1>4. d \in Doing /\ d.at = "scans" /\ d.again = doing[t].again
  BY <1>1, <1>2, <1>3, ScanMoves DEF d
<1> QED
  BY <1>1, <1>3, <1>4, MovesKeep DEF At

LEMMA ScanAgainKeeps ==
  ASSUME TlsInv, NEW t \in TlsThread, ScanAgain(t)
  PROVE  TlsInv'
<1> DEFINE k == doing[t].attempts - 1
<1>1. /\ At(t) = "scans" /\ doing[t].attempts > 1 /\ Does(t, Scan(k))
      /\ UNCHANGED <<keyVars, slotVars, table, values, destroyed>>
  BY DEF ScanAgain, ScanEnds, Scans, At
<1>2. doing[t].attempts \in Nat
  BY <1>1, ScanFacts DEF TlsInv, At
<1>3. k \in Nat
  BY <1>1, <1>2
<1> HIDE DEF k
<1> QED
  BY <1>1, <1>3, NewScan

LEMMA TlsAllocKeeps ==
  ASSUME TlsInv, NEW t \in TlsThread, TlsAlloc(t)
  PROVE  TlsInv'
<1>1. PICK key \in Key \ native :
        /\ native' = native \cup {key}
        /\ Does(t, [at |-> "exchange", key |-> key])
  BY DEF TlsAlloc
<1> DEFINE d == [at |-> "exchange", key |-> key]
<1>2. d \in Doing /\ d.at = "exchange" /\ d.key = key
  BY DoingFacts
<1> HIDE DEF d
<1>3. Does(t, d)
  BY <1>1 DEF d
<1>4. /\ At(t) = "alloc"
      /\ UNCHANGED <<g_native_tls_key, slotVars, table, values, destroyed>>
  BY DEF TlsAlloc, At
<1>5. /\ doing' \in [TlsThread -> Doing]
      /\ doing'[t] = d
      /\ \A u \in TlsThread : u # t => doing'[u] = doing[u]
  BY <1>2, <1>3, DoesTyped DEF TlsInv
<1>6. TlsTyped'
  BY <1>1, <1>4, <1>5 DEF TlsInv, TlsTyped, slotVars
<1>7. KeysInv'
  <2>1. key # 0 /\ key # g_native_tls_key
        /\ \A u \in TlsThread : At(u) = "exchange" => doing[u].key # key
    BY KeyFacts DEF TlsInv, KeysInv
  <2>2. \A u \in TlsThread :
          (At(u)' = "exchange" <=> u = t \/ At(u) = "exchange")
          /\ (u # t => doing'[u].key = doing[u].key /\ At(u)' = At(u))
    BY <1>2, <1>5 DEF At
  <2>3. doing'[t].key = key /\ At(t)' = "exchange"
    BY <1>2, <1>5 DEF At
  <2>4. \A k : k \in native' <=> \/ k = g_native_tls_key' /\ k # 0
                                 \/ \E u \in TlsThread : At(u)' = "exchange" /\ doing'[u].key = k
    <3> SUFFICES ASSUME NEW k
                 PROVE  k \in native' <=>
                          \/ k = g_native_tls_key' /\ k # 0
                          \/ \E u \in TlsThread : At(u)' = "exchange" /\ doing'[u].key = k
      OBVIOUS
    <3>1. k \in native <=> \/ k = g_native_tls_key /\ k # 0
                           \/ \E u \in TlsThread : At(u) = "exchange" /\ doing[u].key = k
      BY DEF TlsInv, KeysInv
    <3>2. k \in native' <=> k \in native \/ k = key
      BY <1>1
    <3>3. ~(At(t) = "exchange")
      BY <1>4
    <3> QED
      BY <1>4, <2>2, <2>3, <3>1, <3>2, <3>3
  <2>5. \A u, v \in TlsThread :
          At(u)' = "exchange" /\ At(v)' = "exchange" /\ doing'[u].key = doing'[v].key => u = v
    BY <2>1, <2>2, <2>3 DEF TlsInv, KeysInv
  <2>6. \A u \in TlsThread : At(u)' = "exchange" => doing'[u].key # g_native_tls_key'
    BY <1>4, <2>1, <2>2, <2>3 DEF TlsInv, KeysInv
  <2>7. \A u \in TlsThread : At(u)' \in {"alloc", "exchange", "table"} =>
                               At(u) \in {"alloc", "exchange", "table"}
    BY <1>4, <2>2
  <2> QED
    BY <1>4, <2>4, <2>5, <2>6, <2>7 DEF TlsInv, KeysInv
<1> QED
  BY <1>2, <1>3, <1>4, <1>6, <1>7, MovesRest DEF TlsInv

LEMMA CompareExchangeKeeps ==
  ASSUME TlsInv, NEW t \in TlsThread, CompareExchange(t)
  PROVE  TlsInv'
<1> DEFINE d == [at |-> "table"]
           key == doing[t].key
<1>1. d \in Doing /\ d.at = "table"
  BY DoingFacts
<1>2. /\ At(t) = "exchange" /\ key \in Key
      /\ UNCHANGED <<slotVars, table, values, destroyed>>
  BY DoingFacts DEF CompareExchange, At, TlsInv, TlsTyped
<1>3. \/ g_native_tls_key = 0 /\ g_native_tls_key' = key /\ native' = native
      \/ /\ g_native_tls_key # 0 /\ native' = native \ {key}
         /\ g_native_tls_key' = g_native_tls_key
  BY DEF CompareExchange
<1>4. Does(t, d)
  BY DEF CompareExchange
<1> HIDE DEF d
<1>5. /\ doing' \in [TlsThread -> Doing]
      /\ doing'[t] = d
      /\ \A u \in TlsThread : u # t => doing'[u] = doing[u]
  BY <1>1, <1>4, DoesTyped DEF TlsInv
<1>6. TlsTyped'
  BY <1>2, <1>3, <1>5 DEF TlsInv, TlsTyped, slotVars
<1> HIDE DEF key
<1>7. KeysInv'
  <2>1. At(t)' = "table" /\ \A u \in TlsThread : u # t => At(u)' = At(u)
    BY <1>1, <1>5 DEF At
  <2>2. \A u \in TlsThread : At(u)' = "exchange" =>
          u # t /\ At(u) = "exchange" /\ doing'[u].key = doing[u].key
    BY <1>5, <2>1
  <2>3. \A u \in TlsThread : u # t /\ At(u) = "exchange" => At(u)' = "exchange"
    BY <2>1
  <2>4. key # 0 /\ \A u \in TlsThread : u # t /\ At(u) = "exchange" => doing[u].key # key
    BY <1>2, KeyFacts DEF TlsInv, KeysInv, key
  <2>5. \A k : k \in native' <=> \/ k = g_native_tls_key' /\ k # 0
                                 \/ \E u \in TlsThread : At(u)' = "exchange" /\ doing'[u].key = k
    <3> SUFFICES ASSUME NEW k
                 PROVE  k \in native' <=>
                          \/ k = g_native_tls_key' /\ k # 0
                          \/ \E u \in TlsThread : At(u)' = "exchange" /\ doing'[u].key = k
      OBVIOUS
    <3>1. k \in native <=> \/ k = g_native_tls_key /\ k # 0
                           \/ \E u \in TlsThread : At(u) = "exchange" /\ doing[u].key = k
      BY DEF TlsInv, KeysInv
    <3>2. (\E u \in TlsThread : At(u)' = "exchange" /\ doing'[u].key = k) <=>
            \E u \in TlsThread : u # t /\ At(u) = "exchange" /\ doing[u].key = k
      BY <2>2, <2>3
    <3>3. (\E u \in TlsThread : At(u) = "exchange" /\ doing[u].key = k) <=>
            k = key \/ \E u \in TlsThread : u # t /\ At(u) = "exchange" /\ doing[u].key = k
      BY <1>2 DEF key
    <3>4. key # g_native_tls_key
      BY <1>2 DEF TlsInv, KeysInv, key
    <3>5. (\E u \in TlsThread : u # t /\ At(u) = "exchange" /\ doing[u].key = k) => k # key
      BY <2>4
    <3> QED
      BY <1>3, <2>4, <3>1, <3>2, <3>3, <3>4, <3>5
  <2>6. \A u \in TlsThread : At(u)' = "exchange" => doing'[u].key # g_native_tls_key'
    BY <1>3, <2>2, <2>4 DEF TlsInv, KeysInv
  <2>7. \A u \in TlsThread : table'[u].key \in {0, g_native_tls_key'}
    BY <1>2, <1>3 DEF TlsInv, KeysInv
  <2>8. \A u \in TlsThread : At(u)' \in {"alloc", "exchange", "table"} =>
                               At(u) \in {"alloc", "exchange", "table"}
    BY <1>2, <2>1
  <2>9. \A u, v \in TlsThread :
          At(u)' = "exchange" /\ At(v)' = "exchange" /\ doing'[u].key = doing'[v].key => u = v
    BY <2>2 DEF TlsInv, KeysInv
  <2> QED
    BY <1>2, <2>5, <2>6, <2>7, <2>8, <2>9 DEF TlsInv, KeysInv
<1> QED
  BY <1>1, <1>2, <1>4, <1>6, <1>7, MovesRest DEF TlsInv

\* A step that gives a thread an empty table or none.
LEMMA ResetKeeps ==
  ASSUME TlsInv, NEW t \in TlsThread, NEW key \in {0, g_native_tls_key},
         NEW at \in {"runs", "gone"}, Does(t, [at |-> at]),
         table' = [table EXCEPT ![t] = [NoTable EXCEPT !.key = key]],
         UNCHANGED <<keyVars, slotVars, values, destroyed>>,
         At(t) \in {"table", "scans"}
  PROVE  TlsInv'
<1> DEFINE d == [at |-> at]
           w == [NoTable EXCEPT !.key = key]
<1>1. d \in Doing /\ d.at = at
  BY DoingFacts
<1>2. w.key = key /\ (\A n \in Number : w.slots[n] = 0)
      /\ w \in [key : Key \cup {0}, slots : [Number -> Nat]]
  BY DEF NoTable, TlsInv, TlsTyped
<1> HIDE DEF d, w
<1>3. Does(t, d) /\ table' = [table EXCEPT ![t] = w]
  BY DEF d, w
<1>4. /\ doing' \in [TlsThread -> Doing]
      /\ doing'[t] = d
      /\ \A u \in TlsThread : u # t => doing'[u] = doing[u]
  BY <1>1, <1>3, DoesTyped DEF TlsInv
<1>5. UNCHANGED <<g_native_tls_key, native, g_last_used_tls_key, g_tls_destructors,
                  slot_, values, destroyed>>
  BY DEF keyVars, slotVars
<1>6. /\ table' \in [TlsThread -> [key : Key \cup {0}, slots : [Number -> Nat]]]
      /\ table'[t] = w
      /\ \A u \in TlsThread : u # t => table'[u] = table[u]
  BY <1>2, <1>3 DEF TlsInv, TlsTyped
<1>7. At(t)' = at /\ \A u \in TlsThread : u # t => At(u)' = At(u)
  BY <1>1, <1>4 DEF At
<1>8. \A u \in TlsThread, n \in Number :
        table'[u].slots[n] # 0 => u # t /\ table'[u].slots[n] = table[u].slots[n]
  BY <1>2, <1>6
<1>9. TlsTyped'
  BY <1>4, <1>5, <1>6 DEF TlsInv, TlsTyped
<1>10. KeysInv'
  <2>1. \A u \in TlsThread : At(u)' \in {"alloc", "exchange", "table"} =>
                               u # t /\ At(u) = At(u)'
    BY <1>7
  <2>2. \A u \in TlsThread : At(u) = "exchange" =>
                               u # t /\ At(u)' = "exchange" /\ doing'[u] = doing[u]
    BY <1>4, <1>7
  <2>3. \A u \in TlsThread : At(u)' = "exchange" =>
                               At(u) = "exchange" /\ doing'[u] = doing[u]
    BY <1>4, <2>1
  <2>4. \A k : k \in native' <=> \/ k = g_native_tls_key' /\ k # 0
                                 \/ \E u \in TlsThread : At(u)' = "exchange" /\ doing'[u].key = k
    BY <1>5, <2>2, <2>3 DEF TlsInv, KeysInv
  <2>5. \A u, v \in TlsThread :
          At(u)' = "exchange" /\ At(v)' = "exchange" /\ doing'[u].key = doing'[v].key => u = v
    BY <2>3 DEF TlsInv, KeysInv
  <2>6. \A u \in TlsThread : At(u)' = "exchange" => doing'[u].key # g_native_tls_key'
    BY <1>5, <2>3 DEF TlsInv, KeysInv
  <2>7. \A u \in TlsThread : table'[u].key \in {0, g_native_tls_key'}
    BY <1>2, <1>5, <1>6 DEF TlsInv, KeysInv
  <2>8. \A u \in TlsThread : At(u)' \in {"alloc", "exchange", "table"} =>
                               table'[u].key = 0
    BY <1>6, <2>1 DEF TlsInv, KeysInv
  <2> QED
    BY <2>4, <2>5, <2>6, <2>7, <2>8 DEF KeysInv
<1>11. NumbersInv'
  <2>1. \A u \in TlsThread : At(u)' = "number" => At(u) = "number" /\ doing'[u] = doing[u]
    BY <1>4, <1>7
  <2>2. \A n : Pending(n)' => Pending(n)
    BY <2>1 DEF Pending
  <2>3. \A s \in SlotObject : ~Pending(slot_[s])'
    BY <1>5, <2>2 DEF TlsInv, NumbersInv, Pending
  <2>4. \A u \in TlsThread, n \in Number :
          table'[u].slots[n] # 0 => n <= g_last_used_tls_key' /\ ~Pending(n)'
    BY <1>5, <1>8, <2>2 DEF TlsInv, NumbersInv
  <2> QED
    BY <1>5, <2>1, <2>2, <2>3, <2>4 DEF TlsInv, NumbersInv
<1>12. ScanInv'
  <2> SUFFICES ASSUME NEW u \in TlsThread
               PROVE  /\ At(u)' = "destroys" => doing'[u].again /\ doing'[u].number # 0
                      /\ At(u)' = "scans" /\ ~doing'[u].again =>
                           \A n \in Number \cap g_tls_destructors' :
                             n > doing'[u].number => table'[u].slots[n] = 0
    BY DEF ScanInv
  <2>1. CASE u = t
    BY <1>7, <2>1
  <2>2. CASE u # t
    BY <1>4, <1>5, <1>6, <2>2 DEF TlsInv, ScanInv, At
  <2> QED
    BY <2>1, <2>2
<1>13. ValuesInv'
  <2>1. \A u \in TlsThread, n \in Number : table'[u].slots[n] <= values'
    <3>1. 0 <= values
      BY DEF TlsInv, TlsTyped
    <3>2. \A u \in TlsThread, n \in Number : table'[u].slots[n] \in {0, table[u].slots[n]}
      BY <1>8
    <3> QED
      BY <1>5, <3>1, <3>2 DEF TlsInv, ValuesInv
  <2>2. \A u, v \in TlsThread, n, m \in Number :
          table'[u].slots[n] # 0 /\ table'[u].slots[n] = table'[v].slots[m] => u = v /\ n = m
    BY <1>8 DEF TlsInv, ValuesInv
  <2>3. \A i \in DOMAIN destroyed, u \in TlsThread, n \in Number :
          table'[u].slots[n] # 0 => table'[u].slots[n] # destroyed[i]
    BY <1>8 DEF TlsInv, ValuesInv
  <2> QED
    BY <1>5, <2>1, <2>2, <2>3 DEF TlsInv, ValuesInv
<1> QED
  BY <1>9, <1>10, <1>11, <1>12, <1>13 DEF TlsInv

LEMMA SetTableKeeps ==
  ASSUME TlsInv, NEW t \in TlsThread, SetTable(t)
  PROVE  TlsInv'
  BY ResetKeeps DEF SetTable, At, Runs

LEMMA RemoveTableKeeps ==
  ASSUME TlsInv, NEW t \in TlsThread, RemoveTable(t)
  PROVE  TlsInv'
<1>1. NoTable = [NoTable EXCEPT !.key = 0]
  BY DEF NoTable
<1>2. /\ table' = [table EXCEPT ![t] = [NoTable EXCEPT !.key = 0]]
      /\ Does(t, [at |-> "gone"]) /\ At(t) = "scans"
      /\ UNCHANGED <<keyVars, slotVars, values, destroyed>>
  BY <1>1 DEF RemoveTable, ScanEnds, Scans, At
<1> QED
  BY <1>2, ResetKeeps

\* What a step that leaves the keys alone must show of them.
LEMMA KeysRest ==
  ASSUME TlsInv, UNCHANGED keyVars,
         \A u \in TlsThread :
           /\ table'[u].key = table[u].key
           /\ At(u)' \in {"alloc", "exchange", "table"} \/ At(u) = "exchange" =>
                At(u)' = At(u) /\ doing'[u] = doing[u]
  PROVE  KeysInv'
<1>1. UNCHANGED <<g_native_tls_key, native>>
  BY DEF keyVars
<1>2. \A u \in TlsThread : At(u)' = "exchange" => At(u) = "exchange" /\ doing'[u] = doing[u]
  OBVIOUS
<1>3. \A u \in TlsThread : At(u) = "exchange" => At(u)' = "exchange" /\ doing'[u] = doing[u]
  OBVIOUS
<1>4. \A k : k \in native' <=> \/ k = g_native_tls_key' /\ k # 0
                               \/ \E u \in TlsThread : At(u)' = "exchange" /\ doing'[u].key = k
  BY <1>1, <1>2, <1>3 DEF TlsInv, KeysInv
<1>5. \A u, v \in TlsThread :
        At(u)' = "exchange" /\ At(v)' = "exchange" /\ doing'[u].key = doing'[v].key => u = v
  BY <1>2 DEF TlsInv, KeysInv
<1>6. \A u \in TlsThread : At(u)' = "exchange" => doing'[u].key # g_native_tls_key'
  BY <1>1, <1>2 DEF TlsInv, KeysInv
<1>7. \A u \in TlsThread : table'[u].key \in {0, g_native_tls_key'}
  BY <1>1 DEF TlsInv, KeysInv
<1>8. \A u \in TlsThread : At(u)' \in {"alloc", "exchange", "table"} => table'[u].key = 0
  BY DEF TlsInv, KeysInv
<1> QED
  BY <1>4, <1>5, <1>6, <1>7, <1>8 DEF KeysInv

LEMMA InitializeNumberKeeps ==
  ASSUME TlsInv, NEW t \in TlsThread, NEW s \in SlotObject, InitializeNumber(t, s)
  PROVE  TlsInv'
<1> DEFINE next == g_last_used_tls_key + 1
           d == [at |-> "number", of |-> s, number |-> next]
<1>1. /\ At(t) = "runs"
      /\ g_last_used_tls_key < kThreadLocalStorageSize - 1
      /\ g_last_used_tls_key' = next
      /\ Does(t, d)
      /\ UNCHANGED <<keyVars, g_tls_destructors, slot_, table, values, destroyed>>
  BY DEF InitializeNumber, At, Runs
<1>2. g_last_used_tls_key \in Places
  BY DEF TlsInv, TlsTyped
<1>3. next \in Number /\ next \in Places /\ g_last_used_tls_key \in Nat
  BY <1>1, <1>2, NumberFacts
<1>4. d \in Doing /\ d.at = "number" /\ d.number = next
  BY <1>3, DoingFacts
<1> HIDE DEF d
<1>5. /\ doing' \in [TlsThread -> Doing]
      /\ doing'[t] = d
      /\ \A u \in TlsThread : u # t => doing'[u] = doing[u]
  BY <1>1, <1>4, DoesTyped DEF TlsInv
<1>6. At(t)' = "number" /\ \A u \in TlsThread : u # t => At(u)' = At(u)
  BY <1>4, <1>5 DEF At
<1>7. \A n \in Nat : n <= g_last_used_tls_key => n <= next /\ n # next
  BY <1>3
<1>8. \A n \in Places : n \in Nat
  BY NumberFacts
<1> HIDE DEF next
<1>9. \A n : Pending(n)' => n = next \/ Pending(n)
  BY <1>4, <1>5, <1>6 DEF Pending
<1>10. \A u \in TlsThread : At(u) = "number" => doing[u].number \in Nat
  BY <1>8, DoingFacts, NumberFacts DEF TlsInv, TlsTyped, At
<1>11. TlsTyped'
  BY <1>1, <1>3, <1>5 DEF TlsInv, TlsTyped, keyVars
<1>12. KeysInv'
  BY <1>1, <1>5, <1>6, KeysRest
<1>13. NumbersInv'
  <2>1. \A n : Pending(n)' => n <= g_last_used_tls_key'
    <3>1. \A n : Pending(n) => n \in Nat
      BY <1>10 DEF Pending
    <3>2. next <= next
      BY <1>3, <1>8
    <3> QED
      BY <1>1, <1>7, <1>9, <3>1, <3>2 DEF TlsInv, NumbersInv
  <2>2. \A x \in SlotObject : slot_'[x] <= g_last_used_tls_key' /\ ~Pending(slot_[x])'
    <3> SUFFICES ASSUME NEW x \in SlotObject
                 PROVE  slot_'[x] <= g_last_used_tls_key' /\ ~Pending(slot_[x])'
      OBVIOUS
    <3>1. slot_[x] \in Nat /\ slot_[x] <= g_last_used_tls_key /\ ~Pending(slot_[x])
      BY <1>8 DEF TlsInv, TlsTyped, NumbersInv
    <3>2. slot_[x] <= next /\ slot_[x] # next
      BY <1>7, <3>1
    <3>3. \A n : n = slot_[x] => ~Pending(n)'
      BY <1>9, <3>1, <3>2
    <3>4. slot_' = slot_
      BY <1>1
    <3> QED
      BY <1>1, <3>2, <3>3, <3>4 DEF Pending
  <2>3. \A u \in TlsThread, n \in Number :
          table'[u].slots[n] # 0 => n <= g_last_used_tls_key' /\ ~Pending(n)'
    BY <1>1, <1>7, <1>8, <1>9, NumberFacts DEF TlsInv, NumbersInv
  <2>4. \A u, v \in TlsThread :
          At(u)' = "number" /\ At(v)' = "number" /\ doing'[u].number = doing'[v].number => u = v
    <3>1. \A u \in TlsThread : At(u) = "number" => doing[u].number # next
      <4>1. \A u \in TlsThread : At(u) = "number" => Pending(doing[u].number)
        BY DEF Pending
      <4> QED
        BY <1>7, <1>10, <4>1 DEF TlsInv, NumbersInv
    <3> QED
      BY <1>4, <1>5, <1>6, <3>1 DEF TlsInv, NumbersInv
  <2> QED
    BY <1>1, <2>1, <2>2, <2>3, <2>4 DEF NumbersInv
<1>14. ScanInv'
  <2>1. \A u \in TlsThread : At(u)' \in {"scans", "destroys"} =>
                               doing'[u] = doing[u] /\ At(u)' = At(u)
    BY <1>5, <1>6
  <2> QED
    BY <1>1, <2>1 DEF TlsInv, ScanInv
<1>15. ValuesInv'
  BY <1>1 DEF TlsInv, ValuesInv
<1> QED
  BY <1>11, <1>12, <1>13, <1>14, <1>15 DEF TlsInv

LEMMA InitializeDestructorKeeps ==
  ASSUME TlsInv, NEW t \in TlsThread, InitializeDestructor(t)
  PROVE  TlsInv'
<1> DEFINE s == doing[t].of
           new == doing[t].number
<1>1. /\ At(t) = "number"
      /\ slot_' = [slot_ EXCEPT ![s] = new]
      /\ g_tls_destructors' = g_tls_destructors \/ g_tls_destructors' = g_tls_destructors \cup {new}
      /\ Does(t, Runs)
      /\ UNCHANGED <<keyVars, g_last_used_tls_key, table, values, destroyed>>
  BY DEF InitializeDestructor, At
<1>2. s \in SlotObject /\ new \in Number /\ new \in Places
  BY <1>1, DoingFacts, NumberFacts DEF TlsInv, TlsTyped, At
<1>3. /\ doing' \in [TlsThread -> Doing]
      /\ doing'[t] = Runs
      /\ \A u \in TlsThread : u # t => doing'[u] = doing[u]
  BY <1>1, DoingFacts, DoesTyped DEF TlsInv
<1>4. At(t)' = "runs" /\ \A u \in TlsThread : u # t => At(u)' = At(u)
  BY <1>3 DEF At, Runs
<1>5. Pending(new)
  BY <1>1 DEF Pending
<1>6. \A n : Pending(n)' => Pending(n) /\ n # new
  <2>1. \A u \in TlsThread : At(u)' = "number" =>
          u # t /\ At(u) = "number" /\ doing'[u] = doing[u]
    BY <1>3, <1>4
  <2> QED
    BY <1>1, <2>1 DEF Pending, TlsInv, NumbersInv
<1> HIDE DEF s, new
<1>7. slot_' \in [SlotObject -> Places]
  BY <1>1, <1>2 DEF TlsInv, TlsTyped
<1>8. \A x \in SlotObject : slot_'[x] = new \/ slot_'[x] = slot_[x]
  BY <1>1, <1>2 DEF TlsInv, TlsTyped
<1>9. TlsTyped'
  BY <1>1, <1>2, <1>3, <1>7 DEF TlsInv, TlsTyped, keyVars
<1>10. KeysInv'
  BY <1>1, <1>3, <1>4, KeysRest
<1>11. NumbersInv'
  <2>1. \A n : Pending(n)' => n <= g_last_used_tls_key'
    BY <1>1, <1>6 DEF TlsInv, NumbersInv
  <2>2. \A x \in SlotObject : slot_'[x] <= g_last_used_tls_key'
    BY <1>1, <1>5, <1>8 DEF TlsInv, NumbersInv
  <2>3. \A x \in SlotObject : ~\E u \in TlsThread : At(u)' = "number" /\ doing'[u].number = slot_'[x]
    <3> SUFFICES ASSUME NEW x \in SlotObject, NEW n, n = slot_'[x], Pending(n)'
                 PROVE  FALSE
      BY DEF Pending
    <3>1. n # new /\ Pending(n)
      BY <1>6
    <3>2. n = slot_[x]
      BY <1>8, <3>1
    <3> QED
      BY <3>1, <3>2 DEF TlsInv, NumbersInv
  <2>4. \A u \in TlsThread, n \in Number :
          table'[u].slots[n] # 0 => n <= g_last_used_tls_key' /\ ~Pending(n)'
    BY <1>1, <1>6 DEF TlsInv, NumbersInv
  <2>5. \A u, v \in TlsThread :
          At(u)' = "number" /\ At(v)' = "number" /\ doing'[u].number = doing'[v].number => u = v
    BY <1>3, <1>4 DEF TlsInv, NumbersInv
  <2> QED
    BY <2>1, <2>2, <2>3, <2>4, <2>5 DEF NumbersInv, Pending
<1>12. ScanInv'
  <2>1. \A u \in TlsThread : At(u)' \in {"scans", "destroys"} =>
                               doing'[u] = doing[u] /\ At(u)' = At(u)
    BY <1>3, <1>4
  <2>2. \A u \in TlsThread : table[u].slots[new] = 0
    BY <1>2, <1>5 DEF TlsInv, NumbersInv
  <2> QED
    BY <1>1, <2>1, <2>2 DEF TlsInv, ScanInv
<1>13. ValuesInv'
  BY <1>1 DEF TlsInv, ValuesInv
<1> QED
  BY <1>9, <1>10, <1>11, <1>12, <1>13 DEF TlsInv

LEMMA FreeKeeps ==
  ASSUME TlsInv, NEW t \in TlsThread, NEW s \in SlotObject, Free(t, s)
  PROVE  TlsInv'
<1>1. /\ slot_' = [slot_ EXCEPT ![s] = 0]
      /\ g_tls_destructors' \subseteq g_tls_destructors
      /\ UNCHANGED <<keyVars, g_last_used_tls_key, table, doing, values, destroyed>>
  BY DEF Free
<1>2. \A u \in TlsThread : At(u)' = At(u)
  BY <1>1 DEF At
<1>3. \A n : Pending(n)' <=> Pending(n)
  BY <1>1, <1>2 DEF Pending
<1>4. \A x \in SlotObject : slot_'[x] = 0 \/ slot_'[x] = slot_[x]
  BY <1>1 DEF TlsInv, TlsTyped
<1>5. ~Pending(0) /\ 0 <= g_last_used_tls_key
  <2>1. ~Pending(0)
    <3>1. \A u \in TlsThread : At(u) = "number" => doing[u].number \in Number
      BY DoingFacts DEF TlsInv, TlsTyped, At
    <3> QED
      BY <3>1, NumberFacts DEF Pending
  <2>2. g_last_used_tls_key \in Nat
    BY NumberFacts DEF TlsInv, TlsTyped
  <2> QED
    BY <2>1, <2>2
<1>6. slot_' \in [SlotObject -> Places]
  BY <1>1, NumberFacts DEF TlsInv, TlsTyped
<1>7. TlsTyped'
  BY <1>1, <1>6 DEF TlsInv, TlsTyped, keyVars
<1>8. KeysInv'
  BY <1>1, <1>2, KeysRest
<1>9. NumbersInv'
  <2>1. \A x \in SlotObject : slot_'[x] <= g_last_used_tls_key'
    BY <1>1, <1>4, <1>5 DEF TlsInv, NumbersInv
  <2>2. \A x \in SlotObject : ~\E u \in TlsThread : At(u)' = "number" /\ doing'[u].number = slot_'[x]
    <3> SUFFICES ASSUME NEW x \in SlotObject, NEW n, n = slot_'[x], Pending(n)'
                 PROVE  FALSE
      BY DEF Pending
    <3> QED
      BY <1>3, <1>4, <1>5 DEF TlsInv, NumbersInv
  <2>3. \A n : Pending(n)' => n <= g_last_used_tls_key'
    BY <1>1, <1>3 DEF TlsInv, NumbersInv
  <2>4. \A u \in TlsThread, n \in Number :
          table'[u].slots[n] # 0 => n <= g_last_used_tls_key' /\ ~Pending(n)'
    BY <1>1, <1>3 DEF TlsInv, NumbersInv
  <2>5. \A u, v \in TlsThread :
          At(u)' = "number" /\ At(v)' = "number" /\ doing'[u].number = doing'[v].number => u = v
    BY <1>1, <1>2 DEF TlsInv, NumbersInv
  <2> QED
    BY <2>1, <2>2, <2>3, <2>4, <2>5 DEF NumbersInv, Pending
<1>10. ScanInv'
  BY <1>1, <1>2 DEF TlsInv, ScanInv
<1>11. ValuesInv'
  BY <1>1 DEF TlsInv, ValuesInv
<1> QED
  BY <1>7, <1>8, <1>9, <1>10, <1>11 DEF TlsInv

LEMMA SetValueKeeps ==
  ASSUME TlsInv, NEW t \in TlsThread, NEW s \in SlotObject, SetValue(t, s)
  PROVE  TlsInv'
<1> DEFINE k == slot_[s]
           new == values + 1
<1>1. /\ At(t) \in {"runs", "destroys"}
      /\ k # 0 /\ table[t].slots[k] = 0
      /\ values' = new
      /\ table' = [table EXCEPT ![t].slots[k] = new]
      /\ UNCHANGED <<keyVars, slotVars, doing, destroyed>>
  BY DEF SetValue, ClientOn, At
<1>2. UNCHANGED <<g_last_used_tls_key, g_tls_destructors, slot_>>
  BY <1>1 DEF slotVars
<1>3. k \in Number /\ k <= g_last_used_tls_key /\ ~Pending(k)
  BY <1>1, NumberFacts DEF TlsInv, TlsTyped, NumbersInv
<1>4. values \in Nat /\ new \in Nat /\ new # 0
      /\ \A v \in Nat : v <= values => v <= new /\ v # new
  BY DEF TlsInv, TlsTyped
<1>5. new <= new
  BY <1>4
<1> HIDE DEF new, k
<1>6. /\ table' \in [TlsThread -> [key : Key \cup {0}, slots : [Number -> Nat]]]
      /\ \A u \in TlsThread : table'[u].key = table[u].key
      /\ table'[t].slots[k] = new
      /\ \A u \in TlsThread, n \in Number :
           ~(u = t /\ n = k) => table'[u].slots[n] = table[u].slots[n]
  BY <1>1, <1>3, <1>4 DEF TlsInv, TlsTyped
<1>7. \A u \in TlsThread : At(u)' = At(u)
  BY <1>1 DEF At
<1>8. \A n : Pending(n)' <=> Pending(n)
  BY <1>1, <1>7 DEF Pending
<1>9. \A u \in TlsThread, n \in Number : table[u].slots[n] \in Nat /\ table[u].slots[n] <= values
  BY DEF TlsInv, TlsTyped, ValuesInv
<1>10. TlsTyped'
  BY <1>1, <1>2, <1>4, <1>6 DEF TlsInv, TlsTyped, keyVars
<1>11. KeysInv'
  BY <1>1, <1>6, <1>7, KeysRest
<1>12. NumbersInv'
  <2>1. \A x \in SlotObject : ~\E u \in TlsThread : At(u)' = "number" /\ doing'[u].number = slot_'[x]
    BY <1>1, <1>2, <1>7 DEF TlsInv, NumbersInv, Pending
  <2>2. \A u \in TlsThread, n \in Number :
          table'[u].slots[n] # 0 => n <= g_last_used_tls_key' /\ ~Pending(n)'
    BY <1>2, <1>3, <1>6, <1>8 DEF TlsInv, NumbersInv
  <2>3. \A n : Pending(n)' => n <= g_last_used_tls_key'
    BY <1>2, <1>8 DEF TlsInv, NumbersInv
  <2> QED
    BY <1>1, <1>2, <1>7, <2>1, <2>2, <2>3 DEF TlsInv, NumbersInv, Pending
<1>13. ScanInv'
  <2>1. \A u \in TlsThread : At(u) = "scans" => u # t
    BY <1>1
  <2> QED
    BY <1>1, <1>2, <1>6, <1>7, <2>1 DEF TlsInv, ScanInv
<1>14. ValuesInv'
  <2>1. \A u \in TlsThread, n \in Number : table'[u].slots[n] <= values'
    BY <1>1, <1>4, <1>5, <1>6, <1>9
  <2>2. \A u \in TlsThread, n \in Number : table[u].slots[n] # new
    BY <1>4, <1>9
  <2>3. \A u, v \in TlsThread, n, m \in Number :
          table'[u].slots[n] # 0 /\ table'[u].slots[n] = table'[v].slots[m] => u = v /\ n = m
    <3> SUFFICES ASSUME NEW u \in TlsThread, NEW v \in TlsThread,
                        NEW n \in Number, NEW m \in Number,
                        table'[u].slots[n] # 0, table'[u].slots[n] = table'[v].slots[m]
                 PROVE  u = v /\ n = m
      OBVIOUS
    <3>1. CASE (u = t /\ n = k) \/ (v = t /\ m = k)
      BY <1>6, <2>2, <3>1
    <3>2. CASE ~(u = t /\ n = k) /\ ~(v = t /\ m = k)
      BY SMTT(20), <1>6, <3>2 DEF TlsInv, ValuesInv
    <3> QED
      BY <3>1, <3>2
  <2>4. \A i \in DOMAIN destroyed : destroyed[i] \in Nat /\ destroyed[i] <= values
    BY DEF TlsInv, TlsTyped, ValuesInv
  <2>5. \A i \in DOMAIN destroyed : destroyed[i] <= values' /\ destroyed[i] # new
    BY <1>1, <1>4, <2>4
  <2>6. \A i \in DOMAIN destroyed, u \in TlsThread, n \in Number :
          table'[u].slots[n] # 0 => table'[u].slots[n] # destroyed[i]
    BY <1>6, <2>5 DEF TlsInv, ValuesInv
  <2> QED
    BY <1>1, <2>1, <2>3, <2>5, <2>6 DEF TlsInv, ValuesInv
<1> QED
  BY <1>10, <1>11, <1>12, <1>13, <1>14 DEF TlsInv

LEMMA ScanDestroysKeeps ==
  ASSUME TlsInv, NEW t \in TlsThread, ScanDestroys(t)
  PROVE  TlsInv'
<1> DEFINE k == doing[t].number
           gone == table[t].slots[k]
           d == [doing[t] EXCEPT !.at = "destroys", !.again = TRUE]
<1>1. /\ At(t) = "scans" /\ k > 0 /\ gone # 0
      /\ table' = [table EXCEPT ![t].slots[k] = 0]
      /\ Does(t, d)
      /\ destroyed' = Append(destroyed, gone)
      /\ UNCHANGED <<keyVars, slotVars, values>>
  BY DEF ScanDestroys, Scans, MustDestroy, Value, At
<1>2. UNCHANGED <<g_last_used_tls_key, g_tls_destructors, slot_>>
  BY <1>1 DEF slotVars
<1>3. doing[t] \in Doing /\ k \in Places
  BY <1>1, ScanFacts DEF TlsInv, TlsTyped, At
<1>4. k \in Number /\ k # 0
  BY <1>1, <1>3, NumberFacts
<1>5. d \in Doing /\ d.at = "destroys" /\ d.again /\ d.number = k
  <2> DEFINE S == [at : {"scans", "destroys"}, number : Places, again : BOOLEAN,
                   attempts : Nat]
  <2>1. doing[t] \in S
    BY <1>1, <1>3, DoingFacts DEF Doing, Runs, At
  <2>2. d \in S /\ d.at = "destroys" /\ d.again /\ d.number = k
    BY <2>1
  <2> QED
    BY <2>2 DEF Doing
<1>6. gone \in Nat /\ gone <= values
  BY <1>4 DEF TlsInv, TlsTyped, ValuesInv
<1> HIDE DEF d
<1>7. /\ doing' \in [TlsThread -> Doing]
      /\ doing'[t] = d
      /\ \A u \in TlsThread : u # t => doing'[u] = doing[u]
  BY <1>1, <1>5, DoesTyped DEF TlsInv
<1>8. At(t)' = "destroys" /\ \A u \in TlsThread : u # t => At(u)' = At(u)
  BY <1>5, <1>7 DEF At
<1>9. \A u \in TlsThread, n \in Number :
        (u = t /\ n = k => table[u].slots[n] = gone)
  OBVIOUS
<1>10. \A u \in TlsThread, n \in Number :
         table[u].slots[n] # 0 /\ table[u].slots[n] = gone => u = t /\ n = k
  BY <1>1, <1>4 DEF TlsInv, ValuesInv
<1>11. \A i \in DOMAIN destroyed : destroyed[i] # gone
  BY <1>1, <1>4 DEF TlsInv, ValuesInv
<1>12. /\ table' \in [TlsThread -> [key : Key \cup {0}, slots : [Number -> Nat]]]
       /\ \A u \in TlsThread : table'[u].key = table[u].key
       /\ table'[t].slots[k] = 0
       /\ \A u \in TlsThread, n \in Number :
            ~(u = t /\ n = k) => table'[u].slots[n] = table[u].slots[n]
  BY <1>1, <1>4 DEF TlsInv, TlsTyped
<1> HIDE DEF gone, k
<1>13. /\ destroyed' \in Seq(Nat)
       /\ DOMAIN destroyed' = 1..(Len(destroyed) + 1)
       /\ DOMAIN destroyed = 1..Len(destroyed)
       /\ \A i \in 1..Len(destroyed) : destroyed'[i] = destroyed[i]
       /\ destroyed'[Len(destroyed) + 1] = gone
  <2>1. destroyed \in Seq(Nat)
    BY DEF TlsInv, TlsTyped
  <2> QED
    BY <1>1, <1>6, <2>1
<1>14. \A i \in DOMAIN destroyed' :
         \/ destroyed'[i] = gone /\ i = Len(destroyed) + 1
         \/ i \in DOMAIN destroyed /\ destroyed'[i] = destroyed[i]
  <2>1. Len(destroyed) \in Nat
    BY DEF TlsInv, TlsTyped
  <2>2. \A i \in 1..(Len(destroyed) + 1) : i = Len(destroyed) + 1 \/ i \in 1..Len(destroyed)
    BY <2>1
  <2> QED
    BY <1>13, <2>2
<1>15. \A u \in TlsThread, n \in Number :
         table'[u].slots[n] # 0 => ~(u = t /\ n = k) /\ table'[u].slots[n] = table[u].slots[n]
  BY <1>12
<1>16. TlsTyped'
  BY <1>1, <1>2, <1>7, <1>12, <1>13 DEF TlsInv, TlsTyped, keyVars
<1>17. KeysInv'
  BY <1>1, <1>7, <1>8, <1>12, KeysRest
<1>18. NumbersInv'
  <2>1. \A u \in TlsThread : At(u)' = "number" => At(u) = "number" /\ doing'[u] = doing[u]
    BY <1>7, <1>8
  <2>2. \A n : Pending(n)' => Pending(n)
    BY <2>1 DEF Pending
  <2>3. \A x \in SlotObject : ~\E u \in TlsThread : At(u)' = "number" /\ doing'[u].number = slot_'[x]
    BY <1>2, <2>1 DEF TlsInv, NumbersInv, Pending
  <2>4. \A u \in TlsThread, n \in Number :
          table'[u].slots[n] # 0 => n <= g_last_used_tls_key' /\ ~Pending(n)'
    BY <1>2, <1>15, <2>2 DEF TlsInv, NumbersInv
  <2> QED
    BY <1>2, <2>1, <2>2, <2>3, <2>4 DEF TlsInv, NumbersInv, Pending
<1>19. ScanInv'
  <2> SUFFICES ASSUME NEW u \in TlsThread
               PROVE  /\ At(u)' = "destroys" => doing'[u].again /\ doing'[u].number # 0
                      /\ At(u)' = "scans" /\ ~doing'[u].again =>
                           \A n \in Number \cap g_tls_destructors' :
                             n > doing'[u].number => table'[u].slots[n] = 0
    BY DEF ScanInv
  <2>1. CASE u = t
    BY <1>4, <1>5, <1>7, <1>8, <2>1
  <2>2. CASE u # t
    BY <1>2, <1>7, <1>8, <1>12, <2>2 DEF TlsInv, ScanInv
  <2> QED
    BY <2>1, <2>2
<1>20. ValuesInv'
  <2>1. \A u \in TlsThread, n \in Number : table'[u].slots[n] <= values'
    <3>1. 0 <= values
      BY DEF TlsInv, TlsTyped
    <3>2. \A u \in TlsThread, n \in Number : table'[u].slots[n] \in {0, table[u].slots[n]}
      BY <1>15
    <3> QED
      BY <1>1, <3>1, <3>2 DEF TlsInv, ValuesInv
  <2>2. \A u, v \in TlsThread, n, m \in Number :
          table'[u].slots[n] # 0 /\ table'[u].slots[n] = table'[v].slots[m] => u = v /\ n = m
    BY <1>15 DEF TlsInv, ValuesInv
  <2>3. \A i \in DOMAIN destroyed' :
          /\ destroyed'[i] <= values'
          /\ \A u \in TlsThread, n \in Number :
               table'[u].slots[n] # 0 => table'[u].slots[n] # destroyed'[i]
    BY <1>1, <1>6, <1>10, <1>14, <1>15 DEF TlsInv, ValuesInv
  <2>4. \A i, j \in DOMAIN destroyed' : destroyed'[i] = destroyed'[j] => i = j
    BY <1>11, <1>14 DEF TlsInv, ValuesInv
  <2> QED
    BY <2>1, <2>2, <2>3, <2>4 DEF ValuesInv
<1> QED
  BY <1>16, <1>17, <1>18, <1>19, <1>20 DEF TlsInv

LEMMA TlsStep ==
  ASSUME TlsInv, [TlsNext]_tlsVars
  PROVE  TlsInv'
<1>1. ASSUME NEW t \in TlsThread, NEW s \in SlotObject,
             InitializeNumber(t, s) \/ Free(t, s) \/ SetValue(t, s)
      PROVE  TlsInv'
  BY <1>1, InitializeNumberKeeps, FreeKeeps, SetValueKeeps
<1>2. ASSUME NEW t \in TlsThread,
             \/ NeedTable(t) \/ TlsAlloc(t) \/ CompareExchange(t) \/ SetTable(t)
             \/ InitializeDestructor(t)
             \/ ThreadExits(t) \/ ScanPasses(t) \/ ScanDestroys(t) \/ DestructorReturns(t)
             \/ ScanAgain(t) \/ RemoveTable(t)
      PROVE  TlsInv'
  BY <1>2, NeedTableKeeps, TlsAllocKeeps, CompareExchangeKeeps, SetTableKeeps,
     InitializeDestructorKeeps, ThreadExitsKeeps, ScanPassesKeeps, ScanDestroysKeeps,
     DestructorReturnsKeeps, ScanAgainKeeps, RemoveTableKeeps
<1>3. CASE UNCHANGED tlsVars
  BY <1>3 DEF tlsVars, keyVars, slotVars, TlsInv, TlsTyped, KeysInv, NumbersInv, ScanInv,
     ValuesInv, Pending, At
<1> QED
  BY <1>1, <1>2, <1>3 DEF TlsNext

LEMMA TlsInvSound == TlsInv => TlsSound
<1> SUFFICES ASSUME TlsInv PROVE TlsSound
  OBVIOUS
<1>1. OneNativeKey
  <2>1. native = ({g_native_tls_key} \ {0}) \cup
                   {doing[t].key : t \in {u \in TlsThread : doing[u].at = "exchange"}}
    BY DEF TlsInv, KeysInv, At
  <2>2. \A t \in TlsThread : doing[t].at = "table" => ~HasTable(t)
    BY DEF TlsInv, KeysInv, At, HasTable
  <2> QED
    BY <2>1, <2>2 DEF TlsInv, KeysInv, OneNativeKey
<1>2. ExitDestroysValues
  <2>1. IsInjective(destroyed)
    BY DEF TlsInv, ValuesInv, IsInjective
  <2>2. \A n \in Number : n > 0
    BY DEF Number
  <2>3. \A t \in TlsThread :
          (ScanEnds(t) /\ ~doing[t].again) =>
            \A n \in Number \cap g_tls_destructors : table[t].slots[n] = 0
    BY <2>2 DEF TlsInv, ScanInv, ScanEnds, Scans, At
  <2> QED
    BY <2>1, <2>3 DEF ExitDestroysValues
<1> QED
  BY <1>1, <1>2 DEF TlsSound

\* However many threads race for the first use and whatever destructors fill again,
\* one native key remains under which every thread keeps its table, no value is
\* destroyed twice, and a thread that exits leaves none behind that a destructor was
\* registered for (thread_local_storage_win.cc:40-89, 123-187).
THEOREM TlsIsSound == TlsSpec => []TlsSound
<1>1. TlsInv /\ [TlsNext]_tlsVars => TlsInv'
  BY TlsStep
<1> QED
  BY <1>1, TlsInitInv, TlsInvSound, PTL DEF TlsSpec
-----------------------------------------------------------------------------
(* The stack of the UI thread, as a sequence that frames are pushed on and   *)
(* popped from.                                                              *)

RunAt == {"peek", "peeking", "peeked", "work", "wait"}
Loops == RunAt \cup {"modal"}
Resetting == {"replace", "replaced", "reset"}
Passing == Resetting \cup {"window", "dispatch", "handle", "ran"}
Frames == [at : Loops \cup Passing \cup {"task"}, more : BOOLEAN, quit : BOOLEAN,
           nested : BOOLEAN, os : BOOLEAN]

\* Which frame calls which, and which call a handler of a message.
Callers == {"work", "modal", "handle", "peeked", "replaced"}
Calls(below, above) ==
  \/ below \in {"task", "window"} /\ above \in Loops
  \/ below \in Callers /\ above = "window"
  \/ below \in {"work", "handle"} /\ above \in Resetting \cup {"dispatch"}
  \/ below = "modal" /\ above \in {"handle", "ran"}
  \/ below \in {"peek", "ran"} /\ above = "task"

Chain(s) ==
  /\ s # <<>> => s[1].at \in Loops
  /\ \A d \in 1..(Len(s) - 1) : Calls(s[d].at, s[d + 1].at)

\* The frames from d to e only pass on whether tasks may nest.
Passes(s, d, e) == \A x \in (d + 1)..(e - 1) : s[x].at \in Passing

\* Where tasks might nest before a modal loop, they may in it: what a loop above it
\* remembers, or m if there is none, says so, unless a task runs in between.
Nests(s, m) ==
  \A d \in 1..Len(s) : s[d].at = "modal" /\ s[d].nested =>
    /\ \A e \in (d + 1)..Len(s) :
         s[e].at \in Loops /\ Passes(s, d, e) => s[e].nested
    /\ Passes(s, d, Len(s) + 1) => m

HasRun(s) == \E d \in 1..Len(s) : s[d].at \in RunAt

\* The frame that replaces kMsgHaveWork, of which there is one at most.
HasReset(s) == \E d \in 1..Len(s) : s[d].at \in Resetting
ResetsOnce(s) ==
  \A d, e \in 1..Len(s) : s[d].at \in Resetting /\ s[e].at \in Resetting => d = e

LEMMA PushFacts ==
  ASSUME NEW s \in Seq(Frames), NEW f \in Frames
  PROVE  /\ Append(s, f) \in Seq(Frames) /\ Append(s, f) # <<>>
         /\ Len(Append(s, f)) = Len(s) + 1 /\ Last(Append(s, f)) = f
         /\ \A d \in 1..Len(s) : Append(s, f)[d] = s[d]
         /\ Append(s, f)[Len(s) + 1] = f
         /\ Front(Append(s, f)) = s
<1>1. /\ Append(s, f) \in Seq(Frames)
      /\ Len(Append(s, f)) = Len(s) + 1
      /\ \A d \in 1..Len(s) : Append(s, f)[d] = s[d]
      /\ Append(s, f)[Len(s) + 1] = f
  OBVIOUS
<1>2. Append(s, f) # <<>>
  BY AppendProperties
<1>3. Last(Append(s, f)) = f
  BY <1>1 DEF Last
<1>4. Front(Append(s, f)) = s
  BY <1>1 DEF Front
<1> QED
  BY <1>1, <1>2, <1>3, <1>4

LEMMA PopFacts ==
  ASSUME NEW s \in Seq(Frames), s # <<>>
  PROVE  /\ Front(s) \in Seq(Frames) /\ Len(Front(s)) = Len(s) - 1 /\ Len(s) \in Nat \ {0}
         /\ \A d \in 1..(Len(s) - 1) : Front(s)[d] = s[d]
         /\ Last(s) \in Frames /\ Last(s) = s[Len(s)]
         /\ s = Append(Front(s), Last(s))
<1>1. Len(s) \in Nat \ {0}
  OBVIOUS
<1>2. /\ Front(s) \in Seq(Frames) /\ Len(Front(s)) = Len(s) - 1
      /\ \A d \in 1..(Len(s) - 1) : Front(s)[d] = s[d]
  <2> DEFINE n == Len(s) - 1
             r == SubSeq(s, 1, n)
  <2>1. n \in Int /\ 1 \in Int /\ \A d \in 1..n : s[d] \in Frames
    BY <1>1
  <2> HIDE DEF n
  <2>2. /\ r \in Seq(Frames)
        /\ Len(r) = IF 1 <= n THEN n - 1 + 1 ELSE 0
        /\ \A d \in 1..(n - 1 + 1) : r[d] = s[1 + d - 1]
    BY <2>1, SubSeqProperties
  <2> HIDE DEF r
  <2>3. n \in Nat
    BY <1>1 DEF n
  <2>4. Len(r) = n /\ \A d \in 1..n : r[d] = s[d]
    <3>1. n - 1 + 1 = n /\ \A d \in 1..n : 1 + d - 1 = d
      BY <2>3
    <3>2. Len(r) = n
      BY <2>2, <2>3
    <3> QED
      BY <2>2, <3>1, <3>2
  <2>5. Front(s) = r
    BY DEF Front, r, n
  <2> QED
    BY <2>2, <2>4, <2>5 DEF n
<1>3. Last(s) \in Frames /\ Last(s) = s[Len(s)]
  BY <1>1 DEF Last
<1>4. s = Append(Front(s), Last(s))
  BY <1>1, <1>2, <1>3
<1> QED
  BY <1>1, <1>2, <1>3, <1>4

LEMMA PushKeepsChain ==
  ASSUME NEW s \in Seq(Frames), NEW f \in Frames, Chain(s),
         s = <<>> => f.at \in Loops, s # <<>> => Calls(Last(s).at, f.at)
  PROVE  Chain(Append(s, f)) /\ (HasRun(Append(s, f)) <=> HasRun(s) \/ f.at \in RunAt)
<1> DEFINE n == Len(s)
           r == Append(s, f)
<1>1. n \in Nat /\ Len(r) = n + 1 /\ (\A d \in 1..n : r[d] = s[d]) /\ r[n + 1] = f
  BY PushFacts
<1>2. s # <<>> => n > 0 /\ Last(s) = s[n]
  BY DEF Last
<1>3. s = <<>> => n = 0
  OBVIOUS
<1> HIDE DEF n, r
<1>4. r # <<>> => r[1].at \in Loops
  <2>1. CASE s = <<>>
    BY <1>1, <1>3, <2>1
  <2>2. CASE s # <<>>
    <3>1. 1 \in 1..n
      BY <1>1, <1>2, <2>2
    <3> QED
      BY <1>1, <2>2, <3>1 DEF Chain
  <2> QED
    BY <2>1, <2>2
<1>5. ASSUME NEW d \in 1..(Len(r) - 1)
      PROVE  Calls(r[d].at, r[d + 1].at)
  <2>1. d \in 1..n /\ (d = n \/ (d \in 1..(n - 1) /\ d + 1 \in 1..n))
    BY <1>1
  <2>2. CASE d = n
    BY <1>1, <1>2, <1>3, <2>1, <2>2
  <2>3. CASE d \in 1..(n - 1) /\ d + 1 \in 1..n
    BY <1>1, <2>1, <2>3 DEF Chain, n
  <2> QED
    BY <2>1, <2>2, <2>3
<1>6. HasRun(r) <=> HasRun(s) \/ f.at \in RunAt
  <2>1. \A d \in 1..Len(r) : d \in 1..n \/ d = n + 1
    BY <1>1
  <2>2. \A d \in 1..n : d \in 1..Len(r)
    BY <1>1
  <2>3. n + 1 \in 1..Len(r)
    BY <1>1
  <2> QED
    BY <1>1, <2>1, <2>2, <2>3 DEF HasRun, n
<1> QED
  BY <1>4, <1>5, <1>6 DEF Chain, r

LEMMA PopKeepsChain ==
  ASSUME NEW s \in Seq(Frames), s # <<>>, Chain(s)
  PROVE  /\ Chain(Front(s))
         /\ Front(s) = <<>> => Last(s).at \in Loops
         /\ Front(s) # <<>> => Calls(Last(Front(s)).at, Last(s).at)
         /\ HasRun(s) <=> HasRun(Front(s)) \/ Last(s).at \in RunAt
<1> DEFINE n == Len(s)
           r == Front(s)
<1>1. /\ r \in Seq(Frames) /\ Len(r) = n - 1 /\ n \in Nat \ {0}
      /\ \A d \in 1..(n - 1) : r[d] = s[d]
      /\ Last(s) = s[n]
  BY PopFacts
<1>2. r # <<>> => n - 1 > 0 /\ Last(r) = r[n - 1]
  BY <1>1 DEF Last
<1>3. r = <<>> => n = 1
  BY <1>1
<1> HIDE DEF n, r
<1>4. s[1].at \in Loops
  BY DEF Chain
<1>5. r # <<>> => r[1] = s[1]
  <2>1. r # <<>> => 1 \in 1..(n - 1)
    BY <1>1, <1>2
  <2> QED
    BY <1>1, <2>1
<1>6. ASSUME NEW d \in 1..(Len(r) - 1)
      PROVE  Calls(r[d].at, r[d + 1].at)
  <2>1. d \in 1..(n - 1) /\ d + 1 \in 1..(n - 1)
    BY <1>1
  <2> QED
    BY <1>1, <2>1 DEF Chain, n
<1>7. r # <<>> => Calls(Last(r).at, s[n].at)
  <2>1. r # <<>> => n - 1 \in 1..(n - 1) /\ (n - 1) + 1 = n
    BY <1>1, <1>2
  <2> QED
    BY <1>1, <1>2, <2>1 DEF Chain, n
<1>8. HasRun(s) <=> HasRun(r) \/ s[n].at \in RunAt
  <2>1. \A d \in 1..n : d \in 1..(n - 1) \/ d = n
    BY <1>1
  <2>2. (\A d \in 1..(n - 1) : d \in 1..n) /\ n \in 1..n
    BY <1>1
  <2> QED
    BY <1>1, <2>1, <2>2 DEF HasRun, n
<1> QED
  BY <1>1, <1>3, <1>4, <1>5, <1>6, <1>7, <1>8 DEF Chain, r

LEMMA PushKeepsNests ==
  ASSUME NEW s \in Seq(Frames), NEW f \in Frames, NEW m \in BOOLEAN, NEW k \in BOOLEAN,
         Nests(s, m),
         f.at \in Loops => (m => f.nested) /\ (f.at = "modal" /\ f.nested => k),
         f.at \in Passing => (m => k)
  PROVE  Nests(Append(s, f), k)
<1> DEFINE n == Len(s)
           r == Append(s, f)
<1>1. n \in Nat /\ Len(r) = n + 1 /\ (\A d \in 1..n : r[d] = s[d]) /\ r[n + 1] = f
  BY PushFacts
<1> HIDE DEF n, r
<1> SUFFICES ASSUME NEW d \in 1..Len(r), r[d].at = "modal", r[d].nested
             PROVE  /\ \A e \in (d + 1)..Len(r) :
                         r[e].at \in Loops /\ Passes(r, d, e) => r[e].nested
                    /\ Passes(r, d, Len(r) + 1) => k
  BY DEF Nests, r
<1>2. CASE d = n + 1
  <2>1. \A e \in (d + 1)..Len(r) : FALSE
    BY <1>1, <1>2
  <2>2. k
    BY <1>1, <1>2 DEF Loops, RunAt
  <2> QED
    BY <2>1, <2>2
<1>3. CASE d # n + 1
  <2>1. d \in 1..n /\ s[d].at = "modal" /\ s[d].nested
    BY <1>1, <1>3
  <2>2. \A e \in (d + 1)..(n + 1) : Passes(r, d, e) => Passes(s, d, e)
    <3> SUFFICES ASSUME NEW e \in (d + 1)..(n + 1), Passes(r, d, e),
                        NEW x \in (d + 1)..(e - 1)
                 PROVE  s[x].at \in Passing
      BY DEF Passes
    <3>1. x \in 1..n
      BY <1>1, <2>1
    <3> QED
      BY <1>1, <3>1 DEF Passes
  <2>3. Passes(s, d, n + 1) => m
    BY <2>1 DEF Nests, n
  <2>4. \A e \in (d + 1)..Len(r) :
          r[e].at \in Loops /\ Passes(r, d, e) => r[e].nested
    <3> SUFFICES ASSUME NEW e \in (d + 1)..(n + 1), r[e].at \in Loops, Passes(r, d, e)
                 PROVE  r[e].nested
      BY <1>1
    <3>1. CASE e = n + 1
      BY <1>1, <2>2, <2>3, <3>1
    <3>2. CASE e # n + 1
      <4>1. e \in (d + 1)..n /\ e \in 1..n
        BY <1>1, <2>1, <3>2
      <4> QED
        BY <1>1, <2>1, <2>2, <4>1 DEF Nests, n
    <3> QED
      BY <3>1, <3>2
  <2>5. Passes(r, d, Len(r) + 1) => k
    <3> SUFFICES ASSUME Passes(r, d, Len(r) + 1) PROVE k
      OBVIOUS
    <3>1. n + 1 \in (d + 1)..((Len(r) + 1) - 1)
      BY <1>1, <2>1
    <3>2. f.at \in Passing
      BY <1>1, <3>1 DEF Passes
    <3>3. \A x \in (d + 1)..((n + 1) - 1) : x \in (d + 1)..((Len(r) + 1) - 1)
      BY <1>1, <2>1
    <3>4. Passes(r, d, n + 1)
      BY <3>3 DEF Passes
    <3>5. n + 1 \in (d + 1)..(n + 1)
      BY <1>1, <2>1
    <3> QED
      BY <2>2, <2>3, <3>2, <3>4, <3>5
  <2> QED
    BY <2>4, <2>5
<1> QED
  BY <1>2, <1>3

LEMMA PopKeepsNests ==
  ASSUME NEW s \in Seq(Frames), s # <<>>, NEW m \in BOOLEAN, NEW k \in BOOLEAN,
         Nests(s, m),
         Last(s).at \in Loops => (Last(s).nested => k),
         Last(s).at \in Passing => (m => k),
         Last(s).at = "task" => k
  PROVE  Nests(Front(s), k)
<1> DEFINE n == Len(s)
           r == Front(s)
<1>1. /\ Len(r) = n - 1 /\ n \in Nat \ {0}
      /\ \A d \in 1..(n - 1) : r[d] = s[d]
      /\ Last(s) = s[n] /\ Last(s) \in Frames
  BY PopFacts
<1> HIDE DEF n, r
<1> SUFFICES ASSUME NEW d \in 1..Len(r), r[d].at = "modal", r[d].nested
             PROVE  /\ \A e \in (d + 1)..Len(r) :
                         r[e].at \in Loops /\ Passes(r, d, e) => r[e].nested
                    /\ Passes(r, d, Len(r) + 1) => k
  BY DEF Nests, r
<1>2. d \in 1..(n - 1) /\ d \in 1..n /\ s[d].at = "modal" /\ s[d].nested
  BY <1>1
<1>3. \A e \in (d + 1)..n : Passes(r, d, e) => Passes(s, d, e)
  <2> SUFFICES ASSUME NEW e \in (d + 1)..n, Passes(r, d, e), NEW x \in (d + 1)..(e - 1)
               PROVE  s[x].at \in Passing
    BY DEF Passes
  <2>1. x \in 1..(n - 1)
    BY <1>1, <1>2
  <2> QED
    BY <1>1, <2>1 DEF Passes
<1>4. \A e \in (d + 1)..Len(r) :
        r[e].at \in Loops /\ Passes(r, d, e) => r[e].nested
  <2> SUFFICES ASSUME NEW e \in (d + 1)..Len(r), r[e].at \in Loops, Passes(r, d, e)
               PROVE  r[e].nested
    OBVIOUS
  <2>1. e \in (d + 1)..n /\ e \in 1..(n - 1)
    BY <1>1, <1>2
  <2> QED
    BY <1>1, <1>2, <1>3, <2>1 DEF Nests, n
<1>5. Passes(r, d, Len(r) + 1) => k
  <2> SUFFICES ASSUME Passes(r, d, Len(r) + 1) PROVE k
    OBVIOUS
  <2>1. Len(r) + 1 = n /\ n \in (d + 1)..n
    BY <1>1, <1>2
  <2>2. Passes(s, d, n)
    BY <1>3, <2>1
  <2>3. CASE s[n].at \in Loops
    BY <1>1, <1>2, <2>1, <2>2, <2>3 DEF Nests, n
  <2>4. CASE s[n].at \in Passing
    <3>1. \A x \in (d + 1)..((n + 1) - 1) : x = n \/ x \in (d + 1)..(n - 1)
      BY <1>1, <1>2
    <3>2. Passes(s, d, n + 1)
      BY <2>2, <2>4, <3>1 DEF Passes
    <3> QED
      BY <1>1, <1>2, <2>4, <3>2 DEF Nests, n
  <2>5. CASE s[n].at = "task"
    BY <1>1, <2>5
  <2> QED
    BY <1>1, <2>3, <2>4, <2>5 DEF Frames
<1> QED
  BY <1>4, <1>5

LEMMA PushResets ==
  ASSUME NEW s \in Seq(Frames), NEW f \in Frames, ResetsOnce(s),
         f.at \in Resetting => ~HasReset(s)
  PROVE  /\ ResetsOnce(Append(s, f))
         /\ HasReset(Append(s, f)) <=> HasReset(s) \/ f.at \in Resetting
<1> DEFINE n == Len(s)
           r == Append(s, f)
<1>1. n \in Nat /\ Len(r) = n + 1 /\ (\A d \in 1..n : r[d] = s[d]) /\ r[n + 1] = f
  BY PushFacts
<1> HIDE DEF n, r
<1>2. \A d \in 1..Len(r) : d \in 1..n \/ d = n + 1
  BY <1>1
<1>3. n + 1 \in 1..Len(r) /\ \A d \in 1..n : d \in 1..Len(r)
  BY <1>1
<1>4. ResetsOnce(r)
  BY <1>1, <1>2 DEF ResetsOnce, HasReset, n
<1>5. HasReset(r) <=> HasReset(s) \/ f.at \in Resetting
  BY <1>1, <1>2, <1>3 DEF HasReset, n
<1> QED
  BY <1>4, <1>5 DEF r

LEMMA PopResets ==
  ASSUME NEW s \in Seq(Frames), s # <<>>, ResetsOnce(s)
  PROVE  /\ ResetsOnce(Front(s))
         /\ HasReset(s) <=> HasReset(Front(s)) \/ Last(s).at \in Resetting
         /\ Last(s).at \in Resetting => ~HasReset(Front(s))
<1> DEFINE n == Len(s)
           r == Front(s)
<1>1. /\ Len(r) = n - 1 /\ n \in Nat \ {0}
      /\ \A d \in 1..(n - 1) : r[d] = s[d]
      /\ Last(s) = s[n]
  BY PopFacts
<1> HIDE DEF n, r
<1>2. n \in 1..n /\ \A d \in 1..(n - 1) : d \in 1..n /\ d # n
  BY <1>1
<1>3. \A d \in 1..n : d \in 1..(n - 1) \/ d = n
  BY <1>1
<1>4. ResetsOnce(r)
  BY <1>1, <1>2 DEF ResetsOnce, n
<1>5. HasReset(s) <=> HasReset(r) \/ s[n].at \in Resetting
  BY <1>1, <1>2, <1>3 DEF HasReset, n
<1>6. s[n].at \in Resetting => ~HasReset(r)
  BY <1>1, <1>2 DEF HasReset, ResetsOnce, n
<1> QED
  BY <1>1, <1>4, <1>5, <1>6 DEF r

-----------------------------------------------------------------------------
(* kMsgHaveWork.                                                             *)

Messages == {"work", "window"}

Queued(s) == \E i \in 1..Len(s) : s[i] = "work"
QueuedOnce(s) == \A i, j \in 1..Len(s) : s[i] = "work" /\ s[j] = "work" => i = j

LEMMA MessagePosted ==
  ASSUME NEW s \in Seq(Messages), NEW m \in Messages, QueuedOnce(s),
         m = "work" => ~Queued(s)
  PROVE  /\ Append(s, m) \in Seq(Messages) /\ QueuedOnce(Append(s, m))
         /\ Queued(Append(s, m)) <=> Queued(s) \/ m = "work"
<1> DEFINE n == Len(s)
           r == Append(s, m)
<1>1. /\ r \in Seq(Messages) /\ n \in Nat /\ Len(r) = n + 1
      /\ (\A i \in 1..n : r[i] = s[i]) /\ r[n + 1] = m
  BY AppendProperties
<1> HIDE DEF n, r
<1>2. \A i \in 1..Len(r) : i \in 1..n \/ i = n + 1
  BY <1>1
<1>3. n + 1 \in 1..Len(r) /\ \A i \in 1..n : i \in 1..Len(r)
  BY <1>1
<1>4. QueuedOnce(r)
  BY <1>1, <1>2 DEF QueuedOnce, Queued, n
<1>5. Queued(r) <=> Queued(s) \/ m = "work"
  BY <1>1, <1>2, <1>3 DEF Queued, n
<1> QED
  BY <1>1, <1>4, <1>5 DEF r

LEMMA MessageTaken ==
  ASSUME NEW s \in Seq(Messages), s # <<>>, QueuedOnce(s)
  PROVE  /\ Tail(s) \in Seq(Messages) /\ Head(s) \in Messages /\ QueuedOnce(Tail(s))
         /\ Queued(Tail(s)) => Queued(s)
         /\ Head(s) = "work" => Queued(s) /\ ~Queued(Tail(s))
         /\ Head(s) # "work" => (Queued(Tail(s)) <=> Queued(s))
<1> DEFINE n == Len(s)
           r == Tail(s)
<1>1. n \in Nat \ {0}
  BY EmptySeq
<1>2. /\ r \in Seq(Messages) /\ Head(s) \in Messages /\ Len(r) = n - 1
      /\ \A i \in 1..Len(r) : r[i] = s[i + 1]
  BY HeadTailProperties
<1>3. Head(s) = s[1]
  OBVIOUS
<1> HIDE DEF n, r
<1>4. \A i \in 1..n : i = 1 \/ (i - 1 \in 1..Len(r) /\ (i - 1) + 1 = i)
  BY <1>1, <1>2
<1>5. \A i \in 1..Len(r) : i + 1 \in 1..n /\ i + 1 # 1
  BY <1>1, <1>2
<1>6. 1 \in 1..n
  BY <1>1
<1>7. QueuedOnce(r)
  <2> SUFFICES ASSUME NEW i \in 1..Len(r), NEW j \in 1..Len(r), r[i] = "work", r[j] = "work"
               PROVE  i = j
    BY DEF QueuedOnce
  <2>1. i + 1 = j + 1
    BY <1>2, <1>5 DEF QueuedOnce, n
  <2> QED
    BY <2>1, <1>1, <1>2
<1>8. Queued(r) => Queued(s)
  BY <1>2, <1>5 DEF Queued, n
<1>9. Head(s) = "work" => Queued(s) /\ ~Queued(r)
  BY <1>2, <1>3, <1>5, <1>6 DEF Queued, QueuedOnce, n
<1>10. Head(s) # "work" => (Queued(s) => Queued(r))
  BY <1>2, <1>3, <1>4 DEF Queued, n
<1> QED
  BY <1>2, <1>7, <1>8, <1>9, <1>10 DEF r

-----------------------------------------------------------------------------
(* The pump.                                                                 *)

Scheduler == UIPoster \cup {UI}

PumpTyped ==
  /\ have_work_ \in BOOLEAN /\ may_nest \in BOOLEAN
  /\ messages \in Seq(Messages)
  /\ incoming \in Nat /\ work \in Nat
  /\ stack \in Seq(Frames)
  /\ scheduling \in [Scheduler -> {"no", "exchange", "post", "clarify"}]

StackInv == Chain(stack) /\ Nests(stack, may_nest) /\ ResetsOnce(stack)

PostsWork(t) == scheduling[t] \in {"post", "clarify"}
Posts == \E t \in Scheduler : PostsWork(t)
Exchanges == \E t \in Scheduler : scheduling[t] = "exchange"
TopIn(S) == stack # <<>> /\ Last(stack).at \in S
Resets == HasReset(stack)

\* The one kMsgHaveWork there is when have_work_ is set: queued, about to be posted
\* or given up, or peeked.
FlagInv ==
  /\ QueuedOnce(messages)
  /\ \A t, u \in Scheduler : PostsWork(t) /\ PostsWork(u) => t = u
  /\ ~(Queued(messages) /\ Posts)
  /\ ~(Queued(messages) /\ Resets)
  /\ ~(Posts /\ Resets)
  /\ have_work_ <=> Queued(messages) \/ Posts \/ Resets

HasTasks == incoming + work > 0
Coming == have_work_ \/ Exchanges

\* Where a thread sleeps or may go to sleep without a look at the tasks, work is
\* scheduled if there are any, unless a kMsgHaveWork was lost for a known reason.
WorkInv ==
  /\ TopIn({"wait"}) /\ may_nest /\ HasTasks => Coming \/ "full" \in missed
  /\ TopIn({"modal", "window", "dispatch", "task"}) /\ HasRun(stack) /\ may_nest
       /\ HasTasks => Coming \/ missed # {}

PumpInv == PumpTyped /\ StackInv /\ FlagInv /\ WorkInv

LEMMA PumpInitInv == UIInit => PumpInv
<1> SUFFICES ASSUME UIInit PROVE PumpInv
  OBVIOUS
<1>1. /\ stack = <<>> /\ messages = <<>> /\ have_work_ = FALSE /\ may_nest = TRUE
      /\ incoming = 0 /\ work = 0 /\ \A t \in Scheduler : scheduling[t] = "no"
  BY DEF UIInit, Scheduler
<1>2. messages \in Seq(Messages) /\ stack \in Seq(Frames) /\ Len(messages) = 0
      /\ Len(stack) = 0
  BY <1>1
<1>3. scheduling \in [Scheduler -> {"no", "exchange", "post", "clarify"}]
  BY DEF UIInit, Scheduler
<1>9. PumpTyped
  BY <1>1, <1>2, <1>3 DEF PumpTyped
<1>4. \A i \in 1..0 : FALSE
  OBVIOUS
<1>5. Chain(stack)
  <2>1. \A d \in 1..(Len(stack) - 1) : FALSE
    BY <1>2
  <2> QED
    BY <1>1, <2>1 DEF Chain
<1>6. Nests(stack, may_nest)
  BY <1>2, <1>4 DEF Nests
<1>10. ResetsOnce(stack) /\ ~Resets
  BY <1>2, <1>4 DEF ResetsOnce, Resets, HasReset
<1>7. FlagInv
  BY <1>1, <1>2, <1>4, <1>10 DEF FlagInv, QueuedOnce, Queued, Posts, PostsWork
<1>8. WorkInv
  BY <1>1 DEF WorkInv, TopIn
<1> QED
  BY <1>5, <1>6, <1>7, <1>8, <1>9, <1>10 DEF PumpInv, StackInv

-----------------------------------------------------------------------------
(* ScheduleWork and posts.                                                   *)

LEMMA SchedulesTyped ==
  ASSUME PumpTyped, NEW t \in Scheduler, NEW to \in {"no", "exchange", "post", "clarify"},
         Schedules(t, to)
  PROVE  /\ scheduling' \in [Scheduler -> {"no", "exchange", "post", "clarify"}]
         /\ scheduling'[t] = to
         /\ \A u \in Scheduler : u # t => scheduling'[u] = scheduling[u]
  BY DEF PumpTyped, Schedules

\* A step that leaves the stack alone.
LEMMA StackRest ==
  ASSUME PumpInv, UNCHANGED <<stack, may_nest>>
  PROVE  /\ StackInv' /\ (HasRun(stack)' <=> HasRun(stack))
         /\ (Resets' <=> Resets) /\ \A S : TopIn(S)' <=> TopIn(S)
  BY DEF PumpInv, StackInv, Resets, TopIn

LEMMA ExchangeKeeps ==
  ASSUME PumpInv, NEW t \in Scheduler, Exchange(t)
  PROVE  PumpInv'
<1>1. /\ scheduling[t] = "exchange" /\ have_work_' = TRUE
      /\ Schedules(t, IF have_work_ THEN "no" ELSE "post")
      /\ UNCHANGED <<messages, incoming, work, may_nest, stack, missed>>
  BY DEF Exchange, delegate
<1>2. PICK to \in {"no", "post"} : Schedules(t, to) /\ (to = "post" <=> ~have_work_)
  BY <1>1 DEF PumpInv, PumpTyped
<1>3. /\ scheduling' \in [Scheduler -> {"no", "exchange", "post", "clarify"}]
      /\ scheduling'[t] = to
      /\ \A u \in Scheduler : u # t => scheduling'[u] = scheduling[u]
  BY <1>2, SchedulesTyped DEF PumpInv
<1>4. PumpTyped'
  BY <1>1, <1>3 DEF PumpInv, PumpTyped
<1>5. StackInv' /\ (HasRun(stack)' <=> HasRun(stack)) /\ (Resets' <=> Resets)
      /\ \A S : TopIn(S)' <=> TopIn(S)
  BY <1>1, StackRest
<1>6. \A u \in Scheduler : PostsWork(u)' <=> PostsWork(u) \/ (u = t /\ to = "post")
  BY <1>1, <1>3 DEF PostsWork
<1>7. Posts' <=> Posts \/ to = "post"
  BY <1>6 DEF Posts
<1>8. FlagInv'
  BY <1>1, <1>2, <1>5, <1>6, <1>7 DEF PumpInv, FlagInv, Posts
<1>9. WorkInv'
  BY <1>1 DEF WorkInv, Coming
<1> QED
  BY <1>4, <1>5, <1>8, <1>9 DEF PumpInv

LEMMA PostWorkKeeps ==
  ASSUME PumpInv, NEW t \in Scheduler, PostWork(t)
  PROVE  PumpInv'
<1>1. /\ scheduling[t] = "post"
      /\ UNCHANGED <<have_work_, incoming, work, may_nest, stack>>
      /\ \/ messages' = Append(messages, "work") /\ Schedules(t, "no") /\ missed' = missed
         \/ messages' = messages /\ Schedules(t, "clarify") /\ missed' = missed \cup {"full"}
  BY DEF PostWork, delegate
<1>2. PostsWork(t) /\ Posts /\ ~Queued(messages) /\ ~Resets /\ have_work_
  BY <1>1 DEF PumpInv, FlagInv, PostsWork, Posts
<1>3. StackInv' /\ (HasRun(stack)' <=> HasRun(stack)) /\ (Resets' <=> Resets)
      /\ \A S : TopIn(S)' <=> TopIn(S)
  BY <1>1, StackRest
<1>4. WorkInv'
  BY <1>1, <1>2 DEF WorkInv, Coming
<1>5. CASE messages' = Append(messages, "work") /\ Schedules(t, "no")
  <2>1. /\ scheduling' \in [Scheduler -> {"no", "exchange", "post", "clarify"}]
        /\ scheduling'[t] = "no"
        /\ \A u \in Scheduler : u # t => scheduling'[u] = scheduling[u]
    BY <1>5, SchedulesTyped DEF PumpInv
  <2>2. messages' \in Seq(Messages) /\ QueuedOnce(messages') /\ Queued(messages')
    BY <1>2, <1>5, MessagePosted DEF PumpInv, PumpTyped, FlagInv, Messages
  <2>3. \A u \in Scheduler : ~PostsWork(u)'
    BY <1>2, <2>1 DEF PumpInv, FlagInv, PostsWork
  <2>4. FlagInv'
    BY <1>1, <1>2, <1>3, <2>2, <2>3 DEF FlagInv, Posts
  <2>5. PumpTyped'
    BY <1>1, <2>1, <2>2 DEF PumpInv, PumpTyped
  <2> QED
    BY <1>3, <1>4, <2>4, <2>5 DEF PumpInv
<1>6. CASE messages' = messages /\ Schedules(t, "clarify")
  <2>1. /\ scheduling' \in [Scheduler -> {"no", "exchange", "post", "clarify"}]
        /\ scheduling'[t] = "clarify"
        /\ \A u \in Scheduler : u # t => scheduling'[u] = scheduling[u]
    BY <1>6, SchedulesTyped DEF PumpInv
  <2>2. \A u \in Scheduler : PostsWork(u)' <=> PostsWork(u)
    BY <1>1, <2>1 DEF PostsWork
  <2>3. FlagInv'
    BY <1>1, <1>3, <1>6, <2>2 DEF PumpInv, FlagInv, Posts
  <2>4. PumpTyped'
    BY <1>1, <1>6, <2>1 DEF PumpInv, PumpTyped
  <2> QED
    BY <1>3, <1>4, <2>3, <2>4 DEF PumpInv
<1> QED
  BY <1>1, <1>5, <1>6

LEMMA ClarifyKeeps ==
  ASSUME PumpInv, NEW t \in Scheduler, Clarify(t)
  PROVE  PumpInv'
<1>1. /\ scheduling[t] = "clarify" /\ have_work_' = FALSE /\ missed' = missed \cup {"full"}
      /\ Schedules(t, "no")
      /\ UNCHANGED <<messages, incoming, work, may_nest, stack>>
  BY DEF Clarify, delegate
<1>2. /\ scheduling' \in [Scheduler -> {"no", "exchange", "post", "clarify"}]
      /\ scheduling'[t] = "no"
      /\ \A u \in Scheduler : u # t => scheduling'[u] = scheduling[u]
  BY <1>1, SchedulesTyped DEF PumpInv
<1>3. StackInv' /\ (HasRun(stack)' <=> HasRun(stack)) /\ (Resets' <=> Resets)
      /\ \A S : TopIn(S)' <=> TopIn(S)
  BY <1>1, StackRest
<1>4. PostsWork(t) /\ Posts /\ ~Queued(messages) /\ ~Resets
  BY <1>1 DEF PumpInv, FlagInv, PostsWork, Posts
<1>5. \A u \in Scheduler : ~PostsWork(u)'
  BY <1>2, <1>4 DEF PumpInv, FlagInv, PostsWork
<1>6. FlagInv'
  BY <1>1, <1>3, <1>4, <1>5 DEF PumpInv, FlagInv, Posts
<1>7. WorkInv'
  BY <1>1 DEF WorkInv
<1>8. PumpTyped'
  BY <1>1, <1>2 DEF PumpInv, PumpTyped
<1> QED
  BY <1>3, <1>6, <1>7, <1>8 DEF PumpInv

LEMMA AddToIncomingQueueKeeps ==
  ASSUME PumpInv, NEW t \in Scheduler, AddToIncomingQueue(t)
  PROVE  PumpInv'
<1>1. /\ scheduling[t] = "no" /\ incoming' = incoming + 1
      /\ Schedules(t, IF incoming = 0 THEN "exchange" ELSE "no")
      /\ UNCHANGED <<have_work_, messages, work, may_nest, stack, missed>>
  BY DEF AddToIncomingQueue
<1>2. PICK to \in {"no", "exchange"} : Schedules(t, to) /\ (to = "exchange" <=> incoming = 0)
  BY <1>1
<1>3. /\ scheduling' \in [Scheduler -> {"no", "exchange", "post", "clarify"}]
      /\ scheduling'[t] = to
      /\ \A u \in Scheduler : u # t => scheduling'[u] = scheduling[u]
  BY <1>2, SchedulesTyped DEF PumpInv
<1>4. StackInv' /\ (HasRun(stack)' <=> HasRun(stack)) /\ (Resets' <=> Resets)
      /\ \A S : TopIn(S)' <=> TopIn(S)
  BY <1>1, StackRest
<1>5. \A u \in Scheduler : PostsWork(u)' <=> PostsWork(u)
  BY <1>1, <1>3 DEF PostsWork
<1>6. FlagInv'
  BY <1>1, <1>4, <1>5 DEF PumpInv, FlagInv, Posts
<1>7. incoming # 0 => HasTasks
  BY DEF HasTasks, PumpInv, PumpTyped
<1>8. Exchanges => Exchanges'
  BY <1>1, <1>3 DEF Exchanges
<1>9. incoming = 0 => Exchanges'
  BY <1>2, <1>3 DEF Exchanges
<1>10. WorkInv'
  BY <1>1, <1>4, <1>7, <1>8, <1>9 DEF PumpInv, WorkInv, Coming
<1>11. PumpTyped'
  BY <1>1, <1>3 DEF PumpInv, PumpTyped
<1> QED
  BY <1>4, <1>6, <1>10, <1>11 DEF PumpInv

LEMMA WindowMessageKeeps ==
  ASSUME PumpInv, WindowMessage
  PROVE  PumpInv'
<1>1. /\ messages' = Append(messages, "window") \/ messages' = messages
      /\ UNCHANGED <<have_work_, incoming, work, may_nest, stack, scheduling, missed>>
  BY DEF WindowMessage, delegate
<1>2. messages' \in Seq(Messages) /\ QueuedOnce(messages')
      /\ (Queued(messages') <=> Queued(messages))
  <2>1. messages \in Seq(Messages) /\ QueuedOnce(messages)
    BY DEF PumpInv, PumpTyped, FlagInv
  <2>2. CASE messages' = Append(messages, "window")
    BY <2>1, <2>2, MessagePosted DEF Messages
  <2>3. CASE messages' = messages
    BY <2>1, <2>3
  <2> QED
    BY <1>1, <2>2, <2>3
<1>3. StackInv' /\ (HasRun(stack)' <=> HasRun(stack)) /\ (Resets' <=> Resets)
      /\ \A S : TopIn(S)' <=> TopIn(S)
  BY <1>1, StackRest
<1>4. FlagInv'
  BY <1>1, <1>2, <1>3 DEF PumpInv, FlagInv, Posts, PostsWork
<1>5. WorkInv'
  BY <1>1, <1>3 DEF PumpInv, WorkInv, Coming, Exchanges, HasTasks
<1>6. PumpTyped'
  BY <1>1, <1>2 DEF PumpInv, PumpTyped
<1> QED
  BY <1>3, <1>4, <1>5, <1>6 DEF PumpInv

-----------------------------------------------------------------------------
(* The UI thread.                                                            *)

LEMMA FrameFacts ==
  ASSUME NEW at \in Loops \cup Passing \cup {"task"}
  PROVE  /\ Frame(at) \in Frames /\ Frame(at).at = at
         /\ \A os \in BOOLEAN : PumpTyped =>
              /\ Loop(at, os) \in Frames /\ Loop(at, os).at = at
              /\ Loop(at, os).nested = may_nest
  BY DEF Frame, Loop, Frames, PumpTyped

LEMMA GoesFacts ==
  ASSUME PumpTyped, stack # <<>>, NEW at \in Loops \cup Passing \cup {"task"},
         NEW more \in BOOLEAN
  PROVE  /\ Goes(at) \in Frames /\ Goes(at).at = at
         /\ Goes(at).nested = Last(stack).nested
         /\ [Goes(at) EXCEPT !.more = more] \in Frames
         /\ [Goes(at) EXCEPT !.more = more].at = at
         /\ [Goes(at) EXCEPT !.more = more].nested = Last(stack).nested
<1>1. Last(stack) \in Frames
  BY PopFacts DEF PumpTyped
<1> QED
  BY <1>1 DEF Goes, Frames

LEMMA UISchedules ==
  ASSUME PumpTyped, scheduling[UI] = "no",
         \/ scheduling' = scheduling
         \/ \E to \in {"no", "exchange"} : Schedules(UI, to)
  PROVE  /\ scheduling' \in [Scheduler -> {"no", "exchange", "post", "clarify"}]
         /\ \A u \in Scheduler : PostsWork(u)' <=> PostsWork(u)
         /\ Posts' <=> Posts
         /\ Exchanges => Exchanges'
         /\ Schedules(UI, "exchange") => Exchanges'
<1>1. UI \in Scheduler
  BY DEF Scheduler
<1>2. /\ scheduling' \in [Scheduler -> {"no", "exchange", "post", "clarify"}]
      /\ \A u \in Scheduler : PostsWork(u)' <=> PostsWork(u)
      /\ Exchanges => Exchanges'
      /\ Schedules(UI, "exchange") => Exchanges'
  <2>1. CASE scheduling' = scheduling
    <3>1. ~Schedules(UI, "exchange")
      <4>1. [scheduling EXCEPT ![UI] = "exchange"][UI] = "exchange"
        BY <1>1 DEF PumpTyped
      <4> QED
        BY <2>1, <4>1 DEF Schedules
    <3> QED
      BY <2>1, <3>1 DEF PumpTyped, PostsWork, Exchanges
  <2>2. ASSUME NEW to \in {"no", "exchange"}, Schedules(UI, to)
        PROVE  /\ scheduling' \in [Scheduler -> {"no", "exchange", "post", "clarify"}]
               /\ \A u \in Scheduler : PostsWork(u)' <=> PostsWork(u)
               /\ Exchanges => Exchanges'
               /\ Schedules(UI, "exchange") => Exchanges'
    <3>1. /\ scheduling' \in [Scheduler -> {"no", "exchange", "post", "clarify"}]
          /\ scheduling'[UI] = to
          /\ \A u \in Scheduler : u # UI => scheduling'[u] = scheduling[u]
      BY <1>1, <2>2, SchedulesTyped
    <3>2. Schedules(UI, "exchange") => scheduling'[UI] = "exchange"
      BY <1>1 DEF Schedules, PumpTyped
    <3> QED
      BY <1>1, <3>1, <3>2 DEF PostsWork, Exchanges
  <2> QED
    BY <2>1, <2>2
<1>3. Posts' <=> Posts
  BY <1>2 DEF Posts
<1> QED
  BY <1>2, <1>3

\* A step of the UI thread that takes no message and resets no flag.
LEMMA FlagMoves ==
  ASSUME PumpInv, scheduling[UI] = "no",
         \/ scheduling' = scheduling
         \/ \E to \in {"no", "exchange"} : Schedules(UI, to),
         UNCHANGED <<have_work_, messages>>, Resets' <=> Resets
  PROVE  FlagInv' /\ (Coming => Coming')
<1>1. PumpTyped
  BY DEF PumpInv
<1>2. /\ \A u \in Scheduler : PostsWork(u)' <=> PostsWork(u)
      /\ Posts' <=> Posts
      /\ Exchanges => Exchanges'
  BY <1>1, UISchedules
<1>3. FlagInv'
  BY <1>2 DEF PumpInv, FlagInv
<1> QED
  BY <1>2, <1>3 DEF Coming

LEMMA UnderFacts ==
  ASSUME PumpInv, stack # <<>>
  PROVE  /\ Under \in Seq(Frames) /\ Chain(Under) /\ ResetsOnce(Under)
         /\ Last(stack) \in Frames
         /\ Under = <<>> => Last(stack).at \in Loops
         /\ Under # <<>> => Calls(Last(Under).at, Last(stack).at)
         /\ HasRun(stack) <=> HasRun(Under) \/ Last(stack).at \in RunAt
         /\ Resets <=> HasReset(Under) \/ Last(stack).at \in Resetting
         /\ Last(stack).at \in Resetting => ~HasReset(Under)
         /\ \A k \in BOOLEAN :
              /\ Last(stack).at \in Loops => (Last(stack).nested => k)
              /\ Last(stack).at \in Passing => (may_nest => k)
              /\ Last(stack).at = "task" => k
              => Nests(Under, k)
<1>1. stack \in Seq(Frames) /\ may_nest \in BOOLEAN /\ Chain(stack) /\ Nests(stack, may_nest)
      /\ ResetsOnce(stack)
  BY DEF PumpInv, PumpTyped, StackInv
<1>2. Front(stack) \in Seq(Frames) /\ Last(stack) \in Frames
  BY <1>1, PopFacts
<1>3. /\ Chain(Front(stack))
      /\ Front(stack) = <<>> => Last(stack).at \in Loops
      /\ Front(stack) # <<>> => Calls(Last(Front(stack)).at, Last(stack).at)
      /\ HasRun(stack) <=> HasRun(Front(stack)) \/ Last(stack).at \in RunAt
  BY <1>1, PopKeepsChain
<1>4. \A k \in BOOLEAN :
        /\ Last(stack).at \in Loops => (Last(stack).nested => k)
        /\ Last(stack).at \in Passing => (may_nest => k)
        /\ Last(stack).at = "task" => k
        => Nests(Front(stack), k)
  BY <1>1, PopKeepsNests
<1>5. /\ ResetsOnce(Front(stack))
      /\ HasReset(stack) <=> HasReset(Front(stack)) \/ Last(stack).at \in Resetting
      /\ Last(stack).at \in Resetting => ~HasReset(Front(stack))
  BY <1>1, PopResets
<1> QED
  BY <1>2, <1>3, <1>4, <1>5 DEF Under, Resets

\* The frame on top goes on within a loop or a handler of messages.
LEMMA Replaced ==
  ASSUME PumpInv, stack # <<>>, NEW f \in Frames, NEW k \in BOOLEAN,
         f.nested = Last(stack).nested,
         f.at \in Resetting => Last(stack).at \in Resetting,
         \/ {f.at, Last(stack).at} \subseteq RunAt
         \/ {f.at, Last(stack).at} \subseteq Resetting \cup {"dispatch"} /\ k = may_nest
         \/ {f.at, Last(stack).at} \subseteq {"handle", "ran"} /\ k = may_nest
  PROVE  /\ Append(Under, f) \in Seq(Frames) /\ Chain(Append(Under, f))
         /\ Append(Under, f) # <<>> /\ Last(Append(Under, f)) = f
         /\ HasRun(Append(Under, f)) <=> HasRun(stack)
         /\ Nests(Append(Under, f), k)
         /\ ResetsOnce(Append(Under, f))
         /\ HasReset(Append(Under, f)) <=>
              Resets /\ (f.at \in Resetting <=> Last(stack).at \in Resetting)
<1>1. /\ Under \in Seq(Frames) /\ Chain(Under) /\ Last(stack) \in Frames
      /\ Under = <<>> => Last(stack).at \in Loops
      /\ Under # <<>> => Calls(Last(Under).at, Last(stack).at)
      /\ HasRun(stack) <=> HasRun(Under) \/ Last(stack).at \in RunAt
  BY UnderFacts
<1>2. Under = <<>> => f.at \in Loops
  BY <1>1 DEF Loops, RunAt, Resetting
<1>3. Under # <<>> => Calls(Last(Under).at, f.at)
  BY <1>1 DEF Calls, Callers, Loops, RunAt, Resetting
<1>4. /\ Append(Under, f) \in Seq(Frames) /\ Append(Under, f) # <<>>
      /\ Last(Append(Under, f)) = f
  BY <1>1, PushFacts
<1>5. /\ Chain(Append(Under, f))
      /\ HasRun(Append(Under, f)) <=> HasRun(Under) \/ f.at \in RunAt
  BY <1>1, <1>2, <1>3, PushKeepsChain
<1>6. Nests(Append(Under, f), k)
  <2>1. Last(stack).nested \in BOOLEAN /\ may_nest \in BOOLEAN
    BY <1>1 DEF Frames, PumpInv, PumpTyped
  <2>2. CASE {f.at, Last(stack).at} \subseteq RunAt
    <3>1. Nests(Under, f.nested)
      BY <2>1, <2>2, UnderFacts DEF Loops, Passing, RunAt, Resetting
    <3> QED
      BY <1>1, <2>1, <2>2, <3>1, PushKeepsNests DEF Loops, Passing, RunAt, Resetting
  <2>3. CASE {f.at, Last(stack).at} \subseteq Passing /\ k = may_nest
    <3>1. Nests(Under, may_nest)
      BY <2>1, <2>3, UnderFacts DEF Loops, Passing, RunAt, Resetting
    <3> QED
      BY <1>1, <2>1, <2>3, <3>1, PushKeepsNests DEF Loops, Passing, RunAt, Resetting
  <2> QED
    BY <2>2, <2>3 DEF Passing
<1>7. HasRun(Append(Under, f)) <=> HasRun(stack)
  <2>1. f.at \in RunAt <=> Last(stack).at \in RunAt
    BY DEF RunAt, Resetting
  <2> QED
    BY <1>1, <1>5, <2>1
<1>8. /\ ResetsOnce(Under)
      /\ Resets <=> HasReset(Under) \/ Last(stack).at \in Resetting
      /\ Last(stack).at \in Resetting => ~HasReset(Under)
  BY UnderFacts
<1>9. /\ ResetsOnce(Append(Under, f))
      /\ HasReset(Append(Under, f)) <=> HasReset(Under) \/ f.at \in Resetting
  BY <1>1, <1>8, PushResets
<1> QED
  BY <1>4, <1>5, <1>6, <1>7, <1>8, <1>9

\* A handler of a message is called.
LEMMA HandlerCalled ==
  ASSUME NEW s \in Seq(Frames), s # <<>>, Chain(s), NEW m \in BOOLEAN, Nests(s, m),
         ResetsOnce(s), Last(s).at \in Callers,
         NEW r, r = Append(s, Frame("window"))
  PROVE  /\ r \in Seq(Frames) /\ r # <<>> /\ Last(r).at = "window"
         /\ Chain(r) /\ Nests(r, m) /\ ResetsOnce(r)
         /\ HasRun(r) <=> HasRun(s)
         /\ HasReset(r) <=> HasReset(s)
<1> DEFINE w == Frame("window")
<1>1. w \in Frames /\ w.at = "window"
  BY FrameFacts DEF Passing
<1> HIDE DEF w
<1>2. r = Append(s, w)
  BY DEF w
<1>3. w.at \in Passing /\ w.at \notin Loops /\ w.at \notin RunAt /\ w.at \notin Resetting
  BY <1>1 DEF Loops, Passing, RunAt, Resetting
<1>4. Calls(Last(s).at, w.at)
  BY <1>1 DEF Calls
<1>5. r \in Seq(Frames) /\ r # <<>> /\ Last(r).at = "window"
  BY <1>1, <1>2, PushFacts
<1>6. Chain(r) /\ (HasRun(r) <=> HasRun(s))
  BY <1>1, <1>2, <1>3, <1>4, PushKeepsChain
<1>7. Nests(r, m)
  BY <1>1, <1>2, <1>3, PushKeepsNests
<1>8. ResetsOnce(r) /\ (HasReset(r) <=> HasReset(s))
  BY <1>1, <1>2, <1>3, PushResets
<1> QED
  BY <1>5, <1>6, <1>7, <1>8

\* What is on top of a modal loop that remembers that tasks might nest.
LEMMA ModalNests ==
  ASSUME PumpInv, TopIn({"modal"}), Last(stack).nested
  PROVE  may_nest
<1> DEFINE n == Len(stack)
<1>1. n \in Nat \ {0} /\ Last(stack) = stack[n]
  BY PopFacts DEF PumpInv, PumpTyped, TopIn
<1>2. n \in 1..n /\ \A x \in (n + 1)..((n + 1) - 1) : FALSE
  BY <1>1
<1>3. Passes(stack, n, n + 1)
  BY <1>2 DEF Passes
<1> HIDE DEF n
<1> QED
  BY <1>1, <1>2, <1>3 DEF PumpInv, StackInv, Nests, TopIn, n

LEMMA EnterLoopKeeps ==
  ASSUME PumpInv, EnterLoop
  PROVE  PumpInv'
<1>1. PICK at \in {"peek", "modal"}, allow, os \in BOOLEAN :
        /\ stack' = Append(stack, Loop(at, os))
        /\ may_nest' = (may_nest \/ allow)
        /\ Schedules(UI, IF allow /\ ~may_nest THEN "exchange" ELSE "no")
  BY DEF EnterLoop
<1>2. /\ scheduling[UI] = "no" /\ (stack = <<>> \/ TopIn({"task", "window"}))
      /\ UNCHANGED <<have_work_, messages, incoming, work, missed>>
  BY DEF EnterLoop, ClientOnTop, TopIs, TopIn, delegate
<1> DEFINE f == Loop(at, os)
<1>3. PumpTyped /\ stack \in Seq(Frames) /\ Chain(stack) /\ Nests(stack, may_nest)
      /\ may_nest \in BOOLEAN /\ ResetsOnce(stack)
  BY DEF PumpInv, PumpTyped, StackInv
<1>4. f \in Frames /\ f.at = at /\ f.nested = may_nest /\ at \in Loops
  BY <1>3, FrameFacts DEF Loops, RunAt
<1> HIDE DEF f
<1>5. stack' = Append(stack, f)
  BY <1>1 DEF f
<1>6. stack' \in Seq(Frames) /\ stack' # <<>> /\ Last(stack') = f
  BY <1>3, <1>4, <1>5, PushFacts
<1>7. Chain(stack') /\ (HasRun(stack') <=> HasRun(stack) \/ at = "peek")
  <2>1. stack # <<>> => Calls(Last(stack).at, f.at)
    BY <1>2, <1>4 DEF TopIn, Calls
  <2>2. f.at \in RunAt <=> at = "peek"
    BY <1>4 DEF RunAt
  <2> QED
    BY <1>3, <1>4, <1>5, <2>1, <2>2, PushKeepsChain
<1>8. may_nest' \in BOOLEAN
  BY <1>1, <1>3
<1>9. Nests(stack', may_nest')
  <2>1. may_nest => may_nest'
    BY <1>1, <1>3
  <2> QED
    BY <1>3, <1>4, <1>5, <1>8, <2>1, PushKeepsNests DEF Loops, Passing, RunAt, Resetting
<1>10. \E to \in {"no", "exchange"} : Schedules(UI, to)
  BY <1>1
<1>11. scheduling' \in [Scheduler -> {"no", "exchange", "post", "clarify"}]
       /\ (Schedules(UI, "exchange") => Exchanges')
  BY <1>2, <1>3, <1>10, UISchedules
<1>12. ResetsOnce(stack') /\ (Resets' <=> Resets)
  <2>1. f.at \notin Resetting
    BY <1>4 DEF Resetting
  <2> QED
    BY <1>3, <1>4, <1>5, <2>1, PushResets DEF Resets
<1>13. FlagInv' /\ (Coming => Coming')
  BY <1>2, <1>10, <1>12, FlagMoves
<1>14. WorkInv'
  <2>1. ~TopIn({"wait"})'
    BY <1>4, <1>6 DEF TopIn
  <2> SUFFICES ASSUME TopIn({"modal", "window", "dispatch", "task"})', HasRun(stack)',
                      may_nest', HasTasks'
               PROVE  Coming' \/ missed' # {}
    BY <2>1 DEF WorkInv
  <2>2. at = "modal" /\ HasRun(stack) /\ HasTasks
    BY <1>2, <1>4, <1>6, <1>7 DEF TopIn, HasTasks
  <2>3. stack # <<>>
    <3>1. stack = <<>> => Len(stack) = 0 /\ \A d \in 1..0 : FALSE
      OBVIOUS
    <3> QED
      BY <2>2, <3>1 DEF HasRun
  <2>4. CASE may_nest
    BY <1>2, <1>13, <2>2, <2>3, <2>4 DEF PumpInv, WorkInv, TopIn
  <2>5. CASE ~may_nest
    <3>1. Schedules(UI, "exchange")
      BY <1>1, <1>3, <2>5
    <3> QED
      BY <1>11, <3>1 DEF Coming
  <2> QED
    BY <2>4, <2>5
<1>15. PumpTyped'
  BY <1>2, <1>3, <1>6, <1>8, <1>11 DEF PumpTyped
<1> QED
  BY <1>7, <1>9, <1>12, <1>13, <1>14, <1>15 DEF PumpInv, StackInv

LEMMA LeaveLoopKeeps ==
  ASSUME PumpInv, LeaveLoop
  PROVE  PumpInv'
<1> DEFINE f == Last(stack)
<1>1. /\ stack # <<>> /\ f.at \in {"modal", "peek", "work"} /\ scheduling[UI] = "no"
      /\ stack' = Under /\ may_nest' = f.nested
      /\ missed' = missed \cup (IF TopIs("modal") THEN {} ELSE Leaves)
      /\ UNCHANGED <<have_work_, messages, incoming, work, scheduling>>
  BY DEF LeaveLoop, TopIs, delegate
<1>2. /\ Under \in Seq(Frames) /\ Chain(Under) /\ f \in Frames
      /\ ResetsOnce(Under) /\ (Resets <=> HasReset(Under) \/ f.at \in Resetting)
      /\ Under # <<>> => Calls(Last(Under).at, f.at)
      /\ HasRun(stack) <=> HasRun(Under) \/ f.at \in RunAt
  BY <1>1, UnderFacts
<1>3. may_nest' \in BOOLEAN
  BY <1>1, <1>2 DEF Frames
<1>4. Nests(Under, may_nest')
  BY <1>1, <1>3, UnderFacts DEF Loops, Passing, RunAt, Resetting
<1>5. Under # <<>> => Last(Under).at \in {"task", "window"}
  BY <1>1, <1>2 DEF Calls, Callers, Loops, RunAt, Resetting
<1>6. Resets' <=> Resets
  BY <1>1, <1>2 DEF Resets, Resetting
<1>7. FlagInv' /\ (Coming => Coming')
  BY <1>1, <1>6, FlagMoves
<1>8. WorkInv'
  <2>1. ~TopIn({"wait"})'
    BY <1>1, <1>5 DEF TopIn
  <2> SUFFICES ASSUME HasRun(stack)', may_nest', HasTasks'
               PROVE  Coming' \/ missed' # {}
    BY <2>1 DEF WorkInv
  <2>2. HasRun(stack) /\ HasTasks
    BY <1>1, <1>2 DEF HasTasks
  <2>3. CASE f.at = "modal"
    <3>1. may_nest
      BY <1>1, <2>3, ModalNests DEF TopIn
    <3>2. Coming \/ missed # {}
      BY <1>1, <2>2, <2>3, <3>1 DEF PumpInv, WorkInv, TopIn
    <3> QED
      BY <1>1, <1>7, <3>2
  <2>4. CASE f.at # "modal"
    <3>1. have_work_ \/ Leaves # {}
      BY <2>2 DEF Leaves, HasTasks
    <3> QED
      BY <1>1, <1>7, <2>4, <3>1 DEF TopIs, Coming
  <2> QED
    BY <2>3, <2>4
<1>9. PumpTyped'
  BY <1>1, <1>2, <1>3 DEF PumpInv, PumpTyped
<1> QED
  BY <1>1, <1>2, <1>4, <1>7, <1>8, <1>9 DEF PumpInv, StackInv

LEMMA QuitStack ==
  ASSUME NEW s \in Seq(Frames), NEW d, NEW m \in BOOLEAN, Chain(s), Nests(s, m),
         ResetsOnce(s), NEW r, r = [s EXCEPT ![d].quit = TRUE]
  PROVE  /\ r \in Seq(Frames) /\ Chain(r) /\ Nests(r, m) /\ ResetsOnce(r)
         /\ HasRun(r) <=> HasRun(s)
         /\ HasReset(r) <=> HasReset(s)
         /\ r = <<>> <=> s = <<>>
         /\ s # <<>> => Last(r).at = Last(s).at
<1> DEFINE n == Len(s)
<1>1. n \in Nat /\ (s = <<>> <=> n = 0) /\ \A i \in 1..n : s[i] \in Frames
  BY EmptySeq
<1>2. r \in Seq(Frames) /\ Len(r) = n
  <2>1. CASE d \in 1..n
    <3>1. [s[d] EXCEPT !.quit = TRUE] \in Frames
      BY <1>1, <2>1 DEF Frames
    <3> QED
      BY <2>1, <3>1
  <2>2. CASE d \notin 1..n
    <3>1. r = s
      BY <2>2
    <3> QED
      BY <3>1
  <2> QED
    BY <2>1, <2>2
<1>3. \A i \in 1..n : r[i].at = s[i].at /\ r[i].nested = s[i].nested
  BY <1>1 DEF Frames
<1> HIDE DEF n
<1>4. r = <<>> <=> s = <<>>
  BY <1>1, <1>2, EmptySeq
<1>5. Chain(r)
  <2>1. \A i \in 1..(n - 1) : i \in 1..n /\ i + 1 \in 1..n
    BY <1>1
  <2>2. s # <<>> => 1 \in 1..n
    BY <1>1
  <2> QED
    BY <1>2, <1>3, <1>4, <2>1, <2>2 DEF Chain, n
<1>6. Nests(r, m)
  <2>1. \A i \in 1..n : \A e \in (i + 1)..n : e \in 1..n
    BY <1>1
  <2>2. \A i \in 1..n : \A e \in (i + 1)..(n + 1) : Passes(r, i, e) => Passes(s, i, e)
    <3>1. \A i \in 1..n : \A e \in (i + 1)..(n + 1) : \A x \in (i + 1)..(e - 1) : x \in 1..n
      BY <1>1
    <3> QED
      BY <1>3, <3>1 DEF Passes
  <2>3. \A i \in 1..n : n + 1 \in (i + 1)..(n + 1) /\ \A e \in (i + 1)..n : e \in (i + 1)..(n + 1)
    BY <1>1
  <2> QED
    BY <1>2, <1>3, <2>1, <2>2, <2>3 DEF Nests, n
<1>7. HasRun(r) <=> HasRun(s)
  BY <1>2, <1>3 DEF HasRun, n
<1>8. s # <<>> => Last(r).at = Last(s).at
  <2>1. s # <<>> => n \in 1..n
    BY <1>1
  <2> QED
    BY <1>2, <1>3, <2>1 DEF Last, n
<1>9. ResetsOnce(r) /\ (HasReset(r) <=> HasReset(s))
  BY <1>2, <1>3 DEF ResetsOnce, HasReset, n
<1> QED
  BY <1>2, <1>4, <1>5, <1>6, <1>7, <1>8, <1>9

LEMMA QuitRunKeeps ==
  ASSUME PumpInv, QuitRun
  PROVE  PumpInv'
<1>1. PICK d : stack' = [stack EXCEPT ![d].quit = TRUE]
  BY DEF QuitRun
<1>2. /\ scheduling[UI] = "no" /\ (stack = <<>> \/ TopIn({"task", "window"}))
      /\ UNCHANGED <<have_work_, messages, incoming, work, may_nest, scheduling, missed>>
  BY DEF QuitRun, ClientOnTop, TopIs, TopIn, delegate
<1>3. stack \in Seq(Frames) /\ may_nest \in BOOLEAN /\ Chain(stack) /\ Nests(stack, may_nest)
      /\ ResetsOnce(stack)
  BY DEF PumpInv, PumpTyped, StackInv
<1>4. /\ stack' \in Seq(Frames) /\ Chain(stack') /\ Nests(stack', may_nest)
      /\ ResetsOnce(stack') /\ (HasReset(stack') <=> HasReset(stack))
      /\ HasRun(stack') <=> HasRun(stack)
      /\ stack' = <<>> <=> stack = <<>>
      /\ stack # <<>> => Last(stack').at = Last(stack).at
  <2> DEFINE r == [stack EXCEPT ![d].quit = TRUE]
  <2>1. r \in Seq(Frames)
    BY <1>3, QuitStack
  <2>5. Chain(r)
    BY <1>3, QuitStack
  <2>6. Nests(r, may_nest)
    BY <1>3, QuitStack
  <2>2. HasRun(r) <=> HasRun(stack)
    BY <1>3, QuitStack
  <2>3. (r = <<>> <=> stack = <<>>) /\ (stack # <<>> => Last(r).at = Last(stack).at)
    BY <1>3, QuitStack
  <2>7. ResetsOnce(r) /\ (HasReset(r) <=> HasReset(stack))
    BY <1>3, QuitStack
  <2>4. stack' = r
    BY <1>1
  <2> HIDE DEF r
  <2> QED
    BY <2>1, <2>2, <2>3, <2>4, <2>5, <2>6, <2>7
<1>5. (Resets' <=> Resets) /\ \A S : TopIn(S)' <=> TopIn(S)
  BY <1>4 DEF Resets, TopIn
<1>6. FlagInv' /\ (Coming => Coming')
  BY <1>2, <1>5, FlagMoves
<1>7. WorkInv'
  BY <1>2, <1>4, <1>5, <1>6 DEF PumpInv, WorkInv, HasTasks
<1>8. PumpTyped'
  BY <1>2, <1>4 DEF PumpInv, PumpTyped
<1> QED
  BY <1>2, <1>4, <1>6, <1>7, <1>8 DEF PumpInv, StackInv

LEMMA ClientReturnsKeeps ==
  ASSUME PumpInv, ClientReturns
  PROVE  PumpInv'
<1> DEFINE f == Last(stack)
<1>1. /\ stack # <<>> /\ f.at \in {"task", "window"} /\ scheduling[UI] = "no"
      /\ stack' = Under /\ may_nest' = (may_nest \/ TopIs("task"))
      /\ UNCHANGED <<have_work_, messages, incoming, work, scheduling, missed>>
  BY DEF ClientReturns, TopIs, delegate
<1>2. /\ Under \in Seq(Frames) /\ Chain(Under) /\ ResetsOnce(Under)
      /\ Under = <<>> => f.at \in Loops
      /\ Under # <<>> => Calls(Last(Under).at, f.at)
      /\ Resets <=> HasReset(Under) \/ f.at \in Resetting
      /\ HasRun(stack) <=> HasRun(Under) \/ f.at \in RunAt
  BY <1>1, UnderFacts
<1>3. Under # <<>>
  BY <1>1, <1>2 DEF Loops, RunAt
<1>4. /\ f.at = "task" => Last(Under).at \in {"peek", "ran"}
      /\ f.at = "window" => Last(Under).at \in Callers
  BY <1>1, <1>2, <1>3 DEF Calls, Callers, Loops, RunAt, Resetting
<1>5. /\ may_nest' \in BOOLEAN
      /\ f.at = "task" => may_nest'
      /\ f.at = "window" => may_nest' = may_nest
  BY <1>1 DEF PumpInv, PumpTyped, TopIs
<1>6. Nests(Under, may_nest')
  BY <1>1, <1>5, UnderFacts DEF Loops, Passing, RunAt, Resetting
<1>7. Resets' <=> Resets
  BY <1>1, <1>2 DEF Resets, Resetting
<1>8. FlagInv' /\ (Coming => Coming')
  BY <1>1, <1>7, FlagMoves
<1>9. WorkInv'
  <2>1. ~TopIn({"wait"})'
    BY <1>1, <1>4 DEF TopIn, Callers
  <2>2. TopIn({"modal", "window", "dispatch", "task"})' => f.at = "window"
    BY <1>1, <1>4 DEF TopIn, Callers
  <2>3. HasTasks' <=> HasTasks
    BY <1>1 DEF HasTasks
  <2>4. HasRun(stack)' => HasRun(stack)
    BY <1>1, <1>2
  <2>5. TopIn({"modal", "window", "dispatch", "task"})
    BY <1>1 DEF TopIn
  <2> QED
    BY <1>1, <1>5, <1>8, <2>1, <2>2, <2>3, <2>4, <2>5 DEF PumpInv, WorkInv
<1>10. PumpTyped'
  BY <1>1, <1>2, <1>5 DEF PumpInv, PumpTyped
<1> QED
  BY <1>1, <1>2, <1>6, <1>7, <1>8, <1>9, <1>10 DEF PumpInv, StackInv

\* What a step that may run a task does to the queues and the stack.
LEMMA TaskRuns ==
  ASSUME PumpInv, NEW s \in Seq(Frames), Chain(s), s # <<>>,
         Last(s).at \in {"peek", "ran"}, NEW m \in BOOLEAN, Nests(s, m),
         ResetsOnce(s), HasReset(s) <=> Resets,
         RunUITask(s), scheduling[UI] = "no"
  PROVE  PumpInv'
<1> DEFINE f == Frame("task")
<1>1. /\ incoming + work > 0
      /\ stack' = Append(s, f) /\ may_nest' = FALSE
      /\ incoming' = IF work = 0 THEN 0 ELSE incoming
      /\ work' = (IF work = 0 THEN incoming ELSE work) - 1
      /\ UNCHANGED <<have_work_, messages, scheduling, missed>>
  BY DEF RunUITask, CanWork
<1>2. f \in Frames /\ f.at = "task"
  BY FrameFacts
<1> HIDE DEF f
<1>3. stack' \in Seq(Frames) /\ stack' # <<>> /\ Last(stack') = f
  BY <1>1, <1>2, PushFacts
<1>4. Chain(stack')
  BY <1>1, <1>2, PushKeepsChain DEF Calls, Callers, Resetting
<1>5. Nests(stack', FALSE)
  BY <1>1, <1>2, PushKeepsNests DEF Loops, Passing, RunAt, Resetting
<1>6. ResetsOnce(stack') /\ (Resets' <=> Resets)
  <2>1. f.at \notin Resetting
    BY <1>2 DEF Resetting
  <2> QED
    BY <1>1, <1>2, <2>1, PushResets DEF Resets
<1>7. FlagInv'
  BY <1>1, <1>6, FlagMoves
<1>8. incoming' \in Nat /\ work' \in Nat
  BY <1>1 DEF PumpInv, PumpTyped
<1>9. PumpTyped'
  BY <1>1, <1>3, <1>8 DEF PumpInv, PumpTyped
<1>10. WorkInv'
  BY <1>1 DEF WorkInv
<1> QED
  BY <1>1, <1>4, <1>5, <1>6, <1>7, <1>9, <1>10 DEF PumpInv, StackInv

LEMMA DoWorkKeeps ==
  ASSUME PumpInv, DoWork
  PROVE  PumpInv'
<1>1. stack # <<>> /\ Last(stack).at = "work" /\ scheduling[UI] = "no"
  BY DEF DoWork, Running, TopIs
<1>2. PumpTyped /\ may_nest \in BOOLEAN
  BY DEF PumpInv, PumpTyped
<1>3. ASSUME NEW at \in {"peek", "wait"}
      PROVE  /\ Append(Under, Goes(at)) \in Seq(Frames) /\ Chain(Append(Under, Goes(at)))
             /\ Append(Under, Goes(at)) # <<>> /\ Last(Append(Under, Goes(at))) = Goes(at)
             /\ Nests(Append(Under, Goes(at)), may_nest)
             /\ ResetsOnce(Append(Under, Goes(at)))
             /\ HasReset(Append(Under, Goes(at))) <=> Resets
             /\ Goes(at).at = at
  <2> DEFINE g == Goes(at)
  <2>1. g \in Frames /\ g.at = at /\ g.nested = Last(stack).nested
    BY <1>1, <1>2, GoesFacts DEF Loops, RunAt
  <2> HIDE DEF g
  <2>2. {g.at, Last(stack).at} \subseteq RunAt /\ g.at \notin Resetting
        /\ Last(stack).at \notin Resetting
    BY <1>1, <2>1 DEF RunAt, Resetting
  <2>3. /\ Append(Under, g) \in Seq(Frames) /\ Chain(Append(Under, g))
        /\ Append(Under, g) # <<>> /\ Last(Append(Under, g)) = g
        /\ Nests(Append(Under, g), may_nest)
        /\ ResetsOnce(Append(Under, g)) /\ (HasReset(Append(Under, g)) <=> Resets)
    BY <1>1, <1>2, <2>1, <2>2, Replaced
  <2> QED
    BY <2>1, <2>3 DEF g
<1>4. CASE RunUITask(Append(Under, Goes("peek")))
  <2> DEFINE s == Append(Under, Goes("peek"))
  <2>1. s \in Seq(Frames) /\ Chain(s) /\ s # <<>> /\ Last(s).at = "peek"
        /\ Nests(s, may_nest) /\ ResetsOnce(s) /\ (HasReset(s) <=> Resets)
    BY <1>3
  <2>2. RunUITask(s)
    BY <1>4
  <2> HIDE DEF s
  <2> QED
    BY <1>1, <1>2, <2>1, <2>2, TaskRuns
<1>5. CASE NoTaskRuns /\ stack' = Append(Under, Goes(IF Last(stack).more THEN "peek" ELSE "wait"))
  <2>1. PICK at \in {"peek", "wait"} : stack' = Append(Under, Goes(at))
    BY <1>5
  <2>2. /\ stack' \in Seq(Frames) /\ Chain(stack') /\ Nests(stack', may_nest)
        /\ ResetsOnce(stack') /\ (Resets' <=> Resets)
    BY <1>3, <2>1 DEF Resets
  <2>3. /\ ~(may_nest /\ incoming + work > 0)
        /\ UNCHANGED <<have_work_, messages, incoming, work, may_nest, scheduling>>
    BY <1>5 DEF NoTaskRuns, CanWork, delegate
  <2>4. FlagInv'
    BY <1>1, <2>2, <2>3, FlagMoves
  <2>5. WorkInv'
    BY <2>3 DEF WorkInv, HasTasks
  <2>6. PumpTyped'
    BY <1>2, <2>2, <2>3 DEF PumpTyped
  <2> QED
    BY <2>2, <2>3, <2>4, <2>5, <2>6 DEF PumpInv, StackInv
<1> QED
  BY <1>4, <1>5 DEF DoWork

\* DoRunLoop goes on where no task may wait, without a message.
LEMMA RunGoesOn ==
  ASSUME PumpInv, stack # <<>>, Last(stack).at \in RunAt, scheduling[UI] = "no",
         NEW f \in Frames, f.at \in RunAt \ {"wait"}, f.nested = Last(stack).nested,
         stack' = Append(Under, f),
         UNCHANGED <<have_work_, messages, incoming, work, may_nest, scheduling, missed>>
  PROVE  PumpInv'
<1>1. PumpTyped /\ may_nest \in BOOLEAN
  BY DEF PumpInv, PumpTyped
<1>2. {f.at, Last(stack).at} \subseteq RunAt /\ f.at \notin Resetting
      /\ Last(stack).at \notin Resetting
  BY DEF RunAt, Resetting
<1>3. /\ stack' \in Seq(Frames) /\ Chain(stack') /\ stack' # <<>> /\ Last(stack') = f
      /\ Nests(stack', may_nest) /\ ResetsOnce(stack') /\ (Resets' <=> Resets)
  BY <1>1, <1>2, Replaced DEF Resets
<1>4. FlagInv'
  BY <1>3, FlagMoves
<1>5. WorkInv'
  BY <1>3 DEF WorkInv, TopIn, RunAt
<1>6. PumpTyped'
  BY <1>1, <1>3 DEF PumpTyped
<1> QED
  BY <1>3, <1>4, <1>5, <1>6 DEF PumpInv, StackInv

LEMMA UIWaitForWorkKeeps ==
  ASSUME PumpInv, UIWaitForWork
  PROVE  PumpInv'
<1>1. /\ stack # <<>> /\ Last(stack).at = "wait" /\ scheduling[UI] = "no"
      /\ stack' = Append(Under, Goes("peek"))
      /\ UNCHANGED <<have_work_, messages, incoming, work, may_nest, scheduling, missed>>
  BY DEF UIWaitForWork, Running, TopIs, delegate
<1> DEFINE g == Goes("peek")
<1>2. g \in Frames /\ g.at = "peek" /\ g.nested = Last(stack).nested
  BY <1>1, GoesFacts DEF Loops, RunAt, PumpInv
<1>3. stack' = Append(Under, g)
  BY <1>1
<1> HIDE DEF g
<1> QED
  BY <1>1, <1>2, <1>3, RunGoesOn DEF RunAt

LEMMA QueueStatusKeeps ==
  ASSUME PumpInv, QueueStatus
  PROVE  PumpInv'
<1>1. PICK more \in BOOLEAN : more = (sends > 0)
  <2>1. CASE sends > 0
    <3>1. TRUE = (sends > 0)
      BY <2>1
    <3> QED
      BY <3>1
  <2>2. CASE ~(sends > 0)
    <3>1. FALSE = (sends > 0)
      BY <2>2
    <3> QED
      BY <3>1
  <2> QED
    BY <2>1, <2>2
<1> DEFINE g == [Goes("peeking") EXCEPT !.more = more]
<1>2. /\ stack # <<>> /\ Last(stack).at = "peek" /\ scheduling[UI] = "no"
      /\ stack' = Append(Under, g)
      /\ UNCHANGED <<have_work_, messages, incoming, work, may_nest, scheduling, missed>>
  BY <1>1 DEF QueueStatus, Running, TopIs, delegate
<1>3. g \in Frames /\ g.at = "peeking" /\ g.nested = Last(stack).nested
  BY <1>2, GoesFacts DEF Loops, RunAt, PumpInv
<1> HIDE DEF g
<1> QED
  BY <1>2, <1>3, RunGoesOn DEF RunAt

LEMMA NextWindowsMessageKeeps ==
  ASSUME PumpInv, NextWindowsMessage
  PROVE  PumpInv'
<1> DEFINE g(more) == [Goes("work") EXCEPT !.more = more]
           Working(more) == Append(Under, g(more))
<1>1. /\ stack # <<>> /\ Last(stack).at \in {"peeking", "peeked"} /\ scheduling[UI] = "no"
      /\ UNCHANGED <<have_work_, incoming, work, may_nest, scheduling>>
  BY DEF NextWindowsMessage, TopIs, delegate
<1>2. Last(stack) \in Frames /\ Last(stack).more \in BOOLEAN
  <2>1. Last(stack) \in Frames
    BY <1>1, UnderFacts
  <2> QED
    BY <2>1 DEF Frames
<1>3. PumpTyped /\ may_nest \in BOOLEAN /\ messages \in Seq(Messages) /\ QueuedOnce(messages)
  BY DEF PumpInv, PumpTyped, FlagInv
<1>4. \/ stack' = Working(Last(stack).more) /\ UNCHANGED <<messages, missed>>
      \/ /\ messages # <<>> /\ messages' = Tail(messages) /\ Head(messages) = "work"
         /\ stack' = Append(Working(FALSE), Frame("replace")) /\ UNCHANGED missed
      \/ /\ messages # <<>> /\ messages' = Tail(messages) /\ Head(messages) # "work"
         /\ stack' = Append(Working(TRUE), Frame("window")) /\ missed' = missed \cup Leaves
  BY DEF NextWindowsMessage
<1>5. ASSUME NEW more \in BOOLEAN
      PROVE  g(more) \in Frames /\ g(more).at = "work" /\ g(more).nested = Last(stack).nested
  BY <1>1, <1>3, GoesFacts DEF Loops, RunAt
<1> HIDE DEF g
<1>6. ASSUME NEW more \in BOOLEAN
      PROVE  /\ Working(more) \in Seq(Frames) /\ Chain(Working(more)) /\ Working(more) # <<>>
             /\ Last(Working(more)).at = "work"
             /\ Nests(Working(more), may_nest) /\ ResetsOnce(Working(more))
             /\ HasReset(Working(more)) <=> Resets
  <2>1. g(more) \in Frames /\ g(more).at = "work" /\ g(more).nested = Last(stack).nested
    BY <1>5
  <2>2. {g(more).at, Last(stack).at} \subseteq RunAt /\ g(more).at \notin Resetting
        /\ Last(stack).at \notin Resetting
    BY <1>1, <2>1 DEF RunAt, Resetting
  <2> QED
    BY <1>1, <1>3, <2>1, <2>2, Replaced
<1>7. CASE stack' = Working(Last(stack).more) /\ UNCHANGED <<messages, missed>>
  <2>1. PICK f \in Frames : /\ f.at = "work" /\ f.nested = Last(stack).nested
                            /\ stack' = Append(Under, f)
    BY <1>2, <1>5, <1>7
  <2> QED
    BY <1>1, <1>7, <2>1, RunGoesOn DEF RunAt
<1> HIDE DEF Working
<1>8. CASE /\ messages # <<>> /\ messages' = Tail(messages) /\ Head(messages) = "work"
           /\ stack' = Append(Working(FALSE), Frame("replace")) /\ UNCHANGED missed
  <2> DEFINE f == Frame("replace")
             s == Working(FALSE)
  <2>1. f \in Frames /\ f.at = "replace"
    BY FrameFacts DEF Passing, Resetting
  <2>2. s \in Seq(Frames) /\ Chain(s) /\ s # <<>> /\ Last(s).at = "work"
        /\ Nests(s, may_nest) /\ ResetsOnce(s) /\ (HasReset(s) <=> Resets)
    BY <1>6
  <2>3. stack' = Append(s, f)
    BY <1>8
  <2> HIDE DEF f, s
  <2>4. messages' \in Seq(Messages) /\ QueuedOnce(messages') /\ Queued(messages)
        /\ ~Queued(messages')
    BY <1>3, <1>8, MessageTaken
  <2>5. ~Resets /\ ~Posts /\ have_work_
    BY <2>4 DEF PumpInv, FlagInv
  <2>6. Calls("work", "replace") /\ "replace" \in Passing /\ "replace" \in Resetting
        /\ "replace" \notin Loops
    BY DEF Calls, Passing, Resetting, Loops, RunAt
  <2>7. stack' \in Seq(Frames) /\ stack' # <<>> /\ Last(stack').at = "replace"
    BY <2>1, <2>2, <2>3, PushFacts
  <2>8. Chain(stack')
    BY <2>1, <2>2, <2>3, <2>6, PushKeepsChain
  <2>9. Nests(stack', may_nest)
    BY <1>3, <2>1, <2>2, <2>3, <2>6, PushKeepsNests
  <2>10. ResetsOnce(stack') /\ Resets'
    BY <2>1, <2>2, <2>3, <2>5, <2>6, PushResets DEF Resets
  <2>11. FlagInv'
    BY <1>1, <2>4, <2>5, <2>10 DEF PumpInv, FlagInv, Posts, PostsWork
  <2>12. WorkInv'
    BY <2>7 DEF WorkInv, TopIn
  <2>13. PumpTyped'
    BY <1>1, <1>3, <2>4, <2>7 DEF PumpTyped
  <2> QED
    BY <1>1, <2>8, <2>9, <2>10, <2>11, <2>12, <2>13 DEF PumpInv, StackInv
<1>9. CASE /\ messages # <<>> /\ messages' = Tail(messages) /\ Head(messages) # "work"
           /\ stack' = Append(Working(TRUE), Frame("window")) /\ missed' = missed \cup Leaves
  <2> DEFINE s == Working(TRUE)
  <2>1. s \in Seq(Frames) /\ Chain(s) /\ s # <<>> /\ Last(s).at \in Callers
        /\ Nests(s, may_nest) /\ ResetsOnce(s) /\ (HasReset(s) <=> Resets)
    BY <1>6 DEF Callers
  <2>2. stack' = Append(s, Frame("window"))
    BY <1>9
  <2> HIDE DEF s
  <2>3. /\ stack' \in Seq(Frames) /\ stack' # <<>> /\ Last(stack').at = "window"
        /\ Chain(stack') /\ Nests(stack', may_nest) /\ ResetsOnce(stack')
        /\ Resets' <=> Resets
    BY <1>3, <2>1, <2>2, HandlerCalled DEF Resets
  <2>4. messages' \in Seq(Messages) /\ QueuedOnce(messages')
        /\ (Queued(messages') <=> Queued(messages))
    BY <1>3, <1>9, MessageTaken
  <2>5. FlagInv'
    BY <1>1, <2>3, <2>4 DEF PumpInv, FlagInv, Posts, PostsWork
  <2>6. WorkInv'
    <3>1. HasTasks' => have_work_' \/ missed' # {}
      BY <1>1, <1>9 DEF HasTasks, Leaves
    <3> QED
      BY <2>3, <3>1 DEF WorkInv, TopIn, Coming
  <2>7. PumpTyped'
    BY <1>1, <1>3, <2>3, <2>4 DEF PumpTyped
  <2> QED
    BY <1>1, <2>3, <2>5, <2>6, <2>7 DEF PumpInv, StackInv
<1> QED
  BY <1>4, <1>7, <1>8, <1>9

LEMMA DispatchSentKeeps ==
  ASSUME PumpInv, DispatchSent
  PROVE  PumpInv'
<1>1. PICK to \in {"peeked", "replaced", "modal"} :
        /\ to = "peeked" => TopIs("peeking") \/ TopIs("peeked")
        /\ to = "replaced" => TopIs("replace") \/ TopIs("replaced")
        /\ to = "modal" => TopIs("modal")
        /\ stack' = Append(Append(Under, Goes(to)), Frame("window"))
        /\ missed' = missed \cup (IF to = "peeked" THEN Leaves ELSE {})
  BY DEF DispatchSent
<1>2. /\ stack # <<>> /\ scheduling[UI] = "no"
      /\ to = "peeked" => Last(stack).at \in {"peeking", "peeked"}
      /\ to = "replaced" => Last(stack).at \in {"replace", "replaced"}
      /\ to = "modal" => Last(stack).at = "modal"
  BY <1>1 DEF TopIs
<1>3. UNCHANGED <<have_work_, messages, incoming, work, may_nest, scheduling>>
  BY DEF DispatchSent, delegate
<1>4. /\ PumpTyped /\ may_nest \in BOOLEAN /\ stack \in Seq(Frames)
      /\ Chain(stack) /\ Nests(stack, may_nest) /\ ResetsOnce(stack)
  BY DEF PumpInv, PumpTyped, StackInv
<1> DEFINE g == Goes(to)
           s == Append(Under, g)
<1>5. g \in Frames /\ g.at = to /\ g.nested = Last(stack).nested
  BY <1>2, <1>4, GoesFacts DEF Loops, Passing, RunAt, Resetting
<1>6. s \in Seq(Frames) /\ s # <<>> /\ Last(s).at = to /\ Chain(s) /\ Nests(s, may_nest)
      /\ ResetsOnce(s) /\ (HasRun(s) <=> HasRun(stack)) /\ (HasReset(s) <=> Resets)
  <2>1. CASE to = "modal"
    <3>1. g = Last(stack)
      <4>1. Last(stack) \in Frames /\ Last(stack).at = "modal"
        BY <1>2, <2>1, UnderFacts
      <4> QED
        BY <2>1, <4>1 DEF Goes, Frames
    <3> HIDE DEF g
    <3>2. s = stack /\ Last(s).at = "modal"
      BY <1>2, <1>4, <2>1, <3>1, PopFacts DEF Under
    <3> QED
      BY <1>2, <1>4, <2>1, <3>2 DEF Resets
  <2>2. CASE to # "modal"
    <3> HIDE DEF g
    <3>1. /\ \/ {g.at, Last(stack).at} \subseteq RunAt
             \/ {g.at, Last(stack).at} \subseteq Resetting \cup {"dispatch"}
          /\ g.at \in Resetting <=> Last(stack).at \in Resetting
      BY <1>1, <1>2, <1>5, <2>2 DEF RunAt, Resetting
    <3>2. /\ s \in Seq(Frames) /\ Chain(s) /\ s # <<>> /\ Last(s) = g
          /\ HasRun(s) <=> HasRun(stack)
          /\ Nests(s, may_nest) /\ ResetsOnce(s) /\ (HasReset(s) <=> Resets)
      BY <1>2, <1>4, <1>5, <3>1, Replaced
    <3> QED
      BY <1>5, <3>2
  <2> QED
    BY <2>1, <2>2
<1>7. stack' = Append(s, Frame("window")) /\ Last(s).at \in Callers
  BY <1>1, <1>6 DEF Callers
<1> HIDE DEF g, s
<1>8. /\ stack' \in Seq(Frames) /\ stack' # <<>> /\ Last(stack').at = "window"
      /\ Chain(stack') /\ Nests(stack', may_nest) /\ ResetsOnce(stack')
      /\ HasRun(stack') <=> HasRun(stack)
      /\ Resets' <=> Resets
  BY <1>4, <1>6, <1>7, HandlerCalled DEF Resets
<1>9. FlagInv' /\ (Coming => Coming')
  BY <1>2, <1>3, <1>8, FlagMoves
<1>10. WorkInv'
  <2>1. ~TopIn({"wait"})'
    BY <1>8 DEF TopIn
  <2> SUFFICES ASSUME HasRun(stack)', may_nest', HasTasks'
               PROVE  Coming' \/ missed' # {}
    BY <2>1 DEF WorkInv
  <2>2. HasRun(stack) /\ may_nest /\ HasTasks
    BY <1>3, <1>8 DEF HasTasks
  <2>3. CASE to = "peeked"
    <3>1. have_work_ \/ Leaves # {}
      BY <2>2 DEF Leaves, HasTasks
    <3> QED
      BY <1>1, <1>3, <2>3, <3>1 DEF Coming
  <2>4. CASE to = "replaced"
    <3>1. Resets
      BY <1>2, <2>4, UnderFacts DEF Resetting
    <3> QED
      BY <1>3, <3>1 DEF PumpInv, FlagInv, Coming
  <2>5. CASE to = "modal"
    <3>1. TopIn({"modal", "window", "dispatch", "task"})
      BY <1>2, <2>5 DEF TopIn
    <3> QED
      BY <1>1, <1>9, <2>2, <3>1 DEF PumpInv, WorkInv
  <2> QED
    BY <2>3, <2>4, <2>5
<1>11. PumpTyped'
  BY <1>3, <1>4, <1>8 DEF PumpTyped
<1> QED
  BY <1>3, <1>8, <1>9, <1>10, <1>11 DEF PumpInv, StackInv

LEMMA PeekReplacementKeeps ==
  ASSUME PumpInv, PeekReplacement
  PROVE  PumpInv'
<1>1. /\ stack # <<>> /\ Last(stack).at \in {"replace", "replaced"} /\ scheduling[UI] = "no"
      /\ UNCHANGED <<have_work_, incoming, work, may_nest, scheduling, missed>>
  BY DEF PeekReplacement, TopIs, delegate
<1>2. PICK more \in BOOLEAN :
        /\ stack' = Append(Under, [Goes("reset") EXCEPT !.more = more])
        /\ (messages # <<>> /\ messages' = Tail(messages)) \/ messages' = messages
  BY DEF PeekReplacement
<1> DEFINE g == [Goes("reset") EXCEPT !.more = more]
<1>3. PumpTyped /\ may_nest \in BOOLEAN /\ messages \in Seq(Messages) /\ QueuedOnce(messages)
  BY DEF PumpInv, PumpTyped, FlagInv
<1>4. g \in Frames /\ g.at = "reset" /\ g.nested = Last(stack).nested
  BY <1>1, <1>3, GoesFacts DEF Passing, Resetting
<1>5. stack' = Append(Under, g)
  BY <1>2
<1> HIDE DEF g
<1>6. {g.at, Last(stack).at} \subseteq Resetting
  BY <1>1, <1>4 DEF Resetting
<1>7. /\ stack' \in Seq(Frames) /\ Chain(stack') /\ stack' # <<>> /\ Last(stack') = g
      /\ Nests(stack', may_nest) /\ ResetsOnce(stack') /\ (Resets' <=> Resets)
  BY <1>1, <1>3, <1>4, <1>5, <1>6, Replaced DEF Resets
<1>8. Resets
  BY <1>1, <1>6, UnderFacts
<1>9. ~Queued(messages) /\ ~Posts /\ have_work_
  BY <1>8 DEF PumpInv, FlagInv
<1>10. messages' \in Seq(Messages) /\ QueuedOnce(messages') /\ ~Queued(messages')
  <2>1. CASE messages' = messages
    BY <1>3, <1>9, <2>1
  <2>2. CASE messages # <<>> /\ messages' = Tail(messages)
    BY <1>3, <1>9, <2>2, MessageTaken
  <2> QED
    BY <1>2, <2>1, <2>2
<1>11. FlagInv'
  BY <1>1, <1>7, <1>8, <1>9, <1>10 DEF PumpInv, FlagInv, Posts, PostsWork
<1>12. WorkInv'
  BY <1>4, <1>7 DEF WorkInv, TopIn
<1>13. PumpTyped'
  BY <1>1, <1>3, <1>7, <1>10 DEF PumpTyped
<1> QED
  BY <1>1, <1>7, <1>11, <1>12, <1>13 DEF PumpInv, StackInv

LEMMA ResetHaveWorkKeeps ==
  ASSUME PumpInv, ResetHaveWork
  PROVE  PumpInv'
<1>1. /\ stack # <<>> /\ Last(stack).at = "reset" /\ scheduling[UI] = "no"
      /\ have_work_' = FALSE
      /\ UNCHANGED <<messages, incoming, work, may_nest, missed>>
      /\ \/ stack' = Append(Under, Goes("dispatch")) /\ Schedules(UI, "exchange")
         \/ stack' = Under /\ scheduling' = scheduling
  BY DEF ResetHaveWork, TopIs, delegate
<1>2. PumpTyped /\ may_nest \in BOOLEAN
  BY DEF PumpInv, PumpTyped
<1>3. Resets /\ ~Queued(messages) /\ ~Posts /\ Last(stack).at \in Resetting
  <2>1. Last(stack).at \in Resetting
    BY <1>1 DEF Resetting
  <2>2. Resets
    BY <1>1, <2>1, UnderFacts
  <2> QED
    BY <2>1, <2>2 DEF PumpInv, FlagInv
<1>4. /\ scheduling' \in [Scheduler -> {"no", "exchange", "post", "clarify"}]
      /\ \A u \in Scheduler : PostsWork(u)' <=> PostsWork(u)
      /\ Posts' <=> Posts
      /\ Schedules(UI, "exchange") => Exchanges'
  BY <1>1, <1>2, UISchedules
<1>5. CASE stack' = Append(Under, Goes("dispatch")) /\ Schedules(UI, "exchange")
  <2> DEFINE g == Goes("dispatch")
  <2>1. g \in Frames /\ g.at = "dispatch" /\ g.nested = Last(stack).nested
    BY <1>1, <1>2, GoesFacts DEF Passing, Resetting
  <2> HIDE DEF g
  <2>3. /\ g.at \notin Resetting
        /\ {g.at, Last(stack).at} \subseteq Resetting \cup {"dispatch"}
    BY <1>3, <2>1 DEF Resetting
  <2>2. /\ stack' \in Seq(Frames) /\ Chain(stack') /\ stack' # <<>> /\ Last(stack') = g
        /\ Nests(stack', may_nest) /\ ResetsOnce(stack') /\ ~Resets'
    <3>1. stack' = Append(Under, g)
      BY <1>5 DEF g
    <3> QED
      BY <1>1, <1>2, <1>3, <2>1, <2>3, <3>1, Replaced DEF Resets
  <2>4. FlagInv'
    BY <1>1, <1>3, <1>4, <2>2 DEF PumpInv, FlagInv
  <2>5. WorkInv'
    BY <1>4, <1>5 DEF WorkInv, Coming
  <2>6. PumpTyped'
    BY <1>1, <1>2, <1>4, <2>2 DEF PumpTyped
  <2> QED
    BY <1>1, <2>2, <2>4, <2>5, <2>6 DEF PumpInv, StackInv
<1>6. CASE stack' = Under /\ scheduling' = scheduling
  <2>1. /\ Under \in Seq(Frames) /\ Chain(Under) /\ ResetsOnce(Under) /\ ~HasReset(Under)
        /\ Under = <<>> => Last(stack).at \in Loops
        /\ Under # <<>> => Calls(Last(Under).at, Last(stack).at)
    BY <1>1, <1>3, UnderFacts
  <2>2. Under # <<>> /\ Last(Under).at \in {"work", "handle"}
    BY <1>1, <2>1 DEF Calls, Callers, Loops, RunAt, Resetting
  <2>3. Nests(Under, may_nest)
    BY <1>1, <1>2, UnderFacts DEF Loops, Passing, RunAt, Resetting
  <2>4. ~Resets'
    BY <1>6, <2>1 DEF Resets
  <2>5. FlagInv'
    BY <1>1, <1>3, <1>4, <2>4 DEF PumpInv, FlagInv
  <2>6. WorkInv'
    BY <1>6, <2>2 DEF WorkInv, TopIn
  <2>7. PumpTyped'
    BY <1>1, <1>2, <1>6, <2>1 DEF PumpTyped
  <2> QED
    BY <1>1, <1>6, <2>1, <2>3, <2>5, <2>6, <2>7 DEF PumpInv, StackInv
<1> QED
  BY <1>1, <1>5, <1>6

LEMMA PushTwo ==
  ASSUME NEW s \in Seq(Frames), NEW f \in Frames, NEW g \in Frames
  PROVE  s \o <<f, g>> = Append(Append(s, f), g)
<1>1. Append(s, f) \in Seq(Frames) /\ <<f>> \in Seq(Frames) /\ <<g>> \in Seq(Frames)
  OBVIOUS
<1>2. Append(Append(s, f), g) = (s \o <<f>>) \o <<g>>
  BY <1>1, AppendIsConcat
<1>3. (s \o <<f>>) \o <<g>> = s \o (<<f>> \o <<g>>)
  BY <1>1, ConcatAssociative
<1>4. Append(<<f>>, g) = <<f>> \o <<g>>
  BY <1>1, AppendIsConcat
<1>5. Append(<<f>>, g) = <<f, g>>
  <2>1. Append(<<f>>, g) \in Seq(Frames) /\ <<f, g>> \in Seq(Frames)
    OBVIOUS
  <2>2. Len(Append(<<f>>, g)) = 2 /\ Len(<<f, g>>) = 2
    OBVIOUS
  <2>3. \A i \in 1..2 : Append(<<f>>, g)[i] = <<f, g>>[i]
    OBVIOUS
  <2> QED
    BY <2>1, <2>2, <2>3, SeqEqual
<1> QED
  BY <1>2, <1>3, <1>4, <1>5

LEMMA IsRunTyped ==
  ASSUME NEW f
  PROVE  \E b \in BOOLEAN : b = IsRun(f)
<1>1. CASE f.at \in RunAt
  <2>1. TRUE = IsRun(f)
    BY <1>1 DEF IsRun, RunAt
  <2> QED
    BY <2>1
<1>2. CASE f.at \notin RunAt
  <2>1. FALSE = IsRun(f)
    BY <1>2 DEF IsRun, RunAt
  <2> QED
    BY <2>1
<1> QED
  BY <1>1, <1>2

LEMMA DispatchReplacementKeeps ==
  ASSUME PumpInv, DispatchReplacement
  PROVE  PumpInv'
<1> DEFINE caller == Last(Under)
           c == [caller EXCEPT !.more = IsRun(caller)]
           s == Front(Under)
<1>1. /\ stack # <<>> /\ Last(stack).at = "dispatch" /\ scheduling[UI] = "no"
      /\ stack' = s \o <<c, Frame("window")>>
      /\ UNCHANGED <<have_work_, messages, incoming, work, may_nest, scheduling, missed>>
  BY DEF DispatchReplacement, TopIs, delegate
<1>2. /\ Under \in Seq(Frames) /\ Chain(Under) /\ ResetsOnce(Under)
      /\ Resets <=> HasReset(Under) \/ Last(stack).at \in Resetting
      /\ Under = <<>> => Last(stack).at \in Loops
      /\ Under # <<>> => Calls(Last(Under).at, Last(stack).at)
      /\ HasRun(stack) <=> HasRun(Under) \/ Last(stack).at \in RunAt
  BY <1>1, UnderFacts
<1>3. Under # <<>> /\ caller.at \in {"work", "handle"}
  BY <1>1, <1>2 DEF Calls, Callers, Loops, RunAt, Resetting
<1>4. PumpTyped /\ may_nest \in BOOLEAN
  BY DEF PumpInv, PumpTyped
<1>5. Nests(Under, may_nest)
  BY <1>1, <1>4, UnderFacts DEF Loops, Passing, RunAt, Resetting
<1>6. caller \in Frames /\ s \in Seq(Frames)
  BY <1>2, <1>3, PopFacts
<1>7. /\ Chain(s)
      /\ s = <<>> => caller.at \in Loops
      /\ s # <<>> => Calls(Last(s).at, caller.at)
      /\ HasRun(Under) <=> HasRun(s) \/ caller.at \in RunAt
      /\ ResetsOnce(s) /\ (HasReset(Under) <=> HasReset(s) \/ caller.at \in Resetting)
  BY <1>2, <1>3, PopKeepsChain, PopResets
<1>8. c \in Frames /\ c.at = caller.at /\ c.nested = caller.nested
  <2> HIDE DEF caller
  <2>1. PICK b \in BOOLEAN : b = IsRun(caller)
    BY IsRunTyped
  <2>2. c = [caller EXCEPT !.more = b]
    BY <2>1
  <2> HIDE DEF c
  <2> QED
    BY <1>6, <2>2 DEF Frames
<1>9. c.at \notin Resetting /\ c.at \in Callers /\ Last(stack).at \notin RunAt \cup Resetting
  BY <1>1, <1>3, <1>8 DEF Callers, RunAt, Resetting
<1> DEFINE k == IF caller.at = "work" THEN caller.nested ELSE may_nest
<1>10. k \in BOOLEAN
  BY <1>4, <1>6 DEF Frames
<1>11. Nests(s, k)
  BY <1>2, <1>3, <1>4, <1>5, <1>10, PopKeepsNests DEF Loops, Passing, RunAt, Resetting
<1> HIDE DEF c, s
<1>12. /\ Append(s, c) \in Seq(Frames) /\ Append(s, c) # <<>> /\ Last(Append(s, c)) = c
       /\ Chain(Append(s, c))
       /\ HasRun(Append(s, c)) <=> HasRun(s) \/ c.at \in RunAt
  BY <1>6, <1>7, <1>8, PushFacts, PushKeepsChain
<1>13. Nests(Append(s, c), may_nest)
  BY <1>3, <1>4, <1>6, <1>8, <1>10, <1>11, PushKeepsNests
     DEF Loops, Passing, RunAt, Resetting
<1> HIDE DEF k, caller
<1>14. ResetsOnce(Append(s, c)) /\ (HasReset(Append(s, c)) <=> Resets)
  <2>1. ResetsOnce(Append(s, c)) /\ (HasReset(Append(s, c)) <=> HasReset(s) \/ c.at \in Resetting)
    BY <1>6, <1>7, <1>8, <1>9, PushResets
  <2> QED
    BY <1>2, <1>7, <1>8, <1>9, <2>1
<1>15. stack' = Append(Append(s, c), Frame("window"))
  <2> DEFINE w == Frame("window")
  <2>1. w \in Frames
    BY FrameFacts DEF Passing
  <2> HIDE DEF w
  <2>2. stack' = s \o <<c, w>>
    BY <1>1 DEF w
  <2>3. stack' = Append(Append(s, c), w)
    BY <1>6, <1>8, <2>1, <2>2, PushTwo
  <2> QED
    BY <2>3 DEF w
<1>16. /\ stack' \in Seq(Frames) /\ stack' # <<>> /\ Last(stack').at = "window"
       /\ Chain(stack') /\ Nests(stack', may_nest) /\ ResetsOnce(stack')
       /\ HasRun(stack') <=> HasRun(Append(s, c))
       /\ Resets' <=> Resets
  BY <1>4, <1>9, <1>12, <1>13, <1>14, <1>15, HandlerCalled DEF Resets
<1>17. FlagInv' /\ (Coming => Coming')
  BY <1>1, <1>16, FlagMoves
<1>18. WorkInv'
  <2>1. ~TopIn({"wait"})'
    BY <1>16 DEF TopIn
  <2>2. HasRun(stack)' => HasRun(stack)
    BY <1>2, <1>7, <1>8, <1>12, <1>16
  <2>3. TopIn({"modal", "window", "dispatch", "task"})
    BY <1>1 DEF TopIn
  <2> QED
    BY <1>1, <1>17, <2>1, <2>2, <2>3 DEF PumpInv, WorkInv, HasTasks
<1>19. PumpTyped'
  BY <1>1, <1>4, <1>16 DEF PumpTyped
<1> QED
  BY <1>1, <1>16, <1>17, <1>18, <1>19 DEF PumpInv, StackInv

LEMMA ModalMessageKeeps ==
  ASSUME PumpInv, ModalMessage
  PROVE  PumpInv'
<1>1. /\ stack # <<>> /\ Last(stack).at = "modal" /\ scheduling[UI] = "no"
      /\ messages # <<>> /\ messages' = Tail(messages)
      /\ UNCHANGED <<incoming, work, may_nest, scheduling>>
      /\ \/ /\ Head(messages) = "window"
            /\ stack' = Append(stack, Frame("window"))
            /\ UNCHANGED <<have_work_, missed>>
         \/ /\ Head(messages) # "window"
            /\ stack' = stack \o <<Frame("handle"), Frame("replace")>>
            /\ UNCHANGED <<have_work_, missed>>
         \/ /\ Head(messages) # "window"
            /\ have_work_' = FALSE /\ missed' = missed \cup {"wasted"} /\ stack' = stack
  BY DEF ModalMessage, TopIs, delegate
<1>2. PumpTyped /\ may_nest \in BOOLEAN /\ messages \in Seq(Messages) /\ QueuedOnce(messages)
      /\ stack \in Seq(Frames) /\ Chain(stack) /\ Nests(stack, may_nest)
      /\ ResetsOnce(stack)
  BY DEF PumpInv, PumpTyped, FlagInv, StackInv
<1>3. /\ messages' \in Seq(Messages) /\ Head(messages) \in Messages /\ QueuedOnce(messages')
      /\ Head(messages) = "work" => Queued(messages) /\ ~Queued(messages')
      /\ Head(messages) # "work" => (Queued(messages') <=> Queued(messages))
  BY <1>1, <1>2, MessageTaken
<1>4. CASE /\ Head(messages) = "window"
           /\ stack' = Append(stack, Frame("window"))
           /\ UNCHANGED <<have_work_, missed>>
  <2>1. /\ stack' \in Seq(Frames) /\ stack' # <<>> /\ Last(stack').at = "window"
        /\ Chain(stack') /\ Nests(stack', may_nest) /\ ResetsOnce(stack')
        /\ HasRun(stack') <=> HasRun(stack)
        /\ Resets' <=> Resets
    BY <1>1, <1>2, <1>4, HandlerCalled DEF Resets, Callers
  <2>2. FlagInv'
    BY <1>1, <1>3, <1>4, <2>1 DEF PumpInv, FlagInv, Posts, PostsWork
  <2>3. WorkInv'
    BY <1>1, <1>4, <2>1 DEF PumpInv, WorkInv, TopIn, HasTasks, Coming, Exchanges
  <2>4. PumpTyped'
    BY <1>1, <1>2, <1>3, <1>4, <2>1 DEF PumpTyped
  <2> QED
    BY <1>1, <2>1, <2>2, <2>3, <2>4 DEF PumpInv, StackInv
<1>5. CASE /\ Head(messages) # "window"
           /\ stack' = stack \o <<Frame("handle"), Frame("replace")>>
           /\ UNCHANGED <<have_work_, missed>>
  <2> DEFINE h == Frame("handle")
             r == Frame("replace")
  <2>1. /\ h \in Frames /\ h.at = "handle" /\ r \in Frames /\ r.at = "replace"
        /\ Calls("modal", "handle") /\ Calls("handle", "replace")
    BY FrameFacts DEF Calls, Passing, Resetting
  <2>2. stack' = stack \o <<h, r>>
    BY <1>5
  <2> HIDE DEF h, r
  <2>3. stack' = Append(Append(stack, h), r)
    BY <1>2, <2>1, <2>2, PushTwo
  <2>4. /\ Append(stack, h) \in Seq(Frames) /\ Append(stack, h) # <<>>
        /\ Last(Append(stack, h)) = h
    BY <1>2, <2>1, PushFacts
  <2>5. Chain(Append(stack, h))
    BY <1>1, <1>2, <2>1, PushKeepsChain
  <2>6. Nests(Append(stack, h), may_nest)
    BY <1>2, <2>1, PushKeepsNests DEF Loops, Passing, RunAt, Resetting
  <2>7. stack' \in Seq(Frames) /\ stack' # <<>> /\ Last(stack') = r
    BY <2>1, <2>3, <2>4, PushFacts
  <2>8. Chain(stack')
    BY <2>1, <2>3, <2>4, <2>5, PushKeepsChain
  <2>9. Nests(stack', may_nest)
    BY <1>2, <2>1, <2>3, <2>4, <2>6, PushKeepsNests DEF Loops, Passing, RunAt, Resetting
  <2>11. Head(messages) = "work"
    BY <1>3, <1>5 DEF Messages
  <2>15. ~Resets /\ ~Posts /\ have_work_
    BY <1>3, <2>11 DEF PumpInv, FlagInv
  <2>16. h.at \notin Resetting /\ r.at \in Resetting
    BY <2>1 DEF Resetting
  <2>17. ResetsOnce(Append(stack, h)) /\ ~HasReset(Append(stack, h))
    BY <1>2, <2>1, <2>15, <2>16, PushResets DEF Resets
  <2>10. ResetsOnce(stack') /\ Resets'
    BY <2>1, <2>3, <2>4, <2>16, <2>17, PushResets DEF Resets
  <2>12. FlagInv'
    BY <1>1, <1>3, <1>5, <2>10, <2>11, <2>15 DEF PumpInv, FlagInv, Posts, PostsWork
  <2>13. WorkInv'
    BY <2>1, <2>7 DEF WorkInv, TopIn
  <2>14. PumpTyped'
    BY <1>1, <1>2, <1>3, <1>5, <2>7 DEF PumpTyped
  <2> QED
    BY <1>1, <2>8, <2>9, <2>10, <2>12, <2>13, <2>14 DEF PumpInv, StackInv
<1>6. CASE /\ Head(messages) # "window"
           /\ have_work_' = FALSE /\ missed' = missed \cup {"wasted"} /\ stack' = stack
  <2>1. Head(messages) = "work"
    BY <1>3, <1>6 DEF Messages
  <2>2. ~Posts /\ ~Queued(messages') /\ ~Resets
    BY <1>3, <2>1 DEF PumpInv, FlagInv
  <2>3. StackInv' /\ (Resets' <=> Resets) /\ \A S : TopIn(S)' <=> TopIn(S)
    BY <1>1, <1>6, StackRest
  <2>4. FlagInv'
    BY <1>1, <1>3, <1>6, <2>2, <2>3 DEF PumpInv, FlagInv, Posts, PostsWork
  <2>5. WorkInv'
    <3>1. ~TopIn({"wait"})' /\ missed' # {}
      BY <1>1, <1>6 DEF TopIn
    <3> QED
      BY <3>1 DEF WorkInv
  <2>6. PumpTyped'
    BY <1>1, <1>2, <1>3, <1>6 DEF PumpTyped
  <2> QED
    BY <2>3, <2>4, <2>5, <2>6 DEF PumpInv
<1> QED
  BY <1>1, <1>4, <1>5, <1>6

LEMMA HandleDoesWorkKeeps ==
  ASSUME PumpInv, HandleDoesWork
  PROVE  PumpInv'
<1>1. stack # <<>> /\ Last(stack).at = "handle" /\ scheduling[UI] = "no"
  BY DEF HandleDoesWork, TopIs
<1>2. PumpTyped /\ may_nest \in BOOLEAN
  BY DEF PumpInv, PumpTyped
<1>3. CASE RunUITask(Append(Under, Goes("ran")))
  <2> DEFINE g == Goes("ran")
  <2>1. g \in Frames /\ g.at = "ran" /\ g.nested = Last(stack).nested
    BY <1>1, <1>2, GoesFacts DEF Passing, Resetting
  <2> HIDE DEF g
  <2>2. /\ Append(Under, g) \in Seq(Frames) /\ Chain(Append(Under, g)) /\ Append(Under, g) # <<>>
        /\ Last(Append(Under, g)) = g /\ Nests(Append(Under, g), may_nest)
        /\ ResetsOnce(Append(Under, g)) /\ (HasReset(Append(Under, g)) <=> Resets)
    <3>1. g.at \notin Resetting /\ Last(stack).at \notin Resetting
      BY <1>1, <2>1 DEF Resetting
    <3> QED
      BY <1>1, <1>2, <2>1, <3>1, Replaced
  <2>3. RunUITask(Append(Under, g))
    BY <1>3 DEF g
  <2> QED
    BY <1>1, <1>2, <2>1, <2>2, <2>3, TaskRuns
<1>4. CASE NoTaskRuns /\ stack' = Under
  <2>1. /\ Under \in Seq(Frames) /\ Chain(Under) /\ ResetsOnce(Under)
        /\ Resets <=> HasReset(Under) \/ Last(stack).at \in Resetting
    BY <1>1, UnderFacts
  <2>3. Nests(Under, may_nest)
    BY <1>1, <1>2, UnderFacts DEF Loops, Passing, RunAt, Resetting
  <2>4. /\ ~(may_nest /\ incoming + work > 0)
        /\ UNCHANGED <<have_work_, messages, incoming, work, may_nest, scheduling>>
    BY <1>4 DEF NoTaskRuns, CanWork, delegate
  <2>5. Resets' <=> Resets
    BY <1>1, <1>4, <2>1 DEF Resets, Resetting
  <2>6. FlagInv'
    BY <1>1, <1>2, <2>4, <2>5, FlagMoves
  <2>7. WorkInv'
    BY <2>4 DEF WorkInv, HasTasks
  <2>8. PumpTyped'
    BY <1>2, <1>4, <2>1, <2>4 DEF PumpTyped
  <2> QED
    BY <1>4, <2>1, <2>3, <2>4, <2>6, <2>7, <2>8 DEF PumpInv, StackInv
<1> QED
  BY <1>3, <1>4 DEF HandleDoesWork

LEMMA HandleReschedulesKeeps ==
  ASSUME PumpInv, HandleReschedules
  PROVE  PumpInv'
<1>1. /\ stack # <<>> /\ Last(stack).at = "ran" /\ scheduling[UI] = "no"
      /\ stack' = Under /\ Schedules(UI, "exchange")
      /\ UNCHANGED <<have_work_, messages, incoming, work, may_nest, missed>>
  BY DEF HandleReschedules, TopIs, delegate
<1>2. /\ Under \in Seq(Frames) /\ Chain(Under) /\ ResetsOnce(Under)
      /\ Resets <=> HasReset(Under) \/ Last(stack).at \in Resetting
  BY <1>1, UnderFacts
<1>3. Resets' <=> Resets
  BY <1>1, <1>2 DEF Resets, Resetting
<1>4. PumpTyped /\ may_nest \in BOOLEAN
  BY DEF PumpInv, PumpTyped
<1>5. Nests(Under, may_nest)
  BY <1>1, <1>4, UnderFacts DEF Loops, Passing, RunAt, Resetting
<1>6. FlagInv'
  BY <1>1, <1>3, FlagMoves
<1>7. scheduling' \in [Scheduler -> {"no", "exchange", "post", "clarify"}] /\ Exchanges'
  BY <1>1, <1>4, UISchedules
<1>8. WorkInv'
  BY <1>7 DEF WorkInv, Coming
<1>9. PumpTyped'
  BY <1>1, <1>2, <1>4, <1>7 DEF PumpTyped
<1> QED
  BY <1>1, <1>2, <1>5, <1>6, <1>8, <1>9 DEF PumpInv, StackInv

LEMMA PumpStep == PumpInv /\ [UINext]_uiVars => PumpInv'
<1> SUFFICES ASSUME PumpInv, [UINext]_uiVars PROVE PumpInv'
  OBVIOUS
<1>1. Scheduler = UIPoster \cup {UI} /\ UI \in Scheduler
  BY DEF Scheduler
<1>2. CASE \E t \in UIPoster : AddToIncomingQueue(t)
  BY <1>1, <1>2, AddToIncomingQueueKeeps
<1>3. CASE ClientOnTop /\ AddToIncomingQueue(UI)
  BY <1>1, <1>3, AddToIncomingQueueKeeps
<1>4. CASE \E t \in UIPoster \cup {UI} : ScheduleStep(t)
  BY <1>1, <1>4, ExchangeKeeps, PostWorkKeeps, ClarifyKeeps DEF ScheduleStep
<1>5. CASE WindowMessage
  BY <1>5, WindowMessageKeeps
<1>6. CASE EnterLoop \/ LeaveLoop \/ QuitRun \/ ClientReturns
  BY <1>6, EnterLoopKeeps, LeaveLoopKeeps, QuitRunKeeps, ClientReturnsKeeps
<1>7. CASE QueueStatus \/ DispatchSent \/ NextWindowsMessage \/ DoWork \/ UIWaitForWork
  BY <1>7, QueueStatusKeeps, DispatchSentKeeps, NextWindowsMessageKeeps, DoWorkKeeps,
     UIWaitForWorkKeeps
<1>8. CASE PeekReplacement \/ ResetHaveWork \/ DispatchReplacement
  BY <1>8, PeekReplacementKeeps, ResetHaveWorkKeeps, DispatchReplacementKeeps
<1>9. CASE ModalMessage \/ HandleDoesWork \/ HandleReschedules
  BY <1>9, ModalMessageKeeps, HandleDoesWorkKeeps, HandleReschedulesKeeps
<1>10. CASE UNCHANGED uiVars
  <2>1. UNCHANGED <<have_work_, messages, incoming, work, may_nest, stack, scheduling, missed>>
    BY <1>10 DEF uiVars, delegate
  <2>2. StackInv' /\ (HasRun(stack)' <=> HasRun(stack)) /\ (Resets' <=> Resets)
        /\ \A S : TopIn(S)' <=> TopIn(S)
    BY <2>1, StackRest
  <2>3. PumpTyped'
    BY <2>1 DEF PumpInv, PumpTyped
  <2>4. FlagInv'
    BY <2>1, <2>2 DEF PumpInv, FlagInv, Posts, PostsWork
  <2>5. WorkInv'
    BY <2>1, <2>2 DEF PumpInv, WorkInv, Coming, Exchanges, HasTasks
  <2> QED
    BY <2>2, <2>3, <2>4, <2>5 DEF PumpInv
<1> QED
  BY <1>2, <1>3, <1>4, <1>5, <1>6, <1>7, <1>8, <1>9, <1>10 DEF UINext

-----------------------------------------------------------------------------
(* What the invariant says of kMsgHaveWork and of a pump that sleeps.        *)

\* A frame that replaces kMsgHaveWork calls nothing but handlers of sent messages.
LEMMA ResetsOnTop ==
  ASSUME PumpInv, ~Replacing, Resets
  PROVE  TopIn({"replace", "reset"})
<1>1. PICK d \in 1..Len(stack) : stack[d].at \in Resetting
  BY DEF Resets, HasReset
<1>2. Len(stack) \in Nat /\ DOMAIN stack = 1..Len(stack) /\ Chain(stack)
  BY DEF PumpInv, PumpTyped, StackInv
<1>3. stack[d].at \in {"replace", "reset"}
  BY <1>1, <1>2 DEF Replacing, Resetting
<1>4. d = Len(stack)
  <2>1. d \notin 1..(Len(stack) - 1)
    BY <1>2, <1>3 DEF Chain, Calls, Callers
  <2>2. d \in 1..Len(stack) /\ Len(stack) \in Nat
    BY <1>1, <1>2
  <2> QED
    BY <2>1, <2>2
<1>5. stack # <<>> /\ Last(stack) = stack[Len(stack)]
  BY <1>2, <1>4 DEF Last
<1> QED
  BY <1>3, <1>4, <1>5 DEF TopIn

\* A set of which there is at most one element has as many as the claim that
\* there is one.
LEMMA AtMostOne ==
  ASSUME NEW S, \A x, y \in S : x = y
  PROVE  Cardinality(S) = IF S # {} THEN 1 ELSE 0
<1>1. CASE S = {}
  BY <1>1, FS_EmptySet
<1>2. CASE S # {}
  <2>1. PICK x : S = {x}
    BY <1>2
  <2> QED
    BY <1>2, <2>1, FS_Singleton
<1> QED
  BY <1>1, <1>2

LEMMA FlagSays == PumpInv => FlagAgrees
<1> SUFFICES ASSUME PumpInv PROVE FlagAgrees
  OBVIOUS
<1> DEFINE A == {i \in DOMAIN messages : messages[i] = "work"}
           B == {t \in DOMAIN scheduling : scheduling[t] \in {"post", "clarify"}}
           C == {d \in DOMAIN stack : stack[d].at \in {"replace", "replaced", "reset"}}
<1>1. /\ DOMAIN messages = 1..Len(messages) /\ DOMAIN scheduling = Scheduler
      /\ DOMAIN stack = 1..Len(stack) /\ Len(stack) \in Nat
      /\ have_work_ \in BOOLEAN /\ FlagInv /\ ResetsOnce(stack)
  BY DEF PumpInv, PumpTyped, StackInv
<1>2. (\A i, j \in A : i = j) /\ (A # {} <=> Queued(messages))
  BY <1>1 DEF FlagInv, QueuedOnce, Queued
<1>3. (\A t, u \in B : t = u) /\ (B # {} <=> Posts)
  BY <1>1 DEF FlagInv, PostsWork, Posts
<1>4. (\A d, e \in C : d = e) /\ (C # {} <=> Resets)
  BY <1>1 DEF ResetsOnce, Resets, HasReset, Resetting
<1> HIDE DEF A, B, C
<1>5. /\ Cardinality(A) = IF A # {} THEN 1 ELSE 0
      /\ Cardinality(B) = IF B # {} THEN 1 ELSE 0
      /\ Cardinality(C) = IF C # {} THEN 1 ELSE 0
  BY <1>2, <1>3, <1>4, AtMostOne
<1>6. Cardinality(A) + Cardinality(B) + Cardinality(C) = IF have_work_ THEN 1 ELSE 0
  BY <1>1, <1>2, <1>3, <1>4, <1>5 DEF FlagInv
<1> QED
  BY <1>6 DEF FlagAgrees, A, B, C

LEMMA PumpSays == PumpInv => PumpSound
<1> SUFFICES ASSUME PumpInv PROVE PumpSound
  OBVIOUS
<1>1. FlagAgrees
  BY FlagSays
<1>2. InRun <=> HasRun(stack)
  BY DEF InRun, IsRun, HasRun, RunAt, PumpInv, PumpTyped
<1>3. ASSUME NEW at \in {"wait", "modal"}, Asleep(at), ~Replacing
      PROVE  TopIn({at}) /\ ~Coming
  <2>1. /\ stack # <<>> /\ Last(stack).at = at /\ messages = <<>>
        /\ \A t \in Scheduler : scheduling[t] = "no"
    BY <1>3 DEF Asleep, TopIs, Scheduler
  <2>2. ~Queued(messages)
    <3>1. Len(messages) = 0
      BY <2>1
    <3> QED
      BY <3>1 DEF Queued
  <2>3. ~Posts /\ ~Exchanges
    BY <2>1 DEF Posts, PostsWork, Exchanges
  <2>4. ~Resets
    BY <1>3, <2>1, ResetsOnTop DEF TopIn
  <2> QED
    BY <2>1, <2>2, <2>3, <2>4 DEF PumpInv, FlagInv, Coming, TopIn
<1>4. HasTasks \/ incoming + work = 0
  BY DEF HasTasks, PumpInv, PumpTyped
<1>5. Asleep("wait") /\ may_nest /\ ~Replacing => incoming + work = 0 \/ "full" \in missed
  BY <1>3, <1>4 DEF PumpInv, WorkInv
<1>6. Asleep("modal") /\ may_nest /\ InRun /\ ~Replacing => incoming + work = 0 \/ missed # {}
  <2>1. TopIn({"modal"}) => TopIn({"modal", "window", "dispatch", "task"})
    BY DEF TopIn
  <2> QED
    BY <1>2, <1>3, <1>4, <2>1 DEF PumpInv, WorkInv
<1> QED
  BY <1>1, <1>5, <1>6 DEF PumpSound

\* In every state at most one kMsgHaveWork is under way, have_work_ says whether
\* one is, and a pump that sleeps has no task to run, unless a message was lost for
\* one of the known reasons or the handler of a sent message runs while it is
\* replaced: for any number of threads that post, however large Windows' queue, and
\* however many tasks, loops and messages, posted or sent, there are.
THEOREM PumpIsSound == UISpec => []PumpSound
<1>1. UISpec => []PumpInv
  BY PumpInitInv, PumpStep, PTL DEF UISpec
<1> QED
  BY <1>1, PumpSays, PTL
=============================================================================
