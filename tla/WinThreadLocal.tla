---------------------------- MODULE WinThreadLocal -----------------------------
(***************************************************************************)
(* Thread local storage on Windows (threading/thread_local_storage_win.cc):*)
(* one native key for the process, made by whoever needs it first, under   *)
(* which each thread keeps a table of slots, and the destructors that run  *)
(* when a thread exits and may fill other slots again.                     *)
(***************************************************************************)
EXTENDS Integers, Sequences, FiniteSets, Functions

CONSTANTS
  TlsThread,   \* the threads
  SlotObject,  \* the ThreadLocalStorage::Slots
  kThreadLocalStorageSize,
  kMaxDestructorIterations,
  MaxValues    \* bound: values stored

ASSUME TlsAssumption ==
  /\ kThreadLocalStorageSize \in Nat \ {0}
  /\ kMaxDestructorIterations \in Nat \ {0}
  /\ MaxValues \in Nat

VARIABLES
  g_native_tls_key,     \* 0 is TLS_OUT_OF_INDEXES
  native,               \* the native keys that are allocated
  g_last_used_tls_key,
  g_tls_destructors,    \* the slots that have one
  slot_,                \* the number in each Slot, 0 before Initialize and after Free
  table,                \* each thread's slots and the key it is stored under,
                        \*   0 when it has none; a value 0 is NULL
  doing,                \* where each thread is
  values,               \* history: how many values were stored,
  destroyed             \*   and those that destructors were called with

keyVars == <<g_native_tls_key, native>>
slotVars == <<g_last_used_tls_key, g_tls_destructors, slot_>>
tlsVars == <<keyVars, slotVars, table, doing, values, destroyed>>

Key == 1..Cardinality(TlsThread)
Number == 1..(kThreadLocalStorageSize - 1)
NoTable == [key |-> 0, slots |-> [n \in Number |-> 0]]
Runs == [at |-> "runs"]

TlsInit ==
  /\ g_native_tls_key = 0
  /\ native = {}
  /\ g_last_used_tls_key = 0
  /\ g_tls_destructors = {}
  /\ slot_ = [s \in SlotObject |-> 0]
  /\ table = [t \in TlsThread |-> NoTable]
  /\ doing = [t \in TlsThread |-> Runs]
  /\ values = 0
  /\ destroyed = <<>>

Does(t, what) == doing' = [doing EXCEPT ![t] = what]

\* TlsGetValue(g_native_tls_key) is not NULL.
HasTable(t) == g_native_tls_key # 0 /\ table[t].key = g_native_tls_key

\* Code of a client runs on the thread: its own, or a destructor.
ClientOn(t) == doing[t].at \in {"runs", "destroys"}

-----------------------------------------------------------------------------
(* ConstructTlsVector, which whatever a thread calls first calls first.     *)

NeedTable(t) ==
  /\ doing[t] = Runs /\ ~HasTable(t)
  /\ Does(t, [at |-> IF g_native_tls_key = 0 THEN "alloc" ELSE "table"])
  /\ UNCHANGED <<keyVars, slotVars, table, values, destroyed>>

TlsAlloc(t) ==
  /\ doing[t].at = "alloc"
  /\ \E key \in Key \ native :
       /\ native' = native \cup {key}
       /\ Does(t, [at |-> "exchange", key |-> key])
  /\ UNCHANGED <<g_native_tls_key, slotVars, table, values, destroyed>>

\* InterlockedCompareExchange: the key is freed if "another thread replaced
\* g_native_tls_key first".
CompareExchange(t) ==
  /\ doing[t].at = "exchange"
  /\ IF g_native_tls_key = 0
     THEN g_native_tls_key' = doing[t].key /\ UNCHANGED native
     ELSE native' = native \ {doing[t].key} /\ UNCHANGED g_native_tls_key
  /\ Does(t, [at |-> "table"])
  /\ UNCHANGED <<slotVars, table, values, destroyed>>

SetTable(t) ==
  /\ doing[t].at = "table"
  /\ table' = [table EXCEPT ![t] = [NoTable EXCEPT !.key = g_native_tls_key]]
  /\ Does(t, Runs)
  /\ UNCHANGED <<keyVars, slotVars, values, destroyed>>

-----------------------------------------------------------------------------
(* Slots.                                                                   *)

\* Initialize takes the next number; what it does when the table is full is left
\* out.
InitializeNumber(t, s) ==
  /\ doing[t] = Runs /\ HasTable(t)
  /\ slot_[s] = 0 /\ \A u \in TlsThread : ~(doing[u].at = "number" /\ doing[u].of = s)
  /\ g_last_used_tls_key < kThreadLocalStorageSize - 1
  /\ g_last_used_tls_key' = g_last_used_tls_key + 1
  /\ Does(t, [at |-> "number", of |-> s, number |-> g_last_used_tls_key'])
  /\ UNCHANGED <<keyVars, g_tls_destructors, slot_, table, values, destroyed>>

InitializeDestructor(t) ==
  /\ doing[t].at = "number"
  /\ slot_' = [slot_ EXCEPT ![doing[t].of] = doing[t].number]
  /\ \E some \in {{}, {doing[t].number}} :
       g_tls_destructors' = g_tls_destructors \cup some
  /\ Does(t, Runs)
  /\ UNCHANGED <<keyVars, g_last_used_tls_key, table, values, destroyed>>

\* Free wipes the destructor; numbers are not used again.
Free(t, s) ==
  /\ ClientOn(t)
  /\ slot_[s] # 0
  /\ slot_' = [slot_ EXCEPT ![s] = 0]
  /\ g_tls_destructors' = g_tls_destructors \ {slot_[s]}
  /\ UNCHANGED <<keyVars, g_last_used_tls_key, table, doing, values, destroyed>>

\* Set, by client code that owns what it overwrites, so that the slot is empty.
SetValue(t, s) ==
  /\ ClientOn(t) /\ HasTable(t)
  /\ slot_[s] # 0 /\ table[t].slots[slot_[s]] = 0
  /\ values < MaxValues
  /\ values' = values + 1
  /\ table' = [table EXCEPT ![t].slots[slot_[s]] = values']
  /\ UNCHANGED <<keyVars, slotVars, doing, destroyed>>

-----------------------------------------------------------------------------
(* WinThreadExit scans the table, from the last slot to the first, until a  *)
(* scan calls no destructor.                                                *)

Scan(attempts) ==
  [at |-> "scans", number |-> g_last_used_tls_key, again |-> FALSE,
   attempts |-> attempts]

ThreadExits(t) ==
  /\ doing[t] = Runs
  /\ Does(t, IF HasTable(t) THEN Scan(kMaxDestructorIterations) ELSE [at |-> "gone"])
  /\ UNCHANGED <<keyVars, slotVars, table, values, destroyed>>

Scans(t) == doing[t].at = "scans"
Value(t) == table[t].slots[doing[t].number]
MustDestroy(t) == Value(t) # 0 /\ doing[t].number \in g_tls_destructors

ScanPasses(t) ==
  /\ Scans(t) /\ doing[t].number > 0
  /\ ~MustDestroy(t)
  /\ Does(t, [doing[t] EXCEPT !.number = @ - 1])
  /\ UNCHANGED <<keyVars, slotVars, table, values, destroyed>>

\* The bug of a scan that is not repeated.
ScanDestroysOnce(t) ==
  /\ Scans(t) /\ doing[t].number > 0
  /\ MustDestroy(t)
  /\ table' = [table EXCEPT ![t].slots[doing[t].number] = 0]
  /\ Does(t, [doing[t] EXCEPT !.at = "destroys"])
  /\ destroyed' = Append(destroyed, Value(t))
  /\ UNCHANGED <<keyVars, slotVars, values>>

ScanDestroys(t) ==
  /\ Scans(t) /\ doing[t].number > 0
  /\ MustDestroy(t)
  /\ table' = [table EXCEPT ![t].slots[doing[t].number] = 0]
  /\ Does(t, [doing[t] EXCEPT !.at = "destroys", !.again = TRUE])
  /\ destroyed' = Append(destroyed, Value(t))
  /\ UNCHANGED <<keyVars, slotVars, values>>

DestructorReturns(t) ==
  /\ doing[t].at = "destroys"
  /\ Does(t, [doing[t] EXCEPT !.at = "scans", !.number = @ - 1])
  /\ UNCHANGED <<keyVars, slotVars, table, values, destroyed>>

ScanEnds(t) == Scans(t) /\ doing[t].number = 0

\* The last attempt ends the loop, "destructors might not have been called".
ScanAgain(t) ==
  /\ ScanEnds(t)
  /\ doing[t].again /\ doing[t].attempts > 1
  /\ Does(t, Scan(doing[t].attempts - 1))
  /\ UNCHANGED <<keyVars, slotVars, table, values, destroyed>>

RemoveTable(t) ==
  /\ ScanEnds(t)
  /\ ~doing[t].again \/ doing[t].attempts = 1
  /\ table' = [table EXCEPT ![t] = NoTable]
  /\ Does(t, [at |-> "gone"])
  /\ UNCHANGED <<keyVars, slotVars, values, destroyed>>

TlsNext ==
  \E t \in TlsThread :
    \/ NeedTable(t) \/ TlsAlloc(t) \/ CompareExchange(t) \/ SetTable(t)
    \/ \E s \in SlotObject : InitializeNumber(t, s) \/ Free(t, s) \/ SetValue(t, s)
    \/ InitializeDestructor(t)
    \/ ThreadExits(t) \/ ScanPasses(t) \/ ScanDestroys(t) \/ DestructorReturns(t)
    \/ ScanAgain(t) \/ RemoveTable(t)

TlsSpec == TlsInit /\ [][TlsNext]_tlsVars

-----------------------------------------------------------------------------
(* Properties.                                                              *)

\* However threads race for the first use, one native key remains and no thread
\* loses its table: the one DCHECK of ConstructTlsVector holds.
OneNativeKey ==
  /\ native = ({g_native_tls_key} \ {0}) \cup
                {doing[t].key : t \in {u \in TlsThread : doing[u].at = "exchange"}}
  /\ \A t \in TlsThread :
       /\ table[t].key \in {0, g_native_tls_key}
       /\ doing[t].at = "table" => ~HasTable(t)

\* A value is destroyed once at most, also when the slot is freed and the table
\* filled while destructors run, and a thread that is done leaves no value whose
\* slot has a destructor, whichever slots the destructors of others filled again,
\* unless the attempts are used up (thread_local_storage_win.cc:136-149).
ExitDestroysValues ==
  /\ IsInjective(destroyed)
  /\ \A t \in TlsThread :
       (ScanEnds(t) /\ ~doing[t].again) =>
         \A n \in Number \cap g_tls_destructors : table[t].slots[n] = 0

TlsSound == OneNativeKey /\ ExitDestroysValues
=============================================================================
