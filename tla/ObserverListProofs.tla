------------------------- MODULE ObserverListProofs ---------------------------
(***************************************************************************)
(* What is proved of the observer lists, for any number of observers,      *)
(* threads, contexts and nested notifications: the list of one thread      *)
(* implements the set of observers that ObserverSet states, and the list   *)
(* of several threads keeps every observer reachable and every context     *)
(* alive as long as it is used, and no longer.                             *)
(***************************************************************************)
EXTENDS ObserverList, ObserverListThreadSafe,
        FunctionTheorems, FiniteSetTheorems, SequenceTheorems, TLAPS

-----------------------------------------------------------------------------
(* Selection.                                                                *)

\* Nth enumerates a set of indexes, from the smallest to the largest.
LEMMA NthFacts ==
  ASSUME NEW n \in Nat, NEW S \in SUBSET (1..n)
  PROVE  /\ IsFiniteSet(S) /\ Cardinality(S) \in Nat /\ Cardinality(S) <= n
         /\ \A k \in 1..Cardinality(S) : Nth(S, k) \in S
         /\ \A i \in S : \E k \in 1..Cardinality(S) : Nth(S, k) = i
         /\ \A k, l \in 1..Cardinality(S) : Nth(S, k) = Nth(S, l) => k = l
         /\ \A k \in 1..Cardinality(S) : Cardinality({j \in S : j <= Nth(S, k)}) = k
<1> DEFINE c == Cardinality(S)
           UpTo(i) == {j \in S : j <= i}
           rank == [i \in S |-> Cardinality(UpTo(i))]
<1>1. IsFiniteSet(S) /\ c \in Nat /\ c <= n
  <2>1. IsFiniteSet(1..n) /\ Cardinality(1..n) = n
    BY FS_Interval
  <2> QED
    BY <2>1, FS_Subset, FS_CardinalityType
<1>2. ASSUME NEW i \in S
      PROVE  IsFiniteSet(UpTo(i)) /\ Cardinality(UpTo(i)) \in 1..c
  <2>1. UpTo(i) \in SUBSET S /\ i \in UpTo(i)
    OBVIOUS
  <2>2. IsFiniteSet(UpTo(i)) /\ Cardinality(UpTo(i)) <= c
    BY <1>1, <2>1, FS_Subset
  <2>3. Cardinality(UpTo(i)) \in Nat /\ Cardinality(UpTo(i)) # 0
    BY <2>1, <2>2, FS_CardinalityType, FS_EmptySet
  <2> HIDE DEF UpTo
  <2> QED
    BY <1>1, <2>2, <2>3
<1>3. ASSUME NEW i \in S, NEW j \in S, i < j
      PROVE  Cardinality(UpTo(i)) # Cardinality(UpTo(j))
  <2>1. UpTo(i) \in SUBSET UpTo(j) /\ j \in UpTo(j) /\ j \notin UpTo(i)
    <3>1. \A k \in S : k \in Nat
      OBVIOUS
    <3>2. \A k \in S : k <= i => k <= j
      BY <1>3, <3>1
    <3>3. j <= j /\ ~(j <= i)
      BY <1>3, <3>1
    <3>4. UpTo(i) \in SUBSET UpTo(j)
      BY <3>2
    <3> QED
      BY <3>3, <3>4
  <2> HIDE DEF UpTo
  <2> QED
    BY <1>2, <2>1, FS_Subset
<1> HIDE DEF UpTo
<1>4. rank \in Injection(S, 1..c)
  <2>1. rank \in [S -> 1..c]
    BY <1>2
  <2>2. ASSUME NEW i \in S, NEW j \in S, rank[i] = rank[j]
        PROVE  i = j
    <3>1. ~(i < j) /\ ~(j < i)
      BY <1>3, <2>2
    <3> QED
      BY <3>1
  <2> QED
    BY <2>1, <2>2, Fun_IsInj
<1>5. rank \in Surjection(S, 1..c)
  <2>1. IsFiniteSet(1..c) /\ Cardinality(1..c) = c
    BY <1>1, FS_Interval
  <2> HIDE DEF rank
  <2> QED
    BY <1>4, <2>1, FS_Injection
<1>6. ASSUME NEW k \in 1..c
      PROVE  /\ Nth(S, k) \in S /\ rank[Nth(S, k)] = k
             /\ Cardinality({j \in S : j <= Nth(S, k)}) = k
  <2>1. \E i \in S : rank[i] = k
    BY <1>5 DEF Surjection
  <2>2. \E i \in S : Cardinality({j \in S : j <= i}) = k
    BY <2>1 DEF UpTo
  <2>3. Nth(S, k) \in S /\ Cardinality({j \in S : j <= Nth(S, k)}) = k
    BY <2>2 DEF Nth
  <2> QED
    BY <2>3 DEF UpTo
<1>7. ASSUME NEW i \in S
      PROVE  \E k \in 1..c : Nth(S, k) = i
  <2>1. rank[i] \in 1..c
    BY <1>2
  <2>2. Nth(S, rank[i]) \in S /\ rank[Nth(S, rank[i])] = rank[i]
    BY <1>6, <2>1
  <2>3. Nth(S, rank[i]) = i
    BY <1>4, <2>2 DEF Injection, IsInjective
  <2> QED
    BY <2>1, <2>3
<1>8. ASSUME NEW k \in 1..c, NEW l \in 1..c, Nth(S, k) = Nth(S, l)
      PROVE  k = l
  BY <1>6, <1>8
<1> QED
  BY <1>1, <1>6, <1>7, <1>8

\* What is selected: the elements at the indexes, each once.
LEMMA SelectedFacts ==
  ASSUME NEW E, NEW s \in Seq(E), NEW S \in SUBSET DOMAIN s
  PROVE  /\ Selected(s, S) \in Seq(E)
         /\ Len(Selected(s, S)) = Cardinality(S)
         /\ Cardinality(S) \in Nat /\ Cardinality(S) <= Len(s)
         /\ Selected(s, S) = <<>> <=> S = {}
         /\ \A k \in DOMAIN Selected(s, S) : \E i \in S : Selected(s, S)[k] = s[i]
         /\ \A i \in S : \E k \in DOMAIN Selected(s, S) : Selected(s, S)[k] = s[i]
         /\ \A k, l \in DOMAIN Selected(s, S) : k # l =>
              \E i, j \in S : i # j /\ Selected(s, S)[k] = s[i] /\ Selected(s, S)[l] = s[j]
<1> DEFINE c == Cardinality(S)
<1>1. Len(s) \in Nat /\ DOMAIN s = 1..Len(s) /\ \A i \in S : s[i] \in E
  OBVIOUS
<1>2. /\ IsFiniteSet(S) /\ c \in Nat /\ c <= Len(s)
      /\ \A k \in 1..c : Nth(S, k) \in S
      /\ \A i \in S : \E k \in 1..c : Nth(S, k) = i
      /\ \A k, l \in 1..c : Nth(S, k) = Nth(S, l) => k = l
  BY <1>1, NthFacts
<1>3. Selected(s, S) = [k \in 1..c |-> s[Nth(S, k)]]
  BY DEF Selected
<1>4. c = 0 <=> S = {}
  BY <1>2, FS_EmptySet
<1> HIDE DEF c
<1>5. /\ Selected(s, S) \in Seq(E) /\ Len(Selected(s, S)) = c
      /\ DOMAIN Selected(s, S) = 1..c
      /\ \A k \in 1..c : Selected(s, S)[k] = s[Nth(S, k)]
  <2>1. \A k \in 1..c : s[Nth(S, k)] \in E
    BY <1>1, <1>2
  <2> QED
    BY <1>2, <1>3, <2>1
<1>6. Selected(s, S) = <<>> <=> S = {}
  BY <1>4, <1>5
<1>7. ASSUME NEW k \in 1..c, NEW l \in 1..c, k # l
      PROVE  \E i, j \in S : i # j /\ Selected(s, S)[k] = s[i] /\ Selected(s, S)[l] = s[j]
  <2>1. Nth(S, k) \in S /\ Nth(S, l) \in S /\ Nth(S, k) # Nth(S, l)
    BY <1>2, <1>7
  <2> QED
    BY <1>5, <2>1
<1>8. /\ \A k \in 1..c : \E i \in S : Selected(s, S)[k] = s[i]
      /\ \A i \in S : \E k \in 1..c : Selected(s, S)[k] = s[i]
  BY <1>2, <1>5
<1> QED
  BY <1>2, <1>5, <1>6, <1>7, <1>8 DEF c

\* What Erased leaves: the other elements, all of them, each once.
LEMMA ErasedFacts ==
  ASSUME NEW E, NEW s \in Seq(E), NEW e
  PROVE  /\ Erased(s, e) \in Seq(E)
         /\ Len(Erased(s, e)) <= Len(s)
         /\ \A k \in DOMAIN Erased(s, e) :
              Erased(s, e)[k] # e /\ \E i \in DOMAIN s : Erased(s, e)[k] = s[i]
         /\ \A i \in DOMAIN s : s[i] # e =>
              \E k \in DOMAIN Erased(s, e) : Erased(s, e)[k] = s[i]
         /\ \A k, l \in DOMAIN Erased(s, e) : k # l =>
              \E i, j \in DOMAIN s : i # j /\ Erased(s, e)[k] = s[i] /\ Erased(s, e)[l] = s[j]
         /\ Erased(s, e) = <<>> <=> \A i \in DOMAIN s : s[i] = e
<1> DEFINE S == {i \in DOMAIN s : s[i] # e}
<1>1. S \in SUBSET DOMAIN s /\ Erased(s, e) = Selected(s, S)
  BY DEF Erased
<1>2. \A i \in DOMAIN s : i \in S <=> s[i] # e
  OBVIOUS
<1> HIDE DEF S
<1> QED
  BY <1>1, <1>2, SelectedFacts

\* A set of indexes that is not empty has a smallest one.
LEMMA HasMin ==
  ASSUME NEW n \in Nat, NEW S \in SUBSET (1..n), S # {}
  PROVE  \E m \in S : \A i \in S : m <= i
<1>1. IsFiniteSet(S) /\ Cardinality(S) \in Nat
  BY NthFacts
<1>2. 1 \in 1..Cardinality(S)
  BY <1>1, FS_EmptySet
<1> DEFINE m == Nth(S, 1)
           UpTo == {j \in S : j <= m}
<1>3. m \in S /\ Cardinality(UpTo) = 1
  BY <1>2, NthFacts
<1>4. PICK x : UpTo = {x}
  <2>1. UpTo \in SUBSET S
    OBVIOUS
  <2>2. IsFiniteSet(UpTo)
    BY <1>1, <2>1, FS_Subset
  <2> HIDE DEF UpTo
  <2> QED
    BY <1>3, <2>2, FS_Singleton
<1> HIDE DEF m
<1>5. ASSUME NEW i \in S
      PROVE  m <= i
  <2>1. i \in Int /\ m \in Int
    BY <1>3
  <2>2. i <= m => i = m
    <3>1. m \in UpTo
      BY <1>3, <2>1
    <3>2. i <= m => i \in UpTo
      OBVIOUS
    <3> HIDE DEF UpTo
    <3> QED
      BY <1>4, <3>1, <3>2
  <2> QED
    BY <2>1, <2>2
<1> QED
  BY <1>3, <1>5

\* What popping the last element leaves.
LEMMA FrontOfAll ==
  ASSUME NEW E, NEW s \in Seq(E), s # <<>>
  PROVE  /\ Len(s) \in Nat /\ Len(s) # 0 /\ Front(s) \in Seq(E)
         /\ Len(Front(s)) = Len(s) - 1 /\ DOMAIN Front(s) = 1..(Len(s) - 1)
         /\ \A i \in 1..(Len(s) - 1) : Front(s)[i] = s[i]
<1> DEFINE m == Len(s) - 1
<1>1. Len(s) \in Nat /\ Len(s) # 0 /\ m \in Nat /\ m = Len(s) - 1
  OBVIOUS
<1>2. Front(s) = SubSeq(s, 1, m)
  BY DEF Front
<1>3. \A i \in 1..m : s[i] \in E
  BY <1>1
<1> HIDE DEF m
<1>4. /\ SubSeq(s, 1, m) \in Seq(E)
      /\ Len(SubSeq(s, 1, m)) = IF 1 <= m THEN m - 1 + 1 ELSE 0
      /\ \A i \in 1..m - 1 + 1 : SubSeq(s, 1, m)[i] = s[1 + i - 1]
  <2>1. 1 \in Int /\ m \in Int
    BY <1>1
  <2> QED
    BY <1>3, <2>1, SubSeqProperties
<1>5. Len(SubSeq(s, 1, m)) = m /\ \A k \in 1..m : SubSeq(s, 1, m)[k] = s[k]
  BY <1>1, <1>4
<1>6. DOMAIN SubSeq(s, 1, m) = 1..m
  BY <1>4, <1>5
<1> QED
  BY <1>1, <1>2, <1>4, <1>5, <1>6

-----------------------------------------------------------------------------
(* The observer list.                                                        *)

\* The vector: within its bound, no observer twice, and a hole only while a
\* notification is open.
SlotsKept ==
  /\ Len(observers_) <= MaxSlots
  /\ \A i, j \in DOMAIN observers_ :
       observers_[i] = observers_[j] /\ observers_[i] # NULL => i = j
  /\ notify_depth_ = 0 => \A i \in DOMAIN observers_ : observers_[i] # NULL

\* The depth counts the iterators of a list that exists, and the slots do not
\* move under them: none has passed the end of the vector, and the limit of each
\* is what the type of the list makes it.
ItersKept ==
  /\ exists => notify_depth_ = Len(iters)
  /\ ~exists => observers_ = <<>> /\ notify_depth_ = 0
  /\ exists => \A d \in DOMAIN iters :
       /\ iters[d].index <= Len(observers_) + 1
       /\ IF type_ = "NOTIFY_EXISTING_ONLY" THEN iters[d].max <= Len(observers_)
          ELSE iters[d].max = MaxSlots

ListInv == ListTypeOK /\ SlotsKept /\ ItersKept

\* What the type of the state says of the vector and of an iterator.
LEMMA SlotsTyped ==
  ASSUME ListInv
  PROVE  /\ Len(observers_) \in Nat /\ DOMAIN observers_ = 1..Len(observers_)
         /\ \A i \in DOMAIN observers_ : observers_[i] \in Observer \cup {NULL}
         /\ Len(iters) \in Nat /\ DOMAIN iters = 1..Len(iters)
         /\ \A d \in DOMAIN iters :
              /\ iters[d] \in [index : Nat, max : Nat, observer : Observer \cup {NULL}]
              /\ iters[d].index \in Nat /\ iters[d].max \in Nat
<1> DEFINE R == [index : Nat, max : Nat, observer : Observer \cup {NULL}]
<1>1. observers_ \in Seq(Observer \cup {NULL}) /\ iters \in Seq(R)
  BY DEF ListInv, ListTypeOK
<1>2. \A d \in DOMAIN iters : iters[d] \in R
  <2> HIDE DEF R
  <2> QED
    BY <1>1
<1>3. \A r \in R : r.index \in Nat /\ r.max \in Nat
  OBVIOUS
<1>4. Len(iters) \in Nat /\ DOMAIN iters = 1..Len(iters)
  <2> HIDE DEF R
  <2> QED
    BY <1>1
<1> QED
  BY <1>1, <1>2, <1>3, <1>4

\* An empty list without iterators has the invariant, and is the empty set.
LEMMA ListInitInv ==
  ListInit => ListInv /\ Abstract!SetInit
<1> SUFFICES ASSUME ListInit
             PROVE  ListInv /\ Abstract!SetInit
  OBVIOUS
<1>1. Members = {}
  BY DEF ListInit, Members, Range
<1>2. [d \in DOMAIN iters |-> Owed(iters[d])] = <<>>
  BY DEF ListInit
<1>3. Abstract!SetInit
  BY <1>1, <1>2 DEF ListInit, Abstract!SetInit
<1>4. ListTypeOK
  BY DEF ListInit, ListTypeOK
<1>5. SlotsKept
  BY ListAssumption DEF ListInit, SlotsKept
<1>6. ItersKept
  BY DEF ListInit, ItersKept
<1> QED
  BY <1>3, <1>4, <1>5, <1>6 DEF ListInv

\* A new observer stands behind all others, where the iterators that have no
\* limit will find it.
LEMMA AddJoins ==
  ASSUME ListInv, NEW o \in Observer, AddObserver(o)
  PROVE  ListInv' /\ Abstract!Join(o)
<1> DEFINE n == Len(observers_)
           existing == type_ = "NOTIFY_EXISTING_ONLY"
<1>1. /\ n \in Nat /\ n + 1 <= MaxSlots /\ MaxSlots \in Nat
      /\ o # NULL
      /\ Len(observers_') = n + 1 /\ DOMAIN observers_' = 1..(n + 1)
      /\ observers_'[n + 1] = o
      /\ \A i \in 1..n : observers_'[i] = observers_[i]
      /\ observers_' \in Seq(Observer \cup {NULL})
  BY SlotsTyped, ListAssumption DEF AddObserver, ListInv, ListTypeOK
<1>2. \A i \in 1..n : observers_[i] # o
  BY <1>1, SlotsTyped DEF AddObserver, Members, Range
<1>3. ListTypeOK'
  BY <1>1 DEF AddObserver, ListInv, ListTypeOK
<1>4. SlotsKept'
  <2>1. \A i \in 1..(n + 1) : i \in 1..n \/ i = n + 1
    BY <1>1
  <2>2. \A i, j \in DOMAIN observers_' :
          observers_'[i] = observers_'[j] /\ observers_'[i] # NULL => i = j
    BY <1>1, <1>2, <2>1, SlotsTyped DEF ListInv, SlotsKept
  <2>3. notify_depth_' = 0 => \A i \in DOMAIN observers_' : observers_'[i] # NULL
    BY <1>1, <2>1, SlotsTyped DEF ListInv, SlotsKept, AddObserver
  <2> QED
    BY <1>1, <2>2, <2>3 DEF SlotsKept
<1>5. ItersKept'
  BY <1>1, SlotsTyped DEF ListInv, ItersKept, AddObserver
<1>6. Members' = Members \cup {o}
  BY <1>1, SlotsTyped DEF Members, Range
<1>7. ASSUME NEW d \in DOMAIN iters
      PROVE  Owed(iters[d])' = IF existing THEN Owed(iters[d]) ELSE Owed(iters[d]) \cup {o}
  <2> DEFINE it == iters[d]
  <2>1. /\ it.index \in Nat /\ it.max \in Nat /\ it.index <= n + 1
        /\ IF existing THEN it.max <= n ELSE it.max = MaxSlots
    BY SlotsTyped DEF ListInv, ItersKept, AddObserver
  <2>2. iters'[d] = it
    BY DEF AddObserver
  <2>3. Ahead(it)' = {i \in 1..(n + 1) : it.index <= i /\ i <= it.max /\ observers_'[i] # NULL}
    BY <1>1, <2>2 DEF Ahead
  <2>4. Ahead(it) = {i \in 1..n : it.index <= i /\ i <= it.max /\ observers_[i] # NULL}
    BY SlotsTyped DEF Ahead
  <2> HIDE DEF it, existing
  <2>5. Ahead(it)' = IF existing THEN Ahead(it) ELSE Ahead(it) \cup {n + 1}
    BY <1>1, <2>1, <2>3, <2>4
  <2>6. Owed(it)' = {observers_'[i] : i \in Ahead(it)'}
    BY <2>2 DEF Owed, it
  <2>7. Owed(it) = {observers_[i] : i \in Ahead(it)}
    BY DEF Owed
  <2>8. Owed(it)' = IF existing THEN Owed(it) ELSE Owed(it) \cup {o}
    BY <1>1, <2>4, <2>5, <2>6, <2>7
  <2> QED
    BY <2>8 DEF it
<1>8. [d \in DOMAIN iters |-> Owed(iters[d])]'
        = IF existing THEN [d \in DOMAIN iters |-> Owed(iters[d])]
          ELSE [d \in DOMAIN iters |-> Owed(iters[d]) \cup {o}]
  BY <1>7 DEF AddObserver
<1>9. Abstract!Join(o)
  BY <1>6, <1>8 DEF AddObserver, Abstract!Join
<1> QED
  BY <1>3, <1>4, <1>5, <1>9 DEF ListInv

\* While a notification is open those who leave make holes, and no slot moves.
LEMMA HolesLeave ==
  ASSUME ListInv, NEW gone \in SUBSET Observer, exists, notify_depth_ > 0,
         observers_' = [i \in DOMAIN observers_ |->
                          IF observers_[i] \in gone THEN NULL ELSE observers_[i]],
         UNCHANGED <<exists, type_, notify_depth_, iters>>
  PROVE  ListInv' /\ Abstract!Leave(gone)
<1> DEFINE n == Len(observers_)
<1>1. /\ n \in Nat /\ DOMAIN observers_ = 1..n
      /\ observers_' \in Seq(Observer \cup {NULL})
      /\ Len(observers_') = n /\ DOMAIN observers_' = 1..n
      /\ \A i \in 1..n : observers_'[i] = IF observers_[i] \in gone THEN NULL ELSE observers_[i]
  BY SlotsTyped
<1>2. \A i \in 1..n : observers_'[i] # NULL =>
        observers_'[i] = observers_[i] /\ observers_[i] \notin gone
  BY <1>1
<1>3. \A i \in 1..n : observers_[i] # NULL /\ observers_[i] \notin gone =>
        observers_'[i] = observers_[i]
  BY <1>1
<1>4. NULL \notin gone
  BY ListAssumption
<1>5. ListTypeOK'
  BY <1>1 DEF ListInv, ListTypeOK
<1>6. SlotsKept'
  <2>1. notify_depth_' # 0
    BY DEF ListInv, ListTypeOK
  <2> QED
    BY <1>1, <1>2, <2>1 DEF ListInv, SlotsKept
<1>7. ItersKept'
  BY <1>1 DEF ListInv, ItersKept
<1>8. Members' = Members \ gone
  BY <1>1, <1>2, <1>3 DEF Members, Range
<1>9. ASSUME NEW d \in DOMAIN iters
      PROVE  Owed(iters[d])' = Owed(iters[d]) \ gone
  <2> DEFINE it == iters[d]
  <2>1. Ahead(it)' = {i \in 1..n : it.index <= i /\ i <= it.max /\ observers_'[i] # NULL}
    BY <1>1 DEF Ahead
  <2>2. Ahead(it) = {i \in 1..n : it.index <= i /\ i <= it.max /\ observers_[i] # NULL}
    BY <1>1 DEF Ahead
  <2>3. Owed(it)' = {observers_'[i] : i \in Ahead(it)'}
    BY DEF Owed
  <2>4. Owed(it) = {observers_[i] : i \in Ahead(it)}
    BY DEF Owed
  <2> HIDE DEF it
  <2>5. \A i \in Ahead(it)' : i \in Ahead(it) /\ observers_'[i] = observers_[i] /\ observers_[i] \notin gone
    BY <1>1, <1>2, <2>1, <2>2
  <2>6. \A i \in Ahead(it) : observers_[i] \notin gone => i \in Ahead(it)' /\ observers_'[i] = observers_[i]
    BY <1>1, <1>3, <2>1, <2>2
  <2>7. Owed(it)' = Owed(it) \ gone
    BY <2>3, <2>4, <2>5, <2>6
  <2> QED
    BY <2>7 DEF it
<1>10. [d \in DOMAIN iters |-> Owed(iters[d])]' = [d \in DOMAIN iters |-> Owed(iters[d]) \ gone]
  BY <1>9
<1>11. Abstract!Leave(gone)
  BY <1>8, <1>10 DEF Abstract!Leave
<1> QED
  BY <1>5, <1>6, <1>7, <1>11 DEF ListInv

\* Between notifications the vector is compact, before and after.
LEMMA QuietLeave ==
  ASSUME ListInv, NEW gone \in SUBSET Observer, exists, notify_depth_ = 0,
         observers_' \in Seq(Observer \cup {NULL}),
         Len(observers_') <= Len(observers_),
         \A i, j \in DOMAIN observers_' : observers_'[i] = observers_'[j] => i = j,
         NULL \notin Range(observers_'),
         Range(observers_') = Range(observers_) \ gone,
         UNCHANGED <<exists, type_, notify_depth_, iters>>
  PROVE  ListInv' /\ Abstract!Leave(gone)
<1>1. Len(iters) = 0 /\ iters = <<>>
  BY SlotsTyped DEF ListInv, ItersKept
<1>2. Len(observers_') \in Nat /\ Len(observers_) \in Nat
  BY SlotsTyped
<1>3. ListTypeOK'
  BY DEF ListInv, ListTypeOK
<1>4. SlotsKept'
  BY <1>2, ListAssumption DEF ListInv, SlotsKept, Range
<1>5. ItersKept'
  BY <1>1 DEF ListInv, ItersKept
<1>6. Members' = Members \ gone
  BY DEF Members
<1>7. [d \in DOMAIN iters |-> Owed(iters[d])]' = [d \in DOMAIN iters |-> Owed(iters[d]) \ gone]
  BY <1>1
<1>8. DOMAIN iters = {}
  BY <1>1
<1>9. Abstract!Leave(gone)
  BY <1>6, <1>7, <1>8 DEF Abstract!Leave
<1> QED
  BY <1>3, <1>4, <1>5, <1>9 DEF ListInv

\* An observer is removed: its slot is emptied, or erased.
LEMMA RemoveLeaves ==
  ASSUME ListInv, NEW o \in Observer, RemoveObserver(o)
  PROVE  ListInv' /\ Abstract!Leave({o})
<1>1. notify_depth_ \in Nat /\ observers_ \in Seq(Observer \cup {NULL})
  BY DEF ListInv, ListTypeOK
<1>2. CASE notify_depth_ > 0
  <2>1. observers_' = [i \in DOMAIN observers_ |->
                         IF observers_[i] \in {o} THEN NULL ELSE observers_[i]]
    BY <1>2 DEF RemoveObserver
  <2> QED
    BY <1>2, <2>1, HolesLeave DEF RemoveObserver
<1>3. CASE notify_depth_ = 0
  <2>1. observers_' = Erased(observers_, o)
    BY <1>3 DEF RemoveObserver
  <2>2. \A i, j \in DOMAIN observers_ : i # j => observers_[i] # observers_[j]
    BY <1>3 DEF ListInv, SlotsKept
  <2>3. \A i \in DOMAIN observers_ : observers_[i] # NULL
    BY <1>3 DEF ListInv, SlotsKept
  <2>4. /\ observers_' \in Seq(Observer \cup {NULL})
        /\ Len(observers_') <= Len(observers_)
        /\ \A k \in DOMAIN observers_' :
             observers_'[k] # o /\ \E i \in DOMAIN observers_ : observers_'[k] = observers_[i]
        /\ \A i \in DOMAIN observers_ : observers_[i] # o =>
             \E k \in DOMAIN observers_' : observers_'[k] = observers_[i]
        /\ \A k, l \in DOMAIN observers_' : k # l =>
             \E i, j \in DOMAIN observers_ :
                i # j /\ observers_'[k] = observers_[i] /\ observers_'[l] = observers_[j]
    BY <1>1, <2>1, ErasedFacts
  <2>5. \A i, j \in DOMAIN observers_' : observers_'[i] = observers_'[j] => i = j
    BY <2>2, <2>4
  <2>6. NULL \notin Range(observers_')
    BY <2>3, <2>4 DEF Range
  <2>7. Range(observers_') = Range(observers_) \ {o}
    BY <2>4 DEF Range
  <2> QED
    BY <1>3, <2>4, <2>5, <2>6, <2>7, QuietLeave DEF RemoveObserver
<1> QED
  BY <1>1, <1>2, <1>3

\* Clear empties every slot, or drops them all: everybody leaves.
LEMMA ClearLeaves ==
  ASSUME ListInv, Clear
  PROVE  ListInv' /\ Abstract!Leave(Observer)
<1>1. notify_depth_ \in Nat
  BY DEF ListInv, ListTypeOK
<1>2. CASE notify_depth_ > 0
  <2>1. \A i \in DOMAIN observers_ : observers_[i] \notin Observer => observers_[i] = NULL
    BY SlotsTyped
  <2>2. observers_' = [i \in DOMAIN observers_ |->
                         IF observers_[i] \in Observer THEN NULL ELSE observers_[i]]
    BY <1>2, <2>1 DEF Clear
  <2> QED
    BY <1>2, <2>2, HolesLeave DEF Clear
<1>3. CASE notify_depth_ = 0
  <2>1. observers_' = <<>>
    BY <1>3 DEF Clear
  <2>2. \A i \in DOMAIN observers_ : observers_[i] \in Observer
    BY <1>3, SlotsTyped DEF ListInv, SlotsKept
  <2>3. Range(observers_') = {} /\ Range(observers_) \ Observer = {}
    BY <2>1, <2>2 DEF Range
  <2>4. observers_' \in Seq(Observer \cup {NULL}) /\ Len(observers_') <= Len(observers_)
    BY <2>1, SlotsTyped
  <2> QED
    BY <1>3, <2>1, <2>3, <2>4, QuietLeave DEF Clear
<1> QED
  BY <1>1, <1>2, <1>3

\* A list that is destroyed owes nobody a call: its iterators find it gone.
LEMMA DestroyEnds ==
  ASSUME ListInv, DestroyList
  PROVE  ListInv' /\ Abstract!Destroy
<1>1. observers_' = <<>> /\ exists' = FALSE /\ notify_depth_' = 0 /\ UNCHANGED <<type_, iters>>
  BY DEF DestroyList
<1>2. ListTypeOK'
  <2>1. ListTypeOK
    BY DEF ListInv
  <2>2. <<>> \in Seq(Observer \cup {NULL}) /\ 0 \in Nat
    OBVIOUS
  <2> QED
    BY <1>1, <2>1, <2>2 DEF ListTypeOK
<1>3. SlotsKept'
  BY <1>1, ListAssumption DEF SlotsKept
<1>4. ItersKept'
  BY <1>1 DEF ItersKept
<1>5. Members' = {}
  BY <1>1 DEF Members, Range
<1>6. \A d \in DOMAIN iters : Owed(iters[d])' = {}
  BY <1>1 DEF Owed, Ahead
<1>7. [d \in DOMAIN iters |-> Owed(iters[d])]' = [d \in DOMAIN iters |-> {}]
  BY <1>1, <1>6
<1>8. Abstract!Destroy
  BY <1>1, <1>5, <1>7 DEF DestroyList, Abstract!Destroy
<1> QED
  BY <1>2, <1>3, <1>4, <1>8 DEF ListInv

\* A new iterator has every member ahead of it.
LEMMA IterateBegins ==
  ASSUME ListInv, Iterate
  PROVE  ListInv' /\ Abstract!Begin
<1> DEFINE m  == Len(iters)
           it == [index    |-> 1,
                  max      |-> IF type_ = "NOTIFY_ALL" THEN MaxSlots ELSE Len(observers_),
                  observer |-> NULL]
<1>1. /\ iters' = Append(iters, it) /\ exists /\ exists' = exists
      /\ notify_depth_' = notify_depth_ + 1
      /\ UNCHANGED <<type_, observers_>>
  BY DEF Iterate
<1>2. it \in [index : Nat, max : Nat, observer : Observer \cup {NULL}]
  BY SlotsTyped, ListAssumption
<1>3. /\ it.index = 1
      /\ it.max = IF type_ = "NOTIFY_ALL" THEN MaxSlots ELSE Len(observers_)
  OBVIOUS
<1> HIDE DEF it
<1>4. /\ m \in Nat /\ DOMAIN iters = 1..m /\ DOMAIN iters' = 1..(m + 1) /\ Len(iters') = m + 1
      /\ \A d \in 1..m : iters'[d] = iters[d]
      /\ iters'[m + 1] = it
  BY <1>1, SlotsTyped
<1>5. Len(observers_) \in Nat /\ DOMAIN observers_ = 1..Len(observers_) /\ Len(observers_) <= MaxSlots
  BY SlotsTyped DEF ListInv, SlotsKept
<1>6. \A d \in 1..(m + 1) : d \in 1..m \/ d = m + 1
  BY <1>4
<1>7. ListTypeOK'
  <2> DEFINE R == [index : Nat, max : Nat, observer : Observer \cup {NULL}]
  <2>1. iters \in Seq(R) /\ it \in R
    BY <1>2 DEF ListInv, ListTypeOK
  <2>2. iters' \in Seq(R)
    <3> HIDE DEF R
    <3> QED
      BY <1>1, <2>1
  <2> QED
    BY <1>1, <2>2 DEF ListInv, ListTypeOK
<1>8. SlotsKept'
  BY <1>1 DEF ListInv, ListTypeOK, SlotsKept
<1>9. ItersKept'
  <2>1. notify_depth_ = m
    BY <1>1 DEF ListInv, ItersKept
  <2>2. type_ \in {"NOTIFY_ALL", "NOTIFY_EXISTING_ONLY"}
    BY DEF ListInv, ListTypeOK
  <2>3. ASSUME NEW d \in DOMAIN iters'
        PROVE  /\ iters'[d].index <= Len(observers_) + 1
               /\ IF type_ = "NOTIFY_EXISTING_ONLY" THEN iters'[d].max <= Len(observers_)
                  ELSE iters'[d].max = MaxSlots
    <3>1. CASE d \in 1..m
      BY <1>1, <1>4, <3>1 DEF ListInv, ItersKept
    <3>2. CASE d = m + 1
      BY <1>3, <1>4, <1>5, <2>2, <3>2
    <3> QED
      BY <1>4, <1>6, <3>1, <3>2
  <2> QED
    BY <1>1, <1>4, <2>1, <2>3 DEF ItersKept
<1>10. Owed(it) = Members
  <2>1. Ahead(it) = {i \in DOMAIN observers_ : observers_[i] # NULL}
    BY <1>3, <1>5, ListAssumption DEF Ahead
  <2> QED
    BY <2>1 DEF Owed, Members, Range
<1>11. Members \in SUBSET (Observer \cup {NULL})
  BY SlotsTyped DEF Members, Range
<1>12. [d \in DOMAIN iters |-> Owed(iters[d])]'
         = Append([d \in DOMAIN iters |-> Owed(iters[d])], Members)
  <2> DEFINE td == [d \in DOMAIN iters |-> Owed(iters[d])]
             tn == [d \in DOMAIN iters' |-> Owed(iters'[d])]
  <2>1. \A r : Owed(r)' = Owed(r)
    BY <1>1 DEF Owed, Ahead
  <2>2. td' = tn
    BY <1>1 DEF Owed, Ahead
  <2>3. td \in Seq(SUBSET (Observer \cup {NULL})) /\ Len(td) = m
    <3>1. \A d \in 1..m : Owed(iters[d]) \in SUBSET (Observer \cup {NULL})
      BY SlotsTyped DEF Owed, Ahead
    <3> QED
      BY <1>4, <3>1
  <2>4. \A d \in 1..m : td[d] = Owed(iters[d])
    BY <1>4
  <2>5. tn = [d \in 1..(m + 1) |-> Owed(iters'[d])]
    BY <1>4
  <2> HIDE DEF td, tn
  <2>6. /\ Append(td, Members) \in Seq(SUBSET (Observer \cup {NULL}))
        /\ Len(Append(td, Members)) = m + 1
        /\ \A d \in 1..m : Append(td, Members)[d] = td[d]
        /\ Append(td, Members)[m + 1] = Members
    BY <1>4, <1>11, <2>3, AppendProperties
  <2>7. /\ tn \in Seq(SUBSET (Observer \cup {NULL})) /\ Len(tn) = m + 1
        /\ \A d \in 1..(m + 1) : tn[d] = Append(td, Members)[d]
    <3>1. \A d \in 1..(m + 1) : Owed(iters'[d]) = Append(td, Members)[d]
      BY <1>4, <1>6, <1>10, <2>4, <2>6
    <3>2. \A d \in 1..(m + 1) : Owed(iters'[d]) \in SUBSET (Observer \cup {NULL})
      BY <1>4, <2>6, <3>1
    <3>3. m + 1 \in Nat
      BY <1>4
    <3>4. tn \in Seq(SUBSET (Observer \cup {NULL})) /\ Len(tn) = m + 1
      BY <2>5, <3>2, <3>3
    <3>5. \A d \in 1..(m + 1) : tn[d] = Append(td, Members)[d]
      BY <2>5, <3>1
    <3> QED
      BY <3>4, <3>5
  <2>8. tn = Append(td, Members)
    BY <2>6, <2>7, SeqEqual
  <2> QED
    BY <2>2, <2>8 DEF td
<1>13. Members' = Members
  BY <1>1 DEF Members
<1>14. Abstract!Begin
  BY <1>1, <1>12, <1>13 DEF Abstract!Begin
<1> QED
  BY <1>7, <1>8, <1>9, <1>14 DEF ListInv

\* The iterators on the stack but the innermost, of which the new one is r.
LEMMA Replaced ==
  ASSUME ListInv, iters # <<>>, NEW r, iters' = [iters EXCEPT ![Len(iters)] = r]
  PROVE  /\ DOMAIN iters' = DOMAIN iters /\ Len(iters') = Len(iters)
         /\ Len(iters) \in DOMAIN iters /\ Last(iters) = iters[Len(iters)]
         /\ \A d \in DOMAIN iters : iters'[d] = IF d = Len(iters) THEN r ELSE iters[d]
<1>1. Len(iters) \in Nat /\ DOMAIN iters = 1..Len(iters) /\ Len(iters) # 0
  BY SlotsTyped, EmptySeq DEF ListInv, ListTypeOK
<1> QED
  BY <1>1 DEF Last

\* The innermost iterator passes the slot of the observer it calls, and the
\* empty ones before it.
LEMMA GetNextNotifies ==
  ASSUME ListInv, GetNext
  PROVE  /\ ListInv'
         /\ \E o \in Observer : Abstract!Notify(o)
<1> DEFINE R    == [index : Nat, max : Nat, observer : Observer \cup {NULL}]
           n    == Len(observers_)
           m    == Len(iters)
           it   == iters[m]
           next == Min(Ahead(it))
           new  == [index |-> next + 1, max |-> it.max, observer |-> observers_[next]]
<1>1. /\ iters # <<>> /\ exists /\ Ahead(it) # {}
      /\ iters' = [iters EXCEPT ![m] = new]
      /\ UNCHANGED <<exists, type_, observers_, notify_depth_>>
  BY DEF GetNext, Last
<1>2. /\ n \in Nat /\ DOMAIN observers_ = 1..n
      /\ m \in Nat /\ m \in DOMAIN iters /\ DOMAIN iters = 1..m
      /\ it \in R /\ it.index \in Nat /\ it.max \in Nat
      /\ \A i \in DOMAIN observers_ : observers_[i] \in Observer \cup {NULL}
      /\ iters \in Seq(R)
  BY <1>1, SlotsTyped, Replaced DEF ListInv, ListTypeOK
<1>3. Ahead(it) = {i \in 1..n : it.index <= i /\ i <= it.max /\ observers_[i] # NULL}
  BY <1>2 DEF Ahead
<1>4. next \in Ahead(it) /\ \A i \in Ahead(it) : next <= i
  <2>1. Ahead(it) \in SUBSET (1..n)
    BY <1>3
  <2>2. \E k \in Ahead(it) : \A i \in Ahead(it) : k <= i
    BY <1>1, <1>2, <2>1, HasMin
  <2> HIDE DEF it
  <2> QED
    BY <2>2 DEF Min
<1>5. next \in 1..n /\ observers_[next] \in Observer /\ it.index <= next /\ next <= it.max
  BY <1>2, <1>3, <1>4
<1> HIDE DEF next
<1>6. /\ new \in R /\ new.index = next + 1 /\ new.max = it.max
  BY <1>2, <1>5
<1> HIDE DEF new, it
<1>7. /\ DOMAIN iters' = DOMAIN iters /\ Len(iters') = m
      /\ \A d \in DOMAIN iters : iters'[d] = IF d = m THEN new ELSE iters[d]
  BY <1>1, Replaced
<1>8. ListTypeOK'
  <2>1. iters' \in Seq(R)
    <3> HIDE DEF R
    <3> QED
      BY <1>1, <1>2, <1>6
  <2> QED
    BY <1>1, <2>1 DEF ListInv, ListTypeOK
<1>9. SlotsKept'
  BY <1>1 DEF ListInv, SlotsKept
<1>10. ItersKept'
  BY <1>1, <1>2, <1>5, <1>6, <1>7 DEF ListInv, ItersKept, it
<1>11. Owed(new) = Owed(it) \ {observers_[next]}
  <2>1. Ahead(new) = {i \in 1..n : next + 1 <= i /\ i <= it.max /\ observers_[i] # NULL}
    BY <1>2, <1>6 DEF Ahead
  <2>2. Ahead(new) = Ahead(it) \ {next}
    BY <1>2, <1>3, <1>4, <1>5, <2>1
  <2>3. \A i \in Ahead(it) : observers_[i] = observers_[next] => i = next
    BY <1>2, <1>3, <1>5 DEF ListInv, SlotsKept
  <2>4. Owed(new) = {observers_[i] : i \in Ahead(new)} /\ Owed(it) = {observers_[i] : i \in Ahead(it)}
    BY DEF Owed
  <2> QED
    BY <2>2, <2>3, <2>4
<1>12. observers_[next] \in Owed(it)
  BY <1>4 DEF Owed
<1> DEFINE td == [d \in DOMAIN iters |-> Owed(iters[d])]
<1>13. td' = [d \in DOMAIN iters' |-> Owed(iters'[d])]
  BY <1>1 DEF Owed, Ahead
<1>14. td' = [td EXCEPT ![m] = @ \ {observers_[next]}]
  BY <1>2, <1>7, <1>11, <1>13 DEF it
<1>15. Len(td) = m /\ td # <<>> /\ td[m] = Owed(it)
  BY <1>2 DEF it
<1> HIDE DEF td
<1>16. Members' = Members
  BY <1>1 DEF Members
<1>17. Abstract!Notify(observers_[next])
  <2>1. Abstract!Last(td) = td[m]
    BY <1>15 DEF Abstract!Last
  <2> QED
    BY <1>1, <1>12, <1>14, <1>15, <1>16, <2>1 DEF Abstract!Notify, td
<1> QED
  BY <1>5, <1>8, <1>9, <1>10, <1>17 DEF ListInv

\* The end of the outermost notification closes the holes, when no iterator can
\* mind that the slots move.
LEMMA IteratorDoneEnds ==
  ASSUME ListInv, IteratorDone
  PROVE  ListInv' /\ Abstract!End
<1> DEFINE R  == [index : Nat, max : Nat, observer : Observer \cup {NULL}]
           m  == Len(iters)
           td == [d \in DOMAIN iters |-> Owed(iters[d])]
<1>1. iters # <<>> /\ iters' = Front(iters) /\ exists' = exists /\ type_' = type_
  BY DEF IteratorDone
<1>2. iters \in Seq(R) /\ observers_ \in Seq(Observer \cup {NULL}) /\ notify_depth_ \in Nat
  BY DEF ListInv, ListTypeOK
<1>3. /\ m \in Nat /\ m # 0 /\ DOMAIN iters = 1..m /\ iters' \in Seq(R)
      /\ Len(iters') = m - 1 /\ DOMAIN iters' = 1..(m - 1)
      /\ \A d \in 1..(m - 1) : iters'[d] = iters[d]
  <2> HIDE DEF R
  <2> QED
    BY <1>1, <1>2, FrontOfAll
<1>4. Owed(iters[m]) = {}
  <2>1. CASE exists
    BY <2>1 DEF IteratorDone, Owed, Last
  <2>2. CASE ~exists
    <3>1. observers_ = <<>>
      BY <2>2 DEF ListInv, ItersKept
    <3> QED
      BY <3>1 DEF Owed, Ahead
  <2> QED
    BY <2>1, <2>2
<1>5. /\ observers_' \in Seq(Observer \cup {NULL}) /\ notify_depth_' \in Nat
      /\ SlotsKept' /\ Members' = Members
      /\ exists => notify_depth_' = m - 1
      /\ ~exists => observers_' = <<>> /\ notify_depth_' = 0
      /\ observers_' = observers_ \/ m - 1 = 0
  <2>1. CASE ~exists
    <3>1. UNCHANGED <<notify_depth_, observers_>>
      BY <2>1 DEF IteratorDone
    <3>2. SlotsKept'
      BY <3>1 DEF ListInv, SlotsKept
    <3>3. Members' = Members
      BY <3>1 DEF Members
    <3> QED
      BY <1>2, <2>1, <3>1, <3>2, <3>3 DEF ListInv, ItersKept
  <2>2. CASE exists
    <3>1. notify_depth_ = m /\ notify_depth_' = m - 1
      BY <2>2 DEF ListInv, ItersKept, IteratorDone
    <3>2. CASE m # 1
      <4>1. observers_' = observers_
        BY <2>2, <3>1, <3>2 DEF IteratorDone
      <4>2. SlotsKept'
        BY <1>3, <3>1, <3>2, <4>1 DEF ListInv, SlotsKept
      <4>3. Members' = Members
        BY <4>1 DEF Members
      <4> QED
        BY <1>2, <1>3, <2>2, <3>1, <4>1, <4>2, <4>3
    <3>3. CASE m = 1
      <4>1. observers_' = Erased(observers_, NULL)
        BY <2>2, <3>1, <3>3 DEF IteratorDone, Compact
      <4>2. /\ observers_' \in Seq(Observer \cup {NULL})
            /\ Len(observers_') <= Len(observers_)
            /\ \A k \in DOMAIN observers_' :
                 observers_'[k] # NULL /\ \E i \in DOMAIN observers_ : observers_'[k] = observers_[i]
            /\ \A i \in DOMAIN observers_ : observers_[i] # NULL =>
                 \E k \in DOMAIN observers_' : observers_'[k] = observers_[i]
            /\ \A k, l \in DOMAIN observers_' : k # l =>
                 \E i, j \in DOMAIN observers_ :
                    i # j /\ observers_'[k] = observers_[i] /\ observers_'[l] = observers_[j]
        BY <1>2, <4>1, ErasedFacts
      <4>3. Len(observers_) \in Nat /\ Len(observers_') \in Nat /\ MaxSlots \in Nat
        BY <1>2, <4>2, ListAssumption
      <4>4. /\ Len(observers_) <= MaxSlots
            /\ \A i, j \in DOMAIN observers_ :
                 observers_[i] = observers_[j] /\ observers_[i] # NULL => i = j
        BY DEF ListInv, SlotsKept
      <4>5. \A k, l \in DOMAIN observers_' : observers_'[k] = observers_'[l] => k = l
        BY <4>2, <4>4
      <4>6. SlotsKept'
        BY <4>2, <4>3, <4>4, <4>5 DEF SlotsKept
      <4>7. Members' = Members
        BY <4>2 DEF Members, Range
      <4> QED
        BY <1>3, <2>2, <3>1, <3>3, <4>2, <4>6, <4>7
    <3> QED
      BY <3>2, <3>3
  <2> QED
    BY <2>1, <2>2
<1>6. ListTypeOK'
  BY <1>1, <1>3, <1>5 DEF ListInv, ListTypeOK
<1>7. ItersKept'
  <2>1. ASSUME exists, NEW d \in DOMAIN iters'
        PROVE  /\ iters'[d].index <= Len(observers_') + 1
               /\ IF type_ = "NOTIFY_EXISTING_ONLY" THEN iters'[d].max <= Len(observers_')
                  ELSE iters'[d].max = MaxSlots
    <3>1. d \in 1..m /\ iters'[d] = iters[d] /\ observers_' = observers_
      BY SMTT(30), <1>3, <1>5, <2>1
    <3> QED
      BY <1>3, <2>1, <3>1 DEF ListInv, ItersKept
  <2> QED
    BY <1>1, <1>3, <1>5, <2>1 DEF ItersKept
<1>8. td \in Seq(SUBSET (Observer \cup {NULL})) /\ Len(td) = m /\ td # <<>> /\ td[m] = {}
  <2>1. \A d \in 1..m : Owed(iters[d]) \in SUBSET (Observer \cup {NULL})
    BY SlotsTyped DEF Owed, Ahead
  <2>2. td = [d \in 1..m |-> Owed(iters[d])]
    BY <1>3
  <2>3. td \in Seq(SUBSET (Observer \cup {NULL})) /\ Len(td) = m
    BY <1>3, <2>1, <2>2
  <2>4. m \in 1..m
    BY <1>3
  <2>5. td[m] = {}
    BY <1>4, <2>2, <2>4
  <2> HIDE DEF td
  <2> QED
    BY <1>3, <2>3, <2>5
<1>9. td' = Abstract!Front(td)
  <2> DEFINE tn == [d \in 1..(m - 1) |-> Owed(iters[d])]
  <2>1. td' = tn
    <3>1. \A d \in 1..(m - 1) : Owed(iters[d])' = Owed(iters[d])
      <4>1. CASE m - 1 = 0
        <5>1. 1..0 = {}
          OBVIOUS
        <5> QED
          BY <4>1, <5>1
      <4>2. CASE observers_' = observers_
        BY <1>3, <4>2 DEF Owed, Ahead
      <4> QED
        BY <1>5, <4>1, <4>2
    <3> QED
      BY <1>3, <3>1
  <2>2. \A d \in 1..(m - 1) : td[d] = Owed(iters[d])
    BY <1>3
  <2> HIDE DEF td
  <2>3. Abstract!Front(td) = SubSeq(td, 1, m - 1)
    BY <1>8 DEF Abstract!Front
  <2>4. SubSeq(td, 1, m - 1) = [d \in 1..(m - 1) |-> td[d]]
    BY <1>3, <1>8
  <2> QED
    BY <2>1, <2>2, <2>3, <2>4
<1>10. Abstract!Last(td) = {}
  BY <1>8 DEF Abstract!Last
<1>11. Abstract!End
  BY <1>1, <1>5, <1>8, <1>9, <1>10 DEF Abstract!End
<1> QED
  BY <1>5, <1>6, <1>7, <1>11 DEF ListInv

\* What the invariant says of the list between notifications, a destroyed one
\* included.
LEMMA ListInvSound ==
  ListInv => ListSound
<1> SUFFICES ASSUME ListInv
             PROVE  ListSound
  OBVIOUS
<1>1. iters = <<>> => notify_depth_ = 0
  BY DEF ListInv, ItersKept
<1> QED
  BY <1>1 DEF ListInv, SlotsKept, ListSound, NoHolesWhenQuiet, Range

\* A step of the list is a step of the set of observers.
LEMMA ListStep ==
  ListInv /\ [ListNext]_listVars => ListInv' /\ [Abstract!SetNext]_(Abstract!setVars)
<1> SUFFICES ASSUME ListInv, [ListNext]_listVars
             PROVE  ListInv' /\ [Abstract!SetNext]_(Abstract!setVars)
  OBVIOUS
<1>1. ASSUME NEW o \in Observer, AddObserver(o)
      PROVE  ListInv' /\ Abstract!SetNext
  BY <1>1, AddJoins DEF Abstract!SetNext
<1>2. ASSUME NEW o \in Observer, RemoveObserver(o)
      PROVE  ListInv' /\ Abstract!SetNext
  <2>1. ListInv' /\ Abstract!Leave({o}) /\ {o} \in SUBSET Observer
    BY <1>2, RemoveLeaves
  <2> QED
    BY <2>1 DEF Abstract!SetNext
<1>3. CASE Clear
  BY <1>3, ClearLeaves DEF Abstract!SetNext
<1>4. CASE DestroyList
  BY <1>4, DestroyEnds DEF Abstract!SetNext
<1>5. CASE Iterate
  BY <1>5, IterateBegins DEF Abstract!SetNext
<1>6. CASE GetNext
  BY <1>6, GetNextNotifies DEF Abstract!SetNext
<1>7. CASE IteratorDone
  BY <1>7, IteratorDoneEnds DEF Abstract!SetNext
<1>8. CASE UNCHANGED listVars
  <2>1. ListInv'
    BY <1>8 DEF ListInv, ListTypeOK, SlotsKept, ItersKept, listVars
  <2>2. UNCHANGED Abstract!setVars
    BY <1>8 DEF Abstract!setVars, Members, Owed, Ahead, listVars
  <2> QED
    BY <2>1, <2>2
<1> QED
  BY <1>1, <1>2, <1>3, <1>4, <1>5, <1>6, <1>7, <1>8 DEF ListNext

\* Whatever observers do to the list in their callbacks, and however deep
\* notifications are nested in each other, everybody whom a notification owes a
\* call gets it once, nobody else does, and no hole outlives the notifications.
THEOREM ListImplementsSet ==
  ListSpec => ImplementsObserverSet
<1>1. ListInit => ListInv /\ Abstract!SetInit
  BY ListInitInv
<1>2. ListInv /\ [ListNext]_listVars => ListInv' /\ [Abstract!SetNext]_(Abstract!setVars)
  BY ListStep
<1>3. ListInv => ListSound
  BY ListInvSound
<1> QED
  BY <1>1, <1>2, <1>3, PTL
     DEF ListSpec, ImplementsObserverSet, Abstract!SetSafety

-----------------------------------------------------------------------------
(* The list that several threads share.                                      *)

\* Where a thread keeps the observers it has added: the context in the map, and
\* the one of a removal under way.
Keeps(t, c) == c = observer_lists_[t] \/ \E r \in removing[t] : r.context = c

Holds(t, c) == Keeps(t, c) \/ Iterating(t, c)

Slot == SharedObserver \cup {Hole}

Removal == [context : ContextAddress, observer : SharedObserver]

SharedTypeOK ==
  /\ observer_lists_ \in [ListThread -> ContextAddress \cup {NoContext}]
  /\ Live \subseteq ContextAddress
  /\ \A c \in Live : context[c] \in Seq(Slot)
  /\ wrappers \in [ListThread -> Seq(ContextAddress)]
  /\ notifying \in [ListThread -> Seq([context : ContextAddress, index : Nat])]
  /\ removing \in [ListThread -> SUBSET Removal]
  /\ registered \in [ListThread -> SUBSET SharedObserver]

\* A context exists as long as a thread, and no other, has it.
OneOwner ==
  /\ \A c \in ContextAddress : c \in Live <=> \E t \in ListThread : Holds(t, c)
  /\ \A c \in ContextAddress : \A t, u \in ListThread : Holds(t, c) /\ Holds(u, c) => t = u

\* A list is not empty, and has holes only while it is iterated over.
ListsKept ==
  \A c \in Live :
    /\ context[c] # <<>> /\ Len(context[c]) <= MaxList
    /\ \A i \in DOMAIN context[c] : context[c][i] = Hole =>
         \E t \in ListThread : Iterating(t, c)

\* A removal will leave something on the list, or has taken the context out of
\* the map with its only observer.
RemovalsKept ==
  \A t \in ListThread : \A r \in removing[t] :
    /\ \A s \in removing[t] : s = r
    /\ IF r.context = observer_lists_[t]
       THEN \E i \in DOMAIN context[r.context] : context[r.context][i] # r.observer
       ELSE /\ observer_lists_[t] = NoContext
            /\ \A i \in DOMAIN context[r.context] : context[r.context][i] = r.observer

\* A context that is only iterated over has nothing but holes.
OrphansEmpty ==
  \A t \in ListThread : \A c \in ContextAddress : Iterating(t, c) /\ ~Keeps(t, c) =>
    \A i \in DOMAIN context[c] : context[c][i] = Hole

\* An observer has one place, in a context of the thread that added it.
AddedOnce ==
  \A t, u \in ListThread : \A o \in registered[t] : o \in registered[u] => t = u

OnlyAdded ==
  \A t \in ListThread : \A c \in Live : Holds(t, c) =>
    \A i \in DOMAIN context[c] : context[c][i] # Hole => context[c][i] \in registered[t]

NoneLost ==
  \A t \in ListThread : \A o \in registered[t] :
    \E c \in Live : Keeps(t, c) /\ \E i \in DOMAIN context[c] : context[c][i] = o

OnePlace ==
  \A c, d \in Live : \A i \in DOMAIN context[c] : \A j \in DOMAIN context[d] :
    context[c][i] = context[d][j] /\ context[c][i] # Hole => c = d /\ i = j

PlacesKept == AddedOnce /\ OnlyAdded /\ NoneLost /\ OnePlace

SharedInv ==
  /\ SharedTypeOK /\ OneOwner /\ ListsKept
  /\ RemovalsKept /\ OrphansEmpty /\ PlacesKept

\* At first there is no context, and nothing to keep.
LEMMA SharedInitInv ==
  SharedInit => SharedInv
<1> SUFFICES ASSUME SharedInit
             PROVE  SharedInv
  OBVIOUS
<1>1. Live = {} /\ \A t \in ListThread : observer_lists_[t] = NoContext /\ removing[t] = {}
                     /\ notifying[t] = <<>> /\ registered[t] = {}
  BY DEF SharedInit, Live
<1>2. SharedTypeOK
  <2>1. wrappers \in [ListThread -> Seq(ContextAddress)]
    BY DEF SharedInit
  <2>2. notifying \in [ListThread -> Seq([context : ContextAddress, index : Nat])]
    BY DEF SharedInit
  <2> QED
    BY <1>1, <2>1, <2>2 DEF SharedInit, SharedTypeOK
<1>3. \A t \in ListThread : \A c \in ContextAddress : ~Holds(t, c) /\ ~Iterating(t, c)
  BY <1>1, SharedListAssumption DEF Holds, Keeps, Iterating
<1> QED
  BY <1>1, <1>2, <1>3
     DEF SharedInv, OneOwner, ListsKept, RemovalsKept, OrphansEmpty, PlacesKept,
         AddedOnce, OnlyAdded, NoneLost, OnePlace

\* A step that touches neither contexts nor removals, and ends no iteration.
LEMMA Undisturbed ==
  ASSUME SharedInv,
         UNCHANGED <<observer_lists_, context, removing, registered>>,
         wrappers' \in [ListThread -> Seq(ContextAddress)],
         notifying' \in [ListThread -> Seq([context : ContextAddress, index : Nat])],
         \A t \in ListThread, c \in ContextAddress :
           /\ Iterating(t, c) => Iterating(t, c)'
           /\ Iterating(t, c)' => Holds(t, c)
  PROVE  SharedInv'
<1>1. \A t, c : Keeps(t, c)' = Keeps(t, c)
  BY DEF Keeps
<1>2. \A t \in ListThread, c \in ContextAddress : Holds(t, c)' <=> Holds(t, c)
  BY <1>1 DEF Holds
<1>3. Live' = Live
  BY DEF Live
<1>4. SharedTypeOK'
  BY <1>3 DEF SharedInv, SharedTypeOK
<1>5. Live \subseteq ContextAddress
  BY DEF SharedInv, SharedTypeOK
<1>6. OneOwner'
  BY <1>2, <1>3 DEF SharedInv, OneOwner
<1>7. ListsKept'
  BY <1>3, <1>5 DEF SharedInv, ListsKept
<1>8. RemovalsKept'
  BY DEF SharedInv, RemovalsKept
<1>9. OrphansEmpty'
  BY <1>1 DEF SharedInv, OrphansEmpty, Holds
<1>10. PlacesKept'
  <2>1. AddedOnce' /\ OnePlace'
    BY <1>3 DEF SharedInv, PlacesKept, AddedOnce, OnePlace
  <2>2. OnlyAdded'
    BY <1>2, <1>3, <1>5 DEF SharedInv, PlacesKept, OnlyAdded
  <2>3. NoneLost'
    BY <1>1, <1>3 DEF SharedInv, PlacesKept, NoneLost
  <2> QED
    BY <2>1, <2>2, <2>3 DEF PlacesKept
<1> QED
  BY <1>4, <1>6, <1>7, <1>8, <1>9, <1>10 DEF SharedInv

\* A notification only queues its wrappers, one for each loop in the map.
LEMMA NotifyShared ==
  ASSUME SharedInv, Notify
  PROVE  SharedInv'
<1>1. UNCHANGED <<observer_lists_, context, notifying, removing, registered>>
  BY DEF Notify
<1>2. \A t, c : Iterating(t, c)' = Iterating(t, c)
  BY <1>1 DEF Iterating
<1>3. wrappers' \in [ListThread -> Seq(ContextAddress)]
  <2>1. \A t \in ListThread : wrappers[t] \in Seq(ContextAddress)
    BY DEF SharedInv, SharedTypeOK
  <2>2. \A t \in ListThread : observer_lists_[t] # NoContext =>
          observer_lists_[t] \in ContextAddress
    BY DEF SharedInv, SharedTypeOK
  <2>3. \A t \in ListThread : observer_lists_[t] # NoContext =>
          Append(wrappers[t], observer_lists_[t]) \in Seq(ContextAddress)
    BY <2>1, <2>2
  <2>4. wrappers' = [t \in ListThread |->
          IF observer_lists_[t] = NoContext THEN wrappers[t]
          ELSE Append(wrappers[t], observer_lists_[t])]
    BY DEF Notify
  <2> QED
    BY <2>1, <2>3, <2>4
<1>4. notifying' \in [ListThread -> Seq([context : ContextAddress, index : Nat])]
  BY <1>1 DEF SharedInv, SharedTypeOK
<1>5. \A t, c : Iterating(t, c) => Holds(t, c)
  BY DEF Holds
<1> QED
  BY <1>1, <1>2, <1>3, <1>4, <1>5, Undisturbed

\* A wrapper that begins has found its context in its own loop's place of the map,
\* so that its iteration has no other owner.
LEMMA BeginShared ==
  ASSUME SharedInv, NEW t \in ListThread, BeginWrapper(t)
  PROVE  SharedInv'
<1> DEFINE C == [context : ContextAddress, index : Nat]
<1>1. /\ UNCHANGED <<observer_lists_, context, removing, registered>>
      /\ wrappers[t] # <<>> /\ wrappers' = [wrappers EXCEPT ![t] = Tail(@)]
  BY DEF BeginWrapper
<1>2. wrappers \in [ListThread -> Seq(ContextAddress)] /\ notifying \in [ListThread -> Seq(C)]
  BY DEF SharedInv, SharedTypeOK
<1>3. Tail(wrappers[t]) \in Seq(ContextAddress) /\ Head(wrappers[t]) \in ContextAddress
  BY <1>1, <1>2
<1>4. wrappers' \in [ListThread -> Seq(ContextAddress)]
  BY <1>1, <1>2, <1>3
<1>5. \A u, c : Iterating(u, c) => Holds(u, c)
  BY DEF Holds
<1>6. CASE observer_lists_[t] # Head(wrappers[t])
  <2>1. notifying' = notifying
    BY <1>6 DEF BeginWrapper
  <2>2. \A u, c : Iterating(u, c)' = Iterating(u, c)
    BY <2>1 DEF Iterating
  <2> QED
    BY <1>1, <1>2, <1>4, <1>5, <2>1, <2>2, Undisturbed
<1>7. CASE observer_lists_[t] = Head(wrappers[t])
  <2> DEFINE h == Head(wrappers[t])
             f == [context |-> h, index |-> 0]
             n == Len(notifying[t])
  <2>1. notifying' = [notifying EXCEPT ![t] = Append(@, f)]
    BY <1>7 DEF BeginWrapper
  <2>2. f \in C /\ f.context = h
    BY <1>3
  <2> HIDE DEF f, C
  <2>3. /\ notifying' \in [ListThread -> Seq(C)]
        /\ n \in Nat /\ DOMAIN notifying[t] = 1..n
        /\ DOMAIN notifying'[t] = 1..(n + 1) /\ notifying'[t][n + 1] = f
        /\ \A i \in 1..n : notifying'[t][i] = notifying[t][i]
        /\ \A u \in ListThread : u # t => notifying'[u] = notifying[u]
    BY <1>2, <2>1, <2>2
  <2>4. ASSUME NEW u \in ListThread, NEW c \in ContextAddress
        PROVE  /\ Iterating(u, c) => Iterating(u, c)'
               /\ Iterating(u, c)' => Holds(u, c)
    <3>1. CASE u # t
      BY <2>3, <3>1, <1>5 DEF Iterating
    <3>2. CASE u = t
      <4>1. Iterating(t, c) => Iterating(t, c)'
        BY <2>3 DEF Iterating
      <4>2. Iterating(t, c)' => Iterating(t, c) \/ c = h
        BY <2>2, <2>3 DEF Iterating
      <4>3. c = h => Holds(t, c)
        BY <1>7 DEF Holds, Keeps
      <4> QED
        BY <1>5, <3>2, <4>1, <4>2, <4>3
    <3> QED
      BY <3>1, <3>2
  <2> QED
    BY <1>1, <1>4, <2>3, <2>4, Undisturbed DEF C
<1> QED
  BY <1>6, <1>7

\* The next call moves the iterator and nothing else.
LEMMA NextShared ==
  ASSUME SharedInv, NEW t \in ListThread, NotifyNext(t)
  PROVE  SharedInv'
<1> DEFINE C == [context : ContextAddress, index : Nat]
           n == Len(notifying[t])
           next == CHOOSE i \in AheadOf(t) : \A j \in AheadOf(t) : i <= j
<1>1. /\ UNCHANGED <<observer_lists_, context, wrappers, removing, registered>>
      /\ notifying[t] # <<>> /\ AheadOf(t) # {}
      /\ notifying' = [notifying EXCEPT ![t][n].index = next]
  BY DEF NotifyNext
<1>2. wrappers \in [ListThread -> Seq(ContextAddress)] /\ notifying \in [ListThread -> Seq(C)]
  BY DEF SharedInv, SharedTypeOK
<1>3. n \in Nat /\ DOMAIN notifying[t] = 1..n /\ n \in 1..n
  <2> HIDE DEF C
  <2> QED
    BY <1>1, <1>2
<1>4. notifying[t][n] \in C
  <2> HIDE DEF C
  <2> QED
    BY <1>2, <1>3
<1>5. next \in Nat
  <2> DEFINE c == Innermost(t).context
  <2>1. Innermost(t) = notifying[t][n]
    BY DEF Innermost, Last
  <2>2. c \in ContextAddress /\ Iterating(t, c)
    BY <1>3, <1>4, <2>1 DEF Iterating
  <2>3. c \in Live
    BY <2>2 DEF SharedInv, OneOwner, Holds
  <2>4. context[c] \in Seq(Slot)
    BY <2>3 DEF SharedInv, SharedTypeOK
  <2> HIDE DEF c
  <2>5. Len(context[c]) \in Nat /\ DOMAIN context[c] = 1..Len(context[c])
    BY <2>4
  <2>6. AheadOf(t) \in SUBSET (1..Len(context[c]))
    BY <2>5 DEF AheadOf, c
  <2>7. \E i \in AheadOf(t) : \A j \in AheadOf(t) : i <= j
    BY <1>1, <2>5, <2>6, HasMin
  <2> QED
    BY <2>6, <2>7
<1> HIDE DEF next
<1>6. /\ notifying' \in [ListThread -> Seq(C)]
      /\ \A u \in ListThread : DOMAIN notifying'[u] = DOMAIN notifying[u]
      /\ \A u \in ListThread : \A i \in DOMAIN notifying[u] :
           notifying'[u][i].context = notifying[u][i].context
  <2> DEFINE r == [notifying[t][n] EXCEPT !.index = next]
  <2>1. notifying' = [notifying EXCEPT ![t] = [@ EXCEPT ![n] = r]]
    BY <1>1
  <2>2. r \in C /\ r.context = notifying[t][n].context
    BY <1>4, <1>5
  <2> HIDE DEF r, C
  <2>3. [notifying[t] EXCEPT ![n] = r] \in Seq(C)
    BY <1>2, <1>3, <2>2
  <2> QED
    BY <1>2, <1>3, <2>1, <2>2, <2>3
<1>7. \A u \in ListThread : \A c : Iterating(u, c)' = Iterating(u, c)
  BY <1>6 DEF Iterating
<1>8. \A u, c : Iterating(u, c) => Holds(u, c)
  BY DEF Holds
<1> QED
  BY <1>1, <1>2, <1>6, <1>7, <1>8, Undisturbed

\* What the invariant says of a context that is in the map.
LEMMA InMap ==
  ASSUME SharedInv, NEW t \in ListThread, observer_lists_[t] # NoContext
  PROVE  /\ observer_lists_[t] \in ContextAddress /\ observer_lists_[t] \in Live
         /\ Keeps(t, observer_lists_[t]) /\ Holds(t, observer_lists_[t])
         /\ \A u \in ListThread : u # t => ~Holds(u, observer_lists_[t])
<1>1. observer_lists_[t] \in ContextAddress
  BY DEF SharedInv, SharedTypeOK
<1>2. Keeps(t, observer_lists_[t]) /\ Holds(t, observer_lists_[t])
  BY DEF Keeps, Holds
<1> QED
  BY <1>1, <1>2 DEF SharedInv, OneOwner

\* And of the list of one that exists.
LEMMA ListTyped ==
  ASSUME SharedInv, NEW c \in Live
  PROVE  /\ c \in ContextAddress /\ context[c] \in Seq(Slot)
         /\ Len(context[c]) \in Nat \ {0} /\ Len(context[c]) <= MaxList
         /\ DOMAIN context[c] = 1..Len(context[c])
         /\ \A i \in DOMAIN context[c] : context[c][i] \in Slot
<1>1. c \in ContextAddress /\ context[c] \in Seq(Slot)
  BY DEF SharedInv, SharedTypeOK
<1>2. context[c] # <<>> /\ Len(context[c]) <= MaxList
  BY DEF SharedInv, ListsKept
<1> QED
  BY <1>1, <1>2

\* A new observer comes last, on the list of the context in the map or as the
\* first of a new one.
LEMMA AddKeeps ==
  ASSUME SharedInv, NEW t \in ListThread, NEW o \in SharedObserver,
         NEW c \in ContextAddress, NEW n \in Nat, n < MaxList,
         \A u \in ListThread : o \notin registered[u],
         removing[t] = {},
         IF c \in Live THEN c = observer_lists_[t] /\ n = Len(context[c])
                       ELSE observer_lists_[t] = NoContext /\ n = 0,
         observer_lists_' = [observer_lists_ EXCEPT ![t] = c],
         Live' = Live \cup {c},
         \A d \in Live \ {c} : context'[d] = context[d],
         context'[c] \in Seq(Slot), Len(context'[c]) = n + 1,
         context'[c][n + 1] = o,
         \A i \in 1..n : context'[c][i] = context[c][i],
         registered' = [registered EXCEPT ![t] = @ \cup {o}],
         UNCHANGED <<wrappers, notifying, removing>>
  PROVE  SharedInv'
<1>1. /\ observer_lists_'[t] = c
      /\ \A u \in ListThread : u # t => observer_lists_'[u] = observer_lists_[u]
      /\ registered'[t] = registered[t] \cup {o}
      /\ \A u \in ListThread : u # t => registered'[u] = registered[u]
      /\ Live \subseteq ContextAddress
      /\ MaxList \in Nat
      /\ DOMAIN context'[c] = 1..(n + 1)
      /\ o # Hole
  BY SharedListAssumption DEF SharedInv, SharedTypeOK
<1>2. /\ \A u, d : Iterating(u, d)' = Iterating(u, d)
      /\ \A u \in ListThread : \A d : u # t => Keeps(u, d)' = Keeps(u, d)
      /\ \A d : Keeps(t, d)' <=> d = c
      /\ \A d \in ContextAddress : Keeps(t, d) => d = c
      /\ c \in Live => Keeps(t, c)
  BY <1>1, SharedListAssumption DEF Iterating, Keeps
<1>3. /\ \A u \in ListThread : \A d : u # t => Holds(u, d)' = Holds(u, d)
      /\ Holds(t, c)'
      /\ \A d \in ContextAddress : d # c => Holds(t, d)' = Holds(t, d)
      /\ c \in Live => Holds(t, c)
      /\ \A u, d : Keeps(u, d) => Holds(u, d)
      /\ \A u, d : Iterating(u, d) => Holds(u, d)
  BY <1>2 DEF Holds
<1>4. \A u \in ListThread : u # t => ~Holds(u, c) /\ ~Holds(u, c)'
  BY <1>3 DEF SharedInv, OneOwner
<1>5. c \notin Live => ~Holds(t, c)
  BY DEF SharedInv, OneOwner
<1>6. SharedTypeOK'
  <2>1. \A d \in Live' : context'[d] \in Seq(Slot)
    BY DEF SharedInv, SharedTypeOK
  <2> QED
    BY <1>1, <2>1 DEF SharedInv, SharedTypeOK
<1>7. OneOwner'
  <2>1. ASSUME NEW d \in ContextAddress
        PROVE  d \in Live' <=> \E u \in ListThread : Holds(u, d)'
    <3>1. CASE d = c
      BY <1>3, <3>1
    <3>2. CASE d # c
      BY <1>3, <3>2 DEF SharedInv, OneOwner
    <3> QED
      BY <3>1, <3>2
  <2>2. ASSUME NEW d \in ContextAddress, NEW u \in ListThread, NEW v \in ListThread,
               Holds(u, d)', Holds(v, d)'
        PROVE  u = v
    <3>1. CASE d = c
      BY <1>4, <2>2, <3>1
    <3>2. CASE d # c
      BY <1>3, <2>2, <3>2 DEF SharedInv, OneOwner
    <3> QED
      BY <3>1, <3>2
  <2> QED
    BY <2>1, <2>2 DEF OneOwner
<1>8. ListsKept'
  <2>1. ASSUME NEW d \in Live'
        PROVE  /\ context'[d] # <<>> /\ Len(context'[d]) <= MaxList
               /\ \A i \in DOMAIN context'[d] : context'[d][i] = Hole =>
                    \E u \in ListThread : Iterating(u, d)'
    <3>1. CASE d # c
      BY <1>2, <3>1 DEF SharedInv, ListsKept
    <3>2. CASE d = c
      <4>1. context'[c] # <<>> /\ Len(context'[c]) <= MaxList
        BY <1>1
      <4>2. ASSUME NEW i \in 1..(n + 1), context'[c][i] = Hole
            PROVE  \E u \in ListThread : Iterating(u, c)'
        <5>1. i \in 1..n /\ c \in Live
          BY <1>1, <4>2
        <5>2. i \in DOMAIN context[c] /\ context[c][i] = Hole
          BY <4>2, <5>1, ListTyped
        <5> QED
          BY <1>2, <5>1, <5>2 DEF SharedInv, ListsKept
      <4> QED
        BY <1>1, <3>2, <4>1, <4>2
    <3> QED
      BY <3>1, <3>2
  <2> QED
    BY <2>1 DEF ListsKept
<1>9. RemovalsKept'
  <2>1. ASSUME NEW u \in ListThread, NEW r \in removing[u]
        PROVE  /\ u # t /\ r.context # c /\ r.context \in Live /\ context'[r.context] = context[r.context]
    <3>1. u # t /\ Keeps(u, r.context)
      BY <2>1 DEF Keeps
    <3>2. r.context \in ContextAddress
      BY DEF SharedInv, SharedTypeOK, Removal
    <3>3. r.context \in Live /\ r.context # c
      BY <1>3, <1>4, <3>1, <3>2 DEF SharedInv, OneOwner
    <3> QED
      BY <3>1, <3>3
  <2>2. ASSUME NEW u \in ListThread, NEW r \in removing'[u]
        PROVE  /\ \A s \in removing'[u] : s = r
               /\ IF r.context = observer_lists_'[u]
                  THEN \E i \in DOMAIN context'[r.context] : context'[r.context][i] # r.observer
                  ELSE /\ observer_lists_'[u] = NoContext
                       /\ \A i \in DOMAIN context'[r.context] : context'[r.context][i] = r.observer
    <3>1. r \in removing[u]
      OBVIOUS
    <3>2. observer_lists_'[u] = observer_lists_[u] /\ context'[r.context] = context[r.context]
      BY <1>1, <2>1, <3>1
    <3> QED
      BY <3>1, <3>2 DEF SharedInv, RemovalsKept
  <2> QED
    BY <2>2 DEF RemovalsKept
<1>10. OrphansEmpty'
  <2>1. ASSUME NEW u \in ListThread, NEW d \in ContextAddress, Iterating(u, d)', ~Keeps(u, d)'
        PROVE  /\ Iterating(u, d) /\ ~Keeps(u, d) /\ context'[d] = context[d]
    <3>1. d # c
      BY <1>2, <1>3, <1>4, <2>1
    <3>2. Iterating(u, d) /\ ~Keeps(u, d)
      BY <1>2, <2>1, <3>1
    <3>3. d \in Live
      BY <1>3, <3>2 DEF SharedInv, OneOwner
    <3> QED
      BY <3>1, <3>2, <3>3
  <2> QED
    BY <2>1 DEF SharedInv, OrphansEmpty
<1>11. PlacesKept'
  <2>1. \A u, v \in ListThread : \A p \in registered'[u] : p \in registered'[v] => u = v
    BY <1>1 DEF SharedInv, PlacesKept, AddedOnce
  <2>2. ASSUME NEW u \in ListThread, NEW d \in Live', Holds(u, d)',
               NEW i \in DOMAIN context'[d], context'[d][i] # Hole
        PROVE  context'[d][i] \in registered'[u]
    <3>1. CASE d # c
      <4>1. d \in Live /\ Holds(u, d) /\ context'[d] = context[d]
        BY <1>1, <1>3, <2>2, <3>1
      <4>2. context[d][i] \in registered[u]
        BY <2>2, <4>1 DEF SharedInv, PlacesKept, OnlyAdded
      <4> QED
        BY <1>1, <4>1, <4>2
    <3>2. CASE d = c /\ i = n + 1
      BY <1>1, <1>4, <2>2, <3>2
    <3>3. CASE d = c /\ i # n + 1
      <4>1. u = t /\ i \in 1..n /\ c \in Live
        BY <1>1, <1>4, <2>2, <3>3
      <4>2. i \in DOMAIN context[c] /\ Holds(t, c) /\ context'[c][i] = context[c][i]
        BY <1>3, <4>1, ListTyped
      <4>3. context[c][i] \in registered[t]
        BY <2>2, <3>3, <4>1, <4>2 DEF SharedInv, PlacesKept, OnlyAdded
      <4> QED
        BY <1>1, <3>3, <4>1, <4>2, <4>3
    <3> QED
      BY <3>1, <3>2, <3>3
  <2>3. ASSUME NEW u \in ListThread, NEW p \in registered'[u]
        PROVE  \E d \in Live' : Keeps(u, d)' /\ \E i \in DOMAIN context'[d] : context'[d][i] = p
    <3>1. CASE p = o
      <4>1. u = t
        BY <1>1, <2>3, <3>1
      <4>2. n + 1 \in DOMAIN context'[c] /\ context'[c][n + 1] = p
        BY <1>1, <3>1
      <4> QED
        BY <1>2, <4>1, <4>2
    <3>2. CASE p # o
      <4>1. p \in registered[u]
        BY <1>1, <2>3, <3>2
      <4>2. PICK d \in Live : Keeps(u, d) /\ \E i \in DOMAIN context[d] : context[d][i] = p
        BY <4>1 DEF SharedInv, PlacesKept, NoneLost
      <4>3. Keeps(u, d)'
        BY <1>1, <1>2, <4>2
      <4>4. \E i \in DOMAIN context'[d] : context'[d][i] = p
        <5>1. CASE d # c
          BY <4>2, <5>1
        <5>2. CASE d = c
          <6>1. PICK i \in DOMAIN context[c] : context[c][i] = p
            BY <4>2, <5>2
          <6>2. i \in 1..n
            BY <5>2, <6>1, ListTyped
          <6>3. i \in DOMAIN context'[c] /\ context'[c][i] = p
            BY <1>1, <6>1, <6>2
          <6> QED
            BY <5>2, <6>3
        <5> QED
          BY <5>1, <5>2
      <4> QED
        BY <4>3, <4>4
    <3> QED
      BY <3>1, <3>2
  <2>4. ASSUME NEW d \in Live, NEW i \in DOMAIN context[d]
        PROVE  context[d][i] # o
    <3>1. PICK u \in ListThread : Holds(u, d)
      BY <1>1 DEF SharedInv, OneOwner
    <3> QED
      BY <1>1, <3>1 DEF SharedInv, PlacesKept, OnlyAdded
  <2>5. ASSUME NEW d \in Live', NEW i \in DOMAIN context'[d]
        PROVE  \/ d = c /\ i = n + 1
               \/ d \in Live /\ i \in DOMAIN context[d] /\ context'[d][i] = context[d][i]
    <3>1. CASE d # c
      BY <3>1
    <3>2. CASE d = c /\ i # n + 1
      <4>1. i \in 1..n /\ c \in Live
        BY <1>1, <2>5, <3>2
      <4> QED
        BY <3>2, <4>1, ListTyped
    <3> QED
      BY <3>1, <3>2
  <2>6. ASSUME NEW d \in Live', NEW e \in Live',
               NEW i \in DOMAIN context'[d], NEW j \in DOMAIN context'[e],
               context'[d][i] = context'[e][j], context'[d][i] # Hole
        PROVE  d = e /\ i = j
    <3>1. CASE context'[d][i] = o
      <4>1. d = c /\ i = n + 1
        BY <2>4, <2>5, <3>1
      <4>2. e = c /\ j = n + 1
        <5>1. context'[e][j] = o
          BY <2>6, <3>1
        <5> QED
          BY <2>4, <2>5, <5>1
      <4> QED
        BY <4>1, <4>2
    <3>2. CASE context'[d][i] # o
      <4>1. /\ d \in Live /\ i \in DOMAIN context[d] /\ context'[d][i] = context[d][i]
            /\ e \in Live /\ j \in DOMAIN context[e] /\ context'[e][j] = context[e][j]
        <5>1. ~(d = c /\ i = n + 1) /\ ~(e = c /\ j = n + 1)
          BY <2>6, <3>2
        <5> QED
          BY <2>5, <5>1
      <4>2. context[d][i] = context[e][j] /\ context[d][i] # Hole
        BY <2>6, <4>1
      <4> QED
        BY <4>1, <4>2 DEF SharedInv, PlacesKept, OnePlace
    <3> QED
      BY <3>1, <3>2
  <2>7. AddedOnce' /\ OnlyAdded'
    BY <2>1, <2>2 DEF AddedOnce, OnlyAdded
  <2>8. NoneLost' /\ OnePlace'
    BY <2>3, <2>6 DEF NoneLost, OnePlace
  <2> QED
    BY <2>7, <2>8 DEF PlacesKept
<1> QED
  BY <1>6, <1>7, <1>8, <1>9, <1>10, <1>11 DEF SharedInv

\* An observer joins the context of its loop, or a new one that takes an address
\* at which no context lives.
LEMMA AddShared ==
  ASSUME SharedInv, NEW t \in ListThread, NEW o \in SharedObserver, AddSharedObserver(t, o)
  PROVE  SharedInv'
<1>1. /\ removing[t] = {} /\ \A u \in ListThread : o \notin registered[u]
      /\ registered' = [registered EXCEPT ![t] = @ \cup {o}]
      /\ UNCHANGED <<wrappers, notifying, removing>>
  BY DEF AddSharedObserver
<1>2. o \in Slot /\ MaxList \in Nat /\ 0 < MaxList
  BY SharedListAssumption DEF Slot
<1>3. ASSUME observer_lists_[t] # NoContext,
             Len(context[observer_lists_[t]]) < MaxList,
             context' = WithList(observer_lists_[t], Append(context[observer_lists_[t]], o)),
             UNCHANGED observer_lists_
      PROVE  SharedInv'
  <2> DEFINE c == observer_lists_[t]
             n == Len(context[c])
  <2>1. c \in Live /\ c \in ContextAddress
    BY <1>3, InMap
  <2>2. observer_lists_' = [observer_lists_ EXCEPT ![t] = c]
    BY <1>3 DEF SharedInv, SharedTypeOK
  <2> HIDE DEF c
  <2>3. context[c] \in Seq(Slot) /\ n \in Nat
    BY <2>1, ListTyped
  <2>4. /\ Append(context[c], o) \in Seq(Slot) /\ Len(Append(context[c], o)) = n + 1
        /\ Append(context[c], o)[n + 1] = o
        /\ \A i \in 1..n : Append(context[c], o)[i] = context[c][i]
    BY <1>2, <2>3
  <2>5. /\ Live' = Live \cup {c} /\ context'[c] = Append(context[c], o)
        /\ \A d \in Live \ {c} : context'[d] = context[d]
    <3>1. context' = WithList(c, Append(context[c], o)) /\ Live' = DOMAIN context'
      BY <1>3 DEF Live, c
    <3> QED
      BY <3>1 DEF WithList
  <2>6. n < MaxList /\ c = observer_lists_[t]
    BY <1>3 DEF c
  <2>7. IF c \in Live THEN c = observer_lists_[t] /\ n = Len(context[c])
                     ELSE observer_lists_[t] = NoContext /\ n = 0
    BY <2>1, <2>6
  <2> HIDE DEF n
  <2>8. /\ context'[c] \in Seq(Slot) /\ Len(context'[c]) = n + 1 /\ context'[c][n + 1] = o
        /\ \A i \in 1..n : context'[c][i] = context[c][i]
    BY <2>4, <2>5
  <2> QED
    BY <1>1, <2>1, <2>2, <2>3, <2>5, <2>6, <2>7, <2>8, AddKeeps
<1>4. ASSUME observer_lists_[t] = NoContext,
             NEW c \in ContextAddress \ Live,
             observer_lists_' = [observer_lists_ EXCEPT ![t] = c],
             context' = WithList(c, <<o>>)
      PROVE  SharedInv'
  <2>1. /\ Live' = Live \cup {c} /\ context'[c] = <<o>>
        /\ \A d \in Live \ {c} : context'[d] = context[d]
    <3>1. context' = WithList(c, <<o>>) /\ Live' = DOMAIN context'
      BY <1>4 DEF Live
    <3> QED
      BY <3>1 DEF WithList
  <2> DEFINE n == 0
  <2>2. /\ n \in Nat /\ n < MaxList
        /\ IF c \in Live THEN c = observer_lists_[t] /\ n = Len(context[c])
                         ELSE observer_lists_[t] = NoContext /\ n = 0
    BY <1>2, <1>4
  <2>3. <<o>> \in Seq(Slot) /\ Len(<<o>>) = n + 1 /\ <<o>>[n + 1] = o
    BY <1>2
  <2>4. /\ context'[c] \in Seq(Slot) /\ Len(context'[c]) = n + 1 /\ context'[c][n + 1] = o
        /\ \A i \in 1..n : context'[c][i] = context[c][i]
    BY <2>1, <2>3
  <2>5. c \in ContextAddress /\ observer_lists_' = [observer_lists_ EXCEPT ![t] = c]
    BY <1>4
  <2> HIDE DEF n
  <2> QED
    BY <1>1, <2>1, <2>2, <2>4, <2>5, AddKeeps
<1> QED
  BY <1>3, <1>4 DEF AddSharedObserver

\* RemoveObserver under the lock: the thread keeps its contexts, and the one
\* that it will delete has left the map.
LEMMA RemoveShared ==
  ASSUME SharedInv, NEW t \in ListThread, NEW o \in SharedObserver,
         RemoveSharedObserver(t, o)
  PROVE  SharedInv'
<1> DEFINE c == observer_lists_[t]
           r == [context |-> c, observer |-> o]
           out == o \in Range(context[c]) /\ Len(context[c]) = 1
<1>1. /\ removing[t] = {} /\ c # NoContext
      /\ observer_lists_' = IF out THEN [observer_lists_ EXCEPT ![t] = NoContext]
                            ELSE observer_lists_
      /\ removing' = [removing EXCEPT ![t] = {r}]
      /\ UNCHANGED <<context, wrappers, notifying, registered>>
  BY DEF RemoveSharedObserver
<1>2. c \in ContextAddress /\ c \in Live
  BY <1>1, InMap
<1>3. r \in Removal /\ r.context = c /\ r.observer = o
  BY <1>2 DEF Removal
<1> HIDE DEF r
<1>4. /\ observer_lists_' \in [ListThread -> ContextAddress \cup {NoContext}]
      /\ observer_lists_'[t] = IF out THEN NoContext ELSE c
      /\ \A u \in ListThread : u # t => observer_lists_'[u] = observer_lists_[u]
      /\ removing' \in [ListThread -> SUBSET Removal]
      /\ removing'[t] = {r}
      /\ \A u \in ListThread : u # t => removing'[u] = removing[u]
      /\ Live' = Live /\ Live \subseteq ContextAddress
  <2> HIDE DEF c, out
  <2> QED
    BY <1>1, <1>3 DEF SharedInv, SharedTypeOK, Live, c
<1>5. \A u \in ListThread, d \in ContextAddress : Keeps(u, d)' <=> Keeps(u, d)
  <2>1. \A u \in ListThread : \A d : u # t => (Keeps(u, d)' <=> Keeps(u, d))
    BY <1>4 DEF Keeps
  <2>2. \A d \in ContextAddress : Keeps(t, d) <=> d = c
    BY <1>1 DEF Keeps
  <2>3. \A d \in ContextAddress : Keeps(t, d)' <=> d = c
    <3> HIDE DEF c, out
    <3> QED
      BY <1>3, <1>4, SharedListAssumption DEF Keeps
  <2> QED
    BY <2>1, <2>2, <2>3
<1>6. \A u, d : Iterating(u, d)' = Iterating(u, d)
  BY <1>1 DEF Iterating
<1>7. \A u \in ListThread, d \in ContextAddress : Holds(u, d)' <=> Holds(u, d)
  BY <1>5, <1>6 DEF Holds
<1>8. SharedTypeOK'
  BY <1>1, <1>4 DEF SharedInv, SharedTypeOK
<1>9. OneOwner'
  BY <1>4, <1>7 DEF SharedInv, OneOwner
<1>10. ListsKept'
  BY <1>1, <1>4, <1>6 DEF SharedInv, ListsKept
<1>11. OrphansEmpty'
  BY <1>1, <1>5, <1>6 DEF SharedInv, OrphansEmpty
<1>12. PlacesKept'
  <2>1. AddedOnce' /\ OnePlace'
    BY <1>1, <1>4 DEF SharedInv, PlacesKept, AddedOnce, OnePlace
  <2>2. OnlyAdded'
    BY <1>1, <1>4, <1>7 DEF SharedInv, PlacesKept, OnlyAdded
  <2>3. NoneLost'
    BY <1>1, <1>4, <1>5 DEF SharedInv, PlacesKept, NoneLost
  <2> QED
    BY <2>1, <2>2, <2>3 DEF PlacesKept
<1>13. RemovalsKept'
  <2>1. CASE out
    <3>1. \A i \in DOMAIN context[c] : context[c][i] = o
      <4> HIDE DEF c
      <4>1. DOMAIN context[c] = {1}
        BY <1>2, <2>1, ListTyped
      <4>2. \E i \in DOMAIN context[c] : context[c][i] = o
        BY <2>1 DEF Range
      <4> QED
        BY <4>1, <4>2
    <3>2. observer_lists_'[t] = NoContext /\ c # NoContext
      BY <1>1, <1>4, <2>1
    <3> HIDE DEF c, out
    <3> QED
      BY <1>1, <1>3, <1>4, <3>1, <3>2 DEF SharedInv, RemovalsKept
  <2>2. CASE ~out
    <3>1. \E i \in DOMAIN context[c] : context[c][i] # o
      <4> HIDE DEF c
      <4>1. Len(context[c]) \in Nat \ {0} /\ DOMAIN context[c] = 1..Len(context[c])
        BY <1>2, ListTyped
      <4>2. CASE Len(context[c]) = 1
        <5>1. o \notin Range(context[c]) /\ 1 \in DOMAIN context[c]
          BY <2>2, <4>1, <4>2
        <5> QED
          BY <5>1 DEF Range
      <4>3. CASE Len(context[c]) # 1
        <5>1. 1 \in DOMAIN context[c] /\ 2 \in DOMAIN context[c]
          <6>1. \A n \in Nat \ {0} : n # 1 => 1 \in 1..n /\ 2 \in 1..n
            OBVIOUS
          <6> QED
            BY <4>1, <4>3, <6>1
        <5>2. o # Hole
          BY SharedListAssumption
        <5>3. ~(context[c][1] = o /\ context[c][2] = o)
          BY <1>2, <5>1, <5>2 DEF SharedInv, PlacesKept, OnePlace
        <5> QED
          BY <5>1, <5>3
      <4> QED
        BY <4>2, <4>3
    <3>2. observer_lists_'[t] = c
      BY <1>4, <2>2
    <3> HIDE DEF c, out
    <3> QED
      BY <1>1, <1>3, <1>4, <3>1, <3>2 DEF SharedInv, RemovalsKept
  <2> QED
    BY <2>1, <2>2
<1> QED
  BY <1>8, <1>9, <1>10, <1>11, <1>12, <1>13 DEF SharedInv

\* The thread of context c leaves list on it, or deletes it: what the end of a
\* removal and the end of an iteration have in common.
LEMMA ListReplaced ==
  ASSUME SharedInv, NEW t \in ListThread, NEW c \in Live, Holds(t, c),
         NEW list \in Seq(Slot),
         \* The contexts of others and the other contexts of t stay.
         Live' = IF list = <<>> THEN Live \ {c} ELSE Live,
         \A d \in Live \ {c} : context'[d] = context[d],
         list # <<>> => context'[c] = list,
         observer_lists_' \in [ListThread -> ContextAddress \cup {NoContext}],
         wrappers' \in [ListThread -> Seq(ContextAddress)],
         notifying' \in [ListThread -> Seq([context : ContextAddress, index : Nat])],
         removing' = [removing EXCEPT ![t] = {}],
         registered' \in [ListThread -> SUBSET SharedObserver],
         registered'[t] \subseteq registered[t],
         \A u \in ListThread : u # t =>
           /\ observer_lists_'[u] = observer_lists_[u]
           /\ notifying'[u] = notifying[u]
           /\ registered'[u] = registered[u],
         \A d \in ContextAddress \ {c} :
           (Keeps(t, d)' <=> Keeps(t, d)) /\ (Iterating(t, d)' <=> Iterating(t, d)),
         \* What becomes of c and of the observers on its list.
         Holds(t, c)' <=> list # <<>>,
         Iterating(t, c)' /\ ~Keeps(t, c)' => \A k \in DOMAIN list : list[k] = Hole,
         Len(list) <= Len(context[c]),
         \A k \in DOMAIN list : list[k] = Hole => Iterating(t, c)',
         \A k \in DOMAIN list : list[k] # Hole =>
           list[k] \in registered'[t] /\ \E i \in DOMAIN context[c] : context[c][i] = list[k],
         \A k, l \in DOMAIN list : list[k] = list[l] /\ list[k] # Hole => k = l,
         \A o \in registered'[t] : \A i \in DOMAIN context[c] : context[c][i] = o =>
           Keeps(t, c)' /\ \E k \in DOMAIN list : list[k] = o,
         \A d \in Live \ {c} : Holds(t, d) => \A i \in DOMAIN context[d] :
           context[d][i] # Hole => context[d][i] \in registered'[t]
  PROVE  SharedInv'
<1>1. /\ Live \subseteq ContextAddress /\ Live' \subseteq Live
      /\ removing \in [ListThread -> SUBSET Removal]
      /\ removing' \in [ListThread -> SUBSET Removal] /\ removing'[t] = {}
      /\ \A u \in ListThread : u # t => removing'[u] = removing[u]
      /\ c \in ContextAddress
  BY DEF SharedInv, SharedTypeOK
<1>2. /\ \A u \in ListThread : u # t => \A d : Keeps(u, d)' <=> Keeps(u, d)
      /\ \A u \in ListThread : u # t => \A d : Iterating(u, d)' <=> Iterating(u, d)
  BY <1>1 DEF Keeps, Iterating
<1>3. /\ \A u \in ListThread : u # t => \A d : Holds(u, d)' <=> Holds(u, d)
      /\ \A d \in ContextAddress \ {c} : Holds(t, d)' <=> Holds(t, d)
  BY <1>2 DEF Holds
<1>4. \A u \in ListThread : u # t => ~Holds(u, c)
  BY <1>1 DEF SharedInv, OneOwner
<1>5. /\ \A u, d : Keeps(u, d) => Holds(u, d)
      /\ \A u, d : Iterating(u, d) => Holds(u, d)
      /\ \A u, d : Keeps(u, d)' => Holds(u, d)'
      /\ \A u, d : Iterating(u, d)' => Holds(u, d)'
  BY DEF Holds
<1>6. \A d \in Live' : d # c => d \in Live /\ context'[d] = context[d]
  BY <1>1
<1>7. c \in Live' => list # <<>> /\ context'[c] = list
  OBVIOUS
<1>8. SharedTypeOK'
  <2>1. \A d \in Live' : context'[d] \in Seq(Slot)
    BY <1>6, <1>7 DEF SharedInv, SharedTypeOK
  <2>2. Live' \subseteq ContextAddress
    BY <1>1
  <2> QED
    BY <1>1, <2>1, <2>2 DEF SharedTypeOK
<1>9. OneOwner'
  <2>1. ASSUME NEW d \in ContextAddress
        PROVE  d \in Live' <=> \E u \in ListThread : Holds(u, d)'
    <3>1. CASE d = c
      BY <1>3, <1>4, <3>1
    <3>2. CASE d # c
      <4>1. d \in Live' <=> d \in Live
        BY <3>2
      <4>2. \A u \in ListThread : Holds(u, d)' <=> Holds(u, d)
        BY <1>3, <3>2
      <4> QED
        BY <4>1, <4>2 DEF SharedInv, OneOwner
    <3> QED
      BY <3>1, <3>2
  <2>2. ASSUME NEW d \in ContextAddress, NEW u \in ListThread, NEW v \in ListThread,
               Holds(u, d)', Holds(v, d)'
        PROVE  u = v
    <3>1. CASE d = c
      BY <1>3, <1>4, <2>2, <3>1
    <3>2. CASE d # c
      <4>1. d \in ContextAddress \ {c}
        BY <3>2
      <4>2. Holds(u, d) /\ Holds(v, d)
        BY <1>3, <2>2, <4>1
      <4> QED
        BY <4>2 DEF SharedInv, OneOwner
    <3> QED
      BY <3>1, <3>2
  <2> QED
    BY <2>1, <2>2 DEF OneOwner
<1>10. ListsKept'
  <2>1. ASSUME NEW d \in Live'
        PROVE  /\ context'[d] # <<>> /\ Len(context'[d]) <= MaxList
               /\ \A i \in DOMAIN context'[d] : context'[d][i] = Hole =>
                    \E u \in ListThread : Iterating(u, d)'
    <3>1. CASE d # c
      <4>1. d \in Live /\ context'[d] = context[d] /\ d \in ContextAddress
        BY <1>1, <1>6, <3>1
      <4>2. \A u \in ListThread : Iterating(u, d)' <=> Iterating(u, d)
        BY <1>2, <3>1, <4>1
      <4> QED
        BY <4>1, <4>2 DEF SharedInv, ListsKept
    <3>2. CASE d = c
      <4>1. Len(list) \in Nat /\ Len(context[c]) \in Nat /\ Len(context[c]) <= MaxList /\ MaxList \in Nat
        BY ListTyped, SharedListAssumption
      <4> QED
        BY <1>7, <3>2, <4>1
    <3> QED
      BY <3>1, <3>2
  <2> QED
    BY <2>1 DEF ListsKept
<1>11. RemovalsKept'
  <2>1. ASSUME NEW u \in ListThread, NEW r \in removing'[u]
        PROVE  /\ \A s \in removing'[u] : s = r
               /\ IF r.context = observer_lists_'[u]
                  THEN \E i \in DOMAIN context'[r.context] : context'[r.context][i] # r.observer
                  ELSE /\ observer_lists_'[u] = NoContext
                       /\ \A i \in DOMAIN context'[r.context] : context'[r.context][i] = r.observer
    <3>1. u # t /\ r \in removing[u] /\ removing'[u] = removing[u]
      BY <1>1, <2>1
    <3>2. r.context \in ContextAddress /\ Holds(u, r.context)
      <4>1. r \in Removal
        BY <1>1, <3>1
      <4> QED
        BY <1>5, <3>1, <4>1 DEF Removal, Keeps
    <3>3. r.context \in Live /\ r.context # c
      BY <1>4, <3>1, <3>2 DEF SharedInv, OneOwner
    <3>4. observer_lists_'[u] = observer_lists_[u] /\ context'[r.context] = context[r.context]
      BY <3>1, <3>3
    <3> QED
      BY <3>1, <3>4 DEF SharedInv, RemovalsKept
  <2> QED
    BY <2>1 DEF RemovalsKept
<1>12. OrphansEmpty'
  <2>1. ASSUME NEW u \in ListThread, NEW d \in ContextAddress, Iterating(u, d)', ~Keeps(u, d)'
        PROVE  \A i \in DOMAIN context'[d] : context'[d][i] = Hole
    <3>1. CASE d = c
      <4>1. u = t /\ list # <<>>
        BY <1>2, <1>4, <1>5, <2>1, <3>1
      <4> QED
        BY <2>1, <3>1, <4>1
    <3>2. CASE d # c
      <4>1. Iterating(u, d) /\ ~Keeps(u, d)
        BY <1>2, <2>1, <3>2
      <4>2. d \in Live
        BY <1>5, <4>1 DEF SharedInv, OneOwner
      <4>3. context'[d] = context[d]
        BY <3>2, <4>2
      <4>4. \A i \in DOMAIN context[d] : context[d][i] = Hole
        BY <4>1 DEF SharedInv, OrphansEmpty
      <4> QED
        BY <4>3, <4>4
    <3> QED
      BY <3>1, <3>2
  <2> QED
    BY <2>1 DEF OrphansEmpty
<1>13. AddedOnce'
  <2>1. \A u \in ListThread : registered'[u] \subseteq registered[u]
    OBVIOUS
  <2> QED
    BY <2>1 DEF SharedInv, PlacesKept, AddedOnce
<1>14. OnlyAdded'
  <2>1. ASSUME NEW u \in ListThread, NEW d \in Live', Holds(u, d)',
               NEW i \in DOMAIN context'[d], context'[d][i] # Hole
        PROVE  context'[d][i] \in registered'[u]
    <3>1. CASE d = c
      <4>1. u = t
        BY <1>3, <1>4, <2>1, <3>1
      <4> QED
        BY <1>7, <2>1, <3>1, <4>1
    <3>2. CASE d # c
      <4>1. d \in Live /\ d \in ContextAddress /\ context'[d] = context[d]
        BY <1>1, <1>6, <3>2
      <4>2. Holds(u, d)
        BY <1>3, <2>1, <3>2, <4>1
      <4>3. CASE u = t
        BY <2>1, <3>2, <4>1, <4>2, <4>3
      <4>4. CASE u # t
        <5>1. context[d][i] \in registered[u]
          BY <2>1, <4>1, <4>2 DEF SharedInv, PlacesKept, OnlyAdded
        <5> QED
          BY <4>1, <4>4, <5>1
      <4> QED
        BY <4>3, <4>4
    <3> QED
      BY <3>1, <3>2
  <2> QED
    BY <2>1 DEF OnlyAdded
<1>15. NoneLost'
  <2>1. ASSUME NEW u \in ListThread, NEW o \in registered'[u]
        PROVE  \E d \in Live' : Keeps(u, d)' /\ \E i \in DOMAIN context'[d] : context'[d][i] = o
    <3>1. o \in registered[u]
      BY <2>1
    <3>2. PICK d \in Live : Keeps(u, d) /\ \E i \in DOMAIN context[d] : context[d][i] = o
      BY <3>1 DEF SharedInv, PlacesKept, NoneLost
    <3>3. CASE d # c
      <4>1. d \in Live' /\ context'[d] = context[d] /\ d \in ContextAddress
        BY <1>1, <3>3
      <4>2. Keeps(u, d)'
        BY <1>2, <3>2, <3>3, <4>1
      <4> QED
        BY <3>2, <4>1, <4>2
    <3>4. CASE d = c
      <4>1. u = t
        BY <1>4, <1>5, <3>2, <3>4
      <4>2. Keeps(t, c)' /\ \E k \in DOMAIN list : list[k] = o
        BY <2>1, <3>2, <3>4, <4>1
      <4>3. list # <<>>
        BY <1>5, <4>2
      <4> QED
        BY <1>7, <4>1, <4>2, <4>3
    <3> QED
      BY <3>3, <3>4
  <2> QED
    BY <2>1 DEF NoneLost
<1>16. OnePlace'
  <2>1. ASSUME NEW d \in Live', NEW i \in DOMAIN context'[d], context'[d][i] # Hole
        PROVE  \E j \in DOMAIN context[d] : context[d][j] = context'[d][i]
    <3>1. CASE d # c
      BY <1>6, <3>1
    <3>2. CASE d = c
      <4>1. i \in DOMAIN list /\ list[i] = context'[d][i] /\ list[i] # Hole
        BY <1>7, <2>1, <3>2
      <4> QED
        BY <3>2, <4>1
    <3> QED
      BY <3>1, <3>2
  <2>2. ASSUME NEW d \in Live', NEW e \in Live',
               NEW i \in DOMAIN context'[d], NEW j \in DOMAIN context'[e],
               context'[d][i] = context'[e][j], context'[d][i] # Hole
        PROVE  d = e /\ i = j
    <3>1. PICK p \in DOMAIN context[d] : context[d][p] = context'[d][i]
      BY <2>1, <2>2
    <3>2. PICK q \in DOMAIN context[e] : context[e][q] = context'[e][j]
      BY <2>1, <2>2
    <3>3. d \in Live /\ e \in Live
      BY <1>1
    <3>4. d = e
      BY <2>2, <3>1, <3>2, <3>3 DEF SharedInv, PlacesKept, OnePlace
    <3>5. CASE d = c
      BY <1>7, <2>2, <3>4, <3>5
    <3>6. CASE d # c
      <4>1. context'[d] = context[d]
        BY <1>6, <3>6
      <4> QED
        BY <2>2, <3>3, <3>4, <4>1 DEF SharedInv, PlacesKept, OnePlace
    <3> QED
      BY <3>4, <3>5, <3>6
  <2> QED
    BY <2>2 DEF OnePlace
<1> QED
  BY <1>8, <1>9, <1>10, <1>11, <1>12, <1>13, <1>14, <1>15, <1>16
     DEF SharedInv, PlacesKept

\* The list without an observer: its slot is emptied, or erased.
LEMMA WithoutFacts ==
  ASSUME SharedInv, NEW t \in ListThread, NEW c \in Live, Holds(t, c),
         NEW o \in SharedObserver, NEW list, list = Without(t, c, o)
  PROVE  /\ list \in Seq(Slot) /\ Len(list) <= Len(context[c])
         /\ \A k \in DOMAIN list : list[k] = Hole => Iterating(t, c)
         /\ \A k \in DOMAIN list : list[k] # Hole =>
              list[k] # o /\ \E i \in DOMAIN context[c] : context[c][i] = list[k]
         /\ \A k, l \in DOMAIN list : list[k] = list[l] /\ list[k] # Hole => k = l
         /\ \A i \in DOMAIN context[c] : context[c][i] # o =>
              \E k \in DOMAIN list : list[k] = context[c][i]
         /\ list = <<>> <=> ~Iterating(t, c) /\ \A i \in DOMAIN context[c] : context[c][i] = o
<1> DEFINE old == context[c]
<1>1. /\ old \in Seq(Slot) /\ Len(old) \in Nat \ {0} /\ DOMAIN old = 1..Len(old)
      /\ \A i \in DOMAIN old : old[i] \in Slot
  BY ListTyped
<1>2. \A i, j \in DOMAIN old : old[i] = old[j] /\ old[i] # Hole => i = j
  BY DEF SharedInv, PlacesKept, OnePlace
<1>3. Hole \in Slot /\ o # Hole
  BY SharedListAssumption DEF Slot
<1>4. CASE Iterating(t, c)
  <2>1. list = [i \in DOMAIN old |-> IF old[i] = o THEN Hole ELSE old[i]]
    BY <1>4 DEF Without
  <2> HIDE DEF old
  <2>2. list \in Seq(Slot) /\ Len(list) = Len(old) /\ DOMAIN list = DOMAIN old
    BY <1>1, <1>3, <2>1
  <2>3. \A i \in DOMAIN old : list[i] = IF old[i] = o THEN Hole ELSE old[i]
    BY <2>1
  <2>4. \A k \in DOMAIN list : list[k] # Hole => list[k] # o /\ list[k] = old[k]
    BY <2>2, <2>3
  <2>5. \A k, l \in DOMAIN list : list[k] = list[l] /\ list[k] # Hole => k = l
    BY <1>2, <2>2, <2>4
  <2>6. list # <<>>
    BY <1>1, <2>2
  <2> QED
    BY <1>1, <1>4, <2>2, <2>3, <2>4, <2>5, <2>6 DEF old
<1>5. CASE ~Iterating(t, c)
  <2>1. list = Erased(old, o)
    BY <1>5 DEF Without
  <2>2. \A i \in DOMAIN old : old[i] # Hole
    <3>1. \A u \in ListThread : ~Iterating(u, c)
      <4>1. c \in ContextAddress
        BY ListTyped
      <4>2. \A u \in ListThread : Iterating(u, c) => u = t
        BY <4>1 DEF SharedInv, OneOwner, Holds
      <4> QED
        BY <1>5, <4>2
    <3> QED
      BY <3>1 DEF SharedInv, ListsKept
  <2> HIDE DEF old
  <2>3. /\ list \in Seq(Slot) /\ Len(list) <= Len(old)
        /\ \A k \in DOMAIN list : list[k] # o /\ \E i \in DOMAIN old : list[k] = old[i]
        /\ \A i \in DOMAIN old : old[i] # o => \E k \in DOMAIN list : list[k] = old[i]
        /\ \A k, l \in DOMAIN list : k # l =>
             \E i, j \in DOMAIN old : i # j /\ list[k] = old[i] /\ list[l] = old[j]
        /\ list = <<>> <=> \A i \in DOMAIN old : old[i] = o
    <3>1. old \in Seq(Slot)
      BY <1>1
    <3> QED
      BY <2>1, <3>1, ErasedFacts
  <2>4. \A k, l \in DOMAIN list : list[k] = list[l] => k = l
    BY <1>2, <2>2, <2>3
  <2>5. \A k \in DOMAIN list : list[k] # Hole
    BY <2>2, <2>3
  <2> QED
    BY <1>5, <2>3, <2>4, <2>5 DEF old
<1> QED
  BY <1>4, <1>5

\* What the model writes for a list that replaces another is that.
LEMMA Replacing ==
  ASSUME NEW c \in Live, NEW list,
         context' = IF list = <<>> THEN Freed(c) ELSE WithList(c, list)
  PROVE  /\ Live' = IF list = <<>> THEN Live \ {c} ELSE Live
         /\ \A d \in Live \ {c} : context'[d] = context[d]
         /\ list # <<>> => context'[c] = list
<1>1. CASE list = <<>>
  BY <1>1 DEF Live, Freed
<1>2. CASE list # <<>>
  BY <1>2 DEF Live, WithList
<1> QED
  BY <1>1, <1>2

\* A removal ends: its observer is gone, and the context with it if that was
\* the only one and no notification is there to delete it.
LEMMA FinishShared ==
  ASSUME SharedInv, NEW t \in ListThread, FinishRemoving(t)
  PROVE  SharedInv'
<1>1. PICK r \in removing[t] :
        LET list == Without(t, r.context, r.observer)
        IN  /\ context' = IF list = <<>> THEN Freed(r.context) ELSE WithList(r.context, list)
            /\ registered' = [registered EXCEPT ![t] = @ \ {r.observer}]
  BY DEF FinishRemoving
<1> DEFINE c == r.context
           o == r.observer
           list == Without(t, c, o)
           mine == observer_lists_[t]
<1>2. /\ removing' = [removing EXCEPT ![t] = {}]
      /\ UNCHANGED <<observer_lists_, wrappers, notifying>>
  BY DEF FinishRemoving
<1>3. /\ c \in ContextAddress /\ o \in SharedObserver
      /\ removing \in [ListThread -> SUBSET Removal]
      /\ registered \in [ListThread -> SUBSET SharedObserver]
  BY DEF SharedInv, SharedTypeOK, Removal
<1>4. /\ \A s \in removing[t] : s = r
      /\ IF c = mine THEN \E i \in DOMAIN context[c] : context[c][i] # o
         ELSE mine = NoContext /\ \A i \in DOMAIN context[c] : context[c][i] = o
  BY DEF SharedInv, RemovalsKept
<1>5. Keeps(t, c) /\ Holds(t, c)
  BY DEF Keeps, Holds
<1>6. c \in Live
  BY <1>3, <1>5 DEF SharedInv, OneOwner
<1>7. /\ context' = IF list = <<>> THEN Freed(c) ELSE WithList(c, list)
      /\ registered' = [registered EXCEPT ![t] = @ \ {o}]
  BY <1>1
<1> HIDE DEF list, c, o
<1>8. /\ Live' = IF list = <<>> THEN Live \ {c} ELSE Live
      /\ \A d \in Live \ {c} : context'[d] = context[d]
      /\ list # <<>> => context'[c] = list
  BY <1>6, <1>7, Replacing
<1>9. /\ list \in Seq(Slot) /\ Len(list) <= Len(context[c])
      /\ \A k \in DOMAIN list : list[k] = Hole => Iterating(t, c)
      /\ \A k \in DOMAIN list : list[k] # Hole =>
           list[k] # o /\ \E i \in DOMAIN context[c] : context[c][i] = list[k]
      /\ \A k, l \in DOMAIN list : list[k] = list[l] /\ list[k] # Hole => k = l
      /\ \A i \in DOMAIN context[c] : context[c][i] # o =>
           \E k \in DOMAIN list : list[k] = context[c][i]
      /\ list = <<>> <=> ~Iterating(t, c) /\ \A i \in DOMAIN context[c] : context[c][i] = o
  BY <1>3, <1>5, <1>6, WithoutFacts DEF list
<1>10. /\ \A d : Keeps(t, d)' <=> d = mine
       /\ \A d : Keeps(t, d) <=> d = mine \/ d = c
       /\ \A u, d : Iterating(u, d)' <=> Iterating(u, d)
  <2>1. removing'[t] = {} /\ removing[t] = {r}
    BY <1>2, <1>3, <1>4
  <2> QED
    BY <1>2, <2>1 DEF Keeps, Iterating, c
<1>11. \A d \in ContextAddress \ {c} : Keeps(t, d)' <=> Keeps(t, d)
  BY <1>10
<1>12. Holds(t, c)' <=> list # <<>>
  BY <1>4, <1>9, <1>10 DEF Holds
<1>13. Iterating(t, c)' /\ ~Keeps(t, c)' => \A k \in DOMAIN list : list[k] = Hole
  BY <1>4, <1>9, <1>10
<1>14. /\ registered' \in [ListThread -> SUBSET SharedObserver]
       /\ registered'[t] = registered[t] \ {o}
       /\ \A u \in ListThread : u # t => registered'[u] = registered[u]
  BY <1>3, <1>7
<1>15. \A i \in DOMAIN context[c] : context[c][i] # Hole => context[c][i] \in registered[t]
  BY <1>5, <1>6 DEF SharedInv, PlacesKept, OnlyAdded
<1>16. \A k \in DOMAIN list : list[k] # Hole =>
         list[k] \in registered'[t] /\ \E i \in DOMAIN context[c] : context[c][i] = list[k]
  BY <1>9, <1>14, <1>15
<1>17. \A p \in registered'[t] : \A i \in DOMAIN context[c] : context[c][i] = p =>
         Keeps(t, c)' /\ \E k \in DOMAIN list : list[k] = p
  BY <1>4, <1>9, <1>10, <1>14
<1>18. \A d \in Live \ {c} : Holds(t, d) => \A i \in DOMAIN context[d] :
         context[d][i] # Hole => context[d][i] \in registered'[t]
  <2>1. ASSUME NEW d \in Live \ {c}, Holds(t, d), NEW i \in DOMAIN context[d], context[d][i] # Hole
        PROVE  context[d][i] \in registered'[t]
    <3>1. context[d][i] \in registered[t]
      BY <2>1 DEF SharedInv, PlacesKept, OnlyAdded
    <3>2. context[d][i] # o
      <4>1. SUFFICES ASSUME context[d][i] = o
                     PROVE  FALSE
        OBVIOUS
      <4>2. PICK e \in Live : Keeps(t, e) /\ \E j \in DOMAIN context[e] : context[e][j] = o
        BY <3>1, <4>1 DEF SharedInv, PlacesKept, NoneLost
      <4>3. e = d
        BY <2>1, <4>1, <4>2 DEF SharedInv, PlacesKept, OnePlace
      <4>4. d = mine /\ mine # NoContext
        BY <1>10, <2>1, <4>2, <4>3, ListTyped, SharedListAssumption
      <4> QED
        BY <1>4, <2>1, <4>4
    <3> QED
      BY <1>14, <3>1, <3>2
  <2> QED
    BY <2>1
<1>19. /\ observer_lists_' \in [ListThread -> ContextAddress \cup {NoContext}]
       /\ wrappers' \in [ListThread -> Seq(ContextAddress)]
       /\ notifying' \in [ListThread -> Seq([context : ContextAddress, index : Nat])]
  BY <1>2 DEF SharedInv, SharedTypeOK
<1>20. \A u \in ListThread : u # t =>
         /\ observer_lists_'[u] = observer_lists_[u]
         /\ notifying'[u] = notifying[u]
         /\ registered'[u] = registered[u]
  BY <1>2, <1>14
<1>21. \A d \in ContextAddress \ {c} :
         (Keeps(t, d)' <=> Keeps(t, d)) /\ (Iterating(t, d)' <=> Iterating(t, d))
  BY <1>10, <1>11
<1>22. \A k \in DOMAIN list : list[k] = Hole => Iterating(t, c)'
  BY <1>9, <1>10
<1>23. registered'[t] \subseteq registered[t]
  BY <1>14
<1>24. Len(list) <= Len(context[c]) /\ list \in Seq(Slot)
  BY <1>9
<1>25. \A k, l \in DOMAIN list : list[k] = list[l] /\ list[k] # Hole => k = l
  BY <1>9
<1>26. removing' = [removing EXCEPT ![t] = {}]
  BY <1>2
<1>27. registered' \in [ListThread -> SUBSET SharedObserver]
  BY <1>14
<1> HIDE DEF mine
<1> QED
  BY <1>5, <1>6, <1>8, <1>12, <1>13, <1>16, <1>17, <1>18, <1>19, <1>20,
     <1>21, <1>22, <1>23, <1>24, <1>25, <1>26, <1>27, ListReplaced, Zenon

\* An iteration ends; if it was the outermost of its context, the holes go, and
\* with them a context that had nothing else.
LEMMA EndShared ==
  ASSUME SharedInv, NEW t \in ListThread, EndWrapper(t)
  PROVE  SharedInv'
<1>1. PICK c : c = Innermost(t).context
  OBVIOUS
<1> DEFINE C == [context : ContextAddress, index : Nat]
           n == Len(notifying[t])
           outer == Front(notifying[t])
           nested == \E i \in DOMAIN outer : outer[i].context = c
           list == IF nested THEN context[c] ELSE Erased(context[c], Hole)
           mine == observer_lists_[t]
<1>2. /\ removing[t] = {} /\ notifying[t] # <<>>
      /\ notifying' = [notifying EXCEPT ![t] = outer]
      /\ context' = IF list = <<>> THEN Freed(c) ELSE WithList(c, list)
      /\ observer_lists_' = IF list = <<>> /\ mine = c
                            THEN [observer_lists_ EXCEPT ![t] = NoContext]
                            ELSE observer_lists_
      /\ UNCHANGED <<wrappers, removing, registered>>
  BY <1>1 DEF EndWrapper
<1>3. /\ notifying \in [ListThread -> Seq(C)]
      /\ observer_lists_ \in [ListThread -> ContextAddress \cup {NoContext}]
      /\ wrappers \in [ListThread -> Seq(ContextAddress)]
      /\ removing \in [ListThread -> SUBSET Removal]
      /\ registered \in [ListThread -> SUBSET SharedObserver]
  BY DEF SharedInv, SharedTypeOK
<1>4. /\ n \in Nat /\ n # 0 /\ DOMAIN notifying[t] = 1..n
      /\ outer \in Seq(C) /\ DOMAIN outer = 1..(n - 1)
      /\ \A i \in 1..(n - 1) : outer[i] = notifying[t][i]
  <2>1. notifying[t] \in Seq(C)
    BY <1>3
  <2> HIDE DEF C
  <2>2. DOMAIN notifying[t] = 1..n
    BY <2>1
  <2> QED
    BY <1>2, <2>1, <2>2, FrontOfAll
<1>5. n \in 1..n /\ notifying[t][n].context = c /\ c \in ContextAddress
  <2>1. n \in 1..n
    BY <1>4
  <2>2. notifying[t][n] \in C
    <3> HIDE DEF C
    <3> QED
      BY <1>3, <1>4, <2>1
  <2>3. Innermost(t) = notifying[t][n]
    BY DEF Innermost, Last
  <2> QED
    BY <1>1, <2>1, <2>2, <2>3
<1> HIDE DEF outer, list, nested
<1>6. Iterating(t, c) /\ Holds(t, c)
  BY <1>4, <1>5 DEF Iterating, Holds
<1>7. c \in Live
  BY <1>5, <1>6 DEF SharedInv, OneOwner
<1>8. /\ Live' = IF list = <<>> THEN Live \ {c} ELSE Live
      /\ \A d \in Live \ {c} : context'[d] = context[d]
      /\ list # <<>> => context'[c] = list
  BY <1>2, <1>7, Replacing
<1>9. /\ context[c] \in Seq(Slot) /\ Len(context[c]) \in Nat \ {0}
      /\ \A i \in DOMAIN context[c] : context[c][i] \in Slot
  BY <1>7, ListTyped
<1>10. \A i, j \in DOMAIN context[c] : context[c][i] = context[c][j] /\ context[c][i] # Hole => i = j
  BY <1>7 DEF SharedInv, PlacesKept, OnePlace
<1>11. /\ list \in Seq(Slot) /\ Len(list) <= Len(context[c])
       /\ \A k \in DOMAIN list : list[k] = Hole => nested
       /\ \A k \in DOMAIN list : \E i \in DOMAIN context[c] : context[c][i] = list[k]
       /\ \A k, l \in DOMAIN list : list[k] = list[l] /\ list[k] # Hole => k = l
       /\ \A i \in DOMAIN context[c] : context[c][i] # Hole =>
            \E k \in DOMAIN list : list[k] = context[c][i]
       /\ list = <<>> <=> ~nested /\ \A i \in DOMAIN context[c] : context[c][i] = Hole
  <2>1. CASE nested
    <3>1. list = context[c]
      BY <2>1 DEF list
    <3> QED
      BY <1>9, <1>10, <2>1, <3>1
  <2>2. CASE ~nested
    <3> DEFINE old == context[c]
    <3>1. list = Erased(old, Hole)
      BY <2>2 DEF list
    <3>2. old \in Seq(Slot)
      BY <1>9
    <3>3. \A i, j \in DOMAIN old : old[i] = old[j] /\ old[i] # Hole => i = j
      BY <1>10
    <3> HIDE DEF old
    <3>4. /\ list \in Seq(Slot) /\ Len(list) <= Len(old)
          /\ \A k \in DOMAIN list : list[k] # Hole /\ \E i \in DOMAIN old : list[k] = old[i]
          /\ \A i \in DOMAIN old : old[i] # Hole => \E k \in DOMAIN list : list[k] = old[i]
          /\ \A k, l \in DOMAIN list : k # l =>
               \E i, j \in DOMAIN old : i # j /\ list[k] = old[i] /\ list[l] = old[j]
          /\ list = <<>> <=> \A i \in DOMAIN old : old[i] = Hole
      BY <3>1, <3>2, ErasedFacts
    <3>5. \A k, l \in DOMAIN list : list[k] = list[l] /\ list[k] # Hole => k = l
      BY <3>3, <3>4
    <3> QED
      BY <2>2, <3>4, <3>5 DEF old
  <2> QED
    BY <2>1, <2>2
<1>12. /\ \A d : Iterating(t, d)' <=> \E i \in DOMAIN outer : outer[i].context = d
       /\ Iterating(t, c)' <=> nested
       /\ \A d : d # c => (Iterating(t, d)' <=> Iterating(t, d))
  <2>1. notifying'[t] = outer
    BY <1>2, <1>3
  <2>2. \A d : Iterating(t, d)' <=> \E i \in DOMAIN outer : outer[i].context = d
    BY <2>1 DEF Iterating
  <2>3. ASSUME NEW d, d # c, Iterating(t, d)
        PROVE  Iterating(t, d)'
    <3>1. PICK i \in 1..n : notifying[t][i].context = d
      BY <1>4, <2>3 DEF Iterating
    <3>2. i # n
      BY <1>5, <2>3, <3>1
    <3>3. i \in 1..(n - 1)
      BY <1>4, <3>1, <3>2
    <3> QED
      BY <1>4, <2>2, <3>1, <3>3
  <2>4. ASSUME NEW d, Iterating(t, d)'
        PROVE  Iterating(t, d)
    <3>1. PICK i \in 1..(n - 1) : outer[i].context = d
      BY <1>4, <2>2, <2>4
    <3>2. i \in 1..n /\ notifying[t][i].context = d
      BY <1>4, <3>1
    <3> QED
      BY <1>4, <3>2 DEF Iterating
  <2>5. Iterating(t, c)' <=> nested
    BY <2>2 DEF nested
  <2> QED
    BY <2>2, <2>3, <2>4, <2>5
<1>13. /\ \A d : Keeps(t, d) <=> d = mine
       /\ \A d \in ContextAddress : Keeps(t, d)' <=> d = mine /\ ~(list = <<>> /\ d = c)
  <2>1. \A d : Keeps(t, d) <=> d = mine
    BY <1>2 DEF Keeps
  <2>2. \A d : Keeps(t, d)' <=> d = observer_lists_'[t]
    BY <1>2 DEF Keeps
  <2>3. observer_lists_'[t] = IF list = <<>> /\ mine = c THEN NoContext ELSE mine
    BY <1>2, <1>3
  <2> HIDE DEF mine
  <2> QED
    BY <2>1, <2>2, <2>3, SharedListAssumption
<1>14. c # mine => \A i \in DOMAIN context[c] : context[c][i] = Hole
  BY <1>5, <1>6, <1>13 DEF SharedInv, OrphansEmpty
<1> HIDE DEF mine
<1>15. \A d \in ContextAddress \ {c} :
         (Keeps(t, d)' <=> Keeps(t, d)) /\ (Iterating(t, d)' <=> Iterating(t, d))
  BY <1>12, <1>13
<1>16. Holds(t, c)' <=> list # <<>>
  BY <1>5, <1>11, <1>12, <1>13, <1>14 DEF Holds
<1>17. Iterating(t, c)' /\ ~Keeps(t, c)' => \A k \in DOMAIN list : list[k] = Hole
  BY <1>5, <1>11, <1>12, <1>13, <1>14
<1>18. \A k \in DOMAIN list : list[k] = Hole => Iterating(t, c)'
  BY <1>11, <1>12
<1>19. \A d \in Live : Holds(t, d) => \A i \in DOMAIN context[d] :
         context[d][i] # Hole => context[d][i] \in registered[t]
  BY DEF SharedInv, PlacesKept, OnlyAdded
<1>20. \A k \in DOMAIN list : list[k] # Hole =>
         list[k] \in registered'[t] /\ \E i \in DOMAIN context[c] : context[c][i] = list[k]
  BY <1>2, <1>6, <1>7, <1>11, <1>19
<1>21. \A o \in registered'[t] : \A i \in DOMAIN context[c] : context[c][i] = o =>
         Keeps(t, c)' /\ \E k \in DOMAIN list : list[k] = o
  <2>1. \A o \in registered'[t] : o # Hole
    BY <1>2, <1>3, SharedListAssumption
  <2> QED
    BY <1>5, <1>11, <1>13, <1>14, <2>1
<1>22. \A d \in Live \ {c} : Holds(t, d) => \A i \in DOMAIN context[d] :
         context[d][i] # Hole => context[d][i] \in registered'[t]
  BY <1>2, <1>19
<1>23. /\ observer_lists_' \in [ListThread -> ContextAddress \cup {NoContext}]
       /\ wrappers' \in [ListThread -> Seq(ContextAddress)]
       /\ notifying' \in [ListThread -> Seq([context : ContextAddress, index : Nat])]
       /\ registered' \in [ListThread -> SUBSET SharedObserver]
       /\ registered'[t] \subseteq registered[t]
  <2>1. observer_lists_' \in [ListThread -> ContextAddress \cup {NoContext}]
    BY <1>2, <1>3
  <2>2. notifying' \in [ListThread -> Seq(C)]
    <3> HIDE DEF C
    <3> QED
      BY <1>2, <1>3, <1>4
  <2> QED
    BY <1>2, <1>3, <2>1, <2>2
<1>24. removing' = [removing EXCEPT ![t] = {}]
  BY <1>2, <1>3
<1>25. \A u \in ListThread : u # t =>
         /\ observer_lists_'[u] = observer_lists_[u]
         /\ notifying'[u] = notifying[u]
         /\ registered'[u] = registered[u]
  BY <1>2, <1>3
<1>26. Len(list) <= Len(context[c]) /\ list \in Seq(Slot)
  BY <1>11
<1>27. \A k, l \in DOMAIN list : list[k] = list[l] /\ list[k] # Hole => k = l
  BY <1>11
<1> QED
  BY <1>6, <1>7, <1>8, <1>15, <1>16, <1>17, <1>18, <1>20, <1>21, <1>22, <1>23,
     <1>24, <1>25, <1>26, <1>27, ListReplaced, Zenon

\* The invariant says where the contexts and the observers are.
LEMMA SharedInvSound ==
  SharedInv => SharedListSound
<1> SUFFICES ASSUME SharedInv
             PROVE  SharedListSound
  OBVIOUS
<1>1. ContextsOwned
  <2>1. ASSUME NEW c
        PROVE  c \in Live <=> \/ c \in Range(observer_lists_) \ {NoContext}
                              \/ \E t \in ListThread : c \in InUse(t)
    <3>1. \A t \in ListThread : c \in InUse(t) <=>
            Iterating(t, c) \/ \E r \in removing[t] : r.context = c
      BY DEF InUse, Iterating
    <3>2. c \in Range(observer_lists_) <=> \E t \in ListThread : c = observer_lists_[t]
      BY DEF Range, SharedInv, SharedTypeOK
    <3>3. c \in ContextAddress => c # NoContext
      BY SharedListAssumption
    <3>4. ASSUME NEW t \in ListThread
          PROVE  /\ c = observer_lists_[t] /\ c # NoContext => c \in ContextAddress
                 /\ c \in InUse(t) => c \in ContextAddress
      <4>1. c = observer_lists_[t] /\ c # NoContext => c \in ContextAddress
        BY DEF SharedInv, SharedTypeOK
      <4>2. \A r \in removing[t] : r.context \in ContextAddress
        BY DEF SharedInv, SharedTypeOK, Removal
      <4>3. \A i \in DOMAIN notifying[t] : notifying[t][i].context \in ContextAddress
        <5> DEFINE C == [context : ContextAddress, index : Nat]
        <5>1. notifying[t] \in Seq(C)
          BY DEF SharedInv, SharedTypeOK
        <5>2. \A f \in C : f.context \in ContextAddress
          OBVIOUS
        <5> HIDE DEF C
        <5> QED
          BY <5>1, <5>2
      <4> QED
        BY <4>1, <4>2, <4>3 DEF InUse
    <3>5. c \in Live => c \in ContextAddress
      BY DEF SharedInv, SharedTypeOK
    <3>6. c \in ContextAddress => (c \in Live <=> \E t \in ListThread :
            c = observer_lists_[t] \/ c \in InUse(t))
      BY <3>1 DEF SharedInv, OneOwner, Holds, Keeps
    <3> QED
      BY <3>2, <3>3, <3>4, <3>5, <3>6
  <2> QED
    BY <2>1 DEF ContextsOwned
<1>2. ASSUME NEW o \in SharedObserver
      PROVE  LET places == {p \in Live \X (1..MaxList) :
                              p[2] <= Len(context[p[1]]) /\ context[p[1]][p[2]] = o}
                 mine   == {t \in ListThread : o \in registered[t]}
             IN  /\ Cardinality(places) = Cardinality(mine)
                 /\ \A t \in mine : (removing[t] = {}) =>
                      \E p \in places : p[1] = observer_lists_[t]
  <2> DEFINE places == {p \in Live \X (1..MaxList) :
                          p[2] <= Len(context[p[1]]) /\ context[p[1]][p[2]] = o}
             mine   == {t \in ListThread : o \in registered[t]}
  <2>1. o # Hole
    BY SharedListAssumption
  <2>2. \A c, i : <<c, i>> \in places <=>
          c \in Live /\ i \in DOMAIN context[c] /\ context[c][i] = o
    <3>1. ASSUME NEW c \in Live, NEW i
          PROVE  i \in DOMAIN context[c] <=> i \in 1..MaxList /\ i <= Len(context[c])
      <4>1. /\ Len(context[c]) \in Nat /\ Len(context[c]) <= MaxList /\ MaxList \in Nat
            /\ DOMAIN context[c] = 1..Len(context[c])
        BY ListTyped, SharedListAssumption
      <4> QED
        BY <4>1
    <3> QED
      BY <3>1
  <2>3. \A p \in places : p = <<p[1], p[2]>>
    OBVIOUS
  <2> HIDE DEF places
  <2>4. ASSUME NEW t \in mine
        PROVE  \E c, i : <<c, i>> \in places /\ Keeps(t, c)
    <3>1. PICK c \in Live : Keeps(t, c) /\ \E i \in DOMAIN context[c] : context[c][i] = o
      BY DEF SharedInv, PlacesKept, NoneLost
    <3> QED
      BY <2>2, <3>1
  <2>5. \A p, q \in places : p = q
    <3>1. ASSUME NEW c, NEW d, NEW i, NEW j, <<c, i>> \in places, <<d, j>> \in places
          PROVE  c = d /\ i = j
      BY <2>1, <2>2, <3>1 DEF SharedInv, PlacesKept, OnePlace
    <3> QED
      BY <2>3, <3>1
  <2>6. \A t, u \in mine : t = u
    BY DEF SharedInv, PlacesKept, AddedOnce
  <2>7. ASSUME NEW p \in places
        PROVE  mine # {}
    <3>1. PICK c, i : p = <<c, i>>
      BY <2>3, <2>7
    <3>2. c \in Live /\ i \in DOMAIN context[c] /\ context[c][i] = o
      BY <2>2, <2>7, <3>1
    <3>3. PICK t \in ListThread : Holds(t, c)
      BY <3>2, ListTyped DEF SharedInv, OneOwner
    <3>4. o \in registered[t]
      BY <2>1, <3>2, <3>3 DEF SharedInv, PlacesKept, OnlyAdded
    <3> QED
      BY <3>4
  <2>8. Cardinality(places) = Cardinality(mine)
    <3>1. CASE mine = {}
      <4>1. places = {}
        BY <2>7, <3>1
      <4> QED
        BY <3>1, <4>1
    <3>2. CASE mine # {}
      <4>1. PICK t : mine = {t}
        <5> HIDE DEF mine
        <5> QED
          BY <2>6, <3>2
      <4>2. PICK p : p \in places
        BY <2>4, <3>2
      <4>3. places = {p}
        BY <2>5, <4>2
      <4> QED
        BY <4>1, <4>3, FS_Singleton
    <3> QED
      BY <3>1, <3>2
  <2>9. ASSUME NEW t \in mine, removing[t] = {}
        PROVE  \E p \in places : p[1] = observer_lists_[t]
    <3>1. PICK c, i : <<c, i>> \in places /\ Keeps(t, c)
      BY <2>4
    <3>2. c = observer_lists_[t]
      BY <2>9, <3>1 DEF Keeps
    <3>3. <<c, i>>[1] = c
      OBVIOUS
    <3> QED
      BY <3>1, <3>2, <3>3
  <2> QED
    BY <2>8, <2>9 DEF places
<1> QED
  BY <1>1, <1>2 DEF SharedListSound, ObserversAreReached

\* Every step keeps the invariant.
LEMMA SharedStep ==
  SharedInv /\ [SharedNext]_sharedVars => SharedInv'
<1> SUFFICES ASSUME SharedInv, [SharedNext]_sharedVars
             PROVE  SharedInv'
  OBVIOUS
<1>1. CASE UNCHANGED sharedVars
  <2>1. UNCHANGED <<observer_lists_, context, wrappers, notifying, removing, registered>>
    BY <1>1 DEF sharedVars
  <2>2. \A t, c : Iterating(t, c)' = Iterating(t, c)
    BY <2>1 DEF Iterating
  <2>3. \A t, c : Iterating(t, c) => Holds(t, c)
    BY DEF Holds
  <2>4. /\ wrappers' \in [ListThread -> Seq(ContextAddress)]
        /\ notifying' \in [ListThread -> Seq([context : ContextAddress, index : Nat])]
    BY <2>1 DEF SharedInv, SharedTypeOK
  <2> QED
    BY <2>1, <2>2, <2>3, <2>4, Undisturbed
<1>2. CASE Notify
  BY <1>2, NotifyShared
<1>3. ASSUME NEW t \in ListThread, NEW o \in SharedObserver, AddSharedObserver(t, o)
      PROVE  SharedInv'
  BY <1>3, AddShared
<1>4. ASSUME NEW t \in ListThread, NEW o \in SharedObserver, RemoveSharedObserver(t, o)
      PROVE  SharedInv'
  BY <1>4, RemoveShared
<1>5. ASSUME NEW t \in ListThread, FinishRemoving(t)
      PROVE  SharedInv'
  BY <1>5, FinishShared
<1>6. ASSUME NEW t \in ListThread, BeginWrapper(t)
      PROVE  SharedInv'
  BY <1>6, BeginShared
<1>7. ASSUME NEW t \in ListThread, NotifyNext(t)
      PROVE  SharedInv'
  BY <1>7, NextShared
<1>8. ASSUME NEW t \in ListThread, EndWrapper(t)
      PROVE  SharedInv'
  BY <1>8, EndShared
<1> QED
  BY <1>1, <1>2, <1>3, <1>4, <1>5, <1>6, <1>7, <1>8 DEF SharedNext

\* Of any number of threads and observers: a context lives exactly as long as
\* somebody will use it, and an observer is on the one list through which a
\* notification of now reaches it, from its AddObserver to its RemoveObserver.
THEOREM SharedListIsSound ==
  SharedSpec => []SharedListSound
<1>1. SharedInit => SharedInv
  BY SharedInitInv
<1>2. SharedInv /\ [SharedNext]_sharedVars => SharedInv'
  BY SharedStep
<1>3. SharedInv => SharedListSound
  BY SharedInvSound
<1> QED
  BY <1>1, <1>2, <1>3, PTL DEF SharedSpec
=============================================================================
