---------------------------- MODULE GuiViewsProofs ----------------------------
(***************************************************************************)
(* The event views, for any arrivals, texts and limits: what the lists show *)
(* and in which order, whatever the user does between two events.           *)
(***************************************************************************)
EXTENDS GuiViews, FiniteSetTheorems, SequenceTheorems, TLAPS

-----------------------------------------------------------------------------
(* Lists in an order *)

\* The k-th element of a list is the one that k - 1 others come before; in a
\* strict order of a finite set there always is one.
LEMMA Ranked ==
  ASSUME NEW S, IsFiniteSet(S), NEW below \in [S -> SUBSET S],
         \A x \in S : x \notin below[x],
         \A x, y \in S : y \in below[x] => below[y] \subseteq below[x],
         \A x, y \in S : x = y \/ x \in below[y] \/ y \in below[x],
         NEW list, DOMAIN list = 1..Cardinality(S),
         \A k \in 1..Cardinality(S) : (\E x \in S : Cardinality(below[x]) = k - 1) =>
           list[k] \in S /\ Cardinality(below[list[k]]) = k - 1
  PROVE  /\ \A k \in 1..Cardinality(S) : list[k] \in S
         /\ \A x \in S : \E k \in 1..Cardinality(S) : list[k] = x
         /\ \A i, j \in 1..Cardinality(S) : i < j => list[i] \in below[list[j]]
<1> DEFINE n == Cardinality(S)
           rank == [x \in S |-> Cardinality(below[x]) + 1]
<1>1. n \in Nat
  BY FS_CardinalityType
<1>2. \A x \in S : IsFiniteSet(below[x]) /\ Cardinality(below[x]) \in Nat
  BY FS_Subset, FS_CardinalityType
<1>3. ASSUME NEW x \in S, NEW y \in S, y \in below[x]
      PROVE  Cardinality(below[y]) < Cardinality(below[x])
  <2>1. below[y] \subseteq below[x] /\ y \notin below[y]
    BY <1>3
  <2>2. IsFiniteSet(below[x]) /\ below[y] \in SUBSET below[x]
    BY <1>2, <2>1
  <2>3. Cardinality(below[y]) <= Cardinality(below[x])
    BY <2>2, FS_Subset
  <2>4. Cardinality(below[y]) # Cardinality(below[x])
    <3> SUFFICES ASSUME Cardinality(below[x]) = Cardinality(below[y]) PROVE FALSE
      OBVIOUS
    <3>1. below[x] = below[y]
      BY <2>2, FS_Subset
    <3> QED BY <1>3, <2>1, <3>1
  <2> QED BY <1>2, <2>3, <2>4
<1>4. \A x \in S : Cardinality(below[x]) < n
  <2> TAKE x \in S
  <2>1. below[x] \in SUBSET S
    OBVIOUS
  <2>2. Cardinality(below[x]) <= Cardinality(S)
    BY <2>1, FS_Subset
  <2>3. Cardinality(below[x]) # Cardinality(S)
    <3> SUFFICES ASSUME Cardinality(S) = Cardinality(below[x]) PROVE FALSE
      OBVIOUS
    <3>1. S = below[x]
      BY <2>1, FS_Subset
    <3> QED BY <3>1
  <2> QED BY <1>1, <1>2, <2>2, <2>3
<1>5. rank \in [S -> 1..n]
  BY <1>1, <1>2, <1>4
<1>6. \A x, y \in S : rank[x] = rank[y] => x = y
  <2> SUFFICES ASSUME NEW x \in S, NEW y \in S, Cardinality(below[x]) = Cardinality(below[y])
               PROVE  x = y
    BY <1>2
  <2>1. Cardinality(below[x]) \in Nat
    BY <1>2
  <2>2. x \notin below[y] /\ y \notin below[x]
    BY <1>3, <2>1
  <2> QED BY <2>2
<1>7. rank \in Injection(S, 1..n)
  BY <1>5, <1>6 DEF Injection, IsInjective
<1>8. IsFiniteSet(1..n) /\ Cardinality(1..n) = n
  BY <1>1, FS_Interval
<1> HIDE DEF rank
<1>9. rank \in Surjection(S, 1..n)
  BY <1>7, <1>8, FS_Injection
<1>10. \A k \in 1..n : list[k] \in S /\ Cardinality(below[list[k]]) = k - 1
  <2> TAKE k \in 1..n
  <2>1. PICK x \in S : rank[x] = k
    BY <1>9 DEF Surjection
  <2>2. Cardinality(below[x]) = k - 1
    BY <1>1, <1>2, <2>1 DEF rank
  <2> QED BY <2>2
<1>11. ASSUME NEW x \in S PROVE \E k \in 1..n : list[k] = x
  <2>1. rank[x] \in 1..n
    BY <1>5
  <2>2. list[rank[x]] \in S /\ Cardinality(below[list[rank[x]]]) = rank[x] - 1
    BY <1>10, <2>1
  <2>3. rank[list[rank[x]]] = rank[x]
    BY <1>1, <2>1, <2>2 DEF rank
  <2> QED BY <1>6, <2>1, <2>2, <2>3
<1>12. ASSUME NEW i \in 1..n, NEW j \in 1..n, i < j PROVE list[i] \in below[list[j]]
  <2>1. /\ list[i] \in S /\ list[j] \in S
        /\ Cardinality(below[list[i]]) = i - 1 /\ Cardinality(below[list[j]]) = j - 1
    BY <1>10
  <2>2. list[i] # list[j]
    BY <1>1, <1>12, <2>1
  <2>3. list[j] \notin below[list[i]]
    <3> SUFFICES ASSUME list[j] \in below[list[i]] PROVE FALSE
      OBVIOUS
    <3>1. j - 1 < i - 1
      BY <1>3, <2>1
    <3> QED BY <1>1, <1>12, <3>1
  <2> QED BY <2>1, <2>2, <2>3
<1> QED BY <1>10, <1>11, <1>12

LEMMA FiniteIndexes ==
  ASSUME NEW n \in Nat, NEW S \in SUBSET (1..n)
  PROVE  S \in SUBSET Nat /\ IsFiniteSet(S)
<1>1. IsFiniteSet(1..n)
  BY FS_Interval
<1>2. IsFiniteSet(S)
  BY <1>1, FS_Subset
<1> QED BY <1>2

\* InOrder lists each number of a set once, in increasing order.
LEMMA InOrderCorrect ==
  ASSUME NEW S \in SUBSET Nat, IsFiniteSet(S)
  PROVE  /\ InOrder(S) \in Seq(S) /\ IsInjective(InOrder(S))
         /\ ToSet(InOrder(S)) = S /\ Len(InOrder(S)) = Cardinality(S)
         /\ \A i, j \in DOMAIN InOrder(S) : i < j => InOrder(S)[i] < InOrder(S)[j]
<1> DEFINE n == Cardinality(S)
           below == [x \in S |-> {j \in S : j < x}]
           list == InOrder(S)
<1>1. n \in Nat
  BY FS_CardinalityType
<1>2. below \in [S -> SUBSET S]
  OBVIOUS
<1>3. /\ \A x \in S : x \notin below[x]
      /\ \A x, y \in S : y \in below[x] => below[y] \subseteq below[x]
      /\ \A x, y \in S : x = y \/ x \in below[y] \/ y \in below[x]
  <2>1. \A x \in S : x \in Nat /\ below[x] \subseteq S /\ \A y \in S : y \in below[x] <=> y < x
    OBVIOUS
  <2> HIDE DEF below
  <2>2. \A x \in S : x \notin below[x]
    BY <2>1
  <2>3. ASSUME NEW x \in S, NEW y \in S, y \in below[x] PROVE below[y] \subseteq below[x]
    BY <2>1, <2>3
  <2>4. ASSUME NEW x \in S, NEW y \in S PROVE x = y \/ x \in below[y] \/ y \in below[x]
    BY <2>1
  <2> QED BY <2>2, <2>3, <2>4
<1>4. DOMAIN list = 1..n
  BY DEF InOrder
<1>5. ASSUME NEW k \in 1..n, NEW x \in S, Cardinality(below[x]) = k - 1
      PROVE  list[k] \in S /\ Cardinality(below[list[k]]) = k - 1
  <2>1. list[k] = CHOOSE i \in S : Cardinality({j \in S : j < i}) = k - 1
    BY DEF InOrder
  <2>2. Cardinality({j \in S : j < x}) = k - 1
    BY <1>5
  <2>3. list[k] \in S /\ Cardinality({j \in S : j < list[k]}) = k - 1
    BY <2>1, <2>2
  <2> QED BY <2>3
<1> HIDE DEF below, list
<1>b. \A k \in 1..Cardinality(S) : (\E x \in S : Cardinality(below[x]) = k - 1) =>
        list[k] \in S /\ Cardinality(below[list[k]]) = k - 1
  BY <1>5
<1>6. /\ \A k \in 1..n : list[k] \in S
      /\ \A x \in S : \E k \in 1..n : list[k] = x
      /\ \A i, j \in 1..n : i < j => list[i] \in below[list[j]]
  BY <1>2, <1>3, <1>4, <1>b, Ranked
<1>7. \A i, j \in 1..n : i < j => list[i] < list[j]
  BY <1>6 DEF below
<1>8. list \in Seq(S) /\ Len(list) = n
  <2> DEFINE At(k) == CHOOSE i \in S : Cardinality({j \in S : j < i}) = k - 1
  <2>1. list = [k \in 1..n |-> At(k)]
    BY Zenon DEF InOrder, list
  <2> HIDE DEF At
  <2>2. list = [k \in 1..n |-> list[k]]
    BY <2>1
  <2>3. list \in [1..n -> S]
    BY <1>6, <2>2
  <2> QED BY <1>1, <2>3, SeqDef
<1>9. IsInjective(list)
  <2> SUFFICES ASSUME NEW i \in 1..n, NEW j \in 1..n, i < j PROVE list[i] # list[j]
    BY <1>1, <1>4 DEF IsInjective
  <2>1. list[i] < list[j] /\ list[i] \in Nat /\ list[j] \in Nat
    BY <1>6, <1>7
  <2> QED BY <2>1
<1>10. ToSet(list) = S
  BY <1>4, <1>6 DEF ToSet
<1> QED BY <1>4, <1>7, <1>8, <1>9, <1>10 DEF list

AnyType == {"start", "stop", "network", "alert"}

\* compare_event_items is a strict order that distinguishes any two events.
LEMMA BeforeIsOrder ==
  ASSUME NEW history \in Seq(Event(AnyType)), NEW sort \in SortStates
  PROVE  /\ \A l \in DOMAIN history : ~Before(sort, history, l, l)
         /\ \A l, m, r \in DOMAIN history :
              Before(sort, history, l, m) /\ Before(sort, history, m, r)
                => Before(sort, history, l, r)
         /\ \A l, r \in DOMAIN history :
              l = r \/ Before(sort, history, l, r) \/ Before(sort, history, r, l)
<1> DEFINE v(i) == ColumnValue(history[i], sort.column)
<1>1. \A i \in DOMAIN history : i \in Nat /\ v(i) \in Nat
  <2> TAKE i \in DOMAIN history
  <2>1. history[i] \in Event(AnyType) /\ i \in Nat
    OBVIOUS
  <2>2. history[i].timestamp \in Nat /\ history[i].process_name \in DOMAIN NameOrder
    BY <2>1 DEF Event
  <2>3. NameOrder[history[i].process_name] \in Nat
    BY <2>2, NameOrderAssumption
  <2> QED BY <2>1, <2>2, <2>3 DEF ColumnValue
<1>2. sort.ascending \in BOOLEAN
  BY DEF SortStates
<1> HIDE DEF v
<1>3. CASE sort.ascending = TRUE
  <2>1. \A l, r \in DOMAIN history :
          Before(sort, history, l, r) <=> v(l) < v(r) \/ (v(l) = v(r) /\ l < r)
    BY <1>1, <1>3 DEF Before, v
  <2> QED BY <1>1, <2>1
<1>4. CASE sort.ascending = FALSE
  <2>1. \A l, r \in DOMAIN history :
          Before(sort, history, l, r) <=> v(r) < v(l) \/ (v(l) = v(r) /\ r < l)
    BY <1>1, <1>4 DEF Before, v
  <2> QED BY <1>1, <2>1
<1> QED BY <1>2, <1>3, <1>4

\* What sort_view leaves: the same events, each once, in the order of the column.
LEMMA SortedByCorrect ==
  ASSUME NEW history \in Seq(Event(AnyType)), NEW sort \in SortStates,
         NEW S \in SUBSET DOMAIN history
  PROVE  LET list == SortedBy(sort, history, S)
         IN  /\ list \in Seq(S) /\ IsInjective(list) /\ ToSet(list) = S
             /\ \A i, j \in DOMAIN list : i < j => Before(sort, history, list[i], list[j])
<1> DEFINE n == Cardinality(S)
           below == [x \in S |-> {j \in S : Before(sort, history, j, x)}]
           list == SortedBy(sort, history, S)
<1>1. IsFiniteSet(S) /\ n \in Nat
  <2>1. DOMAIN history = 1..Len(history) /\ Len(history) \in Nat
    OBVIOUS
  <2>2. IsFiniteSet(1..Len(history)) /\ S \in SUBSET (1..Len(history))
    BY <2>1, FS_Interval
  <2>3. IsFiniteSet(S)
    BY <2>2, FS_Subset
  <2> QED BY <2>3, FS_CardinalityType
<1>2. below \in [S -> SUBSET S]
  OBVIOUS
<1>3. /\ \A x \in S : x \notin below[x]
      /\ \A x, y \in S : y \in below[x] => below[y] \subseteq below[x]
      /\ \A x, y \in S : x = y \/ x \in below[y] \/ y \in below[x]
  <2>1. /\ \A x \in S : x \in DOMAIN history /\ below[x] \subseteq S
        /\ \A x, y \in S : y \in below[x] <=> Before(sort, history, y, x)
    OBVIOUS
  <2> HIDE DEF below
  <2>2. \A x \in S : x \notin below[x]
    BY <2>1, BeforeIsOrder
  <2>3. ASSUME NEW x \in S, NEW y \in S, y \in below[x] PROVE below[y] \subseteq below[x]
    BY <2>1, <2>3, BeforeIsOrder
  <2>4. ASSUME NEW x \in S, NEW y \in S PROVE x = y \/ x \in below[y] \/ y \in below[x]
    BY <2>1, BeforeIsOrder
  <2> QED BY <2>2, <2>3, <2>4
<1> DEFINE At(k) ==
             CHOOSE i \in S : Cardinality({j \in S : Before(sort, history, j, i)}) = k - 1
<1>4. list = [k \in 1..n |-> At(k)]
  BY Zenon DEF SortedBy
<1>5. ASSUME NEW k \in 1..n, NEW x \in S, Cardinality(below[x]) = k - 1
      PROVE  list[k] \in S /\ Cardinality(below[list[k]]) = k - 1
  <2>1. list[k] = At(k)
    <3> HIDE DEF At, list
    <3> QED BY <1>4
  <2>2. Cardinality({j \in S : Before(sort, history, j, x)}) = k - 1
    BY <1>5
  <2>3. At(k) \in S /\ Cardinality({j \in S : Before(sort, history, j, At(k))}) = k - 1
    BY <2>2, Zenon
  <2> HIDE DEF At, list
  <2> QED BY <2>1, <2>3
<1> HIDE DEF below, list, At
<1>6. DOMAIN list = 1..n /\ list = [k \in 1..n |-> list[k]]
  BY <1>4
<1>b. \A k \in 1..Cardinality(S) : (\E x \in S : Cardinality(below[x]) = k - 1) =>
        list[k] \in S /\ Cardinality(below[list[k]]) = k - 1
  BY <1>5
<1>7. /\ \A k \in 1..n : list[k] \in S
      /\ \A x \in S : \E k \in 1..n : list[k] = x
      /\ \A i, j \in 1..n : i < j => list[i] \in below[list[j]]
  BY <1>1, <1>2, <1>3, <1>6, <1>b, Ranked
<1>8. \A i, j \in 1..n : i < j => Before(sort, history, list[i], list[j])
  BY <1>7 DEF below
<1>9. list \in Seq(S)
  <2>1. list \in [1..n -> S]
    BY <1>6, <1>7
  <2> QED BY <1>1, <2>1, SeqDef
<1>10. IsInjective(list)
  <2> SUFFICES ASSUME NEW i \in 1..n, NEW j \in 1..n, i < j PROVE list[i] # list[j]
    BY <1>1, <1>6 DEF IsInjective
  <2>1. Before(sort, history, list[i], list[j]) /\ list[j] \in DOMAIN history
    BY <1>7, <1>8
  <2>2. ~Before(sort, history, list[j], list[j])
    BY <2>1, BeforeIsOrder
  <2> QED BY <2>1, <2>2
<1>11. ToSet(list) = S
  BY <1>6, <1>7 DEF ToSet
<1> QED BY <1>6, <1>8, <1>9, <1>10, <1>11 DEF list

LEMMA SortViewCorrect ==
  ASSUME NEW history \in Seq(Event(AnyType)), NEW sort \in SortStates, NEW forced \in BOOLEAN,
         NEW list \in Seq(DOMAIN history), IsInjective(list)
  PROVE  LET out == SortView(sort, forced, history, list)
         IN  /\ out \in Seq(DOMAIN history) /\ IsInjective(out) /\ ToSet(out) = ToSet(list)
             /\ sort.active => \A i, j \in DOMAIN out :
                                i < j => Before(sort, history, out[i], out[j])
<1> DEFINE order == IF sort.active THEN sort ELSE DefaultSort
           S == ToSet(list)
           by == SortedBy(order, history, S)
<1>1. order \in SortStates /\ S \in SUBSET DOMAIN history
  BY DEF SortStates, DefaultSort, Columns, ToSet
<1> HIDE DEF order, S
<1>2. /\ by \in Seq(S) /\ IsInjective(by) /\ ToSet(by) = S
      /\ \A i, j \in DOMAIN by : i < j => Before(order, history, by[i], by[j])
  BY <1>1, SortedByCorrect
<1> HIDE DEF by
<1>3. by \in Seq(DOMAIN history)
  BY <1>1, <1>2
<1>4. SortView(sort, forced, history, list) = IF sort.active \/ forced THEN by ELSE list
  BY DEF SortView, by, order, S
<1>5. sort.active => order = sort
  BY DEF order
<1> QED BY <1>2, <1>3, <1>4, <1>5 DEF S

-----------------------------------------------------------------------------
(* Lists of the newest, and of what the rules give *)

LEMMA NewestCorrect ==
  ASSUME NEW n \in Nat, NEW shown \in SUBSET (1..n), NEW limit \in Nat
  PROVE  Newest(shown, limit) \in Seq(1..n) /\ IsInjective(Newest(shown, limit))
<1> DEFINE T == {i \in shown : Cardinality({j \in shown : j > i}) < limit}
           list == InOrder(T)
<1>1. T \in SUBSET (1..n) /\ T \in SUBSET Nat
  <2>1. T \subseteq shown
    OBVIOUS
  <2> HIDE DEF T
  <2> QED BY <2>1
<1>2. IsFiniteSet(T)
  <2> HIDE DEF T
  <2>1. IsFiniteSet(1..n)
    BY FS_Interval
  <2> QED BY <1>1, <2>1, FS_Subset
<1>3. Newest(shown, limit) = Reverse(list)
  BY Zenon DEF Newest
<1> HIDE DEF T
<1>4. list \in Seq(T) /\ IsInjective(list)
  BY <1>1, <1>2, InOrderCorrect
<1> HIDE DEF list
<1>5. list \in Seq(1..n)
  <2>1. Len(list) \in Nat /\ list \in [1..Len(list) -> T]
    BY <1>4
  <2>2. list \in [1..Len(list) -> 1..n]
    BY <1>1, <2>1
  <2> QED BY <2>1, <2>2, SeqDef
<1>6. Reverse(list) \in Seq(1..n) /\ IsInjective(Reverse(list))
  <2>1. /\ Reverse(list) = [i \in 1..Len(list) |-> list[(Len(list) - i) + 1]]
        /\ Len(list) \in Nat /\ DOMAIN list = 1..Len(list)
        /\ \A i \in 1..Len(list) : list[i] \in 1..n
    BY <1>5 DEF Reverse
  <2>2. Reverse(list) \in [1..Len(list) -> 1..n]
    BY <2>1
  <2>3. Reverse(list) \in Seq(1..n)
    BY <2>1, <2>2, SeqDef
  <2>4. ASSUME NEW i \in 1..Len(list), NEW j \in 1..Len(list), Reverse(list)[i] = Reverse(list)[j]
        PROVE  i = j
    <3>1. list[(Len(list) - i) + 1] = list[(Len(list) - j) + 1]
      BY <2>1, <2>4
    <3>2. (Len(list) - i) + 1 \in 1..Len(list) /\ (Len(list) - j) + 1 \in 1..Len(list)
      BY <2>1
    <3>3. (Len(list) - i) + 1 = (Len(list) - j) + 1
      BY <1>4, <2>1, <3>1, <3>2 DEF IsInjective
    <3> QED BY <2>1, <3>3
  <2> QED BY <2>1, <2>3, <2>4 DEF IsInjective
<1> QED BY <1>3, <1>6

LEMMA NothingNewest ==
  ASSUME NEW limit PROVE Newest({}, limit) = <<>>
<1> DEFINE T == {i \in {} : Cardinality({j \in {} : j > i}) < limit}
<1>1. T = {}
  OBVIOUS
<1>2. Newest({}, limit) = Reverse(InOrder(T))
  BY Zenon DEF Newest
<1> HIDE DEF T
<1>3. Cardinality({}) = 0
  BY FS_EmptySet
<1>4. InOrder({}) \in Seq({}) /\ Len(InOrder({})) = 0
  BY <1>3, FS_EmptySet, InOrderCorrect
<1>5. InOrder({}) = <<>>
  BY <1>4
<1>6. Reverse(<<>>) = <<>>
  BY DEF Reverse
<1> QED BY <1>1, <1>2, <1>5, <1>6

\* The elements at some positions are elements, and no more alike than before.
LEMMA ElementsCorrect ==
  ASSUME NEW X, NEW s \in Seq(X), NEW positions \in SUBSET DOMAIN s
  PROVE  /\ Elements(s, positions) \in Seq(X)
         /\ \A k \in DOMAIN Elements(s, positions) :
              \E p \in positions : Elements(s, positions)[k] = s[p]
         /\ IsInjective(s) => IsInjective(Elements(s, positions))
<1> DEFINE list == InOrder(positions)
<1>1. DOMAIN s = 1..Len(s) /\ Len(s) \in Nat /\ \A i \in DOMAIN s : s[i] \in X
  OBVIOUS
<1>2. positions \in SUBSET Nat /\ IsFiniteSet(positions)
  <2>1. IsFiniteSet(1..Len(s)) /\ positions \in SUBSET (1..Len(s))
    BY <1>1, FS_Interval
  <2> QED BY <1>1, <2>1, FS_Subset
<1>3. list \in Seq(positions) /\ IsInjective(list)
  BY <1>2, InOrderCorrect
<1>4. Elements(s, positions) = [k \in DOMAIN list |-> s[list[k]]]
  BY DEF Elements
<1> HIDE DEF list
<1>5. DOMAIN list = 1..Len(list) /\ Len(list) \in Nat /\ \A k \in DOMAIN list : list[k] \in positions
  BY <1>3
<1>6. Elements(s, positions) \in [1..Len(list) -> X]
  BY <1>1, <1>4, <1>5
<1>7. Elements(s, positions) \in Seq(X)
  BY <1>5, <1>6, SeqDef
<1>8. IsInjective(s) => IsInjective(Elements(s, positions))
  BY <1>3, <1>4, <1>5 DEF IsInjective
<1> QED BY <1>4, <1>5, <1>7, <1>8

Collected == Event({"start", "stop", "network"})

\* detection_evaluate gives alerts about the event, one for a rule at most.
LEMMA EvaluateCorrect ==
  ASSUME NEW event \in Collected, NEW capacity \in Nat
  PROVE  /\ Evaluate(event, capacity) \in Seq(Event({"alert"}))
         /\ IsInjective(Evaluate(event, capacity))
         /\ \A k \in DOMAIN Evaluate(event, capacity) :
              \E rule \in ToSet(Rules) : /\ RuleApplies(rule, event)
                                        /\ Evaluate(event, capacity)[k] = Alert(event, rule)
<1> DEFINE applying == {k \in DOMAIN Rules : RuleApplies(Rules[k], event)}
           rules == Elements(Rules, applying)
           n == IF Len(rules) < capacity THEN Len(rules) ELSE capacity
<1>1. Rules \in Seq(ToSet(Rules)) /\ IsInjective(Rules)
  <2>2. /\ DOMAIN Rules = 1..3 /\ Rules[1] = "office" /\ Rules[2] = "temporary"
        /\ Rules[3] = "network"
    BY DEF Rules
  <2>3. \A i \in 1..3 : i = 1 \/ i = 2 \/ i = 3
    OBVIOUS
  <2>4. Rules \in Seq(ToSet(Rules))
    <3>1. \A i \in 1..3 : Rules[i] \in ToSet(Rules)
      BY <2>2 DEF ToSet
    <3>2. Rules \in Seq({"office", "temporary", "network"})
      BY DEF Rules
    <3>3. Rules \in [1..3 -> ToSet(Rules)]
      <4>1. Rules \in [1..Len(Rules) -> {"office", "temporary", "network"}] /\ Len(Rules) = 3
        BY <3>2 DEF Rules
      <4> HIDE DEF Rules
      <4> QED BY <3>1, <4>1
    <3> QED BY <3>3, SeqDef
  <2>5. IsInjective(Rules)
    BY <2>2, <2>3 DEF IsInjective
  <2> QED BY <2>4, <2>5
<1>2. /\ rules \in Seq(ToSet(Rules)) /\ IsInjective(rules)
      /\ \A k \in DOMAIN rules : \E p \in applying : rules[k] = Rules[p]
  <2>1. applying \in SUBSET DOMAIN Rules
    OBVIOUS
  <2> HIDE DEF applying
  <2> QED BY <1>1, <2>1, ElementsCorrect
<1>3. \A k \in DOMAIN rules : rules[k] \in ToSet(Rules) /\ RuleApplies(rules[k], event)
  BY <1>2 DEF ToSet
<1>4. Evaluate(event, capacity) = [i \in 1..n |-> Alert(event, rules[i])]
  BY DEF Evaluate, AlertsOf, Collected, Event
<1> HIDE DEF applying, rules
<1>5. n \in Nat /\ 1..n \subseteq DOMAIN rules
  BY <1>2
<1> HIDE DEF n
<1>6. ASSUME NEW rule \in ToSet(Rules)
      PROVE  Alert(event, rule) \in Event({"alert"}) /\ Alert(event, rule).rule_name = rule
  BY DEF Alert, Collected, Event
<1>7. \A i \in 1..n : rules[i] \in ToSet(Rules)
  BY <1>2, <1>5
<1>8. Evaluate(event, capacity) \in [1..n -> Event({"alert"})]
  BY <1>4, <1>6, <1>7
<1>9. Evaluate(event, capacity) \in Seq(Event({"alert"}))
  BY <1>5, <1>8, SeqDef
<1>10. IsInjective(Evaluate(event, capacity))
  <2> SUFFICES ASSUME NEW i \in 1..n, NEW j \in 1..n,
                      Alert(event, rules[i]) = Alert(event, rules[j])
               PROVE  i = j
    BY <1>4 DEF IsInjective
  <2>1. rules[i] = rules[j]
    BY <1>6, <1>7
  <2> QED BY <1>2, <1>5, <2>1 DEF IsInjective
<1> QED BY <1>3, <1>4, <1>5, <1>9, <1>10

-----------------------------------------------------------------------------
(* What holds between any two steps *)

\* A drain that is not running has nothing to remember; what a paused view has
\* missed is either remembered or about to be.
Quiet ==
  /\ ~drain.running => drain = Idle
  /\ drain.tree_changed => drain.any_accepted
  /\ render_dirty => rendering_paused

\* New rows are added while the queue is drained, unless the view is paused; the
\* rest of the window follows at the end.
Behind == render_dirty \/ drain.any_accepted
RowsShown ==
  ~filter_timer_active /\ ~(rendering_paused /\ Behind) =>
    \A view \in ListViews :
      ToSet(rows[view]) = Listed(view, events, event_filter, refused)
RecentShown ==
  ~filter_timer_active /\ ~Behind => recent = RebuiltRecent(event_filter, refused)
MetricShown == ~Behind => metric = Len(events)
TreeShown ==
  ~render_dirty /\ ~drain.tree_changed =>
    \A i \in DOMAIN events : events[i].type \in {"start", "stop"} /\ ~tree_failed => i <= tree

Ordered(view) ==
  \A i, j \in DOMAIN rows[view] :
    i < j => Before(sort_states[view], events, rows[view][i], rows[view][j])
RowsSorted ==
  rendering_paused \/ ~drain.any_accepted =>
    \A view \in ListViews : sort_states[view].active => Ordered(view)

ShownInv == RowsShown /\ RecentShown /\ MetricShown /\ TreeShown
ViewsInv == TypeOK /\ Quiet /\ ShownInv /\ RowsSorted /\ AlertsFollowCause

LEMMA SeqOfMore ==
  ASSUME NEW S, NEW T, S \subseteq T, NEW s \in Seq(S)
  PROVE  s \in Seq(T)
<1>1. Len(s) \in Nat /\ s \in [1..Len(s) -> S]
  OBVIOUS
<1>2. s \in [1..Len(s) -> T]
  BY <1>1
<1> QED BY <1>1, <1>2, SeqDef

\* The history after an event and its alerts.
LEMMA HistoryGrows ==
  ASSUME NEW X, NEW h \in Seq(X), NEW e \in X, NEW alerts \in Seq(X),
         NEW out, out = h \o <<e>> \o alerts
  PROVE  /\ out \in Seq(X) /\ Len(out) = Len(h) + 1 + Len(alerts)
         /\ \A i \in DOMAIN h : i \in DOMAIN out /\ out[i] = h[i]
         /\ Len(h) + 1 \in DOMAIN out /\ out[Len(h) + 1] = e
         /\ \A i \in DOMAIN out :
              i > Len(h) + 1 => /\ i - (Len(h) + 1) \in DOMAIN alerts
                                /\ out[i] = alerts[i - (Len(h) + 1)]
<1> DEFINE g == h \o <<e>>
<1>1. /\ g \in Seq(X) /\ Len(g) = Len(h) + 1 /\ Len(h) \in Nat /\ Len(alerts) \in Nat
      /\ \A i \in 1..Len(h) : g[i] = h[i]
      /\ g[Len(h) + 1] = e
  OBVIOUS
<1> HIDE DEF g
<1>2. out = g \o alerts
  BY DEF g
<1>3. /\ out \in Seq(X) /\ Len(out) = Len(g) + Len(alerts)
      /\ \A i \in 1..Len(g) + Len(alerts) :
           out[i] = IF i <= Len(g) THEN g[i] ELSE alerts[i - Len(g)]
  <2>1. g \in Seq(X)
    BY <1>1
  <2>2. /\ g \o alerts \in Seq(X) /\ Len(g \o alerts) = Len(g) + Len(alerts)
        /\ \A i \in 1..Len(g) + Len(alerts) :
             (g \o alerts)[i] = IF i <= Len(g) THEN g[i] ELSE alerts[i - Len(g)]
    BY <2>1, ConcatProperties
  <2> QED BY <1>2, <2>2, Zenon
<1>4. DOMAIN out = 1..Len(h) + 1 + Len(alerts) /\ DOMAIN h = 1..Len(h)
      /\ DOMAIN alerts = 1..Len(alerts)
  BY <1>1, <1>3
<1>5. \A i \in DOMAIN h : i \in DOMAIN out /\ out[i] = h[i]
  BY <1>1, <1>3, <1>4
<1>6. Len(h) + 1 \in DOMAIN out /\ out[Len(h) + 1] = e
  BY <1>1, <1>3, <1>4
<1>7. \A i \in DOMAIN out :
        i > Len(h) + 1 => /\ i - (Len(h) + 1) \in DOMAIN alerts
                          /\ out[i] = alerts[i - (Len(h) + 1)]
  BY <1>1, <1>3, <1>4
<1> QED BY <1>1, <1>3, <1>5, <1>6, <1>7

LEMMA EventTypes ==
  Collected \subseteq Event(AnyType) /\ Event({"alert"}) \subseteq Event(AnyType)
BY DEF Collected, Event, AnyType

\* What an accepted event adds to the history.
LEMMA Accepted ==
  ASSUME AcceptEvent
  PROVE  \E event \in Collected, alerts \in Seq(Event({"alert"})) :
           /\ events' = events \o <<event>> \o alerts
           /\ IF rendering_paused THEN UNCHANGED <<rows, refused>>
              ELSE \E lost \in SUBSET Refusable(ListViews, events', event_filter, Len(events) + 1) :
                     rows' = WithRows(events', lost) /\ refused' = refused \union lost
           /\ drain' = [drain EXCEPT !.any_accepted = TRUE,
                                     !.tree_changed = @ \/ event.type \in {"start", "stop"}]
           /\ IsInjective(alerts)
           /\ \A k \in DOMAIN alerts :
                \E rule \in ToSet(Rules) : RuleApplies(rule, event) /\ alerts[k] = Alert(event, rule)
<1>1. PICK event \in Arrivals :
        \E alerts \in Subsequences(Evaluate(event, MaxAlertsPerEvent)) :
          /\ events' = events \o <<event>> \o alerts
          /\ IF rendering_paused THEN UNCHANGED <<rows, refused>>
             ELSE \E lost \in SUBSET Refusable(ListViews, events \o <<event>> \o alerts, event_filter,
                                              Len(events) + 1) :
                    rows' = WithRows(events \o <<event>> \o alerts, lost) /\ refused' = refused \union lost
          /\ drain' = [drain EXCEPT !.any_accepted = TRUE,
                                    !.tree_changed = @ \/ event.type \in {"start", "stop"}]
  BY Zenon DEF AcceptEvent
<1>2. event \in Collected
  BY ArrivalsAssumption DEF Collected
<1> DEFINE all == Evaluate(event, MaxAlertsPerEvent)
<1>3. /\ all \in Seq(Event({"alert"})) /\ IsInjective(all)
      /\ \A k \in DOMAIN all : \E rule \in ToSet(Rules) :
           RuleApplies(rule, event) /\ all[k] = Alert(event, rule)
  BY <1>2, EvaluateCorrect DEF MaxAlertsPerEvent
<1>a. PICK alerts \in Subsequences(all) :
        /\ events' = events \o <<event>> \o alerts
        /\ IF rendering_paused THEN UNCHANGED <<rows, refused>>
           ELSE \E lost \in SUBSET Refusable(ListViews, events \o <<event>> \o alerts, event_filter,
                                            Len(events) + 1) :
                  rows' = WithRows(events \o <<event>> \o alerts, lost) /\ refused' = refused \union lost
        /\ drain' = [drain EXCEPT !.any_accepted = TRUE,
                                  !.tree_changed = @ \/ event.type \in {"start", "stop"}]
  BY <1>1, Zenon
<1>4. PICK kept \in SUBSET DOMAIN all : alerts = Elements(all, kept)
  BY DEF Subsequences
<1> HIDE DEF all
<1>5. /\ alerts \in Seq(Event({"alert"})) /\ IsInjective(alerts)
      /\ \A k \in DOMAIN alerts : \E p \in kept : alerts[k] = all[p]
  BY <1>3, <1>4, ElementsCorrect
<1>6. \A k \in DOMAIN alerts : \E rule \in ToSet(Rules) :
        RuleApplies(rule, event) /\ alerts[k] = Alert(event, rule)
  BY <1>3, <1>4, <1>5
<1>7. IF rendering_paused THEN UNCHANGED <<rows, refused>>
      ELSE \E lost \in SUBSET Refusable(ListViews, events', event_filter, Len(events) + 1) :
             rows' = WithRows(events', lost) /\ refused' = refused \union lost
  BY <1>a, Zenon
<1> QED BY <1>a, <1>2, <1>5, <1>6, <1>7

-----------------------------------------------------------------------------
(* Rebuilding *)

LEMMA RebuiltCorrect ==
  ASSUME TypeOK, NEW filter, NEW lost, NEW new, new = RebuiltRows(filter, lost)
  PROVE  /\ new \in [ListViews -> Seq(DOMAIN events)]
         /\ \A view \in ListViews :
              /\ IsInjective(new[view]) /\ ToSet(new[view]) = Listed(view, events, filter, lost)
              /\ sort_states[view].active =>
                   \A i, j \in DOMAIN new[view] :
                     i < j => Before(sort_states[view], events, new[view][i], new[view][j])
<1>1. events \in Seq(Event(AnyType)) /\ sort_states \in [ListViews -> SortStates]
  BY DEF TypeOK, AnyType
<1>2. DOMAIN events = 1..Len(events) /\ Len(events) \in Nat
  BY <1>1
<1>3. ASSUME NEW view \in ListViews
      PROVE  /\ new[view] \in Seq(DOMAIN events)
             /\ IsInjective(new[view]) /\ ToSet(new[view]) = Listed(view, events, filter, lost)
             /\ sort_states[view].active =>
                  \A i, j \in DOMAIN new[view] :
                    i < j => Before(sort_states[view], events, new[view][i], new[view][j])
  <2> DEFINE S == Listed(view, events, filter, lost)
             list == InOrder(S)
  <2>1. S \in SUBSET DOMAIN events
    BY DEF Listed, RowsOf
  <2>2. new[view] = SortView(sort_states[view], TRUE, events, list)
    BY DEF RebuiltRows
  <2> HIDE DEF S
  <2>3. S \in SUBSET Nat /\ IsFiniteSet(S)
    BY <1>2, <2>1, FiniteIndexes
  <2>4. list \in Seq(S) /\ IsInjective(list) /\ ToSet(list) = S
    BY <2>3, InOrderCorrect
  <2> HIDE DEF list
  <2>5. list \in Seq(DOMAIN events)
    BY <2>1, <2>4, SeqOfMore
  <2>6. sort_states[view] \in SortStates
    BY <1>1
  <2> DEFINE out == SortView(sort_states[view], TRUE, events, list)
  <2>7. /\ out \in Seq(DOMAIN events) /\ IsInjective(out) /\ ToSet(out) = ToSet(list)
        /\ sort_states[view].active =>
             \A i, j \in DOMAIN out : i < j => Before(sort_states[view], events, out[i], out[j])
    BY <1>1, <2>4, <2>5, <2>6, SortViewCorrect
  <2> HIDE DEF out
  <2>8. new[view] = out
    BY <2>2 DEF out
  <2> QED BY <2>4, <2>7, <2>8 DEF S
<1>4. new = [view \in ListViews |-> new[view]]
  BY DEF RebuiltRows
<1> QED BY <1>3, <1>4

LEMMA RebuiltRecentTyped ==
  ASSUME TypeOK, NEW filter, NEW lost, NEW new, new = RebuiltRecent(filter, lost)
  PROVE  /\ new \in [events : Seq(DOMAIN events), alerts : Seq(DOMAIN events)]
         /\ IsInjective(new.events) /\ IsInjective(new.alerts)
<1>1. /\ Len(events) \in Nat /\ DOMAIN events = 1..Len(events)
      /\ RecentEvents \in Nat /\ RecentAlerts \in Nat
  BY LimitsAssumption DEF TypeOK
<1> DEFINE Shown == Listed("overview", events, filter, lost)
           Alerts == {i \in Shown : events[i].type = "alert"}
           S == Shown \ Alerts
<1>2. Alerts \in SUBSET (1..Len(events)) /\ S \in SUBSET (1..Len(events))
  BY <1>1 DEF Listed, RowsOf
<1>3. new = [events |-> Newest(S, RecentEvents), alerts |-> Newest(Alerts, RecentAlerts)]
  BY DEF RebuiltRecent
<1> HIDE DEF Shown, Alerts, S
<1>4. /\ Newest(S, RecentEvents) \in Seq(1..Len(events)) /\ IsInjective(Newest(S, RecentEvents))
      /\ Newest(Alerts, RecentAlerts) \in Seq(1..Len(events))
      /\ IsInjective(Newest(Alerts, RecentAlerts))
  BY <1>1, <1>2, NewestCorrect
<1> QED BY <1>1, <1>3, <1>4

LEMMA Lengths ==
  ASSUME TypeOK
  PROVE  /\ events \in Seq(Event(AnyType))
         /\ Len(events) \in Nat /\ DOMAIN events = 1..Len(events)
<1>1. events \in Seq(Event(AnyType))
  BY DEF TypeOK, AnyType
<1> QED BY <1>1

\* What the Overview shows depends on the rows it refused, not on those of others.
LEMMA SameRecent ==
  ASSUME NEW filter, NEW lost, NEW other,
         \A i : <<"overview", i>> \in lost <=> <<"overview", i>> \in other
  PROVE  RebuiltRecent(filter, lost) = RebuiltRecent(filter, other)
<1>1. Listed("overview", events, filter, lost) = Listed("overview", events, filter, other)
  BY DEF Listed
<1> QED BY <1>1 DEF RebuiltRecent

\* What a list shows depends on the history, the filters, what was cleared and refused.
LEMMA SameRows ==
  ASSUME NEW view, NEW filter, NEW lost, UNCHANGED <<events, search, view_floor>>,
         event_filter' = filter, refused' = lost
  PROVE  /\ Listed(view, events, event_filter, refused)' = Listed(view, events, filter, lost)
         /\ RebuiltRecent(event_filter, refused)' = RebuiltRecent(filter, lost)
<1>1. ASSUME NEW any
      PROVE  Listed(any, events, event_filter, refused)' = Listed(any, events, filter, lost)
  <2>1. \A i \in DOMAIN events :
          HasRow(any, events, event_filter, i)' <=> HasRow(any, events, filter, i)
    BY DEF HasRow, MatchesSearch
  <2>2. RowsOf(any, events, event_filter)' = RowsOf(any, events, filter)
    BY <2>1 DEF RowsOf
  <2> QED BY <2>2 DEF Listed
<1>2. Listed("overview", events, event_filter, refused)'
        = Listed("overview", events, filter, lost)
  BY <1>1
<1>3. RebuiltRecent(event_filter, refused)' = RebuiltRecent(filter, lost)
  BY <1>2 DEF RebuiltRecent
<1> QED BY <1>1, <1>3

LEMMA SameOrder ==
  ASSUME NEW view, UNCHANGED <<events, rows, sort_states>>
  PROVE  Ordered(view)' <=> Ordered(view)
BY DEF Ordered, Before, ColumnValue

LEMMA NoneRecent ==
  ASSUME NEW filter, NEW lost, Listed("overview", events, filter, lost) = {}
  PROVE  RebuiltRecent(filter, lost) =
           [events |-> Newest({}, RecentEvents), alerts |-> Newest({}, RecentAlerts)]
<1> DEFINE Shown == Listed("overview", events, filter, lost)
           Alerts == {i \in Shown : events[i].type = "alert"}
<1>1. Alerts = {} /\ Shown \ Alerts = {}
  OBVIOUS
<1>2. RebuiltRecent(filter, lost) =
        [events |-> Newest(Shown \ Alerts, RecentEvents), alerts |-> Newest(Alerts, RecentAlerts)]
  BY DEF RebuiltRecent
<1> HIDE DEF Shown, Alerts
<1> QED BY <1>1, <1>2

-----------------------------------------------------------------------------
(* The initial state *)

LEMMA InitViews == Init => ViewsInv
<1> SUFFICES ASSUME Init PROVE ViewsInv
  OBVIOUS
<1> USE DEF Init
<1>a. /\ events = <<>> /\ tree = 0 /\ metric = 0 /\ arrivals = 0 /\ inputs = 0
      /\ refused = {} /\ tree_failed = FALSE
  OBVIOUS
<1>b. rows = [view \in ListViews |-> <<>>]
  OBVIOUS
<1>c. recent = [events |-> <<>>, alerts |-> <<>>]
  OBVIOUS
<1>d. view_floor = [view \in ClearableViews |-> 0]
  OBVIOUS
<1>e. sort_states = [view \in ListViews |-> DefaultSort]
  OBVIOUS
<1>f. /\ search = "" /\ event_filter = "all"
      /\ filter_timer_active = FALSE /\ filter_timer = FALSE
      /\ rendering_paused = FALSE /\ render_dirty = FALSE
  OBVIOUS
<1>g. drain = Idle
  OBVIOUS
<1> HIDE DEF Init
<1>1. Len(events) = 0 /\ DOMAIN events = {}
  BY <1>a
<1>2. \A view \in ListViews : rows[view] = <<>> /\ sort_states[view] = DefaultSort
  BY <1>b, <1>e
<1>3. \A S : <<>> \in Seq(S)
  OBVIOUS
<1>4. IsInjective(<<>>) /\ ToSet(<<>>) = {}
  BY DEF IsInjective, ToSet
<1>h. TypeOK
  <2>1. events \in Seq(Event(AnyType))
    BY <1>a
  <2>2. rows \in [ListViews -> Seq(DOMAIN events)]
    BY <1>b, <1>3
  <2>3. view_floor \in [ClearableViews -> 0 .. Len(events)]
    BY <1>d, <1>1
  <2>4. sort_states \in [ListViews -> SortStates]
    <3>1. DefaultSort \in SortStates
      BY DEF SortStates, DefaultSort, Columns
    <3> QED BY <1>e, <3>1
  <2>5. drain \in [running : BOOLEAN, count_before : 0 .. Len(events), any_accepted : BOOLEAN,
                   tree_changed : BOOLEAN]
    BY <1>g, <1>1 DEF Idle
  <2>6. arrivals \in 0 .. MaxArrivals /\ inputs \in 0 .. MaxInputs
    BY <1>a, LimitsAssumption
  <2>7. /\ recent \in [events : Seq(DOMAIN events), alerts : Seq(DOMAIN events)]
        /\ IsInjective(recent.events) /\ IsInjective(recent.alerts)
    BY <1>c, <1>3, <1>4
  <2>8. tree \in 0 .. Len(events) /\ metric \in 0 .. Len(events)
    BY <1>a, <1>1
  <2>9. \A view \in ListViews : IsInjective(rows[view])
    BY <1>2, <1>4
  <2>10. /\ search \in Searches /\ event_filter \in EventFilters
         /\ {filter_timer_active, filter_timer, rendering_paused, render_dirty, tree_failed}
              \subseteq BOOLEAN
         /\ (filter_timer => filter_timer_active) /\ (tree_failed => tree = 0)
         /\ refused \subseteq {row \in MayRefuse : row[2] \in DOMAIN events}
    BY <1>a, <1>f, SearchesAssumption DEF EventFilters
  <2> QED BY <2>1, <2>2, <2>3, <2>4, <2>5, <2>6, <2>7, <2>8, <2>9, <2>10 DEF TypeOK, AnyType
<1>5. Quiet
  BY <1>f, <1>g DEF Quiet, Idle
<1>6. \A view : Listed(view, events, event_filter, refused) = {}
  BY <1>1 DEF Listed, RowsOf
<1>7. RowsShown
  BY <1>2, <1>4, <1>6 DEF RowsShown
<1>8. RecentShown
  <2>1. RebuiltRecent(event_filter, refused) =
          [events |-> Newest({}, RecentEvents), alerts |-> Newest({}, RecentAlerts)]
    BY <1>6, NoneRecent
  <2> QED BY <1>c, <2>1, NothingNewest DEF RecentShown
<1>9. MetricShown /\ TreeShown
  BY <1>a, <1>1 DEF MetricShown, TreeShown
<1>10. RowsSorted
  BY <1>2 DEF RowsSorted, DefaultSort
<1>11. AlertsFollowCause
  BY <1>1 DEF AlertsFollowCause
<1> QED BY <1>h, <1>5, <1>7, <1>8, <1>9, <1>10, <1>11 DEF ViewsInv, ShownInv

-----------------------------------------------------------------------------
(* The steps *)

LEMMA SameShown ==
  ASSUME ViewsInv,
         UNCHANGED <<events, display, controls>>,
         drain.any_accepted' = drain.any_accepted, drain.tree_changed' = drain.tree_changed
  PROVE  ShownInv' /\ RowsSorted' /\ AlertsFollowCause'
<1> USE DEF display, controls
<1>1. Behind' <=> Behind
  BY DEF Behind
<1>a. PICK f, lost : f = event_filter /\ lost = refused
  OBVIOUS
<1>2. \A view \in ListViews : Listed(view, events, event_filter, refused)'
                                = Listed(view, events, event_filter, refused)
  <2> TAKE view \in ListViews
  <2>1. Listed(view, events, event_filter, refused)' = Listed(view, events, f, lost)
    BY <1>a, SameRows
  <2> QED BY <1>a, <2>1
<1>3. RebuiltRecent(event_filter, refused)' = RebuiltRecent(event_filter, refused)
  <2>1. RebuiltRecent(event_filter, refused)' = RebuiltRecent(f, lost)
    BY <1>a, SameRows
  <2> QED BY <1>a, <2>1
<1>4. RowsShown'
  BY <1>1, <1>2 DEF ViewsInv, ShownInv, RowsShown
<1>5. RecentShown'
  BY <1>1, <1>3 DEF ViewsInv, ShownInv, RecentShown
<1>6. MetricShown' /\ TreeShown'
  BY <1>1 DEF ViewsInv, ShownInv, MetricShown, TreeShown
<1>7. RowsSorted'
  BY SameOrder DEF ViewsInv, RowsSorted
<1>8. AlertsFollowCause'
  BY DEF ViewsInv, AlertsFollowCause
<1> QED BY <1>4, <1>5, <1>6, <1>7, <1>8 DEF ShownInv

LEMMA BeginDrainStep == ViewsInv /\ BeginDrain => ViewsInv'
<1> SUFFICES ASSUME ViewsInv, BeginDrain PROVE ViewsInv'
  OBVIOUS
<1>1. drain = Idle /\ UNCHANGED <<events, display, controls, arrivals, inputs>>
  BY DEF ViewsInv, Quiet, BeginDrain
<1>2. drain' = [running |-> TRUE, count_before |-> Len(events), any_accepted |-> FALSE,
                tree_changed |-> FALSE]
  BY DEF Idle, BeginDrain
<1>3. ShownInv' /\ RowsSorted' /\ AlertsFollowCause'
  BY <1>1, <1>2, SameShown DEF Idle
<1>4. TypeOK'
  <2>1. Len(events)' = Len(events) /\ Len(events) \in 0 .. Len(events)
    BY <1>1, Lengths DEF ViewsInv
  <2>2. drain' \in [running : BOOLEAN, count_before : 0 .. Len(events)', any_accepted : BOOLEAN,
                    tree_changed : BOOLEAN]
    BY <1>2, <2>1
  <2> QED BY <1>1, <2>2 DEF ViewsInv, TypeOK, display, controls
<1>5. Quiet'
  BY <1>1, <1>2 DEF ViewsInv, Quiet, controls
<1> QED BY <1>3, <1>4, <1>5 DEF ViewsInv

LEMMA SkipEventStep == ViewsInv /\ (SkipEvent \/ UNCHANGED vars) => ViewsInv'
<1> SUFFICES ASSUME ViewsInv, SkipEvent \/ UNCHANGED vars PROVE ViewsInv'
  OBVIOUS
<1>1. UNCHANGED <<events, drain, display, controls, inputs>>
  BY DEF SkipEvent, vars
<1>2. arrivals' \in 0 .. MaxArrivals
  BY LimitsAssumption DEF SkipEvent, vars, ViewsInv, TypeOK
<1>3. ShownInv' /\ RowsSorted' /\ AlertsFollowCause'
  BY <1>1, SameShown
<1>4. TypeOK'
  BY <1>1, <1>2 DEF ViewsInv, TypeOK, display, controls
<1>5. Quiet'
  BY <1>1 DEF ViewsInv, Quiet, controls
<1> QED BY <1>3, <1>4, <1>5 DEF ViewsInv

LEMMA EditSearchStep == ViewsInv /\ EditSearch => ViewsInv'
<1> SUFFICES ASSUME ViewsInv, EditSearch PROVE ViewsInv'
  OBVIOUS
<1>1. /\ UNCHANGED <<events, drain, rows, recent, refused, tree, tree_failed, metric, view_floor,
                     sort_states, event_filter, rendering_paused, render_dirty, arrivals>>
      /\ search' \in Searches /\ filter_timer_active' = TRUE /\ filter_timer' \in BOOLEAN
      /\ inputs < MaxInputs /\ inputs' = inputs + 1
  BY DEF EditSearch, Input, display
<1>2. inputs' \in 0 .. MaxInputs
  BY <1>1, LimitsAssumption DEF ViewsInv, TypeOK
<1>3. TypeOK'
  BY <1>1, <1>2 DEF ViewsInv, TypeOK
<1>4. RowsShown' /\ RecentShown'
  BY <1>1 DEF RowsShown, RecentShown
<1>5. MetricShown' /\ TreeShown'
  BY <1>1 DEF ViewsInv, ShownInv, MetricShown, TreeShown, Behind
<1>6. RowsSorted' /\ Quiet'
  BY <1>1, SameOrder DEF ViewsInv, RowsSorted, Quiet
<1>7. AlertsFollowCause'
  BY <1>1 DEF ViewsInv, AlertsFollowCause
<1> QED BY <1>3, <1>4, <1>5, <1>6, <1>7 DEF ViewsInv, ShownInv

\* Whatever the lists showed before, they are exact when they were rebuilt.
LEMMA Rebuilt ==
  ASSUME TypeOK, NEW filter, event_filter' = filter, RebuildLists(filter),
         UNCHANGED <<events, search, view_floor, sort_states>>
  PROVE  /\ rows' \in [ListViews -> Seq(DOMAIN events)]
         /\ \A view \in ListViews : IsInjective(rows[view])'
         /\ recent' \in [events : Seq(DOMAIN events), alerts : Seq(DOMAIN events)]
         /\ IsInjective(recent.events)' /\ IsInjective(recent.alerts)'
         /\ refused' \subseteq {row \in MayRefuse : row[2] \in DOMAIN events}
         /\ \A view \in ListViews :
              ToSet(rows[view])' = Listed(view, events, event_filter, refused)'
         /\ recent' = RebuiltRecent(event_filter, refused)'
         /\ \A view \in ListViews : sort_states[view].active' => Ordered(view)'
<1>0. PICK lost \in SUBSET Refusable(ClearableViews, events, filter, 1) :
        rows' = RebuiltRows(filter, lost) /\ recent' = RebuiltRecent(filter, lost) /\ refused' = lost
  BY DEF RebuildLists
<1>a. refused' \subseteq {row \in MayRefuse : row[2] \in DOMAIN events}
  BY <1>0 DEF Refusable, RowsOf
<1>1. PICK new : new = rows'
  OBVIOUS
<1>2. PICK both : both = recent'
  OBVIOUS
<1>3. /\ new \in [ListViews -> Seq(DOMAIN events)]
      /\ \A view \in ListViews :
           /\ IsInjective(new[view]) /\ ToSet(new[view]) = Listed(view, events, filter, lost)
           /\ sort_states[view].active =>
                \A i, j \in DOMAIN new[view] :
                  i < j => Before(sort_states[view], events, new[view][i], new[view][j])
  BY <1>0, <1>1, RebuiltCorrect
<1>4. /\ both \in [events : Seq(DOMAIN events), alerts : Seq(DOMAIN events)]
      /\ IsInjective(both.events) /\ IsInjective(both.alerts)
  BY <1>0, <1>2, RebuiltRecentTyped
<1>5. \A view \in ListViews : Listed(view, events, event_filter, refused)'
                                = Listed(view, events, filter, lost)
  BY <1>0, SameRows
<1>6. RebuiltRecent(event_filter, refused)' = RebuiltRecent(filter, lost)
  BY <1>0, SameRows
<1>7. ASSUME NEW view \in ListViews, sort_states[view].active' PROVE Ordered(view)'
  <2>1. \A i, j \in DOMAIN new[view] :
           i < j => Before(sort_states[view], events, new[view][i], new[view][j])
    BY <1>3, <1>7
  <2>2. \A i, j : Before(sort_states[view], events, new[view][i], new[view][j])
                   <=> Before(sort_states[view], events, rows[view][i], rows[view][j])'
    BY <1>1 DEF Before, ColumnValue
  <2> QED BY <1>1, <2>1, <2>2 DEF Ordered
<1> QED BY <1>0, <1>a, <1>1, <1>2, <1>3, <1>4, <1>5, <1>6, <1>7

\* rebuild_filtered_views, now or on Resume.
LEMMA FilteredViews ==
  ASSUME ViewsInv, ~drain.running, NEW filter \in EventFilters, event_filter' = filter,
         RebuildFilteredViews(filter),
         {filter_timer_active', filter_timer'} \subseteq BOOLEAN,
         filter_timer' => filter_timer_active', inputs' \in 0 .. MaxInputs,
         UNCHANGED <<events, drain, tree, tree_failed, metric, view_floor, sort_states, search,
                     rendering_paused, arrivals>>
  PROVE  ViewsInv'
<1>1. drain = Idle /\ ~drain.any_accepted /\ ~drain.tree_changed
  BY DEF ViewsInv, Quiet, Idle
<1>2. AlertsFollowCause'
  BY DEF ViewsInv, AlertsFollowCause
<1>3. CASE rendering_paused
  <2>1. render_dirty' = TRUE /\ UNCHANGED <<rows, recent, refused>>
    BY <1>3 DEF RebuildFilteredViews
  <2>2. TypeOK'
    BY <2>1 DEF ViewsInv, TypeOK
  <2>3. Quiet' /\ ShownInv'
    BY <1>3, <2>1 DEF ViewsInv, Quiet, ShownInv, RowsShown, RecentShown, MetricShown, TreeShown,
                      Behind
  <2>4. RowsSorted'
    BY <1>3, <2>1, SameOrder DEF ViewsInv, RowsSorted
  <2> QED BY <1>2, <2>2, <2>3, <2>4 DEF ViewsInv
<1>4. CASE ~rendering_paused
  <2>1. RebuildLists(filter) /\ UNCHANGED render_dirty
    BY <1>4 DEF RebuildFilteredViews
  <2>2. TypeOK
    BY DEF ViewsInv
  <2>3. /\ rows' \in [ListViews -> Seq(DOMAIN events)]
        /\ \A view \in ListViews : IsInjective(rows[view])'
        /\ recent' \in [events : Seq(DOMAIN events), alerts : Seq(DOMAIN events)]
        /\ IsInjective(recent.events)' /\ IsInjective(recent.alerts)'
        /\ refused' \subseteq {row \in MayRefuse : row[2] \in DOMAIN events}
        /\ \A view \in ListViews :
             ToSet(rows[view])' = Listed(view, events, event_filter, refused)'
        /\ recent' = RebuiltRecent(event_filter, refused)'
        /\ \A view \in ListViews : sort_states[view].active' => Ordered(view)'
    BY <2>1, <2>2, Rebuilt
  <2>4. TypeOK'
    BY <2>1, <2>3 DEF ViewsInv, TypeOK
  <2>5. RowsShown'
    BY <2>3 DEF RowsShown
  <2>6. RecentShown'
    BY <2>3 DEF RecentShown
  <2>7. RowsSorted'
    BY <2>3 DEF RowsSorted
  <2>8. MetricShown' /\ TreeShown' /\ Quiet'
    BY <2>1 DEF ViewsInv, ShownInv, MetricShown, TreeShown, Behind, Quiet
  <2> QED BY <1>2, <2>4, <2>5, <2>6, <2>7, <2>8 DEF ViewsInv, ShownInv
<1> QED BY <1>3, <1>4

LEMMA FilterTimerStep == ViewsInv /\ FilterTimer => ViewsInv'
<1> SUFFICES ASSUME ViewsInv, FilterTimer PROVE ViewsInv'
  OBVIOUS
<1>1. PICK f : f = event_filter
  OBVIOUS
<1>2. /\ ~drain.running /\ RebuildFilteredViews(f)
      /\ filter_timer_active' = FALSE /\ filter_timer' = FALSE
      /\ UNCHANGED <<events, drain, tree, tree_failed, metric, view_floor, sort_states, search, event_filter,
                     rendering_paused, arrivals, inputs>>
  BY <1>1 DEF FilterTimer
<1>3. f \in EventFilters /\ inputs' \in 0 .. MaxInputs
  BY <1>1, <1>2 DEF ViewsInv, TypeOK
<1> QED BY <1>1, <1>2, <1>3, FilteredViews

LEMMA SelectEventFilterStep == ViewsInv /\ SelectEventFilter => ViewsInv'
<1> SUFFICES ASSUME ViewsInv, SelectEventFilter PROVE ViewsInv'
  OBVIOUS
<1>1. PICK f : f = event_filter'
  OBVIOUS
<1>2. /\ ~drain.running /\ f \in EventFilters /\ RebuildFilteredViews(f)
      /\ inputs < MaxInputs /\ inputs' = inputs + 1
      /\ UNCHANGED <<events, drain, tree, tree_failed, metric, view_floor, sort_states, search,
                     filter_timer_active, filter_timer, rendering_paused, arrivals>>
  BY <1>1 DEF SelectEventFilter, Input
<1>3. /\ {filter_timer_active', filter_timer'} \subseteq BOOLEAN
      /\ (filter_timer' => filter_timer_active') /\ inputs' \in 0 .. MaxInputs
  BY <1>2, LimitsAssumption DEF ViewsInv, TypeOK
<1> QED BY <1>1, <1>2, <1>3, FilteredViews

LEMMA TreeRebuilt ==
  ASSUME TypeOK, RebuildTree
  PROVE  /\ tree' \in 0 .. Len(events) /\ tree_failed' \in BOOLEAN /\ (tree_failed' => tree' = 0)
         /\ tree_failed' \/ tree' = Len(events)
<1>1. Len(events) \in Nat
  BY Lengths
<1>2. CASE tree' = Len(events) /\ tree_failed' = FALSE
  <2>1. Len(events) \in 0 .. Len(events)
    BY <1>1
  <2> QED BY <1>2, <2>1, Zenon
<1>3. CASE tree' = 0 /\ tree_failed' = TRUE
  <2>1. 0 \in 0 .. Len(events)
    BY <1>1
  <2> QED BY <1>3, <2>1, Zenon
<1> QED BY <1>2, <1>3 DEF RebuildTree

LEMMA TogglePauseStep == ViewsInv /\ TogglePause => ViewsInv'
<1> SUFFICES ASSUME ViewsInv, TogglePause PROVE ViewsInv'
  OBVIOUS
<1>1. /\ ~drain.running /\ inputs < MaxInputs /\ inputs' = inputs + 1
      /\ rendering_paused' = ~rendering_paused /\ metric' = Len(events)
      /\ UNCHANGED <<events, drain, view_floor, sort_states, search, event_filter,
                     filter_timer_active, filter_timer, arrivals>>
  BY DEF TogglePause, Input
<1>2. drain = Idle /\ ~drain.any_accepted /\ ~drain.tree_changed
  BY <1>1 DEF ViewsInv, Quiet, Idle
<1>3. inputs' \in 0 .. MaxInputs /\ metric' \in 0 .. Len(events) /\ rendering_paused' \in BOOLEAN
  BY <1>1, Lengths, LimitsAssumption DEF ViewsInv, TypeOK
<1>4. AlertsFollowCause' /\ MetricShown'
  BY <1>1 DEF ViewsInv, AlertsFollowCause, MetricShown
<1>5. CASE rendering_paused /\ render_dirty
  <2>1. PICK f : f = event_filter
    OBVIOUS
  <2>2. RebuildLists(f) /\ RebuildTree /\ render_dirty' = FALSE
    BY <1>5, <2>1 DEF TogglePause
  <2>3. TypeOK /\ event_filter' = f
    BY <1>1, <2>1 DEF ViewsInv
  <2>4. /\ rows' \in [ListViews -> Seq(DOMAIN events)]
        /\ \A view \in ListViews : IsInjective(rows[view])'
        /\ recent' \in [events : Seq(DOMAIN events), alerts : Seq(DOMAIN events)]
        /\ IsInjective(recent.events)' /\ IsInjective(recent.alerts)'
        /\ refused' \subseteq {row \in MayRefuse : row[2] \in DOMAIN events}
        /\ \A view \in ListViews :
             ToSet(rows[view])' = Listed(view, events, event_filter, refused)'
        /\ recent' = RebuiltRecent(event_filter, refused)'
        /\ \A view \in ListViews : sort_states[view].active' => Ordered(view)'
    BY <1>1, <2>2, <2>3, Rebuilt
  <2>5. /\ tree' \in 0 .. Len(events) /\ tree_failed' \in BOOLEAN /\ (tree_failed' => tree' = 0)
        /\ tree_failed' \/ tree' = Len(events)
    BY <2>2, <2>3, TreeRebuilt
  <2>6. TypeOK'
    BY <1>1, <1>3, <2>2, <2>4, <2>5 DEF ViewsInv, TypeOK
  <2>7. RowsShown' /\ RecentShown'
    BY <2>4 DEF RowsShown, RecentShown
  <2>8. RowsSorted'
    BY <2>4 DEF RowsSorted
  <2>9. TreeShown'
    <3>1. \A i \in DOMAIN events : ~tree_failed' => i <= tree'
      BY <2>3, <2>5, Lengths
    <3> QED BY <1>1, <3>1 DEF TreeShown
  <2>10. Quiet'
    BY <1>1, <2>2 DEF ViewsInv, Quiet
  <2> QED BY <1>4, <2>6, <2>7, <2>8, <2>9, <2>10 DEF ViewsInv, ShownInv
<1>6. CASE ~(rendering_paused /\ render_dirty)
  <2>1. UNCHANGED <<rows, recent, refused, tree, tree_failed, render_dirty>> /\ ~render_dirty
    BY <1>6 DEF TogglePause, ViewsInv, Quiet
  <2>2. ~Behind /\ ~Behind'
    BY <1>1, <1>2, <2>1 DEF Behind
  <2>3. TypeOK'
    BY <1>1, <1>3, <2>1 DEF ViewsInv, TypeOK
  <2>4. RowsShown' /\ RecentShown'
    <3>1. PICK f, lost : f = event_filter /\ lost = refused
      OBVIOUS
    <3>2. event_filter' = f /\ refused' = lost
      BY <1>1, <2>1, <3>1
    <3>3. /\ \A view \in ListViews :
               Listed(view, events, event_filter, refused)' = Listed(view, events, f, lost)
          /\ RebuiltRecent(event_filter, refused)' = RebuiltRecent(f, lost)
      BY <1>1, <3>2, SameRows
    <3> QED BY <1>1, <2>1, <2>2, <3>1, <3>3 DEF ViewsInv, ShownInv, RowsShown, RecentShown
  <2>5. TreeShown'
    BY <1>1, <2>1 DEF ViewsInv, ShownInv, TreeShown
  <2>6. RowsSorted'
    BY <1>1, <1>2, <2>1, SameOrder DEF ViewsInv, RowsSorted
  <2>7. Quiet'
    BY <1>1, <2>1 DEF ViewsInv, Quiet
  <2> QED BY <1>4, <2>3, <2>4, <2>5, <2>6, <2>7 DEF ViewsInv, ShownInv
<1> QED BY <1>5, <1>6

LEMMA EndDrainStep == ViewsInv /\ EndDrain => ViewsInv'
<1> SUFFICES ASSUME ViewsInv, EndDrain PROVE ViewsInv'
  OBVIOUS
<1>1. /\ drain' = Idle
      /\ UNCHANGED <<events, view_floor, sort_states, search, event_filter, filter_timer_active,
                     filter_timer, rendering_paused, arrivals, inputs>>
  BY DEF EndDrain
<1>2. /\ ~drain.any_accepted' /\ ~drain.tree_changed'
      /\ drain' \in [running : BOOLEAN, count_before : 0 .. Len(events), any_accepted : BOOLEAN,
                      tree_changed : BOOLEAN]
  BY <1>1, Lengths DEF Idle, ViewsInv
<1>3. AlertsFollowCause'
  BY <1>1 DEF ViewsInv, AlertsFollowCause
<1>4. CASE ~drain.any_accepted
  <2>1. UNCHANGED <<display, render_dirty>>
    BY <1>4 DEF EndDrain
  <2>2. ~drain.tree_changed
    BY <1>4 DEF ViewsInv, Quiet
  <2>3. ShownInv' /\ RowsSorted'
    <3>1. drain.any_accepted' = drain.any_accepted /\ drain.tree_changed' = drain.tree_changed
      <4>1. drain.any_accepted \in BOOLEAN /\ drain.tree_changed \in BOOLEAN
        BY DEF ViewsInv, TypeOK
      <4>2. drain.any_accepted' = FALSE /\ drain.tree_changed' = FALSE
        BY <1>1 DEF Idle
      <4> QED BY <1>4, <2>2, <4>1, <4>2
    <3> QED BY <1>1, <2>1, <3>1, SameShown DEF controls
  <2>4. TypeOK'
    BY <1>1, <1>2, <2>1 DEF ViewsInv, TypeOK, display
  <2>5. Quiet'
    BY <1>1, <1>2, <2>1 DEF ViewsInv, Quiet
  <2> QED BY <1>3, <2>3, <2>4, <2>5 DEF ViewsInv
<1>5. CASE drain.any_accepted /\ rendering_paused
  <2>1. render_dirty' = TRUE /\ UNCHANGED <<rows, recent, refused, tree, tree_failed, metric>>
    BY <1>5 DEF EndDrain, display
  <2>2. ShownInv'
    BY <1>1, <1>5, <2>1 DEF ShownInv, RowsShown, RecentShown, MetricShown, TreeShown, Behind
  <2>3. RowsSorted'
    BY <1>1, <1>5, <2>1, SameOrder DEF ViewsInv, RowsSorted
  <2>4. TypeOK'
    BY <1>1, <1>2, <2>1 DEF ViewsInv, TypeOK
  <2>5. Quiet'
    BY <1>1, <1>2, <1>5, <2>1 DEF Quiet
  <2> QED BY <1>3, <2>2, <2>3, <2>4, <2>5 DEF ViewsInv
<1>6. CASE drain.any_accepted /\ ~rendering_paused
  <2>a. PICK forced \in BOOLEAN : forced <=> drain.count_before = 0
    OBVIOUS
  <2>1. PICK f, new : f = event_filter /\ new = rows'
    OBVIOUS
  <2>b. PICK lost \in SUBSET Refusable({"overview"}, events, f, 1) :
          /\ recent' = RebuiltRecent(f, lost)
          /\ refused' = {row \in refused : row[1] # "overview"} \union lost
    BY <1>6, <2>1 DEF EndDrain
  <2>c. PICK after : after = refused'
    OBVIOUS
  <2>d. /\ \A i : <<"overview", i>> \in lost <=> <<"overview", i>> \in after
        /\ \A view \in ListViews : \A i : <<view, i>> \in refused <=> <<view, i>> \in after
    <3>1. \A row \in lost : row[1] = "overview"
      BY DEF Refusable
    <3> QED BY <2>b, <2>c, <3>1 DEF ListViews
  <2>2. /\ IF drain.tree_changed THEN RebuildTree ELSE UNCHANGED <<tree, tree_failed>>
        /\ metric' = Len(events) /\ UNCHANGED render_dirty
    BY <1>6 DEF EndDrain
  <2>3. new = [view \in ListViews |-> SortView(sort_states[view], forced, events, rows[view])]
    <3>1. new = [view \in ListViews |->
                   SortView(sort_states[view], drain.count_before = 0, events, rows[view])]
      BY <1>6, <2>1 DEF EndDrain
    <3>2. (drain.count_before = 0) = forced
      BY <2>a
    <3> QED BY <3>1, <3>2
  <2>4. TypeOK /\ ~render_dirty
    BY <1>6 DEF ViewsInv, Quiet
  <2>5. ASSUME NEW view \in ListViews
        PROVE  /\ new[view] \in Seq(DOMAIN events) /\ IsInjective(new[view])
               /\ ToSet(new[view]) = ToSet(rows[view])
               /\ sort_states[view].active =>
                    \A i, j \in DOMAIN new[view] :
                      i < j => Before(sort_states[view], events, new[view][i], new[view][j])
    <3>1. /\ events \in Seq(Event(AnyType)) /\ sort_states[view] \in SortStates
          /\ rows[view] \in Seq(DOMAIN events) /\ IsInjective(rows[view])
      BY <2>4, Lengths DEF TypeOK
    <3>2. new[view] = SortView(sort_states[view], forced, events, rows[view])
      BY <2>3
    <3> QED BY <3>1, <3>2, SortViewCorrect
  <2>6. TypeOK'
    <3>1. rows' \in [ListViews -> Seq(DOMAIN events)]
      <4>1. new = [view \in ListViews |-> new[view]]
        BY <2>3
      <4> QED BY <2>1, <2>5, <4>1
    <3>2. \A view \in ListViews : IsInjective(rows[view])'
      BY <2>1, <2>5
    <3>3. /\ recent' \in [events : Seq(DOMAIN events), alerts : Seq(DOMAIN events)]
          /\ IsInjective(recent.events)' /\ IsInjective(recent.alerts)'
      <4>1. PICK both : both = recent'
        OBVIOUS
      <4>2. /\ both \in [events : Seq(DOMAIN events), alerts : Seq(DOMAIN events)]
            /\ IsInjective(both.events) /\ IsInjective(both.alerts)
        BY <2>b, <2>4, <4>1, RebuiltRecentTyped
      <4> QED BY <4>1, <4>2
    <3>4. /\ tree' \in 0 .. Len(events) /\ metric' \in 0 .. Len(events)
          /\ tree_failed' \in BOOLEAN /\ (tree_failed' => tree' = 0)
      BY <2>2, <2>4, Lengths, TreeRebuilt DEF TypeOK
    <3>5. refused' \subseteq {row \in MayRefuse : row[2] \in DOMAIN events}
      <4>1. lost \subseteq {row \in MayRefuse : row[2] \in DOMAIN events}
        BY DEF Refusable, RowsOf
      <4> QED BY <2>b, <2>4, <4>1 DEF TypeOK
    <3> QED BY <1>1, <1>2, <2>2, <2>4, <3>1, <3>2, <3>3, <3>4, <3>5 DEF TypeOK
  <2>7. RowsShown' /\ RecentShown'
    <3>1. event_filter' = f /\ refused' = after
      BY <1>1, <2>1, <2>c
    <3>2. /\ \A view \in ListViews :
               Listed(view, events, event_filter, refused)' = Listed(view, events, f, after)
          /\ RebuiltRecent(event_filter, refused)' = RebuiltRecent(f, after)
      BY <1>1, <3>1, SameRows
    <3>3. RecentShown'
      <4>1. RebuiltRecent(f, lost) = RebuiltRecent(f, after)
        BY <2>d, SameRecent
      <4> QED BY <2>b, <3>2, <4>1 DEF RecentShown
    <3>4. RowsShown'
      <4>1. \A view \in ListViews :
              Listed(view, events, f, after) = Listed(view, events, event_filter, refused)
        BY <2>1, <2>d DEF Listed
      <4> QED BY <1>1, <1>6, <2>1, <2>5, <3>2, <4>1 DEF ViewsInv, ShownInv, RowsShown
    <3> QED BY <3>3, <3>4
  <2>8. MetricShown'
    BY <1>1, <2>2 DEF MetricShown
  <2>9. TreeShown'
    <3>1. CASE drain.tree_changed
      <4>1. \A i \in DOMAIN events : ~tree_failed' => i <= tree'
        BY <2>2, <2>4, <3>1, Lengths, TreeRebuilt
      <4> QED BY <1>1, <4>1 DEF TreeShown
    <3>2. CASE ~drain.tree_changed
      BY <1>1, <2>2, <2>4, <3>2 DEF ViewsInv, ShownInv, TreeShown
    <3> QED BY <3>1, <3>2
  <2>10. RowsSorted'
    <3> SUFFICES ASSUME NEW view \in ListViews, sort_states[view].active PROVE Ordered(view)'
      BY <1>1 DEF RowsSorted
    <3>1. \A i, j \in DOMAIN new[view] :
             i < j => Before(sort_states[view], events, new[view][i], new[view][j])
      BY <2>5
    <3>2. \A i, j : Before(sort_states[view], events, new[view][i], new[view][j])
                     <=> Before(sort_states[view], events, rows[view][i], rows[view][j])'
      BY <1>1, <2>1 DEF Before, ColumnValue
    <3> QED BY <2>1, <3>1, <3>2 DEF Ordered
  <2>11. Quiet'
    BY <1>1, <1>2, <2>2, <2>4 DEF Quiet
  <2> QED BY <1>3, <2>6, <2>7, <2>8, <2>9, <2>10, <2>11 DEF ViewsInv, ShownInv
<1> QED BY <1>4, <1>5, <1>6

LEMMA ClearViewStep ==
  ASSUME ViewsInv, NEW view \in ClearableViews, ClearView(view) PROVE ViewsInv'
<1>1. /\ ~drain.running /\ inputs < MaxInputs /\ inputs' = inputs + 1
      /\ view_floor' = [view_floor EXCEPT ![view] = Len(events)]
      /\ rows' = IF view = "overview" THEN rows ELSE [rows EXCEPT ![view] = <<>>]
      /\ recent' = IF view = "overview" THEN [events |-> <<>>, alerts |-> <<>>] ELSE recent
      /\ UNCHANGED <<events, drain, refused, tree, tree_failed, metric, sort_states, search,
                     event_filter, filter_timer_active, filter_timer, rendering_paused,
                     render_dirty>>
      /\ arrivals' = arrivals
  BY DEF ClearView, Input
<1>2. TypeOK
  BY DEF ViewsInv
<1>3. inputs' \in 0 .. MaxInputs
  BY <1>1, <1>2, LimitsAssumption DEF TypeOK
<1>4. view_floor' \in [ClearableViews -> 0 .. Len(events)]
  BY <1>1, <1>2, Lengths DEF TypeOK
<1>5. (\A S : <<>> \in Seq(S)) /\ IsInjective(<<>>) /\ ToSet(<<>>) = {} /\ DOMAIN <<>> = {}
  BY DEF IsInjective, ToSet
<1>6. ASSUME NEW other \in ListViews
      PROVE  rows'[other] = IF other = view THEN <<>> ELSE rows[other]
  BY <1>1, <1>2 DEF TypeOK, ListViews
<1>7. TypeOK'
  <2>1. rows' \in [ListViews -> Seq(DOMAIN events)]
    BY <1>1, <1>2, <1>5 DEF TypeOK
  <2>2. \A other \in ListViews : IsInjective(rows[other])'
    BY <1>2, <1>5, <1>6 DEF TypeOK
  <2>3. /\ recent' \in [events : Seq(DOMAIN events), alerts : Seq(DOMAIN events)]
        /\ IsInjective(recent.events)' /\ IsInjective(recent.alerts)'
    BY <1>1, <1>2, <1>5 DEF TypeOK
  <2> QED BY <1>1, <1>2, <1>3, <1>4, <2>1, <2>2, <2>3 DEF TypeOK
<1>8. RowsShown'
  <2> SUFFICES ASSUME ~filter_timer_active, ~(rendering_paused /\ Behind),
                      NEW other \in ListViews
               PROVE  ToSet(rows[other])' = Listed(other, events, event_filter, refused)'
    BY <1>1 DEF RowsShown, Behind
  <2>1. ToSet(rows[other]) = Listed(other, events, event_filter, refused)
    BY DEF ViewsInv, ShownInv, RowsShown
  <2>2. CASE other = view
    <3>1. view_floor'[other] = Len(events)
      BY <1>1, <1>2, <2>2 DEF TypeOK
    <3>2. \A i \in DOMAIN events : ~(i > Len(events))
      BY <1>2, Lengths
    <3>3. Listed(other, events, event_filter, refused)' = {}
      BY <1>1, <3>1, <3>2 DEF Listed, RowsOf, HasRow
    <3> QED BY <1>5, <1>6, <2>2, <3>3
  <2>3. CASE other # view
    <3>1. view_floor'[other] = view_floor[other]
      BY <1>1, <1>2, <2>3 DEF TypeOK
    <3>2. \A i \in DOMAIN events :
            HasRow(other, events, event_filter, i)' <=> HasRow(other, events, event_filter, i)
      BY <1>1, <3>1 DEF HasRow, MatchesSearch
    <3>3. Listed(other, events, event_filter, refused)' = Listed(other, events, event_filter, refused)
      BY <1>1, <3>2 DEF Listed, RowsOf
    <3> QED BY <1>6, <2>1, <2>3, <3>3
  <2> QED BY <2>2, <2>3
<1>9. RecentShown'
  <2> SUFFICES ASSUME ~filter_timer_active, ~Behind
               PROVE  recent' = RebuiltRecent(event_filter, refused)'
    BY <1>1 DEF RecentShown, Behind
  <2>1. recent = RebuiltRecent(event_filter, refused)
    BY DEF ViewsInv, ShownInv, RecentShown
  <2>2. CASE view = "overview"
    <3>1. view_floor'.overview = Len(events)
      BY <1>1, <1>2, <2>2 DEF TypeOK
    <3>2. \A i \in DOMAIN events : ~(i > Len(events))
      BY <1>2, Lengths
    <3>3. Listed("overview", events, event_filter, refused)' = {}
      BY <1>1, <3>1, <3>2 DEF Listed, RowsOf, HasRow
    <3>4. RebuiltRecent(event_filter, refused)' =
            [events |-> Newest({}, RecentEvents), alerts |-> Newest({}, RecentAlerts)]
      BY <3>3 DEF RebuiltRecent
    <3> QED BY <1>1, <2>2, <3>4, NothingNewest
  <2>3. CASE view # "overview"
    <3>1. view_floor'["overview"] = view_floor["overview"]
      BY <1>1, <1>2, <2>3 DEF TypeOK
    <3>2. \A i \in DOMAIN events : HasRow("overview", events, event_filter, i)'
                                  <=> HasRow("overview", events, event_filter, i)
      BY <1>1, <3>1 DEF HasRow, MatchesSearch
    <3>3. Listed("overview", events, event_filter, refused)'
            = Listed("overview", events, event_filter, refused)
      BY <1>1, <3>2 DEF Listed, RowsOf
    <3>4. RebuiltRecent(event_filter, refused)' = RebuiltRecent(event_filter, refused)
      BY <1>1, <3>3 DEF RebuiltRecent
    <3> QED BY <1>1, <2>1, <2>3, <3>4
  <2> QED BY <2>2, <2>3
<1>10. MetricShown' /\ TreeShown' /\ Quiet'
  BY <1>1 DEF ViewsInv, ShownInv, MetricShown, TreeShown, Quiet, Behind
<1>11. RowsSorted'
  <2> SUFFICES ASSUME rendering_paused \/ ~drain.any_accepted,
                      NEW other \in ListViews, sort_states[other].active
               PROVE  Ordered(other)'
    BY <1>1 DEF RowsSorted
  <2>1. Ordered(other)
    BY DEF ViewsInv, RowsSorted
  <2> QED BY <1>1, <1>5, <1>6, <2>1 DEF Ordered, Before, ColumnValue
<1>12. AlertsFollowCause'
  BY <1>1 DEF ViewsInv, AlertsFollowCause
<1> QED BY <1>7, <1>8, <1>9, <1>10, <1>11, <1>12 DEF ViewsInv, ShownInv

LEMMA ClickColumnStep ==
  ASSUME ViewsInv, NEW view \in ListViews, NEW column \in Columns, ClickColumn(view, column)
  PROVE  ViewsInv'
<1>1. /\ ~drain.running /\ inputs < MaxInputs /\ inputs' = inputs + 1
      /\ UNCHANGED <<events, drain, recent, refused, tree, tree_failed, metric, view_floor, search,
                     event_filter, filter_timer_active, filter_timer, rendering_paused,
                     render_dirty, arrivals>>
  BY DEF ClickColumn, Input
<1>2. TypeOK
  BY DEF ViewsInv
<1>3. inputs' \in 0 .. MaxInputs
  BY <1>1, <1>2, LimitsAssumption DEF TypeOK
<1>4. PICK sort : /\ sort = (IF sort_states[view].active /\ sort_states[view].column = column
                             THEN [sort_states[view] EXCEPT !.ascending = ~@]
                             ELSE [column |-> column, ascending |-> TRUE, active |-> TRUE])
                  /\ sort_states' = [sort_states EXCEPT ![view] = sort]
                  /\ rows' = [rows EXCEPT ![view] = SortView(sort, FALSE, events, @)]
  BY Zenon DEF ClickColumn
<1>5. sort \in SortStates
  <2>1. sort_states[view] \in SortStates
    BY <1>2 DEF TypeOK
  <2> QED BY <1>4, <2>1 DEF SortStates
<1>6. sort_states' \in [ListViews -> SortStates]
  BY <1>2, <1>4, <1>5 DEF TypeOK
<1> DEFINE out == SortView(sort, FALSE, events, rows[view])
<1>7. /\ out \in Seq(DOMAIN events) /\ IsInjective(out) /\ ToSet(out) = ToSet(rows[view])
      /\ sort.active => \A i, j \in DOMAIN out : i < j => Before(sort, events, out[i], out[j])
  <2>1. events \in Seq(Event(AnyType)) /\ rows[view] \in Seq(DOMAIN events)
        /\ IsInjective(rows[view])
    BY <1>2, Lengths DEF TypeOK
  <2> QED BY <1>5, <2>1, SortViewCorrect
<1>8. rows' = [rows EXCEPT ![view] = out]
  BY <1>4
<1>9. PICK list : list = out
  OBVIOUS
<1> HIDE DEF out
<1>10. ASSUME NEW other \in ListViews
       PROVE  /\ rows'[other] = IF other = view THEN list ELSE rows[other]
              /\ sort_states'[other] = IF other = view THEN sort ELSE sort_states[other]
  BY <1>2, <1>4, <1>8, <1>9 DEF TypeOK
<1>11. TypeOK'
  <2>1. rows' \in [ListViews -> Seq(DOMAIN events)]
    BY <1>2, <1>7, <1>8 DEF TypeOK
  <2>2. \A other \in ListViews : IsInjective(rows[other])'
    BY <1>2, <1>7, <1>9, <1>10 DEF TypeOK
  <2> QED BY <1>1, <1>2, <1>3, <1>6, <2>1, <2>2 DEF TypeOK
<1>12. \A other \in ListViews : ToSet(rows[other])' = ToSet(rows[other])
  BY <1>7, <1>9, <1>10
<1>13. RowsShown' /\ RecentShown'
  <2>1. PICK f, lost : f = event_filter /\ lost = refused
    OBVIOUS
  <2>2. event_filter' = f /\ refused' = lost
    BY <1>1, <2>1
  <2>3. /\ \A other \in ListViews :
             Listed(other, events, event_filter, refused)' = Listed(other, events, f, lost)
        /\ RebuiltRecent(event_filter, refused)' = RebuiltRecent(f, lost)
    BY <1>1, <2>2, SameRows
  <2>4. RowsShown'
    BY <1>1, <1>12, <2>1, <2>3 DEF ViewsInv, ShownInv, RowsShown, Behind
  <2>5. RecentShown'
    BY <1>1, <2>1, <2>3 DEF ViewsInv, ShownInv, RecentShown, Behind
  <2> QED BY <2>4, <2>5
<1>14. MetricShown' /\ TreeShown' /\ Quiet'
  BY <1>1 DEF ViewsInv, ShownInv, MetricShown, TreeShown, Quiet, Behind
<1>15. RowsSorted'
  <2> SUFFICES ASSUME rendering_paused \/ ~drain.any_accepted,
                      NEW other \in ListViews, sort_states'[other].active
               PROVE  Ordered(other)'
    BY <1>1 DEF RowsSorted
  <2>1. CASE other = view
    <3>1. \A i, j \in DOMAIN list : i < j => Before(sort, events, list[i], list[j])
      BY <1>7, <1>9, <1>10, <2>1
    <3>2. \A i, j : Before(sort, events, list[i], list[j])
                     <=> Before(sort_states[other], events, rows[other][i], rows[other][j])'
      BY <1>1, <1>10, <2>1 DEF Before, ColumnValue
    <3> QED BY <1>10, <2>1, <3>1, <3>2 DEF Ordered
  <2>2. CASE other # view
    <3>1. Ordered(other)
      BY <1>10, <2>2 DEF ViewsInv, RowsSorted
    <3> QED BY <1>1, <1>10, <2>2, <3>1 DEF Ordered, Before, ColumnValue
  <2> QED BY <2>1, <2>2
<1>16. AlertsFollowCause'
  BY <1>1 DEF ViewsInv, AlertsFollowCause
<1> QED BY <1>11, <1>13, <1>14, <1>15, <1>16 DEF ViewsInv, ShownInv

\* What AlertsFollowCause says of one event of a history.
Caused(history, i) ==
  history[i].type = "alert" =>
    \E cause \in 1 .. i - 1 :
      /\ history[cause].type # "alert"
      /\ \A j \in cause + 1 .. i : history[j].type = "alert"
      /\ \E rule \in ToSet(Rules) :
           RuleApplies(rule, history[cause]) /\ history[i] = Alert(history[cause], rule)
      /\ \A j \in cause + 1 .. i - 1 : history[j] # history[i]

\* The history with an accepted event and some alerts about it, no two for one rule.
AddedTo(history, event, alerts) ==
  /\ history = events \o <<event>> \o alerts
  /\ IsInjective(alerts)
  /\ \A k \in DOMAIN alerts :
       \E rule \in ToSet(Rules) : RuleApplies(rule, event) /\ alerts[k] = Alert(event, rule)
Continues(history, event) ==
  /\ history \in Seq(Event(AnyType)) /\ Len(history) \in Nat /\ Len(events) <= Len(history)
  /\ \A i \in DOMAIN events : i \in DOMAIN history /\ history[i] = events[i]
  /\ \A i \in DOMAIN history : i \in DOMAIN events \/ i >= Len(events) + 1
  /\ Len(events) + 1 \in DOMAIN history /\ history[Len(events) + 1] = event
  /\ \A i \in DOMAIN history : i > Len(events) + 1 => history[i].type = "alert"
  /\ \A i \in DOMAIN history : Caused(history, i)

LEMMA AlertsAdded ==
  ASSUME TypeOK, AlertsFollowCause, NEW event \in Collected, NEW alerts \in Seq(Event({"alert"})),
         NEW history, AddedTo(history, event, alerts)
  PROVE  Continues(history, event)
<1> DEFINE n == Len(events) + 1
<1>1. /\ events \in Seq(Event(AnyType)) /\ Len(events) \in Nat
      /\ DOMAIN events = 1..Len(events)
  BY Lengths
<1>2. event \in Event(AnyType) /\ alerts \in Seq(Event(AnyType)) /\ event.type # "alert"
  <2>1. event \in Event(AnyType) /\ alerts \in Seq(Event(AnyType))
    BY EventTypes, SeqOfMore
  <2> QED BY <2>1 DEF Collected, Event
<1>3. /\ history \in Seq(Event(AnyType)) /\ Len(history) = n + Len(alerts)
      /\ \A i \in DOMAIN events : i \in DOMAIN history /\ history[i] = events[i]
      /\ n \in DOMAIN history /\ history[n] = event
      /\ \A i \in DOMAIN history :
           i > n => i - n \in DOMAIN alerts /\ history[i] = alerts[i - n]
  <2>1. history = events \o <<event>> \o alerts
    BY DEF AddedTo
  <2> QED BY <1>1, <1>2, <2>1, HistoryGrows
<1>4. Len(alerts) \in Nat /\ DOMAIN history = 1..Len(history) /\ Len(history) \in Nat
      /\ Len(events) <= Len(history)
  BY <1>1, <1>3
<1>5. \A i \in DOMAIN history : i \in DOMAIN events \/ i = n \/ i > n
  BY <1>1, <1>4
<1>6. \A i \in DOMAIN history : i > n => history[i].type = "alert"
  <2> TAKE i \in DOMAIN history
  <2> HAVE i > n
  <2>1. alerts[i - n] \in Event({"alert"}) /\ history[i] = alerts[i - n]
    BY <1>3
  <2> QED BY <2>1 DEF Event
<1>7. ASSUME NEW i \in DOMAIN history, history[i].type = "alert"
      PROVE  \E cause \in 1 .. i - 1 :
               /\ history[cause].type # "alert"
               /\ \A j \in cause + 1 .. i : history[j].type = "alert"
               /\ \E rule \in ToSet(Rules) :
                    RuleApplies(rule, history[cause]) /\ history[i] = Alert(history[cause], rule)
               /\ \A j \in cause + 1 .. i - 1 : history[j] # history[i]
  <2>1. CASE i \in DOMAIN events
    <3>1. PICK cause \in 1 .. i - 1 :
            /\ events[cause].type # "alert"
            /\ \A j \in cause + 1 .. i : events[j].type = "alert"
            /\ \E rule \in ToSet(Rules) :
                 RuleApplies(rule, events[cause]) /\ events[i] = Alert(events[cause], rule)
            /\ \A j \in cause + 1 .. i - 1 : events[j] # events[i]
      BY <1>3, <1>7, <2>1 DEF AlertsFollowCause
    <3>2. \A j \in 1..i : j \in DOMAIN events /\ history[j] = events[j]
      BY <1>1, <1>3, <2>1
    <3>3. cause \in 1..i /\ \A j \in cause + 1 .. i : j \in 1..i
      BY <1>1, <2>1
    <3>4. i \in 1..i /\ \A j \in cause + 1 .. i - 1 : j \in 1..i
      BY <1>1, <2>1
    <3>5. history[cause] = events[cause] /\ history[i] = events[i]
      BY <3>2, <3>3, <3>4
    <3>6. /\ \A j \in cause + 1 .. i : history[j] = events[j]
          /\ \A j \in cause + 1 .. i - 1 : history[j] = events[j]
      BY <3>2, <3>3, <3>4
    <3> WITNESS cause \in 1 .. i - 1
    <3> QED BY <3>1, <3>5, <3>6
  <2>2. CASE i = n
    BY <1>2, <1>3, <1>7, <2>2
  <2>3. CASE i > n
    <3>1. n \in 1 .. i - 1
      BY <1>1, <1>4, <2>3
    <3>2. \A j \in n + 1 .. i : j \in DOMAIN history /\ j > n
      BY <1>1, <1>4, <2>3
    <3>3. PICK rule \in ToSet(Rules) :
            RuleApplies(rule, event) /\ alerts[i - n] = Alert(event, rule)
      BY <1>3, <2>3 DEF AddedTo
    <3>4. ASSUME NEW j \in n + 1 .. i - 1 PROVE history[j] # history[i]
      <4>1. j \in DOMAIN history /\ j > n /\ j - n # i - n
        BY <1>1, <1>4, <2>3
      <4>2. /\ j - n \in DOMAIN alerts /\ history[j] = alerts[j - n]
            /\ i - n \in DOMAIN alerts /\ history[i] = alerts[i - n]
        BY <1>3, <2>3, <4>1
      <4> QED BY <4>1, <4>2 DEF AddedTo, IsInjective
    <3>5. history[i] = Alert(history[n], rule) /\ RuleApplies(rule, history[n])
      BY <1>3, <2>3, <3>3
    <3>6. \A j \in n + 1 .. i : history[j].type = "alert"
      BY <1>6, <3>2
    <3>7. history[n].type # "alert"
      BY <1>2, <1>3
    <3> HIDE DEF n
    <3> WITNESS n \in 1 .. i - 1
    <3> QED BY <3>4, <3>5, <3>6, <3>7
  <2> QED BY <1>5, <2>1, <2>2, <2>3
<1>8. \A i \in DOMAIN history : i \in DOMAIN events \/ i >= n
  BY <1>1, <1>4
<1>9. \A i \in DOMAIN history : Caused(history, i)
  BY <1>7 DEF Caused
<1> QED BY <1>3, <1>4, <1>6, <1>8, <1>9 DEF Continues

\* Rows added at the end of a list, for events that had none.
LEMMA RowsAdded ==
  ASSUME NEW n \in Nat, NEW m \in Nat, n <= m, NEW list \in Seq(1..n), IsInjective(list),
         NEW more \in Seq(n + 1 .. m), IsInjective(more)
  PROVE  /\ list \o more \in Seq(1..m) /\ IsInjective(list \o more)
         /\ ToSet(list \o more) = ToSet(list) \union ToSet(more)
<1>1. list \in Seq(1..m) /\ more \in Seq(1..m)
  <2>1. 1..n \subseteq 1..m /\ n + 1 .. m \subseteq 1..m
    OBVIOUS
  <2> QED BY <2>1, SeqOfMore
<1>2. /\ DOMAIN list = 1..Len(list) /\ Len(list) \in Nat
      /\ DOMAIN more = 1..Len(more) /\ Len(more) \in Nat
      /\ \A i \in DOMAIN list : list[i] \in 1..n
      /\ \A i \in DOMAIN more : more[i] \in n + 1 .. m
  OBVIOUS
<1> DEFINE all == list \o more
<1>3. /\ all \in Seq(1..m) /\ Len(all) = Len(list) + Len(more)
      /\ \A i \in 1..Len(list) + Len(more) :
           all[i] = IF i <= Len(list) THEN list[i] ELSE more[i - Len(list)]
  BY <1>1, ConcatProperties
<1> HIDE DEF all
<1>4. DOMAIN all = 1..Len(list) + Len(more)
  BY <1>2, <1>3
<1>5. \A i \in DOMAIN all :
        \/ i \in DOMAIN list /\ all[i] = list[i] /\ all[i] \in 1..n
        \/ /\ i > Len(list) /\ i - Len(list) \in DOMAIN more
           /\ all[i] = more[i - Len(list)] /\ all[i] \in n + 1 .. m
  <2> TAKE i \in DOMAIN all
  <2>1. CASE i <= Len(list)
    <3>1. i \in DOMAIN list /\ all[i] = list[i]
      BY <1>2, <1>3, <1>4, <2>1
    <3> QED BY <1>2, <3>1
  <2>2. CASE i > Len(list)
    <3>1. i - Len(list) \in DOMAIN more /\ all[i] = more[i - Len(list)]
      BY <1>2, <1>3, <1>4, <2>2
    <3> QED BY <1>2, <2>2, <3>1
  <2> QED BY <1>2, <1>4, <2>1, <2>2
<1>6. IsInjective(all)
  <2> SUFFICES ASSUME NEW i \in DOMAIN all, NEW j \in DOMAIN all, all[i] = all[j] PROVE i = j
    BY DEF IsInjective
  <2>1. CASE i \in DOMAIN list /\ j \in DOMAIN list /\ all[i] = list[i] /\ all[j] = list[j]
    BY <2>1 DEF IsInjective
  <2>2. CASE /\ i > Len(list) /\ i - Len(list) \in DOMAIN more /\ all[i] = more[i - Len(list)]
             /\ j > Len(list) /\ j - Len(list) \in DOMAIN more /\ all[j] = more[j - Len(list)]
    <3>1. i - Len(list) = j - Len(list)
      BY <2>2 DEF IsInjective
    <3> QED BY <1>2, <1>4, <3>1
  <2>3. ~(all[i] \in 1..n /\ all[j] \in n + 1 .. m) /\ ~(all[j] \in 1..n /\ all[i] \in n + 1 .. m)
    OBVIOUS
  <2> QED BY <1>5, <2>1, <2>2, <2>3
<1>7. ToSet(all) = ToSet(list) \union ToSet(more)
  <2>1. \A i \in DOMAIN list : i \in DOMAIN all /\ all[i] = list[i]
    BY <1>2, <1>3, <1>4
  <2>2. \A i \in DOMAIN more : Len(list) + i \in DOMAIN all /\ all[Len(list) + i] = more[i]
    <3> TAKE i \in DOMAIN more
    <3>1. Len(list) + i \in DOMAIN all /\ ~(Len(list) + i <= Len(list))
          /\ (Len(list) + i) - Len(list) = i
      BY <1>2, <1>4
    <3> QED BY <1>3, <1>4, <3>1
  <2>3. \A i \in DOMAIN all : \/ i \in DOMAIN list /\ all[i] = list[i]
                              \/ \E j \in DOMAIN more : all[i] = more[j]
    BY <1>5
  <2> HIDE DEF all
  <2>4. /\ ToSet(all) = {all[i] : i \in DOMAIN all}
        /\ ToSet(list) = {list[i] : i \in DOMAIN list}
        /\ ToSet(more) = {more[i] : i \in DOMAIN more}
    BY Zenon DEF ToSet
  <2>5. \A x : x \in ToSet(all) <=> x \in ToSet(list) \/ x \in ToSet(more)
    <3> TAKE x
    <3>1. x \in ToSet(all) => x \in ToSet(list) \/ x \in ToSet(more)
      BY <2>3, <2>4
    <3>2. x \in ToSet(list) => x \in ToSet(all)
      BY <2>1, <2>4
    <3>3. x \in ToSet(more) => x \in ToSet(all)
      BY <2>2, <2>4
    <3> QED BY <3>1, <3>2, <3>3
  <2> QED BY <2>5
<1> QED BY <1>3, <1>6, <1>7 DEF all

LEMMA AcceptEventStep == ViewsInv /\ AcceptEvent => ViewsInv'
<1> SUFFICES ASSUME ViewsInv, AcceptEvent PROVE ViewsInv'
  OBVIOUS
<1>1. PICK event \in Collected, alerts \in Seq(Event({"alert"})) :
        /\ events' = events \o <<event>> \o alerts
        /\ IF rendering_paused THEN UNCHANGED <<rows, refused>>
           ELSE \E lost \in SUBSET Refusable(ListViews, events', event_filter, Len(events) + 1) :
                  rows' = WithRows(events', lost) /\ refused' = refused \union lost
        /\ drain' = [drain EXCEPT !.any_accepted = TRUE,
                                  !.tree_changed = @ \/ event.type \in {"start", "stop"}]
        /\ IsInjective(alerts)
        /\ \A k \in DOMAIN alerts :
             \E rule \in ToSet(Rules) : RuleApplies(rule, event) /\ alerts[k] = Alert(event, rule)
  BY Accepted
<1>2. /\ drain.running /\ arrivals < MaxArrivals /\ arrivals' = arrivals + 1
      /\ UNCHANGED <<recent, tree, tree_failed, metric, view_floor, sort_states, search,
                     event_filter, filter_timer_active, filter_timer, rendering_paused,
                     render_dirty, inputs>>
  BY DEF AcceptEvent, controls
<1>3. PICK history, f : history = events' /\ f = event_filter
  OBVIOUS
<1>4. /\ TypeOK /\ AlertsFollowCause /\ events \in Seq(Event(AnyType))
      /\ Len(events) \in Nat /\ DOMAIN events = 1..Len(events)
  BY Lengths DEF ViewsInv
<1>5. /\ history \in Seq(Event(AnyType)) /\ Len(history) \in Nat /\ Len(events) <= Len(history)
      /\ \A i \in DOMAIN events : i \in DOMAIN history /\ history[i] = events[i]
      /\ \A i \in DOMAIN history : i \in DOMAIN events \/ i >= Len(events) + 1
      /\ Len(events) + 1 \in DOMAIN history /\ history[Len(events) + 1] = event
      /\ \A i \in DOMAIN history : i > Len(events) + 1 => history[i].type = "alert"
      /\ \A i \in DOMAIN history : Caused(history, i)
  <2>1. AddedTo(history, event, alerts)
    BY <1>1, <1>3 DEF AddedTo
  <2>2. Continues(history, event)
    BY <1>4, <2>1, AlertsAdded
  <2> QED BY <2>2, Zenon DEF Continues
<1>6. DOMAIN history = 1..Len(history) /\ DOMAIN events \subseteq DOMAIN history
  BY <1>4, <1>5
<1>7. /\ drain'.running /\ drain'.any_accepted
      /\ drain'.tree_changed <=> drain.tree_changed \/ event.type \in {"start", "stop"}
  BY <1>1, <1>2, <1>4 DEF TypeOK
<1>8. drain' \in [running : BOOLEAN, count_before : 0 .. Len(history), any_accepted : BOOLEAN,
                  tree_changed : BOOLEAN]
  <2>1. drain \in [running : BOOLEAN, count_before : 0 .. Len(history), any_accepted : BOOLEAN,
                   tree_changed : BOOLEAN]
    BY <1>4, <1>5 DEF TypeOK
  <2> QED BY <1>1, <2>1
<1>a. PICK lost \in SUBSET MayRefuse :
        /\ rendering_paused => UNCHANGED <<rows, refused>>
        /\ ~rendering_paused => rows' = WithRows(history, lost) /\ refused' = refused \union lost
        /\ \A row \in lost : row[2] \in DOMAIN history /\ row[2] > Len(events)
  <2>1. CASE rendering_paused
    <3>1. UNCHANGED <<rows, refused>>
      BY <1>1, <2>1
    <3> WITNESS {} \in SUBSET MayRefuse
    <3> QED BY <2>1, <3>1
  <2>2. CASE ~rendering_paused
    <3>1. PICK lost \in SUBSET Refusable(ListViews, history, f, Len(events) + 1) :
            rows' = WithRows(history, lost) /\ refused' = refused \union lost
      BY <1>1, <1>3, <2>2
    <3>2. \A row \in lost : /\ row \in MayRefuse /\ row[2] \in DOMAIN history
                           /\ row[2] >= Len(events) + 1
      BY DEF Refusable, RowsOf
    <3>3. \A row \in lost : row[2] \in DOMAIN history /\ row[2] > Len(events)
      BY <1>4, <1>5, <1>6, <3>2
    <3>4. lost \in SUBSET MayRefuse
      BY <3>2
    <3> WITNESS lost \in SUBSET MayRefuse
    <3> QED BY <2>2, <3>1, <3>3
  <2> QED BY <2>1, <2>2
<1>9. ASSUME NEW view \in ListViews, ~rendering_paused
      PROVE  /\ rows'[view] \in Seq(DOMAIN history) /\ IsInjective(rows'[view])
             /\ ToSet(rows'[view]) =
                  ToSet(rows[view]) \union (Listed(view, history, f, lost) \ DOMAIN events)
  <2> DEFINE S == Listed(view, history, f, lost) \ DOMAIN events
             more == InOrder(S)
  <2>1. S \in SUBSET DOMAIN history /\ S \intersect DOMAIN events = {}
    BY DEF Listed, RowsOf
  <2>2. rows'[view] = rows[view] \o more
    BY <1>3, <1>a, <1>9 DEF WithRows
  <2> HIDE DEF S
  <2>3. S \in SUBSET Nat /\ IsFiniteSet(S)
    BY <1>5, <1>6, <2>1, FiniteIndexes
  <2>4. more \in Seq(S) /\ IsInjective(more) /\ ToSet(more) = S
    BY <2>3, InOrderCorrect
  <2> HIDE DEF more
  <2>5. S \subseteq Len(events) + 1 .. Len(history)
    BY <1>4, <1>5, <1>6, <2>1
  <2>6. more \in Seq(Len(events) + 1 .. Len(history))
    BY <2>4, <2>5, SeqOfMore
  <2>7. rows[view] \in Seq(1..Len(events)) /\ IsInjective(rows[view])
    BY <1>4 DEF TypeOK
  <2>8. /\ rows[view] \o more \in Seq(1..Len(history)) /\ IsInjective(rows[view] \o more)
        /\ ToSet(rows[view] \o more) = ToSet(rows[view]) \union ToSet(more)
    BY <1>4, <1>5, <2>4, <2>6, <2>7, RowsAdded
  <2> QED BY <1>6, <2>2, <2>4, <2>8 DEF S
<1>10. rendering_paused => rows' = rows
  BY <1>a
<1>11. TypeOK'
  <2>1. events' \in Seq(Event({"start", "stop", "network", "alert"}))
    BY <1>3, <1>5 DEF AnyType
  <2>2. /\ rows' \in [ListViews -> Seq(DOMAIN history)]
        /\ \A view \in ListViews : IsInjective(rows[view])'
    <3>1. CASE rendering_paused
      <4>1. \A view \in ListViews : rows[view] \in Seq(DOMAIN history)
        BY <1>4, <1>6, SeqOfMore DEF TypeOK
      <4> QED BY <1>4, <1>10, <3>1, <4>1 DEF TypeOK
    <3>2. CASE ~rendering_paused
      <4>1. PICK new : new = rows'
        OBVIOUS
      <4>2. new = [view \in ListViews |-> new[view]]
        BY <1>a, <3>2, <4>1 DEF WithRows
      <4> QED BY <1>9, <3>2, <4>1, <4>2
    <3> QED BY <3>1, <3>2
  <2>3. recent \in [events : Seq(DOMAIN history), alerts : Seq(DOMAIN history)]
    <3>1. recent \in [events : Seq(DOMAIN events), alerts : Seq(DOMAIN events)]
      BY <1>4 DEF TypeOK
    <3>2. recent.events \in Seq(DOMAIN history) /\ recent.alerts \in Seq(DOMAIN history)
      BY <1>6, <3>1, SeqOfMore
    <3> QED BY <3>1, <3>2
  <2>4. IsInjective(recent.events) /\ IsInjective(recent.alerts)
    BY <1>4 DEF TypeOK
  <2>5. tree \in 0 .. Len(history) /\ metric \in 0 .. Len(history)
    BY <1>4, <1>5 DEF TypeOK
  <2>6. view_floor \in [ClearableViews -> 0 .. Len(history)]
    BY <1>4, <1>5 DEF TypeOK
  <2>8. refused' \subseteq {row \in MayRefuse : row[2] \in DOMAIN history}
    <3>1. refused \subseteq {row \in MayRefuse : row[2] \in DOMAIN history}
      BY <1>4, <1>6 DEF TypeOK
    <3>2. lost \subseteq {row \in MayRefuse : row[2] \in DOMAIN history}
      BY <1>a
    <3> QED BY <1>a, <3>1, <3>2
  <2>7. arrivals' \in 0 .. MaxArrivals
    BY <1>2, <1>4, LimitsAssumption DEF TypeOK
  <2> QED BY <1>2, <1>3, <1>4, <1>8, <2>1, <2>2, <2>3, <2>4, <2>5, <2>6, <2>7, <2>8 DEF TypeOK
<1>12. RowsShown'
  <2> SUFFICES ASSUME ~filter_timer_active, ~rendering_paused, NEW view \in ListViews
               PROVE  ToSet(rows[view])' = Listed(view, events, event_filter, refused)'
    BY <1>2, <1>7 DEF RowsShown, Behind
  <2>a. PICK after : after = refused'
    OBVIOUS
  <2>b. after = refused \union lost
    BY <1>a, <2>a
  <2>1. ToSet(rows[view]) = Listed(view, events, f, refused)
    BY <1>3 DEF ViewsInv, ShownInv, RowsShown
  <2>2. \A i \in DOMAIN events : HasRow(view, events, f, i) <=> HasRow(view, history, f, i)
    BY <1>5 DEF HasRow
  <2>c. \A i \in DOMAIN events : <<view, i>> \in after <=> <<view, i>> \in refused
    <3> TAKE i \in DOMAIN events
    <3>1. i \in Nat /\ ~(i > Len(events))
      BY <1>4
    <3>2. <<view, i>> \notin lost
      BY <1>a, <3>1
    <3> QED BY <2>b, <3>2
  <2>d. \A i \in DOMAIN history \ DOMAIN events : <<view, i>> \in after <=> <<view, i>> \in lost
    <3> TAKE i \in DOMAIN history \ DOMAIN events
    <3>1. <<view, i>> \notin refused
      BY <1>4 DEF TypeOK
    <3> QED BY <2>b, <3>1
  <2>3. ToSet(rows'[view]) = Listed(view, history, f, after)
    BY <1>6, <1>9, <2>1, <2>2, <2>c, <2>d DEF Listed, RowsOf
  <2>4. \A i \in DOMAIN history :
          HasRow(view, history, f, i) <=> HasRow(view, events, event_filter, i)'
    BY <1>2, <1>3 DEF HasRow, MatchesSearch
  <2>5. RowsOf(view, events, event_filter)' = RowsOf(view, history, f)
    BY <1>3, <2>4 DEF RowsOf
  <2>6. Listed(view, events, event_filter, refused)' = Listed(view, history, f, after)
    BY <2>5, <2>a DEF Listed
  <2> QED BY <2>3, <2>6
<1>13. RecentShown' /\ MetricShown'
  BY <1>7 DEF RecentShown, MetricShown, Behind
<1>14. TreeShown'
  <2> SUFFICES ASSUME ~render_dirty, ~drain'.tree_changed, NEW i \in DOMAIN history,
                      history[i].type \in {"start", "stop"}, ~tree_failed
               PROVE  i <= tree
    BY <1>2, <1>3 DEF TreeShown
  <2>1. i \in DOMAIN events
    BY <1>4, <1>5, <1>6, <1>7
  <2> QED BY <1>5, <1>7, <2>1 DEF ViewsInv, ShownInv, TreeShown
<1>15. RowsSorted'
  <2> SUFFICES ASSUME rendering_paused, NEW view \in ListViews, sort_states[view].active
               PROVE  Ordered(view)'
    BY <1>2, <1>7 DEF RowsSorted
  <2>1. Ordered(view) /\ rows' = rows
    BY <1>10 DEF ViewsInv, RowsSorted
  <2>2. \A i \in DOMAIN rows[view] : rows[view][i] \in DOMAIN events
    BY <1>4 DEF TypeOK
  <2>3. \A l, r \in DOMAIN events :
          Before(sort_states[view], events, l, r) <=> Before(sort_states[view], events, l, r)'
    BY <1>2, <1>3, <1>5 DEF Before, ColumnValue
  <2>4. \A i, j \in DOMAIN rows[view] :
          i < j => Before(sort_states[view], events, rows[view][i], rows[view][j])'
    <3> TAKE i, j \in DOMAIN rows[view]
    <3> HAVE i < j
    <3>1. Before(sort_states[view], events, rows[view][i], rows[view][j])
      BY <2>1 DEF Ordered
    <3> QED BY <2>1, <2>2, <2>3, <3>1
  <2> QED BY <2>1, <2>4 DEF Ordered
<1>16. AlertsFollowCause'
  <2>1. (\A i \in DOMAIN history : Caused(history, i)) /\ events' = history
    BY <1>3, <1>5
  <2> QED BY <2>1, Zenon DEF AlertsFollowCause, Caused
<1>17. Quiet'
  BY <1>2, <1>7 DEF ViewsInv, Quiet
<1> QED BY <1>11, <1>12, <1>13, <1>14, <1>15, <1>16, <1>17 DEF ViewsInv, ShownInv

-----------------------------------------------------------------------------
(* Theorems *)

LEMMA ViewsInvariant == Spec => []ViewsInv
<1>1. Init => ViewsInv
  BY InitViews
<1>2. ViewsInv /\ [Next]_vars => ViewsInv'
  <2> SUFFICES ASSUME ViewsInv, [Next]_vars PROVE ViewsInv'
    OBVIOUS
  <2>1. CASE Drain
    BY <2>1, BeginDrainStep, AcceptEventStep, SkipEventStep, EndDrainStep DEF Drain
  <2>2. CASE FilterTimer
    BY <2>2, FilterTimerStep
  <2>3. CASE User
    BY <2>3, EditSearchStep, SelectEventFilterStep, TogglePauseStep, ClearViewStep,
       ClickColumnStep DEF User
  <2>4. CASE UNCHANGED vars
    BY <2>4, SkipEventStep
  <2> QED BY <2>1, <2>2, <2>3, <2>4 DEF Next
<1> QED BY <1>1, <1>2, PTL DEF Spec

\* Rows and floors stay within the history, and no list holds an event twice:
\* every item's lParam is an index that event_store_get accepts (gui.c:596-640).
THEOREM ViewsTypeCorrect == Spec => []TypeOK
<1>1. ViewsInv => TypeOK
  BY DEF ViewsInv
<1> QED BY <1>1, ViewsInvariant, PTL

\* Whatever was typed, selected, cleared, paused and drained in between, a view
\* that is neither paused nor waiting for the search timer shows exactly the
\* events that it should (drain_events, rebuild_filtered_views, toggle_pause).
THEOREM ViewsShowExactly == Spec => []ShowsExactly
<1>1. ViewsInv => ShowsExactly
  <2> SUFFICES ASSUME ViewsInv, ~drain.running, ~rendering_paused, ~filter_timer_active
               PROVE  Exact
    BY DEF ShowsExactly
  <2>1. ~drain.any_accepted /\ ~drain.tree_changed /\ ~render_dirty
    BY DEF ViewsInv, Quiet, Idle
  <2> QED BY <2>1 DEF ViewsInv, ShownInv, RowsShown, RecentShown, MetricShown, TreeShown, Behind,
                      Exact
<1> QED BY <1>1, ViewsInvariant, PTL

\* Once the user chose a column, every list stays in its order between drains,
\* paused or not (sort_view, handle_column_click).
THEOREM ViewsSortedAsChosen == Spec => []SortedAsChosen
<1>1. ViewsInv => SortedAsChosen
  BY DEF ViewsInv, Quiet, Idle, RowsSorted, Ordered, SortedAsChosen
<1> QED BY <1>1, ViewsInvariant, PTL

\* Every alert follows the event that caused it, once for a rule, whichever
\* alerts the store had no memory for (add_accepted_event, detection_evaluate).
THEOREM ViewsAlertsFollowCause == Spec => []AlertsFollowCause
<1>1. ViewsInv => AlertsFollowCause
  BY DEF ViewsInv
<1> QED BY <1>1, ViewsInvariant, PTL
===============================================================================
