------------------------- MODULE NetworkMonitorProofs -------------------------
(***************************************************************************)
(* What the network monitor reports, for any set of connections, however   *)
(* the table changes while a poll reads it.                                *)
(***************************************************************************)
EXTENDS NetworkMonitor, FiniteSetTheorems, SequenceTheorems, NaturalsInduction,
        WellFoundedInduction, TLAPS

Less(left, right) == CompareConnectionKeys(left, right) = "less"

\* The array is in the order of the comparison, without repetition.
Ordered(entries) == \A i, j \in DOMAIN entries : i < j => Less(entries[i], entries[j])

Keys(some) == {row.key : row \in some}

\* What the poll under way has visited, or the last one that was complete.
Visited == IF pc = "scan" THEN ToSet(current) ELSE {}

\* A connection that is not new is known: it is in the previous keys, or will be.
\* It is found there, and visited once.
MonitorInv ==
  /\ TypeOK
  /\ Ordered(previous)
  /\ IsFiniteSet(rows)
  /\ pc # "scan" => rows = {}
  /\ pc = "scan" => ToSet(current) \cap Keys(rows) = {}
  /\ \A r, s \in rows : r.key = s.key => r = s
  /\ Connections \ new \subseteq ToSet(previous) \cup Visited

-----------------------------------------------------------------------------
(* The order of the keys *)

LEMMA BeforeUnrolled ==
  ASSUME NEW left \in [Fields -> Nat], NEW right \in [Fields -> Nat]
  PROVE  Before(left, right, Fields) <=>
           \/ left[1] < right[1]
           \/ left[1] = right[1] /\ left[2] < right[2]
           \/ left[1] = right[1] /\ left[2] = right[2] /\ left[3] < right[3]
           \/ /\ left[1] = right[1] /\ left[2] = right[2] /\ left[3] = right[3]
              /\ left[4] < right[4]
           \/ /\ left[1] = right[1] /\ left[2] = right[2] /\ left[3] = right[3]
              /\ left[4] = right[4] /\ left[5] < right[5]
<1>1. \A i \in Fields : i = 1 \/ i = 2 \/ i = 3 \/ i = 4 \/ i = 5
  BY DEF Fields
<1>2. 1 \in Fields /\ 2 \in Fields /\ 3 \in Fields /\ 4 \in Fields /\ 5 \in Fields
  BY DEF Fields
<1> QED BY <1>1, <1>2 DEF Before

\* The comparison is a strict order that distinguishes any two keys.
LEMMA LessIsOrder ==
  ASSUME NEW x \in Connections, NEW y \in Connections
  PROVE  /\ Less(x, y) \/ Less(y, x) \/ x = y
         /\ ~(Less(x, y) /\ Less(y, x))
         /\ ~Less(x, x)
         /\ \A z \in Connections : Less(x, y) /\ Less(y, z) => Less(x, z)
         /\ CompareConnectionKeys(x, y) = "equal" <=> x = y
         /\ CompareConnectionKeys(x, y) = "greater" <=> Less(y, x)
         /\ CompareConnectionKeys(x, y) \in {"less", "equal", "greater"}
<1> DEFINE B(u, v) == Before(u, v, Fields)
<1>1. \A u, v \in Connections : Less(u, v) <=> B(u, v)
  BY DEF Less, CompareConnectionKeys
<1>2. \A u \in Connections : u \in [Fields -> Nat] /\ \A i \in 1..5 : u[i] \in Nat
  BY ConnectionsAssumption DEF Fields
<1>3. B(x, y) \/ B(y, x) \/ x = y
  <2>1. SUFFICES ASSUME ~B(x, y), ~B(y, x) PROVE x = y
    OBVIOUS
  <2>2. x[1] = y[1] /\ x[2] = y[2] /\ x[3] = y[3] /\ x[4] = y[4] /\ x[5] = y[5]
    BY <1>2, <2>1, BeforeUnrolled
  <2>3. \A i \in Fields : x[i] = y[i]
    BY <2>2 DEF Fields
  <2> QED BY <1>2, <2>3
<1>4. ~(B(x, y) /\ B(y, x))
  BY <1>2, BeforeUnrolled
<1>5. \A z \in Connections : B(x, y) /\ B(y, z) => B(x, z)
  BY <1>2, BeforeUnrolled
<1>6. ~B(x, x) /\ ~B(y, y)
  BY <1>2, BeforeUnrolled
<1>7. CompareConnectionKeys(x, y) =
        IF B(x, y) THEN "less" ELSE IF B(y, x) THEN "greater" ELSE "equal"
  BY DEF CompareConnectionKeys
<1> HIDE DEF B
<1> QED BY <1>1, <1>3, <1>4, <1>5, <1>6, <1>7

-----------------------------------------------------------------------------
(* bsearch *)

LEMMA LeastNumber ==
  ASSUME NEW S, S \subseteq Nat, S # {}
  PROVE  \E n \in S : \A m \in S : n <= m
<1> DEFINE R == OpToRel(<, Nat)
<1>1. \E x \in S : \A y \in S : ~(<<y, x>> \in R)
  <2> HIDE DEF R
  <2> QED BY NatLessThanWellFounded, WFMin DEF R
<1>2. PICK n \in S : \A y \in S : ~(<<y, n>> \in R)
  BY <1>1
<1>3. n \in Nat /\ \A y \in S : ~(y < n)
  BY <1>2 DEF OpToRel
<1>4. \A y \in S : n <= y
  <2> HIDE DEF R
  <2> QED BY <1>3
<1> QED BY <1>4

\* A step of the search, given what is found in the parts of the array.
Probe(entries, key, part, found) ==
  LET low == part[1]  high == part[2]
      middle == (low + high) \div 2
      order == CompareConnectionKeys(key, entries[middle])
  IN  low <= high /\ (\/ order = "equal"
                      \/ order = "less" /\ found[<<low, middle - 1>>]
                      \/ order = "greater" /\ found[<<middle + 1, high>>])

Parts(entries) == (1 .. Len(entries) + 1) \X (0 .. Len(entries))

Within(entries, key, part) == \E i \in part[1] .. part[2] : entries[i] = key

LEMMA SearchSteps ==
  ASSUME NEW entries, NEW key,
         \E found : found = [part \in Parts(entries) |-> Probe(entries, key, part, found)]
  PROVE  \E found :
           /\ found = [part \in Parts(entries) |-> Probe(entries, key, part, found)]
           /\ ConnectionExists(entries, key) = found[<<1, Len(entries)>>]
<1> DEFINE f == CHOOSE found :
                  found = [part \in Parts(entries) |-> Probe(entries, key, part, found)]
<1>1. f = [part \in Parts(entries) |-> Probe(entries, key, part, f)]
  OBVIOUS
<1>2. ConnectionExists(entries, key) = f[<<1, Len(entries)>>]
  BY Zenon DEF ConnectionExists, Parts, Probe
<1> HIDE DEF f
<1> QED BY <1>1, <1>2

\* The key can only be in the half that the comparison with the middle points to.
LEMMA HalfSuffices ==
  ASSUME NEW entries \in Seq(Connections), Ordered(entries), NEW key \in Connections,
         NEW low \in 1 .. Len(entries) + 1, NEW high \in 0 .. Len(entries), low <= high,
         NEW middle, middle = (low + high) \div 2
  PROVE  /\ middle \in low .. high
         /\ <<low, middle - 1>> \in Parts(entries) /\ <<middle + 1, high>> \in Parts(entries)
         /\ CompareConnectionKeys(key, entries[middle]) = "equal" => Within(entries, key, <<low, high>>)
         /\ CompareConnectionKeys(key, entries[middle]) = "less" =>
              (Within(entries, key, <<low, high>>) <=> Within(entries, key, <<low, middle - 1>>))
         /\ CompareConnectionKeys(key, entries[middle]) = "greater" =>
              (Within(entries, key, <<low, high>>) <=> Within(entries, key, <<middle + 1, high>>))
         /\ CompareConnectionKeys(key, entries[middle]) \in {"less", "equal", "greater"}
<1>1. Len(entries) \in Nat /\ low \in Nat /\ high \in Nat /\ low >= 1 /\ high <= Len(entries)
  BY LenProperties
<1>2. middle \in low .. high /\ middle \in 1 .. Len(entries)
  BY <1>1
<1>3. <<low, middle - 1>> \in Parts(entries) /\ <<middle + 1, high>> \in Parts(entries)
  <2>1. middle - 1 \in 0 .. Len(entries) /\ middle + 1 \in 1 .. Len(entries) + 1
    BY <1>1, <1>2
  <2> QED BY <2>1 DEF Parts
<1>4. DOMAIN entries = 1 .. Len(entries) /\ \A i \in 1 .. Len(entries) : entries[i] \in Connections
  BY ElementOfSeq, LenProperties
<1> DEFINE e == entries[middle]
<1>5. e \in Connections
  BY <1>2, <1>4
<1>6. /\ CompareConnectionKeys(key, e) = "equal" <=> key = e
      /\ CompareConnectionKeys(key, e) = "greater" <=> Less(e, key)
      /\ CompareConnectionKeys(key, e) = "less" <=> Less(key, e)
      /\ CompareConnectionKeys(key, e) \in {"less", "equal", "greater"}
  <2>1. CompareConnectionKeys(key, e) = "less" <=> Less(key, e)
    BY DEF Less
  <2> HIDE DEF e
  <2> QED BY <1>5, <2>1, LessIsOrder
<1>7. ASSUME Less(key, e), NEW i \in low .. high, entries[i] = key PROVE i \in low .. middle - 1
  <2>1. i \in 1 .. Len(entries) /\ i \in Nat
    BY <1>1
  <2>2. ~Less(e, key) /\ e # key
    BY <1>5, <1>7, LessIsOrder
  <2>3. ~(middle < i) /\ middle # i
    BY <1>2, <1>4, <1>7, <2>1, <2>2 DEF Ordered
  <2> QED BY <1>1, <1>2, <2>1, <2>3
<1>8. ASSUME Less(e, key), NEW i \in low .. high, entries[i] = key PROVE i \in middle + 1 .. high
  <2>1. i \in 1 .. Len(entries) /\ i \in Nat
    BY <1>1
  <2>2. ~Less(key, e) /\ e # key
    BY <1>5, <1>8, LessIsOrder
  <2>3. ~(i < middle) /\ middle # i
    BY <1>2, <1>4, <1>8, <2>1, <2>2 DEF Ordered
  <2> QED BY <1>1, <1>2, <2>1, <2>3
<1>9. low .. middle - 1 \subseteq low .. high /\ middle + 1 .. high \subseteq low .. high
  BY <1>1, <1>2
<1> DEFINE W(l, h) == \E i \in l .. h : entries[i] = key
<1>10. \A l, h : Within(entries, key, <<l, h>>) <=> W(l, h)
  BY DEF Within
<1>11. Less(key, e) => (W(low, high) <=> W(low, middle - 1))
  BY <1>7, <1>9
<1>12. Less(e, key) => (W(low, high) <=> W(middle + 1, high))
  BY <1>8, <1>9
<1>13. key = e => W(low, high)
  BY <1>2
<1> HIDE DEF W
<1> QED BY <1>2, <1>3, <1>6, <1>10, <1>11, <1>12, <1>13

\* A step of the search is right if the smaller parts are.
LEMMA ProbeCorrect ==
  ASSUME NEW entries \in Seq(Connections), Ordered(entries), NEW key \in Connections,
         NEW part \in Parts(entries), NEW found,
         \A smaller \in Parts(entries) :
           smaller[2] - smaller[1] < part[2] - part[1] =>
             (found[smaller] <=> Within(entries, key, smaller))
  PROVE  Probe(entries, key, part, found) <=> Within(entries, key, part)
<1> DEFINE low == part[1]  high == part[2]  middle == (low + high) \div 2
           order == CompareConnectionKeys(key, entries[middle])
<1>1. /\ low \in 1 .. Len(entries) + 1 /\ high \in 0 .. Len(entries) /\ part = <<low, high>>
      /\ Len(entries) \in Nat
  BY LenProperties DEF Parts
<1>2. Probe(entries, key, part, found) <=>
        (low <= high /\ (\/ order = "equal"
                         \/ order = "less" /\ found[<<low, middle - 1>>]
                         \/ order = "greater" /\ found[<<middle + 1, high>>]))
  BY DEF Probe
<1>3. CASE low <= high
  <2> DEFINE left == <<low, middle - 1>>  right == <<middle + 1, high>>
  <2>1. /\ middle \in low .. high
        /\ left \in Parts(entries) /\ right \in Parts(entries)
        /\ order = "equal" => Within(entries, key, <<low, high>>)
        /\ order = "less" => (Within(entries, key, <<low, high>>) <=> Within(entries, key, left))
        /\ order = "greater" => (Within(entries, key, <<low, high>>) <=> Within(entries, key, right))
        /\ order \in {"less", "equal", "greater"}
    <3> HIDE DEF low, high
    <3> QED BY <1>1, <1>3, HalfSuffices
  <2>2. left[2] - left[1] < high - low /\ right[2] - right[1] < high - low
    <3> HIDE DEF low, high, middle
    <3> QED BY <1>1, <1>3, <2>1
  <2>3. /\ found[left] <=> Within(entries, key, left)
        /\ found[right] <=> Within(entries, key, right)
    <3> HIDE DEF left, right
    <3> QED BY <2>1, <2>2
  <2> HIDE DEF low, high, middle, order, left, right
  <2>4. Probe(entries, key, part, found) <=>
          (\/ order = "equal"
           \/ order = "less" /\ found[left]
           \/ order = "greater" /\ found[right])
    BY <1>2, <1>3 DEF left, right
  <2>5. Within(entries, key, part) <=> Within(entries, key, <<low, high>>)
    BY <1>1
  <2> QED BY <2>1, <2>3, <2>4, <2>5
<1>4. CASE ~(low <= high)
  <2>1. low .. high = {}
    <3> HIDE DEF low, high
    <3> QED BY <1>1, <1>4
  <2>2. ~Within(entries, key, part)
    BY <2>1 DEF Within
  <2> QED BY <1>2, <1>4, <2>2
<1> QED BY <1>3, <1>4

\* Whatever is known is found, and nothing else: bsearch in what qsort sorted.
LEMMA SearchCorrect ==
  ASSUME NEW entries \in Seq(Connections), Ordered(entries), NEW key \in Connections
  PROVE  ConnectionExists(entries, key) <=> key \in ToSet(entries)
<1> DEFINE D == Parts(entries)
           W(part) == Within(entries, key, part)
           P(part, found) == Probe(entries, key, part, found)
<1>1. \E found : found = [part \in D |-> P(part, found)]
  <2> DEFINE g == [part \in D |-> W(part)]
  <2>1. \A part \in D : g[part] <=> W(part)
    OBVIOUS
  <2>2. \A part \in D : P(part, g) <=> W(part)
    <3> HIDE DEF g
    <3> QED BY <2>1, ProbeCorrect
  <2>3. \A part \in D : P(part, g) \in BOOLEAN /\ W(part) \in BOOLEAN
    BY DEF Probe, Within
  <2>4. \A part \in D : P(part, g) = W(part)
    <3> HIDE DEF g, W, P
    <3> QED BY <2>2, <2>3
  <2>5. g = [part \in D |-> P(part, g)]
    <3> HIDE DEF P, W
    <3> QED BY <2>4, Zenon
  <2> HIDE DEF g
  <2> QED BY <2>5
<1>2. PICK f : /\ f = [part \in D |-> P(part, f)]
               /\ ConnectionExists(entries, key) = f[<<1, Len(entries)>>]
  BY <1>1, SearchSteps
<1>3. \A part \in D : f[part] = P(part, f)
  <2> HIDE DEF P, D
  <2> QED BY <1>2, Zenon
<1>4. Len(entries) \in Nat
  BY LenProperties
<1> DEFINE width(part) == part[2] - part[1] + Len(entries) + 1
           Wrong == {part \in D : ~(f[part] <=> W(part))}
           Sizes == {width(part) : part \in Wrong}
<1>5. \A part \in D : width(part) \in Nat
  BY <1>4 DEF Parts
<1>6. Wrong = {}
  <2> SUFFICES ASSUME Wrong # {} PROVE FALSE
    OBVIOUS
  <2>1. Sizes # {} /\ Sizes \subseteq Nat
    <3> HIDE DEF D, W, width
    <3> QED BY <1>5
  <2>2. PICK n \in Sizes : \A m \in Sizes : n <= m
    <3> HIDE DEF Sizes
    <3> QED BY <2>1, LeastNumber
  <2>3. PICK part \in Wrong : width(part) = n
    <3> HIDE DEF Wrong, width
    <3> QED BY <2>2
  <2>4. ASSUME NEW smaller \in D, smaller[2] - smaller[1] < part[2] - part[1]
        PROVE  f[smaller] <=> W(smaller)
    <3>1. SUFFICES ASSUME smaller \in Wrong PROVE FALSE
      <4> HIDE DEF D, W
      <4> QED BY <2>4
    <3>2. n <= width(smaller)
      <4> HIDE DEF Wrong, width
      <4> QED BY <2>2, <3>1
    <3>3. part \in D
      OBVIOUS
    <3> HIDE DEF Wrong
    <3> QED BY <1>4, <2>3, <2>4, <3>2, <3>3 DEF Parts
  <2>5. part \in D /\ ~(f[part] <=> W(part))
    <3> HIDE DEF D, W
    <3> QED OBVIOUS
  <2>6. P(part, f) <=> W(part)
    <3> HIDE DEF Wrong, Sizes, width
    <3> QED BY <2>4, <2>5, ProbeCorrect
  <2> HIDE DEF P, W, D
  <2> QED BY <1>3, <2>5, <2>6
<1>7. <<1, Len(entries)>> \in D
  BY <1>4 DEF Parts
<1>8. f[<<1, Len(entries)>>] <=> W(<<1, Len(entries)>>)
  <2> HIDE DEF D, W
  <2> QED BY <1>6, <1>7
<1>9. W(<<1, Len(entries)>>) <=> key \in ToSet(entries)
  BY LenProperties DEF Within, ToSet
<1> HIDE DEF W
<1> QED BY <1>2, <1>8, <1>9

-----------------------------------------------------------------------------
(* qsort *)

\* Taking an element out of a finite set.
LEMMA OneLess ==
  ASSUME NEW S, IsFiniteSet(S), NEW x \in S
  PROVE  /\ IsFiniteSet(S \ {x}) /\ Cardinality(S) \in Nat /\ Cardinality(S \ {x}) \in Nat
         /\ Cardinality(S \ {x}) = Cardinality(S) - 1
<1>1. IsFiniteSet(S \ {x}) /\ Cardinality(S \ {x}) = Cardinality(S) - 1
  BY FS_RemoveElement
<1> QED BY <1>1, FS_CardinalityType

LEMMA FewestElements ==
  ASSUME NEW Family, Family # {}, \A S \in Family : IsFiniteSet(S)
  PROVE  \E S \in Family : \A T \in Family : Cardinality(S) <= Cardinality(T)
<1> DEFINE Sizes == {Cardinality(S) : S \in Family}
<1>1. Sizes # {} /\ Sizes \subseteq Nat
  BY FS_CardinalityType
<1>2. PICK n \in Sizes : \A m \in Sizes : n <= m
  <2> HIDE DEF Sizes
  <2> QED BY <1>1, LeastNumber
<1> QED BY <1>2

LEMMA GreatestKey ==
  ASSUME NEW keys, keys \subseteq Connections, keys # {}
  PROVE  \E x \in keys : \A y \in keys : ~Less(x, y)
<1> DEFINE HasGreatest(S) == \E x \in S : \A y \in S : ~Less(x, y)
           Counter == {S \in SUBSET Connections : S # {} /\ ~HasGreatest(S)}
<1>1. \A S \in SUBSET Connections : IsFiniteSet(S)
  BY ConnectionsAssumption, FS_Subset
<1> SUFFICES ASSUME Counter # {} PROVE FALSE
  OBVIOUS
<1>2. PICK S \in Counter : \A T \in Counter : Cardinality(S) <= Cardinality(T)
  <2>1. \A T \in Counter : IsFiniteSet(T)
    BY <1>1
  <2> HIDE DEF Counter
  <2> QED BY <2>1, FewestElements
<1>3. PICK x \in S : TRUE
  OBVIOUS
<1> DEFINE T == S \ {x}
<1>4. Cardinality(T) \in Nat /\ Cardinality(S) \in Nat /\ Cardinality(T) < Cardinality(S)
  <2>1. IsFiniteSet(S)
    BY <1>1
  <2> HIDE DEF Counter
  <2>2. /\ Cardinality(S) \in Nat /\ Cardinality(T) \in Nat
        /\ Cardinality(T) = Cardinality(S) - 1
    BY <1>3, <2>1, OneLess
  <2> HIDE DEF T
  <2> QED BY <2>2
<1>5. T \notin Counter
  <2>1. ASSUME T \in Counter PROVE Cardinality(S) <= Cardinality(T)
    BY <1>2, <2>1
  <2> HIDE DEF T, Counter
  <2> QED BY <1>4, <2>1
<1>6. S \subseteq Connections /\ T \subseteq Connections
  OBVIOUS
<1>7. CASE T = {}
  <2>1. \A y \in S : y = x
    BY <1>7
  <2>2. ~Less(x, x)
    BY <1>3, <1>6, LessIsOrder
  <2> QED BY <1>3, <2>1, <2>2
<1>8. CASE T # {}
  <2>1. PICK y \in T : \A z \in T : ~Less(y, z)
    BY <1>5, <1>6, <1>8
  <2>2. x \in Connections /\ y \in Connections
    BY <1>3, <1>6, <2>1
  <2>3. CASE ~Less(y, x)
    BY <1>3, <2>1, <2>3
  <2>4. CASE Less(y, x)
    <3>1. ASSUME NEW z \in S, Less(x, z) PROVE FALSE
      <4>1. z \in Connections
        BY <1>6, <3>1
      <4>2. Less(y, z)
        BY <2>2, <2>4, <3>1, <4>1, LessIsOrder
      <4>3. z \in T
        BY <2>2, <3>1, <4>1, LessIsOrder
      <4> QED BY <2>1, <4>2, <4>3
    <3> QED BY <1>3, <3>1
  <2> QED BY <2>3, <2>4
<1> QED BY <1>7, <1>8

\* The keys in order, in an array of their number.
InOrder(keys, order) ==
  /\ order \in [1 .. Cardinality(keys) -> keys] /\ Range(order) = keys
  /\ \A i, j \in 1 .. Cardinality(keys) : i < j => ~Less(order[j], order[i])

LEMMA OrderExists ==
  ASSUME NEW keys, keys \subseteq Connections
  PROVE  \E order : InOrder(keys, order)
<1> DEFINE Counter == {S \in SUBSET Connections : ~\E order : InOrder(S, order)}
<1>1. \A S \in SUBSET Connections : IsFiniteSet(S)
  BY ConnectionsAssumption, FS_Subset
<1> SUFFICES ASSUME Counter # {} PROVE FALSE
  OBVIOUS
<1>2. PICK S \in Counter : \A T \in Counter : Cardinality(S) <= Cardinality(T)
  <2>1. \A T \in Counter : IsFiniteSet(T)
    BY <1>1
  <2> HIDE DEF Counter
  <2> QED BY <2>1, FewestElements
<1>3. S \subseteq Connections /\ IsFiniteSet(S) /\ ~\E order : InOrder(S, order)
  BY <1>1
<1>4. CASE S = {}
  <2>1. Cardinality(S) = 0
    BY <1>4, FS_EmptySet
  <2>2. InOrder(S, <<>>)
    BY <1>4, <2>1 DEF InOrder, Range
  <2> QED BY <1>3, <2>2
<1>5. CASE S # {}
  <2>1. PICK x \in S : \A y \in S : ~Less(x, y)
    BY <1>3, <1>5, GreatestKey
  <2> DEFINE T == S \ {x}
             m == Cardinality(T)
  <2>2. Cardinality(S) = m + 1 /\ m \in Nat
    BY <1>3, OneLess
  <2>3. T \notin Counter
    <3>1. ASSUME T \in Counter PROVE Cardinality(S) <= m
      BY <1>2, <3>1
    <3> HIDE DEF T, m, Counter
    <3> QED BY <2>2, <3>1
  <2>4. PICK o : InOrder(T, o)
    BY <1>3, <2>3
  <2>5. /\ o \in [1 .. m -> T] /\ Range(o) = T
        /\ \A i, j \in 1 .. m : i < j => ~Less(o[j], o[i])
    BY <2>4 DEF InOrder
  <2>6. T \subseteq S /\ \A y \in S : y = x \/ y \in T
    OBVIOUS
  <2> HIDE DEF Counter, T, m
  <2> DEFINE o1 == [i \in 1 .. (m + 1) |-> IF i = m + 1 THEN x ELSE o[i]]
  <2>7. \A i \in 1 .. (m + 1) : i = m + 1 \/ i \in 1 .. m
    BY <2>2
  <2>8. o1 \in [1 .. (m + 1) -> S]
    BY <2>1, <2>5, <2>6, <2>7
  <2>9. o1[m + 1] = x /\ \A i \in 1 .. m : o1[i] = o[i] /\ i \in 1 .. (m + 1)
    BY <2>2
  <2>10. Range(o1) = S
    <3>1. \A y \in S : \E i \in 1 .. (m + 1) : o1[i] = y
      BY <2>2, <2>5, <2>6, <2>9 DEF Range
    <3> HIDE DEF o1
    <3> QED BY <2>8, <3>1 DEF Range
  <2>11. \A i, j \in 1 .. (m + 1) : i < j => ~Less(o1[j], o1[i])
    <3> TAKE i, j \in 1 .. (m + 1)
    <3> HAVE i < j
    <3> HIDE DEF o1
    <3>1. i \in 1 .. m /\ o[i] \in S
      BY <2>2, <2>5, <2>6
    <3>2. CASE j = m + 1
      BY <2>1, <2>9, <3>1, <3>2
    <3>3. CASE j \in 1 .. m
      BY <2>5, <2>9, <3>1, <3>3
    <3> QED BY <2>7, <3>2, <3>3
  <2> HIDE DEF o1
  <2>12. InOrder(S, o1)
    BY <2>2, <2>8, <2>10, <2>11 DEF InOrder
  <2> QED BY <1>3, <2>12
<1> QED BY <1>4, <1>5

\* Sorting keeps the keys and makes the array one that bsearch can search.
LEMMA SortedCorrect ==
  ASSUME NEW entries \in Seq(Connections), IsInjective(entries)
  PROVE  /\ Sorted(entries) \in Seq(Connections) /\ IsInjective(Sorted(entries))
         /\ ToSet(Sorted(entries)) = ToSet(entries)
         /\ Ordered(Sorted(entries))
<1> DEFINE K == ToSet(entries)  n == Len(entries)
<1>1. n \in Nat /\ DOMAIN entries = 1 .. n /\ K \subseteq Connections
  BY LenProperties, ElementOfSeq DEF ToSet
<1>2. Cardinality(K) = n
  <2>1. entries \in Bijection(1 .. n, K)
    BY <1>1 DEF Bijection, Injection, Surjection, IsInjective, ToSet
  <2>2. ExistsBijection(1 .. n, K)
    BY <2>1 DEF ExistsBijection
  <2> QED BY <1>1, <2>2, FS_CountingElements
<1>3. PICK o : InOrder(K, o)
  BY <1>1, OrderExists
<1> DEFINE Good(order) == /\ Range(order) = K
                          /\ \A i, j \in DOMAIN order :
                               i < j => CompareConnectionKeys(order[j], order[i]) # "less"
<1>4. o \in [DOMAIN entries -> K] /\ Good(o)
  BY <1>1, <1>2, <1>3 DEF InOrder, Less
<1> DEFINE s == Sorted(entries)
<1>5. s \in [DOMAIN entries -> K] /\ Good(s)
  BY <1>4 DEF Sorted
<1>6. s \in [1 .. n -> K] /\ Range(s) = K /\ \A i, j \in 1 .. n : i < j => ~Less(s[j], s[i])
  BY <1>1, <1>5 DEF Less
<1> HIDE DEF s, K, n
<1>7. s \in Seq(Connections)
  BY <1>1, <1>6, SeqDef
<1>8. ToSet(s) = K
  BY <1>6 DEF ToSet, Range
<1>9. IsInjective(s)
  <2>1. s \in Surjection(1 .. n, K)
    BY <1>6 DEF Surjection, Range
  <2>2. IsFiniteSet(1 .. n) /\ Cardinality(1 .. n) = n
    BY <1>1, FS_Interval
  <2>3. s \in Injection(1 .. n, K)
    BY <1>2, <2>1, <2>2, FS_SurjSameCardinalityImpliesInj
  <2> QED BY <2>3 DEF Injection
<1>10. Ordered(s)
  <2> SUFFICES ASSUME NEW i \in 1 .. n, NEW j \in 1 .. n, i < j PROVE Less(s[i], s[j])
    BY <1>6 DEF Ordered
  <2>1. s[i] # s[j] /\ ~Less(s[j], s[i])
    BY <1>1, <1>6, <1>9 DEF IsInjective
  <2>2. s[i] \in Connections /\ s[j] \in Connections
    BY <1>1, <1>6
  <2> QED BY <2>1, <2>2, LessIsOrder
<1> QED BY <1>7, <1>8, <1>9, <1>10 DEF s, K

-----------------------------------------------------------------------------
(* The poll *)

\* The types in MonitorInv, and what is known, in the form the steps use.
LEMMA RowsFit ==
  ASSUME table \in [Connections -> TcpStates]
  PROVE  /\ Rows \subseteq Connections /\ IsFiniteSet(Rows)
         /\ Cardinality(Rows) \in 0 .. Cardinality(Connections)
<1>1. Rows \subseteq Connections
  BY DEF Rows
<1>2. /\ IsFiniteSet(Rows) /\ Cardinality(Rows) \in Nat /\ Cardinality(Connections) \in Nat
      /\ Cardinality(Rows) <= Cardinality(Connections)
  BY <1>1, ConnectionsAssumption, FS_Subset, FS_CardinalityType
<1> QED BY <1>1, <1>2

\* One row of the captured table is one of Windows'.
LEMMA CapturedRows ==
  ASSUME table \in [Connections -> TcpStates],
         NEW captured, captured = {[key |-> c, state |-> table[c]] : c \in Rows}
  PROVE  /\ captured \subseteq [key : Connections, state : TcpStates \ {"closed"}]
         /\ IsFiniteSet(captured) /\ Cardinality(captured) = Cardinality(Rows)
         /\ \A r, s \in captured : r.key = s.key => r = s
<1> DEFINE f == [c \in Rows |-> [key |-> c, state |-> table[c]]]
<1>1. f \in Bijection(Rows, captured)
  BY DEF Bijection, Injection, Surjection, IsInjective
<1>2. ExistsBijection(Rows, captured)
  BY <1>1 DEF ExistsBijection
<1>3. IsFiniteSet(captured) /\ Cardinality(captured) = Cardinality(Rows)
  BY <1>2, RowsFit, FS_Bijection
<1>4. captured \subseteq [key : Connections, state : TcpStates \ {"closed"}]
  BY RowsFit DEF Rows
<1> QED BY <1>3, <1>4

LEMMA MonitorInit == Init => MonitorInv
<1> SUFFICES ASSUME Init PROVE MonitorInv
  OBVIOUS
<1> USE DEF Init
<1>1. IsFiniteSet(Connections) /\ Cardinality(Connections) \in Nat
  BY ConnectionsAssumption, FS_CardinalityType
<1>2. TypeOK
  <2>1. table \in [Connections -> TcpStates] /\ opens \in 0 .. MaxOpens
    BY MaxOpensAssumption DEF TcpStates
  <2>2. current = <<>> /\ previous = <<>> /\ events = <<>> /\ rows = {} /\ pc = "idle" /\ size = 0
    OBVIOUS
  <2>3. <<>> \in Seq(Connections) /\ IsInjective(<<>>)
    BY EmptySeq DEF IsInjective
  <2> QED BY <1>1, <2>1, <2>2, <2>3 DEF TypeOK
<1>3. Ordered(previous)
  BY DEF Ordered
<1>4. IsFiniteSet(rows)
  BY FS_EmptySet
<1> QED BY <1>2, <1>3, <1>4 DEF MonitorInv, Keys, Visited

\* Windows does not touch the monitor.
LEMMA WindowsInv ==
  ASSUME MonitorInv, Windows PROVE MonitorInv'
<1>1. /\ UNCHANGED monitor
      /\ table' \in [Connections -> TcpStates] /\ opens' \in 0 .. MaxOpens
  <2>1. PICK c \in Connections : Open(c) \/ Close(c) \/ Forget(c)
    BY DEF Windows
  <2>2. UNCHANGED monitor
    BY <2>1 DEF Open, Close, Forget, Change
  <2>3. table \in [Connections -> TcpStates] /\ opens \in 0 .. MaxOpens
    BY DEF MonitorInv, TypeOK
  <2>4. table' \in [Connections -> TcpStates]
    BY <2>1, <2>3 DEF Open, Close, Forget, Change, TcpStates
  <2>5. opens' \in 0 .. MaxOpens
    BY <2>1, <2>3, MaxOpensAssumption DEF Open, Close, Forget
  <2> QED BY <2>2, <2>4, <2>5
<1>2. TypeOK'
  BY <1>1 DEF MonitorInv, TypeOK, monitor
<1> QED BY <1>1, <1>2 DEF MonitorInv, monitor, Ordered, Keys, Visited

LEMMA QuerySizeInv ==
  ASSUME MonitorInv, QuerySize PROVE MonitorInv'
<1>1. TypeOK'
  <2>1. size' \in 0 .. Cardinality(Connections)
    BY RowsFit DEF QuerySize, MonitorInv, TypeOK
  <2> QED BY <2>1 DEF QuerySize, MonitorInv, TypeOK
<1> QED BY <1>1 DEF QuerySize, MonitorInv, Ordered, Keys, Visited

LEMMA CaptureFailsInv ==
  ASSUME MonitorInv, CaptureFails PROVE MonitorInv'
<1>1. TypeOK'
  BY DEF CaptureFails, MonitorInv, TypeOK
<1> QED BY <1>1 DEF CaptureFails, MonitorInv, Ordered, Keys, Visited

\* There is room in current for every row.
LEMMA CaptureInv ==
  ASSUME MonitorInv, Capture PROVE MonitorInv'
<1>1. /\ pc = "table" /\ pc' = "scan" /\ Cardinality(Rows) <= size
      /\ rows' = {[key |-> c, state |-> table[c]] : c \in Rows} /\ current' = <<>>
      /\ UNCHANGED <<table, opens, size, previous, events, new>>
  BY DEF Capture
<1>2. /\ rows' \subseteq [key : Connections, state : TcpStates \ {"closed"}]
      /\ IsFiniteSet(rows') /\ Cardinality(rows') = Cardinality(Rows)
      /\ \A r, s \in rows' : r.key = s.key => r = s
  <2>1. table \in [Connections -> TcpStates]
    BY DEF MonitorInv, TypeOK
  <2> QED BY <1>1, <2>1, CapturedRows
<1>3. Len(current') + Cardinality(rows') <= size'
  <2>1. Len(current') = 0 /\ Cardinality(Rows) \in Nat
    BY <1>1, RowsFit DEF MonitorInv, TypeOK
  <2> QED BY <1>1, <1>2, <2>1
<1>4. current' \in Seq(Connections) /\ IsInjective(current') /\ ToSet(current') = {}
  BY <1>1, EmptySeq DEF IsInjective, ToSet
<1>5. TypeOK'
  BY <1>1, <1>2, <1>3, <1>4 DEF MonitorInv, TypeOK
<1>6. Connections \ new \subseteq ToSet(previous)
  BY <1>1 DEF MonitorInv, Visited
<1> QED BY <1>1, <1>2, <1>4, <1>5, <1>6 DEF MonitorInv, Ordered, Visited

\* Appending a key that the sequence does not have.
LEMMA AppendNew ==
  ASSUME NEW s \in Seq(Connections), IsInjective(s), NEW c \in Connections, c \notin ToSet(s)
  PROVE  /\ Append(s, c) \in Seq(Connections) /\ IsInjective(Append(s, c))
         /\ ToSet(Append(s, c)) = ToSet(s) \cup {c}
         /\ Len(Append(s, c)) = Len(s) + 1 /\ Len(s) \in Nat
<1> DEFINE t == Append(s, c)  n == Len(s)
<1>1. n \in Nat /\ DOMAIN s = 1 .. n
  BY LenProperties
<1>2. t \in Seq(Connections) /\ Len(t) = n + 1 /\ t[n + 1] = c /\ \A i \in 1 .. n : t[i] = s[i]
  BY AppendProperties
<1> HIDE DEF t, n
<1>3. DOMAIN t = 1 .. (n + 1)
  BY <1>2, LenProperties
<1>4. \A i \in 1 .. (n + 1) : i = n + 1 \/ i \in 1 .. n
  BY <1>1
<1>5. n + 1 \in 1 .. (n + 1) /\ \A i \in 1 .. n : i \in 1 .. (n + 1) /\ s[i] # c
  BY <1>1 DEF ToSet
<1>6. IsInjective(t)
  BY <1>1, <1>2, <1>3, <1>4, <1>5 DEF IsInjective
<1>7. ToSet(t) = ToSet(s) \cup {c}
  BY <1>1, <1>2, <1>3, <1>4, <1>5 DEF ToSet
<1> QED BY <1>1, <1>2, <1>6, <1>7 DEF t, n

\* What a visited row does.
LEMMA VisitRowCases ==
  ASSUME VisitRow
  PROVE  \E row \in rows :
           /\ rows' = rows \ {row}
           /\ \/ events' = events
              \/ /\ events' = Append(events, row.key) /\ row.state = "established"
                 /\ ~ConnectionExists(previous, row.key)
           /\ new' \in {new, new \ {row.key}}
           /\ row.state # "established" => current' = current /\ new' = new
           /\ row.state = "established" => current' = Append(current, row.key)
<1> DEFINE seen(row) == ConnectionExists(previous, row.key)
           longer(row) == Append(events, row.key)
           kept(row) == Append(current, row.key)
           Does(row) ==
             /\ rows' = rows \ {row}
             /\ IF row.state # "established" THEN UNCHANGED <<current, events, new>>
                ELSE /\ current' = kept(row)
                     /\ IF seen(row) THEN UNCHANGED <<events, new>>
                        ELSE events' \in {events, longer(row)} /\ new' = new \ {row.key}
<1>1. \E row \in rows : Does(row)
  BY DEF VisitRow
<1> HIDE DEF seen, longer, kept
<1>2. PICK row \in rows : Does(row)
  BY <1>1
<1>3. CASE row.state # "established"
  BY <1>2, <1>3
<1>4. CASE row.state = "established"
  <2>1. CASE seen(row)
    BY <1>2, <1>4, <2>1 DEF kept
  <2>2. CASE ~seen(row)
    <3>1. /\ events' = events \/ events' = longer(row)
          /\ new' = new \ {row.key} /\ current' = kept(row) /\ rows' = rows \ {row}
      BY <1>2, <1>4, <2>2
    <3> QED BY <1>4, <2>2, <3>1 DEF kept, longer, seen
  <2> QED BY <2>1, <2>2
<1> QED BY <1>3, <1>4

\* A row of the captured table: visited once, and new unless the last poll has it.
LEMMA VisitRowInv ==
  ASSUME MonitorInv, VisitRow PROVE MonitorInv'
<1>1. PICK row \in rows :
        /\ rows' = rows \ {row}
        /\ \/ events' = events
           \/ /\ events' = Append(events, row.key) /\ row.state = "established"
              /\ ~ConnectionExists(previous, row.key)
        /\ new' \in {new, new \ {row.key}}
        /\ row.state # "established" => current' = current /\ new' = new
        /\ row.state = "established" => current' = Append(current, row.key)
  BY VisitRowCases
<1>2. pc = "scan" /\ UNCHANGED <<table, opens, pc, size, previous>>
  BY DEF VisitRow
<1>3. /\ table \in [Connections -> TcpStates] /\ opens \in 0 .. MaxOpens
      /\ size \in 0 .. Cardinality(Connections)
      /\ rows \subseteq [key : Connections, state : TcpStates \ {"closed"}]
      /\ current \in Seq(Connections) /\ IsInjective(current)
      /\ previous \in Seq(Connections) /\ IsInjective(previous)
      /\ events \in Seq(Connections) /\ new \subseteq Connections
      /\ Len(current) + Cardinality(rows) <= size
  BY <1>2 DEF MonitorInv, TypeOK
<1>4. /\ Ordered(previous) /\ ToSet(current) \cap Keys(rows) = {} /\ IsFiniteSet(rows)
      /\ \A r, s \in rows : r.key = s.key => r = s
      /\ Connections \ new \subseteq ToSet(previous) \cup ToSet(current)
  BY <1>2 DEF MonitorInv, Visited
<1>5. /\ row.key \in Connections /\ row.key \notin ToSet(current)
      /\ row.key \notin Keys(rows') /\ Keys(rows') \subseteq Keys(rows)
  BY <1>1, <1>3, <1>4 DEF Keys
<1>6. /\ IsFiniteSet(rows') /\ Cardinality(rows) \in Nat
      /\ Cardinality(rows') = Cardinality(rows) - 1
  BY <1>1, <1>4, OneLess
<1>7. /\ current' \in Seq(Connections) /\ IsInjective(current')
      /\ ToSet(current) \subseteq ToSet(current')
      /\ ToSet(current') \subseteq ToSet(current) \cup {row.key}
      /\ row.state = "established" => row.key \in ToSet(current')
      /\ Len(current') <= Len(current) + 1 /\ Len(current) \in Nat /\ Len(current') \in Nat
  <2>1. CASE row.state = "established"
    <3>1. /\ Append(current, row.key) \in Seq(Connections)
          /\ IsInjective(Append(current, row.key))
          /\ ToSet(Append(current, row.key)) = ToSet(current) \cup {row.key}
          /\ Len(Append(current, row.key)) = Len(current) + 1 /\ Len(current) \in Nat
      BY <1>3, <1>5, AppendNew
    <3>2. current' = Append(current, row.key)
      BY <1>1, <2>1
    <3> DEFINE longer == Append(current, row.key)
    <3> HIDE DEF longer
    <3>3. /\ longer \in Seq(Connections) /\ IsInjective(longer)
          /\ ToSet(longer) = ToSet(current) \cup {row.key}
          /\ Len(longer) = Len(current) + 1 /\ Len(current) \in Nat
      BY <3>1 DEF longer
    <3>4. current' = longer
      BY <3>2 DEF longer
    <3> QED BY <3>3, <3>4
  <2>2. CASE row.state # "established"
    BY <1>1, <1>3, <2>2, LenProperties
  <2> QED BY <2>1, <2>2
<1>8. events' \in Seq(Connections)
  <2>1. Append(events, row.key) \in Seq(Connections)
    BY <1>3, <1>5, AppendProperties
  <2> QED BY <1>1, <1>3, <2>1
<1>9. /\ new' \subseteq new /\ new \subseteq new' \cup {row.key}
      /\ row.key \in new' \/ row.key \notin new \/ row.key \in ToSet(current')
  BY <1>7, <1>1
<1>10. TypeOK'
  <2>1. Len(current') + Cardinality(rows') <= size
    BY <1>3, <1>6, <1>7
  <2> QED BY <1>1, <1>2, <1>3, <1>7, <1>8, <1>9, <2>1 DEF TypeOK
<1>11. Connections \ new' \subseteq ToSet(previous) \cup ToSet(current')
  BY <1>4, <1>7, <1>9
<1>12. ToSet(current') \cap Keys(rows') = {}
  BY <1>4, <1>5, <1>7
<1> QED BY <1>1, <1>2, <1>4, <1>6, <1>10, <1>11, <1>12 DEF MonitorInv, Ordered, Visited

LEMMA FinishInv ==
  ASSUME MonitorInv, Finish PROVE MonitorInv'
<1>1. /\ pc = "scan" /\ rows = {} /\ pc' = "idle" /\ previous' = Sorted(current)
      /\ new' = new \cup (Connections \ ToSet(current))
      /\ UNCHANGED <<table, opens, size, rows, current, events>>
  BY DEF Finish
<1>2. current \in Seq(Connections) /\ IsInjective(current)
  BY DEF MonitorInv, TypeOK
<1>3. /\ previous' \in Seq(Connections) /\ IsInjective(previous')
      /\ ToSet(previous') = ToSet(current)
      /\ Ordered(previous')
  BY <1>1, <1>2, SortedCorrect
<1>4. TypeOK'
  BY <1>1, <1>2, <1>3 DEF MonitorInv, TypeOK
<1>5. Connections \ new' \subseteq ToSet(previous')
  BY <1>1, <1>3
<1>6. Ordered(previous)'
  BY <1>3 DEF Ordered
<1> QED BY <1>1, <1>4, <1>5, <1>6 DEF MonitorInv, Keys, Visited

LEMMA MonitorNext ==
  ASSUME MonitorInv, [Next]_vars PROVE MonitorInv'
<1>1. CASE Poll
  BY <1>1, QuerySizeInv, CaptureInv, CaptureFailsInv, VisitRowInv, FinishInv DEF Poll
<1>2. CASE Windows
  BY <1>2, WindowsInv
<1>3. CASE UNCHANGED vars
  BY <1>3 DEF vars, MonitorInv, TypeOK, Ordered, Keys, Visited
<1> QED BY <1>1, <1>2, <1>3 DEF Next

\* The invariant holds in every behaviour, for any connections.
THEOREM NetworkMonitorInvariant == Spec => []MonitorInv
<1>1. Init => MonitorInv
  BY MonitorInit
<1>2. MonitorInv /\ [Next]_vars => MonitorInv'
  BY MonitorNext
<1> QED BY <1>1, <1>2, PTL DEF Spec

\* network_monitor_poll keeps each key once, and what it captures fits in the buffer
\* sized by the call before, however the table grows between the two calls.
THEOREM NetworkTypeCorrect == Spec => []TypeOK
<1>1. MonitorInv => TypeOK
  BY DEF MonitorInv
<1> QED BY <1>1, NetworkMonitorInvariant, PTL

\* What emit_network_event reports is newly observed: the search in the sorted
\* keys of the last complete poll misses none of them.
THEOREM ReportsAreNew == Spec => NewlyObserved
<1>1. ASSUME MonitorInv, [Next]_vars, events' # events PROVE Last(events') \in new
  <2>1. VisitRow
    BY <1>1 DEF Next, Poll, Windows, QuerySize, Capture, CaptureFails, Finish,
                Open, Close, Forget, Change, vars, monitor
  <2>2. PICK row \in rows :
          /\ ~ConnectionExists(previous, row.key)
          /\ events' = Append(events, row.key)
    BY <1>1, <2>1, VisitRowCases
  <2>3. row.key \in Connections /\ row.key \notin ToSet(current)
    BY <1>1, <2>1 DEF MonitorInv, TypeOK, VisitRow, Keys
  <2>4. row.key \notin ToSet(previous)
    BY <1>1, <2>2, <2>3, SearchCorrect DEF MonitorInv, TypeOK
  <2>5. row.key \in new
    BY <1>1, <2>1, <2>3, <2>4 DEF MonitorInv, Visited, VisitRow
  <2>6. Last(events') = row.key
    <3>1. events \in Seq(Connections)
      BY <1>1 DEF MonitorInv, TypeOK
    <3> QED BY <2>2, <2>3, <3>1, AppendProperties DEF Last
  <2> QED BY <2>5, <2>6
<1>2. MonitorInv /\ [Next]_vars => [events' # events => Last(events') \in new]_vars
  BY <1>1
<1> QED BY <1>2, NetworkMonitorInvariant, PTL DEF Spec, NewlyObserved
=============================================================================
