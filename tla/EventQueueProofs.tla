--------------------------- MODULE EventQueueProofs ---------------------------
(***************************************************************************)
(* Theorems about EventQueue for every set of producers, every number of   *)
(* pushes, and whether or not allocation and posting may fail.             *)
(***************************************************************************)
EXTENDS EventQueue, SequenceTheorems, TLAPS

-----------------------------------------------------------------------------
\* Appending to and dropping from a list without repetitions.
Distinct(s) == \A i, j \in 1..Len(s) : s[i] = s[j] => i = j

LEMMA AppendDistinct ==
  ASSUME NEW S, NEW s \in Seq(S), NEW x \in S
  PROVE  /\ Append(s, x) \in Seq(S) /\ Len(Append(s, x)) = Len(s) + 1
         /\ \A i \in 1..Len(s) : Append(s, x)[i] = s[i]
         /\ Append(s, x)[Len(s) + 1] = x
         /\ Range(Append(s, x)) = Range(s) \cup {x}
         /\ Distinct(s) /\ x \notin Range(s) => Distinct(Append(s, x))
<1> DEFINE t == Append(s, x)
           n == Len(s)
<1>1. /\ n \in Nat /\ DOMAIN s = 1..n
      /\ t \in Seq(S) /\ Len(t) = n + 1 /\ DOMAIN t = 1..(n + 1)
      /\ \A i \in 1..n : t[i] = s[i]
      /\ t[n + 1] = x
  BY AppendProperties, LenProperties
<1> HIDE DEF t, n
<1>2. Range(t) = Range(s) \cup {x}
  BY <1>1 DEF Range
<1>3. Distinct(s) /\ x \notin Range(s) => Distinct(t)
  BY <1>1 DEF Distinct, Range, n
<1> QED BY <1>1, <1>2, <1>3 DEF t, n

LEMMA TailDistinct ==
  ASSUME NEW S, NEW s \in Seq(S), s # <<>>
  PROVE  /\ Tail(s) \in Seq(S) /\ Len(s) \in Nat \ {0}
         /\ Len(Tail(s)) = Len(s) - 1
         /\ \A i \in 1..(Len(s) - 1) : Tail(s)[i] = s[i + 1]
         /\ s[1] \in S /\ s[1] \in Range(s)
         /\ Distinct(s) => Distinct(Tail(s)) /\ Range(Tail(s)) = Range(s) \ {s[1]}
<1> DEFINE t == Tail(s)
           n == Len(s)
<1>1. /\ n \in Nat \ {0} /\ DOMAIN s = 1..n
      /\ t \in Seq(S) /\ Len(t) = n - 1 /\ DOMAIN t = 1..(n - 1)
      /\ \A i \in 1..(n - 1) : t[i] = s[i + 1]
      /\ \A i \in 1..n : s[i] \in S
  BY EmptySeq, HeadTailProperties, LenProperties, ElementOfSeq
<1> HIDE DEF t, n
<1>2. s[1] \in S /\ s[1] \in Range(s)
  BY <1>1 DEF Range
<1>3. ASSUME Distinct(s) PROVE Distinct(t) /\ Range(t) = Range(s) \ {s[1]}
  <2>1. Distinct(t)
    BY <1>1, <1>3 DEF Distinct, n
  <2>2. \A i \in 2..n : s[i] = t[i - 1] /\ i - 1 \in 1..(n - 1)
    BY <1>1
  <2>3. Range(t) \subseteq Range(s) \ {s[1]}
    BY <1>1, <1>3 DEF Range, Distinct, n
  <2>4. Range(s) \ {s[1]} \subseteq Range(t)
    <3> SUFFICES ASSUME NEW x \in Range(s), x # s[1] PROVE x \in Range(t)
      OBVIOUS
    <3>1. PICK i \in 1..n : x = s[i]
      BY <1>1 DEF Range
    <3>2. i \in 2..n
      BY <1>1, <3>1
    <3>3. x = t[i - 1] /\ i - 1 \in DOMAIN t
      BY <1>1, <2>2, <3>1, <3>2
    <3> QED BY <3>3 DEF Range
  <2> QED BY <2>1, <2>3, <2>4
<1> QED BY <1>1, <1>2, <1>3 DEF t, n

-----------------------------------------------------------------------------
\* The strengthening that makes the list invariants inductive: what a producer
\* holds is ready to be linked, what the GUI holds is a node, allocated nodes
\* carry values, and the queue is emptied before it is closed.
Shape ==
  /\ \A p \in Producers :
       pc[p] = "link" => node[p] \in Nodes /\ next[node[p]] = Null
  /\ gui = "use" => hand \in Nodes
  /\ \A n \in heap : value[n] \in Values
  /\ Gone => head = Null /\ tail = Null
  /\ gui = "closed" => chain = <<>>

ListInv == TypeOK /\ ListIntact /\ NodesOwnedOnce /\ NothingOutlivesTheQueue /\ Shape

LEMMA ListInvInit == Init => ListInv
<1> SUFFICES ASSUME Init PROVE ListInv
  OBVIOUS
<1> USE DEF Init
<1>1. TypeOK
  <2>1. <<>> \in Seq(Values) /\ <<>> \in Seq(Nodes)
    BY EmptySeq
  <2>2. 0 \in 0..MaxPushes
    BY BoundAssumption
  <2> QED BY <2>1, <2>2 DEF TypeOK, PushStates, GuiStates
<1>2. Held = {} /\ Range(chain) = {}
  BY DEF Held, Range
<1>3. ListIntact /\ NodesOwnedOnce
  BY <1>2 DEF ListIntact, NodesOwnedOnce, Front
<1>4. NothingOutlivesTheQueue /\ Shape
  BY DEF NothingOutlivesTheQueue, Shape, Gone
<1> QED BY <1>1, <1>3, <1>4 DEF ListInv

\* Steps that leave the nodes, who holds them and how they are linked alone.
LEMMA ListInvKept ==
  ASSUME ListInv, TypeOK', UNCHANGED <<list, heap, node>>,
         Held' = Held, Front' = Front,
         \A p \in Producers : pc'[p] = "link" => pc[p] = "link",
         gui' = "use" => gui = "use", UNCHANGED hand,
         Gone' => Gone, gui' \notin {"free", "closed"} => gui \notin {"free", "closed"},
         gui' = "closed" => gui = "closed",
         gui' \in {"detach", "destroy", "free", "closed"} =>
           \A p \in Producers : pc'[p] = "done"
  PROVE  ListInv'
<1>1. ListIntact'
  BY DEF ListInv, ListIntact, list
<1>2. NodesOwnedOnce'
  BY DEF ListInv, NodesOwnedOnce, list
<1>3. NothingOutlivesTheQueue'
  BY DEF ListInv, NothingOutlivesTheQueue
<1>4. Shape'
  BY DEF ListInv, Shape, list
<1> QED BY <1>1, <1>2, <1>3, <1>4 DEF ListInv

-----------------------------------------------------------------------------
\* The steps that change the list, the nodes or who holds them.

LEMMA AllocateKeepsList ==
  ASSUME ListInv, NEW p \in Producers, Allocate(p)
  PROVE  ListInv'
<1>1. PICK n \in Nodes \ heap :
        /\ heap' = heap \cup {n}
        /\ node' = [node EXCEPT ![p] = n]
        /\ next' = [next EXCEPT ![n] = Null]
        /\ value' = [value EXCEPT ![n] = <<p, sent[p] + 1>>]
  BY DEF Allocate
<1>2. /\ pc[p] = "idle" /\ sent[p] < MaxPushes
      /\ sent' = [sent EXCEPT ![p] = @ + 1]
      /\ pc' = [pc EXCEPT ![p] = "link"]
      /\ UNCHANGED <<sync, head, tail, chain, messages, consuming>>
  BY DEF Allocate
<1>3. /\ TypeOK /\ chain \in Seq(Nodes) /\ Len(chain) \in Nat
      /\ DOMAIN chain = 1..Len(chain)
      /\ heap = Held \cup Range(chain)
  BY LenProperties DEF ListInv, TypeOK, NodesOwnedOnce
<1>4. sent[p] + 1 \in 1..MaxPushes /\ sent[p] + 1 \in 0..MaxPushes
  BY <1>2, <1>3, BoundAssumption DEF TypeOK
<1>5. <<p, sent[p] + 1>> \in Values
  BY <1>4 DEF Values
<1>6. TypeOK'
  BY <1>1, <1>2, <1>3, <1>4, <1>5 DEF TypeOK, PushStates, sync, consuming
<1>7. n \notin Held /\ n \notin Range(chain)
  BY <1>1, <1>3
<1>8. /\ \A q \in Producers : q # p => pc'[q] = pc[q] /\ node'[q] = node[q]
      /\ pc'[p] = "link" /\ node'[p] = n
      /\ UNCHANGED <<gui, hand, head, tail, chain>>
  BY <1>1, <1>2, <1>3 DEF TypeOK, consuming
<1>9. Held' = Held \cup {n}
  BY <1>2, <1>8 DEF Held
<1>10. \A i \in 1..Len(chain) : chain[i] \in Nodes /\ chain[i] # n
  BY <1>3, <1>7, ElementOfSeq DEF Range
<1>11. ListIntact'
  BY <1>1, <1>3, <1>8, <1>10 DEF ListInv, ListIntact, Front, TypeOK
<1>12. \A q \in Producers : pc[q] = "link" => node[q] # n
  BY <1>7 DEF Held
<1>13. gui = "use" => hand # n
  BY <1>7 DEF Held
<1>14. NodesOwnedOnce'
  <2>1. Range(chain)' = Range(chain)
    BY <1>8
  <2> QED BY <1>1, <1>3, <1>7, <1>8, <1>9, <1>12, <1>13, <2>1 DEF ListInv, NodesOwnedOnce
<1>15. gui \notin {"detach", "destroy", "free", "closed"}
  BY <1>2 DEF ListInv, NothingOutlivesTheQueue
<1>16. NothingOutlivesTheQueue'
  BY <1>8, <1>15 DEF NothingOutlivesTheQueue
<1>17. Shape'
  <2>1. \A q \in Producers :
          pc'[q] = "link" => node'[q] \in Nodes /\ next'[node'[q]] = Null
    BY <1>1, <1>3, <1>8, <1>12 DEF ListInv, Shape, TypeOK
  <2>2. \A m \in heap' : value'[m] \in Values
    BY <1>1, <1>3, <1>5 DEF ListInv, Shape, TypeOK
  <2> QED BY <1>8, <1>15, <2>1, <2>2 DEF ListInv, Shape, Gone
<1> QED BY <1>6, <1>11, <1>14, <1>16, <1>17 DEF ListInv

LEMMA LinkKeepsList ==
  ASSUME ListInv, NEW p \in Producers, Link(p)
  PROVE  ListInv'
<1> DEFINE n == Len(chain)
           new == node[p]
<1>1. /\ pc[p] = "link"
      /\ IF tail = Null
         THEN head' = new /\ UNCHANGED next
         ELSE next' = [next EXCEPT ![tail] = new] /\ UNCHANGED head
      /\ tail' = new
      /\ chain' = Append(chain, new)
      /\ notification_pending' = TRUE
      /\ pc' = [pc EXCEPT ![p] = IF ~notification_pending /\ window THEN "post" ELSE "idle"]
      /\ node' = [node EXCEPT ![p] = Null]
      /\ UNCHANGED <<value, initialized, window, heap, messages, sent>>
      /\ UNCHANGED <<stop, gui, hand, delivered>>
  BY DEF Link, consuming
<1>2. TypeOK /\ ListIntact /\ NodesOwnedOnce /\ Shape /\ chain \in Seq(Nodes)
  BY DEF ListInv, TypeOK
<1>3. new \in Nodes /\ next[new] = Null /\ new \in Held
  BY <1>1, <1>2 DEF Shape, Held
<1>4. new \notin Range(chain) /\ Distinct(chain)
  BY <1>2, <1>3 DEF NodesOwnedOnce, Distinct
<1>5. /\ n \in Nat /\ DOMAIN chain = 1..n
      /\ chain' \in Seq(Nodes) /\ Len(chain') = n + 1
      /\ \A i \in 1..n : chain'[i] = chain[i]
      /\ chain'[n + 1] = new
      /\ Range(chain') = Range(chain) \cup {new}
      /\ Distinct(chain')
  BY <1>1, <1>2, <1>3, <1>4, AppendDistinct, LenProperties
<1>6. gui \notin {"detach", "destroy", "free", "closed"}
  BY <1>1 DEF ListInv, NothingOutlivesTheQueue
<1>7. \A i \in 1..n : chain[i] \in Nodes /\ chain[i] # new
  BY <1>2, <1>4, <1>5, ElementOfSeq DEF Range
<1>8. chain = <<>> <=> n = 0
  BY <1>2, EmptySeq
<1>9. chain' # <<>>
  BY <1>5, EmptySeq
<1> HIDE DEF n, new
<1>10. /\ head = IF n = 0 THEN Null ELSE chain[1]
       /\ tail = IF n = 0 THEN Null ELSE chain[n]
       /\ \A i \in 1..n : next[chain[i]] = IF i = n THEN Null ELSE chain[i + 1]
  BY <1>2, <1>6, <1>8 DEF ListIntact, Front, n
<1>11. next' \in [Nodes -> Nodes \cup {Null}]
  BY <1>1, <1>2, <1>3 DEF TypeOK
<1>12. TypeOK'
  BY <1>1, <1>2, <1>3, <1>5, <1>11 DEF TypeOK, PushStates
<1>13. /\ head' = chain'[1] /\ tail' = chain'[n + 1]
       /\ \A i \in 1..(n + 1) :
            next'[chain'[i]] = IF i = n + 1 THEN Null ELSE chain'[i + 1]
  <2>1. CASE n = 0
    BY <1>1, <1>3, <1>5, <1>10, <2>1
  <2>2. CASE n # 0
    <3>1. /\ tail = chain[n] /\ tail \in Nodes /\ tail # Null /\ tail # new
          /\ head = chain[1] /\ n \in 1..n /\ 1 \in 1..n
      BY <1>5, <1>7, <1>10, <2>2, NullAssumption
    <3>2. next' = [next EXCEPT ![tail] = new] /\ head' = head
      BY <1>1, <3>1
    <3>3. \A i \in 1..n : chain[i] = tail => i = n
      BY <1>4, <1>5, <3>1 DEF Distinct, n
    <3>4. next'[new] = Null /\ next'[tail] = new
      BY <1>2, <1>3, <3>1, <3>2 DEF TypeOK
    <3>5. \A i \in 1..n : i # n => next'[chain[i]] = chain[i + 1]
      BY <1>2, <1>5, <1>7, <1>10, <3>2, <3>3 DEF TypeOK
    <3> QED BY <1>1, <1>5, <3>1, <3>2, <3>4, <3>5
  <2> QED BY <2>1, <2>2
<1>14. ListIntact'
  BY <1>1, <1>5, <1>6, <1>9, <1>13 DEF ListIntact, Front
<1>15. /\ \A q \in Producers : q # p => pc'[q] = pc[q] /\ node'[q] = node[q]
       /\ pc'[p] # "link"
  BY <1>1, <1>2 DEF TypeOK
<1>16. Held' = Held \ {new}
  BY <1>1, <1>2, <1>15 DEF Held, NodesOwnedOnce, new
<1>17. NodesOwnedOnce'
  BY <1>1, <1>2, <1>3, <1>5, <1>15, <1>16 DEF NodesOwnedOnce, Distinct
<1>18. NothingOutlivesTheQueue'
  BY <1>1, <1>6 DEF NothingOutlivesTheQueue
<1>19. Shape'
  <2>1. \A q \in Producers : pc'[q] = "link" => node'[q] \in Nodes /\ next'[node'[q]] = Null
    <3> SUFFICES ASSUME NEW q \in Producers, pc'[q] = "link"
                 PROVE  node'[q] \in Nodes /\ next'[node'[q]] = Null
      OBVIOUS
    <3>1. q # p /\ pc[q] = "link" /\ node'[q] = node[q]
      BY <1>15
    <3>2. node[q] \in Nodes /\ next[node[q]] = Null /\ node[q] \in Held
      BY <1>2, <3>1 DEF Shape, Held
    <3>3. CASE tail = Null
      BY <1>1, <3>1, <3>2, <3>3
    <3>4. CASE tail # Null
      <4>1. tail = chain[n] /\ n \in 1..n
        BY <1>5, <1>10, <3>4
      <4>2. node[q] # tail
        BY <1>2, <1>5, <3>2, <4>1 DEF NodesOwnedOnce, Range
      <4> QED BY <1>1, <1>2, <3>1, <3>2, <3>4, <4>2 DEF TypeOK
    <3> QED BY <3>3, <3>4
  <2> QED BY <1>1, <1>2, <1>6, <2>1 DEF Shape, Gone
<1> QED BY <1>12, <1>14, <1>17, <1>18, <1>19 DEF ListInv

LEMMA UnlinkKeepsList ==
  ASSUME ListInv, Unlink
  PROVE  ListInv'
<1> DEFINE n == Len(chain)
<1>1. /\ gui = "drain" /\ head # Null
      /\ hand' = head
      /\ head' = next[head]
      /\ tail' = IF next[head] = Null THEN Null ELSE tail
      /\ chain' = Tail(chain)
      /\ gui' = "use"
      /\ UNCHANGED <<next, value, sync, heap, messages, stop, delivered>>
      /\ UNCHANGED <<pc, node, sent>>
  BY DEF Unlink, producing
<1>2. TypeOK /\ ListIntact /\ NodesOwnedOnce /\ Shape /\ chain \in Seq(Nodes)
  BY DEF ListInv, TypeOK
<1>3. chain # <<>> /\ head = chain[1]
  BY <1>1, <1>2 DEF ListIntact, Front
<1>4. Distinct(chain)
  BY <1>2 DEF NodesOwnedOnce, Distinct
<1>5. /\ n \in Nat \ {0} /\ DOMAIN chain = 1..n
      /\ chain' \in Seq(Nodes) /\ Len(chain') = n - 1
      /\ \A i \in 1..(n - 1) : chain'[i] = chain[i + 1]
      /\ head \in Nodes /\ head \in Range(chain)
      /\ Distinct(chain') /\ Range(chain') = Range(chain) \ {head}
  BY <1>1, <1>2, <1>3, <1>4, TailDistinct, LenProperties
<1>6. chain' = <<>> <=> n = 1
  BY <1>5, EmptySeq
<1>7. \A i \in 1..n : chain[i] \in Nodes
  BY <1>2, <1>5, ElementOfSeq
<1>8. /\ tail = chain[n]
      /\ \A i \in 1..n : next[chain[i]] = IF i = n THEN Null ELSE chain[i + 1]
  BY <1>1, <1>2, <1>3 DEF ListIntact
<1> HIDE DEF n
<1>9. next[head] = IF n = 1 THEN Null ELSE chain'[1]
  BY <1>3, <1>5, <1>8
<1>10. TypeOK'
  BY <1>1, <1>2, <1>5 DEF TypeOK, GuiStates, sync
<1>11. tail' = IF n = 1 THEN Null ELSE chain'[n - 1]
  <2>1. CASE n = 1
    BY <1>1, <1>9, <2>1
  <2>2. CASE n # 1
    <3>1. 2 \in 1..n /\ n - 1 \in 1..(n - 1) /\ 1 \in 1..(n - 1)
      BY <1>5, <2>2
    <3>2. chain'[1] = chain[2] /\ chain'[n - 1] = chain[n]
      BY <1>5, <3>1
    <3> QED BY <1>1, <1>7, <1>8, <1>9, <2>2, <3>1, <3>2, NullAssumption
  <2> QED BY <2>1, <2>2
<1>12. \A i \in 1..(n - 1) :
         next[chain'[i]] = IF i = n - 1 THEN Null ELSE chain'[i + 1]
  BY <1>5, <1>8
<1>13. ListIntact'
  BY <1>1, <1>5, <1>6, <1>9, <1>11, <1>12 DEF ListIntact, Front
<1>14. Held' = Held \cup {head}
  BY <1>1 DEF Held
<1>15. \A p \in Producers : pc[p] = "link" => node[p] # head
  BY <1>2, <1>5 DEF NodesOwnedOnce, Held
<1>16. NodesOwnedOnce'
  BY <1>1, <1>2, <1>5, <1>14, <1>15 DEF NodesOwnedOnce, Distinct
<1>17. NothingOutlivesTheQueue'
  BY <1>1 DEF NothingOutlivesTheQueue
<1>18. Shape'
  BY <1>1, <1>2, <1>5 DEF Shape, Gone
<1> QED BY <1>10, <1>13, <1>16, <1>17, <1>18 DEF ListInv

LEMMA ConsumeKeepsList ==
  ASSUME ListInv, Consume
  PROVE  ListInv'
<1>1. /\ gui = "use" /\ gui' = "drain"
      /\ delivered' = Append(delivered, value[hand])
      /\ heap' = heap \ {hand} /\ hand' = Null
      /\ UNCHANGED <<head, tail, next, value, chain>>
      /\ UNCHANGED <<sync, messages, stop>>
      /\ UNCHANGED <<pc, node, sent>>
  BY DEF Consume, list, producing
<1>2. TypeOK /\ ListIntact /\ NodesOwnedOnce /\ Shape
  BY DEF ListInv
<1>3. hand \in Held /\ hand \in heap /\ value[hand] \in Values
  BY <1>1, <1>2 DEF Held, NodesOwnedOnce, Shape
<1>4. delivered' \in Seq(Values)
  BY <1>1, <1>2, <1>3, AppendProperties DEF TypeOK
<1>5. TypeOK'
  BY <1>1, <1>2, <1>4 DEF TypeOK, GuiStates, sync
<1>6. ListIntact'
  BY <1>1, <1>2 DEF ListIntact, Front
<1>7. Held' = Held \ {hand}
  BY <1>1, <1>2 DEF Held, NodesOwnedOnce
<1>8. NodesOwnedOnce'
  BY <1>1, <1>2, <1>3, <1>7 DEF NodesOwnedOnce
<1>9. NothingOutlivesTheQueue' /\ Shape'
  BY <1>1, <1>2 DEF NothingOutlivesTheQueue, Shape, Gone
<1> QED BY <1>5, <1>6, <1>8, <1>9 DEF ListInv

LEMMA DestroyKeepsList ==
  ASSUME ListInv, Destroy
  PROVE  ListInv'
<1>1. /\ gui = "destroy" /\ gui' = "free"
      /\ initialized' = FALSE /\ window' = FALSE
      /\ hand' = head /\ head' = Null /\ tail' = Null
      /\ UNCHANGED <<next, value, chain, notification_pending, heap, messages,
                     stop, delivered>>
      /\ UNCHANGED <<pc, node, sent>>
  BY DEF Destroy, producing
<1>2. TypeOK /\ ListIntact /\ NodesOwnedOnce /\ NothingOutlivesTheQueue /\ Shape
  BY DEF ListInv
<1>3. TypeOK'
  BY <1>1, <1>2 DEF TypeOK, GuiStates
<1>4. ListIntact'
  BY <1>1, <1>2 DEF ListIntact, Front
<1>5. Held' = Held
  BY <1>1 DEF Held
<1>6. NodesOwnedOnce'
  BY <1>1, <1>2, <1>5 DEF NodesOwnedOnce
<1>7. NothingOutlivesTheQueue' /\ Shape'
  BY <1>1, <1>2 DEF NothingOutlivesTheQueue, Shape, Gone
<1> QED BY <1>3, <1>4, <1>6, <1>7 DEF ListInv

LEMMA FreeNodeKeepsList ==
  ASSUME ListInv, FreeNode
  PROVE  ListInv'
<1> DEFINE n == Len(chain)
<1>1. /\ gui = "free" /\ hand # Null
      /\ heap' = heap \ {hand}
      /\ hand' = next[hand]
      /\ chain' = Tail(chain)
      /\ UNCHANGED <<head, tail, next, value, sync, messages, stop, gui, delivered>>
      /\ UNCHANGED <<pc, node, sent>>
  BY DEF FreeNode, producing
<1>2. TypeOK /\ ListIntact /\ NodesOwnedOnce /\ Shape /\ chain \in Seq(Nodes)
  BY DEF ListInv, TypeOK
<1>3. \A p \in Producers : pc[p] = "done"
  BY <1>1 DEF ListInv, NothingOutlivesTheQueue
<1>4. chain # <<>> /\ hand = chain[1] /\ Distinct(chain)
  BY <1>1, <1>2 DEF ListIntact, Front, NodesOwnedOnce, Distinct
<1>5. /\ n \in Nat \ {0} /\ DOMAIN chain = 1..n
      /\ chain' \in Seq(Nodes) /\ Len(chain') = n - 1
      /\ \A i \in 1..(n - 1) : chain'[i] = chain[i + 1]
      /\ hand \in Nodes /\ hand \in Range(chain)
      /\ Distinct(chain') /\ Range(chain') = Range(chain) \ {hand}
  BY <1>1, <1>2, <1>4, TailDistinct, LenProperties
<1>6. chain' = <<>> <=> n = 1
  BY <1>5, EmptySeq
<1>7. \A i \in 1..n : next[chain[i]] = IF i = n THEN Null ELSE chain[i + 1]
  BY <1>2 DEF ListIntact
<1> HIDE DEF n
<1>8. TypeOK'
  BY <1>1, <1>2, <1>5 DEF TypeOK, sync
<1>9. hand' = IF n = 1 THEN Null ELSE chain'[1]
  BY <1>1, <1>4, <1>5, <1>7
<1>10. \A i \in 1..(n - 1) :
         next[chain'[i]] = IF i = n - 1 THEN Null ELSE chain'[i + 1]
  BY <1>5, <1>7
<1>11. ListIntact'
  BY <1>1, <1>5, <1>6, <1>9, <1>10 DEF ListIntact, Front
<1>12. Held = {} /\ Held' = {}
  BY <1>1, <1>3 DEF Held
<1>13. NodesOwnedOnce'
  BY <1>1, <1>2, <1>3, <1>5, <1>12 DEF NodesOwnedOnce, Distinct
<1>14. NothingOutlivesTheQueue' /\ Shape'
  BY <1>1, <1>2, <1>3 DEF NothingOutlivesTheQueue, Shape, Gone
<1> QED BY <1>8, <1>11, <1>13, <1>14 DEF ListInv

LEMMA FinishKeepsList ==
  ASSUME ListInv, Finish
  PROVE  ListInv'
<1>1. /\ gui = "free" /\ hand = Null /\ gui' = "closed"
      /\ UNCHANGED <<list, sync, heap, messages, stop, hand, delivered>>
      /\ UNCHANGED <<pc, node, sent>>
  BY DEF Finish, producing
<1>2. /\ TypeOK /\ ListIntact /\ NodesOwnedOnce /\ NothingOutlivesTheQueue /\ Shape
      /\ chain \in Seq(Nodes)
  BY DEF ListInv, TypeOK
<1>3. chain = <<>>
  <2>1. chain # <<>> => chain[1] \in Nodes
    BY <1>2, EmptySeq, ElementOfSeq, LenProperties
  <2> QED BY <1>1, <1>2, <2>1, NullAssumption DEF ListIntact, Front
<1>4. Held = {} /\ Held' = {} /\ heap = {}
  BY <1>1, <1>2, <1>3 DEF Held, NodesOwnedOnce, NothingOutlivesTheQueue, Range
<1>5. TypeOK'
  BY <1>1, <1>2 DEF TypeOK, GuiStates, list, sync
<1>6. ListIntact' /\ NodesOwnedOnce'
  BY <1>1, <1>2, <1>3, <1>4 DEF ListIntact, Front, NodesOwnedOnce, Shape, Gone, list
<1>7. NothingOutlivesTheQueue' /\ Shape'
  BY <1>1, <1>2, <1>3, <1>4 DEF NothingOutlivesTheQueue, Shape, Gone, list
<1> QED BY <1>5, <1>6, <1>7 DEF ListInv

-----------------------------------------------------------------------------
\* One step of any thread keeps the list; the steps not treated above touch
\* neither the list nor a node.
LEMMA ListInvNext == ListInv /\ [Next]_vars => ListInv'
<1> SUFFICES ASSUME ListInv, [Next]_vars PROVE ListInv'
  OBVIOUS
<1>0. TypeOK /\ NothingOutlivesTheQueue
  BY DEF ListInv
<1>1. ASSUME NEW p \in Producers, AllocateFails(p) PROVE ListInv'
  <2>1. /\ sent[p] < MaxPushes /\ sent' = [sent EXCEPT ![p] = @ + 1]
        /\ UNCHANGED <<list, sync, heap, messages, pc, node, consuming>>
    BY <1>1 DEF AllocateFails
  <2>2. sent[p] + 1 \in 0..MaxPushes
    BY <1>0, <2>1, BoundAssumption DEF TypeOK
  <2>3. TypeOK'
    BY <1>0, <2>1, <2>2 DEF TypeOK, list, sync, consuming
  <2>4. Held' = Held /\ Front' = Front
    BY <2>1 DEF Held, Front, list, consuming
  <2> QED BY <1>0, <2>1, <2>3, <2>4, ListInvKept
          DEF NothingOutlivesTheQueue, Gone, consuming
<1>2. ASSUME NEW p \in Producers, Post(p) \/ Exit(p) PROVE ListInv'
  <2>1. /\ pc[p] \in {"post", "idle"}
        /\ \/ pc' = [pc EXCEPT ![p] = "idle"] /\ pc[p] = "post"
           \/ pc' = [pc EXCEPT ![p] = "done"]
        /\ messages' \in {messages, messages + 1}
        /\ UNCHANGED <<list, sync, heap, node, sent, consuming>>
    BY <1>2 DEF Post, Exit
  <2>2. TypeOK'
    <3>1. pc' \in [Producers -> PushStates]
      BY <1>0, <2>1 DEF TypeOK, PushStates
    <3>2. messages' \in Nat
      BY <1>0, <2>1 DEF TypeOK
    <3> QED BY <1>0, <2>1, <3>1, <3>2 DEF TypeOK, list, sync, consuming
  <2>3. \A q \in Producers : q # p => pc'[q] = pc[q]
    BY <1>0, <2>1 DEF TypeOK
  <2>4. pc'[p] \in {"idle", "done"}
    BY <1>0, <2>1 DEF TypeOK
  <2>5. Held' = Held /\ Front' = Front
    BY <2>1, <2>3, <2>4 DEF Held, Front, list, consuming
  <2>6. gui' \in {"detach", "destroy", "free", "closed"} =>
          \A q \in Producers : pc'[q] = "done"
    BY <1>0, <2>1, <2>3, <2>4 DEF NothingOutlivesTheQueue, consuming
  <2>7. UNCHANGED <<gui, hand>>
    BY <2>1 DEF consuming
  <2>8. \A q \in Producers : pc'[q] = "link" => pc[q] = "link"
    BY <2>3, <2>4
  <2>9. UNCHANGED <<list, heap, node>> /\ (Gone' => Gone)
    BY <2>1, <2>7 DEF Gone
  <2> QED BY <2>2, <2>5, <2>6, <2>7, <2>8, <2>9, ListInvKept
<1>3. CASE ReceiveReady \/ FindEmpty \/ Close \/ Join \/ Detach
  <2>1. /\ UNCHANGED <<list, heap, initialized>> /\ UNCHANGED <<pc, node, sent>>
        /\ UNCHANGED <<hand, delivered>>
        /\ messages' \in {messages, messages - 1} /\ (messages' # messages => messages > 0)
        /\ window' \in {window, FALSE}
        /\ notification_pending' \in {notification_pending, FALSE}
        /\ stop' \in {stop, TRUE}
    BY <1>3 DEF ReceiveReady, FindEmpty, Close, Join, Detach, producing, sync
  <2>2. /\ gui \notin {"use", "free", "closed"}
        /\ gui' \in {"drain", "loop", "joining", "detach", "destroy"}
        /\ gui' \in {"detach", "destroy"} =>
             gui = "detach" \/ \A p \in Producers : pc[p] = "done"
    BY <1>3 DEF ReceiveReady, FindEmpty, Close, Join, Detach
  <2>3. TypeOK'
    <3>1. messages' \in Nat
      BY <1>0, <2>1 DEF TypeOK
    <3>2. window' \in BOOLEAN /\ notification_pending' \in BOOLEAN /\ stop' \in BOOLEAN
      BY <1>0, <2>1 DEF TypeOK
    <3>3. gui' \in GuiStates
      BY <2>2 DEF GuiStates
    <3> QED BY <1>0, <2>1, <3>1, <3>2, <3>3 DEF TypeOK, list
  <2>4. Held' = Held /\ Front' = Front
    BY <2>1, <2>2 DEF Held, Front, list
  <2>5. gui' \in {"detach", "destroy", "free", "closed"} =>
          \A p \in Producers : pc'[p] = "done"
    BY <1>0, <2>1, <2>2 DEF NothingOutlivesTheQueue
  <2>6. /\ UNCHANGED <<list, heap, node>> /\ (Gone' => Gone)
        /\ \A p \in Producers : pc'[p] = "link" => pc[p] = "link"
    BY <2>1, <2>2 DEF Gone
  <2> QED BY <2>1, <2>2, <2>3, <2>4, <2>5, <2>6, ListInvKept
<1>4. CASE UNCHANGED vars
  BY <1>4 DEF ListInv, TypeOK, ListIntact, NodesOwnedOnce, NothingOutlivesTheQueue,
              Shape, Front, Held, Gone, vars, list, sync, producing, consuming
<1> QED BY <1>1, <1>2, <1>3, <1>4, AllocateKeepsList, LinkKeepsList,
           UnlinkKeepsList, ConsumeKeepsList, DestroyKeepsList,
           FreeNodeKeepsList, FinishKeepsList DEF Next, Push, Gui

\* The type invariant, for every number of threads, nodes and pushes.
THEOREM QueueTypeCorrect == Spec => []TypeOK
<1>1. ListInv => TypeOK
  BY DEF ListInv
<1> QED BY ListInvInit, ListInvNext, <1>1, PTL DEF Spec

\* head, tail and the next pointers always describe the list that was linked.
THEOREM QueueListIntact == Spec => []ListIntact
<1>1. ListInv => ListIntact
  BY DEF ListInv
<1> QED BY ListInvInit, ListInvNext, <1>1, PTL DEF Spec

\* No node is leaked, freed twice or used after it was freed.
THEOREM QueueNodesOwnedOnce == Spec => []NodesOwnedOnce
<1>1. ListInv => NodesOwnedOnce
  BY DEF ListInv
<1> QED BY ListInvInit, ListInvNext, <1>1, PTL DEF Spec

\* The shutdown order leaves no producer and no node behind.
THEOREM QueueOutlived == Spec => []NothingOutlivesTheQueue
<1>1. ListInv => NothingOutlivesTheQueue
  BY DEF ListInv
<1> QED BY ListInvInit, ListInvNext, <1>1, PTL DEF Spec

-----------------------------------------------------------------------------
\* The notification protocol.  The window must still be attached where a
\* producer can become the notifier, or PendingIsOwned would break in Link.
WindowAttached == gui \notin {"destroy", "free", "closed"} => window

NotifyInv == WindowAttached /\ OneNotification /\ PendingIsOwned /\ NonEmptyIsPending

LEMMA NotifyInvNext == ListInv /\ NotifyInv /\ [Next]_vars => NotifyInv'
<1> SUFFICES ASSUME ListInv, NotifyInv, [Next]_vars PROVE NotifyInv'
  OBVIOUS
<1>0. /\ TypeOK /\ messages \in Nat /\ pc \in [Producers -> PushStates]
      /\ chain \in Seq(Nodes)
      /\ WindowAttached /\ OneNotification /\ PendingIsOwned /\ NonEmptyIsPending
      /\ NothingOutlivesTheQueue
  BY DEF ListInv, TypeOK, NotifyInv
<1> USE DEF Draining, Closing
<1>1. ASSUME NEW p \in Producers, Allocate(p) \/ AllocateFails(p) \/ Exit(p)
      PROVE  NotifyInv'
  <2>1. /\ UNCHANGED <<gui, window, notification_pending, messages, chain>>
        /\ pc[p] = "idle"
        /\ \/ pc' = pc
           \/ pc' = [pc EXCEPT ![p] = "link"]
           \/ pc' = [pc EXCEPT ![p] = "done"]
    BY <1>1 DEF Allocate, AllocateFails, Exit, consuming, sync, list
  <2>2. Notifiers' = Notifiers
    BY <1>0, <2>1 DEF Notifiers
  <2> QED BY <1>0, <2>1, <2>2
          DEF NotifyInv, WindowAttached, OneNotification, PendingIsOwned, NonEmptyIsPending
<1>2. ASSUME NEW p \in Producers, Link(p) PROVE NotifyInv'
  <2>1. /\ pc[p] = "link" /\ notification_pending' = TRUE
        /\ pc' = [pc EXCEPT ![p] = IF ~notification_pending /\ window THEN "post" ELSE "idle"]
        /\ UNCHANGED <<gui, window, messages>>
    BY <1>2 DEF Link, consuming
  <2>2. gui \notin {"destroy", "free", "closed"} /\ window
    BY <1>0, <2>1 DEF NothingOutlivesTheQueue, WindowAttached
  <2>3. CASE notification_pending
    <3>1. Notifiers' = Notifiers
      BY <1>0, <2>1, <2>3 DEF Notifiers
    <3> QED BY <1>0, <2>1, <2>2, <2>3, <3>1
            DEF NotifyInv, WindowAttached, OneNotification, PendingIsOwned, NonEmptyIsPending
  <2>4. CASE ~notification_pending
    <3>1. Notifiers = {} /\ messages = 0 /\ ~Draining
      BY <1>0, <2>4 DEF OneNotification
    <3>2. Notifiers' = {p}
      BY <1>0, <2>1, <2>2, <2>4, <3>1 DEF Notifiers
    <3> QED BY <1>0, <2>1, <2>2, <3>1, <3>2
            DEF NotifyInv, WindowAttached, OneNotification, PendingIsOwned, NonEmptyIsPending
  <2> QED BY <2>3, <2>4
<1>3. ASSUME NEW p \in Producers, Post(p) PROVE NotifyInv'
  <2>1. /\ pc[p] = "post" /\ pc' = [pc EXCEPT ![p] = "idle"]
        /\ messages' = messages + 1 \/ (PostMayFail /\ UNCHANGED messages)
        /\ UNCHANGED <<gui, window, notification_pending, chain>>
    BY <1>3 DEF Post, consuming, sync, list
  <2>2. p \in Notifiers /\ Notifiers = {p} /\ messages = 0 /\ ~Draining
    BY <1>0, <2>1 DEF OneNotification, Notifiers
  <2>3. Notifiers' = {}
    BY <1>0, <2>1, <2>2 DEF Notifiers
  <2> QED BY <1>0, <2>1, <2>2, <2>3
          DEF NotifyInv, WindowAttached, OneNotification, PendingIsOwned, NonEmptyIsPending
<1>4. CASE ReceiveReady
  <2>1. /\ gui = "loop" /\ messages > 0 /\ messages' = messages - 1 /\ gui' = "drain"
        /\ UNCHANGED <<pc, window, notification_pending, chain>>
    BY <1>4 DEF ReceiveReady, sync, list, producing
  <2>2. messages = 1 /\ Notifiers = {} /\ notification_pending
    BY <1>0, <2>1 DEF OneNotification
  <2>3. Notifiers' = {} /\ messages' = 0
    BY <2>1, <2>2 DEF Notifiers
  <2> QED BY <1>0, <2>1, <2>2, <2>3
          DEF NotifyInv, WindowAttached, OneNotification, PendingIsOwned, NonEmptyIsPending
<1>5. CASE Unlink \/ Consume
  <2>1. /\ gui \in {"drain", "use"} /\ gui' \in {"drain", "use"}
        /\ UNCHANGED <<pc, window, notification_pending, messages>>
    BY <1>5 DEF Unlink, Consume, sync, producing
  <2>2. notification_pending /\ Notifiers' = Notifiers
    BY <1>0, <2>1 DEF OneNotification, Notifiers
  <2> QED BY <1>0, <2>1, <2>2
          DEF NotifyInv, WindowAttached, OneNotification, PendingIsOwned, NonEmptyIsPending
<1>6. CASE FindEmpty
  <2>1. /\ gui = "drain" /\ gui' = "loop" /\ head = Null
        /\ notification_pending' = FALSE
        /\ UNCHANGED <<pc, window, messages, chain>>
    BY <1>6 DEF FindEmpty, list, producing
  <2>2. messages = 0 /\ Notifiers' = {}
    BY <1>0, <2>1 DEF OneNotification, Notifiers
  <2>3. chain = <<>>
    <3>1. chain # <<>> => chain[1] \in Nodes
      BY <1>0, EmptySeq, ElementOfSeq, LenProperties
    <3> QED BY <2>1, <3>1, NullAssumption DEF ListInv, ListIntact, Front
  <2> QED BY <1>0, <2>1, <2>2, <2>3
          DEF NotifyInv, WindowAttached, OneNotification, PendingIsOwned, NonEmptyIsPending
<1>7. CASE Close \/ Join \/ Detach \/ Destroy \/ Finish
  <2>1. /\ gui \notin {"drain", "use"}
        /\ gui' \in {"joining", "detach", "destroy", "free", "closed"}
        /\ UNCHANGED <<pc, messages, notification_pending, chain>>
        /\ gui' \in {"joining", "detach"} => window' = window /\ gui \in {"loop", "joining"}
    BY <1>7 DEF Close, Join, Detach, Destroy, Finish, list, sync, producing
  <2>2. Notifiers' = Notifiers
    BY <2>1 DEF Notifiers
  <2> QED BY <1>0, <2>1, <2>2
          DEF NotifyInv, WindowAttached, OneNotification, PendingIsOwned, NonEmptyIsPending
<1>8. CASE FreeNode
  <2>1. /\ gui = "free" /\ chain' = Tail(chain)
        /\ UNCHANGED <<pc, gui, messages, window, notification_pending>>
    BY <1>8 DEF FreeNode, sync, producing
  <2>2. Notifiers' = Notifiers
    BY <2>1 DEF Notifiers
  <2>3. chain # <<>>
    BY <1>8 DEF FreeNode, ListInv, ListIntact, Front
  <2> QED BY <1>0, <2>1, <2>2, <2>3
          DEF NotifyInv, WindowAttached, OneNotification, PendingIsOwned, NonEmptyIsPending
<1>9. CASE UNCHANGED vars
  <2>1. UNCHANGED <<pc, gui, messages, window, notification_pending, chain>>
    BY <1>9 DEF vars, list, sync, producing, consuming
  <2>2. Notifiers' = Notifiers
    BY <2>1 DEF Notifiers
  <2> QED BY <1>0, <2>1, <2>2
          DEF NotifyInv, WindowAttached, OneNotification, PendingIsOwned, NonEmptyIsPending
<1> QED BY <1>1, <1>2, <1>3, <1>4, <1>5, <1>6, <1>7, <1>8, <1>9 DEF Next, Push, Gui

LEMMA NotifyInvInit == Init => NotifyInv
<1> SUFFICES ASSUME Init PROVE NotifyInv
  OBVIOUS
<1>1. Notifiers = {}
  BY DEF Init, Notifiers
<1> QED BY <1>1 DEF Init, NotifyInv, WindowAttached, OneNotification, PendingIsOwned,
                    NonEmptyIsPending, Draining, Closing

\* At most one notification is outstanding, and the flag records it.
THEOREM QueueOneNotification == Spec => []OneNotification
<1>1. NotifyInv => OneNotification
  BY DEF NotifyInv
<1> QED BY ListInvInit, ListInvNext, NotifyInvInit, NotifyInvNext, <1>1, PTL DEF Spec

\* With a working PostMessageW a set flag always has a notification behind it.
THEOREM QueueWakeupOwned == Spec => []WakeupOwned
<1>1. NotifyInv => WakeupOwned
  BY DEF NotifyInv, WakeupOwned
<1> QED BY ListInvInit, ListInvNext, NotifyInvInit, NotifyInvNext, <1>1, PTL DEF Spec

\* The two together, for every number of producers, nodes and pushes.
THEOREM QueueNotificationsExact == Spec => []NotificationsExact
BY QueueOneNotification, QueueWakeupOwned, PTL DEF NotificationsExact

-----------------------------------------------------------------------------
\* The queue implements EventFifo.

LEMMA IntervalLength ==
  ASSUME NEW a \in Nat, NEW b \in Nat, 1..a = 1..b
  PROVE  a = b
<1>1. CASE a > b
  <2>1. a \in 1..a /\ a \notin 1..b
    BY <1>1
  <2> QED BY <2>1
<1>2. CASE b > a
  <2>1. b \in 1..b /\ b \notin 1..a
    BY <1>2
  <2> QED BY <2>1
<1> QED BY <1>1, <1>2

\* While the queue lives, what is queued is the values of the linked nodes.
LEMMA QueuedIsSeq ==
  ASSUME ListInv, ~Gone
  PROVE  /\ Queued \in Seq(Values) /\ Len(Queued) = Len(chain)
         /\ \A i \in 1..Len(chain) : Queued[i] = value[chain[i]]
         /\ Len(chain) \in Nat /\ DOMAIN chain = 1..Len(chain)
<1>1. chain \in Seq(Nodes) /\ Len(chain) \in Nat /\ DOMAIN chain = 1..Len(chain)
  BY LenProperties DEF ListInv, TypeOK
<1>2. \A i \in 1..Len(chain) : value[chain[i]] \in Values
  BY <1>1 DEF ListInv, NodesOwnedOnce, Shape, Range
<1>3. Queued = [i \in 1..Len(chain) |-> value[chain[i]]]
  BY DEF Queued
<1>4. Queued \in [1..Len(chain) -> Values]
  BY <1>2, <1>3
<1>5. Queued \in Seq(Values)
  BY <1>1, <1>4, SeqDef
<1>6. Len(Queued) = Len(chain)
  <2>1. DOMAIN Queued = 1..Len(Queued) /\ Len(Queued) \in Nat
    BY <1>5, LenProperties
  <2>2. 1..Len(Queued) = 1..Len(chain)
    BY <1>3, <2>1
  <2> QED BY <1>1, <2>1, <2>2, IntervalLength
<1> QED BY <1>1, <1>3, <1>5, <1>6

\* Every step puts a value in, takes the oldest one out, throws the queue away,
\* or cannot be seen from outside.
LEMMA QueueStepsFifo ==
  ListInv /\ [Next]_vars => [Fifo!Next]_<<Queued, Taken, ~Gone>>
<1> SUFFICES ASSUME ListInv, [Next]_vars
             PROVE  [Fifo!Next]_<<Queued, Taken, ~Gone>>
  OBVIOUS
<1> DEFINE Unseen == UNCHANGED <<Queued, Taken, ~Gone>>
<1>0. TypeOK /\ ListIntact /\ NodesOwnedOnce /\ NothingOutlivesTheQueue
      /\ chain \in Seq(Nodes) /\ ListInv'
  BY ListInvNext DEF ListInv, TypeOK
<1>1. ASSUME NEW p \in Producers, Allocate(p) PROVE Unseen
  <2>1. PICK n \in Nodes \ heap : value' = [value EXCEPT ![n] = <<p, sent[p] + 1>>]
    BY <1>1 DEF Allocate
  <2>2. UNCHANGED <<chain, gui, hand, delivered>>
    BY <1>1 DEF Allocate, consuming
  <2>3. n \notin Held /\ n \notin Range(chain)
    BY <1>0, <2>1 DEF NodesOwnedOnce
  <2>4. \A i \in DOMAIN chain : value'[chain[i]] = value[chain[i]]
    BY <1>0, <2>1, <2>3, ElementOfSeq, LenProperties DEF Range, TypeOK
  <2>5. gui = "use" => value'[hand] = value[hand]
    BY <1>0, <2>1, <2>3 DEF Held, TypeOK
  <2>6. DOMAIN chain = 1..Len(chain)
    BY <1>0, LenProperties
  <2>7. Queued' = Queued
    BY <2>2, <2>4, <2>6 DEF Queued, Gone
  <2> QED BY <2>2, <2>5, <2>7 DEF Taken, Gone
<1>2. ASSUME NEW p \in Producers, Link(p) PROVE Fifo!Next
  <2> DEFINE new == node[p]
             n == Len(chain)
  <2>1. /\ pc[p] = "link" /\ chain' = Append(chain, new)
        /\ UNCHANGED <<value, gui, hand, delivered>>
    BY <1>2 DEF Link, consuming
  <2>2. new \in Held /\ new \in heap /\ value[new] \in Values /\ new \in Nodes
    BY <1>0, <2>1 DEF Held, NodesOwnedOnce, ListInv, Shape
  <2>3. ~Gone /\ ~Gone'
    BY <1>0, <2>1 DEF NothingOutlivesTheQueue, Gone
  <2>4. /\ n \in Nat /\ Len(chain') = n + 1
        /\ \A i \in 1..n : chain'[i] = chain[i]
        /\ chain'[n + 1] = new
    BY <1>0, <2>1, <2>2, AppendProperties, LenProperties
  <2>5. /\ Queued \in Seq(Values) /\ Len(Queued) = n
        /\ \A i \in 1..n : Queued[i] = value[chain[i]]
    BY <2>3, QueuedIsSeq
  <2>6. /\ Queued' \in Seq(Values) /\ Len(Queued') = n + 1
        /\ \A i \in 1..(n + 1) : Queued'[i] = value[chain'[i]]
    <3>1. /\ (Queued \in Seq(Values))' /\ (Len(Queued) = Len(chain))'
          /\ (\A i \in 1..Len(chain) : Queued[i] = value[chain[i]])'
      BY <1>0, <2>3, QueuedIsSeq, PTL
    <3>2. Values' = Values
      BY DEF Values
    <3> QED BY <2>1, <2>4, <3>1, <3>2
  <2> HIDE DEF n, new
  <2>7. /\ Append(Queued, value[new]) \in Seq(Values)
        /\ Len(Append(Queued, value[new])) = n + 1
        /\ \A i \in 1..n : Append(Queued, value[new])[i] = Queued[i]
        /\ Append(Queued, value[new])[n + 1] = value[new]
    BY <2>2, <2>5, AppendProperties
  <2>8. Queued' = Append(Queued, value[new])
    <3>1. \A i \in 1..(n + 1) : Queued'[i] = Append(Queued, value[new])[i]
      BY <2>4, <2>5, <2>6, <2>7
    <3> QED BY <2>6, <2>7, <3>1, SeqEqual
  <2>9. Taken' = Taken
    BY <2>1 DEF Taken
  <2> QED BY <2>2, <2>3, <2>8, <2>9 DEF Fifo!Next, Fifo!Put
<1>3. CASE Unlink
  <2>1. /\ gui = "drain" /\ gui' = "use" /\ head # Null /\ hand' = head
        /\ chain' = Tail(chain)
        /\ UNCHANGED <<value, delivered>>
    BY <1>3 DEF Unlink
  <2>2. ~Gone /\ ~Gone'
    BY <2>1 DEF Gone
  <2>3. chain # <<>> /\ head = chain[1]
    BY <1>0, <2>1 DEF ListIntact, Front
  <2> DEFINE n == Len(chain)
  <2>4. /\ n \in Nat \ {0} /\ Len(chain') = n - 1
        /\ \A i \in 1..(n - 1) : chain'[i] = chain[i + 1]
    BY <1>0, <2>1, <2>3, TailDistinct
  <2>5. /\ Queued \in Seq(Values) /\ Len(Queued) = n
        /\ \A i \in 1..n : Queued[i] = value[chain[i]]
    BY <2>2, QueuedIsSeq
  <2>6. /\ Queued' \in Seq(Values) /\ Len(Queued') = n - 1
        /\ \A i \in 1..(n - 1) : Queued'[i] = value[chain'[i]]
    <3>1. /\ (Queued \in Seq(Values))' /\ (Len(Queued) = Len(chain))'
          /\ (\A i \in 1..Len(chain) : Queued[i] = value[chain[i]])'
      BY <1>0, <2>2, QueuedIsSeq, PTL
    <3>2. Values' = Values
      BY DEF Values
    <3> QED BY <2>1, <2>4, <3>1, <3>2
  <2> HIDE DEF n
  <2>7. Queued # <<>>
    BY <2>4, <2>5, EmptySeq
  <2>8. /\ Tail(Queued) \in Seq(Values) /\ Len(Tail(Queued)) = n - 1
        /\ \A i \in 1..(n - 1) : Tail(Queued)[i] = Queued[i + 1]
    BY <2>5, <2>7, TailDistinct
  <2>9. Queued' = Tail(Queued)
    <3>1. \A i \in 1..(n - 1) : Queued'[i] = Tail(Queued)[i]
      BY <2>4, <2>5, <2>6, <2>8
    <3> QED BY <2>6, <2>8, <3>1, SeqEqual
  <2>10. Head(Queued) = value[head]
    <3>1. Head(Queued) = Queued[1]
      BY <2>5, <2>7
    <3> QED BY <2>3, <2>4, <2>5, <3>1
  <2>11. Taken = delivered /\ Taken' = Append(delivered, value[head])
    BY <2>1 DEF Taken
  <2> QED BY <2>2, <2>7, <2>9, <2>10, <2>11 DEF Fifo!Next, Fifo!Take
<1>4. CASE Consume
  BY <1>4 DEF Consume, Queued, Taken, Gone, list
<1>5. CASE Destroy
  BY <1>5 DEF Destroy, Queued, Taken, Gone, Fifo!Next, Fifo!Discard
<1>6. CASE FreeNode \/ Finish
  BY <1>6 DEF FreeNode, Finish, Queued, Taken, Gone
<1>7. ASSUME NEW p \in Producers, AllocateFails(p) \/ Post(p) \/ Exit(p) PROVE Unseen
  BY <1>7 DEF AllocateFails, Post, Exit, Queued, Taken, Gone, list, consuming
<1>8. CASE ReceiveReady \/ FindEmpty \/ Close \/ Join \/ Detach
  BY <1>8 DEF ReceiveReady, FindEmpty, Close, Join, Detach, Queued, Taken, Gone, list
<1>9. CASE UNCHANGED vars
  BY <1>9 DEF vars, list, consuming, Queued, Taken, Gone
<1> QED BY <1>1, <1>2, <1>3, <1>4, <1>5, <1>6, <1>7, <1>8, <1>9 DEF Next, Push, Gui

\* The concurrent queue is a FIFO: each value comes out once, in the order the
\* producers linked them, until the queue is destroyed.
THEOREM QueueImplementsFifo == Spec => ImplementsFifo
<1>1. Init => Fifo!Init
  BY DEF Init, Queued, Taken, Gone, Fifo!Init
<1> QED BY ListInvInit, ListInvNext, QueueStepsFifo, <1>1, PTL
        DEF Spec, ImplementsFifo, Fifo!Spec
===============================================================================
