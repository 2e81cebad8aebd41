----------------------------- MODULE QueueProofs -----------------------------
(***************************************************************************)
(* Proofs about RunQueue: whatever is added to the queues and removed from *)
(* them, at an end or in the middle, the pointers of both directions and   *)
(* the counters hold sequences of nodes, and change as Queues says.        *)
(***************************************************************************)
EXTENDS RunQueue, WellFoundedInduction, FiniteSetTheorems, TLAPS

---------------------------------------------------------------------------
(* Following the pointers. *)

(* A set of natural numbers has a least one.                                  *)
LEMMA LeastNumber ==
  ASSUME NEW S \in SUBSET Nat, S # {}
  PROVE  \E x \in S : \A y \in S : x <= y
<1> DEFINE R == OpToRel(<, Nat)
<1>1. IsWellFoundedOn(R, Nat)
  BY NatLessThanWellFounded
<1>2. PICK x \in S : \A y \in S : <<y, x>> \notin R
  <2> HIDE DEF R
  <2> QED  BY <1>1, WFMin, Zenon
<1>3. \A y \in S : x <= y
  <2> TAKE y \in S
  <2>1. <<y, x>> \in R <=> y < x
    BY DEF OpToRel
  <2> HIDE DEF R
  <2> QED  BY <1>2, <2>1
<1> QED  BY <1>3

(* A set of numbers that holds 0 and with each number the next one holds all: *)
(* otherwise take the least that is missing.                                  *)
LEMMA AllNumbers ==
  ASSUME NEW S \in SUBSET Nat, 0 \in S, \A n \in S : n + 1 \in S
  PROVE  S = Nat
<1> DEFINE T == Nat \ S
<1> SUFFICES ASSUME T # {} PROVE FALSE
  OBVIOUS
<1>1. PICK x \in T : \A y \in T : x <= y
  <2>1. T \in SUBSET Nat
    OBVIOUS
  <2> HIDE DEF T
  <2> QED  BY <2>1, LeastNumber
<1>2. PICK y \in Nat : x = y + 1
  <2>1. x - 1 \in Nat /\ x = (x - 1) + 1
    BY <1>1
  <2> QED  BY <2>1
<1>3. y \in S
  BY <1>1, <1>2
<1> QED  BY <1>2, <1>3

Reach == 0 .. Cardinality(Node) + 1

(* Where the pointers of a chain lead: over its nodes to its end.             *)
OnWay(from, s, to, k) ==
  IF k = 0 THEN from
  ELSE IF k <= Len(s) THEN s[k] ELSE IF k = Len(s) + 1 THEN to ELSE NULL

LEMMA CountTo == \A n \in Nat : Cardinality(1 .. n) = n
<1> TAKE n \in Nat
<1>1. Cardinality(1 .. n) = IF 1 > n THEN 0 ELSE n - 1 + 1
  BY FS_Interval
<1> QED  BY <1>1

LEMMA NodesCount == Cardinality(Node) \in Nat
BY RunQueueAssumption, FS_CardinalityType

LEMMA FollowsChain ==
  ASSUME NEW pointer, NEW from \in Cell, NEW to \in Cell, NEW s \in Seq(Node),
         Len(s) <= Cardinality(Node), pointer[to] = NULL,
         \A k \in 0 .. Len(s) :
           pointer[OnWay(from, s, to, k)] = OnWay(from, s, to, k + 1)
  PROVE  Follow(pointer, from) = [k \in Reach |-> OnWay(from, s, to, k)]
<1> DEFINE Body(f) == [k \in Reach |->
             IF k = 0 THEN from
             ELSE LET c == f[k - 1] IN IF c \in Cell THEN pointer[c] ELSE NULL]
           W(k) == OnWay(from, s, to, k)
           way == [k \in Reach |-> W(k)]
           Cells == CHOOSE f : f = Body(f)
<1>1. Follow(pointer, from) = Cells
  BY DEF Follow, Reach
<1>2. Len(s) \in Nat /\ Cardinality(Node) \in Nat /\ Reach \subseteq Nat
  BY NodesCount DEF Reach
<1>3. \A k \in Nat : W(k) \in Cell \/ W(k) = NULL
  BY <1>2 DEF OnWay, Cell
<1>4. NULL \notin Cell
  BY RunQueueAssumption
<1>5. ASSUME NEW k \in Nat
      PROVE  W(k + 1) = IF W(k) \in Cell THEN pointer[W(k)] ELSE NULL
  <2>1. CASE k \in 0 .. Len(s)
    <3>1. W(k) \in Cell
      BY <1>2, <2>1 DEF OnWay, Cell
    <3> QED  BY <2>1, <3>1
  <2>2. CASE k = Len(s) + 1
    BY <1>2, <2>2 DEF OnWay
  <2>3. CASE k > Len(s) + 1
    BY <1>2, <1>4, <2>3 DEF OnWay
  <2> QED  BY <1>2, <2>1, <2>2, <2>3
<1>6. W(0) = from
  BY DEF OnWay
<1> HIDE DEF W
<1>7. way = Body(way)
  <2>1. ASSUME NEW k \in Reach, k # 0
        PROVE  W(k) = IF way[k - 1] \in Cell THEN pointer[way[k - 1]] ELSE NULL
    <3>1. PICK j \in Nat : k = j + 1 /\ k - 1 = j /\ j \in Reach
      <4>1. k - 1 \in Nat /\ k = (k - 1) + 1 /\ k - 1 \in Reach
        BY <1>2, <2>1 DEF Reach
      <4> QED  BY <4>1
    <3> QED  BY <1>5, <3>1
  <2> QED  BY <1>6, <2>1
<1>8. Cells = Body(Cells)
  <2> HIDE DEF Body, way
  <2> QED  BY <1>7
<1> HIDE DEF Cells
<1> DEFINE S == {k \in Nat : k \in Reach => Cells[k] = W(k)}
<1>9. 0 \in S
  BY <1>6, <1>8
<1>10. ASSUME NEW k \in S PROVE k + 1 \in S
  <2> SUFFICES ASSUME k + 1 \in Reach PROVE Cells[k + 1] = W(k + 1)
    OBVIOUS
  <2>1. k \in Reach /\ k + 1 # 0 /\ (k + 1) - 1 = k
    BY <1>2 DEF Reach
  <2>2. Cells[k] = W(k)
    BY <2>1
  <2>3. Cells[k + 1] = IF Cells[k] \in Cell THEN pointer[Cells[k]] ELSE NULL
    BY <1>8, <2>1
  <2> QED  BY <1>5, <2>2, <2>3
<1>11. S = Nat
  <2> HIDE DEF S
  <2> QED  BY <1>9, <1>10, AllNumbers DEF S
<1>12. \A k \in Reach : Cells[k] = W(k)
  BY <1>2, <1>11
<1>13. Cells = [k \in Reach |-> Cells[k]]
  BY <1>8
<1> QED  BY <1>1, <1>12, <1>13 DEF W

LEMMA WalksChain ==
  ASSUME NEW pointer, NEW from \in Cell, NEW to \in Cell \ Node, NEW s \in Seq(Node),
         Len(s) <= Cardinality(Node), pointer[to] = NULL,
         \A k \in 0 .. Len(s) :
           pointer[OnWay(from, s, to, k)] = OnWay(from, s, to, k + 1)
  PROVE  Walk(pointer, from) = s /\ Follow(pointer, from)[Len(s) + 1] = to
<1> DEFINE cells == Follow(pointer, from)
           met == {k \in 1 .. Cardinality(Node) + 1 : \A i \in 1 .. k : cells[i] \in Node}
<1>1. Len(s) \in Nat /\ Cardinality(Node) \in Nat
  BY NodesCount
<1>2. \A k \in Reach : cells[k] = OnWay(from, s, to, k)
  BY FollowsChain
<1>3. cells[Len(s) + 1] = to
  BY <1>1, <1>2 DEF Reach, OnWay
<1>4. \A k \in 1 .. Len(s) : cells[k] = s[k] /\ s[k] \in Node
  BY <1>1, <1>2 DEF Reach, OnWay
<1> HIDE DEF cells
<1>5. met = 1 .. Len(s)
  <2>1. ASSUME NEW k \in met PROVE k \in 1 .. Len(s)
    <3>1. k \in Nat /\ k >= 1 /\ (Len(s) + 1 \in 1 .. k => cells[Len(s) + 1] \in Node)
      BY <1>1, <2>1
    <3> QED  BY <1>1, <1>3, <3>1
  <2>2. ASSUME NEW k \in 1 .. Len(s) PROVE k \in met
    <3>1. k \in 1 .. Cardinality(Node) + 1 /\ \A i \in 1 .. k : i \in 1 .. Len(s)
      BY <1>1
    <3> QED  BY <1>4, <3>1
  <2> QED  BY <2>1, <2>2
<1>6. Cardinality(met) = Len(s)
  <2>1. Cardinality(1 .. Len(s)) = Len(s)
    BY <1>1, CountTo
  <2> HIDE DEF met
  <2> QED  BY <1>5, <2>1
<1> HIDE DEF met
<1>7. Walk(pointer, from) = [k \in 1 .. Cardinality(met) |-> cells[k]]
  BY DEF Walk, met, cells
<1>8. s = [k \in 1 .. Len(s) |-> s[k]]
  OBVIOUS
<1> QED  BY <1>3, <1>4, <1>6, <1>7, <1>8 DEF cells

---------------------------------------------------------------------------
(* The inductive invariant: pointers and counters hold sequences c. *)

(* The cells of a queue in their order: its head, the nodes, and its rear.    *)
Place(q, s, k) == OnWay(head(q), s, rear(q), k)

(* Both directions follow that order, and the counter counts the nodes.       *)
Chained(q, s) ==
  /\ s \in Seq(Node) /\ size[q] = Len(s)
  /\ next[rear(q)] = NULL /\ prev[head(q)] = NULL
  /\ \A k \in 0 .. Len(s) :
       next[Place(q, s, k)] = Place(q, s, k + 1) /\ prev[Place(q, s, k + 1)] = Place(q, s, k)

(* A node is in one queue, once.                                              *)
OnceIn(c) ==
  \A p, q \in Queue :
    \A i \in 1 .. Len(c[p]), j \in 1 .. Len(c[q]) : c[p][i] = c[q][j] => p = q /\ i = j

CellTypes == next \in [Cell -> Cell \cup {NULL}] /\ prev \in [Cell -> Cell \cup {NULL}]

OtherTypes ==
  /\ size \in [Queue -> Nat]
  /\ waiting_time \in [Node -> 0 .. MaxTime]
  /\ answer \in Node \cup {NULL} \cup BOOLEAN

Holds(c) ==
  /\ c \in [Queue -> Seq(Node)]
  /\ CellTypes /\ OtherTypes
  /\ \A q \in Queue : Chained(q, c[q])
  /\ OnceIn(c)

QInv == Holds([q \in Queue |-> Contents(q)])

LEMMA Ends ==
  /\ \A p, q \in Queue : head(p) # rear(q)
  /\ \A p, q \in Queue : head(p) = head(q) => p = q
  /\ \A p, q \in Queue : rear(p) = rear(q) => p = q
  /\ \A q \in Queue : head(q) \in Cell \ Node /\ rear(q) \in Cell \ Node
  /\ Node \subseteq Cell /\ NULL \notin Cell
BY RunQueueAssumption DEF head, rear, Cell

(* No more nodes are in a queue than there are.                               *)
LEMMA LengthBound ==
  ASSUME NEW s \in Seq(Node), \A i, j \in 1 .. Len(s) : s[i] = s[j] => i = j
  PROVE  Len(s) <= Cardinality(Node)
<1>1. s \in Injection(1 .. Len(s), Node)
  BY DEF Injection, IsInjective
<1>2. Cardinality(1 .. Len(s)) <= Cardinality(Node)
  BY <1>1, FS_Injection, RunQueueAssumption
<1>3. Len(s) \in Nat
  OBVIOUS
<1>4. Cardinality(1 .. Len(s)) = Len(s)
  BY <1>3, CountTo
<1> QED  BY <1>2, <1>4

(* The cells of all queues are different.                                     *)
LEMMA PlacesDiffer ==
  ASSUME NEW c, Holds(c)
  PROVE  /\ \A q \in Queue : Len(c[q]) \in Nat
         /\ \A q \in Queue : \A k \in 0 .. Len(c[q]) + 1 : Place(q, c[q], k) \in Cell
         /\ \A p, q \in Queue :
              \A k \in 0 .. Len(c[p]) + 1, l \in 0 .. Len(c[q]) + 1 :
                Place(p, c[p], k) = Place(q, c[q], l) => p = q /\ k = l
<1>1. \A q \in Queue : c[q] \in Seq(Node) /\ Len(c[q]) \in Nat
  BY DEF Holds
<1>2. ASSUME NEW q \in Queue, NEW k \in 0 .. Len(c[q]) + 1
      PROVE  \/ k = 0 /\ Place(q, c[q], k) = head(q)
             \/ k = Len(c[q]) + 1 /\ k # 0 /\ Place(q, c[q], k) = rear(q)
             \/ k \in 1 .. Len(c[q]) /\ Place(q, c[q], k) = c[q][k] /\ c[q][k] \in Node
  BY <1>1 DEF Place, OnWay
<1>3. ASSUME NEW q \in Queue, NEW k \in 0 .. Len(c[q]) + 1
      PROVE  Place(q, c[q], k) \in Cell
  BY <1>2, <1>3, Ends
<1>4. ASSUME NEW p \in Queue, NEW k \in 0 .. Len(c[p]) + 1,
             NEW q \in Queue, NEW l \in 0 .. Len(c[q]) + 1,
             Place(p, c[p], k) = Place(q, c[q], l)
      PROVE  p = q /\ k = l
  <2> DEFINE x == Place(q, c[q], l)
  <2>4. \/ l = 0 /\ x = head(q)
        \/ l = Len(c[q]) + 1 /\ x = rear(q)
        \/ l \in 1 .. Len(c[q]) /\ x = c[q][l] /\ x \in Node
    BY <1>2
  <2>5. Place(p, c[p], k) = x
    BY <1>4
  <2> HIDE DEF x
  <2>1. CASE k = 0
    <3>1. x = head(p)
      BY <1>1, <1>2, <2>1, <2>5
    <3> QED  BY <2>1, <2>4, <3>1, Ends
  <2>2. CASE k = Len(c[p]) + 1 /\ k # 0
    <3>1. Place(p, c[p], k) = rear(p)
      BY <1>1, <1>2, <2>2, Ends
    <3>2. x = rear(q) /\ l = Len(c[q]) + 1
      BY <2>4, <2>5, <3>1, Ends
    <3>3. p = q
      BY <2>5, <3>1, <3>2, Ends
    <3> QED  BY <2>2, <3>2, <3>3
  <2>3. CASE k \in 1 .. Len(c[p])
    <3>1. Place(p, c[p], k) = c[p][k] /\ c[p][k] \in Node
      BY <1>1, <1>2, <2>3
    <3>2. l \in 1 .. Len(c[q]) /\ x = c[q][l]
      BY <2>4, <2>5, <3>1, Ends
    <3>3. OnceIn(c)
      BY DEF Holds
    <3> QED  BY <2>3, <2>5, <3>1, <3>2, <3>3 DEF OnceIn
  <2> QED  BY <1>1, <2>1, <2>2, <2>3
<1> QED  BY <1>1, <1>3, <1>4
(* So the pointers lead back to c.                                            *)
LEMMA ContentsAre ==
  ASSUME NEW c, Holds(c), NEW q \in Queue
  PROVE  /\ Contents(q) = c[q]
         /\ Len(c[q]) <= Cardinality(Node)
         /\ Walk(prev, rear(q)) = Reverse(c[q])
         /\ Follow(next, head(q))[Len(c[q]) + 1] = rear(q)
         /\ Follow(prev, rear(q))[Len(c[q]) + 1] = head(q)
<1>1. PICK s \in Seq(Node) : s = c[q]
  BY DEF Holds
<1>2. Chained(q, s)
  BY <1>1 DEF Holds
<1>3. Len(s) <= Cardinality(Node)
  <2>1. \A i, j \in 1 .. Len(s) : s[i] = s[j] => i = j
    BY <1>1 DEF Holds, OnceIn
  <2> QED  BY <2>1, LengthBound
<1>4. /\ head(q) \in Cell /\ head(q) \in Cell \ Node
      /\ rear(q) \in Cell /\ rear(q) \in Cell \ Node
  BY Ends
<1>5. \A k \in 0 .. Len(s) :
        next[OnWay(head(q), s, rear(q), k)] = OnWay(head(q), s, rear(q), k + 1)
  BY <1>2 DEF Chained, Place
<1>6. Walk(next, head(q)) = s /\ Follow(next, head(q))[Len(s) + 1] = rear(q)
  BY <1>2, <1>3, <1>4, <1>5, WalksChain DEF Chained
<1>7. PICK r : r = Reverse(s)
  OBVIOUS
<1>8. Len(s) \in Nat /\ r \in Seq(Node) /\ Len(r) = Len(s)
      /\ \A k \in 1 .. Len(s) : r[k] = s[Len(s) - k + 1]
  BY <1>7 DEF Reverse
<1>9. \A k \in 0 .. Len(s) + 1 :
        OnWay(rear(q), r, head(q), k) = Place(q, s, Len(s) + 1 - k)
  BY <1>8 DEF OnWay, Place
<1>10. ASSUME NEW k \in 0 .. Len(r)
       PROVE  prev[OnWay(rear(q), r, head(q), k)] = OnWay(rear(q), r, head(q), k + 1)
  <2> Len(s) - k \in 0 .. Len(s)
    BY <1>8
  <2>1. PICK l \in 0 .. Len(s) : l = Len(s) - k
    OBVIOUS
  <2>2. Len(s) + 1 - k = l + 1 /\ Len(s) + 1 - (k + 1) = l
    BY <1>8, <2>1
  <2>3. prev[Place(q, s, l + 1)] = Place(q, s, l)
    BY <1>2 DEF Chained
  <2>4. k \in 0 .. Len(s) + 1 /\ k + 1 \in 0 .. Len(s) + 1
    BY <1>8
  <2> QED  BY <1>9, <2>2, <2>3, <2>4
<1>11. Walk(prev, rear(q)) = r /\ Follow(prev, rear(q))[Len(r) + 1] = head(q)
  BY <1>2, <1>3, <1>4, <1>8, <1>10, WalksChain DEF Chained
<1> QED  BY <1>1, <1>3, <1>6, <1>7, <1>8, <1>11 DEF Contents
---------------------------------------------------------------------------
(* A node goes in before, or out from, the place k of a queue. *)

LEMMA Inserted ==
  ASSUME NEW s \in Seq(Node), NEW n \in Node, NEW i \in 1 .. Len(s) + 1,
         NEW r, r = InsertAt(s, i, n)
  PROVE  /\ r \in Seq(Node) /\ Len(r) = Len(s) + 1
         /\ \A j \in 1 .. Len(r) : r[j] = IF j < i THEN s[j] ELSE IF j = i THEN n ELSE s[j - 1]
<1> DEFINE a == SubSeq(s, 1, i - 1)
           b == a \o <<n>>
           d == SubSeq(s, i, Len(s))
<1>1. /\ a \in Seq(Node) /\ Len(a) = i - 1 /\ \A j \in 1 .. i - 1 : a[j] = s[j]
  OBVIOUS
<1>2. /\ d \in Seq(Node) /\ Len(d) = Len(s) - i + 1
      /\ \A j \in 1 .. Len(d) : d[j] = s[j + i - 1]
  OBVIOUS
<1>3. r = b \o d
  BY DEF InsertAt
<1> HIDE DEF a, d
<1>4. b \in Seq(Node) /\ Len(b) = i /\ \A j \in 1 .. i : b[j] = IF j < i THEN s[j] ELSE n
  BY <1>1
<1> HIDE DEF b
<1>5. /\ r \in Seq(Node) /\ Len(r) = Len(b) + Len(d)
      /\ \A j \in 1 .. Len(r) : r[j] = IF j <= Len(b) THEN b[j] ELSE d[j - Len(b)]
  <2>1. b \in Seq(Node) /\ d \in Seq(Node)
    BY <1>2, <1>4
  <2> QED  BY <1>3, <2>1
<1>6. Len(r) = Len(s) + 1 /\ Len(s) \in Nat /\ i \in Nat
  BY <1>2, <1>4, <1>5
<1>7. ASSUME NEW j \in 1 .. Len(r)
      PROVE  r[j] = IF j < i THEN s[j] ELSE IF j = i THEN n ELSE s[j - 1]
  <2>1. CASE j <= i
    BY <1>4, <1>5, <1>6, <2>1
  <2>2. CASE j > i
    <3>1. j - i \in 1 .. Len(d)
      BY <2>2, <1>2, <1>6
    <3>2. d[j - i] = s[j - 1]
      BY <3>1, <1>2, <1>6
    <3> QED  BY <2>2, <3>2, <1>4, <1>5, <1>6
  <2> QED  BY <2>1, <2>2, <1>6
<1> QED  BY <1>5, <1>6, <1>7

LEMMA Removed ==
  ASSUME NEW s \in Seq(Node), NEW i \in 1 .. Len(s), NEW r, r = RemoveAt(s, i)
  PROVE  /\ r \in Seq(Node) /\ Len(r) = Len(s) - 1
         /\ \A j \in 1 .. Len(r) : r[j] = IF j < i THEN s[j] ELSE s[j + 1]
<1> DEFINE a == SubSeq(s, 1, i - 1)
           d == SubSeq(s, i + 1, Len(s))
<1>1. /\ a \in Seq(Node) /\ Len(a) = i - 1 /\ \A j \in 1 .. i - 1 : a[j] = s[j]
  OBVIOUS
<1>2. /\ d \in Seq(Node) /\ Len(d) = Len(s) - i
      /\ \A j \in 1 .. Len(d) : d[j] = s[j + i]
  OBVIOUS
<1>3. r = a \o d
  BY DEF RemoveAt
<1> HIDE DEF a, d
<1>4. /\ r \in Seq(Node) /\ Len(r) = Len(a) + Len(d)
      /\ \A j \in 1 .. Len(r) : r[j] = IF j <= Len(a) THEN a[j] ELSE d[j - Len(a)]
  <2>1. a \in Seq(Node) /\ d \in Seq(Node)
    BY <1>1, <1>2
  <2> QED  BY <1>3, <2>1
<1>5. Len(r) = Len(s) - 1 /\ Len(s) \in Nat /\ i \in Nat
  BY <1>1, <1>2, <1>4
<1>6. ASSUME NEW j \in 1 .. Len(r) PROVE r[j] = IF j < i THEN s[j] ELSE s[j + 1]
  <2>1. CASE j < i
    BY <1>1, <1>4, <1>5, <2>1
  <2>2. CASE j >= i
    <3>1. j - (i - 1) \in 1 .. Len(d)
      BY <2>2, <1>2, <1>5
    <3>2. d[j - (i - 1)] = s[j + 1]
      BY <3>1, <1>2, <1>5
    <3> QED  BY <2>2, <3>2, <1>1, <1>4, <1>5
  <2> QED  BY <2>1, <2>2, <1>5
<1> QED  BY <1>4, <1>5, <1>6

(* What all ways to add a node do to the pointers.                            *)
LEMMA InsertKeeps ==
  ASSUME NEW c, Holds(c), NEW q \in Queue, NEW n \in Node,
         \A p \in Queue : \A j \in 1 .. Len(c[p]) : c[p][j] # n,
         NEW i \in 1 .. Len(c[q]) + 1, NEW a, a = Place(q, c[q], i - 1),
         NEW b, b = Place(q, c[q], i),
         next' = [next EXCEPT ![n] = b, ![a] = n],
         prev' = [prev EXCEPT ![n] = a, ![b] = n],
         size' = [size EXCEPT ![q] = @ + 1], OtherTypes'
  PROVE  Holds([c EXCEPT ![q] = InsertAt(c[q], i, n)])'
<1>1. PICK s \in Seq(Node) : s = c[q]
  BY DEF Holds
<1>2. PICK m \in Nat : m = Len(s)
  OBVIOUS
<1>3. PICK r : r = InsertAt(s, i, n)
  OBVIOUS
<1>4. /\ r \in Seq(Node) /\ Len(r) = m + 1
      /\ \A j \in 1 .. m + 1 : r[j] = IF j < i THEN s[j] ELSE IF j = i THEN n ELSE s[j - 1]
  <2>1. i \in 1 .. Len(s) + 1
    BY <1>1
  <2>2. /\ r \in Seq(Node) /\ Len(r) = Len(s) + 1
        /\ \A j \in 1 .. Len(r) :
             r[j] = IF j < i THEN s[j] ELSE IF j = i THEN n ELSE s[j - 1]
    BY <1>3, <2>1, Inserted
  <2> QED  BY <1>2, <2>2
<1> DEFINE d == [c EXCEPT ![q] = r]
<1>5. i \in 1 .. m + 1 /\ i \in Nat /\ i - 1 \in 0 .. m
  BY <1>1, <1>2
<1>6. ASSUME NEW p \in Queue, NEW k \in 0 .. Len(c[p]) + 1
      PROVE  Place(p, c[p], k) \in Cell /\ Place(p, c[p], k) # n
  <2>1. Place(p, c[p], k) \in Cell
    BY PlacesDiffer
  <2>2. \/ Place(p, c[p], k) \in {head(p), rear(p)}
        \/ k \in 1 .. Len(c[p]) /\ Place(p, c[p], k) = c[p][k]
    <3>1. Len(c[p]) \in Nat
      BY PlacesDiffer
    <3> QED  BY <3>1 DEF Place, OnWay
  <2>3. head(p) # n /\ rear(p) # n
    BY Ends
  <2> QED  BY <2>1, <2>2, <2>3
<1>7. a \in Cell /\ b \in Cell /\ a # n /\ b # n /\ n \in Cell
  BY <1>1, <1>2, <1>5, <1>6, Ends
<1>8. ASSUME NEW x \in Cell
      PROVE  /\ next'[x] = IF x = a THEN n ELSE IF x = n THEN b ELSE next[x]
             /\ prev'[x] = IF x = b THEN n ELSE IF x = n THEN a ELSE prev[x]
  BY <1>7 DEF Holds, CellTypes
<1>9. CellTypes'
  BY <1>7 DEF Holds, CellTypes
<1>10. d \in [Queue -> Seq(Node)] /\ d[q] = r /\ \A p \in Queue \ {q} : d[p] = c[p]
  BY <1>4 DEF Holds
<1>11. OnceIn(d)
  <2>1. OnceIn(c)
    BY DEF Holds
  <2> DEFINE Old(p, j) == IF p = q /\ j > i THEN j - 1 ELSE j
             Is(p, j) == p = q /\ j = i
  <2>2. ASSUME NEW p \in Queue, NEW j \in 1 .. Len(d[p])
        PROVE  /\ Is(p, j) => d[p][j] = n
               /\ ~Is(p, j) => Old(p, j) \in 1 .. Len(c[p]) /\ d[p][j] = c[p][Old(p, j)]
    <3>1. CASE p = q
      BY <1>1, <1>2, <1>4, <1>5, <1>10, <3>1
    <3>2. CASE p # q
      BY <1>10, <3>2
    <3> QED  BY <3>1, <3>2
  <2>3. ASSUME NEW p \in Queue, NEW j \in 1 .. Len(d[p]), NEW l \in 1 .. Len(d[p]),
               ~Is(p, j), ~Is(p, l), Old(p, j) = Old(p, l)
        PROVE  j = l
    <3>1. j \in Int /\ l \in Int
      OBVIOUS
    <3> QED  BY <1>5, <2>3, <3>1
  <2> HIDE DEF Old, Is, d
  <2>4. ASSUME NEW p \in Queue, NEW o \in Queue, NEW j \in 1 .. Len(d[p]),
               NEW l \in 1 .. Len(d[o]), d[p][j] = d[o][l]
        PROVE  p = o /\ j = l
    <3>1. CASE Is(p, j)
      <4>1. ASSUME ~Is(o, l) PROVE FALSE
        <5>1. Old(o, l) \in 1 .. Len(c[o]) /\ d[o][l] = c[o][Old(o, l)]
          BY <2>2, <4>1
        <5>2. d[p][j] = n
          BY <2>2, <3>1
        <5> QED  BY <2>4, <5>1, <5>2
      <4> QED  BY <3>1, <4>1 DEF Is
    <3>2. CASE ~Is(p, j)
      <4>3. Old(p, j) \in 1 .. Len(c[p]) /\ d[p][j] = c[p][Old(p, j)]
        BY <2>2, <3>2
      <4>1. ASSUME Is(o, l) PROVE FALSE
        <5>1. d[o][l] = n
          BY <2>2, <4>1
        <5> QED  BY <2>4, <4>3, <5>1
      <4>4. Old(o, l) \in 1 .. Len(c[o]) /\ d[o][l] = c[o][Old(o, l)]
        BY <2>2, <4>1
      <4>2. p = o /\ Old(p, j) = Old(o, l)
        <5>1. PICK x \in 1 .. Len(c[p]) : x = Old(p, j)
          BY <4>3
        <5>2. PICK y \in 1 .. Len(c[o]) : y = Old(o, l)
          BY <4>4
        <5>3. c[p][x] = c[o][y]
          BY <2>4, <4>3, <4>4, <5>1, <5>2
        <5>4. p = o /\ x = y
          <6>1. \A z \in 1 .. Len(c[o]) : c[p][x] = c[o][z] => p = o /\ x = z
            BY <2>1 DEF OnceIn
          <6> QED  BY <5>3, <6>1
        <5> QED  BY <5>1, <5>2, <5>4
      <4>5. l \in 1 .. Len(d[p]) /\ ~Is(p, l) /\ Old(p, j) = Old(p, l)
        BY <4>1, <4>2
      <4>6. j = l
        BY <2>3, <3>2, <4>5
      <4> QED  BY <4>2, <4>6
    <3> QED  BY <3>1, <3>2
  <2> QED  BY <2>4 DEF OnceIn
<1>12. Chained(q, r)'
  <2>1. Chained(q, s)
    BY <1>1 DEF Holds
  <2>2. size'[q] = m + 1
    BY <1>1, <1>2, <2>1 DEF Holds, OtherTypes, Chained
  <2>3. ASSUME NEW k \in 0 .. m + 2
        PROVE  Place(q, r, k) = IF k < i THEN Place(q, s, k)
                                ELSE IF k = i THEN n ELSE Place(q, s, k - 1)
    BY <1>2, <1>4, <1>5 DEF Place, OnWay
  <2>4. ASSUME NEW k \in 0 .. m + 1, NEW l \in 0 .. m + 1, Place(q, s, k) = Place(q, s, l)
        PROVE  k = l
    BY <1>1, <1>2, <2>4, PlacesDiffer
  <2>5. \A k \in 0 .. m + 1 : Place(q, s, k) \in Cell /\ Place(q, s, k) # n
    BY <1>1, <1>2, <1>6
  <2>6. a = Place(q, s, i - 1) /\ b = Place(q, s, i)
    BY <1>1
  <2>7. Place(q, s, 0) = head(q) /\ Place(q, s, m + 1) = rear(q)
    BY <1>2 DEF Place, OnWay
  <2>8. next'[rear(q)] = NULL /\ prev'[head(q)] = NULL
    <3>1. rear(q) # a /\ head(q) # b
      BY <1>5, <2>4, <2>6, <2>7
    <3>2. rear(q) \in Cell /\ rear(q) # n /\ head(q) \in Cell /\ head(q) # n
      BY Ends
    <3>3. next[rear(q)] = NULL /\ prev[head(q)] = NULL
      BY <2>1 DEF Chained
    <3> QED  BY <1>8, <3>1, <3>2, <3>3
  <2>9. ASSUME NEW k \in 0 .. m + 1
        PROVE  /\ next'[Place(q, r, k)] = Place(q, r, k + 1)
               /\ prev'[Place(q, r, k + 1)] = Place(q, r, k)
    <3> DEFINE P(l) == Place(q, s, l)
    <3>1. \A l \in 0 .. m : next[P(l)] = P(l + 1) /\ prev[P(l + 1)] = P(l)
      BY <1>2, <2>1 DEF Chained
    <3> HIDE DEF P
    <3>2. CASE k < i - 1
      <4>1. Place(q, r, k) = P(k) /\ Place(q, r, k + 1) = P(k + 1)
        BY <1>5, <2>3, <3>2 DEF P
      <4>2. /\ k \in 0 .. m /\ k + 1 \in 0 .. m + 1 /\ k # i - 1 /\ k + 1 # i
            /\ i - 1 \in 0 .. m + 1 /\ i \in 0 .. m + 1
        BY <1>5, <3>2
      <4>3. P(k) # a /\ P(k + 1) # b
        BY <2>4, <2>6, <4>2 DEF P
      <4> QED  BY <1>8, <2>5, <3>1, <4>1, <4>2, <4>3 DEF P
    <3>3. CASE k = i - 1
      <4>1. Place(q, r, k) = a /\ Place(q, r, k + 1) = n
        BY <1>5, <2>3, <2>6, <3>3
      <4> QED  BY <1>7, <1>8, <4>1
    <3>4. CASE k = i
      <4>2. Place(q, r, k) = n
        BY <1>5, <2>3, <3>4
      <4>3. Place(q, r, k + 1) = b
        <5>1. k + 1 \in 0 .. m + 2 /\ ~(k + 1 < i) /\ k + 1 # i /\ k + 1 - 1 = i
          BY <1>5, <3>4
        <5> QED  BY <2>3, <2>6, <5>1
      <4>1. Place(q, r, k) = n /\ Place(q, r, k + 1) = b
        BY <4>2, <4>3
      <4> QED  BY <1>7, <1>8, <4>1
    <3>5. CASE k > i
      <4>1. PICK l \in 0 .. m : k = l + 1
        <5>1. k - 1 \in 0 .. m /\ k = (k - 1) + 1
          BY <1>5, <3>5
        <5> QED  BY <5>1
      <4>2. Place(q, r, k) = P(l) /\ Place(q, r, k + 1) = P(l + 1)
        BY <1>5, <2>3, <3>5, <4>1 DEF P
      <4>3. /\ l \in 0 .. m + 1 /\ l + 1 \in 0 .. m + 1 /\ l # i - 1 /\ l + 1 # i
            /\ i - 1 \in 0 .. m + 1 /\ i \in 0 .. m + 1
        BY <1>5, <3>5, <4>1
      <4>4. P(l) # a /\ P(l + 1) # b
        BY <2>4, <2>6, <4>3 DEF P
      <4> QED  BY <1>8, <2>5, <3>1, <4>1, <4>2, <4>3, <4>4 DEF P
    <3> QED  BY <1>5, <3>2, <3>3, <3>4, <3>5
  <2> QED  BY <1>4, <2>2, <2>8, <2>9 DEF Chained, Place
<1>13. ASSUME NEW p \in Queue, p # q PROVE Chained(p, c[p])'
  <2>1. Chained(p, c[p])
    BY DEF Holds
  <2>2. size'[p] = size[p] /\ Len(c[p]) \in Nat
    BY <1>13, PlacesDiffer DEF Holds, OtherTypes
  <2>3. ASSUME NEW k \in 0 .. Len(c[p]) + 1
        PROVE  /\ next'[Place(p, c[p], k)] = next[Place(p, c[p], k)]
               /\ prev'[Place(p, c[p], k)] = prev[Place(p, c[p], k)]
    <3>1. i - 1 \in 0 .. Len(c[q]) + 1 /\ i \in 0 .. Len(c[q]) + 1
      BY <1>1, <1>2, <1>5
    <3>2. Place(p, c[p], k) # a /\ Place(p, c[p], k) # b
      BY <1>13, <3>1, PlacesDiffer
    <3> QED  BY <1>6, <1>8, <3>2
  <2>4. Place(p, c[p], 0) = head(p) /\ Place(p, c[p], Len(c[p]) + 1) = rear(p)
    BY <2>2 DEF Place, OnWay
  <2>5. next'[rear(p)] = NULL /\ prev'[head(p)] = NULL
    <3>1. next[rear(p)] = NULL /\ prev[head(p)] = NULL
      BY <2>1 DEF Chained
    <3>2. 0 \in 0 .. Len(c[p]) + 1 /\ Len(c[p]) + 1 \in 0 .. Len(c[p]) + 1
      BY <2>2
    <3> QED  BY <2>3, <2>4, <3>1, <3>2
  <2>6. ASSUME NEW k \in 0 .. Len(c[p])
        PROVE  /\ next'[Place(p, c[p], k)] = Place(p, c[p], k + 1)
               /\ prev'[Place(p, c[p], k + 1)] = Place(p, c[p], k)
    <3>1. k \in 0 .. Len(c[p]) + 1 /\ k + 1 \in 0 .. Len(c[p]) + 1
      BY <2>2
    <3> QED  BY <2>1, <2>3, <3>1 DEF Chained
  <2> QED  BY <2>1, <2>2, <2>5, <2>6 DEF Chained, Place
<1> HIDE DEF d
<1>14. Holds(d)'
  BY <1>9, <1>10, <1>11, <1>12, <1>13 DEF Holds, OnceIn
<1> QED  BY <1>1, <1>3, <1>14 DEF d

(* And what all ways to take one out do.                                      *)
LEMMA RemoveKeeps ==
  ASSUME NEW c, Holds(c), NEW q \in Queue, NEW i \in 1 .. Len(c[q]),
         NEW n, n = c[q][i], NEW a, a = Place(q, c[q], i - 1),
         NEW b, b = Place(q, c[q], i + 1),
         next' = [next EXCEPT ![a] = b, ![n] = NULL],
         prev' = [prev EXCEPT ![b] = a, ![n] = NULL],
         size' = [size EXCEPT ![q] = @ - 1], OtherTypes'
  PROVE  Holds([c EXCEPT ![q] = RemoveAt(c[q], i)])'
<1>1. PICK s \in Seq(Node) : s = c[q]
  BY DEF Holds
<1>2. PICK m \in Nat : m = Len(s)
  OBVIOUS
<1>3. PICK r : r = RemoveAt(s, i)
  OBVIOUS
<1>4. /\ r \in Seq(Node) /\ Len(r) = m - 1
      /\ \A j \in 1 .. m - 1 : r[j] = IF j < i THEN s[j] ELSE s[j + 1]
  <2>1. i \in 1 .. Len(s)
    BY <1>1
  <2>2. /\ r \in Seq(Node) /\ Len(r) = Len(s) - 1
        /\ \A j \in 1 .. Len(r) : r[j] = IF j < i THEN s[j] ELSE s[j + 1]
    BY <1>3, <2>1, Removed, Zenon
  <2> QED  BY <1>2, <2>2
<1> DEFINE d == [c EXCEPT ![q] = r]
           P(l) == Place(q, s, l)
<1>5. i \in 1 .. m /\ i \in Nat /\ i - 1 \in 0 .. m /\ m - 1 \in Nat
  BY <1>1, <1>2
<1>6. \A k \in 0 .. m + 1 : P(k) \in Cell
  BY <1>1, <1>2, PlacesDiffer
<1>7. ASSUME NEW k \in 0 .. m + 1, NEW l \in 0 .. m + 1, P(k) = P(l) PROVE k = l
  BY <1>1, <1>2, <1>7, PlacesDiffer
<1>8. a = P(i - 1) /\ b = P(i + 1) /\ n = P(i) /\ n \in Node
  BY <1>1, <1>2, <1>5 DEF Place, OnWay
<1>9. P(0) = head(q) /\ P(m + 1) = rear(q)
  BY <1>2 DEF Place, OnWay
<1>10. Chained(q, s)
  BY <1>1 DEF Holds
<1>11. \A l \in 0 .. m : next[P(l)] = P(l + 1) /\ prev[P(l + 1)] = P(l)
  BY <1>2, <1>10 DEF Chained
<1>12. ASSUME NEW k \in 0 .. m
       PROVE  Place(q, r, k) = IF k < i THEN P(k) ELSE P(k + 1)
  <2>1. CASE k = 0
    BY <1>5, <2>1 DEF Place, OnWay
  <2>2. CASE k \in 1 .. m - 1
    <3>1. Place(q, r, k) = r[k] /\ P(k) = s[k] /\ P(k + 1) = s[k + 1]
      BY <1>2, <1>4, <1>5, <2>2 DEF Place, OnWay
    <3> QED  BY <1>4, <2>2, <3>1
  <2>3. CASE k = m
    <3>1. Place(q, r, m) = rear(q) /\ P(m + 1) = rear(q)
      BY <1>2, <1>4, <1>5, <1>9 DEF Place, OnWay
    <3> QED  BY <1>5, <2>3, <3>1
  <2> QED  BY <1>5, <2>1, <2>2, <2>3
<1> HIDE DEF P
<1>13. a \in Cell /\ b \in Cell /\ n \in Cell /\ a # b /\ a # n /\ b # n
  <2>1. /\ i - 1 \in 0 .. m + 1 /\ i \in 0 .. m + 1 /\ i + 1 \in 0 .. m + 1
        /\ i - 1 # i /\ i - 1 # i + 1 /\ i # i + 1
    BY <1>5
  <2> QED  BY <1>6, <1>7, <1>8, <2>1
<1>14. ASSUME NEW x \in Cell
       PROVE  /\ next'[x] = IF x = n THEN NULL ELSE IF x = a THEN b ELSE next[x]
              /\ prev'[x] = IF x = n THEN NULL ELSE IF x = b THEN a ELSE prev[x]
  BY <1>13 DEF Holds, CellTypes
<1>15. CellTypes'
  BY <1>13 DEF Holds, CellTypes
<1>16. d \in [Queue -> Seq(Node)] /\ d[q] = r /\ \A p \in Queue \ {q} : d[p] = c[p]
  BY <1>4 DEF Holds
<1>17. OnceIn(d)
  <2>1. OnceIn(c)
    BY DEF Holds
  <2> DEFINE Old(p, j) == IF p = q /\ j >= i THEN j + 1 ELSE j
  <2>2. ASSUME NEW p \in Queue, NEW j \in 1 .. Len(d[p])
        PROVE  Old(p, j) \in 1 .. Len(c[p]) /\ d[p][j] = c[p][Old(p, j)]
    <3>1. CASE p = q
      BY <1>1, <1>2, <1>4, <1>5, <1>16, <3>1
    <3>2. CASE p # q
      BY <1>16, <3>2
    <3> QED  BY <3>1, <3>2
  <2>3. ASSUME NEW p \in Queue, NEW j \in 1 .. Len(d[p]), NEW l \in 1 .. Len(d[p]),
               Old(p, j) = Old(p, l)
        PROVE  j = l
    <3>1. j \in Int /\ l \in Int
      OBVIOUS
    <3> QED  BY <1>5, <2>3, <3>1
  <2> HIDE DEF Old, d
  <2>4. ASSUME NEW p \in Queue, NEW o \in Queue, NEW j \in 1 .. Len(d[p]),
               NEW l \in 1 .. Len(d[o]), d[p][j] = d[o][l]
        PROVE  p = o /\ j = l
    <3>1. PICK x \in 1 .. Len(c[p]) : x = Old(p, j) /\ d[p][j] = c[p][x]
      BY <2>2
    <3>2. PICK y \in 1 .. Len(c[o]) : y = Old(o, l) /\ d[o][l] = c[o][y]
      BY <2>2
    <3>3. c[p][x] = c[o][y]
      BY <2>4, <3>1, <3>2
    <3>4. p = o /\ x = y
      BY <2>1, <3>3 DEF OnceIn
    <3> QED  BY <2>3, <3>1, <3>2, <3>4
  <2> QED  BY <2>4 DEF OnceIn
<1>18. Chained(q, r)'
  <2>1. size'[q] = m - 1
    BY <1>1, <1>2, <1>10 DEF Holds, OtherTypes, Chained
  <2>2. next'[rear(q)] = NULL /\ prev'[head(q)] = NULL
    <3>1. rear(q) # a /\ head(q) # b
      <4>1. m + 1 \in 0 .. m + 1 /\ 0 \in 0 .. m + 1 /\ i - 1 \in 0 .. m + 1
            /\ i + 1 \in 0 .. m + 1 /\ i - 1 # m + 1 /\ i + 1 # 0
        BY <1>5
      <4> QED  BY <1>7, <1>8, <1>9, <4>1
    <3>2. rear(q) \in Cell /\ head(q) \in Cell
      BY Ends
    <3>3. next[rear(q)] = NULL /\ prev[head(q)] = NULL
      BY <1>10 DEF Chained
    <3> QED  BY <1>14, <3>1, <3>2, <3>3
  <2>3. ASSUME NEW k \in 0 .. m - 1
        PROVE  /\ next'[Place(q, r, k)] = Place(q, r, k + 1)
               /\ prev'[Place(q, r, k + 1)] = Place(q, r, k)
    <3>1. CASE k < i - 1
      <4>1. Place(q, r, k) = P(k) /\ Place(q, r, k + 1) = P(k + 1)
        <5>1. k \in 0 .. m /\ k + 1 \in 0 .. m /\ k < i /\ k + 1 < i
          BY <1>5, <3>1
        <5> QED  BY <1>12, <5>1
      <4>2. /\ k \in 0 .. m /\ k \in 0 .. m + 1 /\ k + 1 \in 0 .. m + 1
            /\ k # i - 1 /\ k + 1 # i + 1 /\ k # i /\ k + 1 # i
            /\ i - 1 \in 0 .. m + 1 /\ i \in 0 .. m + 1 /\ i + 1 \in 0 .. m + 1
        BY <1>5, <3>1
      <4>3. P(k) # a /\ P(k + 1) # b /\ P(k) # n /\ P(k + 1) # n
        BY <1>7, <1>8, <4>2
      <4> QED  BY <1>6, <1>11, <1>14, <4>1, <4>2, <4>3
    <3>2. CASE k = i - 1
      <4>1. Place(q, r, k) = a /\ Place(q, r, k + 1) = b
        BY <1>5, <1>8, <1>12, <3>2
      <4> QED  BY <1>13, <1>14, <4>1
    <3>3. CASE k >= i
      <4>1. PICK l \in 0 .. m : l = k + 1
        <5>1. k + 1 \in 0 .. m
          BY <1>5
        <5> QED  BY <5>1
      <4>2. Place(q, r, k) = P(l) /\ Place(q, r, k + 1) = P(l + 1)
        BY <1>5, <1>12, <3>3, <4>1
      <4>3. /\ l \in 0 .. m + 1 /\ l + 1 \in 0 .. m + 1
            /\ l # i - 1 /\ l + 1 # i + 1 /\ l # i /\ l + 1 # i
            /\ i - 1 \in 0 .. m + 1 /\ i \in 0 .. m + 1 /\ i + 1 \in 0 .. m + 1
        BY <1>5, <3>3, <4>1
      <4>4. P(l) # a /\ P(l + 1) # b /\ P(l) # n /\ P(l + 1) # n
        BY <1>7, <1>8, <4>3
      <4> QED  BY <1>6, <1>11, <1>14, <4>1, <4>2, <4>3, <4>4
    <3> QED  BY <1>5, <3>1, <3>2, <3>3
  <2> QED  BY <1>4, <2>1, <2>2, <2>3 DEF Chained, Place
<1>19. ASSUME NEW p \in Queue, p # q PROVE Chained(p, c[p])'
  <2>1. Chained(p, c[p])
    BY DEF Holds
  <2>2. size'[p] = size[p] /\ Len(c[p]) \in Nat
    BY <1>19, PlacesDiffer DEF Holds, OtherTypes
  <2>3. ASSUME NEW k \in 0 .. Len(c[p]) + 1
        PROVE  /\ next'[Place(p, c[p], k)] = next[Place(p, c[p], k)]
               /\ prev'[Place(p, c[p], k)] = prev[Place(p, c[p], k)]
    <3>1. /\ i - 1 \in 0 .. Len(c[q]) + 1 /\ i \in 0 .. Len(c[q]) + 1
          /\ i + 1 \in 0 .. Len(c[q]) + 1
      BY <1>1, <1>2, <1>5
    <3>2. n = Place(q, c[q], i)
      BY <1>1, <1>8 DEF P
    <3>3. Place(p, c[p], k) # a /\ Place(p, c[p], k) # b /\ Place(p, c[p], k) # n
      BY <1>19, <3>1, <3>2, PlacesDiffer
    <3>4. Place(p, c[p], k) \in Cell
      BY PlacesDiffer
    <3> QED  BY <1>14, <3>3, <3>4
  <2>4. Place(p, c[p], 0) = head(p) /\ Place(p, c[p], Len(c[p]) + 1) = rear(p)
    BY <2>2 DEF Place, OnWay
  <2>5. next'[rear(p)] = NULL /\ prev'[head(p)] = NULL
    <3>1. next[rear(p)] = NULL /\ prev[head(p)] = NULL
      BY <2>1 DEF Chained
    <3>2. 0 \in 0 .. Len(c[p]) + 1 /\ Len(c[p]) + 1 \in 0 .. Len(c[p]) + 1
      BY <2>2
    <3> QED  BY <2>3, <2>4, <3>1, <3>2
  <2>6. ASSUME NEW k \in 0 .. Len(c[p])
        PROVE  /\ next'[Place(p, c[p], k)] = Place(p, c[p], k + 1)
               /\ prev'[Place(p, c[p], k + 1)] = Place(p, c[p], k)
    <3>1. k \in 0 .. Len(c[p]) + 1 /\ k + 1 \in 0 .. Len(c[p]) + 1
      BY <2>2
    <3> QED  BY <2>1, <2>3, <3>1 DEF Chained
  <2> QED  BY <2>1, <2>2, <2>5, <2>6 DEF Chained, Place
<1> HIDE DEF d
<1>20. Holds(d)'
  BY <1>15, <1>16, <1>17, <1>18, <1>19 DEF Holds, OnceIn
<1> QED  BY <1>1, <1>3, <1>20 DEF d

---------------------------------------------------------------------------
(* What the library's operations do to the sequences. *)

(* What the queues hold.                                                      *)
Held == [q \in Queue |-> Contents(q)]

(* ContentsAre for any sequences, so that it can be used of the next state.   *)
ContentsAreThose ==
  \A c \in [Queue -> Seq(Node)] : Holds(c) => \A q \in Queue : Contents(q) = c[q]

LEMMA ContentsNext == ContentsAreThose'
<1>1. ContentsAreThose
  BY ContentsAre DEF ContentsAreThose
<1> QED  BY <1>1, PTL

LEMMA Settled ==
  ASSUME NEW c, Holds(c)'
  PROVE  QInv' /\ Held' = c
<1>1. c \in [Queue -> Seq(Node)]
  BY DEF Holds
<1>2. \A q \in Queue : Contents(q)' = c[q]
  BY <1>1, ContentsNext DEF ContentsAreThose
<1>3. Held' = c
  BY <1>1, <1>2 DEF Held
<1> QED  BY <1>3 DEF QInv, Held

(* The facts about one queue that the operations need.                        *)
LEMMA QueueFacts ==
  ASSUME QInv, NEW q \in Queue, NEW s, s = Contents(q)
  PROVE  /\ Held[q] = s /\ s \in Seq(Node) /\ Len(s) \in Nat /\ size[q] = Len(s)
         /\ \A k \in 0 .. Len(s) :
              /\ next[Place(q, s, k)] = Place(q, s, k + 1)
              /\ prev[Place(q, s, k + 1)] = Place(q, s, k)
         /\ \A k \in 0 .. Len(s) + 1 : Place(q, s, k) \in Cell
         /\ Place(q, s, 0) = head(q) /\ Place(q, s, Len(s) + 1) = rear(q)
         /\ \A k \in 1 .. Len(s) : Place(q, s, k) = s[k] /\ s[k] \in Node
         /\ Contains(s, Place(q, s, 1)) \/ Len(s) = 0
<1>1. Holds(Held) /\ Held[q] = s
  BY DEF QInv, Held
<1>2. Chained(q, s) /\ s \in Seq(Node)
  BY <1>1 DEF Holds
<1>3. Len(s) \in Nat
  BY <1>2
<1>4. \A k \in 0 .. Len(s) + 1 : Place(q, s, k) \in Cell
  BY <1>1, PlacesDiffer
<1>5. /\ Place(q, s, 0) = head(q) /\ Place(q, s, Len(s) + 1) = rear(q)
      /\ \A k \in 1 .. Len(s) : Place(q, s, k) = s[k] /\ s[k] \in Node
  BY <1>2, <1>3 DEF Place, OnWay
<1>6. Contains(s, Place(q, s, 1)) \/ Len(s) = 0
  BY <1>3, <1>5 DEF Contains
<1> QED  BY <1>1, <1>2, <1>3, <1>4, <1>5, <1>6 DEF Chained

LEMMA AddsAt ==
  ASSUME QInv, NEW q \in Queue, NEW n \in Node, Free(n), NEW s, s = Contents(q),
         NEW i \in 1 .. Len(s) + 1, NEW a, NEW b, a = Place(q, s, i - 1), b = Place(q, s, i),
         next' = [next EXCEPT ![n] = b, ![a] = n],
         prev' = [prev EXCEPT ![n] = a, ![b] = n], Grows(q)
  PROVE  QInv' /\ Held' = [Held EXCEPT ![q] = InsertAt(s, i, n)]
<1>1. PICK c : c = Held
  OBVIOUS
<1>2. Holds(c) /\ c[q] = s
  BY <1>1 DEF QInv, Held
<1>3. \A p \in Queue : \A j \in 1 .. Len(c[p]) : c[p][j] # n
  BY <1>1 DEF Free, Contains, Held
<1>4. OtherTypes' /\ size' = [size EXCEPT ![q] = @ + 1]
  BY <1>2 DEF Grows, Holds, OtherTypes
<1>5. PICK d : d = [c EXCEPT ![q] = InsertAt(c[q], i, n)]
  OBVIOUS
<1>6. Holds(d)'
  BY <1>2, <1>3, <1>4, <1>5, InsertKeeps
<1> QED  BY <1>1, <1>2, <1>5, <1>6, Settled

LEMMA RemovesAt ==
  ASSUME QInv, NEW q \in Queue, NEW s, s = Contents(q),
         NEW i \in 1 .. Len(s), NEW n, n = s[i],
         NEW a, NEW b, a = Place(q, s, i - 1), b = Place(q, s, i + 1),
         next' = [next EXCEPT ![a] = b, ![n] = NULL],
         prev' = [prev EXCEPT ![b] = a, ![n] = NULL],
         size' = [size EXCEPT ![q] = @ - 1],
         answer' \in Node \cup {NULL}, waiting_time' = waiting_time
  PROVE  QInv' /\ Held' = [Held EXCEPT ![q] = RemoveAt(s, i)]
<1>1. PICK c : c = Held
  OBVIOUS
<1>2. Holds(c) /\ c[q] = s
  BY <1>1 DEF QInv, Held
<1>3. OtherTypes'
  <2>1. size[q] = Len(s) /\ Len(s) \in Nat /\ Len(s) # 0
    BY QueueFacts
  <2>2. size[q] - 1 \in Nat
    BY <2>1
  <2> QED  BY <1>2, <2>2 DEF Holds, OtherTypes
<1>4. PICK d : d = [c EXCEPT ![q] = RemoveAt(c[q], i)]
  OBVIOUS
<1>5. Holds(d)'
  BY <1>2, <1>3, <1>4, RemoveKeeps
<1> QED  BY <1>1, <1>2, <1>4, <1>5, Settled

(* Sequences of one length with the same elements are one.                    *)
LEMMA SameSequence ==
  ASSUME NEW S, NEW r \in Seq(S), NEW s \in Seq(S), Len(r) = Len(s),
         \A j \in 1 .. Len(s) : r[j] = s[j]
  PROVE  r = s
OBVIOUS

(* A node that is free is on no place of a queue.                             *)
LEMMA FreePlaces ==
  ASSUME QInv, NEW q \in Queue, NEW n \in Node, Free(n), NEW s, s = Contents(q)
  PROVE  /\ \A k \in 0 .. Len(s) + 1 : Place(q, s, k) # n
         /\ ~AsSequences!Queued(n)
<1>1. \A k \in 1 .. Len(s) : s[k] # n
  BY DEF Free, Contains
<1>2. Len(s) \in Nat /\ head(q) # n /\ rear(q) # n
  BY QueueFacts, Ends
<1>3. \A k \in 0 .. Len(s) + 1 : Place(q, s, k) # n
  BY <1>1, <1>2 DEF Place, OnWay
<1>4. ~AsSequences!Queued(n)
  BY DEF AsSequences!Queued, AsSequences!Contains, Free, Contains
<1> QED  BY <1>3, <1>4

LEMMA isEmptyStep ==
  ASSUME QInv, NEW q \in Queue, isEmpty(q)
  PROVE  QInv' /\ AsSequences!IsEmpty(q)
<1>1. PICK c : c = Held
  OBVIOUS
<1>2. Holds(c) /\ c[q] = Contents(q)
  BY <1>1 DEF QInv, Held
<1>3. OtherTypes'
  BY <1>2 DEF Holds, OtherTypes, isEmpty
<1>4. Holds(c)'
  BY <1>2, <1>3 DEF Holds, CellTypes, Chained, OnceIn, isEmpty
<1>5. QInv' /\ Held' = Held
  BY <1>1, <1>4, Settled
<1>6. (size[q] = 0) = (Contents(q) = << >>)
  <2>1. PICK s \in Seq(Node) : s = Contents(q) /\ size[q] = Len(s)
    BY QueueFacts
  <2>2. Len(s) = 0 <=> s = << >>
    OBVIOUS
  <2> QED  BY <2>1, <2>2
<1> QED  BY <1>5, <1>6 DEF isEmpty, AsSequences!IsEmpty, Held

LEMMA addFrontStep ==
  ASSUME QInv, NEW q \in Queue, NEW n \in Node, addFront(q, n)
  PROVE  QInv' /\ AsSequences!AddFront(q, n)
<1>1. PICK s : s = Contents(q)
  OBVIOUS
<1>2. Free(n) /\ Grows(q)
  BY DEF addFront
<1>3. s \in Seq(Node) /\ Len(s) \in Nat /\ Held[q] = s
  BY <1>1, QueueFacts
<1>4. PICK a : a = head(q)
  OBVIOUS
<1>5. PICK b : b = next[head(q)]
  OBVIOUS
<1>6. 0 \in 0 .. Len(s) /\ 1 \in 0 .. Len(s) + 1 /\ 1 \in 1 .. Len(s) + 1
      /\ 1 - 1 = 0 /\ 0 + 1 = 1
  BY <1>3
<1>7. a = Place(q, s, 0) /\ b = Place(q, s, 1) /\ b \in Cell
  BY <1>1, <1>4, <1>5, <1>6, QueueFacts
<1>8. b # n
  BY <1>1, <1>2, <1>6, <1>7, FreePlaces
<1>9. next' = [next EXCEPT ![n] = b, ![a] = n] /\ prev' = [prev EXCEPT ![b] = n, ![n] = a]
  BY <1>4, <1>5 DEF addFront
<1>10. prev' = [prev EXCEPT ![n] = a, ![b] = n]
  <2>1. prev \in [Cell -> Cell \cup {NULL}]
    BY DEF QInv, Holds, CellTypes
  <2> QED  BY <1>8, <1>9, <2>1
<1>11. QInv' /\ Held' = [Held EXCEPT ![q] = InsertAt(s, 1, n)]
  <2>1. PICK i \in 1 .. Len(s) + 1 : i = 1
    BY <1>6
  <2>2. a = Place(q, s, i - 1) /\ b = Place(q, s, i)
    BY <1>7, <2>1
  <2>3. next' = [next EXCEPT ![n] = b, ![a] = n]
    BY <1>9
  <2>4. QInv' /\ Held' = [Held EXCEPT ![q] = InsertAt(s, i, n)]
    BY <1>1, <1>2, <1>10, <2>2, <2>3, AddsAt
  <2> QED  BY <2>1, <2>4
<1>12. InsertAt(s, 1, n) = <<n>> \o s
  <2>1. PICK r : r = InsertAt(s, 1, n)
    OBVIOUS
  <2>2. PICK t : t = <<n>> \o s
    OBVIOUS
  <2>3. /\ r \in Seq(Node) /\ Len(r) = Len(s) + 1
        /\ \A j \in 1 .. Len(r) : r[j] = IF j < 1 THEN s[j] ELSE IF j = 1 THEN n ELSE s[j - 1]
    BY <1>3, <1>6, <2>1, Inserted
  <2>4. /\ t \in Seq(Node) /\ Len(t) = Len(s) + 1
        /\ \A j \in 1 .. Len(t) : t[j] = IF j = 1 THEN n ELSE s[j - 1]
    BY <1>3, <2>2
  <2>5. \A j \in 1 .. Len(t) : r[j] = t[j]
    BY <1>3, <2>3, <2>4
  <2> QED  BY <2>1, <2>2, <2>3, <2>4, <2>5, SameSequence
<1>13. ~AsSequences!Queued(n)
  BY <1>1, <1>2, FreePlaces
<1> QED  BY <1>1, <1>2, <1>11, <1>12, <1>13
         DEF Grows, Held, AsSequences!AddFront, AsSequences!Becomes

LEMMA addBackStep ==
  ASSUME QInv, NEW q \in Queue, NEW n \in Node, addBack(q, n)
  PROVE  QInv' /\ AsSequences!AddBack(q, n)
<1>1. PICK s : s = Contents(q)
  OBVIOUS
<1>2. Free(n) /\ Grows(q)
  BY DEF addBack
<1>3. s \in Seq(Node) /\ Len(s) \in Nat /\ Held[q] = s
  BY <1>1, QueueFacts
<1>4. PICK i \in 1 .. Len(s) + 1 : i = Len(s) + 1
  BY <1>3
<1>5. PICK b : b = rear(q)
  OBVIOUS
<1>6. PICK a : a = prev[rear(q)]
  OBVIOUS
<1>7. Len(s) \in 0 .. Len(s) /\ i - 1 = Len(s)
  BY <1>3, <1>4
<1>8. b = Place(q, s, i) /\ a = Place(q, s, i - 1)
  BY <1>1, <1>4, <1>5, <1>6, <1>7, QueueFacts
<1>9. prev' = [prev EXCEPT ![n] = a, ![b] = n] /\ next' = [next EXCEPT ![n] = b, ![a] = n]
  BY <1>5, <1>6 DEF addBack
<1>10. QInv' /\ Held' = [Held EXCEPT ![q] = InsertAt(s, i, n)]
  BY <1>1, <1>2, <1>8, <1>9, AddsAt
<1>11. InsertAt(s, i, n) = Append(s, n)
  <2>1. PICK r : r = InsertAt(s, i, n)
    OBVIOUS
  <2>2. PICK t : t = Append(s, n)
    OBVIOUS
  <2>3. /\ r \in Seq(Node) /\ Len(r) = Len(s) + 1
        /\ \A j \in 1 .. Len(r) : r[j] = IF j < i THEN s[j] ELSE IF j = i THEN n ELSE s[j - 1]
    BY <1>3, <2>1, Inserted
  <2>4. /\ t \in Seq(Node) /\ Len(t) = Len(s) + 1
        /\ \A j \in 1 .. Len(t) : t[j] = IF j < i THEN s[j] ELSE n
    BY <1>3, <1>4, <2>2
  <2>5. \A j \in 1 .. Len(t) : r[j] = t[j]
    BY <1>3, <1>4, <2>3, <2>4
  <2> QED  BY <2>1, <2>2, <2>3, <2>4, <2>5, SameSequence
<1>12. ~AsSequences!Queued(n)
  BY <1>1, <1>2, FreePlaces
<1> QED  BY <1>1, <1>2, <1>10, <1>11, <1>12
         DEF Grows, Held, AsSequences!AddBack, AsSequences!Becomes

(* A node added before the one at place i.                                    *)
LEMMA BeforePlace ==
  ASSUME QInv, NEW q \in Queue, NEW n \in Node, NEW s, s = Contents(q),
         NEW i \in 1 .. Len(s) + 1, NEW ptr, ptr = Place(q, s, i), NEW a, a = prev[ptr],
         Free(n), Grows(q),
         prev' = [prev EXCEPT ![n] = a, ![ptr] = n],
         next' = [next EXCEPT ![n] = ptr, ![a] = n]
  PROVE  QInv' /\ Held' = [Held EXCEPT ![q] = InsertAt(s, i, n)] /\ ~AsSequences!Queued(n)
<1>1. PICK k \in 0 .. Len(s) : i - 1 = k /\ i = k + 1
  <2>1. Len(s) \in Nat
    BY QueueFacts
  <2>2. i - 1 \in 0 .. Len(s) /\ i = (i - 1) + 1
    BY <2>1
  <2> QED  BY <2>2
<1>2. a = Place(q, s, i - 1)
  BY <1>1, QueueFacts
<1>3. QInv' /\ Held' = [Held EXCEPT ![q] = InsertAt(s, i, n)]
  BY <1>2, AddsAt
<1>4. ~AsSequences!Queued(n)
  BY FreePlaces
<1> QED  BY <1>3, <1>4

LEMMA insertBeforeStep ==
  ASSUME QInv, NEW q \in Queue, NEW n \in Node, NEW pivot \in Node, insertBefore(q, n, pivot)
  PROVE  QInv' /\ AsSequences!InsertBefore(q, n, pivot)
<1>1. PICK s : s = Contents(q)
  OBVIOUS
<1>2. Free(n) /\ Grows(q) /\ \E i \in 1 .. Len(s) : s[i] = pivot
  BY <1>1 DEF insertBefore, Contains
<1>3. PICK i \in 1 .. Len(s) : s[i] = pivot
  BY <1>2
<1>4. i \in 1 .. Len(s) + 1 /\ pivot = Place(q, s, i)
  BY <1>1, <1>3, QueueFacts
<1>5. PICK a : a = prev[pivot]
  OBVIOUS
<1>6. QInv' /\ Held' = [Held EXCEPT ![q] = InsertAt(s, i, n)] /\ ~AsSequences!Queued(n)
  <2>1. /\ prev' = [prev EXCEPT ![n] = a, ![pivot] = n]
        /\ next' = [next EXCEPT ![n] = pivot, ![a] = n]
    BY <1>5 DEF insertBefore
  <2> QED  BY <1>1, <1>2, <1>4, <1>5, <2>1, BeforePlace
<1>7. \E j \in 1 .. Len(Held[q]) :
        Held[q][j] = pivot /\ Held' = [Held EXCEPT ![q] = InsertAt(Held[q], j, n)]
  BY <1>1, <1>3, <1>6 DEF Held
<1> QED  BY <1>2, <1>6, <1>7
         DEF Grows, Held, AsSequences!InsertBefore, AsSequences!Becomes,
             InsertAt, AsSequences!InsertAt

(* The place the sorted insertion stops at is one of the queue's.             *)
LEMMA StopsAt ==
  ASSUME NEW s \in Seq(Node), NEW n \in Node
  PROVE  SelectInSeq(s, LAMBDA t : waiting_time[n] > waiting_time[t]) \in 0 .. Len(s)
<1> DEFINE I == {j \in 1 .. Len(s) : waiting_time[n] > waiting_time[s[j]]}
<1>1. Len(s) \in Nat /\ I \in SUBSET Nat
  OBVIOUS
<1>2. CASE I = {}
  BY <1>1, <1>2 DEF SelectInSeq
<1>3. CASE I # {}
  <2>1. Min(I) \in I
    <3> HIDE DEF I
    <3> QED  BY <1>1, <1>3, LeastNumber DEF Min
  <2>2. SelectInSeq(s, LAMBDA t : waiting_time[n] > waiting_time[t]) = Min(I)
    BY <1>3 DEF SelectInSeq
  <2> QED  BY <1>1, <2>1, <2>2
<1> QED  BY <1>2, <1>3

LEMMA add_to_run_queue_waiting_time_basedStep ==
  ASSUME QInv, NEW q \in Queue, NEW n \in Node, add_to_run_queue_waiting_time_based(q, n)
  PROVE  QInv' /\ AsSequences!InsertByTime(q, n)
<1>1. PICK s : s = Contents(q)
  OBVIOUS
<1>2. s \in Seq(Node) /\ Len(s) \in Nat
  BY <1>1, QueueFacts
<1>3. PICK less : less = SelectInSeq(s, LAMBDA t : waiting_time[n] > waiting_time[t])
  OBVIOUS
<1>4. less \in 0 .. Len(s)
  BY <1>2, <1>3, StopsAt
<1>5. PICK i \in 1 .. Len(s) + 1 : i = IF less = 0 THEN Len(s) + 1 ELSE less
  BY <1>2, <1>4
<1>6. PICK ptr : ptr = IF less = 0 THEN rear(q) ELSE s[less]
  OBVIOUS
<1>7. ptr = Place(q, s, i)
  <2>1. CASE less = 0
    BY <1>1, <1>5, <1>6, <2>1, QueueFacts
  <2>2. CASE less # 0
    <3>1. less \in 1 .. Len(s)
      BY <1>2, <1>4, <2>2
    <3> QED  BY <1>1, <1>5, <1>6, <2>2, <3>1, QueueFacts
  <2> QED  BY <2>1, <2>2
<1>8. PICK a : a = prev[ptr]
  OBVIOUS
<1>9. /\ Free(n) /\ Grows(q)
      /\ prev' = [prev EXCEPT ![n] = a, ![ptr] = n]
      /\ next' = [next EXCEPT ![n] = ptr, ![a] = n]
  BY <1>1, <1>3, <1>6, <1>8, Zenon DEF add_to_run_queue_waiting_time_based
<1>10. QInv' /\ Held' = [Held EXCEPT ![q] = InsertAt(s, i, n)] /\ ~AsSequences!Queued(n)
  BY <1>1, <1>7, <1>8, <1>9, BeforePlace
<1>11. AsSequences!SelectInSeq([p \in Queue |-> Contents(p)][q],
           LAMBDA t : waiting_time[n] > waiting_time[t]) = less
  BY <1>1, <1>3 DEF SelectInSeq, AsSequences!SelectInSeq, Min, AsSequences!Min
<1>12. answer' = NULL /\ waiting_time' = waiting_time
  BY <1>9 DEF Grows
<1>13. Held' = [Held EXCEPT ![q] =
           AsSequences!InsertAt(Held[q], IF less = 0 THEN Len(Held[q]) + 1 ELSE less, n)]
  BY <1>1, <1>5, <1>10 DEF Held, InsertAt, AsSequences!InsertAt
<1> QED  BY <1>10, <1>11, <1>12, <1>13 DEF AsSequences!InsertByTime, AsSequences!Becomes, Held

(* A node taken out, with the pointers of its neighbours read from it.        *)
LEMMA OutFrom ==
  ASSUME QInv, NEW q \in Queue, NEW s, s = Contents(q),
         NEW i \in 1 .. Len(s), NEW n, n = s[i], NEW a, a = prev[n], NEW b, b = next[n],
         next' = [next EXCEPT ![a] = b, ![n] = NULL],
         prev' = [prev EXCEPT ![b] = a, ![n] = NULL],
         size' = [size EXCEPT ![q] = @ - 1],
         answer' \in Node \cup {NULL}, waiting_time' = waiting_time
  PROVE  QInv' /\ Held' = [Held EXCEPT ![q] = RemoveAt(s, i)]
<1>1. PICK k \in 0 .. Len(s) : i - 1 = k /\ i = k + 1
  <2>1. Len(s) \in Nat
    BY QueueFacts
  <2>2. i - 1 \in 0 .. Len(s) /\ i = (i - 1) + 1
    BY <2>1
  <2> QED  BY <2>2
<1>2. n = Place(q, s, i) /\ i \in 0 .. Len(s)
  BY QueueFacts
<1>3. a = Place(q, s, i - 1) /\ b = Place(q, s, i + 1)
  BY <1>1, <1>2, QueueFacts
<1> QED  BY <1>3, RemovesAt

LEMMA removeNodeStep ==
  ASSUME QInv, NEW q \in Queue, NEW n \in Node, removeNode(q, n)
  PROVE  QInv' /\ AsSequences!RemoveNode(q, n)
<1>1. PICK s : s = Contents(q)
  OBVIOUS
<1>2. PICK i \in 1 .. Len(s) : s[i] = n
  BY <1>1 DEF removeNode, Contains
<1>3. PICK a : a = prev[n]
  OBVIOUS
<1>4. PICK b : b = next[n]
  OBVIOUS
<1>5. /\ next' = [next EXCEPT ![a] = b, ![n] = NULL]
      /\ prev' = [prev EXCEPT ![b] = a, ![n] = NULL]
      /\ size' = [size EXCEPT ![q] = @ - 1]
      /\ answer' = NULL /\ waiting_time' = waiting_time
  BY <1>3, <1>4 DEF removeNode
<1>6. QInv' /\ Held' = [Held EXCEPT ![q] = RemoveAt(s, i)]
  BY <1>1, <1>2, <1>3, <1>4, <1>5, OutFrom
<1>7. \E j \in 1 .. Len(Held[q]) :
        Held[q][j] = n /\ Held' = [Held EXCEPT ![q] = RemoveAt(Held[q], j)]
  BY <1>1, <1>2, <1>6 DEF Held
<1> QED  BY <1>5, <1>6, <1>7
         DEF Held, AsSequences!RemoveNode, AsSequences!Becomes, RemoveAt, AsSequences!RemoveAt

LEMMA removeFrontStep ==
  ASSUME QInv, NEW q \in Queue, removeFront(q)
  PROVE  QInv' /\ AsSequences!RemoveFront(q)
<1>1. PICK s : s = Contents(q)
  OBVIOUS
<1>2. s \in Seq(Node) /\ Len(s) \in Nat /\ Len(s) > 0
  BY <1>1, QueueFacts DEF removeFront
<1>3. PICK i \in 1 .. Len(s) : i = 1 /\ i \in 0 .. Len(s)
  BY <1>2
<1>4. PICK n \in Node : n = s[i]
  BY <1>2
<1>5. n = next[head(q)] /\ prev[n] = head(q)
  <2>1. 0 \in 0 .. Len(s) /\ 0 + 1 = i
    BY <1>2, <1>3
  <2> QED  BY <1>1, <1>4, <2>1, QueueFacts
<1>6. PICK a : a = prev[n]
  OBVIOUS
<1>7. PICK b : b = next[n]
  OBVIOUS
<1>8. /\ next' = [next EXCEPT ![a] = b, ![n] = NULL]
      /\ prev' = [prev EXCEPT ![b] = a, ![n] = NULL]
      /\ size' = [size EXCEPT ![q] = @ - 1]
      /\ answer' = n /\ waiting_time' = waiting_time
  BY <1>5, <1>6, <1>7 DEF removeFront
<1>9. QInv' /\ Held' = [Held EXCEPT ![q] = RemoveAt(s, i)]
  BY <1>1, <1>4, <1>6, <1>7, <1>8, OutFrom
<1>10. RemoveAt(s, i) = Tail(s) /\ n = Head(s) /\ s # << >>
  <2>1. PICK r : r = RemoveAt(s, i)
    OBVIOUS
  <2>2. PICK t : t = Tail(s)
    OBVIOUS
  <2>3. /\ r \in Seq(Node) /\ Len(r) = Len(s) - 1
        /\ \A j \in 1 .. Len(r) : r[j] = IF j < i THEN s[j] ELSE s[j + 1]
    BY <1>2, <2>1, Removed
  <2>4. /\ t \in Seq(Node) /\ Len(t) = Len(s) - 1
        /\ \A j \in 1 .. Len(t) : t[j] = s[j + 1]
    BY <1>2, <2>2
  <2>5. \A j \in 1 .. Len(t) : r[j] = t[j]
    BY <1>2, <1>3, <2>3, <2>4
  <2>6. r = t
    BY <2>3, <2>4, <2>5, SameSequence
  <2>7. n = Head(s) /\ s # << >>
    BY <1>2, <1>3, <1>4
  <2> QED  BY <2>1, <2>2, <2>6, <2>7
<1> QED  BY <1>1, <1>8, <1>9, <1>10 DEF Held, AsSequences!RemoveFront, AsSequences!Becomes

LEMMA removeBackStep ==
  ASSUME QInv, NEW q \in Queue, removeBack(q)
  PROVE  QInv' /\ AsSequences!RemoveBack(q)
<1>1. PICK s : s = Contents(q)
  OBVIOUS
<1>2. s \in Seq(Node) /\ Len(s) \in Nat /\ Len(s) > 0
  BY <1>1, QueueFacts DEF removeBack
<1>3. PICK i \in 1 .. Len(s) : i = Len(s) /\ i \in 0 .. Len(s)
  BY <1>2
<1>4. PICK n \in Node : n = s[i]
  BY <1>2
<1>5. n = prev[rear(q)] /\ next[n] = rear(q)
  <2>1. n = Place(q, s, i) /\ rear(q) = Place(q, s, i + 1)
    BY <1>1, <1>3, <1>4, QueueFacts
  <2> QED  BY <1>1, <1>3, <2>1, QueueFacts
<1>6. PICK a : a = prev[n]
  OBVIOUS
<1>7. PICK b : b = next[n]
  OBVIOUS
<1>8. /\ next' = [next EXCEPT ![a] = b, ![n] = NULL]
      /\ prev' = [prev EXCEPT ![b] = a, ![n] = NULL]
      /\ size' = [size EXCEPT ![q] = @ - 1]
      /\ answer' = n /\ waiting_time' = waiting_time
  BY <1>5, <1>6, <1>7 DEF removeBack
<1>9. QInv' /\ Held' = [Held EXCEPT ![q] = RemoveAt(s, i)]
  BY <1>1, <1>4, <1>6, <1>7, <1>8, OutFrom
<1>10. RemoveAt(s, i) = SubSeq(s, 1, Len(s) - 1) /\ s # << >>
  <2>1. PICK r : r = RemoveAt(s, i)
    OBVIOUS
  <2>2. PICK t : t = SubSeq(s, 1, i - 1)
    OBVIOUS
  <2>3. /\ r \in Seq(Node) /\ Len(r) = Len(s) - 1
        /\ \A j \in 1 .. Len(r) : r[j] = IF j < i THEN s[j] ELSE s[j + 1]
    BY <1>2, <2>1, Removed
  <2>4. /\ t \in Seq(Node) /\ Len(t) = Len(s) - 1
        /\ \A j \in 1 .. Len(t) : t[j] = s[j]
    BY <1>2, <1>3, <2>2
  <2>5. \A j \in 1 .. Len(t) : r[j] = t[j]
    BY <1>2, <1>3, <2>3, <2>4
  <2>6. r = t
    BY <2>3, <2>4, <2>5, SameSequence
  <2> QED  BY <1>2, <1>3, <2>1, <2>2, <2>6
<1> QED  BY <1>1, <1>3, <1>4, <1>8, <1>9, <1>10
         DEF Held, AsSequences!RemoveBack, AsSequences!Becomes, AsSequences!Front, AsSequences!Last

---------------------------------------------------------------------------
(* The theorems. *)

LEMMA InitHolds == ASSUME Init PROVE QInv /\ AsSequences!Init
<1>1. PICK c : c = [q \in Queue |-> << >>]
  OBVIOUS
<1>2. PICK garbage \in {NULL} \cup {rear(q) : q \in Queue} :
       /\ next = [x \in Cell |-> IF x \in Node THEN garbage
                                 ELSE IF x[1] = "head" THEN rear(x[2]) ELSE NULL]
       /\ prev = [x \in Cell |-> IF x \in Node THEN garbage
                                 ELSE IF x[1] = "rear" THEN head(x[2]) ELSE NULL]
  BY DEF Init, initQueue
<1>3. ASSUME NEW q \in Queue
      PROVE  /\ next[head(q)] = rear(q) /\ next[rear(q)] = NULL
             /\ prev[rear(q)] = head(q) /\ prev[head(q)] = NULL
  <2>1. /\ head(q)[1] = "head" /\ head(q)[2] = q /\ rear(q)[1] = "rear" /\ rear(q)[2] = q
        /\ "head" # "rear"
    BY DEF head, rear
  <2>2. head(q) \in Cell \ Node /\ rear(q) \in Cell \ Node
    BY Ends
  <2> QED  BY <1>2, <2>1, <2>2
<1>4. CellTypes
  <2>1. garbage \in Cell \cup {NULL}
    BY Ends
  <2>2. ASSUME NEW x \in Cell, x \notin Node PROVE \E q \in Queue : x = head(q) \/ x = rear(q)
    BY <2>2 DEF Cell
  <2>3. ASSUME NEW x \in Cell
        PROVE  next[x] \in Cell \cup {NULL} /\ prev[x] \in Cell \cup {NULL}
    <3>1. CASE x \in Node
      BY <1>2, <2>1, <3>1
    <3>2. CASE x \notin Node
      <4>1. PICK q \in Queue : x = head(q) \/ x = rear(q)
        BY <2>2, <3>2
      <4> QED  BY <1>3, <4>1, Ends
    <3> QED  BY <3>1, <3>2
  <2>4. next = [x \in Cell |-> next[x]] /\ prev = [x \in Cell |-> prev[x]]
    BY <1>2
  <2> QED  BY <2>3, <2>4 DEF CellTypes
<1>5. /\ size = [q \in Queue |-> 0] /\ waiting_time \in [Node -> 0 .. MaxTime]
      /\ answer = NULL
  BY DEF Init, initQueue
<1>6. OtherTypes
  BY <1>5 DEF OtherTypes
<1>7. ASSUME NEW q \in Queue PROVE Chained(q, c[q])
  <2>1. PICK s : s = << >>
    OBVIOUS
  <2>2. c[q] = s /\ s \in Seq(Node) /\ Len(s) = 0
    BY <1>1, <2>1
  <2>3. Place(q, s, 0) = head(q) /\ Place(q, s, 0 + 1) = rear(q)
    BY <2>2 DEF Place, OnWay
  <2>4. Chained(q, s)
    BY <1>3, <1>5, <2>2, <2>3 DEF Chained
  <2> QED  BY <2>2, <2>4
<1>8. c \in [Queue -> Seq(Node)] /\ OnceIn(c)
  BY <1>1 DEF OnceIn
<1>9. Holds(c)
  BY <1>4, <1>6, <1>7, <1>8 DEF Holds
<1>10. \A q \in Queue : Contents(q) = c[q]
  BY <1>9, ContentsAre
<1>11. [q \in Queue |-> Contents(q)] = c
  BY <1>1, <1>10
<1>12. waiting_time \in [Node -> Nat]
  <2>1. 0 .. MaxTime \subseteq Nat
    BY RunQueueAssumption
  <2> QED  BY <1>5, <2>1
<1> QED  BY <1>1, <1>5, <1>9, <1>11, <1>12 DEF QInv, AsSequences!Init

LEMMA StepKeeps ==
  ASSUME QInv, [Next]_vars
  PROVE  /\ QInv'
         /\ \/ AsSequences!Next
            \/ UNCHANGED <<[q \in Queue |-> Contents(q)], waiting_time, answer>>
<1>1. CASE UNCHANGED vars
  <2>1. PICK c : c = Held
    OBVIOUS
  <2>2. Holds(c)
    BY <2>1 DEF QInv, Held
  <2>3. Holds(c)'
    BY <1>1, <2>2 DEF vars, Holds, CellTypes, OtherTypes, Chained, OnceIn
  <2>4. QInv' /\ Held' = Held
    BY <2>1, <2>3, Settled
  <2> QED  BY <1>1, <2>4 DEF vars, Held
<1>2. CASE Next
  <2>1. PICK q \in Queue :
          \/ isEmpty(q) \/ removeFront(q) \/ removeBack(q)
          \/ \E n \in Node :
               \/ addFront(q, n) \/ addBack(q, n) \/ removeNode(q, n)
               \/ add_to_run_queue_waiting_time_based(q, n)
               \/ \E pivot \in Node : insertBefore(q, n, pivot)
    BY <1>2 DEF Next
  <2> SUFFICES QInv' /\ AsSequences!Next
    OBVIOUS
  <2>2. CASE isEmpty(q)
    <3>1. QInv' /\ AsSequences!IsEmpty(q)
      BY <2>2, isEmptyStep
    <3> QED  BY <3>1 DEF AsSequences!Next
  <2>3. CASE removeFront(q)
    <3>1. QInv' /\ AsSequences!RemoveFront(q)
      BY <2>3, removeFrontStep
    <3> QED  BY <3>1 DEF AsSequences!Next
  <2>4. CASE removeBack(q)
    <3>1. QInv' /\ AsSequences!RemoveBack(q)
      BY <2>4, removeBackStep
    <3> QED  BY <3>1 DEF AsSequences!Next
  <2>5. ASSUME NEW n \in Node, addFront(q, n) PROVE QInv' /\ AsSequences!Next
    <3>1. QInv' /\ AsSequences!AddFront(q, n)
      BY <2>5, addFrontStep
    <3> QED  BY <3>1 DEF AsSequences!Next
  <2>6. ASSUME NEW n \in Node, addBack(q, n) PROVE QInv' /\ AsSequences!Next
    <3>1. QInv' /\ AsSequences!AddBack(q, n)
      BY <2>6, addBackStep
    <3> QED  BY <3>1 DEF AsSequences!Next
  <2>7. ASSUME NEW n \in Node, removeNode(q, n) PROVE QInv' /\ AsSequences!Next
    <3>1. QInv' /\ AsSequences!RemoveNode(q, n)
      BY <2>7, removeNodeStep
    <3> QED  BY <3>1 DEF AsSequences!Next
  <2>8. ASSUME NEW n \in Node, add_to_run_queue_waiting_time_based(q, n)
        PROVE  QInv' /\ AsSequences!Next
    <3>1. QInv' /\ AsSequences!InsertByTime(q, n)
      BY <2>8, add_to_run_queue_waiting_time_basedStep
    <3> QED  BY <3>1 DEF AsSequences!Next
  <2>9. ASSUME NEW n \in Node, NEW pivot \in Node, insertBefore(q, n, pivot)
        PROVE  QInv' /\ AsSequences!Next
    <3>1. QInv' /\ AsSequences!InsertBefore(q, n, pivot)
      BY <2>9, insertBeforeStep
    <3> QED  BY <3>1 DEF AsSequences!Next
  <2> QED  BY <2>1, <2>2, <2>3, <2>4, <2>5, <2>6, <2>7, <2>8, <2>9
<1> QED  BY <1>1, <1>2

(* The pointers of every queue hold a sequence of nodes: the next pointers    *)
(* lead from its head over the nodes to its rear, the prev pointers back, the *)
(* counter is the number of nodes, and no node is in two places.              *)
THEOREM QueueInvariant == Spec => []QInv
<1>1. Init => QInv
  BY InitHolds
<1>2. QInv /\ [Next]_vars => QInv'
  BY StepKeeps
<1> QED  BY <1>1, <1>2, PTL DEF Spec

(* A pointer is a cell or NULL, and a queue counts no more nodes than exist.  *)
THEOREM QueueTypesCorrect == Spec => []TypeOK
<1>1. ASSUME QInv PROVE TypeOK
  <2>1. ASSUME NEW q \in Queue PROVE size[q] \in 0 .. Cardinality(Node)
    <3>1. PICK s : s = Held[q]
      OBVIOUS
    <3>2. Holds(Held)
      BY <1>1 DEF QInv, Held
    <3>3. Len(s) <= Cardinality(Node) /\ s = Contents(q)
      BY <3>1, <3>2, ContentsAre DEF Held
    <3>4. size[q] = Len(s) /\ Len(s) \in Nat
      BY <1>1, <3>3, QueueFacts
    <3> QED  BY <3>3, <3>4, NodesCount
  <2>2. OtherTypes /\ CellTypes
    BY <1>1 DEF QInv, Holds
  <2> QED  BY <2>1, <2>2 DEF OtherTypes, CellTypes, TypeOK
<1>2. QInv => TypeOK
  BY <1>1
<1> QED  BY <1>2, QueueInvariant, PTL

(* From either end the pointers lead over the same nodes to the other end,    *)
(* however often a node went from one queue to another.                       *)
THEOREM LinksAlwaysAgree == Spec => []LinksAgree
<1>1. ASSUME QInv PROVE LinksAgree
  <2>1. PICK c : c = Held
    OBVIOUS
  <2>2. Holds(c) /\ \A q \in Queue : c[q] = Contents(q)
    BY <1>1, <2>1 DEF QInv, Held
  <2>3. ASSUME NEW q \in Queue
        PROVE  /\ Walk(prev, rear(q)) = Reverse(Contents(q))
               /\ Follow(next, head(q))[Len(Contents(q)) + 1] = rear(q)
               /\ Follow(prev, rear(q))[Len(Contents(q)) + 1] = head(q)
    <3>1. /\ Walk(prev, rear(q)) = Reverse(c[q])
          /\ Follow(next, head(q))[Len(c[q]) + 1] = rear(q)
          /\ Follow(prev, rear(q))[Len(c[q]) + 1] = head(q)
      BY <2>2, ContentsAre
    <3>2. c[q] = Contents(q)
      BY <2>2
    <3> QED  BY <3>1, <3>2
  <2> QED  BY <2>3 DEF LinksAgree
<1>2. QInv => LinksAgree
  BY <1>1
<1> QED  BY <1>2, QueueInvariant, PTL

(* The queue with its pointers implements the sequences that Mlfq, Schedulers *)
(* and Mutex take the run queues for.                                         *)
THEOREM RunQueueImplementsQueues == Spec => ImplementsQueues
<1>1. Init => AsSequences!Init
  BY InitHolds
<1>2. QInv /\ [Next]_vars
        => [AsSequences!Next]_<<[q \in Queue |-> Contents(q)], waiting_time, answer>>
  BY StepKeeps
<1> QED  BY <1>1, <1>2, QueueInvariant, PTL DEF Spec, ImplementsQueues, AsSequences!Spec
=============================================================================
