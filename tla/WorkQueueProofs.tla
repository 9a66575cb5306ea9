---------------------------- MODULE WorkQueueProofs ----------------------------
(***************************************************************************)
(* The safety of the work queue, for any number of threads and items, any  *)
(* ring size and any width of the positions: cells are exclusive, the end  *)
(* of the overflow list is never lost, and every unfinished item is in     *)
(* exactly one place.                                                      *)
(***************************************************************************)
EXTENDS WorkQueue, WrapAround, FiniteSetTheorems, SequenceTheorems

--------------------------------------------------------------------------------
(***************************************************************************)
(* Positions.  The ring stands for positions that grow without a limit;    *)
(* two of them less than a ring apart have different cells, two less than  *)
(* the modulus apart differ when wrapped.                                  *)
(***************************************************************************)
LEMMA Sizes ==
  /\ RingSize \in Nat \ {0} /\ Modulus \in Nat \ {0} /\ Modulus % RingSize = 0
  /\ RingSize \in Int /\ Modulus \in Int /\ RingSize >= 2 /\ Modulus >= 4 * RingSize
  /\ MaxStall \in Int /\ RingSize < MaxStall /\ MaxStall < Modulus /\ 2 * MaxStall <= Modulus
  BY SizesAssumption

LEMMA WrapFacts ==
  /\ \A a \in Int : Wrap(a) \in 0 .. Modulus - 1 /\ Wrap(a) \in Int
  /\ \A a \in 0 .. Modulus - 1 : Wrap(a) = a
  /\ \A a, b \in Int : Wrap(Wrap(a) + b) = Wrap(a + b)
  /\ \A a, b \in Int : Wrap(Wrap(a) - Wrap(b)) = Wrap(a - b)
  /\ \A a, b \in Int : a # b /\ a - b < Modulus /\ b - a < Modulus => Wrap(a) # Wrap(b)
<1>1. \A a \in Int : Wrap(a) \in 0 .. Modulus - 1 /\ Wrap(a) \in Int
  BY Sizes, ModType, Zenon DEF Wrap
<1>2. \A a \in 0 .. Modulus - 1 : Wrap(a) = a
  BY Sizes, ModSmall, Zenon DEF Wrap
<1>3. \A a, b \in Int : Wrap(Wrap(a) + b) = Wrap(a + b)
  BY Sizes, ModAdd, Zenon DEF Wrap
<1>4. \A a, b \in Int : Wrap(Wrap(a) - Wrap(b)) = Wrap(a - b)
  BY Sizes, ModSub, Zenon DEF Wrap
<1>5. ASSUME NEW a \in Int, NEW b \in Int, a # b, a - b < Modulus, b - a < Modulus
      PROVE  Wrap(a) # Wrap(b)
  <2>1. -Modulus < a - b
    BY <1>5, Sizes
  <2> QED BY <1>5, <2>1, Sizes, ModDistinct, Zenon DEF Wrap
<1> QED BY <1>1, <1>2, <1>3, <1>4, <1>5

LEMMA WrapZero == Wrap(0) = 0
<1>1. 0 \in 0 .. Modulus - 1
  BY Sizes
<1> QED BY <1>1, WrapFacts, Zenon

LEMMA SlotFacts ==
  /\ \A a \in Int : Slot(a) \in 0 .. RingSize - 1
  /\ \A s \in 0 .. RingSize - 1 : Slot(s) = s
  /\ \A a, b \in Int : a # b /\ a - b < RingSize /\ b - a < RingSize => Slot(a) # Slot(b)
  /\ \A a \in Int : Slot(a + RingSize) = Slot(a)
  /\ \A a \in Int : Slot(Wrap(a)) = Slot(a)
  /\ \A a \in Int : Slot(Wrap(a) - 1) = Slot(a - 1)
<1>1. \A a \in Int : Slot(a) \in 0 .. RingSize - 1
  BY Sizes, ModType, Zenon DEF Slot
<1>2. \A s \in 0 .. RingSize - 1 : Slot(s) = s
  BY Sizes, ModSmall, Zenon DEF Slot
<1>3. ASSUME NEW a \in Int, NEW b \in Int, a # b, a - b < RingSize, b - a < RingSize
      PROVE  Slot(a) # Slot(b)
  <2>1. -RingSize < a - b
    BY <1>3, Sizes
  <2> QED BY <1>3, <2>1, Sizes, ModDistinct, Zenon DEF Slot
<1>4. ASSUME NEW a \in Int PROVE Slot(a + RingSize) = Slot(a)
  <2>1. a + RingSize = a + RingSize * 1 /\ 1 \in Int
    BY Sizes
  <2>2. (a + RingSize * 1) % RingSize = a % RingSize
    BY <2>1, Sizes, ModShift, Zenon
  <2> QED BY <2>1, <2>2, Zenon DEF Slot
<1>5. \A a \in Int : Slot(Wrap(a)) = Slot(a)
  BY Sizes, ModMod, Zenon DEF Slot, Wrap
<1>6. ASSUME NEW a \in Int PROVE Slot(Wrap(a) - 1) = Slot(a - 1)
  <2>0. Wrap(a) \in Int
    BY WrapFacts, Zenon
  <2>1. /\ Wrap(a) \in Int /\ -1 \in Int /\ Wrap(a) - 1 \in Int /\ a - 1 \in Int
        /\ Wrap(a) - 1 = Wrap(a) + (-1) /\ a - 1 = a + (-1)
    BY <2>0
  <2>2. Wrap(Wrap(a) - 1) = Wrap(a - 1)
    BY <2>1, WrapFacts, Zenon
  <2>3. /\ Slot(Wrap(Wrap(a) - 1)) = Slot(Wrap(a) - 1)
        /\ Slot(Wrap(a - 1)) = Slot(a - 1)
    BY <1>5, <2>1, Zenon
  <2> QED BY <2>2, <2>3, Zenon
<1> QED BY <1>1, <1>2, <1>3, <1>4, <1>5, <1>6

(* Any RingSize positions in a row use every cell. *)
LEMMA SlotCover ==
  ASSUME NEW d \in Int, NEW s \in 0 .. RingSize - 1
  PROVE  \E k \in d .. d + RingSize - 1 : Slot(k) = s
<1> DEFINE r == (s - d) % RingSize
<1>1. s - d \in Int /\ s \in Int
  BY Sizes
<1>2. r \in 0 .. RingSize - 1 /\ r \in Int
  BY <1>1, Sizes, ModType, Zenon
<1>3. (r + d) % RingSize = ((s - d) + d) % RingSize
  BY <1>1, Sizes, ModAdd, Zenon
<1>4. (s - d) + d = s /\ r + d = d + r
  BY <1>1, <1>2
<1>5. Slot(d + r) = Slot(s)
  BY <1>3, <1>4, Zenon DEF Slot
<1>6. d + r \in d .. d + RingSize - 1
  BY <1>2, Sizes
<1>7. Slot(s) = s
  BY SlotFacts
<1> QED BY <1>5, <1>6, <1>7

(* Wrapped positions whose signed difference is 0 are equal. *)
LEMMA DiffZero ==
  ASSUME NEW a \in 0 .. Modulus - 1, NEW b \in 0 .. Modulus - 1, Diff(a, b) = 0
  PROVE  a = b
<1>1. a \in Int /\ b \in Int /\ a - b \in Int /\ b - a \in Int
  BY Sizes
<1>2. Wrap(a - b) \in 0 .. Modulus - 1
  BY <1>1, WrapFacts
<1>3. Wrap(a - b) = 0
  <2>1. Diff(a, b) = IF 2 * Wrap(a - b) >= Modulus THEN Wrap(a - b) - Modulus ELSE Wrap(a - b)
    BY DEF Diff, Wrap
  <2> QED BY <1>2, <2>1, Sizes
<1>4. Wrap(0) = 0
  BY Sizes, WrapFacts
<1>5. a - b # 0 => Wrap(a - b) # Wrap(0)
  <2>1. (a - b) - 0 < Modulus /\ 0 - (a - b) < Modulus
    BY Sizes
  <2> QED BY <1>1, <2>1, WrapFacts
<1> QED BY <1>1, <1>3, <1>4, <1>5

--------------------------------------------------------------------------------
(***************************************************************************)
(* The overflow list.  A node that is allocated has a node before it, what *)
(* a pointer points to is allocated, and the pointers make no circle.      *)
(***************************************************************************)
Chained(f) ==
  /\ f \in [Nodes -> Items \union {Null, Freed}]
  /\ f[ListHead] # Freed
  /\ \A i \in Items : f[i] # Freed => \E n \in Nodes : f[n] = i
  /\ \A n \in Nodes : f[n] \in Items => f[f[n]] # Freed
  /\ \E rank \in [Nodes -> Nat] : \A n \in Nodes : f[n] \in Items => rank[n] < rank[f[n]]

LEMMA NodeFacts ==
  /\ ListHead \in Nodes /\ Items \subseteq Nodes /\ Null \notin Items /\ Freed \notin Items
  /\ ListHead \notin Items /\ Null # Freed /\ ListHead # Null /\ ListHead # Freed
  /\ \A n \in Nodes : n \in Items \/ n = ListHead
  BY PointersAssumption DEF Nodes

(* overflowPush appends a node that is not in the list. *)
LEMMA LinkChain ==
  ASSUME NEW f, Chained(f), NEW last \in Nodes, f[last] = Null,
         NEW i \in Items, \A n \in Nodes : f[n] # i
  PROVE  /\ f[i] = Freed /\ last # i
         /\ Chained([f EXCEPT ![last] = i, ![i] = Null])
<1> DEFINE g == [f EXCEPT ![last] = i, ![i] = Null]
<1>1. f[i] = Freed /\ last # i
  BY NodeFacts DEF Chained
<1>2. /\ g \in [Nodes -> Items \union {Null, Freed}] /\ g[last] = i /\ g[i] = Null
      /\ \A n \in Nodes : n # last /\ n # i => g[n] = f[n]
  BY <1>1, NodeFacts DEF Chained
<1> HIDE DEF g
<1>3. g[ListHead] # Freed
  BY <1>2, NodeFacts DEF Chained
<1>4. ASSUME NEW j \in Items, g[j] # Freed PROVE \E n \in Nodes : g[n] = j
  <2>1. CASE j = i
    BY <2>1, <1>2
  <2>2. CASE j # i
    <3>1. f[j] # Freed
      BY <2>2, <1>2, <1>4, NodeFacts
    <3>2. PICK n \in Nodes : f[n] = j
      BY <3>1 DEF Chained
    <3>3. n # last /\ n # i
      BY <3>2, <1>1, NodeFacts
    <3> QED BY <3>2, <3>3, <1>2
  <2> QED BY <2>1, <2>2
<1>5. ASSUME NEW n \in Nodes, g[n] \in Items PROVE g[g[n]] # Freed
  <2>1. CASE n = last
    BY <2>1, <1>2, NodeFacts
  <2>2. CASE n # last
    <3>1. n # i /\ g[n] = f[n] /\ f[n] # i
      BY <2>2, <1>2, <1>5, NodeFacts
    <3>2. f[f[n]] # Freed
      BY <3>1, <1>5 DEF Chained
    <3> QED BY <3>1, <3>2, <1>2, <1>5, NodeFacts
  <2> QED BY <2>1, <2>2
<1>6. \E rank \in [Nodes -> Nat] : \A n \in Nodes : g[n] \in Items => rank[n] < rank[g[n]]
  <2>1. PICK rank \in [Nodes -> Nat] : \A n \in Nodes : f[n] \in Items => rank[n] < rank[f[n]]
    BY DEF Chained
  <2> DEFINE new == [rank EXCEPT ![i] = rank[last] + 1]
  <2>2. /\ new \in [Nodes -> Nat] /\ new[i] = rank[last] + 1
        /\ \A n \in Nodes : n # i => new[n] = rank[n]
    BY <2>1, NodeFacts
  <2> HIDE DEF new
  <2>3. ASSUME NEW n \in Nodes, g[n] \in Items PROVE new[n] < new[g[n]]
    <3>1. CASE n = last
      BY <3>1, <1>1, <1>2, <2>1, <2>2
    <3>2. CASE n # last
      <4>1. n # i /\ g[n] = f[n] /\ f[n] # i
        BY <3>2, <1>2, <2>3, NodeFacts
      <4> QED BY <4>1, <2>1, <2>2, <2>3, NodeFacts
    <3> QED BY <3>1, <3>2
  <2> QED BY <2>2, <2>3
<1> QED BY <1>1, <1>2, <1>3, <1>4, <1>5, <1>6 DEF Chained, g

(* A walk takes out the node after its own. *)
LEMMA UnlinkChain ==
  ASSUME NEW f, Chained(f), NEW a \in Nodes, NEW q \in Items, f[a] = q,
         \A m, n \in Nodes : f[m] = f[n] /\ f[m] \in Items => m = n
  PROVE  /\ a # q /\ f[q] # Freed /\ f[q] # q
         /\ Chained([f EXCEPT ![a] = f[q], ![q] = Freed])
<1> DEFINE g == [f EXCEPT ![a] = f[q], ![q] = Freed]
<1>0. q \in Nodes /\ f[q] # Freed
  BY NodeFacts DEF Chained
<1>1. PICK rank \in [Nodes -> Nat] : \A n \in Nodes : f[n] \in Items => rank[n] < rank[f[n]]
  BY DEF Chained
<1>2. a # q /\ f[q] # q /\ f[q] # a
  <2>1. rank[a] < rank[q] /\ rank[a] \in Nat /\ rank[q] \in Nat
    BY <1>0, <1>1
  <2>2. f[q] \in Items => rank[q] < rank[f[q]]
    BY <1>0, <1>1
  <2>3. f[q] \in Items \union {Null, Freed}
    BY <1>0 DEF Chained
  <2>4. f[q] = a => a \in Items
    BY <2>3, NodeFacts
  <2> QED BY <2>1, <2>2, <2>4
<1>3. /\ g \in [Nodes -> Items \union {Null, Freed}] /\ g[a] = f[q] /\ g[q] = Freed
      /\ \A n \in Nodes : n # a /\ n # q => g[n] = f[n]
  BY <1>0, <1>2, NodeFacts DEF Chained
<1> HIDE DEF g
<1>4. g[ListHead] # Freed
  BY <1>0, <1>3, NodeFacts DEF Chained
<1>5. ASSUME NEW j \in Items, g[j] # Freed PROVE \E n \in Nodes : g[n] = j
  <2>1. j # q /\ f[j] # Freed
    BY <1>0, <1>3, <1>5, NodeFacts
  <2>2. PICK n \in Nodes : f[n] = j
    BY <2>1 DEF Chained
  <2>3. n # a
    BY <2>1, <2>2
  <2>4. CASE n = q
    BY <2>2, <2>4, <1>3
  <2>5. CASE n # q
    BY <2>2, <2>3, <2>5, <1>3
  <2> QED BY <2>4, <2>5
<1>6. ASSUME NEW n \in Nodes, g[n] \in Items PROVE g[g[n]] # Freed
  <2>1. n # q
    BY <1>3, <1>6, NodeFacts
  <2>2. CASE n = a
    <3>1. f[q] \in Items /\ f[f[q]] # Freed /\ g[n] = f[q]
      BY <2>2, <1>0, <1>3, <1>6 DEF Chained
    <3> QED BY <3>1, <1>2, <1>3, NodeFacts
  <2>3. CASE n # a
    <3>1. g[n] = f[n] /\ f[n] # q /\ f[f[n]] # Freed
      BY <2>1, <2>3, <1>3, <1>6 DEF Chained
    <3> QED BY <3>1, <1>0, <1>3, <1>6, NodeFacts
  <2> QED BY <2>2, <2>3
<1>7. ASSUME NEW n \in Nodes, g[n] \in Items PROVE rank[n] < rank[g[n]]
  <2>1. n # q
    BY <1>3, <1>7, NodeFacts
  <2>2. CASE n = a
    <3>1. rank[a] < rank[q] /\ rank[q] < rank[f[q]] /\ g[n] = f[q]
      BY <2>2, <1>0, <1>1, <1>3, <1>7
    <3>2. rank[a] \in Nat /\ rank[q] \in Nat /\ rank[f[q]] \in Nat
      BY <2>2, <3>1, <1>0, <1>1, <1>7, NodeFacts
    <3> QED BY <2>2, <3>1, <3>2
  <2>3. CASE n # a
    BY <2>1, <2>3, <1>1, <1>3, <1>7
  <2> QED BY <2>2, <2>3
<1> QED BY <1>0, <1>1, <1>2, <1>3, <1>4, <1>5, <1>6, <1>7 DEF Chained, g

--------------------------------------------------------------------------------
(***************************************************************************)
(* Who has which item.  A spot is a cell, a thread, the server's hand or a *)
(* node; f says what is in each.  No item is in two spots, and the items   *)
(* that are in one are those in U.                                         *)
(***************************************************************************)
Cell(s)    == <<"cell", s>>
Thread(t)  == <<"thread", t>>
InHand     == <<"hand", 0>>
Node(n)    == <<"node", n>>

Spots == {Cell(s) : s \in 0 .. RingSize - 1} \union {Thread(t) : t \in Threads}
           \union {InHand} \union {Node(n) : n \in Nodes}

Placed(f, U) ==
  /\ \A x, y \in Spots : f[x] = f[y] /\ f[x] \in Items => x = y
  /\ \A i \in Items : i \in U <=> \E x \in Spots : f[x] = i

Same(f, g, x) == g[x] = f[x] \/ (f[x] \notin Items /\ g[x] \notin Items)

LEMMA PlacedStays ==
  ASSUME NEW f, NEW g, NEW U, Placed(f, U), \A x \in Spots : Same(f, g, x)
  PROVE  Placed(g, U)
<1>1. ASSUME NEW x \in Spots, NEW i \in Items PROVE f[x] = i <=> g[x] = i
  BY DEF Same
<1> QED BY <1>1 DEF Placed

LEMMA PlacedMoves ==
  ASSUME NEW f, NEW g, NEW U, Placed(f, U), NEW a \in Spots, NEW b \in Spots, NEW i \in Items,
         f[a] = i, f[b] \notin Items, g[a] \notin Items, g[b] = i,
         \A x \in Spots \ {a, b} : Same(f, g, x)
  PROVE  Placed(g, U)
<1>1. ASSUME NEW x \in Spots, NEW j \in Items
      PROVE  /\ g[x] = j <=> (f[x] = j /\ x # a) \/ (x = b /\ j = i)
  BY DEF Same
<1>2. ASSUME NEW x \in Spots, NEW y \in Spots, g[x] = g[y], g[x] \in Items PROVE x = y
  BY <1>1, <1>2 DEF Placed
<1>3. ASSUME NEW j \in Items PROVE j \in U <=> \E x \in Spots : g[x] = j
  BY <1>1 DEF Placed
<1> QED BY <1>2, <1>3 DEF Placed

LEMMA PlacedDrops ==
  ASSUME NEW f, NEW g, NEW U, Placed(f, U), NEW a \in Spots, NEW i \in Items,
         f[a] = i, g[a] \notin Items, \A x \in Spots \ {a} : Same(f, g, x)
  PROVE  Placed(g, U \ {i})
<1>1. ASSUME NEW x \in Spots, NEW j \in Items
      PROVE  g[x] = j <=> f[x] = j /\ x # a
  BY DEF Same
<1>2. ASSUME NEW x \in Spots, NEW y \in Spots, g[x] = g[y], g[x] \in Items PROVE x = y
  BY <1>1, <1>2 DEF Placed
<1>3. ASSUME NEW j \in Items PROVE j \in U \ {i} <=> \E x \in Spots : g[x] = j
  BY <1>1 DEF Placed
<1> QED BY <1>2, <1>3 DEF Placed

LEMMA PlacedAdds ==
  ASSUME NEW f, NEW g, NEW U, Placed(f, U), NEW b \in Spots, NEW i \in Items,
         i \notin U, f[b] \notin Items, g[b] = i, \A x \in Spots \ {b} : Same(f, g, x)
  PROVE  Placed(g, U \union {i})
<1>1. ASSUME NEW x \in Spots, NEW j \in Items
      PROVE  g[x] = j <=> f[x] = j \/ (x = b /\ j = i)
  BY DEF Same
<1>2. ASSUME NEW x \in Spots, NEW y \in Spots, g[x] = g[y], g[x] \in Items PROVE x = y
  BY <1>1, <1>2 DEF Placed
<1>3. ASSUME NEW j \in Items PROVE j \in U \union {i} <=> \E x \in Spots : g[x] = j
  BY <1>1 DEF Placed
<1> QED BY <1>2, <1>3 DEF Placed

(* The item in a leaves, and a takes over what is in b. *)
LEMMA PlacedUnlinks ==
  ASSUME NEW f, NEW g, NEW U, Placed(f, U), NEW a \in Spots, NEW b \in Spots, NEW i \in Items,
         f[a] = i, a # b, g[a] = f[b], g[b] \notin Items,
         \A x \in Spots \ {a, b} : Same(f, g, x)
  PROVE  Placed(g, U \ {i})
<1>1. ASSUME NEW x \in Spots, NEW j \in Items
      PROVE  g[x] = j <=> (f[x] = j /\ x # a /\ x # b) \/ (x = a /\ f[b] = j)
  BY DEF Same
<1>2. ASSUME NEW x \in Spots, NEW y \in Spots, g[x] = g[y], g[x] \in Items PROVE x = y
  BY <1>1, <1>2 DEF Placed
<1>3. ASSUME NEW j \in Items PROVE j \in U \ {i} <=> \E x \in Spots : g[x] = j
  BY <1>1 DEF Placed
<1> QED BY <1>2, <1>3 DEF Placed

--------------------------------------------------------------------------------
(***************************************************************************)
(* The history of unfinished items: each producer's list has no item twice. *)
(***************************************************************************)
Listed(s, i) == \E n \in 1 .. Len(s) : s[n] = i
Distinct(s)  == \A m, n \in 1 .. Len(s) : s[m] = s[n] => m = n
Orders(o)    == o \in [Producers -> Seq(Items)] /\ \A t \in Producers : Distinct(o[t])

LEMMA WithoutItem ==
  ASSUME NEW s \in Seq(Items), Distinct(s), NEW i
  PROVE  /\ Without(s, i) \in Seq(Items) /\ Distinct(Without(s, i))
         /\ \A j : Listed(Without(s, i), j) <=> Listed(s, j) /\ j # i
<1>0. Len(s) \in Nat /\ \A n \in 1 .. Len(s) : s[n] \in Items
  OBVIOUS
<1>1. CASE \A k \in 1 .. Len(s) : s[k] # i
  <2>1. Without(s, i) = s
    BY <1>1, Zenon DEF Without
  <2> QED BY <2>1, <1>1 DEF Listed
<1>2. CASE ~ \A k \in 1 .. Len(s) : s[k] # i
  <2> DEFINE k == CHOOSE k \in 1 .. Len(s) : s[k] = i
             w == [j \in 1 .. Len(s) - 1 |-> IF j < k THEN s[j] ELSE s[j + 1]]
  <2>1. k \in 1 .. Len(s) /\ s[k] = i
    BY <1>2, Zenon
  <2>2. Without(s, i) = w
    BY <1>2, Zenon DEF Without
  <2> HIDE DEF k
  <2>3. /\ Len(s) - 1 \in Nat
        /\ \A j \in 1 .. Len(s) - 1 : w[j] = IF j < k THEN s[j] ELSE s[j + 1]
        /\ \A j \in 1 .. Len(s) - 1 : w[j] \in Items
    BY <1>0, <2>1
  <2>4. w \in Seq(Items) /\ Len(w) = Len(s) - 1
    BY <2>3
  <2> HIDE DEF w
  <2>5. Distinct(w)
    <3> SUFFICES ASSUME NEW m \in 1 .. Len(s) - 1, NEW n \in 1 .. Len(s) - 1, w[m] = w[n]
                 PROVE  m = n
      BY <2>4 DEF Distinct
    <3> DEFINE up(j) == IF j < k THEN j ELSE j + 1
    <3>1. /\ up(m) \in 1 .. Len(s) /\ w[m] = s[up(m)]
          /\ up(n) \in 1 .. Len(s) /\ w[n] = s[up(n)]
      BY <1>0, <2>1, <2>3
    <3>2. up(m) = up(n)
      BY <3>1 DEF Distinct
    <3> QED BY <3>2, <2>1, <1>0
  <2>6. ASSUME NEW j PROVE Listed(w, j) <=> Listed(s, j) /\ j # i
    <3>1. ASSUME NEW n \in 1 .. Len(w), w[n] = j PROVE Listed(s, j) /\ j # i
      <4>1. CASE n < k
        <5>1. s[n] = j /\ n \in 1 .. Len(s) /\ n # k
          BY <4>1, <3>1, <2>1, <2>3, <2>4, <1>0
        <5> QED BY <5>1, <2>1 DEF Listed, Distinct
      <4>2. CASE ~(n < k)
        <5>1. s[n + 1] = j /\ n + 1 \in 1 .. Len(s) /\ n + 1 # k
          BY <4>2, <3>1, <2>1, <2>3, <2>4, <1>0
        <5> QED BY <5>1, <2>1 DEF Listed, Distinct
      <4> QED BY <4>1, <4>2
    <3>2. ASSUME NEW n \in 1 .. Len(s), s[n] = j, j # i PROVE Listed(w, j)
      <4>0. n # k
        BY <3>2, <2>1
      <4>1. CASE n < k
        <5>1. w[n] = j /\ n \in 1 .. Len(w)
          BY <4>1, <3>2, <2>1, <2>3, <2>4, <1>0
        <5> QED BY <5>1 DEF Listed
      <4>2. CASE ~(n < k)
        <5>1. w[n - 1] = j /\ n - 1 \in 1 .. Len(w)
          BY <4>0, <4>2, <3>2, <2>1, <2>3, <2>4, <1>0
        <5> QED BY <5>1 DEF Listed
      <4> QED BY <4>1, <4>2
    <3> QED BY <3>1, <3>2 DEF Listed
  <2> QED BY <2>2, <2>4, <2>5, <2>6
<1> QED BY <1>1, <1>2

LEMMA AppendItem ==
  ASSUME NEW s \in Seq(Items), Distinct(s), NEW i \in Items, ~Listed(s, i)
  PROVE  /\ Append(s, i) \in Seq(Items) /\ Distinct(Append(s, i))
         /\ \A j : Listed(Append(s, i), j) <=> Listed(s, j) \/ j = i
<1> DEFINE w == Append(s, i)
<1>1. /\ Len(s) \in Nat /\ Len(w) = Len(s) + 1 /\ w \in Seq(Items)
      /\ w[Len(s) + 1] = i /\ \A n \in 1 .. Len(s) : w[n] = s[n]
  BY AppendProperties, LenProperties
<1> HIDE DEF w
<1>2. \A n \in 1 .. Len(w) : n \in 1 .. Len(s) \/ n = Len(s) + 1
  BY <1>1
<1>3. \A n \in 1 .. Len(s) : n \in 1 .. Len(w) /\ s[n] # i
  BY <1>1 DEF Listed
<1>4. Distinct(w)
  <2> SUFFICES ASSUME NEW m \in 1 .. Len(w), NEW n \in 1 .. Len(w), w[m] = w[n] PROVE m = n
    BY DEF Distinct
  <2> QED BY <1>1, <1>2, <1>3 DEF Distinct
<1>5. ASSUME NEW j PROVE Listed(w, j) <=> Listed(s, j) \/ j = i
  <2>1. Listed(w, j) => Listed(s, j) \/ j = i
    BY <1>1, <1>2 DEF Listed
  <2>2. Listed(s, j) => Listed(w, j)
    BY <1>1, <1>3 DEF Listed
  <2>3. Len(s) + 1 \in 1 .. Len(w)
    BY <1>1
  <2>4. Listed(w, i)
    BY <1>1, <2>3 DEF Listed
  <2> QED BY <2>1, <2>2, <2>4
<1> QED BY <1>1, <1>4, <1>5 DEF w

LEMMA Owner == \A i \in Items : i[1] \in Producers /\ i[1] \in Threads /\ i[1] # Server
  BY ItemsAssumption DEF Threads

LEMMA FinishedOrder ==
  ASSUME Orders(order), NEW i \in Items,
         order' = [order EXCEPT ![i[1]] = Without(@, i)]
  PROVE  Orders(order') /\ Unfinished' = Unfinished \ {i}
<1>1. i[1] \in Producers /\ order[i[1]] \in Seq(Items) /\ Distinct(order[i[1]])
  BY Owner DEF Orders
<1>2. /\ Without(order[i[1]], i) \in Seq(Items) /\ Distinct(Without(order[i[1]], i))
      /\ \A j : Listed(Without(order[i[1]], i), j) <=> Listed(order[i[1]], j) /\ j # i
  BY <1>1, WithoutItem
<1>3. /\ order' \in [Producers -> Seq(Items)]
      /\ order'[i[1]] = Without(order[i[1]], i)
      /\ \A t \in Producers : t # i[1] => order'[t] = order[t]
  BY <1>1, <1>2 DEF Orders
<1>4. Orders(order')
  BY <1>2, <1>3 DEF Orders
<1>5. Unfinished = {j \in Items : Listed(order[j[1]], j)}
  BY DEF Unfinished, Listed
<1>6. Unfinished' = {j \in Items : Listed(order'[j[1]], j)}
  BY DEF Unfinished, Listed
<1>7. ASSUME NEW j \in Items
      PROVE  Listed(order'[j[1]], j) <=> Listed(order[j[1]], j) /\ j # i
  BY <1>2, <1>3, Owner
<1> QED BY <1>4, <1>5, <1>6, <1>7

LEMMA QueuedOrder ==
  ASSUME Orders(order), NEW i \in Items, i \notin Unfinished,
         order' = [order EXCEPT ![i[1]] = Append(@, i)]
  PROVE  Orders(order') /\ Unfinished' = Unfinished \union {i}
<1>0. Unfinished = {j \in Items : Listed(order[j[1]], j)}
  BY DEF Unfinished, Listed
<1>1. /\ i[1] \in Producers /\ order[i[1]] \in Seq(Items) /\ Distinct(order[i[1]])
      /\ ~Listed(order[i[1]], i)
  BY <1>0, Owner DEF Orders
<1>2. /\ Append(order[i[1]], i) \in Seq(Items) /\ Distinct(Append(order[i[1]], i))
      /\ \A j : Listed(Append(order[i[1]], i), j) <=> Listed(order[i[1]], j) \/ j = i
  BY <1>1, AppendItem
<1>3. /\ order' \in [Producers -> Seq(Items)]
      /\ order'[i[1]] = Append(order[i[1]], i)
      /\ \A t \in Producers : t # i[1] => order'[t] = order[t]
  BY <1>1, <1>2 DEF Orders
<1>4. Orders(order')
  BY <1>2, <1>3 DEF Orders
<1>6. Unfinished' = {j \in Items : Listed(order'[j[1]], j)}
  BY DEF Unfinished, Listed
<1>7. ASSUME NEW j \in Items
      PROVE  Listed(order'[j[1]], j) <=> Listed(order[j[1]], j) \/ j = i
  BY <1>2, <1>3, Owner
<1> QED BY <1>0, <1>4, <1>6, <1>7

--------------------------------------------------------------------------------
(***************************************************************************)
(* The ring.  For positions d and e without a limit: the cells from d up   *)
(* to e were claimed, by a producer that has not published yet (Free) or   *)
(* one that has (Ready); the others are free for the next round, except    *)
(* the one that the server has taken and not released.                     *)
(***************************************************************************)
Claiming == {"fill", "publish"}
Held     == pc[Server] \in {"copy", "release"}
Ready(k) == sequence[Slot(k)] = Wrap(k + 1)
Free(k)  == sequence[Slot(k)] = Wrap(k)

CellsAt(d, e) ==
  /\ d <= e /\ e <= d + RingSize /\ (Held => e < d + RingSize)
  /\ dequeuePos = Wrap(d) /\ enqueuePos = Wrap(e)
  /\ \A k \in d .. e - 1 : Free(k) \/ (Ready(k) /\ item[Slot(k)] \in Items)
  /\ \A k \in e .. d + RingSize - 1 : Free(k) \/ (Held /\ k = d + RingSize - 1)
  /\ Held => Ready(d - 1)
  /\ pc[Server] = "copy" => item[Slot(d - 1)] \in Items
  /\ pc[Server] = "claim" => d < e /\ Ready(d)

(* Who has claimed a cell has one that is not published; who may still win  *)
(* the compare-exchange has seen the cell free.                             *)
ClaimsAt(d, e) ==
  /\ \A t \in Threads : pc[t] \in Claiming =>
       \E k \in d .. e - 1 : pos[t] = Wrap(k) /\ Free(k)
  /\ \A t \in Threads : pc[t] = "cas" /\ pos[t] = enqueuePos => Free(e)

RingAt(d, e) == CellsAt(d, e) /\ ClaimsAt(d, e)
RingInv == \E d, e \in Int : RingAt(d, e)

(* What each thread carries at each point. *)
Carried ==
  /\ \A t \in Threads : pc[t] \in Pushing => work[t] \in Items
  /\ pc[Server] \in {"release", "call", "listCall", "finished", "kept"} => hand \in Items
  /\ \A t \in Producers : pc[t] \in {"idle", "wake"} \union Pushing
  /\ pc[Server] # "wake"
  /\ \A t \in Threads : pc[t] = "publish" => item[Slot(pos[t])] = work[t]
  /\ \A t, u \in Threads : t # u /\ pc[t] \in Claiming /\ pc[u] \in Claiming
       => pos[t] # pos[u]
  /\ \A t \in Threads : pc[t] \in {"look", "cas"} => Wrap(enqueuePos - pos[t]) <= MaxStall

(* The list, its end and the server's place in it. *)
Walking == {"walk", "listCall", "finished", "kept"}

ListInv ==
  /\ Chained(next)
  /\ overflowLock = IF pc[Server] = "walk" THEN Server ELSE Null
  /\ pc[Server] \in Walking => next[p] # Freed
  /\ pc[Server] \in Walking \ {"walk"} => hand = next[p]
  /\ next[overflowLast] = Null \/ (overflowLock = Server /\ next[p] = Null)

(* Where the items are. *)
InCell(s) ==
  IF Slot(sequence[s]) # s /\ ~(pc[Server] = "release" /\ s = Slot(dequeuePos - 1))
  THEN item[s] ELSE Null
InThread(t) == IF pc[t] \in Pushing THEN work[t] ELSE Null
Holding     == IF pc[Server] \in {"release", "call"} THEN hand ELSE Null

contents ==
  [x \in Spots |-> CASE x[1] = "cell"   -> InCell(x[2])
                     [] x[1] = "thread" -> InThread(x[2])
                     [] x[1] = "hand"   -> Holding
                     [] x[1] = "node"   -> next[x[2]]]

PlaceInv == Placed(contents, Unfinished)

Inv == TypeOK /\ RingInv /\ Carried /\ ListInv /\ PlaceInv /\ Orders(order)

LEMMA SpotFacts ==
  /\ \A s \in 0 .. RingSize - 1 : Cell(s) \in Spots
  /\ \A t \in Threads : Thread(t) \in Spots
  /\ InHand \in Spots
  /\ \A n \in Nodes : Node(n) \in Spots
  /\ \A x \in Spots : \/ \E s \in 0 .. RingSize - 1 : x = Cell(s)
                      \/ \E t \in Threads : x = Thread(t)
                      \/ x = InHand
                      \/ \E n \in Nodes : x = Node(n)
  /\ \A s, r : Cell(s) = Cell(r) => s = r
  /\ \A s, r : Thread(s) = Thread(r) => s = r
  /\ \A s, r : Node(s) = Node(r) => s = r
  /\ \A s, r : Cell(s) # Thread(r) /\ Cell(s) # Node(r) /\ Thread(s) # Node(r)
  /\ \A s : Cell(s) # InHand /\ Thread(s) # InHand /\ Node(s) # InHand
  BY DEF Spots, Cell, Thread, InHand, Node

LEMMA ContentsNow ==
  /\ \A s \in 0 .. RingSize - 1 : contents[Cell(s)] = InCell(s)
  /\ \A t \in Threads : contents[Thread(t)] = InThread(t)
  /\ contents[InHand] = Holding
  /\ \A n \in Nodes : contents[Node(n)] = next[n]
<1>1. ASSUME NEW s \in 0 .. RingSize - 1 PROVE contents[Cell(s)] = InCell(s)
  BY SpotFacts DEF contents, Cell
<1>2. ASSUME NEW t \in Threads PROVE contents[Thread(t)] = InThread(t)
  BY SpotFacts DEF contents, Thread
<1>3. contents[InHand] = Holding
  BY SpotFacts DEF contents, InHand
<1>4. ASSUME NEW n \in Nodes PROVE contents[Node(n)] = next[n]
  BY SpotFacts DEF contents, Node
<1> QED BY <1>1, <1>2, <1>3, <1>4

LEMMA ContentsNext ==
  /\ \A s \in 0 .. RingSize - 1 : contents'[Cell(s)] = InCell(s)'
  /\ \A t \in Threads : contents'[Thread(t)] = InThread(t)'
  /\ contents'[InHand] = Holding'
  /\ \A n \in Nodes : contents'[Node(n)] = next'[n]
<1>1. ASSUME NEW s \in 0 .. RingSize - 1 PROVE contents'[Cell(s)] = InCell(s)'
  BY SpotFacts DEF contents, Cell
<1>2. ASSUME NEW t \in Threads PROVE contents'[Thread(t)] = InThread(t)'
  BY SpotFacts DEF contents, Thread
<1>3. contents'[InHand] = Holding'
  BY SpotFacts DEF contents, InHand
<1>4. ASSUME NEW n \in Nodes PROVE contents'[Node(n)] = next'[n]
  BY SpotFacts DEF contents, Node
<1> QED BY <1>1, <1>2, <1>3, <1>4

LEMMA ThreadFacts ==
  /\ Server \in Threads /\ Producers \subseteq Threads /\ Server \notin Producers
  /\ \A t \in Threads : t = Server \/ t \in Producers
  BY ItemsAssumption DEF Threads

--------------------------------------------------------------------------------
(***************************************************************************)
(* Steps that leave a part of the invariant alone.                         *)
(***************************************************************************)
LEMMA RingStays ==
  ASSUME RingInv, UNCHANGED ring,
         \A t \in Threads : pc'[t] \in {"fill", "publish"} =>
                             pc[t] \in {"fill", "publish"} /\ pos'[t] = pos[t],
         \A t \in Threads : pc'[t] = "cas" => pc[t] = "cas" /\ pos'[t] = pos[t],
         pc'[Server] \in {"copy", "release"} <=> pc[Server] \in {"copy", "release"},
         pc'[Server] = "copy" => pc[Server] = "copy",
         pc'[Server] = "claim" => pc[Server] = "claim"
  PROVE  RingInv'
<1>1. PICK d \in Int, e \in Int : RingAt(d, e)
  BY DEF RingInv
<1>2. /\ UNCHANGED <<sequence, item, enqueuePos, dequeuePos>>
      /\ Held' = Held
  BY DEF ring, Held
<1>3. \A k \in Int : Free(k)' = Free(k) /\ Ready(k)' = Ready(k)
  BY <1>2 DEF Free, Ready
<1>4. CellsAt(d, e)'
  BY <1>1, <1>2, <1>3 DEF RingAt, CellsAt
<1>5. ClaimsAt(d, e)'
  BY <1>1, <1>2, <1>3 DEF RingAt, ClaimsAt, Claiming
<1> QED BY <1>4, <1>5 DEF RingInv, RingAt

(* The list while the server is not in it, or stays where it is. *)
LEMMA ListStays ==
  ASSUME ListInv, UNCHANGED <<next, overflowLast, overflowLock, p>>,
         pc'[Server] = "walk" <=> pc[Server] = "walk",
         pc'[Server] \in {"listCall", "finished", "kept"} =>
           pc[Server] \in {"listCall", "finished", "kept"} /\ hand' = hand
  PROVE  ListInv'
  BY DEF ListInv, Walking

LEMMA PlacesStay ==
  ASSUME PlaceInv, UNCHANGED <<next, order>>,
         \A s \in 0 .. RingSize - 1 : InCell(s)' = InCell(s),
         \A t \in Threads : InThread(t)' = InThread(t),
         Holding' = Holding
  PROVE  PlaceInv'
<1>1. \A x \in Spots : contents'[x] = contents[x]
  BY SpotFacts, ContentsNow, ContentsNext
<1>2. \A x \in Spots : Same(contents, contents', x)
  BY <1>1 DEF Same
<1>3. Unfinished' = Unfinished
  BY DEF Unfinished
<1>4. Placed(contents', Unfinished)
  BY <1>2, PlacedStays DEF PlaceInv
<1> QED BY <1>3, <1>4 DEF PlaceInv

--------------------------------------------------------------------------------
(***************************************************************************)
(* ringPush, up to the claim of a cell.                                    *)
(***************************************************************************)

(* A thread that has not claimed a cell goes on to look at one, to try for  *)
(* the one it saw free, or to the overflow list.                            *)
LEMMA LooksOn ==
  ASSUME Inv, NEW t \in Threads, NEW x \in {"load", "look", "cas", "spill", "append"},
         pc[t] \in {"load", "look", "cas", "spill"}, pc' = [pc EXCEPT ![t] = x],
         pos' \in [Threads -> 0 .. Modulus - 1], \A u \in Threads \ {t} : pos'[u] = pos[u],
         x \in {"look", "cas"} => Wrap(enqueuePos - pos'[t]) <= MaxStall,
         x = "cas" => pos'[t] = pos[t] /\ sequence[Slot(pos[t])] = pos[t],
         UNCHANGED <<ring, overflow, work, serving, wake, order>>
  PROVE  Inv'
<1>0. TypeOK /\ RingInv /\ Carried /\ ListInv /\ PlaceInv /\ Orders(order)
  BY DEF Inv
<1>1. /\ pc'[t] = x /\ \A u \in Threads \ {t} : pc'[u] = pc[u]
      /\ x \in Pushing /\ pc[t] \in Pushing
  BY <1>0 DEF TypeOK, Pushing
<1>2. TypeOK'
  <2>1. pc' \in [Threads -> {"idle", "wake", "pop", "claim", "copy", "release", "call",
                         "lock", "walk", "listCall", "finished", "kept"} \union Pushing]
    BY <1>0, <1>1 DEF TypeOK
  <2> QED BY <1>0, <2>1 DEF TypeOK, ring, overflow, serving
<1>3. RingInv'
  <2>1. PICK d \in Int, e \in Int : RingAt(d, e)
    BY <1>0 DEF RingInv
  <2>2. UNCHANGED <<sequence, item, enqueuePos, dequeuePos>>
    BY DEF ring
  <2>3. /\ pc'[Server] \in {"copy", "release"} <=> pc[Server] \in {"copy", "release"}
        /\ pc'[Server] = "copy" <=> pc[Server] = "copy"
        /\ pc'[Server] = "claim" <=> pc[Server] = "claim"
    BY <1>1, ThreadFacts
  <2>4. Held' = Held
    BY <2>3 DEF Held
  <2>5. \A k \in Int : Free(k)' = Free(k) /\ Ready(k)' = Ready(k)
    BY <2>2 DEF Free, Ready
  <2>6. CellsAt(d, e)'
    BY <2>1, <2>2, <2>3, <2>4, <2>5 DEF RingAt, CellsAt
  <2>7. \A u \in Threads : pc'[u] \in Claiming =>
          \E k \in d .. e - 1 : pos'[u] = Wrap(k) /\ Free(k)'
    BY <1>1, <2>1, <2>5 DEF RingAt, ClaimsAt, Claiming
  <2>8. ASSUME NEW u \in Threads, pc'[u] = "cas", pos'[u] = enqueuePos' PROVE Free(e)'
    <3>1. CASE u = t
      <4>1. enqueuePos = Wrap(e) /\ sequence[Slot(enqueuePos)] = enqueuePos
        BY <1>1, <2>1, <2>2, <2>8, <3>1 DEF RingAt, CellsAt
      <4>2. Slot(enqueuePos) = Slot(e)
        BY <4>1, SlotFacts
      <4> QED BY <4>1, <4>2, <2>5 DEF Free
    <3>2. CASE u # t
      BY <1>1, <2>1, <2>2, <2>5, <2>8, <3>2 DEF RingAt, ClaimsAt
    <3> QED BY <3>1, <3>2
  <2> QED BY <2>6, <2>7, <2>8 DEF RingInv, RingAt, ClaimsAt
<1>4. Carried'
  <2>1. UNCHANGED <<item, enqueuePos, hand, work>>
    BY DEF ring, serving
  <2>2. \A u \in Threads : pc'[u] \in Pushing => work'[u] \in Items
    BY <1>0, <1>1, <2>1 DEF Carried
  <2>3. /\ pc'[Server] \in {"release", "call", "listCall", "finished", "kept"} => hand' \in Items
        /\ pc'[Server] # "wake"
    BY <1>0, <1>1, <2>1, ThreadFacts DEF Carried
  <2>4. \A u \in Producers : pc'[u] \in {"idle", "wake"} \union Pushing
    BY <1>0, <1>1, ThreadFacts DEF Carried
  <2>5. \A u \in Threads : pc'[u] = "publish" => item'[Slot(pos'[u])] = work'[u]
    BY <1>0, <1>1, <2>1 DEF Carried
  <2>6. \A v, u \in Threads : v # u /\ pc'[v] \in Claiming /\ pc'[u] \in Claiming
          => pos'[v] # pos'[u]
    BY <1>0, <1>1 DEF Carried, Claiming
  <2>7. \A u \in Threads : pc'[u] \in {"look", "cas"} => Wrap(enqueuePos' - pos'[u]) <= MaxStall
    BY <1>0, <1>1, <2>1 DEF Carried
  <2> QED BY <2>2, <2>3, <2>4, <2>5, <2>6, <2>7 DEF Carried
<1>5. ListInv'
  BY <1>0, <1>1, ThreadFacts, ListStays DEF overflow, serving
<1>6. PlaceInv'
  <2>1. \A s \in 0 .. RingSize - 1 : InCell(s)' = InCell(s)
    BY <1>1, ThreadFacts DEF InCell, ring
  <2>2. \A u \in Threads : InThread(u)' = InThread(u)
    BY <1>1 DEF InThread
  <2>3. Holding' = Holding
    BY <1>1, ThreadFacts DEF Holding, serving
  <2> QED BY <1>0, <2>1, <2>2, <2>3, PlacesStay DEF overflow
<1> QED BY <1>0, <1>2, <1>3, <1>4, <1>5, <1>6 DEF Inv

LEMMA PushLoadKeeps ==
  ASSUME Inv, NEW t \in Threads, PushLoad(t) PROVE Inv'
<1>1. TypeOK
  BY DEF Inv
<1>2. /\ enqueuePos \in 0 .. Modulus - 1 /\ enqueuePos \in Int
      /\ pos' \in [Threads -> 0 .. Modulus - 1] /\ pos'[t] = enqueuePos
      /\ \A u \in Threads \ {t} : pos'[u] = pos[u]
  BY <1>1, Sizes DEF TypeOK, PushLoad
<1>3. Wrap(enqueuePos - pos'[t]) <= MaxStall
  <2>1. enqueuePos - pos'[t] = 0 /\ 0 \in 0 .. Modulus - 1
    BY <1>2, Sizes
  <2> QED BY <2>1, WrapZero, Sizes
<1> QED BY <1>2, <1>3, LooksOn DEF PushLoad, At, Goto

LEMMA PushLookKeeps ==
  ASSUME Inv, NEW t \in Threads, PushLook(t) PROVE Inv'
<1> DEFINE d == Diff(sequence[Slot(pos[t])], pos[t])
           x == IF d = 0 THEN "cas" ELSE IF d < 0 THEN "spill" ELSE "load"
<1>1. TypeOK /\ Carried
  BY DEF Inv
<1>2. /\ pos[t] \in 0 .. Modulus - 1 /\ pos \in [Threads -> 0 .. Modulus - 1] /\ UNCHANGED pos
      /\ sequence \in [0 .. RingSize - 1 -> 0 .. Modulus - 1] /\ pos[t] \in Int
  BY <1>1, Sizes DEF TypeOK, PushLook, local
<1>3. sequence[Slot(pos[t])] \in 0 .. Modulus - 1
  BY <1>2, SlotFacts
<1>4. d = 0 => sequence[Slot(pos[t])] = pos[t]
  BY <1>2, <1>3, DiffZero
<1>5. /\ pc[t] = "look" /\ pc' = [pc EXCEPT ![t] = x]
      /\ UNCHANGED <<ring, overflow, work, serving, wake, order>>
  BY DEF PushLook, Look, At, Goto, local
<1>6. Wrap(enqueuePos - pos'[t]) <= MaxStall
  BY <1>1, <1>2, <1>5 DEF Carried
<1> HIDE DEF d
<1>7. x \in {"load", "look", "cas", "spill", "append"} /\ (x = "cas" => d = 0)
  OBVIOUS
<1> HIDE DEF x
<1> QED BY <1>2, <1>4, <1>5, <1>6, <1>7, LooksOn

(* A compare-exchange that fails gives the thread a new position. *)
LEMMA CasFailsKeeps ==
  ASSUME Inv, NEW t \in Threads, pc[t] = "cas", pc' = [pc EXCEPT ![t] = "look"],
         pos' = [pos EXCEPT ![t] = enqueuePos],
         UNCHANGED <<ring, overflow, work, serving, wake, order>>
  PROVE  Inv'
<1>1. TypeOK
  BY DEF Inv
<1>2. /\ enqueuePos \in 0 .. Modulus - 1 /\ enqueuePos \in Int
      /\ pos' \in [Threads -> 0 .. Modulus - 1] /\ pos'[t] = enqueuePos
      /\ \A u \in Threads \ {t} : pos'[u] = pos[u]
  BY <1>1, Sizes DEF TypeOK
<1>3. Wrap(enqueuePos - pos'[t]) <= MaxStall
  <2>1. enqueuePos - pos'[t] = 0 /\ 0 \in 0 .. Modulus - 1
    BY <1>2, Sizes
  <2> QED BY <2>1, WrapZero, Sizes
<1> QED BY <1>2, <1>3, LooksOn

LEMMA SpillsKeeps ==
  ASSUME Inv, NEW t \in Threads, pc[t] = "spill", pc' = [pc EXCEPT ![t] = "append"],
         UNCHANGED <<ring, overflow, local, serving, wake, order>>
  PROVE  Inv'
<1>1. pos' \in [Threads -> 0 .. Modulus - 1] /\ UNCHANGED <<pos, work>>
  BY DEF Inv, TypeOK, local
<1> QED BY <1>1, LooksOn

--------------------------------------------------------------------------------
(***************************************************************************)
(* ringPush, from the claim to the publication of the cell.                *)
(***************************************************************************)

(* A claimed cell, and how the cells of the ring lie around it. *)
LEMMA ClaimedCell ==
  ASSUME TypeOK, Carried, NEW d \in Int, NEW e \in Int, RingAt(d, e),
         NEW t \in Threads, pc[t] \in {"fill", "publish"}
  PROVE  \E k \in d .. e - 1 :
           /\ k \in Int /\ pos[t] = Wrap(k) /\ Free(k) /\ Slot(pos[t]) = Slot(k)
           /\ \A j \in d .. d + RingSize - 1 : j # k => Slot(j) # Slot(k)
           /\ Held => Slot(d - 1) # Slot(k)
           /\ Free(e) => Slot(e) # Slot(k)
           /\ \A u \in Threads \ {t} : pc[u] \in {"fill", "publish"} =>
                \E j \in d .. e - 1 : pos[u] = Wrap(j) /\ Free(j) /\ j # k
           /\ \A u \in Threads \ {t} : pc[u] \in {"fill", "publish"} => Slot(pos[u]) # Slot(k)
<1>1. PICK k \in d .. e - 1 : pos[t] = Wrap(k) /\ Free(k)
  BY DEF RingAt, ClaimsAt, Claiming
<1>2. /\ k \in Int /\ d <= k /\ k <= e - 1 /\ e <= d + RingSize
      /\ Held => e < d + RingSize
  BY <1>1, Sizes DEF RingAt, CellsAt
<1>3. Slot(pos[t]) = Slot(k)
  BY <1>1, <1>2, SlotFacts
<1>4. ASSUME NEW j \in d .. d + RingSize - 1, j # k PROVE Slot(j) # Slot(k)
  <2>1. j \in Int /\ j - k < RingSize /\ k - j < RingSize
    BY <1>2, Sizes
  <2> QED BY <1>2, <1>4, <2>1, SlotFacts
<1>5. ASSUME Held PROVE Slot(d - 1) # Slot(k)
  <2>1. d - 1 \in Int /\ d - 1 # k /\ (d - 1) - k < RingSize /\ k - (d - 1) < RingSize
    BY <1>2, <1>5, Sizes
  <2> QED BY <1>2, <2>1, SlotFacts
<1>6. ASSUME Free(e) PROVE Slot(e) # Slot(k)
  <2>1. CASE e < d + RingSize
    BY <1>2, <1>4, <2>1, Sizes
  <2>2. CASE e = d + RingSize /\ k # d
    <3>1. e - k < RingSize /\ k - e < RingSize /\ e # k
      BY <1>2, <2>2, Sizes
    <3> QED BY <1>2, <3>1, SlotFacts
  <2>3. CASE e = d + RingSize /\ k = d
    <3>1. e # k /\ e - k < Modulus /\ k - e < Modulus
      BY <2>3, Sizes
    <3>2. Wrap(e) # Wrap(k)
      BY <1>2, <3>1, WrapFacts
    <3> QED BY <1>1, <1>6, <3>2 DEF Free
  <2> QED BY <1>2, <2>1, <2>2, <2>3, Sizes
<1>7. ASSUME NEW u \in Threads \ {t}, pc[u] \in {"fill", "publish"}
      PROVE  /\ \E j \in d .. e - 1 : pos[u] = Wrap(j) /\ Free(j) /\ j # k
             /\ Slot(pos[u]) # Slot(k)
  <2>1. PICK j \in d .. e - 1 : pos[u] = Wrap(j) /\ Free(j)
    BY <1>7 DEF RingAt, ClaimsAt, Claiming
  <2>2. pos[u] # pos[t]
    BY <1>7 DEF Carried, Claiming
  <2>3. j # k /\ j \in Int /\ j \in d .. d + RingSize - 1
    BY <1>1, <1>2, <2>1, <2>2, Sizes
  <2>4. Slot(pos[u]) = Slot(j)
    BY <2>1, <2>3, SlotFacts
  <2> QED BY <2>1, <2>3, <2>4, <1>4
<1> QED BY <1>1, <1>2, <1>3, <1>4, <1>5, <1>6, <1>7

(* The compare-exchange succeeds: the cell at e was free, and the ring not  *)
(* full.                                                                    *)
LEMMA CasClaimsRing ==
  ASSUME TypeOK, Carried, RingInv, NEW t \in Threads, pc[t] = "cas", NobodyStalls,
         enqueuePos = pos[t], enqueuePos' = Wrap(pos[t] + 1), pc' = [pc EXCEPT ![t] = "fill"],
         UNCHANGED <<sequence, item, dequeuePos, pos>>
  PROVE  /\ RingInv'
         /\ \A u \in Threads \ {t} : pc[u] \in {"fill", "publish"} => pos[u] # pos[t]
<1>0. pc'[t] = "fill" /\ \A u \in Threads \ {t} : pc'[u] = pc[u]
  BY DEF TypeOK
<1>1. PICK d \in Int, e \in Int : RingAt(d, e)
  BY DEF RingInv
<1>2. /\ d <= e /\ e <= d + RingSize /\ (Held => e < d + RingSize) /\ enqueuePos = Wrap(e)
      /\ dequeuePos = Wrap(d) /\ Free(e)
  BY <1>1 DEF RingAt, CellsAt, ClaimsAt
<1>3. e # d + RingSize
  <2> SUFFICES ASSUME e = d + RingSize PROVE FALSE
    OBVIOUS
  <2>1. Free(d) \/ Ready(d)
    BY <1>1, Sizes DEF RingAt, CellsAt
  <2>2. Slot(e) = Slot(d)
    BY SlotFacts
  <2>3. /\ e # d /\ e - d < Modulus /\ d - e < Modulus /\ d + 1 \in Int
        /\ e # d + 1 /\ e - (d + 1) < Modulus /\ (d + 1) - e < Modulus
    BY Sizes
  <2>4. Wrap(e) # Wrap(d) /\ Wrap(e) # Wrap(d + 1)
    BY <2>3, WrapFacts
  <2> QED BY <1>2, <2>1, <2>2, <2>4 DEF Free, Ready
<1>4. ASSUME Held PROVE e # d + RingSize - 1
  <2> SUFFICES ASSUME e = d + RingSize - 1 PROVE FALSE
    OBVIOUS
  <2>1. sequence[Slot(d - 1)] = Wrap((d - 1) + 1) /\ (d - 1) + 1 = d
    BY <1>1, <1>4 DEF RingAt, CellsAt, Ready
  <2>2. e = (d - 1) + RingSize /\ d - 1 \in Int
    BY Sizes
  <2>3. Slot(e) = Slot(d - 1)
    BY <2>2, SlotFacts
  <2>4. e # d /\ e - d < Modulus /\ d - e < Modulus
    BY Sizes
  <2>5. Wrap(e) # Wrap(d)
    BY <2>4, WrapFacts
  <2> QED BY <1>2, <2>1, <2>3, <2>5 DEF Free
<1>5. /\ e + 1 \in Int /\ d <= e + 1 /\ e + 1 <= d + RingSize /\ (Held => e + 1 < d + RingSize)
  BY <1>2, <1>3, <1>4, Sizes
<1>6. enqueuePos' = Wrap(e + 1)
  BY <1>2, WrapFacts
<1>7. /\ pc'[Server] \in {"copy", "release"} <=> pc[Server] \in {"copy", "release"}
      /\ pc'[Server] = "copy" <=> pc[Server] = "copy"
      /\ pc'[Server] = "claim" <=> pc[Server] = "claim"
  BY <1>0, ThreadFacts
<1>8. Held' = Held
  BY <1>7 DEF Held
<1>9. \A k \in Int : Free(k)' = Free(k) /\ Ready(k)' = Ready(k)
  BY DEF Free, Ready
<1>10. /\ \A k \in d .. (e + 1) - 1 : k = e \/ k \in d .. e - 1
       /\ \A k \in e + 1 .. d + RingSize - 1 : k \in e .. d + RingSize - 1
       /\ \A k \in d .. e - 1 : k \in d .. (e + 1) - 1
       /\ e \in d .. (e + 1) - 1
  BY <1>2, Sizes
<1>11. CellsAt(d, e + 1)'
  <2>1. \A k \in d .. (e + 1) - 1 : Free(k)' \/ (Ready(k)' /\ item'[Slot(k)] \in Items)
    BY <1>1, <1>2, <1>9, <1>10 DEF RingAt, CellsAt
  <2>2. \A k \in e + 1 .. d + RingSize - 1 : Free(k)' \/ (Held' /\ k = d + RingSize - 1)
    BY <1>1, <1>8, <1>9, <1>10 DEF RingAt, CellsAt
  <2>3. /\ Held' => Ready(d - 1)'
        /\ pc'[Server] = "copy" => item'[Slot(d - 1)] \in Items
        /\ pc'[Server] = "claim" => d < e + 1 /\ Ready(d)'
    BY <1>1, <1>7, <1>8, <1>9 DEF RingAt, CellsAt
  <2> QED BY <1>2, <1>5, <1>6, <1>8, <2>1, <2>2, <2>3 DEF CellsAt
<1>12. ASSUME NEW u \in Threads, pc'[u] \in Claiming
       PROVE  \E k \in d .. (e + 1) - 1 : pos'[u] = Wrap(k) /\ Free(k)'
  <2>1. CASE u = t
    BY <2>1, <1>2, <1>9, <1>10
  <2>2. CASE u # t
    <3>1. PICK k \in d .. e - 1 : pos[u] = Wrap(k) /\ Free(k)
      BY <1>0, <1>1, <1>12, <2>2 DEF RingAt, ClaimsAt
    <3> QED BY <3>1, <1>9, <1>10
  <2> QED BY <2>1, <2>2
<1>13. ASSUME NEW u \in Threads, pc'[u] = "cas" PROVE pos'[u] # enqueuePos'
  <2> SUFFICES ASSUME pos[u] = Wrap(e + 1) PROVE FALSE
    BY <1>6
  <2>1. (enqueuePos - pos[u]) % Modulus < MaxStall
    BY <1>0, <1>13 DEF NobodyStalls
  <2>2. (enqueuePos - pos[u]) % Modulus = Wrap(Wrap(e) - Wrap(e + 1))
    BY <1>2, Zenon DEF Wrap
  <2>3. Wrap(Wrap(e) - Wrap(e + 1)) = Wrap(e - (e + 1))
    BY <1>5, WrapFacts
  <2>4. e - (e + 1) = -1 /\ -1 + Modulus * 1 = Modulus - 1 /\ -1 \in Int /\ 1 \in Int
    BY Sizes
  <2>5. Wrap(-1) = Wrap(Modulus - 1)
    <3>1. (-1 + Modulus * 1) % Modulus = (-1) % Modulus
      BY <2>4, Sizes, ModShift, Zenon
    <3> QED BY <2>4, <3>1, Zenon DEF Wrap
  <2>6. Modulus - 1 \in 0 .. Modulus - 1
    BY Sizes
  <2>7. Wrap(Modulus - 1) = Modulus - 1
    BY <2>6, WrapFacts, Zenon
  <2> QED BY <2>1, <2>2, <2>3, <2>4, <2>5, <2>7, Sizes
<1>14. RingInv'
  <2>1. ClaimsAt(d, e + 1)'
    BY <1>12, <1>13 DEF ClaimsAt
  <2> QED BY <1>5, <1>11, <2>1 DEF RingInv, RingAt
<1>15. ASSUME NEW u \in Threads \ {t}, pc[u] \in {"fill", "publish"} PROVE pos[u] # pos[t]
  <2>1. PICK k \in d .. e - 1 : pos[u] = Wrap(k)
    BY <1>1, <1>15 DEF RingAt, ClaimsAt, Claiming
  <2>2. k \in Int /\ k # e /\ e - k < Modulus /\ k - e < Modulus
    BY <1>2, Sizes
  <2>3. Wrap(k) # Wrap(e)
    BY <2>2, WrapFacts
  <2> QED BY <1>2, <2>1, <2>3
<1> QED BY <1>14, <1>15

LEMMA CasClaimsKeeps ==
  ASSUME Inv, NEW t \in Threads, pc[t] = "cas", NobodyStalls,
         enqueuePos = pos[t], enqueuePos' = Wrap(pos[t] + 1), pc' = [pc EXCEPT ![t] = "fill"],
         UNCHANGED <<sequence, item, dequeuePos, pos, overflow, work, serving, wake, order>>
  PROVE  Inv'
<1>0. TypeOK /\ RingInv /\ Carried /\ ListInv /\ PlaceInv /\ Orders(order)
  BY DEF Inv
<1>1. /\ pc'[t] = "fill" /\ \A u \in Threads \ {t} : pc'[u] = pc[u]
      /\ pc'[t] \in Pushing /\ pc[t] \in Pushing
  BY <1>0 DEF TypeOK, Pushing
<1>2. TypeOK'
  <2>1. pc' \in [Threads -> {"idle", "wake", "pop", "claim", "copy", "release", "call",
                         "lock", "walk", "listCall", "finished", "kept"} \union Pushing]
    BY <1>0, <1>1 DEF TypeOK
  <2>2. pos[t] \in Int /\ pos[t] + 1 \in Int
    BY <1>0, Sizes DEF TypeOK
  <2>3. enqueuePos' \in 0 .. Modulus - 1
    BY <2>2, WrapFacts
  <2> QED BY <1>0, <2>1, <2>3 DEF TypeOK, overflow, serving
<1>3. RingInv' /\ \A u \in Threads \ {t} : pc[u] \in {"fill", "publish"} => pos[u] # pos[t]
  BY <1>0, CasClaimsRing
<1>4. Carried'
  <2>1. UNCHANGED <<item, hand, work, pos>>
    BY DEF serving
  <2>2. \A u \in Threads : pc'[u] \in Pushing => work'[u] \in Items
    BY <1>0, <1>1, <2>1 DEF Carried
  <2>3. /\ pc'[Server] \in {"release", "call", "listCall", "finished", "kept"} => hand' \in Items
        /\ pc'[Server] # "wake"
    BY <1>0, <1>1, <2>1, ThreadFacts DEF Carried
  <2>4. \A u \in Producers : pc'[u] \in {"idle", "wake"} \union Pushing
    BY <1>0, <1>1, ThreadFacts DEF Carried
  <2>5. \A u \in Threads : pc'[u] = "publish" => item'[Slot(pos'[u])] = work'[u]
    BY <1>0, <1>1, <2>1 DEF Carried
  <2>6. \A v, u \in Threads : v # u /\ pc'[v] \in Claiming /\ pc'[u] \in Claiming
          => pos'[v] # pos'[u]
    BY <1>0, <1>1, <1>3 DEF Carried, Claiming
  <2>7. ASSUME NEW u \in Threads, pc'[u] \in {"look", "cas"}
        PROVE  Wrap(enqueuePos' - pos'[u]) <= MaxStall
    <3>1. /\ enqueuePos \in Int /\ pos[u] \in Int /\ enqueuePos - pos[u] \in Int
          /\ enqueuePos + 1 \in Int /\ 1 \in Int /\ -pos[u] \in Int
      BY <1>0, Sizes DEF TypeOK
    <3>2. Wrap(enqueuePos - pos[u]) < MaxStall
      BY <1>1, <2>7 DEF NobodyStalls, Wrap
    <3>3. Wrap(Wrap(enqueuePos + 1) + (-pos[u])) = Wrap((enqueuePos + 1) + (-pos[u]))
      BY <3>1, WrapFacts, Zenon
    <3>4. Wrap(Wrap(enqueuePos - pos[u]) + 1) = Wrap((enqueuePos - pos[u]) + 1)
      BY <3>1, WrapFacts, Zenon
    <3>5. Wrap(enqueuePos - pos[u]) \in 0 .. Modulus - 1
      BY <3>1, WrapFacts, Zenon
    <3>6. Wrap(enqueuePos - pos[u]) + 1 \in 0 .. Modulus - 1 /\ Wrap(enqueuePos + 1) \in Int
      <4>1. Wrap(enqueuePos + 1) \in Int
        BY <3>1, WrapFacts, Zenon
      <4> QED BY <4>1, <3>2, <3>5, Sizes
    <3>7. Wrap(Wrap(enqueuePos - pos[u]) + 1) = Wrap(enqueuePos - pos[u]) + 1
      BY <3>6, WrapFacts, Zenon
    <3>8. /\ (enqueuePos + 1) + (-pos[u]) = (enqueuePos - pos[u]) + 1
          /\ Wrap(enqueuePos + 1) + (-pos[u]) = Wrap(enqueuePos + 1) - pos[u]
      BY <3>1, <3>6
    <3>9. Wrap(Wrap(enqueuePos + 1) - pos[u]) = Wrap(enqueuePos - pos[u]) + 1
      BY <3>3, <3>4, <3>7, <3>8, Zenon
    <3>10. enqueuePos' = Wrap(enqueuePos + 1) /\ pos'[u] = pos[u]
      OBVIOUS
    <3> QED BY <3>2, <3>5, <3>9, <3>10, Sizes
  <2> QED BY <2>2, <2>3, <2>4, <2>5, <2>6, <2>7 DEF Carried
<1>5. ListInv'
  BY <1>0, <1>1, ThreadFacts, ListStays DEF overflow, serving
<1>6. PlaceInv'
  <2>1. \A s \in 0 .. RingSize - 1 : InCell(s)' = InCell(s)
    BY <1>1, ThreadFacts DEF InCell
  <2>2. \A u \in Threads : InThread(u)' = InThread(u)
    BY <1>1 DEF InThread
  <2>3. Holding' = Holding
    BY <1>1, ThreadFacts DEF Holding, serving
  <2> QED BY <1>0, <2>1, <2>2, <2>3, PlacesStay DEF overflow
<1> QED BY <1>0, <1>2, <1>3, <1>4, <1>5, <1>6 DEF Inv

LEMMA PushCasKeeps ==
  ASSUME Inv, NEW t \in Threads, PushCas(t) PROVE Inv'
<1>1. CASE enqueuePos = pos[t] /\ NobodyStalls /\ enqueuePos' = Wrap(pos[t] + 1)
           /\ pc' = [pc EXCEPT ![t] = "fill"] /\ UNCHANGED pos
  BY <1>1, CasClaimsKeeps DEF PushCas, At
<1>2. CASE pos' = [pos EXCEPT ![t] = enqueuePos] /\ pc' = [pc EXCEPT ![t] = "look"]
           /\ UNCHANGED enqueuePos
  BY <1>2, CasFailsKeeps DEF PushCas, At, ring
<1> QED BY <1>1, <1>2 DEF PushCas, Goto

(* The item is written to a cell that is not published. *)
LEMMA PushFillKeeps ==
  ASSUME Inv, NEW t \in Threads, PushFill(t) PROVE Inv'
<1>0. TypeOK /\ RingInv /\ Carried /\ ListInv /\ PlaceInv /\ Orders(order)
  BY DEF Inv
<1>1. /\ pc[t] = "fill" /\ pc'[t] = "publish" /\ \A u \in Threads \ {t} : pc'[u] = pc[u]
      /\ pc'[t] \in Pushing /\ pc[t] \in Pushing
      /\ item' = [item EXCEPT ![Slot(pos[t])] = work[t]]
      /\ UNCHANGED <<sequence, enqueuePos, dequeuePos, work, pos, hand>>
  BY <1>0 DEF TypeOK, Pushing, PushFill, At, Goto, local, serving
<1>2. work[t] \in Items
  BY <1>0, <1>1 DEF Carried
<1>3. PICK d \in Int, e \in Int : RingAt(d, e)
  BY <1>0 DEF RingInv
<1>4. PICK k \in d .. e - 1 :
         /\ k \in Int /\ pos[t] = Wrap(k) /\ Free(k) /\ Slot(pos[t]) = Slot(k)
         /\ \A u \in Threads \ {t} : pc[u] \in {"fill", "publish"} => Slot(pos[u]) # Slot(k)
  BY <1>0, <1>1, <1>3, ClaimedCell
<1>5. Slot(k) \in 0 .. RingSize - 1
  BY <1>4, SlotFacts
<1>6. /\ item' \in [0 .. RingSize - 1 -> Items \union {Null}] /\ item'[Slot(k)] = work[t]
      /\ \A s \in 0 .. RingSize - 1 : s # Slot(k) => item'[s] = item[s]
  BY <1>0, <1>1, <1>2, <1>4, <1>5 DEF TypeOK
<1>7. TypeOK'
  <2>1. pc' \in [Threads -> {"idle", "wake", "pop", "claim", "copy", "release", "call",
                         "lock", "walk", "listCall", "finished", "kept"} \union Pushing]
    BY <1>0, <1>1 DEF TypeOK, PushFill, Goto
  <2> QED BY <1>0, <2>1, <1>6 DEF TypeOK, overflow, serving, local, PushFill
<1>8. RingInv'
  <2>1. /\ pc'[Server] \in {"copy", "release"} <=> pc[Server] \in {"copy", "release"}
        /\ pc'[Server] = "copy" <=> pc[Server] = "copy"
        /\ pc'[Server] = "claim" <=> pc[Server] = "claim"
    BY <1>1, ThreadFacts
  <2>2. Held' = Held
    BY <2>1 DEF Held
  <2>3. \A j \in Int : Free(j)' = Free(j) /\ Ready(j)' = Ready(j)
    BY <1>1 DEF Free, Ready
  <2>4. \A j \in Int : item[Slot(j)] \in Items => item'[Slot(j)] \in Items
    BY <1>2, <1>6, SlotFacts
  <2>5. CellsAt(d, e)'
    BY <1>1, <1>3, <2>1, <2>2, <2>3, <2>4 DEF RingAt, CellsAt
  <2>6. ClaimsAt(d, e)'
    BY <1>1, <1>3, <2>3 DEF RingAt, ClaimsAt, Claiming
  <2> QED BY <2>5, <2>6 DEF RingInv, RingAt
<1>9. Carried'
  <2>2. \A u \in Threads : pc'[u] \in Pushing => work'[u] \in Items
    BY <1>0, <1>1 DEF Carried
  <2>3. /\ pc'[Server] \in {"release", "call", "listCall", "finished", "kept"} => hand' \in Items
        /\ pc'[Server] # "wake"
    BY <1>0, <1>1, ThreadFacts DEF Carried
  <2>4. \A u \in Producers : pc'[u] \in {"idle", "wake"} \union Pushing
    BY <1>0, <1>1, ThreadFacts DEF Carried
  <2>5. ASSUME NEW u \in Threads, pc'[u] = "publish" PROVE item'[Slot(pos'[u])] = work'[u]
    <3>1. CASE u = t
      BY <3>1, <1>1, <1>4, <1>6
    <3>2. CASE u # t
      <4>1. pos[u] \in Int
        BY <1>0, Sizes DEF TypeOK
      <4>2. Slot(pos[u]) \in 0 .. RingSize - 1
        BY <4>1, SlotFacts
      <4>3. pc[u] = "publish" /\ Slot(pos[u]) # Slot(k)
        BY <1>1, <1>4, <2>5, <3>2
      <4> QED BY <4>2, <4>3, <1>0, <1>1, <1>6 DEF Carried
    <3> QED BY <3>1, <3>2
  <2>6. \A v, u \in Threads : v # u /\ pc'[v] \in Claiming /\ pc'[u] \in Claiming
          => pos'[v] # pos'[u]
    BY <1>0, <1>1 DEF Carried, Claiming
  <2>7. \A u \in Threads : pc'[u] \in {"look", "cas"} => Wrap(enqueuePos' - pos'[u]) <= MaxStall
    BY <1>0, <1>1 DEF Carried
  <2> QED BY <2>2, <2>3, <2>4, <2>5, <2>6, <2>7 DEF Carried
<1>10. UNCHANGED <<next, overflowLast, overflowLock, p, order>>
  BY DEF PushFill, overflow, serving
<1>11. ListInv'
  BY <1>0, <1>1, <1>10, ThreadFacts, ListStays
<1>12. PlaceInv'
  <2>1. ASSUME NEW s \in 0 .. RingSize - 1 PROVE InCell(s)' = InCell(s)
    <3>1. CASE s = Slot(k)
      <4>1. sequence[s] = Wrap(k) /\ Slot(Wrap(k)) = Slot(k)
        BY <1>4, <3>1, SlotFacts DEF Free
      <4> QED BY <4>1, <3>1, <1>1 DEF InCell
    <3>2. CASE s # Slot(k)
      BY <3>2, <1>1, <1>6, ThreadFacts DEF InCell
    <3> QED BY <3>1, <3>2
  <2>2. \A u \in Threads : InThread(u)' = InThread(u)
    BY <1>1 DEF InThread
  <2>3. Holding' = Holding
    BY <1>1, ThreadFacts DEF Holding
  <2> QED BY <1>0, <1>10, <2>1, <2>2, <2>3, PlacesStay
<1>13. Orders(order)'
  BY <1>0, <1>10
<1> QED BY <1>7, <1>8, <1>9, <1>11, <1>12, <1>13 DEF Inv

--------------------------------------------------------------------------------
(***************************************************************************)
(* The three ways in which a push returns.                                 *)
(***************************************************************************)

(* The thread's locals are dead; what it carried is gone from it. *)
LEMMA ReturnFacts ==
  ASSUME TypeOK, Carried, NEW t \in Threads, pc[t] \in Pushing, Return(t)
  PROVE  /\ pc' \in [Threads -> {"idle", "wake", "pop", "claim", "copy", "release", "call",
                         "lock", "walk", "listCall", "finished", "kept"} \union Pushing]
         /\ work' \in [Threads -> Items \union {Null}] /\ pos' \in [Threads -> 0 .. Modulus - 1]
         /\ pc'[t] \in {"pop", "wake"} /\ (t \in Producers => pc'[t] = "wake")
         /\ (t = Server => pc'[t] = "pop") /\ pc'[t] \notin Pushing
         /\ \A u \in Threads \ {t} : pc'[u] = pc[u] /\ work'[u] = work[u] /\ pos'[u] = pos[u]
         /\ pc'[Server] \in {"copy", "release"} <=> pc[Server] \in {"copy", "release"}
         /\ pc'[Server] = "copy" <=> pc[Server] = "copy"
         /\ pc'[Server] = "claim" <=> pc[Server] = "claim"
         /\ pc'[Server] = "release" <=> pc[Server] = "release"
         /\ pc'[Server] = "call" <=> pc[Server] = "call"
         /\ pc'[Server] = "walk" <=> pc[Server] = "walk"
         /\ \A x \in {"listCall", "finished", "kept"} : pc'[Server] = x <=> pc[Server] = x
         /\ pc'[Server] # "wake"
         /\ \A u \in Producers : pc'[u] \in {"idle", "wake"} \union Pushing
         /\ \A u \in Threads : pc'[u] \in Pushing => u # t /\ pc[u] \in Pushing
<1>1. /\ pc' = [pc EXCEPT ![t] = IF t = Server THEN "pop" ELSE "wake"]
      /\ work' = [work EXCEPT ![t] = Null] /\ pos' = [pos EXCEPT ![t] = 0]
  BY DEF Return, Goto
<1>2. /\ pc'[t] = (IF t = Server THEN "pop" ELSE "wake")
      /\ \A u \in Threads \ {t} : pc'[u] = pc[u] /\ work'[u] = work[u] /\ pos'[u] = pos[u]
  BY <1>1 DEF TypeOK
<1>3. 0 \in 0 .. Modulus - 1
  BY Sizes
<1>4. /\ pc' \in [Threads -> {"idle", "wake", "pop", "claim", "copy", "release", "call",
                         "lock", "walk", "listCall", "finished", "kept"} \union Pushing]
      /\ work' \in [Threads -> Items \union {Null}] /\ pos' \in [Threads -> 0 .. Modulus - 1]
  BY <1>1, <1>3 DEF TypeOK
<1>5. /\ pc'[t] \in {"pop", "wake"} /\ (t \in Producers => pc'[t] = "wake")
      /\ (t = Server => pc'[t] = "pop") /\ pc'[t] \notin Pushing
  BY <1>2, ThreadFacts DEF Pushing
<1>6. /\ pc'[Server] \in {"copy", "release"} <=> pc[Server] \in {"copy", "release"}
      /\ pc'[Server] = "copy" <=> pc[Server] = "copy"
      /\ pc'[Server] = "claim" <=> pc[Server] = "claim"
      /\ pc'[Server] = "release" <=> pc[Server] = "release"
      /\ pc'[Server] = "call" <=> pc[Server] = "call"
      /\ pc'[Server] = "walk" <=> pc[Server] = "walk"
      /\ \A x \in {"listCall", "finished", "kept"} : pc'[Server] = x <=> pc[Server] = x
      /\ pc'[Server] # "wake"
  BY <1>2, ThreadFacts DEF Pushing, Carried
<1>7. \A u \in Producers : pc'[u] \in {"idle", "wake"} \union Pushing
  BY <1>2, ThreadFacts DEF Carried
<1>8. \A u \in Threads : pc'[u] \in Pushing => u # t /\ pc[u] \in Pushing
  BY <1>2, <1>5
<1> QED BY <1>2, <1>4, <1>5, <1>6, <1>7, <1>8

LEMMA ReturnCarried ==
  ASSUME TypeOK, Carried, NEW t \in Threads, pc[t] \in Pushing, Return(t),
         UNCHANGED <<item, enqueuePos, hand>>
  PROVE  Carried'
<1>1. \A u \in Threads : pc'[u] \in Pushing =>
          u # t /\ pc[u] = pc'[u] /\ work'[u] = work[u] /\ pos'[u] = pos[u]
  BY ReturnFacts
<1>2. Claiming \subseteq Pushing /\ {"look", "cas", "publish"} \subseteq Pushing
  BY DEF Claiming, Pushing
<1>3. \A u \in Threads : pc'[u] \in Pushing => work'[u] \in Items
  BY <1>1 DEF Carried
<1>4. pc'[Server] \in {"release", "call", "listCall", "finished", "kept"} => hand' \in Items
  BY ReturnFacts DEF Carried
<1>5. \A u \in Threads : pc'[u] = "publish" => item'[Slot(pos'[u])] = work'[u]
  BY <1>1, <1>2 DEF Carried
<1>6. \A v, u \in Threads : v # u /\ pc'[v] \in Claiming /\ pc'[u] \in Claiming
          => pos'[v] # pos'[u]
  BY <1>1, <1>2 DEF Carried
<1>7. \A u \in Threads : pc'[u] \in {"look", "cas"} => Wrap(enqueuePos' - pos'[u]) <= MaxStall
  BY <1>1, <1>2 DEF Carried
<1> QED BY <1>3, <1>4, <1>5, <1>6, <1>7, ReturnFacts DEF Carried

(* The item's place moves from the thread to the cell. *)
LEMMA PushPublishKeeps ==
  ASSUME Inv, NEW t \in Threads, PushPublish(t) PROVE Inv'
<1>0. TypeOK /\ RingInv /\ Carried /\ ListInv /\ PlaceInv /\ Orders(order)
  BY DEF Inv
<1>1. /\ pc[t] = "publish" /\ pc[t] \in Pushing /\ Return(t)
      /\ sequence' = [sequence EXCEPT ![Slot(pos[t])] = Wrap(pos[t] + 1)]
      /\ UNCHANGED <<item, enqueuePos, dequeuePos, hand, next, overflowLast, overflowLock, p, order>>
  BY DEF Pushing, PushPublish, At, overflow, serving
<1>2. /\ pc' \in [Threads -> {"idle", "wake", "pop", "claim", "copy", "release", "call",
                         "lock", "walk", "listCall", "finished", "kept"} \union Pushing]
      /\ work' \in [Threads -> Items \union {Null}] /\ pos' \in [Threads -> 0 .. Modulus - 1]
      /\ pc'[t] \in {"pop", "wake"} /\ pc'[t] \notin Pushing
      /\ \A u \in Threads \ {t} : pc'[u] = pc[u] /\ work'[u] = work[u] /\ pos'[u] = pos[u]
  BY <1>0, <1>1, ReturnFacts
<1>3. /\ pc'[Server] \in {"copy", "release"} <=> pc[Server] \in {"copy", "release"}
      /\ pc'[Server] = "copy" <=> pc[Server] = "copy"
      /\ pc'[Server] = "claim" <=> pc[Server] = "claim"
      /\ pc'[Server] = "release" <=> pc[Server] = "release"
      /\ pc'[Server] = "call" <=> pc[Server] = "call"
      /\ pc'[Server] = "walk" <=> pc[Server] = "walk"
      /\ \A x \in {"listCall", "finished", "kept"} : pc'[Server] = x <=> pc[Server] = x
  BY <1>0, <1>1, ReturnFacts
<1>4. work[t] \in Items /\ item[Slot(pos[t])] = work[t]
  BY <1>0, <1>1 DEF Carried
<1>5. PICK d \in Int, e \in Int : RingAt(d, e)
  BY <1>0 DEF RingInv
<1>6. PICK k \in d .. e - 1 :
           /\ k \in Int /\ pos[t] = Wrap(k) /\ Free(k) /\ Slot(pos[t]) = Slot(k)
           /\ \A j \in d .. d + RingSize - 1 : j # k => Slot(j) # Slot(k)
           /\ Held => Slot(d - 1) # Slot(k)
           /\ Free(e) => Slot(e) # Slot(k)
           /\ \A u \in Threads \ {t} : pc[u] \in {"fill", "publish"} =>
                \E j \in d .. e - 1 : pos[u] = Wrap(j) /\ Free(j) /\ j # k
  BY <1>0, <1>1, <1>5, ClaimedCell
<1>7. /\ Slot(k) \in 0 .. RingSize - 1 /\ k + 1 \in Int
      /\ Wrap(pos[t] + 1) = Wrap(k + 1) /\ Wrap(k + 1) \in 0 .. Modulus - 1
      /\ Slot(Wrap(k + 1)) # Slot(k) /\ Slot(Wrap(k)) = Slot(k)
  <2>1. /\ k + 1 \in Int /\ k + 1 # k /\ (k + 1) - k < RingSize /\ k - (k + 1) < RingSize
        /\ 1 \in Int
    BY <1>6, Sizes
  <2>2. Slot(k + 1) # Slot(k) /\ Slot(k) \in 0 .. RingSize - 1
    BY <1>6, <2>1, SlotFacts
  <2>3. Slot(Wrap(k + 1)) = Slot(k + 1) /\ Slot(Wrap(k)) = Slot(k)
    BY <1>6, <2>1, SlotFacts, Zenon
  <2>4. Wrap(Wrap(k) + 1) = Wrap(k + 1) /\ Wrap(k + 1) \in 0 .. Modulus - 1
    BY <1>6, <2>1, WrapFacts, Zenon
  <2> QED BY <1>6, <2>1, <2>2, <2>3, <2>4
<1>8. /\ sequence' \in [0 .. RingSize - 1 -> 0 .. Modulus - 1] /\ sequence'[Slot(k)] = Wrap(k + 1)
      /\ \A s \in 0 .. RingSize - 1 : s # Slot(k) => sequence'[s] = sequence[s]
  BY <1>0, <1>1, <1>6, <1>7 DEF TypeOK
<1>9. TypeOK'
  BY <1>0, <1>1, <1>2, <1>8 DEF TypeOK, overflow, serving, PushPublish
<1>10. RingInv'
  <2>1. \A j \in Int : Slot(j) # Slot(k) => Free(j)' = Free(j) /\ Ready(j)' = Ready(j)
    BY <1>8, SlotFacts DEF Free, Ready
  <2>2. Ready(k)'
    BY <1>8 DEF Ready
  <2>3. Held' = Held
    BY <1>3 DEF Held
  <2>4. /\ d <= e /\ e <= d + RingSize /\ (Held => e < d + RingSize)
        /\ dequeuePos = Wrap(d) /\ enqueuePos = Wrap(e)
    BY <1>5 DEF RingAt, CellsAt
  <2>5. ASSUME NEW j \in d .. e - 1
        PROVE  Free(j)' \/ (Ready(j)' /\ item'[Slot(j)] \in Items)
    <3>1. CASE j = k
      BY <3>1, <2>2, <1>1, <1>4, <1>6
    <3>2. CASE j # k
      <4>1. j \in d .. d + RingSize - 1 /\ j \in Int
        BY <2>4, Sizes
      <4> QED BY <3>2, <4>1, <2>1, <1>1, <1>5, <1>6 DEF RingAt, CellsAt
    <3> QED BY <3>1, <3>2
  <2>6. ASSUME NEW j \in e .. d + RingSize - 1
        PROVE  Free(j)' \/ (Held' /\ j = d + RingSize - 1)
    <3>1. j \in d .. d + RingSize - 1 /\ j \in Int /\ j # k
      BY <2>4, Sizes, <1>6
    <3> QED BY <3>1, <2>1, <2>3, <1>5, <1>6 DEF RingAt, CellsAt
  <2>7. Held' => Ready(d - 1)'
    <3>1. d - 1 \in Int
      OBVIOUS
    <3> QED BY <3>1, <2>1, <2>3, <1>5, <1>6 DEF RingAt, CellsAt
  <2>8. pc'[Server] = "copy" => item'[Slot(d - 1)] \in Items
    BY <1>1, <1>3, <1>5 DEF RingAt, CellsAt
  <2>9. pc'[Server] = "claim" => d < e /\ Ready(d)'
    <3>1. d \in d .. d + RingSize - 1
      BY Sizes
    <3> QED BY <3>1, <2>1, <2>2, <1>3, <1>5, <1>6 DEF RingAt, CellsAt
  <2>10. CellsAt(d, e)'
    BY <1>1, <2>3, <2>4, <2>5, <2>6, <2>7, <2>8, <2>9 DEF CellsAt
  <2>11. ASSUME NEW u \in Threads, pc'[u] \in Claiming
         PROVE  \E j \in d .. e - 1 : pos'[u] = Wrap(j) /\ Free(j)'
    <3>1. u # t /\ pc[u] \in {"fill", "publish"} /\ pos'[u] = pos[u]
      BY <1>2, <2>11 DEF Claiming
    <3>2. PICK j \in d .. e - 1 : pos[u] = Wrap(j) /\ Free(j) /\ j # k
      BY <3>1, <1>6
    <3>3. j \in d .. d + RingSize - 1 /\ j \in Int
      BY <2>4, Sizes
    <3> QED BY <3>1, <3>2, <3>3, <2>1, <1>6
  <2>12. ASSUME NEW u \in Threads, pc'[u] = "cas", pos'[u] = enqueuePos' PROVE Free(e)'
    <3>1. u # t /\ pc[u] = "cas" /\ pos[u] = enqueuePos
      BY <1>1, <1>2, <2>12
    <3>2. Free(e)
      BY <3>1, <1>5 DEF RingAt, ClaimsAt
    <3> QED BY <3>2, <2>1, <1>6
  <2> QED BY <2>10, <2>11, <2>12 DEF RingInv, RingAt, ClaimsAt
<1>11. Carried'
  BY <1>0, <1>1, ReturnCarried
<1>12. ListInv'
  BY <1>0, <1>1, <1>3, ListStays
<1>13. PlaceInv'
  <2>1. InCell(Slot(k)) = Null /\ InCell(Slot(k))' = work[t]
    <3>1. sequence[Slot(k)] = Wrap(k)
      BY <1>6 DEF Free
    <3>2. pc'[Server] = "release" => Slot(dequeuePos' - 1) # Slot(k)
      <4>1. pc'[Server] = "release" => Held /\ dequeuePos' = Wrap(d)
        BY <1>1, <1>3, <1>5 DEF Held, RingAt, CellsAt
      <4>2. Slot(Wrap(d) - 1) = Slot(d - 1)
        BY SlotFacts
      <4> QED BY <4>1, <4>2, <1>6
    <3> QED BY <3>1, <3>2, <1>1, <1>4, <1>6, <1>7, <1>8 DEF InCell
  <2>2. \A s \in 0 .. RingSize - 1 : s # Slot(k) => InCell(s)' = InCell(s)
    BY <1>1, <1>3, <1>8 DEF InCell
  <2>3. \A u \in Threads \ {t} : InThread(u)' = InThread(u)
    BY <1>2 DEF InThread
  <2>4. InThread(t) = work[t] /\ InThread(t)' = Null
    BY <1>1, <1>2 DEF InThread
  <2>5. Holding' = Holding
    BY <1>1, <1>3 DEF Holding
  <2>6. /\ contents[Thread(t)] = work[t] /\ contents[Cell(Slot(k))] \notin Items
        /\ contents'[Thread(t)] \notin Items /\ contents'[Cell(Slot(k))] = work[t]
    BY <2>1, <2>4, <1>7, ContentsNow, ContentsNext, NodeFacts
  <2>7. \A x \in Spots \ {Thread(t), Cell(Slot(k))} : contents'[x] = contents[x]
    BY <1>1, <2>2, <2>3, <2>5, SpotFacts, ContentsNow, ContentsNext
  <2>8. \A x \in Spots \ {Thread(t), Cell(Slot(k))} : Same(contents, contents', x)
    BY <2>7 DEF Same
  <2>9. Thread(t) \in Spots /\ Cell(Slot(k)) \in Spots
    BY <1>7, SpotFacts
  <2>10. Placed(contents', Unfinished)
    BY <1>0, <1>4, <2>6, <2>8, <2>9, PlacedMoves DEF PlaceInv
  <2>11. Unfinished' = Unfinished
    BY <1>1 DEF Unfinished
  <2> QED BY <2>10, <2>11 DEF PlaceInv
<1>14. Orders(order)'
  BY <1>0, <1>1
<1> QED BY <1>9, <1>10, <1>11, <1>12, <1>13, <1>14 DEF Inv

(* malloc failed: the item is dropped. *)
LEMMA SpillDropsKeeps ==
  ASSUME Inv, NEW t \in Threads, pc[t] = "spill", Return(t), Finished(work[t]),
         UNCHANGED <<ring, overflow, serving, wake>>
  PROVE  Inv'
<1>0. TypeOK /\ RingInv /\ Carried /\ ListInv /\ PlaceInv /\ Orders(order)
  BY DEF Inv
<1>1. /\ pc[t] \in Pushing /\ UNCHANGED <<item, enqueuePos, dequeuePos, sequence, hand, next, overflowLast, overflowLock, p>>
  BY DEF Pushing, ring, overflow, serving
<1>2. /\ pc' \in [Threads -> {"idle", "wake", "pop", "claim", "copy", "release", "call",
                         "lock", "walk", "listCall", "finished", "kept"} \union Pushing]
      /\ work' \in [Threads -> Items \union {Null}] /\ pos' \in [Threads -> 0 .. Modulus - 1]
      /\ pc'[t] \in {"pop", "wake"} /\ pc'[t] \notin Pushing
      /\ \A u \in Threads \ {t} : pc'[u] = pc[u] /\ work'[u] = work[u] /\ pos'[u] = pos[u]
  BY <1>0, <1>1, ReturnFacts
<1>3. /\ pc'[Server] \in {"copy", "release"} <=> pc[Server] \in {"copy", "release"}
      /\ pc'[Server] = "copy" <=> pc[Server] = "copy"
      /\ pc'[Server] = "claim" <=> pc[Server] = "claim"
      /\ pc'[Server] = "release" <=> pc[Server] = "release"
      /\ pc'[Server] = "call" <=> pc[Server] = "call"
      /\ pc'[Server] = "walk" <=> pc[Server] = "walk"
      /\ \A x \in {"listCall", "finished", "kept"} : pc'[Server] = x <=> pc[Server] = x
  BY <1>0, <1>1, ReturnFacts
<1>4. work[t] \in Items
  BY <1>0, <1>1 DEF Carried
<1>5. Orders(order') /\ Unfinished' = Unfinished \ {work[t]}
  BY <1>0, <1>4, FinishedOrder DEF Finished
<1>6. TypeOK'
  BY <1>0, <1>1, <1>2, <1>5 DEF TypeOK, Orders, serving
<1>7. RingInv'
  <2>1. \A u \in Threads : pc'[u] \in {"fill", "publish", "cas"} => pc[u] = pc'[u] /\ pos'[u] = pos[u]
    BY <1>2
  <2> QED BY <1>0, <1>3, <2>1, RingStays
<1>8. Carried'
  BY <1>0, <1>1, ReturnCarried
<1>9. ListInv'
  BY <1>0, <1>1, <1>3, ListStays
<1>10. PlaceInv'
  <2>1. \A s \in 0 .. RingSize - 1 : InCell(s)' = InCell(s)
    BY <1>1, <1>3 DEF InCell
  <2>2. \A u \in Threads \ {t} : InThread(u)' = InThread(u)
    BY <1>2 DEF InThread
  <2>3. InThread(t) = work[t] /\ InThread(t)' = Null
    BY <1>1, <1>2 DEF InThread
  <2>4. Holding' = Holding
    BY <1>1, <1>3 DEF Holding
  <2>5. contents[Thread(t)] = work[t] /\ contents'[Thread(t)] \notin Items
    BY <2>3, ContentsNow, ContentsNext, NodeFacts
  <2>6. \A x \in Spots \ {Thread(t)} : contents'[x] = contents[x]
    BY <1>1, <2>1, <2>2, <2>4, SpotFacts, ContentsNow, ContentsNext
  <2>7. \A x \in Spots \ {Thread(t)} : Same(contents, contents', x)
    BY <2>6 DEF Same
  <2>8. Thread(t) \in Spots
    BY SpotFacts
  <2>9. Placed(contents', Unfinished \ {work[t]})
    BY <1>0, <1>4, <2>5, <2>7, <2>8, PlacedDrops DEF PlaceInv
  <2> QED BY <1>5, <2>9 DEF PlaceInv
<1> QED BY <1>5, <1>6, <1>7, <1>8, <1>9, <1>10 DEF Inv

LEMMA SpillKeeps ==
  ASSUME Inv, NEW t \in Threads, Spill(t) PROVE Inv'
<1>1. CASE Goto(t, "append") /\ UNCHANGED <<local, order>>
  BY <1>1, SpillsKeeps DEF Spill, Goto, At
<1>2. CASE Return(t) /\ Finished(work[t])
  BY <1>2, SpillDropsKeeps DEF Spill, At
<1> QED BY <1>1, <1>2 DEF Spill

(* The item's node becomes the end of the list. *)
LEMMA LinkKeeps ==
  ASSUME Inv, NEW t \in Threads, Link(t) PROVE Inv'
<1>0. TypeOK /\ RingInv /\ Carried /\ ListInv /\ PlaceInv /\ Orders(order)
  BY DEF Inv
<1>1. /\ pc[t] = "append" /\ pc[t] \in Pushing /\ Return(t) /\ overflowLock = Null
      /\ next' = [next EXCEPT ![overflowLast] = work[t], ![work[t]] = Null]
      /\ overflowLast' = work[t]
      /\ UNCHANGED <<item, enqueuePos, dequeuePos, sequence, hand, overflowLock, p, order>>
      /\ UNCHANGED ring
  BY DEF Link, At, Pushing, ring, serving
<1>2. /\ pc' \in [Threads -> {"idle", "wake", "pop", "claim", "copy", "release", "call",
                         "lock", "walk", "listCall", "finished", "kept"} \union Pushing]
      /\ work' \in [Threads -> Items \union {Null}] /\ pos' \in [Threads -> 0 .. Modulus - 1]
      /\ pc'[t] \in {"pop", "wake"} /\ pc'[t] \notin Pushing
      /\ \A u \in Threads \ {t} : pc'[u] = pc[u] /\ work'[u] = work[u] /\ pos'[u] = pos[u]
  BY <1>0, <1>1, ReturnFacts
<1>3. /\ pc'[Server] \in {"copy", "release"} <=> pc[Server] \in {"copy", "release"}
      /\ pc'[Server] = "copy" <=> pc[Server] = "copy"
      /\ pc'[Server] = "claim" <=> pc[Server] = "claim"
      /\ pc'[Server] = "release" <=> pc[Server] = "release"
      /\ pc'[Server] = "call" <=> pc[Server] = "call"
      /\ pc'[Server] = "walk" <=> pc[Server] = "walk"
      /\ \A x \in {"listCall", "finished", "kept"} : pc'[Server] = x <=> pc[Server] = x
  BY <1>0, <1>1, ReturnFacts
<1>4. work[t] \in Items /\ overflowLast \in Nodes /\ p \in Nodes
  BY <1>0, <1>1 DEF Carried, TypeOK
<1>5. next[overflowLast] = Null /\ Chained(next) /\ pc[Server] # "walk"
  BY <1>0, <1>1, PointersAssumption, ThreadFacts DEF ListInv
<1>6. \A n \in Nodes : next[n] # work[t]
  <2>1. contents[Thread(t)] = work[t]
    BY <1>1, ContentsNow DEF InThread
  <2> QED BY <1>0, <1>4, <2>1, ContentsNow, SpotFacts DEF PlaceInv, Placed
<1>7. next[work[t]] = Freed /\ overflowLast # work[t] /\ Chained(next')
  <2>1. /\ next[work[t]] = Freed /\ overflowLast # work[t]
        /\ Chained([next EXCEPT ![overflowLast] = work[t], ![work[t]] = Null])
    BY <1>4, <1>5, <1>6, LinkChain, Zenon
  <2> QED BY <1>1, <2>1, Zenon
<1>8. /\ next'[overflowLast] = work[t] /\ next'[work[t]] = Null
      /\ \A n \in Nodes : n # overflowLast /\ n # work[t] => next'[n] = next[n]
  BY <1>0, <1>1, <1>4, <1>7, NodeFacts DEF TypeOK
<1>9. TypeOK'
  <2>1. next' \in [Nodes -> Items \union {Null, Freed}] /\ overflowLast' \in Nodes
    BY <1>1, <1>4, <1>7, NodeFacts DEF Chained
  <2> QED BY <1>0, <1>1, <1>2, <2>1 DEF TypeOK, serving, Link
<1>10. RingInv'
  <2>1. \A u \in Threads : pc'[u] \in {"fill", "publish", "cas"} => pc[u] = pc'[u] /\ pos'[u] = pos[u]
    BY <1>2
  <2> QED BY <1>0, <1>1, <1>3, <2>1, RingStays
<1>11. Carried'
  BY <1>0, <1>1, ReturnCarried
<1>12. ListInv'
  <2>1. ASSUME pc'[Server] \in Walking PROVE next'[p'] # Freed /\ hand' = next'[p']
    <3>1. pc[Server] \in Walking \ {"walk"}
      BY <1>3, <1>5, <2>1 DEF Walking
    <3>2. hand = next[p] /\ hand \in Items
      BY <3>1, <1>0 DEF ListInv, Carried, Walking
    <3>3. p # overflowLast /\ p # work[t]
      BY <3>2, <1>5, <1>7, NodeFacts
    <3> QED BY <3>2, <3>3, <1>1, <1>4, <1>8, NodeFacts
  <2>2. overflowLock' = IF pc'[Server] = "walk" THEN Server ELSE Null
    BY <1>0, <1>1, <1>3, <1>5
  <2>3. next'[overflowLast'] = Null
    BY <1>1, <1>8
  <2> QED BY <1>7, <2>1, <2>2, <2>3 DEF ListInv
<1>13. PlaceInv'
  <2>1. \A s \in 0 .. RingSize - 1 : InCell(s)' = InCell(s)
    BY <1>1, <1>3 DEF InCell
  <2>2. \A u \in Threads \ {t} : InThread(u)' = InThread(u)
    BY <1>2 DEF InThread
  <2>3. InThread(t) = work[t] /\ InThread(t)' = Null
    BY <1>1, <1>2 DEF InThread
  <2>4. Holding' = Holding
    BY <1>1, <1>3 DEF Holding
  <2>5. /\ contents[Thread(t)] = work[t] /\ contents[Node(overflowLast)] \notin Items
        /\ contents'[Thread(t)] \notin Items /\ contents'[Node(overflowLast)] = work[t]
    <3>1. contents'[Node(overflowLast)] = next'[overflowLast]
      BY <1>4, ContentsNext
    <3> QED BY <2>3, <3>1, <1>4, <1>5, <1>8, ContentsNow, ContentsNext, NodeFacts
  <2>6. \A x \in Spots \ {Thread(t), Node(overflowLast)} : Same(contents, contents', x)
    <3>1. \A n \in Nodes : n # overflowLast =>
             next'[n] = next[n] \/ (next[n] \notin Items /\ next'[n] \notin Items)
      BY <1>7, <1>8, NodeFacts
    <3> QED BY <3>1, <2>1, <2>2, <2>4, SpotFacts, ContentsNow, ContentsNext DEF Same
  <2>7. Thread(t) \in Spots /\ Node(overflowLast) \in Spots
    BY <1>4, SpotFacts
  <2>8. Placed(contents', Unfinished)
    BY <1>0, <1>4, <2>5, <2>6, <2>7, PlacedMoves DEF PlaceInv
  <2>9. Unfinished' = Unfinished
    BY <1>1 DEF Unfinished
  <2> QED BY <2>8, <2>9 DEF PlaceInv
<1>14. Orders(order)'
  BY <1>0, <1>1
<1> QED BY <1>9, <1>10, <1>11, <1>12, <1>13, <1>14 DEF Inv

LEMMA PushStepKeeps ==
  ASSUME Inv, NEW t \in Threads, PushStep(t) PROVE Inv'
  BY PushLoadKeeps, PushLookKeeps, PushCasKeeps, PushFillKeeps, PushPublishKeeps,
     SpillKeeps, LinkKeeps DEF PushStep

--------------------------------------------------------------------------------
(***************************************************************************)
(* Places and spots.  The places of an item, as OnePlace counts them, are  *)
(* the spots that hold it.                                                 *)
(***************************************************************************)
LEMMA RingPlace ==
  ASSUME NEW d \in Int, NEW e \in Int, RingAt(d, e), NEW i
  PROVE  \A n : n \in RingPlaces(i) <=>
                 \E k \in d .. e - 1 : n = Wrap(k) /\ Ready(k) /\ item[Slot(k)] = i
<1>1. /\ d <= e /\ e <= d + RingSize /\ dequeuePos = Wrap(d) /\ enqueuePos = Wrap(e)
      /\ e - d \in 0 .. Modulus - 1 /\ Wrap(d) \in Int
  <2>1. d <= e /\ e <= d + RingSize /\ dequeuePos = Wrap(d) /\ enqueuePos = Wrap(e)
    BY DEF RingAt, CellsAt
  <2> QED BY <2>1, Sizes, WrapFacts
<1>2. Wrap(enqueuePos - dequeuePos) = e - d
  BY <1>1, WrapFacts
<1>3. ASSUME NEW k \in d .. e - 1
      PROVE  /\ k \in Int /\ Wrap(k) \in 0 .. Modulus - 1
             /\ Wrap(Wrap(k) - dequeuePos) = k - d
             /\ Slot(Wrap(k)) = Slot(k) /\ Wrap(Wrap(k) + 1) = Wrap(k + 1)
  <2>1. k \in Int /\ k - d \in 0 .. Modulus - 1 /\ 1 \in Int
    BY <1>1, Sizes
  <2>2. Wrap(Wrap(k) - Wrap(d)) = Wrap(k - d) /\ Wrap(k - d) = k - d
    BY <2>1, WrapFacts, Zenon
  <2>3. Wrap(k) \in 0 .. Modulus - 1 /\ Wrap(Wrap(k) + 1) = Wrap(k + 1)
    BY <2>1, WrapFacts, Zenon
  <2>4. Slot(Wrap(k)) = Slot(k)
    BY <2>1, SlotFacts, Zenon
  <2> QED BY <1>1, <2>1, <2>2, <2>3, <2>4
<1>4. RingPlaces(i) = {n \in 0 .. Modulus - 1 :
         /\ Wrap(n - dequeuePos) < e - d
         /\ sequence[Slot(n)] = Wrap(n + 1) /\ item[Slot(n)] = i}
  <2>1. (enqueuePos - dequeuePos) % Modulus = e - d
    BY <1>2 DEF Wrap
  <2> QED BY <2>1 DEF RingPlaces, Wrap
<1>5. ASSUME NEW k \in d .. e - 1, Ready(k), item[Slot(k)] = i PROVE Wrap(k) \in RingPlaces(i)
  <2>1. Wrap(Wrap(k) - dequeuePos) < e - d
    BY <1>1, <1>3
  <2> QED BY <2>1, <1>3, <1>4, <1>5 DEF Ready
<1>6. ASSUME NEW n \in RingPlaces(i)
      PROVE  \E k \in d .. e - 1 : n = Wrap(k) /\ Ready(k) /\ item[Slot(k)] = i
  <2> DEFINE x == n - Wrap(d)
             k == d + Wrap(x)
  <2>1. n \in 0 .. Modulus - 1 /\ n \in Int /\ x \in Int
    BY <1>1, <1>4, Sizes
  <2>2. Wrap(x) < e - d /\ sequence[Slot(n)] = Wrap(n + 1) /\ item[Slot(n)] = i
    BY <1>1, <1>4
  <2>3. Wrap(x) \in 0 .. Modulus - 1 /\ Wrap(x) \in Int
    BY <2>1, WrapFacts, Zenon
  <2>4. Wrap(Wrap(x) + d) = Wrap(x + d) /\ Wrap(Wrap(d) + x) = Wrap(d + x) /\ Wrap(n) = n
    BY <2>1, WrapFacts, Zenon
  <2>5. x + d = d + x /\ Wrap(d) + x = n /\ Wrap(x) + d = k
    BY <1>1, <2>1, <2>3
  <2>6. Wrap(k) = n
    BY <2>4, <2>5, Zenon
  <2>7. k \in d .. e - 1
    BY <1>1, <2>2, <2>3
  <2> HIDE DEF k
  <2> QED BY <2>2, <2>6, <2>7, <1>3 DEF Ready
<1> QED BY <1>5, <1>6

(* What the spot of a place is. *)
Spot(y, x, d, e) ==
  \/ \E k \in d .. e - 1 : y = <<"ring", Wrap(k)>> /\ x = Cell(Slot(k))
  \/ y = <<"slot", Server>> /\ x = Cell(Slot(d - 1)) /\ Held
  \/ \E t \in Threads : y = <<"thread", t>> /\ x = Thread(t)
  \/ y = <<"hand", Server>> /\ x = InHand
  \/ \E n \in Nodes : y = <<"node", n>> /\ x = Node(n)

LEMMA OneOfSpot ==
  ASSUME NEW d \in Int, NEW e \in Int, RingAt(d, e), NEW x, NEW y, NEW z,
         Spot(y, x, d, e), Spot(z, x, d, e)
  PROVE  y = z
<1>0. d <= e /\ e <= d + RingSize /\ (Held => e < d + RingSize)
  BY DEF RingAt, CellsAt
<1>1. \A j, k \in d .. e - 1 : Slot(j) = Slot(k) => j = k
  <2> SUFFICES ASSUME NEW j \in d .. e - 1, NEW k \in d .. e - 1, j # k PROVE Slot(j) # Slot(k)
    OBVIOUS
  <2>1. j \in Int /\ k \in Int /\ j - k < RingSize /\ k - j < RingSize
    BY <1>0, Sizes
  <2> QED BY <2>1, SlotFacts
<1>2. Held => \A k \in d .. e - 1 : Slot(k) # Slot(d - 1)
  <2> SUFFICES ASSUME Held, NEW k \in d .. e - 1 PROVE Slot(k) # Slot(d - 1)
    OBVIOUS
  <2>1. /\ k \in Int /\ d - 1 \in Int /\ k # d - 1
        /\ k - (d - 1) < RingSize /\ (d - 1) - k < RingSize
    BY <1>0, Sizes
  <2> QED BY <2>1, SlotFacts
<1>3. CASE \E s : x = Cell(s)
  BY <1>1, <1>2, <1>3, SpotFacts DEF Spot
<1>4. CASE \A s : x # Cell(s)
  BY <1>4, SpotFacts DEF Spot
<1> QED BY <1>3, <1>4

LEMMA PlaceForms ==
  ASSUME NEW d \in Int, NEW e \in Int, RingAt(d, e), NEW i \in Items, NEW y
  PROVE  y \in Places(i) <=>
           \/ \E k \in d .. e - 1 : y = <<"ring", Wrap(k)>> /\ Ready(k) /\ item[Slot(k)] = i
           \/ y = <<"slot", Server>> /\ pc[Server] = "copy" /\ item[Slot(d - 1)] = i
           \/ \E t \in Threads : y = <<"thread", t>> /\ InThread(t) = i
           \/ y = <<"hand", Server>> /\ Holding = i
           \/ \E n \in Nodes : y = <<"node", n>> /\ next[n] = i
<1>1. y \in {<<"ring", n>> : n \in RingPlaces(i)} <=>
        \E k \in d .. e - 1 : y = <<"ring", Wrap(k)>> /\ Ready(k) /\ item[Slot(k)] = i
  BY RingPlace
<1>2. y \in {<<"thread", t>> : t \in {t \in Threads : work[t] = i /\ pc[t] \in Pushing}} <=>
        \E t \in Threads : y = <<"thread", t>> /\ InThread(t) = i
  BY NodeFacts DEF InThread
<1>3. y \in {<<"hand", s>> : s \in {s \in {Server} : hand = i /\ pc[s] \in {"release", "call"}}} <=>
        y = <<"hand", Server>> /\ Holding = i
  BY NodeFacts DEF Holding
<1>4. y \in {<<"slot", s>> : s \in {s \in {Server} : pc[s] = "copy"
                                     /\ item[Slot(dequeuePos - 1)] = i}} <=>
        y = <<"slot", Server>> /\ pc[Server] = "copy" /\ item[Slot(d - 1)] = i
  <2>1. Slot(dequeuePos - 1) = Slot(d - 1)
    BY SlotFacts DEF RingAt, CellsAt
  <2> QED BY <2>1
<1>5. y \in {<<"node", n>> : n \in {n \in Nodes : next[n] = i}} <=>
        \E n \in Nodes : y = <<"node", n>> /\ next[n] = i
  OBVIOUS
<1> QED BY <1>1, <1>2, <1>3, <1>4, <1>5 DEF Places

(* Every place of an item is a spot that holds it. *)
LEMMA PlaceToSpot ==
  ASSUME TypeOK, NEW d \in Int, NEW e \in Int, RingAt(d, e), NEW i \in Items, NEW y \in Places(i)
  PROVE  \E x \in Spots : contents[x] = i /\ Spot(y, x, d, e)
<1>0. /\ d <= e /\ e <= d + RingSize /\ (Held => e < d + RingSize)
      /\ Slot(dequeuePos - 1) = Slot(d - 1)
  BY SlotFacts DEF RingAt, CellsAt
<1>1. ASSUME NEW k \in Int, Ready(k) PROVE Slot(sequence[Slot(k)]) # Slot(k)
  <2>1. k + 1 \in Int /\ k + 1 # k /\ (k + 1) - k < RingSize /\ k - (k + 1) < RingSize
    BY Sizes
  <2>2. Slot(k + 1) # Slot(k) /\ Slot(Wrap(k + 1)) = Slot(k + 1)
    BY <2>1, SlotFacts
  <2> QED BY <1>1, <2>2 DEF Ready
<1>2. ASSUME NEW k \in d .. e - 1, y = <<"ring", Wrap(k)>>, Ready(k), item[Slot(k)] = i
      PROVE  \E x \in Spots : contents[x] = i /\ Spot(y, x, d, e)
  <2>1. k \in Int /\ Slot(k) \in 0 .. RingSize - 1
    BY SlotFacts
  <2>2. Held => Slot(k) # Slot(d - 1)
    <3> SUFFICES ASSUME Held PROVE Slot(k) # Slot(d - 1)
      OBVIOUS
    <3>1. /\ d - 1 \in Int /\ k # d - 1
          /\ k - (d - 1) < RingSize /\ (d - 1) - k < RingSize
      BY <1>0, <2>1, Sizes
    <3> QED BY <2>1, <3>1, SlotFacts
  <2>3. InCell(Slot(k)) = i
    BY <1>0, <1>1, <1>2, <2>1, <2>2 DEF InCell, Held
  <2>4. contents[Cell(Slot(k))] = i /\ Cell(Slot(k)) \in Spots
    BY <2>1, <2>3, ContentsNow, SpotFacts
  <2> QED BY <1>2, <2>4 DEF Spot
<1>3. ASSUME y = <<"slot", Server>>, pc[Server] = "copy", item[Slot(d - 1)] = i
      PROVE  \E x \in Spots : contents[x] = i /\ Spot(y, x, d, e)
  <2>1. Held /\ d - 1 \in Int /\ Slot(d - 1) \in 0 .. RingSize - 1
    BY <1>3, SlotFacts DEF Held
  <2>2. Ready(d - 1)
    BY <2>1 DEF RingAt, CellsAt
  <2>3. InCell(Slot(d - 1)) = i
    BY <1>1, <1>3, <2>1, <2>2 DEF InCell
  <2>4. contents[Cell(Slot(d - 1))] = i /\ Cell(Slot(d - 1)) \in Spots
    BY <2>1, <2>3, ContentsNow, SpotFacts
  <2> QED BY <1>3, <2>1, <2>4 DEF Spot
<1>4. ASSUME NEW t \in Threads, y = <<"thread", t>>, InThread(t) = i
      PROVE  \E x \in Spots : contents[x] = i /\ Spot(y, x, d, e)
  BY <1>4, ContentsNow, SpotFacts DEF Spot
<1>5. ASSUME y = <<"hand", Server>>, Holding = i
      PROVE  \E x \in Spots : contents[x] = i /\ Spot(y, x, d, e)
  BY <1>5, ContentsNow, SpotFacts DEF Spot
<1>6. ASSUME NEW n \in Nodes, y = <<"node", n>>, next[n] = i
      PROVE  \E x \in Spots : contents[x] = i /\ Spot(y, x, d, e)
  BY <1>6, ContentsNow, SpotFacts DEF Spot
<1> QED BY <1>2, <1>3, <1>4, <1>5, <1>6, PlaceForms

(* Every spot that holds an item is a place of it. *)
LEMMA SpotToPlace ==
  ASSUME TypeOK, NEW d \in Int, NEW e \in Int, RingAt(d, e), NEW i \in Items,
         NEW x \in Spots, contents[x] = i
  PROVE  Places(i) # {}
<1>1. ASSUME NEW s \in 0 .. RingSize - 1, x = Cell(s) PROVE \E y : y \in Places(i)
  <2>1. /\ Slot(sequence[s]) # s /\ item[s] = i
        /\ ~(pc[Server] = "release" /\ s = Slot(dequeuePos - 1))
    <3>1. InCell(s) = i
      BY <1>1, ContentsNow
    <3> QED BY <3>1, NodeFacts DEF InCell
  <2>2. PICK k \in d .. d + RingSize - 1 : Slot(k) = s
    BY SlotCover
  <2>3. k \in Int /\ ~Free(k)
    <3>1. k \in Int
      OBVIOUS
    <3>2. Slot(Wrap(k)) = Slot(k)
      BY <3>1, SlotFacts
    <3> QED BY <2>1, <2>2, <3>1, <3>2 DEF Free
  <2>4. CASE k \in d .. e - 1
    <3>1. Ready(k)
      BY <2>3, <2>4 DEF RingAt, CellsAt
    <3>2. <<"ring", Wrap(k)>> \in Places(i)
      BY <2>1, <2>2, <2>4, <3>1, PlaceForms
    <3> QED BY <3>2
  <2>5. CASE k \in e .. d + RingSize - 1
    <3>1. Held /\ k = d + RingSize - 1
      BY <2>3, <2>5 DEF RingAt, CellsAt
    <3>2. k = (d - 1) + RingSize /\ d - 1 \in Int
      BY <3>1, Sizes
    <3>3. Slot(d - 1) = s /\ Slot(dequeuePos - 1) = s
      BY <2>2, <3>2, SlotFacts DEF RingAt, CellsAt
    <3>4. pc[Server] = "copy"
      BY <2>1, <3>1, <3>3 DEF Held
    <3> QED BY <2>1, <3>3, <3>4, PlaceForms
  <2>6. k \in d .. e - 1 \/ k \in e .. d + RingSize - 1
    <3>1. d <= e
      BY DEF RingAt, CellsAt
    <3> QED BY <3>1, Sizes
  <2> QED BY <2>4, <2>5, <2>6
<1>2. ASSUME NEW t \in Threads, x = Thread(t) PROVE \E y : y \in Places(i)
  BY <1>2, ContentsNow, PlaceForms
<1>3. ASSUME x = InHand PROVE \E y : y \in Places(i)
  BY <1>3, ContentsNow, PlaceForms
<1>4. ASSUME NEW n \in Nodes, x = Node(n) PROVE \E y : y \in Places(i)
  BY <1>4, ContentsNow, PlaceForms
<1> QED BY <1>1, <1>2, <1>3, <1>4, SpotFacts

(* The items that are somewhere are the unfinished ones. *)
LEMMA PendingIsUnfinished ==
  ASSUME Inv, NEW i \in Items
  PROVE  Places(i) # {} <=> i \in Unfinished
<1>1. PICK d \in Int, e \in Int : RingAt(d, e)
  BY DEF Inv, RingInv
<1>2. TypeOK /\ Placed(contents, Unfinished)
  BY DEF Inv, PlaceInv
<1>3. ASSUME NEW y \in Places(i) PROVE i \in Unfinished
  BY <1>1, <1>2, PlaceToSpot DEF Placed
<1>4. ASSUME i \in Unfinished PROVE Places(i) # {}
  BY <1>1, <1>2, <1>4, SpotToPlace DEF Placed
<1> QED BY <1>3, <1>4

LEMMA OnePlaceHolds ==
  ASSUME Inv PROVE OnePlace
<1> SUFFICES ASSUME NEW i \in Items
             PROVE  Cardinality(Places(i)) = IF i \in Unfinished THEN 1 ELSE 0
  BY DEF OnePlace
<1>1. CASE i \notin Unfinished
  <2>1. Places(i) = {}
    BY <1>1, PendingIsUnfinished
  <2> QED BY <1>1, <2>1, FS_EmptySet
<1>2. CASE i \in Unfinished
  <2>1. PICK d \in Int, e \in Int : RingAt(d, e)
    BY DEF Inv, RingInv
  <2>2. TypeOK /\ Placed(contents, Unfinished)
    BY DEF Inv, PlaceInv
  <2>3. PICK y : y \in Places(i)
    BY <1>2, PendingIsUnfinished
  <2>4. ASSUME NEW z \in Places(i) PROVE z = y
    <3>1. PICK x \in Spots : contents[x] = i /\ Spot(y, x, d, e)
      BY <2>1, <2>2, <2>3, PlaceToSpot
    <3>2. PICK w \in Spots : contents[w] = i /\ Spot(z, w, d, e)
      BY <2>1, <2>2, <2>4, PlaceToSpot
    <3>3. x = w
      BY <2>2, <3>1, <3>2 DEF Placed
    <3> QED BY <2>1, <3>1, <3>2, <3>3, OneOfSpot
  <2>5. Places(i) = {y}
    BY <2>3, <2>4
  <2>6. Cardinality({y}) = 1
    BY FS_Singleton
  <2> QED BY <1>2, <2>5, <2>6
<1> QED BY <1>1, <1>2

--------------------------------------------------------------------------------
(***************************************************************************)
(* The callers of QueueWorkProc.                                           *)
(***************************************************************************)
LEMMA QueueWorkProcKeeps ==
  ASSUME Inv, NEW i \in Items, QueueWorkProc(i) PROVE Inv'
<1> DEFINE t == i[1]
<1>0. TypeOK /\ RingInv /\ Carried /\ ListInv /\ PlaceInv /\ Orders(order)
  BY DEF Inv
<1>1. t \in Producers /\ t \in Threads /\ t # Server
  BY Owner
<1>2. /\ pc[t] = "idle" /\ i \notin Pending /\ pc' = [pc EXCEPT ![t] = "load"]
      /\ work' = [work EXCEPT ![t] = i] /\ order' = [order EXCEPT ![t] = Append(@, i)]
      /\ UNCHANGED <<ring, overflow, pos, serving, wake>>
  BY DEF QueueWorkProc, At, Goto
<1> HIDE DEF t
<1>3. /\ pc'[t] = "load" /\ "load" \in Pushing /\ "idle" \notin Pushing /\ work'[t] = i
      /\ \A u \in Threads \ {t} : pc'[u] = pc[u] /\ work'[u] = work[u]
      /\ pc'[Server] = pc[Server]
  BY <1>0, <1>1, <1>2, ThreadFacts DEF TypeOK, Pushing
<1>4. /\ UNCHANGED <<sequence, item, enqueuePos, dequeuePos>>
      /\ UNCHANGED <<next, overflowLast, overflowLock, p, hand>>
  BY <1>2 DEF ring, overflow, serving
<1>5. i \notin Unfinished
  BY <1>2, PendingIsUnfinished DEF Pending
<1>6. Orders(order') /\ Unfinished' = Unfinished \union {i}
  BY <1>0, <1>2, <1>5, QueuedOrder DEF t
<1>7. TypeOK'
  <2>1. /\ pc' \in [Threads -> {"idle", "wake", "pop", "claim", "copy", "release", "call",
                         "lock", "walk", "listCall", "finished", "kept"} \union Pushing]
        /\ work' \in [Threads -> Items \union {Null}]
    BY <1>0, <1>2, <1>3 DEF TypeOK
  <2> QED BY <1>0, <1>2, <1>4, <1>6, <2>1 DEF TypeOK, Orders, serving
<1>8. RingInv'
  <2>1. \A u \in Threads : pc'[u] \in {"fill", "publish", "cas"} => pc[u] = pc'[u] /\ pos'[u] = pos[u]
    BY <1>2, <1>3
  <2> QED BY <1>0, <1>2, <1>3, <2>1, RingStays
<1>9. Carried'
  <2>1. \A u \in Threads : pc'[u] \in Pushing => work'[u] \in Items
    BY <1>0, <1>3 DEF Carried
  <2>2. \A u \in Producers : pc'[u] \in {"idle", "wake"} \union Pushing
    BY <1>0, <1>3, ThreadFacts DEF Carried
  <2>3. \A u \in Threads : pc'[u] = "publish" => item'[Slot(pos'[u])] = work'[u]
    BY <1>0, <1>2, <1>3, <1>4 DEF Carried
  <2>4. \A v, u \in Threads : v # u /\ pc'[v] \in Claiming /\ pc'[u] \in Claiming
          => pos'[v] # pos'[u]
    BY <1>0, <1>2, <1>3 DEF Carried, Claiming
  <2>5. \A u \in Threads : pc'[u] \in {"look", "cas"} => Wrap(enqueuePos' - pos'[u]) <= MaxStall
    BY <1>0, <1>2, <1>3, <1>4 DEF Carried
  <2> QED BY <1>0, <1>3, <1>4, <2>1, <2>2, <2>3, <2>4, <2>5 DEF Carried
<1>10. ListInv'
  BY <1>0, <1>3, <1>4, ListStays
<1>11. PlaceInv'
  <2>1. \A s \in 0 .. RingSize - 1 : InCell(s)' = InCell(s)
    BY <1>3, <1>4 DEF InCell
  <2>2. \A u \in Threads \ {t} : InThread(u)' = InThread(u)
    BY <1>3 DEF InThread
  <2>3. InThread(t) = Null /\ InThread(t)' = i
    BY <1>2, <1>3 DEF InThread
  <2>4. Holding' = Holding
    BY <1>3, <1>4 DEF Holding
  <2>5. contents[Thread(t)] \notin Items /\ contents'[Thread(t)] = i /\ Thread(t) \in Spots
    BY <1>1, <2>3, ContentsNow, ContentsNext, NodeFacts, SpotFacts
  <2>6. \A x \in Spots \ {Thread(t)} : contents'[x] = contents[x]
    BY <1>4, <2>1, <2>2, <2>4, SpotFacts, ContentsNow, ContentsNext
  <2>7. \A x \in Spots \ {Thread(t)} : Same(contents, contents', x)
    BY <2>6 DEF Same
  <2>8. Placed(contents', Unfinished \union {i})
    BY <1>0, <1>5, <2>5, <2>7, PlacedAdds DEF PlaceInv
  <2> QED BY <1>6, <2>8 DEF PlaceInv
<1> QED BY <1>6, <1>7, <1>8, <1>9, <1>10, <1>11 DEF Inv

LEMMA WakeServerKeeps ==
  ASSUME Inv, NEW t \in Producers, WakeServer(t) PROVE Inv'
<1>0. TypeOK /\ RingInv /\ Carried /\ ListInv /\ PlaceInv /\ Orders(order)
  BY DEF Inv
<1>1. /\ pc[t] = "wake" /\ pc' = [pc EXCEPT ![t] = "idle"] /\ wake' = TRUE
      /\ UNCHANGED <<ring, overflow, local, serving, order>>
  BY DEF WakeServer, At, Goto
<1>2. /\ pc'[t] = "idle" /\ "idle" \notin Pushing /\ "wake" \notin Pushing
      /\ \A u \in Threads \ {t} : pc'[u] = pc[u]
      /\ pc'[Server] = pc[Server] /\ t \in Threads
  BY <1>0, <1>1, ThreadFacts DEF TypeOK, Pushing
<1>3. /\ UNCHANGED <<sequence, item, enqueuePos, dequeuePos, work, pos>>
      /\ UNCHANGED <<next, overflowLast, overflowLock, p, hand, order>>
  BY <1>1 DEF ring, overflow, serving, local
<1>4. TypeOK'
  <2>1. pc' \in [Threads -> {"idle", "wake", "pop", "claim", "copy", "release", "call",
                         "lock", "walk", "listCall", "finished", "kept"} \union Pushing]
    BY <1>0, <1>1, <1>2 DEF TypeOK
  <2> QED BY <1>0, <1>1, <1>3, <2>1 DEF TypeOK, serving
<1>5. \A u \in Threads : pc'[u] \in Pushing => pc[u] = pc'[u]
  BY <1>2
<1>6. Claiming \subseteq Pushing /\ {"look", "cas", "publish", "fill"} \subseteq Pushing
  BY DEF Claiming, Pushing
<1>7. RingInv'
  BY <1>0, <1>1, <1>2, <1>3, <1>5, <1>6, RingStays
<1>8. Carried'
  <2>2. \A u \in Producers : pc'[u] \in {"idle", "wake"} \union Pushing
    BY <1>0, <1>2, ThreadFacts DEF Carried
  <2> QED BY <1>0, <1>2, <1>3, <1>5, <1>6, <2>2 DEF Carried
<1>9. ListInv'
  BY <1>0, <1>2, <1>3, ListStays
<1>10. PlaceInv'
  <2>1. \A s \in 0 .. RingSize - 1 : InCell(s)' = InCell(s)
    BY <1>2, <1>3 DEF InCell
  <2>2. \A u \in Threads : InThread(u)' = InThread(u)
    BY <1>1, <1>2, <1>3 DEF InThread
  <2>3. Holding' = Holding
    BY <1>2, <1>3 DEF Holding
  <2> QED BY <1>0, <1>3, <2>1, <2>2, <2>3, PlacesStay
<1> QED BY <1>0, <1>3, <1>4, <1>7, <1>8, <1>9, <1>10 DEF Inv

--------------------------------------------------------------------------------
(***************************************************************************)
(* The server's pass over the ring.                                        *)
(***************************************************************************)

(* The server goes from one point outside a push to another. *)
LEMMA ServerMoves ==
  ASSUME TypeOK, Carried, pc[Server] \notin Pushing,
         NEW x \in {"idle", "pop", "claim", "copy", "release", "call",
                    "lock", "walk", "listCall", "finished", "kept"},
         pc' = [pc EXCEPT ![Server] = x], UNCHANGED <<work, pos>>
  PROVE  /\ pc' \in [Threads -> {"idle", "wake", "pop", "claim", "copy", "release", "call",
                         "lock", "walk", "listCall", "finished", "kept"} \union Pushing]
         /\ pc'[Server] = x /\ \A t \in Threads \ {Server} : pc'[t] = pc[t]
         /\ \A t \in Threads : pc'[t] \in Pushing => t # Server /\ pc[t] = pc'[t]
         /\ \A t \in Threads : pc'[t] \in {"fill", "publish"} =>
              pc[t] \in {"fill", "publish"} /\ pos'[t] = pos[t]
         /\ \A t \in Threads : pc'[t] = "cas" => pc[t] = "cas" /\ pos'[t] = pos[t]
         /\ \A t \in Threads : InThread(t)' = InThread(t)
         /\ (x \in {"release", "call", "listCall", "finished", "kept"} => hand' \in Items)
              /\ item' = item /\ enqueuePos' = enqueuePos => Carried'
<1>1. /\ pc' \in [Threads -> {"idle", "wake", "pop", "claim", "copy", "release", "call",
                         "lock", "walk", "listCall", "finished", "kept"} \union Pushing]
      /\ pc'[Server] = x /\ \A t \in Threads \ {Server} : pc'[t] = pc[t]
      /\ x \notin Pushing /\ x # "wake"
  BY ThreadFacts DEF TypeOK, Pushing
<1>2. \A t \in Threads : pc'[t] \in Pushing => t # Server /\ pc[t] = pc'[t]
  BY <1>1
<1>3. Claiming \subseteq Pushing /\ {"look", "cas", "publish", "fill"} \subseteq Pushing
  BY DEF Claiming, Pushing
<1>4. \A t \in Threads : InThread(t)' = InThread(t)
  BY <1>1 DEF InThread
<1>5. ASSUME x \in {"release", "call", "listCall", "finished", "kept"} => hand' \in Items,
             item' = item, enqueuePos' = enqueuePos
      PROVE  Carried'
  <2>1. \A u \in Producers : pc'[u] \in {"idle", "wake"} \union Pushing
    BY <1>1, ThreadFacts DEF Carried
  <2>2. \A u \in Threads : pc'[u] = "publish" => item'[Slot(pos'[u])] = work'[u]
    BY <1>2, <1>3, <1>5 DEF Carried
  <2>3. \A v, u \in Threads : v # u /\ pc'[v] \in Claiming /\ pc'[u] \in Claiming
          => pos'[v] # pos'[u]
    BY <1>2, <1>3 DEF Carried
  <2>4. \A u \in Threads : pc'[u] \in {"look", "cas"} => Wrap(enqueuePos' - pos'[u]) <= MaxStall
    BY <1>2, <1>3, <1>5 DEF Carried
  <2> QED BY <1>1, <1>2, <1>5, <2>1, <2>2, <2>3, <2>4 DEF Carried
<1> QED BY <1>1, <1>2, <1>3, <1>4, <1>5

LEMMA BeginPassKeeps ==
  ASSUME Inv, NEW kind \in {"process", "zombies", "clear"}, BeginPass(kind) PROVE Inv'
<1>0. TypeOK /\ RingInv /\ Carried /\ ListInv /\ PlaceInv /\ Orders(order)
  BY DEF Inv
<1>1. /\ pc[Server] = "idle" /\ pc' = [pc EXCEPT ![Server] = "pop"] /\ pass' = kind
      /\ remaining' = (IF kind = "clear" THEN 0 ELSE Wrap(enqueuePos - dequeuePos))
      /\ UNCHANGED <<ring, work, pos, hand, next, overflowLast, overflowLock, p, order>>
      /\ UNCHANGED <<sequence, item, enqueuePos, dequeuePos>>
  BY DEF BeginPass, On, At, Do, Goto, Wrap, overflow, local, ring
<1>2. pc[Server] \notin Pushing
  BY <1>1 DEF Pushing
<1>3. /\ pc' \in [Threads -> {"idle", "wake", "pop", "claim", "copy", "release", "call",
                         "lock", "walk", "listCall", "finished", "kept"} \union Pushing]
      /\ pc'[Server] = "pop"
      /\ \A t \in Threads : InThread(t)' = InThread(t)
      /\ Carried'
  BY <1>0, <1>1, <1>2, ServerMoves
<1>4. remaining' \in 0 .. RingSize
  <2>1. PICK d \in Int, e \in Int : RingAt(d, e)
    BY <1>0 DEF RingInv
  <2>2. dequeuePos = Wrap(d) /\ enqueuePos = Wrap(e) /\ d <= e /\ e <= d + RingSize
    BY <2>1 DEF RingAt, CellsAt
  <2>3. Wrap(Wrap(e) - Wrap(d)) = Wrap(e - d)
    BY WrapFacts
  <2>4. e - d \in 0 .. RingSize /\ e - d \in 0 .. Modulus - 1
    BY <2>2, Sizes
  <2>5. Wrap(e - d) = e - d
    BY <2>4, WrapFacts, Zenon
  <2> QED BY <1>1, <2>2, <2>3, <2>4, <2>5, Sizes
<1>5. wake' \in BOOLEAN
  BY Zenon DEF BeginPass
<1>6. TypeOK'
  BY <1>0, <1>1, <1>3, <1>4, <1>5 DEF TypeOK
<1>7. RingInv'
  BY <1>0, <1>1, <1>2, <1>3, ServerMoves, RingStays
<1>8. ListInv'
  BY <1>0, <1>1, <1>3, ListStays
<1>9. PlaceInv'
  <2>1. \A s \in 0 .. RingSize - 1 : InCell(s)' = InCell(s)
    BY <1>1, <1>3 DEF InCell
  <2>2. Holding' = Holding
    BY <1>1, <1>3 DEF Holding
  <2> QED BY <1>0, <1>1, <1>3, <2>1, <2>2, PlacesStay
<1> QED BY <1>0, <1>1, <1>3, <1>6, <1>7, <1>8, <1>9 DEF Inv

(* A position whose cell is free is not ready, and the other way round. *)
LEMMA FreeOrReady ==
  ASSUME NEW k \in Int, Free(k), Ready(k) PROVE FALSE
<1>1. k + 1 \in Int /\ k + 1 # k /\ (k + 1) - k < Modulus /\ k - (k + 1) < Modulus
  BY Sizes
<1>2. Wrap(k + 1) # Wrap(k)
  BY <1>1, WrapFacts
<1> QED BY <1>2 DEF Free, Ready

LEMMA PopLookKeeps ==
  ASSUME Inv, PopLook PROVE Inv'
<1> DEFINE f == Diff(sequence[Slot(dequeuePos)], Wrap(dequeuePos + 1))
           x == IF (pass = "clear" \/ remaining > 0) /\ f = 0 THEN "claim" ELSE "lock"
<1>0. TypeOK /\ RingInv /\ Carried /\ ListInv /\ PlaceInv /\ Orders(order)
  BY DEF Inv
<1>1. /\ pc[Server] = "pop" /\ pc' = [pc EXCEPT ![Server] = x]
      /\ remaining' = (IF pass = "clear" \/ remaining = 0 \/ f # 0 THEN 0 ELSE remaining - 1)
      /\ UNCHANGED <<ring, work, pos, pass, hand, next, overflowLast, overflowLock, p, wake, order>>
      /\ UNCHANGED <<sequence, item, enqueuePos, dequeuePos>>
  BY DEF PopLook, On, At, Do, Goto, overflow, local, ring
<1>2. x \in {"claim", "lock"} /\ (x = "claim" => f = 0)
  OBVIOUS
<1>3. remaining' \in 0 .. RingSize
  BY <1>0, <1>1, Sizes DEF TypeOK
<1>4. f = 0 => sequence[Slot(dequeuePos)] = Wrap(dequeuePos + 1)
  <2>1. dequeuePos \in Int /\ dequeuePos + 1 \in Int
    BY <1>0, Sizes DEF TypeOK
  <2>2. Wrap(dequeuePos + 1) \in 0 .. Modulus - 1 /\ Slot(dequeuePos) \in 0 .. RingSize - 1
    BY <2>1, WrapFacts, SlotFacts, Zenon
  <2>3. sequence[Slot(dequeuePos)] \in 0 .. Modulus - 1
    BY <1>0, <2>2 DEF TypeOK
  <2> QED BY <2>2, <2>3, DiffZero
<1> HIDE DEF f
<1> HIDE DEF x
<1>5. pc[Server] \notin Pushing
  BY <1>1 DEF Pushing
<1>6. /\ pc' \in [Threads -> {"idle", "wake", "pop", "claim", "copy", "release", "call",
                         "lock", "walk", "listCall", "finished", "kept"} \union Pushing]
      /\ pc'[Server] = x
      /\ \A t \in Threads : InThread(t)' = InThread(t)
      /\ \A t \in Threads : pc'[t] \in {"fill", "publish"} =>
           pc[t] \in {"fill", "publish"} /\ pos'[t] = pos[t]
      /\ \A t \in Threads : pc'[t] = "cas" => pc[t] = "cas" /\ pos'[t] = pos[t]
      /\ Carried'
  BY <1>0, <1>1, <1>2, <1>5, ServerMoves
<1>7. TypeOK'
  BY <1>0, <1>1, <1>3, <1>6 DEF TypeOK
<1>8. RingInv'
  <2>1. PICK d \in Int, e \in Int : RingAt(d, e)
    BY <1>0 DEF RingInv
  <2>2. ~Held /\ ~Held' /\ pc'[Server] # "copy"
    BY <1>1, <1>2, <1>6 DEF Held
  <2>3. \A k \in Int : Free(k)' = Free(k) /\ Ready(k)' = Ready(k)
    BY <1>1 DEF Free, Ready
  <2>4. ASSUME pc'[Server] = "claim" PROVE d < e /\ Ready(d)
    <3>1. dequeuePos = Wrap(d) /\ d <= e
      BY <2>1 DEF RingAt, CellsAt
    <3>2. /\ Slot(Wrap(d)) = Slot(d) /\ Wrap(Wrap(d) + 1) = Wrap(d + 1)
      BY SlotFacts, WrapFacts
    <3>3. Ready(d)
      BY <1>2, <1>4, <1>6, <2>4, <3>1, <3>2 DEF Ready
    <3>4. d # e
      <4> SUFFICES ASSUME d = e PROVE FALSE
        OBVIOUS
      <4>1. d \in e .. d + RingSize - 1
        BY Sizes
      <4>2. Free(d)
        BY <2>1, <2>2, <4>1 DEF RingAt, CellsAt
      <4> QED BY <3>3, <4>2, FreeOrReady
    <3> QED BY <3>1, <3>3, <3>4
  <2>5. CellsAt(d, e)'
    BY <1>1, <2>1, <2>2, <2>3, <2>4 DEF RingAt, CellsAt
  <2>6. ClaimsAt(d, e)'
    BY <1>1, <1>6, <2>1, <2>3 DEF RingAt, ClaimsAt, Claiming
  <2> QED BY <2>5, <2>6 DEF RingInv, RingAt
<1>9. ListInv'
  BY <1>0, <1>1, <1>2, <1>6, ListStays
<1>10. PlaceInv'
  <2>1. \A s \in 0 .. RingSize - 1 : InCell(s)' = InCell(s)
    BY <1>1, <1>2, <1>6 DEF InCell
  <2>2. Holding' = Holding
    BY <1>1, <1>2, <1>6 DEF Holding
  <2> QED BY <1>0, <1>1, <1>6, <2>1, <2>2, PlacesStay
<1> QED BY <1>0, <1>1, <1>6, <1>7, <1>8, <1>9, <1>10 DEF Inv

(* The server takes the oldest cell; nobody has claimed it. *)
LEMMA ClaimKeeps ==
  ASSUME Inv, Claim PROVE Inv'
<1>0. TypeOK /\ RingInv /\ Carried /\ ListInv /\ PlaceInv /\ Orders(order)
  BY DEF Inv
<1>1. /\ pc[Server] = "claim" /\ pc' = [pc EXCEPT ![Server] = "copy"]
      /\ dequeuePos' = Wrap(dequeuePos + 1)
      /\ UNCHANGED <<work, pos, pass, remaining, hand, next, overflowLast, overflowLock, p, wake, order>>
      /\ UNCHANGED <<sequence, item, enqueuePos>>
  BY DEF Claim, On, At, Do, Goto, overflow, local, serving
<1>2. pc[Server] \notin Pushing
  BY <1>1 DEF Pushing
<1>3. /\ pc' \in [Threads -> {"idle", "wake", "pop", "claim", "copy", "release", "call",
                         "lock", "walk", "listCall", "finished", "kept"} \union Pushing]
      /\ pc'[Server] = "copy"
      /\ \A t \in Threads : InThread(t)' = InThread(t)
      /\ \A t \in Threads : pc'[t] \in {"fill", "publish"} =>
           pc[t] \in {"fill", "publish"} /\ pos'[t] = pos[t]
      /\ \A t \in Threads : pc'[t] = "cas" => pc[t] = "cas" /\ pos'[t] = pos[t]
      /\ Carried'
  BY <1>0, <1>1, <1>2, ServerMoves
<1>4. PICK d \in Int, e \in Int : RingAt(d, e)
  BY <1>0 DEF RingInv
<1>5. /\ d < e /\ e <= d + RingSize /\ dequeuePos = Wrap(d) /\ enqueuePos = Wrap(e) /\ Ready(d)
      /\ ~Free(d) /\ item[Slot(d)] \in Items
  <2>1. d < e /\ e <= d + RingSize /\ dequeuePos = Wrap(d) /\ enqueuePos = Wrap(e) /\ Ready(d)
    BY <1>1, <1>4 DEF RingAt, CellsAt
  <2>2. ~Free(d)
    BY <2>1, FreeOrReady
  <2>3. d \in d .. e - 1
    BY <2>1
  <2> QED BY <1>4, <2>1, <2>2, <2>3 DEF RingAt, CellsAt
<1>6. dequeuePos' = Wrap(d + 1) /\ dequeuePos' \in 0 .. Modulus - 1
  <2>1. d + 1 \in Int /\ 1 \in Int
    OBVIOUS
  <2> QED BY <1>1, <1>5, <2>1, WrapFacts, Zenon
<1>7. TypeOK'
  BY <1>0, <1>1, <1>3, <1>6 DEF TypeOK
<1>8. RingInv'
  <2>1. ~Held /\ Held'
    BY <1>1, <1>3 DEF Held
  <2>2. \A k \in Int : Free(k)' = Free(k) /\ Ready(k)' = Ready(k)
    BY <1>1 DEF Free, Ready
  <2> DEFINE c == d + 1
  <2>3. /\ c \in Int /\ c <= e /\ e < c + RingSize /\ e <= c + RingSize /\ c - 1 = d
        /\ \A k \in c .. e - 1 : k \in d .. e - 1 /\ k # d
        /\ \A k \in e .. c + RingSize - 1 : k = c + RingSize - 1 \/ k \in e .. d + RingSize - 1
        /\ \A k \in d .. e - 1 : k # d => k \in c .. e - 1
    BY <1>5, Sizes
  <2>4. dequeuePos' = Wrap(c)
    BY <1>6
  <2> HIDE DEF c
  <2>5. \A k \in c .. e - 1 : Free(k)' \/ (Ready(k)' /\ item'[Slot(k)] \in Items)
    BY <1>1, <1>4, <2>2, <2>3 DEF RingAt, CellsAt
  <2>6. \A k \in e .. c + RingSize - 1 : Free(k)' \/ (Held' /\ k = c + RingSize - 1)
    BY <1>4, <2>1, <2>2, <2>3 DEF RingAt, CellsAt
  <2>7. Ready(c - 1)' /\ item'[Slot(c - 1)] \in Items
    BY <1>1, <1>5, <2>2, <2>3
  <2>8. CellsAt(c, e)'
    BY <1>1, <1>3, <1>5, <2>3, <2>4, <2>5, <2>6, <2>7 DEF CellsAt
  <2>9. ASSUME NEW t \in Threads, pc'[t] \in Claiming
        PROVE  \E k \in c .. e - 1 : pos'[t] = Wrap(k) /\ Free(k)'
    <3>1. PICK k \in d .. e - 1 : pos[t] = Wrap(k) /\ Free(k)
      BY <1>3, <1>4, <2>9 DEF RingAt, ClaimsAt, Claiming
    <3>2. k # d
      BY <1>5, <3>1
    <3> QED BY <1>1, <2>2, <2>3, <3>1, <3>2
  <2>10. \A t \in Threads : pc'[t] = "cas" /\ pos'[t] = enqueuePos' => Free(e)'
    BY <1>1, <1>3, <1>4, <2>2 DEF RingAt, ClaimsAt
  <2> QED BY <2>3, <2>8, <2>9, <2>10 DEF RingInv, RingAt, ClaimsAt
<1>9. ListInv'
  BY <1>0, <1>1, <1>3, ListStays
<1>10. PlaceInv'
  <2>1. \A s \in 0 .. RingSize - 1 : InCell(s)' = InCell(s)
    BY <1>1, <1>3 DEF InCell
  <2>2. Holding' = Holding
    BY <1>1, <1>3 DEF Holding
  <2> QED BY <1>0, <1>1, <1>3, <2>1, <2>2, PlacesStay
<1> QED BY <1>0, <1>1, <1>3, <1>7, <1>8, <1>9, <1>10 DEF Inv

(* The item's place moves from the cell to the server's hand. *)
LEMMA CopyKeeps ==
  ASSUME Inv, Copy PROVE Inv'
<1>0. TypeOK /\ RingInv /\ Carried /\ ListInv /\ PlaceInv /\ Orders(order)
  BY DEF Inv
<1>1. /\ pc[Server] = "copy" /\ pc' = [pc EXCEPT ![Server] = "release"]
      /\ hand' = item[Slot(dequeuePos - 1)]
      /\ UNCHANGED <<ring, work, pos, pass, remaining, next, overflowLast, overflowLock, p, wake, order>>
      /\ UNCHANGED <<sequence, item, enqueuePos, dequeuePos>>
  BY DEF Copy, On, At, Do, Goto, overflow, local, ring
<1>2. pc[Server] \notin Pushing
  BY <1>1 DEF Pushing
<1>3. PICK d \in Int, e \in Int : RingAt(d, e)
  BY <1>0 DEF RingInv
<1>4. /\ Slot(dequeuePos - 1) = Slot(d - 1) /\ Ready(d - 1) /\ item[Slot(d - 1)] \in Items
      /\ d - 1 \in Int
  BY <1>1, <1>3, SlotFacts DEF RingAt, CellsAt, Held
<1>5. /\ Slot(d - 1) \in 0 .. RingSize - 1 /\ Slot(sequence[Slot(d - 1)]) # Slot(d - 1)
      /\ hand' \in Items /\ hand' = item[Slot(d - 1)]
  <2>1. d \in Int /\ (d - 1) + 1 = d /\ d # d - 1 /\ d - (d - 1) < RingSize /\ (d - 1) - d < RingSize
    BY Sizes
  <2>2. Slot(d) # Slot(d - 1) /\ Slot(Wrap(d)) = Slot(d) /\ Slot(d - 1) \in 0 .. RingSize - 1
    BY <1>4, <2>1, SlotFacts
  <2> QED BY <1>1, <1>4, <2>1, <2>2 DEF Ready
<1>6. /\ pc' \in [Threads -> {"idle", "wake", "pop", "claim", "copy", "release", "call",
                         "lock", "walk", "listCall", "finished", "kept"} \union Pushing]
      /\ pc'[Server] = "release"
      /\ \A t \in Threads : InThread(t)' = InThread(t)
      /\ \A t \in Threads : pc'[t] \in {"fill", "publish"} =>
           pc[t] \in {"fill", "publish"} /\ pos'[t] = pos[t]
      /\ \A t \in Threads : pc'[t] = "cas" => pc[t] = "cas" /\ pos'[t] = pos[t]
      /\ Carried'
  BY <1>0, <1>1, <1>2, <1>5, ServerMoves
<1>7. TypeOK'
  BY <1>0, <1>1, <1>5, <1>6 DEF TypeOK
<1>8. RingInv'
  BY <1>0, <1>1, <1>6, RingStays
<1>9. ListInv'
  BY <1>0, <1>1, <1>6, ListStays
<1>10. PlaceInv'
  <2> DEFINE c == Slot(d - 1)
  <2>1. InCell(c) = hand' /\ InCell(c)' = Null /\ Holding = Null /\ Holding' = hand'
    <3>1. InCell(c) = hand'
      BY <1>1, <1>5 DEF InCell
    <3>2. dequeuePos' = dequeuePos
      BY <1>1
    <3>3. InCell(c)' = Null
      BY <1>4, <1>6, <3>2 DEF InCell
    <3> QED BY <1>1, <1>6, <3>1, <3>3 DEF Holding
  <2>2. \A s \in 0 .. RingSize - 1 : s # c => InCell(s)' = InCell(s)
    BY <1>1, <1>4, <1>6 DEF InCell
  <2>3. c \in 0 .. RingSize - 1
    BY <1>5
  <2> HIDE DEF c
  <2>4. /\ contents[Cell(c)] = hand' /\ contents[InHand] \notin Items
        /\ contents'[Cell(c)] \notin Items /\ contents'[InHand] = hand'
    BY <2>1, <2>3, ContentsNow, ContentsNext, NodeFacts
  <2>5. \A x \in Spots \ {Cell(c), InHand} : contents'[x] = contents[x]
    BY <1>1, <1>6, <2>2, SpotFacts, ContentsNow, ContentsNext
  <2>6. \A x \in Spots \ {Cell(c), InHand} : Same(contents, contents', x)
    BY <2>5 DEF Same
  <2>7. Cell(c) \in Spots /\ InHand \in Spots
    BY <2>3, SpotFacts
  <2>8. Placed(contents', Unfinished)
    BY <1>0, <1>5, <2>4, <2>6, <2>7, PlacedMoves DEF PlaceInv
  <2>9. Unfinished' = Unfinished
    BY <1>1 DEF Unfinished
  <2> QED BY <2>8, <2>9 DEF PlaceInv
<1> QED BY <1>0, <1>1, <1>6, <1>7, <1>8, <1>9, <1>10 DEF Inv

(* The cell is free for the next round; no producer was in it. *)
LEMMA ReleaseKeeps ==
  ASSUME Inv, Release PROVE Inv'
<1>0. TypeOK /\ RingInv /\ Carried /\ ListInv /\ PlaceInv /\ Orders(order)
  BY DEF Inv
<1>1. /\ pc[Server] = "release" /\ pc' = [pc EXCEPT ![Server] = "call"]
      /\ item' = [item EXCEPT ![Slot(dequeuePos - 1)] = Null]
      /\ sequence' = [sequence EXCEPT ![Slot(dequeuePos - 1)]
                                    = Wrap(dequeuePos - 1 + RingSize)]
      /\ UNCHANGED <<work, pos, hand, pass, remaining, next, overflowLast, overflowLock, p, wake, order>>
      /\ UNCHANGED <<enqueuePos, dequeuePos>>
  BY DEF Release, On, At, Do, Goto, overflow, local, serving
<1>2. pc[Server] \notin Pushing /\ hand \in Items
  BY <1>0, <1>1 DEF Pushing, Carried
<1>3. PICK d \in Int, e \in Int : RingAt(d, e)
  BY <1>0 DEF RingInv
<1> DEFINE c == d - 1
           r == d + RingSize - 1
<1>4. /\ c \in Int /\ r \in Int /\ c + RingSize = r /\ r - RingSize = c
      /\ d <= e /\ e <= r /\ e <= d + RingSize
      /\ dequeuePos = Wrap(d) /\ enqueuePos = Wrap(e) /\ Held
  <2>1. d <= e /\ e < d + RingSize /\ dequeuePos = Wrap(d) /\ enqueuePos = Wrap(e) /\ Held
    BY <1>1, <1>3 DEF RingAt, CellsAt, Held
  <2> QED BY <2>1, Sizes
<1>5. Slot(dequeuePos - 1) = Slot(c) /\ Slot(c) \in 0 .. RingSize - 1 /\ Slot(r) = Slot(c)
  BY <1>4, SlotFacts
<1>6. Wrap(dequeuePos - 1 + RingSize) = Wrap(r) /\ Wrap(r) \in 0 .. Modulus - 1
  <2>1. Wrap(d) \in Int
    BY WrapFacts, Zenon
  <2>2. /\ RingSize - 1 \in Int /\ Wrap(d) - 1 + RingSize = Wrap(d) + (RingSize - 1)
        /\ d + (RingSize - 1) = r
    BY <2>1, Sizes
  <2>3. Wrap(Wrap(d) + (RingSize - 1)) = Wrap(d + (RingSize - 1))
    BY <2>2, WrapFacts, Zenon
  <2> QED BY <1>4, <2>2, <2>3, WrapFacts, Zenon
<1>7. /\ sequence' \in [0 .. RingSize - 1 -> 0 .. Modulus - 1] /\ sequence'[Slot(c)] = Wrap(r)
      /\ item' \in [0 .. RingSize - 1 -> Items \union {Null}] /\ item'[Slot(c)] = Null
      /\ \A s \in 0 .. RingSize - 1 : s # Slot(c) => sequence'[s] = sequence[s] /\ item'[s] = item[s]
  BY <1>0, <1>1, <1>5, <1>6 DEF TypeOK
<1>8. /\ pc' \in [Threads -> {"idle", "wake", "pop", "claim", "copy", "release", "call",
                         "lock", "walk", "listCall", "finished", "kept"} \union Pushing]
      /\ pc'[Server] = "call" /\ \A t \in Threads \ {Server} : pc'[t] = pc[t]
      /\ \A t \in Threads : InThread(t)' = InThread(t)
      /\ \A t \in Threads : pc'[t] \in Pushing => t # Server /\ pc[t] = pc'[t]
      /\ \A t \in Threads : pc'[t] \in {"fill", "publish"} =>
           pc[t] \in {"fill", "publish"} /\ pos'[t] = pos[t]
      /\ \A t \in Threads : pc'[t] = "cas" => pc[t] = "cas" /\ pos'[t] = pos[t]
  BY <1>0, <1>1, <1>2, ServerMoves
<1>9. TypeOK'
  BY <1>0, <1>1, <1>7, <1>8 DEF TypeOK
<1>10. \A k \in d .. r - 1 : k \in Int /\ Slot(k) # Slot(c)
  <2> SUFFICES ASSUME NEW k \in d .. r - 1 PROVE k \in Int /\ Slot(k) # Slot(c)
    OBVIOUS
  <2>1. k \in Int /\ k # c /\ k - c < RingSize /\ c - k < RingSize
    BY <1>4, Sizes
  <2> QED BY <1>4, <2>1, SlotFacts
<1>11. RingInv'
  <2>1. ~Held' /\ pc'[Server] # "copy" /\ pc'[Server] # "claim"
    BY <1>8 DEF Held
  <2>2. \A k \in d .. r - 1 : /\ Free(k)' = Free(k) /\ Ready(k)' = Ready(k)
                              /\ item'[Slot(k)] = item[Slot(k)]
    BY <1>7, <1>10, SlotFacts DEF Free, Ready
  <2>3. Free(r)'
    BY <1>5, <1>7 DEF Free
  <2>4. /\ \A k \in d .. e - 1 : k \in d .. r - 1
        /\ \A k \in e .. d + RingSize - 1 : k = r \/ (k \in d .. r - 1 /\ k \in e .. d + RingSize - 1)
        /\ e \in e .. d + RingSize - 1
    BY <1>4, Sizes
  <2>5. \A k \in d .. e - 1 : Free(k)' \/ (Ready(k)' /\ item'[Slot(k)] \in Items)
    BY <1>3, <2>2, <2>4 DEF RingAt, CellsAt
  <2>6. \A k \in e .. d + RingSize - 1 : Free(k)'
    <3> SUFFICES ASSUME NEW k \in e .. d + RingSize - 1 PROVE Free(k)'
      OBVIOUS
    <3>1. CASE k = r
      BY <2>3, <3>1
    <3>2. CASE k # r
      BY <1>3, <2>2, <2>4, <3>2 DEF RingAt, CellsAt
    <3> QED BY <3>1, <3>2
  <2>7. CellsAt(d, e)'
    BY <1>1, <1>4, <2>1, <2>5, <2>6 DEF CellsAt
  <2>8. ASSUME NEW t \in Threads, pc'[t] \in Claiming
        PROVE  \E k \in d .. e - 1 : pos'[t] = Wrap(k) /\ Free(k)'
    BY <1>3, <1>8, <2>2, <2>4, <2>8 DEF RingAt, ClaimsAt, Claiming
  <2>9. Free(e)'
    BY <2>4, <2>6
  <2> QED BY <2>7, <2>8, <2>9 DEF RingInv, RingAt, ClaimsAt
<1>12. Carried'
  <2>1. Claiming \subseteq Pushing /\ {"look", "cas", "publish", "fill"} \subseteq Pushing
    BY DEF Claiming, Pushing
  <2>2. ASSUME NEW t \in Threads, pc'[t] = "publish" PROVE item'[Slot(pos'[t])] = work'[t]
    <3>1. pc[t] = "publish" /\ pos'[t] = pos[t] /\ work'[t] = work[t]
      BY <1>1, <1>8, <2>1, <2>2
    <3>2. Slot(pos[t]) # Slot(c)
      BY <1>0, <1>3, <1>4, <3>1, ClaimedCell
    <3>3. pos[t] \in Int
      BY <1>0, Sizes DEF TypeOK
    <3>4. Slot(pos[t]) \in 0 .. RingSize - 1
      BY <3>3, SlotFacts
    <3> QED BY <1>0, <1>7, <3>1, <3>2, <3>4 DEF Carried
  <2>3. \A u \in Producers : pc'[u] \in {"idle", "wake"} \union Pushing
    BY <1>0, <1>8, ThreadFacts DEF Carried
  <2>4. \A v, u \in Threads : v # u /\ pc'[v] \in Claiming /\ pc'[u] \in Claiming
          => pos'[v] # pos'[u]
    BY <1>0, <1>1, <1>8, <2>1 DEF Carried
  <2>5. \A u \in Threads : pc'[u] \in {"look", "cas"} => Wrap(enqueuePos' - pos'[u]) <= MaxStall
    BY <1>0, <1>1, <1>8, <2>1 DEF Carried
  <2>6. \A u \in Threads : pc'[u] \in Pushing => work'[u] \in Items
    BY <1>0, <1>1, <1>8 DEF Carried
  <2> QED BY <1>1, <1>2, <1>8, <2>2, <2>3, <2>4, <2>5, <2>6 DEF Carried
<1>13. ListInv'
  BY <1>0, <1>1, <1>8, ListStays
<1>14. PlaceInv'
  <2>1. ASSUME NEW s \in 0 .. RingSize - 1 PROVE InCell(s)' = InCell(s)
    <3>1. CASE s = Slot(c)
      <4>1. Slot(Wrap(r)) = Slot(r)
        BY <1>4, SlotFacts
      <4>2. InCell(s) = Null
        BY <1>1, <1>5, <3>1 DEF InCell
      <4>3. InCell(s)' = Null
        BY <1>5, <1>7, <3>1, <4>1 DEF InCell
      <4> QED BY <4>2, <4>3
    <3>2. CASE s # Slot(c)
      BY <1>5, <1>7, <1>8, <3>2 DEF InCell
    <3> QED BY <3>1, <3>2
  <2>2. Holding' = Holding
    BY <1>1, <1>8 DEF Holding
  <2> QED BY <1>0, <1>1, <1>8, <2>1, <2>2, PlacesStay
<1> QED BY <1>0, <1>1, <1>9, <1>11, <1>12, <1>13, <1>14 DEF Inv

(* The item's function returned TRUE, or the item is dropped. *)
LEMMA DoneKeeps ==
  ASSUME Inv, pc[Server] = "call", Done,
         UNCHANGED <<ring, overflow, pos, pass, remaining, p, wake>>
  PROVE  Inv'
<1>0. TypeOK /\ RingInv /\ Carried /\ ListInv /\ PlaceInv /\ Orders(order)
  BY DEF Inv
<1>1. /\ pc' = [pc EXCEPT ![Server] = "pop"] /\ hand' = Null /\ Finished(hand)
      /\ UNCHANGED <<ring, work, pos, pass, remaining, next, overflowLast, overflowLock, p, wake>>
      /\ UNCHANGED <<sequence, item, enqueuePos, dequeuePos>>
  BY DEF Done, Do, Goto, overflow, ring
<1>2. pc[Server] \notin Pushing /\ hand \in Items
  BY <1>0 DEF Pushing, Carried
<1>3. /\ pc' \in [Threads -> {"idle", "wake", "pop", "claim", "copy", "release", "call",
                         "lock", "walk", "listCall", "finished", "kept"} \union Pushing]
      /\ pc'[Server] = "pop"
      /\ \A t \in Threads : InThread(t)' = InThread(t)
      /\ \A t \in Threads : pc'[t] \in {"fill", "publish"} =>
           pc[t] \in {"fill", "publish"} /\ pos'[t] = pos[t]
      /\ \A t \in Threads : pc'[t] = "cas" => pc[t] = "cas" /\ pos'[t] = pos[t]
      /\ Carried'
  BY <1>0, <1>1, <1>2, ServerMoves
<1>4. Orders(order') /\ Unfinished' = Unfinished \ {hand}
  BY <1>0, <1>1, <1>2, FinishedOrder DEF Finished
<1>5. TypeOK'
  BY <1>0, <1>1, <1>3, <1>4 DEF TypeOK, Orders
<1>6. RingInv'
  BY <1>0, <1>1, <1>3, RingStays
<1>7. ListInv'
  BY <1>0, <1>1, <1>3, ListStays
<1>8. PlaceInv'
  <2>1. \A s \in 0 .. RingSize - 1 : InCell(s)' = InCell(s)
    BY <1>1, <1>3 DEF InCell
  <2>2. Holding = hand /\ Holding' = Null
    BY <1>3 DEF Holding
  <2>3. contents[InHand] = hand /\ contents'[InHand] \notin Items /\ InHand \in Spots
    BY <2>2, ContentsNow, ContentsNext, NodeFacts, SpotFacts
  <2>4. \A x \in Spots \ {InHand} : contents'[x] = contents[x]
    BY <1>1, <1>3, <2>1, SpotFacts, ContentsNow, ContentsNext
  <2>5. \A x \in Spots \ {InHand} : Same(contents, contents', x)
    BY <2>4 DEF Same
  <2>6. Placed(contents', Unfinished \ {hand})
    BY <1>0, <1>2, <2>3, <2>5, PlacedDrops DEF PlaceInv
  <2> QED BY <1>4, <2>6 DEF PlaceInv
<1> QED BY <1>3, <1>4, <1>5, <1>6, <1>7, <1>8 DEF Inv

(* The server pushes the item in its hand to the queue's end. *)
LEMMA RequeueKeeps ==
  ASSUME Inv, pc[Server] = "call", Requeue,
         UNCHANGED <<ring, overflow, pos, pass, remaining, p, wake>>
  PROVE  Inv'
<1>0. TypeOK /\ RingInv /\ Carried /\ ListInv /\ PlaceInv /\ Orders(order)
  BY DEF Inv
<1>1. /\ pc' = [pc EXCEPT ![Server] = "load"] /\ work' = [work EXCEPT ![Server] = hand]
      /\ hand' = Null
      /\ UNCHANGED <<ring, pos, pass, remaining, next, overflowLast, overflowLock, p, wake, order>>
      /\ UNCHANGED <<sequence, item, enqueuePos, dequeuePos>>
  BY DEF Requeue, Do, Goto, overflow, ring
<1>2. hand \in Items
  BY <1>0 DEF Carried
<1>3. /\ pc' \in [Threads -> {"idle", "wake", "pop", "claim", "copy", "release", "call",
                         "lock", "walk", "listCall", "finished", "kept"} \union Pushing]
      /\ work' \in [Threads -> Items \union {Null}]
      /\ pc'[Server] = "load" /\ work'[Server] = hand /\ "load" \in Pushing
      /\ "call" \notin Pushing
      /\ \A t \in Threads \ {Server} : pc'[t] = pc[t] /\ work'[t] = work[t]
  BY <1>0, <1>1, <1>2, ThreadFacts DEF TypeOK, Pushing
<1>4. TypeOK'
  BY <1>0, <1>1, <1>3 DEF TypeOK
<1>5. RingInv'
  <2>1. \A u \in Threads : pc'[u] \in {"fill", "publish", "cas"} => pc[u] = pc'[u] /\ pos'[u] = pos[u]
    BY <1>1, <1>3
  <2> QED BY <1>0, <1>1, <1>3, <2>1, RingStays
<1>6. Carried'
  <2>1. \A u \in Threads : pc'[u] \in Pushing => work'[u] \in Items
    BY <1>0, <1>2, <1>3 DEF Carried
  <2>2. \A u \in Producers : pc'[u] \in {"idle", "wake"} \union Pushing
    BY <1>0, <1>3, ThreadFacts DEF Carried
  <2>3. \A u \in Threads : pc'[u] = "publish" => item'[Slot(pos'[u])] = work'[u]
    BY <1>0, <1>1, <1>3 DEF Carried
  <2>4. \A v, u \in Threads : v # u /\ pc'[v] \in Claiming /\ pc'[u] \in Claiming
          => pos'[v] # pos'[u]
    BY <1>0, <1>1, <1>3 DEF Carried, Claiming
  <2>5. \A u \in Threads : pc'[u] \in {"look", "cas"} => Wrap(enqueuePos' - pos'[u]) <= MaxStall
    BY <1>0, <1>1, <1>3 DEF Carried
  <2> QED BY <1>3, <2>1, <2>2, <2>3, <2>4, <2>5 DEF Carried
<1>7. ListInv'
  BY <1>0, <1>1, <1>3, ListStays
<1>8. PlaceInv'
  <2>1. \A s \in 0 .. RingSize - 1 : InCell(s)' = InCell(s)
    BY <1>1, <1>3 DEF InCell
  <2>2. \A u \in Threads \ {Server} : InThread(u)' = InThread(u)
    BY <1>3 DEF InThread
  <2>3. InThread(Server) = Null /\ InThread(Server)' = hand /\ Holding = hand /\ Holding' = Null
    BY <1>3 DEF InThread, Holding
  <2>4. /\ contents[InHand] = hand /\ contents[Thread(Server)] \notin Items
        /\ contents'[InHand] \notin Items /\ contents'[Thread(Server)] = hand
        /\ InHand \in Spots /\ Thread(Server) \in Spots
    BY <2>3, ContentsNow, ContentsNext, NodeFacts, SpotFacts, ThreadFacts
  <2>5. \A x \in Spots \ {InHand, Thread(Server)} : contents'[x] = contents[x]
    BY <1>1, <2>1, <2>2, SpotFacts, ContentsNow, ContentsNext
  <2>6. \A x \in Spots \ {InHand, Thread(Server)} : Same(contents, contents', x)
    BY <2>5 DEF Same
  <2>7. Placed(contents', Unfinished)
    BY <1>0, <1>2, <2>4, <2>6, PlacedMoves DEF PlaceInv
  <2>8. Unfinished' = Unfinished
    BY <1>1 DEF Unfinished
  <2> QED BY <2>7, <2>8 DEF PlaceInv
<1>9. Orders(order)'
  BY <1>0, <1>1
<1> QED BY <1>4, <1>5, <1>6, <1>7, <1>8, <1>9 DEF Inv

LEMMA CallKeeps ==
  ASSUME Inv, Call PROVE Inv'
<1>1. pass \in {"process", "zombies", "clear"}
  BY DEF Inv, TypeOK
<1>2. Done \/ Requeue
  <2>1. CASE pass = "process"
    BY <2>1 DEF Call
  <2>2. CASE pass = "zombies"
    BY <2>2 DEF Call
  <2>3. CASE pass = "clear"
    BY <2>3 DEF Call
  <2> QED BY <1>1, <2>1, <2>2, <2>3
<1>3. /\ pc[Server] = "call"
      /\ UNCHANGED <<ring, overflow, pos, pass, remaining, p, wake>>
  BY DEF Call, On, At
<1> QED BY <1>2, <1>3, DoneKeeps, RequeueKeeps

--------------------------------------------------------------------------------
(***************************************************************************)
(* The server's walk over the overflow list.                               *)
(***************************************************************************)
LEMMA ServerIsNoPointer == Server # Null
  BY PointersAssumption, ThreadFacts

(* Steps of the walk that leave the list as it is. *)
LEMMA WalkStep ==
  ASSUME Inv, NEW x \in {"idle", "walk", "listCall", "finished", "kept"},
         pc[Server] \in {"lock", "walk", "listCall", "finished", "kept"},
         pc' = [pc EXCEPT ![Server] = x], pass' \in {"process", "zombies", "clear"},
         overflowLast' \in Nodes, p' \in Nodes, overflowLock' \in {Null, Server},
         hand' \in Items \union {Null},
         x \in {"listCall", "finished", "kept"} => hand' \in Items,
         UNCHANGED <<ring, next, work, pos, remaining, wake, order>>, ListInv'
  PROVE  Inv'
<1>0. TypeOK /\ RingInv /\ Carried /\ ListInv /\ PlaceInv /\ Orders(order)
  BY DEF Inv
<1>1. UNCHANGED <<sequence, item, enqueuePos, dequeuePos>> /\ pc[Server] \notin Pushing
  BY DEF ring, Pushing
<1>2. /\ pc' \in [Threads -> {"idle", "wake", "pop", "claim", "copy", "release", "call",
                         "lock", "walk", "listCall", "finished", "kept"} \union Pushing]
      /\ pc'[Server] = x
      /\ \A t \in Threads : InThread(t)' = InThread(t)
      /\ \A t \in Threads : pc'[t] \in {"fill", "publish"} =>
           pc[t] \in {"fill", "publish"} /\ pos'[t] = pos[t]
      /\ \A t \in Threads : pc'[t] = "cas" => pc[t] = "cas" /\ pos'[t] = pos[t]
      /\ Carried'
  BY <1>0, <1>1, ServerMoves
<1>3. TypeOK'
  BY <1>0, <1>1, <1>2 DEF TypeOK
<1>4. RingInv'
  BY <1>0, <1>2, RingStays
<1>5. PlaceInv'
  <2>1. \A s \in 0 .. RingSize - 1 : InCell(s)' = InCell(s)
    BY <1>1, <1>2 DEF InCell
  <2>2. Holding' = Holding
    BY <1>2 DEF Holding
  <2> QED BY <1>0, <1>2, <2>1, <2>2, PlacesStay
<1> QED BY <1>0, <1>2, <1>3, <1>4, <1>5 DEF Inv

LEMMA LockKeeps ==
  ASSUME Inv, Lock PROVE Inv'
<1>0. TypeOK /\ ListInv
  BY DEF Inv
<1>1. /\ pc[Server] = "lock" /\ pc' = [pc EXCEPT ![Server] = "walk"]
      /\ overflowLock' = Server /\ p' = ListHead
      /\ UNCHANGED <<ring, next, overflowLast, work, pos, pass, remaining, hand, wake, order>>
  BY DEF Lock, On, At, Do, Goto, local
<1>2. pc'[Server] = "walk" /\ ListHead \in Nodes
  BY <1>0, <1>1, ThreadFacts, NodeFacts DEF TypeOK
<1>3. Chained(next) /\ next[overflowLast] = Null /\ next[ListHead] # Freed
  BY <1>0, <1>1, ServerIsNoPointer DEF ListInv, Chained
<1>4. ListInv'
  BY <1>1, <1>2, <1>3 DEF ListInv, Walking
<1> QED BY <1>0, <1>1, <1>2, <1>4, WalkStep DEF TypeOK

LEMMA EndWalkKeeps ==
  ASSUME Inv, EndWalk PROVE Inv'
<1>0. TypeOK /\ ListInv
  BY DEF Inv
<1>1. /\ pc[Server] = "walk" /\ pc' = [pc EXCEPT ![Server] = "idle"] /\ next[p] = Null
      /\ overflowLast' = p /\ overflowLock' = Null /\ p' = ListHead /\ pass' = "process"
      /\ UNCHANGED <<ring, next, work, pos, remaining, hand, wake, order>>
  BY DEF EndWalk, On, At, Do, Goto, local
<1>2. pc'[Server] = "idle" /\ ListHead \in Nodes
  BY <1>0, <1>1, ThreadFacts, NodeFacts DEF TypeOK
<1>3. ListInv'
  BY <1>0, <1>1, <1>2 DEF ListInv, Walking
<1> QED BY <1>0, <1>1, <1>2, <1>3, WalkStep DEF TypeOK

(* The node after the server's own, and the end of the list behind it. *)
LEMMA NodeAhead ==
  ASSUME Inv, pc[Server] \in {"walk", "listCall", "finished", "kept"},
         pc[Server] = "walk" => next[p] # Null
  PROVE  /\ next[p] \in Items /\ p \in Nodes /\ Chained(next) /\ next[next[p]] # Freed
         /\ next[overflowLast] = Null /\ overflowLast # p
         /\ pc[Server] # "walk" => hand = next[p]
<1>0. TypeOK /\ ListInv /\ Carried
  BY DEF Inv
<1>1. p \in Nodes /\ Chained(next) /\ next[p] # Freed
  BY <1>0 DEF TypeOK, ListInv, Walking
<1>2. pc[Server] # "walk" => hand = next[p] /\ hand \in Items
  BY <1>0 DEF ListInv, Walking, Carried
<1>3. next[p] \in Items
  BY <1>1, <1>2 DEF Chained
<1>4. next[overflowLast] = Null /\ overflowLast # p
  BY <1>0, <1>3, NodeFacts DEF ListInv
<1> QED BY <1>1, <1>2, <1>3, <1>4 DEF Chained

LEMMA WalkUnlockKeeps ==
  ASSUME Inv, WalkUnlock PROVE Inv'
<1>0. TypeOK /\ ListInv
  BY DEF Inv
<1>1. /\ pc[Server] = "walk" /\ pc' = [pc EXCEPT ![Server] = "listCall"] /\ next[p] # Null
      /\ overflowLock' = Null /\ hand' = next[p]
      /\ UNCHANGED <<ring, next, overflowLast, work, pos, pass, remaining, p, wake, order>>
  BY DEF WalkUnlock, On, At, Do, Goto, local
<1>2. pc'[Server] = "listCall"
  BY <1>0, <1>1, ThreadFacts DEF TypeOK
<1>3. next[p] \in Items /\ Chained(next) /\ next[overflowLast] = Null
  BY <1>1, NodeAhead
<1>4. ListInv'
  BY <1>1, <1>2, <1>3, NodeFacts DEF ListInv, Walking
<1> QED BY <1>0, <1>1, <1>3, <1>4, WalkStep DEF TypeOK

LEMMA ListCallKeeps ==
  ASSUME Inv, ListCall PROVE Inv'
<1>0. TypeOK /\ ListInv /\ Carried
  BY DEF Inv
<1>1. PICK x \in {"finished", "kept"} : pc' = [pc EXCEPT ![Server] = x]
  BY DEF ListCall, Do, Goto
<1>2. /\ pc[Server] = "listCall"
      /\ UNCHANGED <<ring, next, overflowLast, overflowLock, work, pos, pass, remaining, hand, p, wake, order>>
  BY DEF ListCall, On, At, local, overflow, serving
<1>3. pc'[Server] = x /\ hand \in Items
  BY <1>0, <1>1, <1>2, ThreadFacts DEF TypeOK, Carried
<1>4. ListInv'
  BY <1>0, <1>1, <1>2, <1>3 DEF ListInv, Walking
<1> QED BY <1>0, <1>1, <1>2, <1>3, <1>4, WalkStep DEF TypeOK

(* The node ahead stays in the list and becomes the server's own. *)
LEMMA AdvanceKeeps ==
  ASSUME Inv, pc[Server] \in {"walk", "kept"}, pc[Server] = "walk" => next[p] # Null,
         pc' = [pc EXCEPT ![Server] = "walk"], p' = next[p],
         overflowLock' = Server, hand' \in Items \union {Null},
         UNCHANGED <<ring, next, overflowLast, work, pos, pass, remaining, wake, order>>
  PROVE  Inv'
<1>0. TypeOK /\ ListInv
  BY DEF Inv
<1>1. pc'[Server] = "walk"
  BY <1>0, ThreadFacts DEF TypeOK
<1>2. /\ next[p] \in Items /\ next[p] \in Nodes /\ Chained(next) /\ next[next[p]] # Freed
      /\ next[overflowLast] = Null
  BY NodeAhead, NodeFacts
<1>3. ListInv'
  BY <1>1, <1>2 DEF ListInv, Walking
<1> QED BY <1>0, <1>2, <1>3, WalkStep DEF TypeOK

(* The node ahead leaves the list and its item the queue. *)
LEMMA UnlinkKeeps ==
  ASSUME Inv, pc[Server] \in {"walk", "finished"}, NEW q, q = next[p],
         pc[Server] = "walk" => q # Null, pc' = [pc EXCEPT ![Server] = "walk"],
         Unlink(q), Finished(q), overflowLock' = Server, hand' \in Items \union {Null},
         UNCHANGED <<ring, overflowLast, p, work, pos, pass, remaining, wake>>
  PROVE  Inv'
<1>0. TypeOK /\ RingInv /\ Carried /\ ListInv /\ PlaceInv /\ Orders(order)
  BY DEF Inv
<1>1. UNCHANGED <<sequence, item, enqueuePos, dequeuePos>> /\ pc[Server] \notin Pushing
  BY DEF ring, Pushing
<1>2. /\ q \in Items /\ q \in Nodes /\ p \in Nodes /\ Chained(next)
      /\ next[overflowLast] = Null /\ overflowLast # p /\ overflowLast \in Nodes
  BY <1>0, NodeAhead, NodeFacts DEF TypeOK
<1>3. \A m, n \in Nodes : next[m] = next[n] /\ next[m] \in Items => m = n
  <2> SUFFICES ASSUME NEW m \in Nodes, NEW n \in Nodes, next[m] = next[n], next[m] \in Items
               PROVE  m = n
    OBVIOUS
  <2>1. contents[Node(m)] = next[m] /\ contents[Node(n)] = next[n]
    BY ContentsNow
  <2>2. Node(m) \in Spots /\ Node(n) \in Spots
    BY SpotFacts
  <2>3. Node(m) = Node(n)
    BY <1>0, <2>1, <2>2 DEF PlaceInv, Placed
  <2> QED BY <2>3, SpotFacts
<1>4. p # q /\ next[q] # Freed /\ next[q] # q /\ Chained(next')
  <2>1. /\ p # q /\ next[q] # Freed /\ next[q] # q
        /\ Chained([next EXCEPT ![p] = next[q], ![q] = Freed])
    BY <1>2, <1>3, UnlinkChain, Zenon
  <2>2. next' = [next EXCEPT ![p] = next[q], ![q] = Freed]
    BY DEF Unlink
  <2> QED BY <2>1, <2>2, Zenon
<1>5. /\ next' \in [Nodes -> Items \union {Null, Freed}]
      /\ next'[p] = next[q] /\ next'[q] = Freed
      /\ \A n \in Nodes : n # p /\ n # q => next'[n] = next[n]
  BY <1>0, <1>2, <1>4 DEF Unlink, TypeOK, Chained
<1>6. /\ pc' \in [Threads -> {"idle", "wake", "pop", "claim", "copy", "release", "call",
                         "lock", "walk", "listCall", "finished", "kept"} \union Pushing]
      /\ pc'[Server] = "walk"
      /\ \A t \in Threads : InThread(t)' = InThread(t)
      /\ \A t \in Threads : pc'[t] \in {"fill", "publish"} =>
           pc[t] \in {"fill", "publish"} /\ pos'[t] = pos[t]
      /\ \A t \in Threads : pc'[t] = "cas" => pc[t] = "cas" /\ pos'[t] = pos[t]
      /\ Carried'
  BY <1>0, <1>1, ServerMoves
<1>7. Orders(order') /\ Unfinished' = Unfinished \ {q}
  BY <1>0, <1>2, FinishedOrder DEF Finished
<1>8. TypeOK'
  BY <1>0, <1>1, <1>5, <1>6, <1>7 DEF TypeOK, Orders
<1>9. RingInv'
  BY <1>0, <1>6, RingStays
<1>10. ListInv'
  <2>1. next'[overflowLast'] = Null \/ next'[p'] = Null
    BY <1>2, <1>5
  <2> QED BY <1>4, <1>5, <1>6, <2>1 DEF ListInv, Walking
<1>11. PlaceInv'
  <2>1. \A s \in 0 .. RingSize - 1 : InCell(s)' = InCell(s)
    BY <1>1, <1>6 DEF InCell
  <2>2. Holding' = Holding
    BY <1>6 DEF Holding
  <2>3. /\ contents[Node(p)] = q /\ contents'[Node(p)] = contents[Node(q)]
        /\ contents'[Node(q)] \notin Items
    <3>1. contents[Node(p)] = next[p] /\ contents[Node(q)] = next[q]
      BY <1>2, ContentsNow
    <3>2. contents'[Node(p)] = next'[p] /\ contents'[Node(q)] = next'[q]
      BY <1>2, ContentsNext
    <3> QED BY <1>5, <3>1, <3>2, NodeFacts
  <2>4. Node(p) \in Spots /\ Node(q) \in Spots /\ Node(p) # Node(q)
    BY <1>2, <1>4, SpotFacts
  <2>5. \A x \in Spots \ {Node(p), Node(q)} : contents'[x] = contents[x]
    BY <1>5, <1>6, <2>1, <2>2, SpotFacts, ContentsNow, ContentsNext
  <2>6. \A x \in Spots \ {Node(p), Node(q)} : Same(contents, contents', x)
    BY <2>5 DEF Same
  <2>7. Placed(contents', Unfinished \ {q})
    BY <1>0, <1>2, <2>3, <2>4, <2>6, PlacedUnlinks DEF PlaceInv
  <2> QED BY <1>7, <2>7 DEF PlaceInv
<1> QED BY <1>6, <1>7, <1>8, <1>9, <1>10, <1>11 DEF Inv

LEMMA WalkLockedKeeps ==
  ASSUME Inv, WalkLocked PROVE Inv'
<1>0. TypeOK /\ ListInv
  BY DEF Inv
<1>1. /\ pc[Server] = "walk" /\ next[p] # Null /\ UNCHANGED pc
      /\ UNCHANGED <<ring, overflowLast, overflowLock, work, pos, pass, remaining, hand, wake>>
  BY DEF WalkLocked, On, At, local
<1>2. pc' = [pc EXCEPT ![Server] = "walk"] /\ overflowLock' = Server
      /\ hand' \in Items \union {Null}
  BY <1>0, <1>1, ThreadFacts DEF TypeOK, ListInv
<1>3. CASE Unlink(next[p]) /\ Finished(next[p]) /\ UNCHANGED p
  BY <1>1, <1>2, <1>3, UnlinkKeeps
<1>4. CASE p' = next[p] /\ UNCHANGED <<next, order>>
  BY <1>1, <1>2, <1>4, AdvanceKeeps
<1> QED BY <1>3, <1>4 DEF WalkLocked

LEMMA RelockKeeps ==
  ASSUME Inv, Relock PROVE Inv'
<1>1. /\ pc[Server] \in {"finished", "kept"} /\ pc' = [pc EXCEPT ![Server] = "walk"]
      /\ overflowLock' = Server /\ hand' = Null
      /\ UNCHANGED <<ring, overflowLast, work, pos, pass, remaining, wake>>
  BY DEF Relock, On, At, Do, Goto, local
<1>2. hand = next[p]
  BY <1>1, NodeAhead
<1>3. CASE pc[Server] = "finished"
  <2>1. Unlink(hand) /\ Finished(hand) /\ UNCHANGED p
    BY <1>3 DEF Relock, On, At
  <2> QED BY <1>1, <1>2, <1>3, <2>1, UnlinkKeeps
<1>4. CASE pc[Server] = "kept"
  <2>1. p' = hand /\ UNCHANGED <<next, order>>
    BY <1>4 DEF Relock, On, At
  <2> QED BY <1>1, <1>2, <1>4, <2>1, AdvanceKeeps
<1> QED BY <1>1, <1>3, <1>4

--------------------------------------------------------------------------------
(***************************************************************************)
(* The invariant holds at the start and every step keeps it.               *)
(***************************************************************************)
LEMMA InitHolds ==
  ASSUME Init PROVE Inv
<1>1. /\ \A t \in Threads : pc[t] = "idle" /\ work[t] = Null /\ pos[t] = 0
      /\ "idle" \notin Pushing /\ "idle" \notin Claiming /\ "idle" \notin Walking
      /\ pc[Server] = "idle"
  BY ThreadFacts DEF Init, Pushing, Claiming, Walking
<1>2. /\ \A n \in Nodes : next[n] = IF n = ListHead THEN Null ELSE Freed
      /\ next \in [Nodes -> Items \union {Null, Freed}]
  BY DEF Init
<1>3. \A t \in Producers : order[t] = <<>>
  BY DEF Init
<1>4. /\ sequence \in [0 .. RingSize - 1 -> 0 .. Modulus - 1]
      /\ item \in [0 .. RingSize - 1 -> Items \union {Null}]
      /\ \A s \in 0 .. RingSize - 1 : sequence[s] = s
  BY Sizes DEF Init
<1>5. TypeOK
  <2>1. /\ enqueuePos \in 0 .. Modulus - 1 /\ dequeuePos \in 0 .. Modulus - 1
        /\ remaining \in 0 .. RingSize /\ pos \in [Threads -> 0 .. Modulus - 1]
    BY Sizes DEF Init
  <2>2. /\ overflowLast \in Nodes /\ p \in Nodes /\ overflowLock \in {Null, Server}
        /\ pass \in {"process", "zombies", "clear"} /\ hand \in Items \union {Null}
        /\ wake \in BOOLEAN
    BY NodeFacts DEF Init
  <2>3. /\ pc \in [Threads -> {"idle", "wake", "pop", "claim", "copy", "release", "call",
                         "lock", "walk", "listCall", "finished", "kept"} \union Pushing]
        /\ work \in [Threads -> Items \union {Null}] /\ order \in [Producers -> Seq(Items)]
    BY DEF Init
  <2> QED BY <1>2, <1>4, <2>1, <2>2, <2>3 DEF TypeOK
<1>6. RingInv
  <2>1. dequeuePos = Wrap(0) /\ enqueuePos = Wrap(0)
    BY WrapZero DEF Init
  <2>2. ~Held
    BY <1>1 DEF Held
  <2>3. ASSUME NEW k \in 0 .. 0 + RingSize - 1 PROVE Free(k)
    <3>1. k \in 0 .. RingSize - 1 /\ k \in 0 .. Modulus - 1
      BY Sizes
    <3>2. Slot(k) = k /\ Wrap(k) = k
      BY <3>1, SlotFacts, WrapFacts, Zenon
    <3> QED BY <1>4, <3>1, <3>2 DEF Free
  <2>4. 0 \in 0 .. 0 + RingSize - 1 /\ 0 <= 0 /\ 0 <= 0 + RingSize /\ 0 \in Int
    BY Sizes
  <2>5. CellsAt(0, 0)
    BY <1>1, <2>1, <2>2, <2>3, <2>4 DEF CellsAt
  <2>6. ClaimsAt(0, 0)
    BY <1>1, <2>3, <2>4 DEF ClaimsAt
  <2> QED BY <2>4, <2>5, <2>6 DEF RingInv, RingAt
<1>7. Carried
  BY <1>1, ThreadFacts DEF Carried
<1>8. ListInv
  <2>1. Chained(next)
    <3>1. \A n \in Nodes : next[n] \notin Items
      BY <1>2, NodeFacts
    <3>2. \A i \in Items : next[i] = Freed
      BY <1>2, NodeFacts
    <3>3. next[ListHead] # Freed
      BY <1>2, NodeFacts
    <3>4. [n \in Nodes |-> 0] \in [Nodes -> Nat]
      OBVIOUS
    <3>5. \E rank \in [Nodes -> Nat] : \A n \in Nodes : next[n] \in Items => rank[n] < rank[next[n]]
      BY <3>1, <3>4
    <3> QED BY <1>2, <3>1, <3>2, <3>3, <3>5 DEF Chained
  <2>2. next[overflowLast] = Null /\ overflowLock = Null
    BY <1>2, NodeFacts DEF Init
  <2> QED BY <1>1, <2>1, <2>2 DEF ListInv
<1>9. Orders(order)
  <2>1. \A t \in Producers : Distinct(order[t])
    BY <1>3 DEF Distinct
  <2> QED BY <1>5, <2>1 DEF Orders, TypeOK
<1>10. PlaceInv
  <2>1. ASSUME NEW s \in 0 .. RingSize - 1 PROVE InCell(s) \notin Items
    BY <1>4, SlotFacts, NodeFacts DEF InCell
  <2>2. \A t \in Threads : InThread(t) \notin Items
    BY <1>1, NodeFacts DEF InThread
  <2>3. Holding \notin Items
    BY <1>1, NodeFacts DEF Holding
  <2>4. \A n \in Nodes : next[n] \notin Items
    BY <1>2, NodeFacts
  <2>5. \A x \in Spots : contents[x] \notin Items
    BY <2>1, <2>2, <2>3, <2>4, SpotFacts, ContentsNow
  <2>6. Unfinished = {}
    BY <1>3, Owner DEF Unfinished
  <2> QED BY <2>5, <2>6 DEF PlaceInv, Placed
<1> QED BY <1>5, <1>6, <1>7, <1>8, <1>9, <1>10 DEF Inv

LEMMA StutterKeeps ==
  ASSUME Inv, UNCHANGED vars PROVE Inv'
<1>0. TypeOK /\ RingInv /\ Carried /\ ListInv /\ PlaceInv /\ Orders(order)
  BY DEF Inv
<1>1. /\ UNCHANGED <<sequence, item, enqueuePos, dequeuePos, ring>>
      /\ UNCHANGED <<next, overflowLast, overflowLock, pc, work, pos>>
      /\ UNCHANGED <<pass, remaining, hand, p, wake, order>>
  BY DEF vars, ring, overflow, local, serving
<1>2. TypeOK'
  BY <1>0, <1>1 DEF TypeOK
<1>3. RingInv'
  BY <1>0, <1>1, RingStays
<1>4. Carried'
  BY <1>0, <1>1 DEF Carried
<1>5. ListInv'
  BY <1>0, <1>1, ListStays
<1>6. PlaceInv'
  <2>1. /\ \A s \in 0 .. RingSize - 1 : InCell(s)' = InCell(s)
        /\ \A t \in Threads : InThread(t)' = InThread(t)
        /\ Holding' = Holding
    BY <1>1 DEF InCell, InThread, Holding
  <2> QED BY <1>0, <1>1, <2>1, PlacesStay
<1> QED BY <1>0, <1>1, <1>2, <1>3, <1>4, <1>5, <1>6 DEF Inv

LEMMA PassStepKeeps ==
  ASSUME Inv, PassStep PROVE Inv'
  BY PopLookKeeps, ClaimKeeps, CopyKeeps, ReleaseKeeps, CallKeeps, LockKeeps, EndWalkKeeps,
     WalkUnlockKeeps, WalkLockedKeeps, ListCallKeeps, RelockKeeps DEF PassStep

LEMMA NextKeeps ==
  ASSUME Inv, [Next]_vars PROVE Inv'
<1>1. ASSUME NEW t \in Threads, PushStep(t) PROVE Inv'
  BY <1>1, PushStepKeeps
<1>2. ASSUME NEW t \in Producers, WakeServer(t) PROVE Inv'
  BY <1>2, WakeServerKeeps
<1>3. ASSUME NEW i \in Items, QueueWorkProc(i) PROVE Inv'
  BY <1>3, QueueWorkProcKeeps
<1>4. ASSUME NEW kind \in Passes, BeginPass(kind) PROVE Inv'
  <2>1. kind \in {"process", "zombies", "clear"}
    BY ItemsAssumption
  <2> QED BY <1>4, <2>1, BeginPassKeeps
<1>5. CASE PassStep
  BY <1>5, PassStepKeeps
<1>6. CASE UNCHANGED vars
  BY <1>6, StutterKeeps
<1> QED BY <1>1, <1>2, <1>3, <1>4, <1>5, <1>6 DEF Next

(* A claimed cell is claimed by one thread, and not the server's. *)
LEMMA ExclusiveHolds ==
  ASSUME Inv PROVE CellsExclusive
<1>0. TypeOK /\ Carried
  BY DEF Inv
<1>1. PICK d \in Int, e \in Int : RingAt(d, e)
  BY DEF Inv, RingInv
<1>2. ASSUME NEW t \in Threads, NEW u \in Threads, t # u,
             pc[t] \in {"fill", "publish"}, pc[u] \in {"fill", "publish"}
      PROVE  Slot(pos[t]) # Slot(pos[u])
  <2>1. PICK k \in d .. e - 1 :
           /\ Slot(pos[t]) = Slot(k)
           /\ \A v \in Threads \ {t} : pc[v] \in {"fill", "publish"} => Slot(pos[v]) # Slot(k)
    BY <1>0, <1>1, <1>2, ClaimedCell
  <2> QED BY <1>2, <2>1
<1>3. ASSUME NEW t \in Producers, pc[t] \in {"fill", "publish"},
             pc[Server] \in {"copy", "release"}
      PROVE  Slot(pos[t]) # Slot(dequeuePos - 1)
  <2>1. t \in Threads /\ Held
    BY <1>3, ThreadFacts DEF Held
  <2>2. PICK k \in d .. e - 1 : Slot(pos[t]) = Slot(k) /\ (Held => Slot(d - 1) # Slot(k))
    BY <1>0, <1>1, <1>3, <2>1, ClaimedCell
  <2>3. Slot(dequeuePos - 1) = Slot(d - 1)
    BY <1>1, SlotFacts DEF RingAt, CellsAt
  <2> QED BY <2>1, <2>2, <2>3
<1> QED BY <1>2, <1>3 DEF CellsExclusive

(* The joint invariant of ring, list and hands: in every reachable state of *)
(* workqueue.cpp, the wrapped positions stand for positions without a limit *)
(* between which each cell is claimed or published, the overflow list is    *)
(* one chain from overflowHead, and no item is in two spots.                *)
THEOREM QueueInvariant == Spec => []Inv
<1>1. Init => Inv
  BY InitHolds
<1>2. Inv /\ [Next]_vars => Inv'
  BY NextKeeps
<1> QED BY <1>1, <1>2, PTL DEF Spec

(* Positions of the ring stay size_t values, and cells and pointers hold    *)
(* work items, in every reachable state of the queue.                       *)
THEOREM TypeCorrect == Spec => []TypeOK
<1>1. Inv => TypeOK
  BY DEF Inv
<1> QED BY <1>1, QueueInvariant, PTL

(* Nothing that QueueWorkProc accepted is lost and nothing is run twice: an *)
(* unfinished item is in exactly one place, for any number of threads, any  *)
(* ring size and any width of the positions, as long as no thread sleeps    *)
(* through MaxStall pushes inside ringPush.                                 *)
THEOREM OnePlaceAlways == Spec => []OnePlace
<1>1. Inv => OnePlace
  BY OnePlaceHolds
<1> QED BY <1>1, QueueInvariant, PTL

(* Two threads between the compare-exchange and the store of the sequence   *)
(* are never in the same cell, and no producer is in the cell from which    *)
(* ringPop reads.                                                           *)
THEOREM CellsExclusiveAlways == Spec => []CellsExclusive
<1>1. Inv => CellsExclusive
  BY ExclusiveHolds
<1> QED BY <1>1, QueueInvariant, PTL

(* Whenever the spinlock is free, overflowLast is the end of the list and   *)
(* not a freed node, so that overflowPush appends where a walk comes by.    *)
THEOREM AppendIsSafeAlways == Spec => []AppendIsSafe
<1>1. Inv => AppendIsSafe
  BY ServerIsNoPointer DEF Inv, ListInv, AppendIsSafe
<1> QED BY <1>1, QueueInvariant, PTL
================================================================================
