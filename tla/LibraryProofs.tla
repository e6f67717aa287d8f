--------------------------- MODULE LibraryProofs -----------------------------
(***************************************************************************)
(* Proofs about the lists of LinkedList, the allocator of Malloc and the   *)
(* formatted output of Printf, for any number of lists and entries, any    *)
(* heap and any sizes asked for, and any format and buffer.                *)
(*                                                                         *)
(* Lists: the links are those of a family of sequences (Represents), which *)
(* list_for_every() reads back.  Allocator: a block is a pair of an        *)
(* address and an index, the free blocks and those in use are apart and    *)
(* fill the pages obtained (Tile), and splitting or merging replaces some  *)
(* blocks by others with the same bytes (Replaced).  Output: every step of *)
(* a conversion leaves a text that fits its buffer (Short), and the bytes  *)
(* given hold the text as far as it has been sent (Holds).                 *)
(***************************************************************************)
EXTENDS LinkedList, Malloc, Printf, SequenceTheorems, FiniteSetTheorems,
        WellFoundedInduction, TLAPS

-----------------------------------------------------------------------------
(* The lists as sequences.                                                 *)

\* The node at place |k| of the ring of list |l| whose entries are |s|: the list
\* itself is before the first entry and behind the last one.
At(s, l, k) == IF k \in 1..Len(s) THEN s[k] ELSE l

\* The links |f| lead from the list |l| through |s| and back.
Chain(f, l, s) == \A k \in 0..Len(s) : f[At(s, l, k)] = At(s, l, k + 1)

\* No node is at two places of the lists |S|.
Apart(S) ==
    \A l, m \in ListHead : \A j \in 1..Len(S[l]), k \in 1..Len(S[m]) :
        S[l][j] = S[m][k] => l = m /\ j = k

OnNone(S, i) == \A l \in ListHead : \A k \in 1..Len(S[l]) : S[l][k] # i

\* The links |nx| and |pv| are those of the lists |S|, and of no others.
Represents(S, nx, pv) ==
    /\ S \in [ ListHead -> Seq(Item) ] /\ Apart(S)
    /\ nx \in [ Node -> Node \cup { NoNode } ] /\ pv \in [ Node -> Node \cup { NoNode } ]
    /\ \A l \in ListHead : \A k \in 0..Len(S[l]) : nx[At(S[l], l, k)] = At(S[l], l, k + 1)
    /\ \A l \in ListHead : \A k \in 0..Len(S[l]) : pv[At(S[l], l, k + 1)] = At(S[l], l, k)
    /\ \A i \in Item : OnNone(S, i) => nx[i] = NoNode /\ pv[i] = NoNode

\* Induction over the naturals, for a set that holds what is to be shown.
LEMMA InductionOnSet ==
    ASSUME NEW S, 0 \in S, \A n \in Nat : n \in S => n + 1 \in S
    PROVE  \A n \in Nat : n \in S
<1>. SUFFICES ASSUME Nat \ S # {} PROVE FALSE
  OBVIOUS
<1>1. PICK x \in Nat \ S : \A y \in Nat \ S : ~(<< y, x >> \in OpToRel(<, Nat))
  <2>1. Nat \ S \subseteq Nat
    OBVIOUS
  <2>. QED
    BY <2>1, NatLessThanWellFounded, WFMin
<1>2. x - 1 \in Nat /\ x - 1 < x /\ (x - 1) + 1 = x
  OBVIOUS
<1>3. << x - 1, x >> \in OpToRel(<, Nat)
  BY <1>2 DEF OpToRel
<1>4. x - 1 \in S
  BY <1>1, <1>2, <1>3
<1>. QED
  BY <1>2, <1>4

\* The sequence |r| over |S| is |q| with |e| put in at place |i|.
IsInserted(S, q, i, e, r) ==
    /\ r \in Seq(S) /\ Len(r) = Len(q) + 1
    /\ \A j \in 1..(Len(q) + 1) : r[j] = IF j < i THEN q[j] ELSE IF j = i THEN e ELSE q[j - 1]

\* An item is inserted at any place of a sequence, its end included.
LEMMA InsertAtPlace ==
    ASSUME NEW S, NEW q \in Seq(S), NEW i \in 1..(Len(q) + 1), NEW e \in S
    PROVE  IsInserted(S, q, i, e, InsertAt(q, i, e))
<1>. DEFINE a == SubSeq(q, 1, i - 1)
            b == SubSeq(q, i, Len(q))
            ae == a \o << e >>
<1>0. Len(q) \in Nat /\ (\A j \in 1..Len(q) : q[j] \in S)
  BY LenProperties, ElementOfSeq
<1>1. /\ a \in Seq(S) /\ Len(a) = i - 1
      /\ \A j \in 1..(i - 1) : a[j] = q[j]
  BY <1>0, SubSeqProperties
<1>2. /\ b \in Seq(S) /\ Len(b) = Len(q) - i + 1
      /\ \A j \in 1..(Len(q) - i + 1) : b[j] = q[i + j - 1]
  BY <1>0, SubSeqProperties
<1>3. << e >> \in Seq(S) /\ Len(<< e >>) = 1 /\ << e >>[1] = e
  OBVIOUS
<1>. HIDE DEF a, b
<1>4. /\ ae \in Seq(S) /\ Len(ae) = i
      /\ \A j \in 1..i : ae[j] = IF j <= i - 1 THEN a[j] ELSE << e >>[j - (i - 1)]
  BY <1>1, <1>3, ConcatProperties
<1>5. /\ \A j \in 1..(i - 1) : ae[j] = q[j]
      /\ ae[i] = e
  BY <1>1, <1>3, <1>4
<1>. HIDE DEF ae
<1>6. /\ ae \o b \in Seq(S) /\ Len(ae \o b) = Len(ae) + Len(b)
      /\ \A j \in 1..(Len(ae) + Len(b)) : (ae \o b)[j] = IF j <= Len(ae) THEN ae[j] ELSE b[j - Len(ae)]
  BY <1>2, <1>4, ConcatProperties
<1>7. InsertAt(q, i, e) = ae \o b
  BY DEF InsertAt, ae, a, b
<1>. DEFINE c == ae \o b
<1>. HIDE DEF c
<1>8. ASSUME NEW j \in 1..(Len(q) + 1)
      PROVE  c[j] = IF j < i THEN q[j] ELSE IF j = i THEN e ELSE q[j - 1]
  <2>1. c[j] = IF j <= i THEN ae[j] ELSE b[j - i]
    <3>1. j \in 1..(Len(ae) + Len(b)) /\ Len(ae) = i
      BY <1>0, <1>2, <1>4
    <3>. QED
      BY <1>6, <3>1 DEF c
  <2>2. CASE j <= i
    BY <2>1, <2>2, <1>0, <1>5
  <2>3. CASE j > i
    <3>1. PICK d \in 1..(Len(q) - i + 1) : d = j - i /\ i + d - 1 = j - 1
      BY <2>3, <1>0
    <3>2. b[d] = q[i + d - 1]
      BY <1>2
    <3>3. j \in Int /\ i \in Int
      BY <1>0
    <3>. QED
      BY <2>1, <2>3, <3>1, <3>2, <3>3
  <2>. QED
    BY <2>2, <2>3, <1>0
<1>. QED
  BY <1>0, <1>2, <1>4, <1>6, <1>7, <1>8 DEF c, IsInserted

\* The item at any place of a sequence is taken out.
LEMMA RemoveAtPlace ==
    ASSUME NEW S, NEW q \in Seq(S), NEW i \in 1..Len(q)
    PROVE  /\ RemoveAt(q, i) \in Seq(S)
           /\ Len(RemoveAt(q, i)) = Len(q) - 1
           /\ \A j \in 1..(Len(q) - 1) :
                RemoveAt(q, i)[j] = IF j < i THEN q[j] ELSE q[j + 1]
<1>. DEFINE a == SubSeq(q, 1, i - 1)
            b == SubSeq(q, i + 1, Len(q))
<1>0. Len(q) \in Nat /\ (\A j \in 1..Len(q) : q[j] \in S)
  BY LenProperties, ElementOfSeq
<1>1. /\ a \in Seq(S) /\ Len(a) = i - 1
      /\ \A j \in 1..(i - 1) : a[j] = q[j]
  BY <1>0, SubSeqProperties
<1>2. /\ b \in Seq(S) /\ Len(b) = Len(q) - i
      /\ \A j \in 1..(Len(q) - i) : b[j] = q[i + 1 + j - 1]
  BY <1>0, SubSeqProperties
<1>. HIDE DEF a, b
<1>3. /\ a \o b \in Seq(S) /\ Len(a \o b) = Len(a) + Len(b)
      /\ \A j \in 1..(Len(a) + Len(b)) : (a \o b)[j] = IF j <= Len(a) THEN a[j] ELSE b[j - Len(a)]
  BY <1>1, <1>2, ConcatProperties
<1>4. RemoveAt(q, i) = a \o b
  BY DEF RemoveAt, a, b
<1>. DEFINE c == a \o b
<1>. HIDE DEF c
<1>5. ASSUME NEW j \in 1..(Len(q) - 1)
      PROVE  c[j] = IF j < i THEN q[j] ELSE q[j + 1]
  <2>1. c[j] = IF j <= i - 1 THEN a[j] ELSE b[j - (i - 1)]
    BY <1>0, <1>1, <1>2, <1>3 DEF c
  <2>2. CASE j <= i - 1
    BY <2>1, <2>2, <1>0, <1>1
  <2>3. CASE j >= i
    <3>1. PICK d \in 1..(Len(q) - i) : d = j - (i - 1) /\ i + 1 + d - 1 = j + 1
      BY <2>3, <1>0
    <3>2. b[d] = q[i + 1 + d - 1]
      BY <1>2
    <3>3. j \in Int /\ i \in Int
      BY <1>0
    <3>. QED
      BY <2>1, <2>3, <3>1, <3>2, <3>3
  <2>. QED
    BY <2>2, <2>3, <1>0
<1>. QED
  BY <1>0, <1>1, <1>2, <1>3, <1>4, <1>5 DEF c

\* Each place of a list has a node, and no node two places.
LEMMA Places ==
    ASSUME NEW S \in [ ListHead -> Seq(Item) ], Apart(S)
    PROVE  /\ \A l \in ListHead : Len(S[l]) \in Nat
           /\ \A l \in ListHead : \A k \in 1..Len(S[l]) : S[l][k] \in Item
           /\ \A l \in ListHead : \A k \in Int : At(S[l], l, k) \in Node
           /\ \A l, m \in ListHead : \A j \in 0..Len(S[l]), k \in 0..Len(S[m]) :
                 At(S[l], l, j) = At(S[m], m, k) => l = m /\ j = k
           /\ \A l, m \in ListHead : \A j \in 1..(Len(S[l]) + 1), k \in 1..(Len(S[m]) + 1) :
                 At(S[l], l, j) = At(S[m], m, k) => l = m /\ j = k
<1>. USE ListAssumption
<1>1. \A l \in ListHead : S[l] \in Seq(Item)
  OBVIOUS
<1>2. \A l \in ListHead : Len(S[l]) \in Nat
  BY <1>1, LenProperties
<1>3. \A l \in ListHead : \A k \in 1..Len(S[l]) : S[l][k] \in Item
  BY <1>1, ElementOfSeq
<1>4. \A l \in ListHead : \A k \in Int : At(S[l], l, k) \in Node
  BY <1>3 DEF At, Node
<1>5. ASSUME NEW l \in ListHead, NEW m \in ListHead, NEW j \in Int, NEW k \in Int,
             At(S[l], l, j) = At(S[m], m, k)
      PROVE  l = m /\ ((j \in 1..Len(S[l]) /\ j = k) \/ (j \notin 1..Len(S[l]) /\ k \notin 1..Len(S[m])))
  BY <1>2, <1>3, <1>5 DEF At, Apart
<1>6. ASSUME NEW l \in ListHead, NEW m \in ListHead, NEW j \in 0..Len(S[l]), NEW k \in 0..Len(S[m]),
             At(S[l], l, j) = At(S[m], m, k)
      PROVE  l = m /\ j = k
  BY <1>2, <1>5, <1>6
<1>7. ASSUME NEW l \in ListHead, NEW m \in ListHead, NEW j \in 1..(Len(S[l]) + 1), NEW k \in 1..(Len(S[m]) + 1),
             At(S[l], l, j) = At(S[m], m, k)
      PROVE  l = m /\ j = k
  BY <1>2, <1>5, <1>7
<1>. QED
  BY <1>2, <1>3, <1>4, <1>6, <1>7

\* list_for_every() visits the entries of its list, in order: the step that goes
\* from a node to the next is taken no more often than there are nodes.
LEMMA ForEvery ==
    ASSUME NEW l \in ListHead, NEW s \in Seq(Item), NEW f, Chain(f, l, s),
           \A j, k \in 1..Len(s) : s[j] = s[k] => j = k
    PROVE  list_for_every(f, l) = s
<1>. USE ListAssumption
<1>. DEFINE N == Cardinality(Item)
            G(g) == [ k \in 1..(N + 1) |->
                        IF k = 1 THEN f[l]
                        ELSE IF g[k - 1] \in { l, NoNode } THEN g[k - 1] ELSE f[g[k - 1]] ]
            at == CHOOSE g : g = G(g)
            w == [ k \in 1..(N + 1) |-> IF k <= Len(s) THEN s[k] ELSE l ]
<1>1. Len(s) \in Nat /\ N \in Nat /\ (\A k \in 1..Len(s) : s[k] \in Item)
  BY LenProperties, ElementOfSeq, FS_CardinalityType
<1>2. Len(s) <= N
  <2>1. s \in [ 1..Len(s) -> Item ]
    BY LenProperties, ElementOfSeq
  <2>2. s \in Injection(1..Len(s), Item)
    BY <2>1 DEF Injection, IsInjective
  <2>3. Cardinality(1..Len(s)) = Len(s)
    <3>1. \A n \in Nat : Cardinality(1..n) = n
      BY FS_Interval
    <3>. QED
      BY <1>1, <3>1
  <2>. QED
    BY <2>2, <2>3, FS_Injection
<1>3. w = G(w)
  <2>1. ASSUME NEW k \in 1..(N + 1)
        PROVE  w[k] = IF k = 1 THEN f[l]
                      ELSE IF w[k - 1] \in { l, NoNode } THEN w[k - 1] ELSE f[w[k - 1]]
    <3>1. CASE k <= Len(s) + 1
      <4>1. f[At(s, l, k - 1)] = At(s, l, k)
        <5>1. PICK d \in 0..Len(s) : d = k - 1 /\ d + 1 = k
          BY <3>1, <1>1
        <5>2. f[At(s, l, d)] = At(s, l, d + 1)
          BY DEF Chain
        <5>. QED
          BY <5>1, <5>2
      <4>2. w[k] = At(s, l, k)
        BY <3>1, <1>1 DEF At
      <4>3. CASE k = 1
        BY <4>1, <4>2, <4>3, <1>1 DEF At
      <4>4. CASE k # 1
        <5>1. PICK d \in 1..Len(s) : d = k - 1
          BY <4>4, <3>1, <1>1
        <5>2. At(s, l, d) = s[d] /\ w[d] = s[d] /\ s[d] \in Item
          BY <5>1, <1>1, <1>2 DEF At
        <5>3. f[w[d]] = w[k] /\ w[d] \notin { l, NoNode }
          BY <5>1, <5>2, <4>1, <4>2
        <5>. HIDE DEF w
        <5>. QED
          BY <5>1, <5>3, <4>4
      <4>. QED
        BY <4>3, <4>4
    <3>2. CASE k > Len(s) + 1
      BY <3>2, <1>1
    <3>. QED
      BY <3>1, <3>2, <1>1
  <2>. HIDE DEF w
  <2>2. G(w) = [ k \in 1..(N + 1) |-> w[k] ]
    BY <2>1
  <2>3. w = [ k \in 1..(N + 1) |-> w[k] ]
    BY DEF w
  <2>. QED
    BY <2>2, <2>3
<1>4. at = G(at)
  BY <1>3
<1>. HIDE DEF at, w
<1>5. \A k \in 1..(N + 1) : at[k] = w[k]
  <2>. DEFINE P == { n \in Nat : n + 1 \in 1..(N + 1) => at[n + 1] = w[n + 1] }
  <2>1. \A k \in 1..(N + 1) :
            at[k] = IF k = 1 THEN f[l]
                    ELSE IF at[k - 1] \in { l, NoNode } THEN at[k - 1] ELSE f[at[k - 1]]
    <3>. DEFINE e(k) == IF k = 1 THEN f[l]
                        ELSE IF at[k - 1] \in { l, NoNode } THEN at[k - 1] ELSE f[at[k - 1]]
    <3>1. at = [ k \in 1..(N + 1) |-> e(k) ]
      BY <1>4
    <3>. HIDE DEF e
    <3>2. \A k \in 1..(N + 1) : at[k] = e(k)
      BY <3>1
    <3>. QED
      BY <3>2 DEF e
  <2>2. \A k \in 1..(N + 1) :
            w[k] = IF k = 1 THEN f[l]
                   ELSE IF w[k - 1] \in { l, NoNode } THEN w[k - 1] ELSE f[w[k - 1]]
    <3>. DEFINE e(k) == IF k = 1 THEN f[l]
                        ELSE IF w[k - 1] \in { l, NoNode } THEN w[k - 1] ELSE f[w[k - 1]]
    <3>1. w = [ k \in 1..(N + 1) |-> e(k) ]
      BY <1>3
    <3>. HIDE DEF e
    <3>2. \A k \in 1..(N + 1) : w[k] = e(k)
      BY <3>1
    <3>. QED
      BY <3>2 DEF e
  <2>. HIDE DEF N
  <2>3. 0 \in P
    BY <1>1, <2>1, <2>2
  <2>4. ASSUME NEW n \in Nat, n \in P
        PROVE  n + 1 \in P
    <3>1. SUFFICES ASSUME n + 2 \in 1..(N + 1)
                   PROVE  at[n + 2] = w[n + 2]
      OBVIOUS
    <3>2. n + 1 \in 1..(N + 1) /\ at[n + 1] = w[n + 1]
      BY <2>4, <3>1, <1>1
    <3>3. PICK k \in 1..(N + 1), d \in 1..(N + 1) : k = n + 2 /\ d = n + 1 /\ d = k - 1 /\ k # 1
      BY <3>1, <3>2
    <3>. QED
      BY <2>1, <2>2, <3>2, <3>3
  <2>5. \A n \in Nat : n \in P
    <3>. HIDE DEF P
    <3>. QED
      BY <2>3, <2>4, InductionOnSet
  <2>6. ASSUME NEW k \in 1..(N + 1)
        PROVE  at[k] = w[k]
    <3>1. PICK n \in Nat : n = k - 1 /\ n + 1 = k
      BY <1>1
    <3>. QED
      BY <2>5, <3>1
  <2>. QED
    BY <2>6
<1>6. DOMAIN at = 1..(N + 1)
  BY <1>4
<1>7. { j \in DOMAIN at : at[j] \notin { l, NoNode } } = 1..Len(s)
  BY <1>1, <1>2, <1>5, <1>6 DEF w
<1>8. \A k \in 1..Len(s) : at[k] = s[k]
  BY <1>1, <1>2, <1>5 DEF w
<1>9. list_for_every(f, l) = [ k \in { j \in DOMAIN at : at[j] \notin { l, NoNode } } |-> at[k] ]
  BY DEF list_for_every, at
<1>10. s = [ k \in 1..Len(s) |-> s[k] ]
  BY LenProperties
<1>. QED
  BY <1>7, <1>8, <1>9, <1>10

\* An entry is linked in at place |k| of the list |l|.
LEMMA InsertRepresents ==
    ASSUME NEW S, NEW nx, NEW pv, Represents(S, nx, pv),
           NEW l \in ListHead, NEW k \in 1..(Len(S[l]) + 1), NEW i \in Item, OnNone(S, i),
           NEW e, e = At(S[l], l, k - 1)
    PROVE  Represents([S EXCEPT ![l] = InsertAt(@, k, i)],
                      [nx EXCEPT ![i] = nx[e], ![e] = i], [pv EXCEPT ![i] = e, ![nx[e]] = i])
<1>. USE ListAssumption
<1>. DEFINE q == S[l]
            r == InsertAt(q, k, i)
            T == [S EXCEPT ![l] = r]
            c == nx[e]
            nx2 == [nx EXCEPT ![i] = c, ![e] = i]
            pv2 == [pv EXCEPT ![i] = e, ![c] = i]
<1>1. /\ S \in [ ListHead -> Seq(Item) ] /\ Apart(S)
      /\ nx \in [ Node -> Node \cup { NoNode } ] /\ pv \in [ Node -> Node \cup { NoNode } ]
  BY DEF Represents
<1>2. /\ \A m \in ListHead : \A j \in 0..Len(S[m]) : nx[At(S[m], m, j)] = At(S[m], m, j + 1)
      /\ \A m \in ListHead : \A j \in 0..Len(S[m]) : pv[At(S[m], m, j + 1)] = At(S[m], m, j)
      /\ \A x \in Item : OnNone(S, x) => nx[x] = NoNode /\ pv[x] = NoNode
  BY DEF Represents
<1>3. /\ \A m \in ListHead : Len(S[m]) \in Nat
      /\ \A m \in ListHead : \A j \in 1..Len(S[m]) : S[m][j] \in Item
      /\ \A m \in ListHead : \A j \in Int : At(S[m], m, j) \in Node
  BY <1>1, Places
<1>4. \A m, p \in ListHead : \A j \in 0..Len(S[m]), h \in 0..Len(S[p]) :
                 At(S[m], m, j) = At(S[p], p, h) => m = p /\ j = h
  BY <1>1, Places
<1>5. \A m, p \in ListHead : \A j \in 1..(Len(S[m]) + 1), h \in 1..(Len(S[p]) + 1) :
                 At(S[m], m, j) = At(S[p], p, h) => m = p /\ j = h
  BY <1>1, Places
<1>6. \A m \in ListHead : \A j \in Int : At(S[m], m, j) # i
  BY <1>3 DEF At, OnNone
<1>7. c = At(q, l, k)
  <2>1. PICK d \in 0..Len(q) : d = k - 1 /\ d + 1 = k
    BY <1>3
  <2>. QED
    BY <2>1, <1>2
<1>8. i \in Node /\ e \in Node /\ c \in Node /\ e # i /\ c # i
  BY <1>3, <1>6, <1>7 DEF Node
<1>9. /\ r \in Seq(Item) /\ Len(r) = Len(q) + 1
      /\ \A j \in 1..(Len(q) + 1) :
            r[j] = IF j < k THEN q[j] ELSE IF j = k THEN i ELSE q[j - 1]
  <2>1. q \in Seq(Item) /\ k \in 1..(Len(q) + 1)
    BY <1>1
  <2>. HIDE DEF q
  <2>2. IsInserted(Item, q, k, i, InsertAt(q, k, i))
    BY <2>1, InsertAtPlace
  <2>. QED
    BY <2>2 DEF IsInserted
<1>. HIDE DEF r
<1>10. /\ T \in [ ListHead -> Seq(Item) ] /\ T[l] = r
       /\ \A m \in ListHead : m # l => T[m] = S[m]
  BY <1>1, <1>9
<1>11. \A j \in 0..(Len(q) + 2) :
          At(r, l, j) = IF j < k THEN At(q, l, j) ELSE IF j = k THEN i ELSE At(q, l, j - 1)
  <2>. SUFFICES ASSUME NEW j \in 0..(Len(q) + 2)
                PROVE  At(r, l, j) = IF j < k THEN At(q, l, j) ELSE IF j = k THEN i ELSE At(q, l, j - 1)
    OBVIOUS
  <2>1. Len(q) \in Nat /\ k \in 1..(Len(q) + 1)
    BY <1>3
  <2>. HIDE DEF q
  <2>2. CASE j \in 1..(Len(q) + 1)
    <3>1. PICK d \in Int : d = j - 1
      OBVIOUS
    <3>2. At(r, l, j) = r[j]
      BY <2>2, <1>9 DEF At
    <3>3. r[j] = IF j < k THEN q[j] ELSE IF j = k THEN i ELSE q[d]
      BY <2>2, <1>9, <3>1
    <3>4. j < k => At(q, l, j) = q[j]
      BY <2>1, <2>2 DEF At
    <3>5. j > k => At(q, l, d) = q[d]
      BY <2>1, <2>2, <3>1 DEF At
    <3>. QED
      BY <3>1, <3>2, <3>3, <3>4, <3>5, <2>1
  <2>3. CASE j \notin 1..(Len(q) + 1)
    <3>1. PICK d \in Int : d = j - 1
      OBVIOUS
    <3>2. At(r, l, j) = l
      BY <2>3, <1>9, <2>1 DEF At
    <3>3. j = 0 \/ j = Len(q) + 2
      BY <2>1, <2>3
    <3>4. CASE j = 0
      BY <3>2, <3>4, <2>1 DEF At
    <3>5. CASE j = Len(q) + 2
      <4>1. At(q, l, d) = l /\ ~(j < k) /\ j # k
        BY <3>1, <3>5, <2>1 DEF At
      <4>. QED
        BY <4>1, <3>1, <3>2
    <3>. QED
      BY <3>3, <3>4, <3>5
  <2>. QED
    BY <2>2, <2>3
<1>. HIDE DEF T
<1>12. Apart(T)
  <2>. SUFFICES ASSUME NEW m \in ListHead, NEW p \in ListHead,
                       NEW j \in 1..Len(T[m]), NEW h \in 1..Len(T[p]), T[m][j] = T[p][h]
                PROVE  m = p /\ j = h
    BY DEF Apart
  <2>. DEFINE src(u, g) == IF u = l /\ g > k THEN g - 1 ELSE g
  <2>0. k \in Int /\ (\A u \in ListHead : Len(T[u]) \in Nat) /\ T[l][k] = i
    BY <1>3, <1>9, <1>10
  <2>1. ASSUME NEW u \in ListHead, NEW g \in 1..Len(T[u]), ~(u = l /\ g = k)
        PROVE  src(u, g) \in 1..Len(S[u]) /\ T[u][g] = S[u][src(u, g)]
    <3>1. CASE u # l
      BY <3>1, <1>10
    <3>2. CASE u = l /\ g < k
      <4>1. g \in Int /\ g \in 1..Len(q) /\ g \in 1..(Len(q) + 1)
        BY <3>2, <1>3, <1>9, <1>10
      <4>2. T[u][g] = q[g]
        BY <3>2, <4>1, <1>9, <1>10
      <4>. QED
        BY <3>2, <4>1, <4>2, <2>0
    <3>3. CASE u = l /\ g > k
      <4>1. PICK d \in 1..Len(q) : d = g - 1
        BY <3>3, <1>3, <1>9, <1>10
      <4>2. T[u][g] = q[d]
        BY <3>3, <4>1, <1>3, <1>9, <1>10
      <4>. QED
        BY <3>3, <4>1, <4>2
    <3>. QED
      BY <2>0, <2>1, <3>1, <3>2, <3>3
  <2>2. \A u \in ListHead : \A d \in 1..Len(S[u]) : S[u][d] # i
    BY DEF OnNone
  <2>3. \A u, v \in ListHead : \A d \in 1..Len(S[u]), g \in 1..Len(S[v]) :
            S[u][d] = S[v][g] => u = v /\ d = g
    BY <1>1 DEF Apart
  <2>4. CASE m = l /\ j = k
    <3>1. T[p][h] = i
      BY <2>0, <2>4
    <3>2. ASSUME ~(p = l /\ h = k) PROVE FALSE
      <4>1. PICK g \in 1..Len(S[p]) : T[p][h] = S[p][g]
        BY <2>1, <3>2
      <4>. QED
        BY <2>2, <3>1, <4>1
    <3>. QED
      BY <2>4, <3>2
  <2>5. CASE p = l /\ h = k
    <3>1. T[m][j] = i
      BY <2>0, <2>5
    <3>2. ASSUME ~(m = l /\ j = k) PROVE FALSE
      <4>1. PICK g \in 1..Len(S[m]) : T[m][j] = S[m][g]
        BY <2>1, <3>2
      <4>. QED
        BY <2>2, <3>1, <4>1
    <3>. QED
      BY <2>5, <3>2
  <2>6. CASE ~(m = l /\ j = k) /\ ~(p = l /\ h = k)
    <3>1. PICK d \in 1..Len(S[m]) : d = src(m, j) /\ T[m][j] = S[m][d]
      BY <2>1, <2>6
    <3>2. PICK g \in 1..Len(S[p]) : g = src(p, h) /\ T[p][h] = S[p][g]
      BY <2>1, <2>6
    <3>3. S[m][d] = S[p][g]
      BY <3>1, <3>2
    <3>4. m = p /\ d = g
      BY <2>3, <3>3
    <3>5. j \in Int /\ h \in Int
      BY <2>0
    <3>. QED
      BY <3>1, <3>2, <3>4, <3>5, <2>0, <2>6
  <2>. QED
    BY <2>4, <2>5, <2>6
<1>13. nx2 \in [ Node -> Node \cup { NoNode } ] /\ pv2 \in [ Node -> Node \cup { NoNode } ]
  BY <1>1, <1>8
<1>14. /\ \A x \in Node : nx2[x] = IF x = e THEN i ELSE IF x = i THEN c ELSE nx[x]
       /\ \A x \in Node : pv2[x] = IF x = c THEN i ELSE IF x = i THEN e ELSE pv[x]
  BY <1>1, <1>8
<1>. HIDE DEF nx2, pv2, c
<1>15. ASSUME NEW m \in ListHead, NEW j \in 0..Len(T[m])
       PROVE  /\ nx2[At(T[m], m, j)] = At(T[m], m, j + 1)
              /\ pv2[At(T[m], m, j + 1)] = At(T[m], m, j)
  <2>1. CASE m # l
    <3>1. PICK d \in 1..(Len(S[m]) + 1) : d = j + 1 /\ j \in 0..Len(S[m])
      BY <2>1, <1>3, <1>10
    <3>2. PICK g \in 0..Len(q) : g = k - 1
      BY <1>3
    <3>3. At(S[m], m, j) # e
      BY <2>1, <3>1, <3>2, <1>4
    <3>4. At(S[m], m, d) # c
      BY <2>1, <3>1, <1>5, <1>7
    <3>5. At(S[m], m, j) \in Node /\ At(S[m], m, d) \in Node
          /\ At(S[m], m, j) # i /\ At(S[m], m, d) # i
      BY <1>3, <1>6
    <3>6. nx[At(S[m], m, j)] = At(S[m], m, d) /\ pv[At(S[m], m, d)] = At(S[m], m, j)
      BY <3>1, <1>2
    <3>7. nx2[At(S[m], m, j)] = At(S[m], m, d) /\ pv2[At(S[m], m, d)] = At(S[m], m, j)
      BY <3>3, <3>4, <3>5, <3>6, <1>14
    <3>. QED
      BY <2>1, <3>1, <3>7, <1>10
  <2>2. CASE m = l
    <3>. DEFINE A(x) == At(q, l, x)
                B(x) == At(r, l, x)
    <3>0. Len(q) \in Nat /\ k \in 1..(Len(q) + 1)
      BY <1>3
    <3>1. j \in 0..(Len(q) + 1) /\ T[m] = r
      BY <2>2, <1>9, <1>10
    <3>2. \A x \in Int : A(x) \in Node /\ A(x) # i
      BY <1>3, <1>6
    <3>3. e = A(k - 1) /\ c = A(k)
      BY <1>7
    <3>4. \A x \in 0..Len(q) : nx[A(x)] = A(x + 1) /\ pv[A(x + 1)] = A(x)
      BY <1>2
    <3>5. \A x, y \in 0..Len(q) : A(x) = A(y) => x = y
      BY <1>4
    <3>6. \A x, y \in 1..(Len(q) + 1) : A(x) = A(y) => x = y
      BY <1>5
    <3>7. \A x \in 0..(Len(q) + 2) : B(x) = IF x < k THEN A(x) ELSE IF x = k THEN i ELSE A(x - 1)
      BY <1>11
    <3>. HIDE DEF A, B, q
    <3>8. nx2[B(j)] = B(j + 1) /\ pv2[B(j + 1)] = B(j)
      <4>1. CASE j < k - 1
        <5>0. j \in 0..Len(q) /\ j + 1 \in 0..Len(q) /\ j < k /\ j + 1 < k
          BY <4>1, <3>0, <3>1
        <5>1. B(j) = A(j) /\ B(j + 1) = A(j + 1)
          BY <5>0, <3>7
        <5>2. A(j) # e /\ A(j + 1) # c
          BY <4>1, <3>0, <3>1, <3>3, <3>5, <3>6
        <5>3. nx[A(j)] = A(j + 1) /\ pv[A(j + 1)] = A(j)
          BY <4>1, <3>0, <3>4
        <5>. QED
          BY <5>1, <5>2, <5>3, <3>2, <1>14
      <4>2. CASE j = k - 1
        <5>1. B(j) = e /\ B(j + 1) = i
          BY <4>2, <3>0, <3>1, <3>3, <3>7
        <5>. QED
          BY <5>1, <1>8, <1>14
      <4>3. CASE j = k
        <5>1. B(j) = i /\ B(j + 1) = c
          BY <4>3, <3>0, <3>1, <3>3, <3>7
        <5>. QED
          BY <5>1, <1>8, <1>14
      <4>4. CASE j > k
        <5>0. PICK d \in 1..Len(q) : d = j - 1 /\ d + 1 = j /\ d > k - 1
          BY <4>4, <3>0, <3>1
        <5>1. B(j) = A(d) /\ B(j + 1) = A(j)
          BY <4>4, <5>0, <3>0, <3>1, <3>7
        <5>2. A(d) # e /\ A(j) # c
          BY <4>4, <5>0, <3>0, <3>1, <3>3, <3>5, <3>6
        <5>3. nx[A(d)] = A(j) /\ pv[A(j)] = A(d)
          BY <5>0, <3>0, <3>4
        <5>. QED
          BY <5>1, <5>2, <5>3, <3>2, <1>14
      <4>. QED
        BY <4>1, <4>2, <4>3, <4>4, <3>0
    <3>. QED
      BY <2>2, <3>1, <3>8 DEF B
  <2>. QED
    BY <2>1, <2>2
<1>16. ASSUME NEW x \in Item, OnNone(T, x)
       PROVE  nx2[x] = NoNode /\ pv2[x] = NoNode
  <2>1. x # i
    <3>1. T[l][k] = i /\ k \in 1..Len(T[l])
      BY <1>3, <1>9, <1>10
    <3>. QED
      BY <3>1, <1>16 DEF OnNone
  <2>2. OnNone(S, x)
    <3>. SUFFICES ASSUME NEW m \in ListHead, NEW j \in 1..Len(S[m]) PROVE S[m][j] # x
      BY DEF OnNone
    <3>1. \A g \in 1..Len(T[m]) : T[m][g] # x
      BY <1>16 DEF OnNone
    <3>2. CASE m # l
      BY <3>1, <3>2, <1>10
    <3>3. CASE m = l /\ j < k
      <4>1. j \in 1..(Len(q) + 1)
        BY <3>3, <1>3
      <4>2. j \in 1..Len(T[m]) /\ T[m][j] = S[m][j]
        BY <3>3, <4>1, <1>9, <1>10
      <4>. QED
        BY <3>1, <4>2
    <3>4. CASE m = l /\ j >= k
      <4>1. PICK d \in 1..(Len(q) + 1) : d = j + 1 /\ d - 1 = j /\ d > k
        BY <3>4, <1>3
      <4>2. r[d] = q[j]
        BY <4>1, <1>3, <1>9
      <4>3. d \in 1..Len(T[m]) /\ T[m][d] = S[m][j]
        BY <3>4, <4>2, <1>9, <1>10
      <4>. QED
        BY <3>1, <4>3
    <3>. QED
      BY <3>2, <3>3, <3>4, <1>3
  <2>3. \A j \in Int : At(q, l, j) # x
    BY <2>2 DEF At, OnNone
  <2>4. x # e /\ x # c
    <3>1. k - 1 \in Int /\ k \in Int
      BY <1>3
    <3>. QED
      BY <2>3, <3>1, <1>7
  <2>. QED
    BY <2>1, <2>2, <2>4, <1>2, <1>14 DEF Node
<1>. QED
  BY <1>10, <1>12, <1>13, <1>15, <1>16 DEF Represents, T, nx2, pv2, c, r, q

\* The entry at place |k| of the list |l| leaves it.
LEMMA DeleteRepresents ==
    ASSUME NEW S, NEW nx, NEW pv, Represents(S, nx, pv),
           NEW l \in ListHead, NEW k \in 1..Len(S[l]), NEW i, i = S[l][k]
    PROVE  Represents([S EXCEPT ![l] = RemoveAt(@, k)],
                      [nx EXCEPT ![pv[i]] = nx[i], ![i] = NoNode],
                      [pv EXCEPT ![nx[i]] = pv[i], ![i] = NoNode])
<1>. USE ListAssumption
<1>. DEFINE q == S[l]
            r == RemoveAt(q, k)
            T == [S EXCEPT ![l] = r]
            b == pv[i]
            c == nx[i]
            nx2 == [nx EXCEPT ![b] = c, ![i] = NoNode]
            pv2 == [pv EXCEPT ![c] = b, ![i] = NoNode]
<1>1. /\ S \in [ ListHead -> Seq(Item) ] /\ Apart(S)
      /\ nx \in [ Node -> Node \cup { NoNode } ] /\ pv \in [ Node -> Node \cup { NoNode } ]
  BY DEF Represents
<1>2. /\ \A m \in ListHead : \A j \in 0..Len(S[m]) : nx[At(S[m], m, j)] = At(S[m], m, j + 1)
      /\ \A m \in ListHead : \A j \in 0..Len(S[m]) : pv[At(S[m], m, j + 1)] = At(S[m], m, j)
      /\ \A x \in Item : OnNone(S, x) => nx[x] = NoNode /\ pv[x] = NoNode
  BY DEF Represents
<1>3. /\ \A m \in ListHead : Len(S[m]) \in Nat
      /\ \A m \in ListHead : \A j \in 1..Len(S[m]) : S[m][j] \in Item
      /\ \A m \in ListHead : \A j \in Int : At(S[m], m, j) \in Node
  BY <1>1, Places
<1>4. \A m, p \in ListHead : \A j \in 0..Len(S[m]), h \in 0..Len(S[p]) :
                 At(S[m], m, j) = At(S[p], p, h) => m = p /\ j = h
  BY <1>1, Places
<1>5. \A m, p \in ListHead : \A j \in 1..(Len(S[m]) + 1), h \in 1..(Len(S[p]) + 1) :
                 At(S[m], m, j) = At(S[p], p, h) => m = p /\ j = h
  BY <1>1, Places
<1>6. i = At(q, l, k) /\ i \in Item
  BY <1>3 DEF At
<1>7. b = At(q, l, k - 1) /\ c = At(q, l, k + 1)
  <2>1. PICK d \in 0..Len(q) : d = k - 1 /\ d + 1 = k
    BY <1>3
  <2>2. k \in 0..Len(q)
    BY <1>3
  <2>. QED
    BY <2>1, <2>2, <1>2, <1>6
<1>8. i \in Node /\ b \in Node /\ c \in Node
  BY <1>3, <1>6, <1>7 DEF Node
<1>9. /\ r \in Seq(Item) /\ Len(r) = Len(q) - 1
      /\ \A j \in 1..(Len(q) - 1) : r[j] = IF j < k THEN q[j] ELSE q[j + 1]
  <2>1. q \in Seq(Item) /\ k \in 1..Len(q)
    BY <1>1
  <2>. HIDE DEF q
  <2>. QED
    BY <2>1, RemoveAtPlace
<1>. HIDE DEF r
<1>10. /\ T \in [ ListHead -> Seq(Item) ] /\ T[l] = r
       /\ \A m \in ListHead : m # l => T[m] = S[m]
  BY <1>1, <1>9
<1>11. \A j \in 0..Len(q) : At(r, l, j) = IF j < k THEN At(q, l, j) ELSE At(q, l, j + 1)
  <2>. SUFFICES ASSUME NEW j \in 0..Len(q)
                PROVE  At(r, l, j) = IF j < k THEN At(q, l, j) ELSE At(q, l, j + 1)
    OBVIOUS
  <2>1. Len(q) \in Nat /\ k \in 1..Len(q)
    BY <1>3
  <2>. HIDE DEF q
  <2>2. PICK d \in Int : d = j + 1
    OBVIOUS
  <2>3. CASE j \in 1..(Len(q) - 1)
    <3>1. At(r, l, j) = r[j]
      BY <2>3, <1>9 DEF At
    <3>2. r[j] = IF j < k THEN q[j] ELSE q[d]
      BY <2>2, <2>3, <1>9
    <3>3. At(q, l, j) = q[j] /\ At(q, l, d) = q[d]
      BY <2>1, <2>2, <2>3 DEF At
    <3>. QED
      BY <2>2, <3>1, <3>2, <3>3
  <2>4. CASE j \notin 1..(Len(q) - 1)
    <3>1. At(r, l, j) = l
      BY <2>4, <1>9 DEF At
    <3>2. j = 0 \/ j = Len(q)
      BY <2>1, <2>4
    <3>3. CASE j = 0
      BY <3>1, <3>3, <2>1 DEF At
    <3>4. CASE j = Len(q)
      <4>1. At(q, l, d) = l /\ ~(j < k)
        BY <3>4, <2>1, <2>2 DEF At
      <4>. QED
        BY <4>1, <3>1, <2>2
    <3>. QED
      BY <3>2, <3>3, <3>4
  <2>. QED
    BY <2>3, <2>4
<1>. HIDE DEF T
<1>12. Apart(T)
  <2>. SUFFICES ASSUME NEW m \in ListHead, NEW p \in ListHead,
                       NEW j \in 1..Len(T[m]), NEW h \in 1..Len(T[p]), T[m][j] = T[p][h]
                PROVE  m = p /\ j = h
    BY DEF Apart
  <2>. DEFINE src(u, g) == IF u = l /\ g >= k THEN g + 1 ELSE g
  <2>0. k \in Int /\ (\A u \in ListHead : Len(T[u]) \in Nat)
    BY <1>3, <1>9, <1>10
  <2>1. ASSUME NEW u \in ListHead, NEW g \in 1..Len(T[u])
        PROVE  src(u, g) \in 1..Len(S[u]) /\ T[u][g] = S[u][src(u, g)]
    <3>1. CASE u # l
      BY <3>1, <1>10
    <3>2. CASE u = l /\ g < k
      <4>1. g \in Int /\ g \in 1..Len(q) /\ g \in 1..(Len(q) - 1)
        BY <3>2, <1>3, <1>9, <1>10
      <4>2. T[u][g] = q[g]
        BY <3>2, <4>1, <1>9, <1>10
      <4>. QED
        BY <3>2, <4>1, <4>2, <2>0
    <3>3. CASE u = l /\ g >= k
      <4>1. PICK d \in 1..Len(q) : d = g + 1 /\ g \in 1..(Len(q) - 1)
        BY <3>3, <1>3, <1>9, <1>10
      <4>2. T[u][g] = q[d]
        BY <3>3, <4>1, <1>3, <1>9, <1>10
      <4>. QED
        BY <3>3, <4>1, <4>2
    <3>. QED
      BY <2>0, <2>1, <3>1, <3>2, <3>3
  <2>3. \A u, v \in ListHead : \A d \in 1..Len(S[u]), g \in 1..Len(S[v]) :
            S[u][d] = S[v][g] => u = v /\ d = g
    BY <1>1 DEF Apart
  <2>4. PICK d \in 1..Len(S[m]) : d = src(m, j) /\ T[m][j] = S[m][d]
    BY <2>1
  <2>5. PICK g \in 1..Len(S[p]) : g = src(p, h) /\ T[p][h] = S[p][g]
    BY <2>1
  <2>6. S[m][d] = S[p][g]
    BY <2>4, <2>5
  <2>7. m = p /\ d = g
    BY <2>3, <2>6
  <2>8. j \in Int /\ h \in Int
    BY <2>0
  <2>. QED
    BY <2>0, <2>4, <2>5, <2>7, <2>8
<1>13. nx2 \in [ Node -> Node \cup { NoNode } ] /\ pv2 \in [ Node -> Node \cup { NoNode } ]
  BY <1>1, <1>8
<1>14. /\ \A x \in Node : nx2[x] = IF x = i THEN NoNode ELSE IF x = b THEN c ELSE nx[x]
       /\ \A x \in Node : pv2[x] = IF x = i THEN NoNode ELSE IF x = c THEN b ELSE pv[x]
  BY <1>1, <1>8
<1>. HIDE DEF nx2, pv2, b, c
<1>15. ASSUME NEW m \in ListHead, NEW j \in 0..Len(T[m])
       PROVE  /\ nx2[At(T[m], m, j)] = At(T[m], m, j + 1)
              /\ pv2[At(T[m], m, j + 1)] = At(T[m], m, j)
  <2>1. CASE m # l
    <3>1. PICK d \in 1..(Len(S[m]) + 1) : d = j + 1 /\ j \in 0..Len(S[m])
      BY <2>1, <1>3, <1>10
    <3>2. PICK g \in 0..Len(q), f \in 1..(Len(q) + 1) :
              g = k - 1 /\ f = k + 1 /\ k \in 0..Len(q) /\ k \in 1..(Len(q) + 1)
      BY <1>3
    <3>3. At(S[m], m, j) # b /\ At(S[m], m, j) # i
      BY <2>1, <3>1, <3>2, <1>4, <1>6, <1>7
    <3>4. At(S[m], m, d) # c /\ At(S[m], m, d) # i
      BY <2>1, <3>1, <3>2, <1>5, <1>6, <1>7
    <3>5. At(S[m], m, j) \in Node /\ At(S[m], m, d) \in Node
      BY <1>3
    <3>6. nx[At(S[m], m, j)] = At(S[m], m, d) /\ pv[At(S[m], m, d)] = At(S[m], m, j)
      BY <3>1, <1>2
    <3>7. nx2[At(S[m], m, j)] = At(S[m], m, d) /\ pv2[At(S[m], m, d)] = At(S[m], m, j)
      BY <3>3, <3>4, <3>5, <3>6, <1>14
    <3>. QED
      BY <2>1, <3>1, <3>7, <1>10
  <2>2. CASE m = l
    <3>. DEFINE A(x) == At(q, l, x)
                B(x) == At(r, l, x)
    <3>0. Len(q) \in Nat /\ k \in 1..Len(q)
      BY <1>3
    <3>1. j \in 0..(Len(q) - 1) /\ T[m] = r
      BY <2>2, <1>9, <1>10
    <3>2. \A x \in Int : A(x) \in Node
      BY <1>3
    <3>3. b = A(k - 1) /\ c = A(k + 1) /\ i = A(k)
      BY <1>6, <1>7
    <3>4. \A x \in 0..Len(q) : nx[A(x)] = A(x + 1) /\ pv[A(x + 1)] = A(x)
      BY <1>2
    <3>5. \A x, y \in 0..Len(q) : A(x) = A(y) => x = y
      BY <1>4
    <3>6. \A x, y \in 1..(Len(q) + 1) : A(x) = A(y) => x = y
      BY <1>5
    <3>7. \A x \in 0..Len(q) : B(x) = IF x < k THEN A(x) ELSE A(x + 1)
      BY <1>11
    <3>. HIDE DEF A, B, q
    <3>8. nx2[B(j)] = B(j + 1) /\ pv2[B(j + 1)] = B(j)
      <4>1. CASE j < k - 1
        <5>0. j \in 0..Len(q) /\ j + 1 \in 0..Len(q) /\ j < k /\ j + 1 < k
          BY <4>1, <3>0, <3>1
        <5>1. B(j) = A(j) /\ B(j + 1) = A(j + 1)
          BY <5>0, <3>7
        <5>2. A(j) # b /\ A(j) # i /\ A(j + 1) # c /\ A(j + 1) # i
          BY <4>1, <3>0, <3>1, <3>3, <3>5, <3>6
        <5>3. nx[A(j)] = A(j + 1) /\ pv[A(j + 1)] = A(j)
          BY <4>1, <3>0, <3>4
        <5>. QED
          BY <5>1, <5>2, <5>3, <3>2, <1>14
      <4>2. CASE j = k - 1
        <5>1. B(j) = b /\ B(j + 1) = c
          <6>1. B(j) = A(j) /\ j \in Int
            BY <4>2, <3>0, <3>1, <3>7
          <6>2. B(j + 1) = A(j + 2)
            BY <4>2, <3>0, <3>1, <3>7
          <6>3. j = k - 1 /\ j + 2 = k + 1
            BY <4>2, <3>0, <3>1
          <6>. QED
            BY <6>1, <6>2, <6>3, <3>3
        <5>2. b # i /\ c # i
          BY <3>0, <3>3, <3>5, <3>6
        <5>. QED
          BY <5>1, <5>2, <1>8, <1>14
      <4>4. CASE j >= k
        <5>0. PICK d \in 0..Len(q) : d = j + 1 /\ d \in 1..Len(q) /\ d > k
          BY <4>4, <3>0, <3>1
        <5>1. B(j) = A(d) /\ B(j + 1) = A(d + 1)
          BY <4>4, <5>0, <3>0, <3>1, <3>7
        <5>2. A(d) # b /\ A(d) # i /\ A(d + 1) # c /\ A(d + 1) # i
          BY <4>4, <5>0, <3>0, <3>1, <3>3, <3>5, <3>6
        <5>3. nx[A(d)] = A(d + 1) /\ pv[A(d + 1)] = A(d)
          BY <5>0, <3>0, <3>4
        <5>4. d \in Int /\ d + 1 \in Int
          BY <5>0
        <5>. QED
          BY <5>1, <5>2, <5>3, <5>4, <3>2, <1>14
      <4>. QED
        BY <4>1, <4>2, <4>4, <3>0
    <3>. QED
      BY <2>2, <3>1, <3>8 DEF B
  <2>. QED
    BY <2>1, <2>2
<1>16. ASSUME NEW x \in Item, OnNone(T, x)
       PROVE  nx2[x] = NoNode /\ pv2[x] = NoNode
  <2>1. CASE x = i
    BY <2>1, <1>8, <1>14
  <2>2. CASE x # i
    <3>1. OnNone(S, x)
      <4>. SUFFICES ASSUME NEW m \in ListHead, NEW j \in 1..Len(S[m]) PROVE S[m][j] # x
        BY DEF OnNone
      <4>1. \A g \in 1..Len(T[m]) : T[m][g] # x
        BY <1>16 DEF OnNone
      <4>2. CASE m # l
        BY <4>1, <4>2, <1>10
      <4>3. CASE m = l /\ j < k
        <5>1. j \in 1..(Len(q) - 1)
          BY <4>3, <1>3
        <5>2. j \in 1..Len(T[m]) /\ T[m][j] = S[m][j]
          BY <4>3, <5>1, <1>9, <1>10
        <5>. QED
          BY <4>1, <5>2
      <4>4. CASE m = l /\ j = k
        BY <4>4, <2>2
      <4>5. CASE m = l /\ j > k
        <5>1. PICK d \in 1..(Len(q) - 1) : d = j - 1 /\ d + 1 = j /\ d >= k
          BY <4>5, <1>3
        <5>2. r[d] = q[j]
          BY <5>1, <1>3, <1>9
        <5>3. d \in 1..Len(T[m]) /\ T[m][d] = S[m][j]
          BY <4>5, <5>2, <1>9, <1>10
        <5>. QED
          BY <4>1, <5>3
      <4>. QED
        BY <4>2, <4>3, <4>4, <4>5, <1>3
    <3>2. \A j \in Int : At(q, l, j) # x
      BY <3>1 DEF At, OnNone
    <3>3. x # b /\ x # c
      <4>1. k - 1 \in Int /\ k + 1 \in Int
        BY <1>3
      <4>. QED
        BY <3>2, <4>1, <1>7
    <3>. QED
      BY <2>2, <3>1, <3>3, <1>2, <1>14 DEF Node
  <2>. QED
    BY <2>1, <2>2
<1>. QED
  BY <1>10, <1>12, <1>13, <1>15, <1>16 DEF Represents, T, nx2, pv2, b, c, r, q

-----------------------------------------------------------------------------
(* What the links say of the sequences.                                    *)

\* Both directions of list_for_every() give the entries of the list.
LEMMA ForEveryRepresents ==
    ASSUME NEW S, NEW nx, NEW pv, Represents(S, nx, pv)
    PROVE  /\ [ l \in ListHead |-> list_for_every(nx, l) ] = S
           /\ \A l \in ListHead : list_for_every(pv, l) = Reverse(S[l])
<1>1. S \in [ ListHead -> Seq(Item) ] /\ Apart(S)
  BY DEF Represents
<1>2. \A l \in ListHead : Len(S[l]) \in Nat /\ S[l] \in Seq(Item)
  BY <1>1, Places
<1>3. \A l \in ListHead : \A j, k \in 1..Len(S[l]) : S[l][j] = S[l][k] => j = k
  BY <1>1 DEF Apart
<1>4. ASSUME NEW l \in ListHead PROVE list_for_every(nx, l) = S[l]
  <2>1. Chain(nx, l, S[l])
    BY DEF Represents, Chain
  <2>. QED
    BY <2>1, <1>2, <1>3, ForEvery
<1>5. ASSUME NEW l \in ListHead PROVE list_for_every(pv, l) = Reverse(S[l])
  <2>1. PICK q \in Seq(Item), n \in Nat : q = S[l] /\ n = Len(q)
    BY <1>2
  <2>. DEFINE r == Reverse(q)
  <2>2. \A k \in 1..n : q[k] \in Item
    BY <2>1, ElementOfSeq
  <2>3. r = [ k \in 1..n |-> q[(n - k) + 1] ]
    BY <2>1 DEF Reverse
  <2>4. \A k \in 1..n : (n - k) + 1 \in 1..n
    OBVIOUS
  <2>. HIDE DEF r
  <2>5. r \in [ 1..n -> Item ]
    BY <2>2, <2>3, <2>4
  <2>6. r \in Seq(Item) /\ Len(r) = n
    BY <2>5, SeqDef, LenProperties
  <2>7. \A j, k \in 1..n : r[j] = r[k] => j = k
    <3>. SUFFICES ASSUME NEW j \in 1..n, NEW k \in 1..n, r[j] = r[k] PROVE j = k
      OBVIOUS
    <3>1. PICK a \in 1..n, b \in 1..n : a = (n - j) + 1 /\ b = (n - k) + 1
      OBVIOUS
    <3>2. q[a] = q[b]
      BY <2>3, <3>1
    <3>3. a = b
      BY <3>2, <2>1, <1>3
    <3>. QED
      BY <3>1, <3>3
  <2>8. \A k \in 0..(n + 1) : At(r, l, k) = At(q, l, n + 1 - k)
    <3>. SUFFICES ASSUME NEW k \in 0..(n + 1) PROVE At(r, l, k) = At(q, l, n + 1 - k)
      OBVIOUS
    <3>1. PICK d \in 0..(n + 1) : d = n + 1 - k /\ (k \in 1..n => d = (n - k) + 1)
      OBVIOUS
    <3>2. k \in 1..n <=> d \in 1..n
      BY <3>1
    <3>3. k \in 1..n => r[k] = q[d]
      BY <2>3, <3>1
    <3>4. At(r, l, k) = At(q, l, d)
      BY <3>2, <3>3, <2>1, <2>6 DEF At
    <3>. QED
      BY <3>1, <3>4
  <2>9. Chain(pv, l, r)
    <3>. SUFFICES ASSUME NEW k \in 0..n PROVE pv[At(r, l, k)] = At(r, l, k + 1)
      BY <2>6 DEF Chain
    <3>1. PICK d \in 0..n : d = n - k /\ d = n + 1 - (k + 1) /\ d + 1 = n + 1 - k
      OBVIOUS
    <3>2. At(r, l, k) = At(q, l, d + 1) /\ At(r, l, k + 1) = At(q, l, d)
      <4>1. k \in 0..(n + 1) /\ k + 1 \in 0..(n + 1)
        OBVIOUS
      <4>. QED
        BY <2>8, <3>1, <4>1
    <3>3. pv[At(q, l, d + 1)] = At(q, l, d)
      BY <2>1 DEF Represents
    <3>. QED
      BY <3>2, <3>3
  <2>. QED
    BY <2>1, <2>6, <2>7, <2>9, ForEvery DEF r
<1>6. [ l \in ListHead |-> list_for_every(nx, l) ] = [ l \in ListHead |-> S[l] ]
  BY <1>4
<1>. QED
  BY <1>1, <1>5, <1>6

\* A node that is on a list has a place there; the links of an item tell whether it is.
LEMMA Placed ==
    ASSUME NEW S, NEW nx, NEW pv, Represents(S, nx, pv)
    PROVE  /\ \A e \in Node : ~(pv[e] = NoNode /\ nx[e] = NoNode) =>
                  \E l \in ListHead : \E k \in 0..Len(S[l]) : e = At(S[l], l, k)
           /\ \A i \in Item : OnNone(S, i) <=> pv[i] = NoNode /\ nx[i] = NoNode
           /\ \A l \in ListHead : \A k \in Int :
                 At(S[l], l, k) \in Node /\ nx[At(S[l], l, k)] \in Node /\ pv[At(S[l], l, k)] \in Node
<1>. USE ListAssumption
<1>1. S \in [ ListHead -> Seq(Item) ] /\ Apart(S)
  BY DEF Represents
<1>2. /\ \A l \in ListHead : Len(S[l]) \in Nat
      /\ \A l \in ListHead : \A k \in 1..Len(S[l]) : S[l][k] \in Item
      /\ \A l \in ListHead : \A k \in Int : At(S[l], l, k) \in Node
  BY <1>1, Places
<1>3. ASSUME NEW l \in ListHead, NEW k \in Int
      PROVE  /\ nx[At(S[l], l, k)] \in Node /\ pv[At(S[l], l, k)] \in Node
             /\ \E j \in 0..Len(S[l]) : At(S[l], l, k) = At(S[l], l, j)
  <2>1. PICK j \in 0..Len(S[l]), g \in 0..Len(S[l]) :
            At(S[l], l, k) = At(S[l], l, j) /\ At(S[l], l, k) = At(S[l], l, g + 1)
    <3>1. PICK n \in Nat : n = Len(S[l])
      BY <1>2
    <3>2. CASE k \in 1..n
      <4>1. k \in 0..n /\ k - 1 \in 0..n /\ (k - 1) + 1 = k
        BY <3>2
      <4>. QED
        BY <4>1, <3>1
    <3>3. CASE k \notin 1..n
      <4>1. At(S[l], l, k) = l /\ At(S[l], l, 0) = l /\ At(S[l], l, n + 1) = l
        BY <3>1, <3>3 DEF At
      <4>2. 0 \in 0..n /\ n \in 0..n
        OBVIOUS
      <4>. QED
        BY <4>1, <4>2, <3>1
    <3>. QED
      BY <3>2, <3>3
  <2>2. nx[At(S[l], l, j)] = At(S[l], l, j + 1) /\ pv[At(S[l], l, g + 1)] = At(S[l], l, g)
    BY DEF Represents
  <2>3. j \in Int /\ j + 1 \in Int /\ g \in Int
    BY <1>2
  <2>. QED
    BY <2>1, <2>2, <2>3, <1>2
<1>4. ASSUME NEW i \in Item, ~OnNone(S, i)
      PROVE  ~(pv[i] = NoNode) /\ ~(nx[i] = NoNode)
             /\ \E l \in ListHead : \E k \in 0..Len(S[l]) : i = At(S[l], l, k)
  <2>0. PICK l \in ListHead : \E j \in 1..Len(S[l]) : S[l][j] = i
    BY <1>4 DEF OnNone
  <2>1. PICK k \in 1..Len(S[l]) : S[l][k] = i
    BY <2>0
  <2>2. k \in Int /\ k \in 0..Len(S[l]) /\ i = At(S[l], l, k)
    BY <2>1, <1>2 DEF At
  <2>3. NoNode \notin Node
    BY DEF Node
  <2>. QED
    BY <2>2, <2>3, <1>3
<1>5. \A i \in Item : OnNone(S, i) <=> pv[i] = NoNode /\ nx[i] = NoNode
  BY <1>4 DEF Represents
<1>6. ASSUME NEW e \in Node, ~(pv[e] = NoNode /\ nx[e] = NoNode)
      PROVE  \E l \in ListHead : \E k \in 0..Len(S[l]) : e = At(S[l], l, k)
  <2>1. CASE e \in ListHead
    <3>1. 0 \in 0..Len(S[e]) /\ e = At(S[e], e, 0)
      BY <2>1, <1>2 DEF At
    <3>. QED
      BY <2>1, <3>1
  <2>2. CASE e \in Item
    BY <2>2, <1>4, <1>5, <1>6
  <2>. QED
    BY <2>1, <2>2 DEF Node
<1>. QED
  BY <1>2, <1>3, <1>5, <1>6

-----------------------------------------------------------------------------
(* The operations on the sequences.                                        *)

\* The links are those of the sequences read from them.
Rep == Represents(Seqs, next, prev)

\* The sequences after a step whose links are known.
LEMMA SeqsAfter ==
    ASSUME NEW S, Represents(S, next', prev')
    PROVE  Seqs' = S /\ Rep'
<1>1. [ l \in ListHead |-> list_for_every(next', l) ] = S
  BY ForEveryRepresents
<1>2. Seqs' = S
  BY <1>1 DEF Seqs
<1>. QED
  BY <1>2 DEF Rep

\* Entries are put after a node, ...
LEMMA AddHeadStep ==
    ASSUME Rep, NEW l \in ListHead, NEW k \in 1..(Len(Seqs[l]) + 1), NEW i \in Item,
           ~list_in_list(i), list_add_head(At(Seqs[l], l, k - 1), i)
    PROVE  /\ Seqs' = [Seqs EXCEPT ![l] = InsertAt(@, k, i)] /\ Rep'
           /\ OnNone(Seqs, i)
<1>1. OnNone(Seqs, i)
  BY Placed DEF Rep, list_in_list
<1>2. Represents([Seqs EXCEPT ![l] = InsertAt(@, k, i)], next', prev')
  BY <1>1, InsertRepresents DEF Rep, list_add_head
<1>. QED
  BY <1>1, <1>2, SeqsAfter

\* ... or before one ...
LEMMA AddTailStep ==
    ASSUME Rep, NEW l \in ListHead, NEW k \in 1..(Len(Seqs[l]) + 1), NEW i \in Item,
           ~list_in_list(i), list_add_tail(At(Seqs[l], l, k), i)
    PROVE  /\ Seqs' = [Seqs EXCEPT ![l] = InsertAt(@, k, i)] /\ Rep'
           /\ OnNone(Seqs, i)
<1>. DEFINE e == At(Seqs[l], l, k)
            p == At(Seqs[l], l, k - 1)
<1>0. Len(Seqs[l]) \in Nat
  BY Places DEF Rep, Represents
<1>1. next[p] = e /\ prev[e] = p
  <2>1. PICK d \in 0..Len(Seqs[l]) : d = k - 1 /\ d + 1 = k
    BY <1>0
  <2>2. next[At(Seqs[l], l, d)] = At(Seqs[l], l, d + 1) /\ prev[At(Seqs[l], l, d + 1)] = At(Seqs[l], l, d)
    BY DEF Rep, Represents
  <2>. QED
    BY <2>1, <2>2
<1>2. prev' = [prev EXCEPT ![i] = prev[e], ![e] = i] /\ next' = [next EXCEPT ![i] = e, ![prev[e]] = i]
  BY DEF list_add_tail
<1>. HIDE DEF e, p
<1>3. list_add_head(p, i)
  BY <1>1, <1>2 DEF list_add_head
<1>. QED
  BY <1>3, AddHeadStep DEF p

\* ... and leave from wherever they are.
LEMMA DeleteStep ==
    ASSUME Rep, NEW l \in ListHead, NEW k \in 1..Len(Seqs[l]), list_delete(Seqs[l][k])
    PROVE  Seqs' = [Seqs EXCEPT ![l] = RemoveAt(@, k)] /\ Rep'
<1>1. Represents([Seqs EXCEPT ![l] = RemoveAt(@, k)], next', prev')
  BY DeleteRepresents DEF Rep, list_delete
<1>. QED
  BY <1>1, SeqsAfter

\* The place of an entry that is on a list.
LEMMA ItemPlace ==
    ASSUME Rep, NEW i \in Item, list_in_list(i)
    PROVE  \E l \in ListHead : \E k \in 1..Len(Seqs[l]) : i = Seqs[l][k]
<1>1. ~OnNone(Seqs, i)
  BY Placed DEF Rep, list_in_list
<1>. QED
  BY <1>1 DEF OnNone

\* The ends of a list.
LEMMA Ends ==
    ASSUME Rep, NEW l \in ListHead
    PROVE  /\ Len(Seqs[l]) \in Nat /\ Seqs[l] \in Seq(Item)
           /\ next[l] # l => 1 \in 1..Len(Seqs[l]) /\ next[l] = Seqs[l][1]
           /\ prev[l] # l => Len(Seqs[l]) \in 1..Len(Seqs[l]) /\ prev[l] = Seqs[l][Len(Seqs[l])]
<1>1. Len(Seqs[l]) \in Nat /\ Seqs[l] \in Seq(Item)
  BY Places DEF Rep, Represents
<1>2. PICK n \in Nat : n = Len(Seqs[l])
  BY <1>1
<1>3. next[At(Seqs[l], l, 0)] = At(Seqs[l], l, 0 + 1) /\ prev[At(Seqs[l], l, n + 1)] = At(Seqs[l], l, n)
  <2>1. 0 \in 0..n /\ n \in 0..n
    OBVIOUS
  <2>. QED
    BY <1>2, <2>1 DEF Rep, Represents
<1>4. At(Seqs[l], l, 0) = l /\ At(Seqs[l], l, n + 1) = l
  BY <1>2 DEF At
<1>5. next[l] = At(Seqs[l], l, 1) /\ prev[l] = At(Seqs[l], l, n)
  BY <1>3, <1>4
<1>. QED
  BY <1>1, <1>2, <1>5 DEF At

\* The operators of ListOfSequences are those of this module.
LEMMA SameOperators ==
    /\ \A q, k : IsSequences!RemoveAt(q, k) = RemoveAt(q, k)
    /\ \A q, k, i : IsSequences!InsertAt(q, k, i) = InsertAt(q, k, i)
    /\ \A q : IsSequences!ToSet(q) = ToSet(q)
BY DEF IsSequences!RemoveAt, RemoveAt, IsSequences!InsertAt, InsertAt, IsSequences!ToSet, ToSet

\* Every operation of list.h changes the sequences as ListOfSequences does.
LEMMA OperationStep ==
    ASSUME Rep, Operation
    PROVE  Rep' /\ [IsSequences!Next]_Seqs
<1>. SUFFICES Rep' /\ (\E l \in ListHead :
                \/ \E i \in Item, k \in 1..(Len(Seqs[l]) + 1) : IsSequences!Insert(l, k, i)
                \/ \E k \in 1..Len(Seqs[l]) : IsSequences!Delete(l, k))
  BY DEF IsSequences!Next
<1>1. ASSUME NEW l \in ListHead, NEW k \in 1..(Len(Seqs[l]) + 1), NEW i \in Item, OnNone(Seqs, i),
             Seqs' = [Seqs EXCEPT ![l] = InsertAt(@, k, i)]
      PROVE  IsSequences!Insert(l, k, i)
  <2>1. \A m \in ListHead : DOMAIN Seqs[m] = 1..Len(Seqs[m])
    BY Ends, LenProperties
  <2>2. i \notin IsSequences!Listed
    BY <1>1, <2>1, SameOperators DEF IsSequences!Listed, ToSet, OnNone
  <2>. QED
    BY <1>1, <2>2, SameOperators DEF IsSequences!Insert
<1>2. ASSUME NEW l \in ListHead, NEW k \in 1..Len(Seqs[l]), list_delete(Seqs[l][k])
      PROVE  Rep' /\ IsSequences!Delete(l, k)
  BY <1>2, DeleteStep, SameOperators DEF IsSequences!Delete
<1>3. ASSUME NEW e \in Node, NEW i \in Item, list_in_list(e), ~list_in_list(i),
             list_add_head(e, i) \/ list_add_tail(e, i)
      PROVE  Rep' /\ \E l \in ListHead : \E k \in 1..(Len(Seqs[l]) + 1) : IsSequences!Insert(l, k, i)
  <2>1. PICK l \in ListHead : \E k \in 0..Len(Seqs[l]) : e = At(Seqs[l], l, k)
    BY <1>3, Placed DEF Rep, list_in_list
  <2>2. PICK k \in 0..Len(Seqs[l]) : e = At(Seqs[l], l, k)
    BY <2>1
  <2>3. PICK n \in Nat : n = Len(Seqs[l])
    BY Ends
  <2>4. CASE list_add_head(e, i)
    <3>1. PICK j \in 1..(n + 1) : j = k + 1 /\ k = j - 1
      BY <2>3
    <3>2. list_add_head(At(Seqs[l], l, j - 1), i)
      BY <2>2, <2>4, <3>1
    <3>. QED
      BY <1>1, <1>3, <2>3, <3>2, AddHeadStep
  <2>5. CASE list_add_tail(e, i)
    <3>1. PICK j \in 1..(n + 1) : e = At(Seqs[l], l, j)
      <4>1. k # 0 => k \in 1..(n + 1)
        BY <2>3
      <4>2. k = 0 => At(Seqs[l], l, k) = At(Seqs[l], l, n + 1)
        BY <2>3 DEF At
      <4>3. n + 1 \in 1..(n + 1)
        OBVIOUS
      <4>. QED
        BY <2>2, <4>1, <4>2, <4>3
    <3>2. list_add_tail(At(Seqs[l], l, j), i)
      BY <2>5, <3>1
    <3>. QED
      BY <1>1, <1>3, <2>3, <3>2, AddTailStep
  <2>. QED
    BY <1>3, <2>4, <2>5
<1>4. ASSUME NEW i \in Item, list_in_list(i), list_delete(i)
      PROVE  Rep' /\ \E l \in ListHead : \E k \in 1..Len(Seqs[l]) : IsSequences!Delete(l, k)
  BY <1>2, <1>4, ItemPlace
<1>5. ASSUME NEW l \in ListHead, list_remove_head(l) \/ list_remove_tail(l)
      PROVE  Rep' /\ \E k \in 1..Len(Seqs[l]) : IsSequences!Delete(l, k)
  <2>1. CASE list_remove_head(l)
    BY <2>1, <1>2, Ends DEF list_remove_head
  <2>2. CASE list_remove_tail(l)
    BY <2>2, <1>2, Ends DEF list_remove_tail
  <2>. QED
    BY <1>5, <2>1, <2>2
<1>. QED
  BY <1>3, <1>4, <1>5 DEF Operation

-----------------------------------------------------------------------------
(* The loop that may delete or move its entry.                             *)

\* Where a loop is: it has seen the first entries of those the list had, |d| of which
\* it has kept, and the others are still what follows on the list.
LoopAt(d) ==
    /\ loop.entry = At(Seqs[loop.list], loop.list, d + 1)
    /\ Len(Seqs[loop.list]) = d + Len(loop.all) - Len(loop.seen)
    /\ \A k \in 1..(Len(loop.all) - Len(loop.seen)) :
          Seqs[loop.list][d + k] = loop.all[Len(loop.seen) + k]

LoopInv ==
    loop # NoLoop =>
        /\ loop \in [ list : ListHead, entry : Node, temp_entry : Node,
                      seen : Seq(Item), all : Seq(Item) ]
        /\ loop.temp_entry = next[loop.entry]
        /\ Len(loop.seen) <= Len(loop.all)
        /\ \A k \in 1..Len(loop.seen) : loop.seen[k] = loop.all[k]
        /\ \E d \in 0..Len(loop.seen) : LoopAt(d)

\* The places of a list from which the entry at place |k| has left.
LEMMA AtRemoved ==
    ASSUME NEW l, NEW q \in Seq(Item), NEW k \in 1..Len(q)
    PROVE  \A j \in 0..Len(q) :
              At(RemoveAt(q, k), l, j) = IF j < k THEN At(q, l, j) ELSE At(q, l, j + 1)
<1>. SUFFICES ASSUME NEW j \in 0..Len(q)
              PROVE  At(RemoveAt(q, k), l, j) = IF j < k THEN At(q, l, j) ELSE At(q, l, j + 1)
  OBVIOUS
<1>1. PICK r : r = RemoveAt(q, k)
  OBVIOUS
<1>2. PICK n \in Nat : n = Len(q) /\ k \in 1..n /\ j \in 0..n
  BY LenProperties
<1>3. Len(r) = n - 1 /\ (\A x \in 1..(n - 1) : r[x] = IF x < k THEN q[x] ELSE q[x + 1])
  BY <1>1, <1>2, RemoveAtPlace
<1>4. PICK d \in Int : d = j + 1
  OBVIOUS
<1>5. CASE j \in 1..(n - 1)
  <2>1. At(r, l, j) = IF j < k THEN q[j] ELSE q[d]
    BY <1>3, <1>4, <1>5 DEF At
  <2>2. At(q, l, j) = q[j] /\ At(q, l, d) = q[d]
    BY <1>2, <1>4, <1>5 DEF At
  <2>. QED
    BY <2>1, <2>2, <1>1, <1>4
<1>6. CASE j = 0
  BY <1>1, <1>2, <1>3, <1>6 DEF At
<1>7. CASE j = n
  <2>1. At(r, l, j) = l /\ At(q, l, d) = l /\ ~(j < k)
    BY <1>2, <1>3, <1>4, <1>7 DEF At
  <2>. QED
    BY <2>1, <1>1, <1>4
<1>. QED
  BY <1>2, <1>5, <1>6, <1>7

\* A loop begins with the first entry.
LEMMA LoopStartInv ==
    ASSUME Rep, NEW l \in ListHead, LoopStart(l)
    PROVE  LoopInv'
<1>1. next' = next /\ Seqs' = Seqs
  BY DEF LoopStart, links, Seqs
<1>2. loop' = [ list |-> l, entry |-> next[l], temp_entry |-> next[next[l]],
                seen |-> << >>, all |-> Seqs[l] ]
  BY DEF LoopStart, Seqs
<1>3. PICK n \in Nat : n = Len(Seqs[l]) /\ Seqs[l] \in Seq(Item)
  BY Ends
<1>4. next[l] = At(Seqs[l], l, 1) /\ l = At(Seqs[l], l, 0)
  <2>1. l = At(Seqs[l], l, 0) /\ 0 \in 0..n /\ 0 + 1 = 1
    BY <1>3 DEF At
  <2>. QED
    BY <2>1, <1>3 DEF Rep, Represents
<1>5. next[l] \in Node /\ next[next[l]] \in Node
  <2>1. \A k \in Int : next[At(Seqs[l], l, k)] \in Node
    BY Placed DEF Rep
  <2>2. 0 \in Int /\ 1 \in Int
    OBVIOUS
  <2>. QED
    BY <2>1, <2>2, <1>4
<1>6. << >> \in Seq(Item) /\ Len(<< >>) = 0
  OBVIOUS
<1>7. loop' \in [ list : ListHead, entry : Node, temp_entry : Node,
                  seen : Seq(Item), all : Seq(Item) ]
  BY <1>2, <1>3, <1>5, <1>6
<1>8. loop'.list = l /\ loop'.entry = next[l] /\ loop'.temp_entry = next[next[l]]
      /\ loop'.seen = << >> /\ loop'.all = Seqs[l]
  BY <1>2
<1>9. LoopAt(0)'
  <2>1. Len(loop'.all) - Len(loop'.seen) = n
    BY <1>3, <1>6, <1>8
  <2>2. \A k \in 1..n : 0 + k = k
    OBVIOUS
  <2>3. \A k \in 1..n : Seqs[l][0 + k] = Seqs[l][Len(loop'.seen) + k]
    BY <2>2, <1>6, <1>8
  <2>. QED
    BY <2>1, <2>3, <1>1, <1>3, <1>4, <1>6, <1>8 DEF LoopAt
<1>. QED
  <2>1. 0 \in 0..Len(loop'.seen) /\ Len(loop'.seen) <= Len(loop'.all)
    BY <1>3, <1>6, <1>8
  <2>2. \A k \in 1..Len(loop'.seen) : loop'.seen[k] = loop'.all[k]
    BY <1>6, <1>8
  <2>. QED
    BY <2>1, <2>2, <1>1, <1>7, <1>8, <1>9 DEF LoopInv

\* A turn of the loop, that keeps its entry or takes it off the list.
LEMMA LoopTurnInv ==
    ASSUME Rep, LoopInv, loop # NoLoop, loop.entry # loop.list, LoopNext, Rep',
           NEW d \in 0..Len(loop.seen), LoopAt(d),
           \/ Seqs'[loop.list] = Seqs[loop.list]
           \/ Seqs'[loop.list] = RemoveAt(Seqs[loop.list], d + 1)
    PROVE  LoopInv'
<1>. DEFINE l == loop.list
            S == Seqs[l]
            T == Seqs'[l]
            all == loop.all
            seen == loop.seen
<1>1. /\ l \in ListHead /\ seen \in Seq(Item) /\ all \in Seq(Item)
      /\ loop.temp_entry = next[loop.entry] /\ loop.entry \in Node /\ loop.temp_entry \in Node
      /\ loop \in [ list : ListHead, entry : Node, temp_entry : Node, seen : Seq(Item), all : Seq(Item) ]
  BY DEF LoopInv
<1>2. PICK n \in Nat, m \in Nat, N \in Nat :
         n = Len(all) /\ m = Len(seen) /\ N = Len(S) /\ S \in Seq(Item) /\ m <= n
  <2>1. Len(all) \in Nat /\ Len(seen) \in Nat
    BY <1>1, LenProperties
  <2>2. Len(S) \in Nat /\ S \in Seq(Item)
    BY <1>1, Ends
  <2>3. Len(seen) <= Len(all)
    BY DEF LoopInv
  <2>. QED
    BY <2>1, <2>2, <2>3
<1>3. \A k \in 1..m : seen[k] = all[k]
  BY <1>2 DEF LoopInv
<1>4. /\ loop.entry = At(S, l, d + 1) /\ N = d + n - m /\ d \in 0..m
      /\ \A k \in 1..(n - m) : S[d + k] = all[m + k]
  BY <1>2 DEF LoopAt
<1>5. d + 1 \in 1..N /\ m < n /\ loop.entry = S[d + 1]
  <2>1. d + 1 \in 1..N
    BY <1>2, <1>4 DEF At
  <2>2. m < n
    <3>1. N = d + n - m /\ d \in 0..m /\ d + 1 <= N
      BY <2>1, <1>4
    <3>. HIDE DEF S, all, seen
    <3>. QED
      BY <3>1
  <2>3. At(S, l, d + 1) = S[d + 1]
    <3>. HIDE DEF S
    <3>. QED
      BY <2>1, <1>2 DEF At
  <2>. QED
    BY <2>1, <2>2, <2>3, <1>4
<1>6. loop.temp_entry = At(S, l, d + 2)
  <2>1. PICK g \in 0..N : g = d + 1 /\ g + 1 = d + 2
    BY <1>5
  <2>2. next[At(S, l, g)] = At(S, l, g + 1)
    BY <1>1, <1>2 DEF Rep, Represents
  <2>. QED
    BY <2>1, <2>2, <1>1, <1>4
<1>7. loop' = [loop EXCEPT !.seen = Append(seen, loop.entry), !.entry = loop.temp_entry,
                           !.temp_entry = next'[loop.temp_entry]]
  BY DEF LoopNext
<1>8. /\ loop'.list = l /\ loop'.all = all /\ loop'.seen = Append(seen, loop.entry)
      /\ loop'.entry = loop.temp_entry /\ loop'.temp_entry = next'[loop.temp_entry]
  BY <1>1, <1>7
<1>9. S[d + 1] \in Item /\ S[d + 1] = all[m + 1]
  <2>1. S[d + 1] \in Item
    BY <1>2, <1>5, ElementOfSeq
  <2>2. 1 \in 1..(n - m)
    BY <1>2, <1>5
  <2>. QED
    BY <2>1, <2>2, <1>4
<1>10. /\ loop'.seen \in Seq(Item) /\ Len(loop'.seen) = m + 1
       /\ \A k \in 1..(m + 1) : loop'.seen[k] = all[k]
  <2>1. loop.entry \in Item
    BY <1>5, <1>9
  <2>2. /\ Append(seen, loop.entry) \in Seq(Item) /\ Len(Append(seen, loop.entry)) = m + 1
        /\ \A k \in 1..m : Append(seen, loop.entry)[k] = seen[k]
        /\ Append(seen, loop.entry)[m + 1] = loop.entry
    BY <2>1, <1>1, <1>2, AppendProperties
  <2>3. \A k \in 1..(m + 1) : k \in 1..m \/ k = m + 1
    OBVIOUS
  <2>. QED
    BY <2>2, <2>3, <1>3, <1>5, <1>8, <1>9
<1>. HIDE DEF l, S, T, all, seen
<1>11. PICK e \in 0..(m + 1) :
          /\ At(T, l, e + 1) = At(S, l, d + 2)
          /\ Len(T) = e + n - (m + 1)
          /\ \A k \in 1..(n - (m + 1)) : T[e + k] = all[(m + 1) + k]
  <2>1. \A k \in 1..(n - (m + 1)) : S[(d + 1) + k] = all[(m + 1) + k]
    <3>. SUFFICES ASSUME NEW k \in 1..(n - (m + 1)) PROVE S[(d + 1) + k] = all[(m + 1) + k]
      OBVIOUS
    <3>1. PICK g \in 1..(n - m) : g = k + 1 /\ d + g = (d + 1) + k /\ m + g = (m + 1) + k
      BY <1>2, <1>4
    <3>. QED
      BY <3>1, <1>4
  <2>2. CASE T = S
    <3>. PICK D \in 0..m, size \in Nat : D = d /\ size = N /\ size = D + n - m
      BY <1>2, <1>4
    <3>0. D + 1 \in 0..(m + 1) /\ (D + 1) + 1 = D + 2 /\ size = (D + 1) + n - (m + 1)
      BY <1>2
    <3>1. PICK e \in 0..(m + 1) : e = d + 1 /\ e + 1 = d + 2 /\ N = e + n - (m + 1)
      BY <3>0
    <3>. QED
      BY <2>1, <2>2, <3>1, <1>2, ZenonT(40)
  <2>3. CASE T = RemoveAt(S, d + 1)
    <3>1. PICK g \in 1..N : g = d + 1 /\ g + 1 = d + 2
      BY <1>5
    <3>2. /\ Len(T) = N - 1
          /\ \A j \in 1..(N - 1) : T[j] = IF j < g THEN S[j] ELSE S[j + 1]
      BY <2>3, <3>1, <1>2, RemoveAtPlace
    <3>3. At(T, l, g) = At(S, l, g + 1)
      <4>1. g \in 0..N /\ ~(g < g)
        BY <3>1
      <4>. QED
        BY <2>3, <3>1, <4>1, <1>2, AtRemoved
    <3>4. ASSUME NEW k \in 1..(n - (m + 1)) PROVE T[d + k] = all[(m + 1) + k]
      <4>1. PICK j \in 1..(N - 1) : j = d + k /\ ~(j < g) /\ j + 1 = (d + 1) + k
        BY <3>1, <1>2, <1>4
      <4>. QED
        BY <2>1, <3>2, <4>1
    <3>5. d \in 0..(m + 1) /\ N - 1 = d + n - (m + 1)
      BY <1>2, <1>4
    <3>. QED
      BY <3>1, <3>2, <3>3, <3>4, <3>5
  <2>. QED
    BY <2>2, <2>3 DEF S, T, l
<1>12. LoopAt(e)'
  BY <1>2, <1>6, <1>8, <1>10, <1>11 DEF LoopAt, T
<1>13. next'[loop.temp_entry] \in Node
  <2>1. e + 1 \in Int
    OBVIOUS
  <2>2. next'[At(T, l, e + 1)] \in Node
    <3>1. Represents(Seqs', next', prev') /\ l \in ListHead
      BY <1>1 DEF Rep, l
    <3>. QED
      BY <2>1, <3>1, Placed DEF T
  <2>. QED
    BY <2>2, <1>6, <1>11
<1>14. loop' \in [ list : ListHead, entry : Node, temp_entry : Node, seen : Seq(Item), all : Seq(Item) ]
  BY <1>1, <1>7, <1>8, <1>10, <1>13 DEF l, all
<1>15. /\ loop'.temp_entry = next'[loop'.entry] /\ Len(loop'.seen) <= Len(loop'.all)
       /\ \A k \in 1..Len(loop'.seen) : loop'.seen[k] = loop'.all[k]
       /\ e \in 0..Len(loop'.seen)
  BY <1>2, <1>5, <1>8, <1>10
<1>. QED
  BY <1>12, <1>14, <1>15 DEF LoopInv

\* The entry the loop is at is on its list.
LEMMA LoopEntry ==
    ASSUME Rep, LoopInv, loop # NoLoop, loop.entry # loop.list
    PROVE  \E d \in 0..Len(loop.seen) :
              /\ LoopAt(d) /\ loop.list \in ListHead
              /\ d + 1 \in 1..Len(Seqs[loop.list]) /\ loop.entry = Seqs[loop.list][d + 1]
<1>1. PICK d \in 0..Len(loop.seen) : LoopAt(d)
  BY DEF LoopInv
<1>2. loop.list \in ListHead /\ Len(loop.seen) \in Nat
  BY LenProperties DEF LoopInv
<1>3. loop.entry = At(Seqs[loop.list], loop.list, d + 1)
  BY <1>1 DEF LoopAt
<1>. QED
  BY <1>1, <1>2, <1>3 DEF At

\* An item inserted behind the last one.
LEMMA InsertAtEnd ==
    ASSUME NEW S, NEW q \in Seq(S), NEW i \in S
    PROVE  InsertAt(q, Len(q) + 1, i) = Append(q, i)
<1>1. PICK n \in Nat : n = Len(q)
  BY LenProperties
<1>2. PICK a : a = InsertAt(q, n + 1, i)
  OBVIOUS
<1>3. n + 1 \in 1..(Len(q) + 1)
  BY <1>1
<1>4. /\ a \in Seq(S) /\ Len(a) = n + 1
      /\ \A j \in 1..(n + 1) : a[j] = IF j < n + 1 THEN q[j] ELSE IF j = n + 1 THEN i ELSE q[j - 1]
  <2>1. IsInserted(S, q, n + 1, i, a)
    BY <1>2, <1>3, InsertAtPlace
  <2>. QED
    BY <2>1, <1>1 DEF IsInserted
<1>5. /\ Append(q, i) \in Seq(S) /\ Len(Append(q, i)) = n + 1
      /\ \A j \in 1..n : Append(q, i)[j] = q[j]
      /\ Append(q, i)[n + 1] = i
  BY <1>1, AppendProperties
<1>6. \A j \in 1..(n + 1) : a[j] = Append(q, i)[j]
  <2>1. \A j \in 1..(n + 1) : (j \in 1..n /\ j < n + 1) \/ (j = n + 1 /\ ~(j < n + 1))
    OBVIOUS
  <2>. QED
    BY <1>4, <1>5, <2>1
<1>7. a = Append(q, i)
  BY <1>4, <1>5, <1>6, SeqEqual
<1>. QED
  BY <1>1, <1>2, <1>7

\* An entry goes from one list to the end of another.
LEMMA MoveRepresents ==
    ASSUME NEW S, NEW nxt, NEW prv, Represents(S, nxt, prv),
           NEW h \in ListHead, NEW l \in ListHead, l # h,
           NEW k \in 1..Len(S[h]), NEW i, i = S[h][k]
    PROVE  Represents([S EXCEPT ![h] = RemoveAt(@, k), ![l] = Append(@, i)],
                      [nxt EXCEPT ![prv[i]] = nxt[i], ![i] = l, ![prv[l]] = i],
                      [prv EXCEPT ![nxt[i]] = prv[i], ![i] = prv[l], ![l] = i])
<1>. USE ListAssumption
<1>. DEFINE T == [S EXCEPT ![h] = RemoveAt(@, k)]
            b == prv[i]
            c == nxt[i]
            p == prv[l]
            nx == [nxt EXCEPT ![b] = c, ![i] = NoNode]
            pv == [prv EXCEPT ![c] = b, ![i] = NoNode]
<1>1. Represents(T, nx, pv)
  BY DeleteRepresents
<1>2. S \in [ ListHead -> Seq(Item) ] /\ Apart(S)
      /\ nxt \in [ Node -> Node \cup { NoNode } ] /\ prv \in [ Node -> Node \cup { NoNode } ]
  BY DEF Represents
<1>3. PICK q \in Seq(Item), n \in Nat : q = S[l] /\ n = Len(q)
  BY <1>2, LenProperties
<1>4. PICK m \in Nat : m = Len(S[h]) /\ k \in 1..m
  BY <1>2, LenProperties
<1>5. T[l] = q /\ T \in [ ListHead -> Seq(Item) ] /\ Apart(T)
  <2>1. T \in [ ListHead -> Seq(Item) ] /\ Apart(T)
    BY <1>1 DEF Represents
  <2>2. T[l] = q
    BY <1>2, <1>3
  <2>. QED
    BY <2>1, <2>2
<1>6. /\ i = At(S[h], h, k) /\ i \in Item
      /\ b = At(S[h], h, k - 1) /\ c = At(S[h], h, k + 1)
  <2>1. PICK g \in 0..m : g = k - 1 /\ g + 1 = k /\ k \in 0..m
    BY <1>4
  <2>2. i = At(S[h], h, k)
    BY <1>4 DEF At
  <2>3. nxt[At(S[h], h, k)] = At(S[h], h, k + 1)
        /\ prv[At(S[h], h, g + 1)] = At(S[h], h, g)
    BY <2>1, <1>4 DEF Represents
  <2>4. i \in Item
    BY <1>2, <1>4, ElementOfSeq
  <2>. QED
    BY <2>1, <2>2, <2>3, <2>4
<1>7. p = At(q, l, n) /\ l = At(q, l, n + 1) /\ l = At(q, l, 0)
  <2>1. l = At(q, l, n + 1) /\ l = At(q, l, 0) /\ n \in 0..n
    BY <1>3 DEF At
  <2>2. prv[At(q, l, n + 1)] = At(q, l, n)
    BY <2>1, <1>3 DEF Represents
  <2>. QED
    BY <2>1, <2>2
<1>8. l # i /\ l # c /\ p # b /\ p # i /\ l \in Node /\ i \in Node /\ p \in Node /\ b \in Node /\ c \in Node
  <2>1. n \in 0..n /\ k \in 0..m /\ k - 1 \in 0..m /\ n + 1 \in 1..(n + 1) /\ k + 1 \in 1..(m + 1)
    BY <1>4
  <2>2. \A x \in 0..m, y \in 0..n : At(S[h], h, x) # At(q, l, y)
    BY <1>2, <1>3, <1>4, Places
  <2>3. \A x \in 1..(m + 1), y \in 1..(n + 1) : At(S[h], h, x) # At(q, l, y)
    <3>1. \A u, v \in ListHead : \A x \in 1..(Len(S[u]) + 1), y \in 1..(Len(S[v]) + 1) :
              At(S[u], u, x) = At(S[v], v, y) => u = v /\ x = y
      BY <1>2, Places
    <3>2. \A x \in 1..(Len(S[h]) + 1), y \in 1..(Len(S[l]) + 1) :
              At(S[h], h, x) # At(S[l], l, y)
      BY <3>1
    <3>. QED
      BY <3>2, <1>3, <1>4
  <2>4. \A x \in Int : At(S[h], h, x) \in Node /\ At(q, l, x) \in Node
    BY <1>2, <1>3, Places
  <2>5. k - 1 \in Int /\ k + 1 \in Int /\ n \in Int
    BY <1>4
  <2>6. l \in Node /\ i \in Node /\ l # i
    BY <1>6 DEF Node
  <2>7. l # c
    BY <2>1, <2>3, <1>6, <1>7
  <2>8. p # b /\ p # i
    BY <2>1, <2>2, <1>6, <1>7
  <2>. QED
    BY <2>4, <2>5, <2>6, <2>7, <2>8, <1>6, <1>7
<1>9. OnNone(T, i)
  <2>1. i \in Node /\ nx[i] = NoNode /\ pv[i] = NoNode
    BY <1>2, <1>8
  <2>. HIDE DEF T, nx, pv
  <2>. QED
    BY <2>1, <1>1, <1>6, Placed
<1>10. nx[p] = l
  <2>1. nxt[p] = l
    <3>1. n \in 0..n
      OBVIOUS
    <3>2. nxt[At(q, l, n)] = At(q, l, n + 1)
      BY <3>1, <1>3 DEF Represents
    <3>. QED
      BY <3>2, <1>7
  <2>. QED
    BY <2>1, <1>2, <1>8
<1>. DEFINE nx2 == [nxt EXCEPT ![b] = c, ![i] = l, ![p] = i]
            pv2 == [prv EXCEPT ![c] = b, ![i] = p, ![l] = i]
<1>. HIDE DEF b, c, p
<1>11. nx2 = [nx EXCEPT ![i] = nx[p], ![p] = i] /\ pv2 = [pv EXCEPT ![i] = p, ![nx[p]] = i]
  <2>1. nx2 = [nx EXCEPT ![i] = l, ![p] = i]
    BY <1>2, <1>8
  <2>2. pv2 = [pv EXCEPT ![i] = p, ![l] = i]
    BY <1>2, <1>8
  <2>. QED
    BY <2>1, <2>2, <1>10
<1>. HIDE DEF T, nx, pv, nx2, pv2
<1>12. Represents([T EXCEPT ![l] = InsertAt(@, n + 1, i)], nx2, pv2)
  <2>1. PICK g \in 1..(Len(T[l]) + 1) : g = n + 1 /\ g - 1 = n
    <3>1. Len(T[l]) = n /\ n + 1 \in 1..(n + 1) /\ (n + 1) - 1 = n
      BY <1>3, <1>5
    <3>. QED
      BY <3>1
  <2>2. p = At(T[l], l, g - 1)
    BY <2>1, <1>5, <1>7
  <2>3. Represents([T EXCEPT ![l] = InsertAt(@, g, i)],
                   [nx EXCEPT ![i] = nx[p], ![p] = i], [pv EXCEPT ![i] = p, ![nx[p]] = i])
    BY <2>2, <1>1, <1>6, <1>9, InsertRepresents
  <2>. QED
    BY <2>1, <2>3, <1>11
<1>13. InsertAt(q, n + 1, i) = Append(q, i)
  BY <1>3, <1>6, InsertAtEnd
<1>14. [T EXCEPT ![l] = InsertAt(@, n + 1, i)] = [T EXCEPT ![l] = Append(q, i)]
  BY <1>5, <1>13
<1>15. [T EXCEPT ![l] = Append(q, i)] = [S EXCEPT ![h] = RemoveAt(@, k), ![l] = Append(@, i)]
  BY <1>2, <1>3 DEF T
<1>. QED
  BY <1>12, <1>14, <1>15 DEF nx2, pv2, b, c, p

\* Every step keeps the links those of sequences and the loop where it says it is,
\* and is one of the sequences.
LEMMA ListStep ==
    ASSUME Rep, LoopInv, [ListNext]_listvars
    PROVE  Rep' /\ LoopInv' /\ [IsSequences!Next]_Seqs
<1>1. ASSUME UNCHANGED links
      PROVE  Rep' /\ Seqs' = Seqs
  BY <1>1 DEF links, Rep, Seqs
<1>2. CASE loop = NoLoop /\ Operation /\ UNCHANGED loop
  <2>1. Rep' /\ [IsSequences!Next]_Seqs
    BY <1>2, OperationStep
  <2>2. LoopInv'
    BY <1>2 DEF LoopInv
  <2>. QED
    BY <2>1, <2>2
<1>3. ASSUME NEW l \in ListHead, LoopStart(l)
      PROVE  Rep' /\ LoopInv' /\ [IsSequences!Next]_Seqs
  <2>1. UNCHANGED links
    BY <1>3 DEF LoopStart
  <2>. QED
    BY <1>1, <1>3, <2>1, LoopStartInv
<1>4. ASSUME NEW l \in ListHead, LoopMove(l)
      PROVE  Rep' /\ LoopInv' /\ [IsSequences!Next]_Seqs
  <2>1. /\ loop # NoLoop /\ loop.entry # loop.list /\ l # loop.list /\ LoopNext
        /\ prev' = [prev EXCEPT ![next[loop.entry]] = prev[loop.entry], ![loop.entry] = prev[l], ![l] = loop.entry]
        /\ next' = [next EXCEPT ![prev[loop.entry]] = next[loop.entry], ![loop.entry] = l, ![prev[l]] = loop.entry]
    BY <1>4 DEF LoopMove
  <2>2. PICK d \in 0..Len(loop.seen) :
              /\ LoopAt(d) /\ loop.list \in ListHead
              /\ d + 1 \in 1..Len(Seqs[loop.list]) /\ loop.entry = Seqs[loop.list][d + 1]
    BY <2>1, LoopEntry
  <2>3. /\ Rep'
        /\ Seqs' = [Seqs EXCEPT ![loop.list] = RemoveAt(@, d + 1), ![l] = Append(@, loop.entry)]
    <3>1. Represents([Seqs EXCEPT ![loop.list] = RemoveAt(@, d + 1), ![l] = Append(@, loop.entry)], next', prev')
      BY <2>1, <2>2, MoveRepresents DEF Rep
    <3>. QED
      BY <3>1, SeqsAfter
  <2>4. Seqs'[loop.list] = RemoveAt(Seqs[loop.list], d + 1)
    <3>1. Seqs \in [ ListHead -> Seq(Item) ]
      BY DEF Rep, Represents
    <3>. QED
      BY <2>1, <2>2, <2>3, <3>1
  <2>5. LoopInv'
    BY <2>1, <2>2, <2>3, <2>4, LoopTurnInv
  <2>6. IsSequences!Move(loop.list, d + 1, l)
    BY <2>2, <2>3, SameOperators DEF IsSequences!Move
  <2>7. l \in ListHead \ { loop.list }
    BY <2>1
  <2>. QED
    BY <2>2, <2>3, <2>5, <2>6, <2>7 DEF IsSequences!Next
<1>5. CASE LoopTurn
  <2>1. /\ loop # NoLoop /\ loop.entry # loop.list /\ LoopNext
        /\ UNCHANGED links \/ list_delete(loop.entry)
    BY <1>5 DEF LoopTurn
  <2>2. PICK d \in 0..Len(loop.seen) :
              /\ LoopAt(d) /\ loop.list \in ListHead
              /\ d + 1 \in 1..Len(Seqs[loop.list]) /\ loop.entry = Seqs[loop.list][d + 1]
    BY <2>1, LoopEntry
  <2>3. CASE UNCHANGED links
    BY <1>1, <2>1, <2>2, <2>3, LoopTurnInv
  <2>4. CASE list_delete(loop.entry)
    <3>1. Seqs' = [Seqs EXCEPT ![loop.list] = RemoveAt(@, d + 1)] /\ Rep'
      BY <2>2, <2>4, DeleteStep
    <3>2. Seqs'[loop.list] = RemoveAt(Seqs[loop.list], d + 1)
      <4>1. Seqs \in [ ListHead -> Seq(Item) ]
        BY DEF Rep, Represents
      <4>. QED
        BY <2>2, <3>1, <4>1
    <3>3. LoopInv'
      BY <2>1, <2>2, <3>1, <3>2, LoopTurnInv
    <3>4. IsSequences!Delete(loop.list, d + 1)
      BY <3>1, SameOperators DEF IsSequences!Delete
    <3>. QED
      BY <2>2, <3>1, <3>3, <3>4 DEF IsSequences!Next
  <2>. QED
    BY <2>1, <2>3, <2>4
<1>6. CASE LoopEnd
  <2>1. UNCHANGED links /\ loop' = NoLoop
    BY <1>6 DEF LoopEnd
  <2>. QED
    BY <1>1, <2>1 DEF LoopInv
<1>7. CASE UNCHANGED listvars
  <2>1. UNCHANGED links /\ next' = next /\ loop' = loop
    BY <1>7 DEF listvars, links
  <2>2. Rep' /\ Seqs' = Seqs
    BY <1>1, <2>1
  <2>3. LoopInv'
    BY <2>1, <2>2 DEF LoopInv, LoopAt
  <2>. QED
    BY <2>2, <2>3
<1>. QED
  BY <1>2, <1>3, <1>4, <1>5, <1>6, <1>7 DEF ListNext

-----------------------------------------------------------------------------
(* What the operations and the queries of list.h say they do.              *)

\* The first or the last item is taken out.
LEMMA RemoveEnds ==
    ASSUME NEW S, NEW q \in Seq(S), q # << >>
    PROVE  RemoveAt(q, 1) = Tail(q) /\ RemoveAt(q, Len(q)) = Front(q)
<1>1. PICK n \in Nat : n = Len(q) /\ n # 0
  BY LenProperties, EmptySeq
<1>2. 1 \in 1..Len(q) /\ Len(q) \in 1..Len(q)
  BY <1>1
<1>3. RemoveAt(q, 1) = Tail(q)
  <2>1. /\ RemoveAt(q, 1) \in Seq(S) /\ Len(RemoveAt(q, 1)) = n - 1
        /\ \A j \in 1..(n - 1) : RemoveAt(q, 1)[j] = IF j < 1 THEN q[j] ELSE q[j + 1]
    BY <1>1, <1>2, RemoveAtPlace
  <2>2. /\ Tail(q) \in Seq(S) /\ Len(Tail(q)) = n - 1
        /\ \A j \in 1..(n - 1) : Tail(q)[j] = q[j + 1]
    BY <1>1, HeadTailProperties
  <2>3. \A j \in 1..(n - 1) : RemoveAt(q, 1)[j] = Tail(q)[j]
    BY <2>1, <2>2
  <2>. QED
    BY <2>1, <2>2, <2>3, SeqEqual
<1>4. RemoveAt(q, Len(q)) = Front(q)
  <2>1. PICK a : a = RemoveAt(q, Len(q))
    OBVIOUS
  <2>2. /\ a \in Seq(S) /\ Len(a) = n - 1
        /\ \A j \in 1..(n - 1) : a[j] = IF j < n THEN q[j] ELSE q[j + 1]
    BY <2>1, <1>1, <1>2, RemoveAtPlace
  <2>3. PICK b : b = SubSeq(q, 1, n - 1)
    OBVIOUS
  <2>4. b \in Seq(S) /\ Len(b) = n - 1 /\ (\A j \in 1..(n - 1) : b[j] = q[j])
    <3>1. \A j \in 1..n : q[j] \in S
      BY <1>1, ElementOfSeq
    <3>. QED
      BY <2>3, <3>1, <1>1, SubSeqProperties
  <2>5. \A j \in 1..(n - 1) : a[j] = b[j]
    BY <2>2, <2>4
  <2>6. a = b
    BY <2>2, <2>4, <2>5, SeqEqual
  <2>. QED
    BY <2>1, <2>3, <2>6, <1>1 DEF Front
<1>. QED
  BY <1>3, <1>4

\* Where an operation beside the node |e| of a list puts an entry.
LEMMA BeforePlace ==
    ASSUME Rep, NEW l \in ListHead, NEW e \in { l } \cup ToSet(Seqs[l])
    PROVE  /\ Before(l, e, TRUE) + 1 \in 1..(Len(Seqs[l]) + 1)
           /\ e = At(Seqs[l], l, (Before(l, e, TRUE) + 1) - 1)
           /\ Before(l, e, FALSE) + 1 \in 1..(Len(Seqs[l]) + 1)
           /\ e = At(Seqs[l], l, Before(l, e, FALSE) + 1)
<1>. USE ListAssumption
<1>1. PICK q \in Seq(Item), n \in Nat : q = Seqs[l] /\ n = Len(q)
  BY Ends
<1>2. CASE e = l
  <2>1. Before(l, e, TRUE) = 0 /\ Before(l, e, FALSE) = n
    BY <1>1, <1>2 DEF Before
  <2>2. At(q, l, 0) = l /\ At(q, l, n + 1) = l /\ (0 + 1) - 1 = 0
        /\ 0 + 1 \in 1..(n + 1) /\ n + 1 \in 1..(n + 1)
    BY <1>1 DEF At
  <2>. QED
    BY <2>1, <2>2, <1>1, <1>2
<1>3. CASE e # l
  <2>1. DOMAIN q = 1..n
    BY <1>1, LenProperties
  <2>2. PICK j \in 1..n : e = q[j]
    BY <1>1, <1>3, <2>1 DEF ToSet
  <2>3. \A a, b \in 1..n : q[a] = q[b] => a = b
    BY <1>1 DEF Rep, Represents, Apart
  <2>4. (CHOOSE k \in 1..n : q[k] = e) = j
    BY <2>2, <2>3
  <2>5. (CHOOSE k \in 1..Len(Seqs[l]) : Seqs[l][k] = e) = j
    BY <2>4, <1>1
  <2>6. Before(l, e, TRUE) = j - 0 /\ Before(l, e, FALSE) = j - 1
    BY <2>5, <1>3 DEF Before
  <2>7. PICK a \in 1..(n + 1), b \in 1..(n + 1) :
            a = Before(l, e, TRUE) + 1 /\ b = Before(l, e, FALSE) + 1 /\ a - 1 = j /\ b = j
    <3>1. /\ (j - 0) + 1 = j + 1 /\ (j - 1) + 1 = j /\ (j + 1) - 1 = j
          /\ j + 1 \in 1..(n + 1) /\ j \in 1..(n + 1)
      OBVIOUS
    <3>2. Before(l, e, TRUE) + 1 = j + 1 /\ Before(l, e, FALSE) + 1 = j
      BY <2>6, <3>1
    <3>. QED
      BY <3>1, <3>2
  <2>8. At(q, l, j) = q[j]
    BY <1>1 DEF At
  <2>9. e = At(q, l, a - 1) /\ e = At(q, l, b)
    BY <2>2, <2>7, <2>8
  <2>. QED
    BY <2>7, <2>9, <1>1
<1>. QED
  BY <1>2, <1>3

\* The operations act on the sequences where they say.
LEMMA InPlace ==
    ASSUME Rep, NEW l \in ListHead
    PROVE  /\ \A i \in Item, e \in { l } \cup ToSet(Seqs[l]) : ~list_in_list(i) =>
                /\ list_add_head(e, i) =>
                      Seqs' = [Seqs EXCEPT ![l] = InsertAt(@, Before(l, e, TRUE) + 1, i)]
                /\ list_add_tail(e, i) =>
                      Seqs' = [Seqs EXCEPT ![l] = InsertAt(@, Before(l, e, FALSE) + 1, i)]
           /\ list_remove_head(l) => Seqs' = [Seqs EXCEPT ![l] = Tail(@)]
           /\ list_remove_tail(l) => Seqs' = [Seqs EXCEPT ![l] = Front(@)]
<1>1. ASSUME NEW i \in Item, NEW e \in { l } \cup ToSet(Seqs[l]), ~list_in_list(i), list_add_head(e, i)
      PROVE  Seqs' = [Seqs EXCEPT ![l] = InsertAt(@, Before(l, e, TRUE) + 1, i)]
  <2>1. PICK k \in 1..(Len(Seqs[l]) + 1) : k = Before(l, e, TRUE) + 1 /\ e = At(Seqs[l], l, k - 1)
    BY BeforePlace
  <2>2. list_add_head(At(Seqs[l], l, k - 1), i)
    BY <1>1, <2>1
  <2>3. Seqs' = [Seqs EXCEPT ![l] = InsertAt(@, k, i)]
    BY <1>1, <2>2, AddHeadStep
  <2>. QED
    BY <2>1, <2>3
<1>2. ASSUME NEW i \in Item, NEW e \in { l } \cup ToSet(Seqs[l]), ~list_in_list(i), list_add_tail(e, i)
      PROVE  Seqs' = [Seqs EXCEPT ![l] = InsertAt(@, Before(l, e, FALSE) + 1, i)]
  <2>1. PICK k \in 1..(Len(Seqs[l]) + 1) : k = Before(l, e, FALSE) + 1 /\ e = At(Seqs[l], l, k)
    BY BeforePlace
  <2>2. list_add_tail(At(Seqs[l], l, k), i)
    BY <1>2, <2>1
  <2>3. Seqs' = [Seqs EXCEPT ![l] = InsertAt(@, k, i)]
    BY <1>2, <2>2, AddTailStep
  <2>. QED
    BY <2>1, <2>3
<1>3. ASSUME list_remove_head(l) PROVE Seqs' = [Seqs EXCEPT ![l] = Tail(@)]
  <2>1. next[l] # l /\ list_delete(next[l])
    BY <1>3 DEF list_remove_head
  <2>2. 1 \in 1..Len(Seqs[l]) /\ next[l] = Seqs[l][1] /\ Seqs[l] \in Seq(Item)
    BY <2>1, Ends
  <2>3. Seqs' = [Seqs EXCEPT ![l] = RemoveAt(@, 1)]
    BY <2>1, <2>2, DeleteStep
  <2>4. RemoveAt(Seqs[l], 1) = Tail(Seqs[l])
    <3>1. Seqs[l] # << >>
      BY <2>2
    <3>. QED
      BY <2>2, <3>1, RemoveEnds
  <2>. QED
    BY <2>3, <2>4
<1>4. ASSUME list_remove_tail(l) PROVE Seqs' = [Seqs EXCEPT ![l] = Front(@)]
  <2>1. prev[l] # l /\ list_delete(prev[l])
    BY <1>4 DEF list_remove_tail
  <2>2. Len(Seqs[l]) \in 1..Len(Seqs[l]) /\ prev[l] = Seqs[l][Len(Seqs[l])] /\ Seqs[l] \in Seq(Item)
        /\ Len(Seqs[l]) \in Nat
    BY <2>1, Ends
  <2>3. Seqs' = [Seqs EXCEPT ![l] = RemoveAt(@, Len(Seqs[l]))]
    BY <2>1, <2>2, DeleteStep
  <2>4. RemoveAt(Seqs[l], Len(Seqs[l])) = Front(Seqs[l])
    <3>1. Seqs[l] # << >>
      BY <2>2
    <3>. QED
      BY <2>2, <3>1, RemoveEnds
  <2>. QED
    BY <2>3, <2>4
<1>. QED
  BY <1>1, <1>2, <1>3, <1>4

\* The queries answer what the sequences say.
LEMMA Queries ==
    ASSUME Rep
    PROVE  QueriesAgree
<1>. USE ListAssumption
<1>. SUFFICES ASSUME NEW l \in ListHead, NEW s, s = Seqs[l]
              PROVE  /\ list_for_every(prev, l) = Reverse(s)
                     /\ list_is_empty(l) <=> s = << >>
                     /\ list_length(l) = Cardinality(ToSet(s))
                     /\ list_peek_head(l) = IF s = << >> THEN NoNode ELSE s[1]
                     /\ list_peek_tail(l) = IF s = << >> THEN NoNode ELSE s[Len(s)]
                     /\ \A k \in 1..Len(s) :
                          /\ list_next(l, s[k]) = IF k = Len(s) THEN NoNode ELSE s[k + 1]
                          /\ list_prev(l, s[k]) = IF k = 1 THEN NoNode ELSE s[k - 1]
                          /\ list_next_wrap(l, s[k]) = s[(k % Len(s)) + 1]
                          /\ list_prev_wrap(l, s[k]) = s[IF k = 1 THEN Len(s) ELSE k - 1]
  BY DEF QueriesAgree
<1>1. list_for_every(prev, l) = Reverse(s)
  BY ForEveryRepresents DEF Rep
<1>2. PICK n \in Nat : n = Len(s) /\ s \in Seq(Item) /\ (\A k \in 1..n : s[k] \in Item)
  BY Ends, ElementOfSeq
<1>3. (s = << >>) <=> n = 0
  BY <1>2, EmptySeq
<1>4. \A k \in 0..n : next[At(s, l, k)] = At(s, l, k + 1) /\ prev[At(s, l, k + 1)] = At(s, l, k)
  BY <1>2 DEF Rep, Represents
<1>5. /\ At(s, l, 0) = l /\ At(s, l, n + 1) = l
      /\ \A k \in 1..n : At(s, l, k) = s[k] /\ s[k] # l
  BY <1>2 DEF At
<1>6. /\ next[l] = IF n = 0 THEN l ELSE s[1]
      /\ prev[l] = IF n = 0 THEN l ELSE s[n]
  <2>1. next[At(s, l, 0)] = At(s, l, 0 + 1) /\ prev[At(s, l, n + 1)] = At(s, l, n)
    <3>1. 0 \in 0..n /\ n \in 0..n
      OBVIOUS
    <3>. QED
      BY <1>4, <3>1
  <2>2. next[l] = At(s, l, 1) /\ prev[l] = At(s, l, n)
    BY <2>1, <1>5
  <2>. QED
    BY <2>2, <1>2, <1>5 DEF At
<1>7. ASSUME NEW k \in 1..n
      PROVE  /\ next[s[k]] = IF k = n THEN l ELSE s[k + 1]
             /\ prev[s[k]] = IF k = 1 THEN l ELSE s[k - 1]
  <2>1. PICK g \in 0..n : g = k - 1 /\ g + 1 = k /\ k \in 0..n
    OBVIOUS
  <2>2. next[s[k]] = At(s, l, k + 1) /\ prev[s[k]] = At(s, l, g)
    BY <2>1, <1>4, <1>5
  <2>. QED
    BY <2>1, <2>2, <1>2 DEF At
<1>8. list_is_empty(l) <=> s = << >>
  BY <1>2, <1>3, <1>5, <1>6 DEF list_is_empty
<1>9. list_length(l) = Cardinality(ToSet(s))
  <2>1. list_for_every(next, l) = s
    BY DEF Seqs
  <2>2. DOMAIN s = 1..n
    BY <1>2, LenProperties
  <2>3. s \in [ 1..n -> ToSet(s) ]
    BY <1>2, <2>2, LenProperties DEF ToSet
  <2>4. \A a, b \in 1..n : s[a] = s[b] => a = b
    BY <1>2 DEF Rep, Represents, Apart
  <2>5. s \in Bijection(1..n, ToSet(s))
    BY <2>2, <2>3, <2>4 DEF Bijection, Injection, Surjection, IsInjective, ToSet
  <2>6. ExistsBijection(1..n, ToSet(s))
    BY <2>5 DEF ExistsBijection
  <2>7. IsFiniteSet(1..n) /\ Cardinality(1..n) = n
    BY FS_Interval
  <2>8. Cardinality(ToSet(s)) = n
    BY <2>6, <2>7, FS_Bijection
  <2>. QED
    BY <2>1, <2>8, <1>2 DEF list_length
<1>10. /\ list_peek_head(l) = IF s = << >> THEN NoNode ELSE s[1]
       /\ list_peek_tail(l) = IF s = << >> THEN NoNode ELSE s[Len(s)]
  BY <1>2, <1>3, <1>5, <1>6 DEF list_peek_head, list_peek_tail
<1>11. ASSUME NEW k \in 1..Len(s)
       PROVE  /\ list_next(l, s[k]) = IF k = Len(s) THEN NoNode ELSE s[k + 1]
              /\ list_prev(l, s[k]) = IF k = 1 THEN NoNode ELSE s[k - 1]
              /\ list_next_wrap(l, s[k]) = s[(k % Len(s)) + 1]
              /\ list_prev_wrap(l, s[k]) = s[IF k = 1 THEN Len(s) ELSE k - 1]
  <2>1. k \in 1..n /\ n # 0
    BY <1>2
  <2>2. k # n => k + 1 \in 1..n /\ s[k + 1] # l
    BY <2>1, <1>5
  <2>3. k # 1 => k - 1 \in 1..n /\ s[k - 1] # l
    BY <2>1, <1>5
  <2>4. /\ next[s[k]] = IF k = n THEN l ELSE s[k + 1]
        /\ prev[s[k]] = IF k = 1 THEN l ELSE s[k - 1]
    BY <1>7, <2>1
  <2>5. next[l] = s[1] /\ prev[l] = s[n] /\ s[1] # l /\ s[n] # l
    BY <2>1, <1>5, <1>6
  <2>6. (k % n) + 1 = IF k = n THEN 1 ELSE k + 1
    <3>1. k < n => k % n = k
      BY <2>1
    <3>2. k = n => k % n = 0
      BY <2>1
    <3>. QED
      BY <2>1, <3>1, <3>2
  <2>7. PICK w : w = (k % n) + 1
    OBVIOUS
  <2>8. list_next(l, s[k]) = (IF k = n THEN NoNode ELSE s[k + 1])
        /\ list_next_wrap(l, s[k]) = s[w]
    BY <2>2, <2>4, <2>5, <2>6, <2>7 DEF list_next, list_next_wrap
  <2>9. list_prev(l, s[k]) = (IF k = 1 THEN NoNode ELSE s[k - 1])
        /\ list_prev_wrap(l, s[k]) = s[IF k = 1 THEN n ELSE k - 1]
    BY <2>3, <2>4, <2>5 DEF list_prev, list_prev_wrap
  <2>. QED
    BY <2>7, <2>8, <2>9, <1>2
<1>. QED
  BY <1>1, <1>8, <1>9, <1>10, <1>11

\* Links that are those of sequences mirror each other, and never lead from one list
\* to another.
LEMMA RepLinks ==
    ASSUME Rep
    PROVE  LinksTypeOK /\ LinksMirror /\ OneListEach
<1>. USE ListAssumption
<1>. DEFINE on(n, l) == \E k \in 0..Len(Seqs[l]) : n = At(Seqs[l], l, k)
<1>1. LinksTypeOK
  BY DEF Rep, Represents, LinksTypeOK
<1>2. /\ Seqs \in [ ListHead -> Seq(Item) ] /\ Apart(Seqs)
      /\ \A l \in ListHead : \A k \in 0..Len(Seqs[l]) : next[At(Seqs[l], l, k)] = At(Seqs[l], l, k + 1)
      /\ \A l \in ListHead : \A k \in 0..Len(Seqs[l]) : prev[At(Seqs[l], l, k + 1)] = At(Seqs[l], l, k)
  BY DEF Rep, Represents
<1>3. /\ \A l \in ListHead : Len(Seqs[l]) \in Nat
      /\ \A l, m \in ListHead : \A j \in 0..Len(Seqs[l]), k \in 0..Len(Seqs[m]) :
             At(Seqs[l], l, j) = At(Seqs[m], m, k) => l = m /\ j = k
  BY <1>2, Places
<1>4. \A l \in ListHead : \A k \in Int :
          At(Seqs[l], l, k) \in Node /\ next[At(Seqs[l], l, k)] \in Node /\ prev[At(Seqs[l], l, k)] \in Node
  BY Placed DEF Rep
<1>5. \A n \in Node : list_in_list(n) => \E l \in ListHead : on(n, l)
  BY Placed DEF Rep, list_in_list
<1>6. \A l \in ListHead : At(Seqs[l], l, 0) = l /\ At(Seqs[l], l, Len(Seqs[l]) + 1) = l /\ on(l, l)
  <2>1. \A l \in ListHead : At(Seqs[l], l, 0) = l /\ At(Seqs[l], l, Len(Seqs[l]) + 1) = l
    BY <1>3 DEF At
  <2>2. \A l \in ListHead : 0 \in 0..Len(Seqs[l])
    BY <1>3
  <2>. QED
    BY <2>1, <2>2
<1>7. NoNode \notin Node
  BY DEF Node
<1>8. ASSUME NEW l \in ListHead, NEW n, on(n, l)
      PROVE  /\ next[n] \in Node /\ prev[next[n]] = n /\ on(next[n], l)
             /\ prev[n] \in Node /\ next[prev[n]] = n
  <2>1. PICK k \in 0..Len(Seqs[l]) : n = At(Seqs[l], l, k)
    BY <1>8
  <2>2. PICK N \in Nat : N = Len(Seqs[l]) /\ k \in 0..N
    BY <1>3
  <2>3. next[n] = At(Seqs[l], l, k + 1) /\ prev[next[n]] = n
    BY <2>1, <1>2
  <2>4. k \in Int /\ k + 1 \in Int
    BY <2>2
  <2>5. on(next[n], l)
    <3>1. CASE k < N
      <4>1. k + 1 \in 0..N
        BY <3>1, <2>2
      <4>. QED
        BY <4>1, <2>2, <2>3
    <3>2. CASE k = N
      BY <3>2, <2>2, <2>3, <1>6
    <3>. QED
      BY <3>1, <3>2, <2>2
  <2>6. PICK g \in 0..N : n = At(Seqs[l], l, g + 1)
    <3>1. CASE k = 0
      <4>1. N \in 0..N
        OBVIOUS
      <4>. QED
        BY <3>1, <4>1, <2>1, <2>2, <1>6
    <3>2. CASE k # 0
      <4>1. k - 1 \in 0..N /\ (k - 1) + 1 = k
        BY <3>2, <2>2
      <4>. QED
        BY <4>1, <2>1
    <3>. QED
      BY <3>1, <3>2
  <2>7. prev[n] = At(Seqs[l], l, g) /\ next[prev[n]] = n
    BY <2>2, <2>6, <1>2
  <2>. QED
    BY <2>1, <2>3, <2>4, <2>5, <2>7, <1>4
<1>. HIDE DEF on
<1>9. LinksMirror
  <2>1. ASSUME NEW n \in Node, list_in_list(n)
        PROVE  next[n] # NoNode /\ prev[next[n]] = n /\ prev[n] # NoNode /\ next[prev[n]] = n
    BY <2>1, <1>5, <1>7, <1>8
  <2>2. ASSUME NEW n \in Node, ~list_in_list(n)
        PROVE  n \in Item
    <3>1. ASSUME n \in ListHead PROVE FALSE
      BY <2>2, <3>1, <1>6, <1>7, <1>8 DEF list_in_list
    <3>. QED
      BY <3>1 DEF Node
  <2>. QED
    BY <2>1, <2>2 DEF LinksMirror
<1>10. OneListEach
  <2>1. PICK h \in ListHead : TRUE
    OBVIOUS
  <2>2. \A l, m \in ListHead : \A n : on(n, l) /\ on(n, m) => l = m
    BY <1>3 DEF on
  <2>. DEFINE own == [ n \in Node |-> IF \E l \in ListHead : on(n, l)
                                      THEN CHOOSE l \in ListHead : on(n, l) ELSE h ]
  <2>3. own \in [ Node -> ListHead ]
    BY <2>1
  <2>4. \A n \in Node, l \in ListHead : on(n, l) => own[n] = l
    BY <2>2
  <2>5. \A l \in ListHead : own[l] = l
    BY <2>4, <1>6 DEF Node
  <2>6. \A n \in Node : next[n] # NoNode => own[next[n]] = own[n]
    <3>. SUFFICES ASSUME NEW n \in Node, next[n] # NoNode PROVE own[next[n]] = own[n]
      OBVIOUS
    <3>1. PICK l \in ListHead : on(n, l)
      BY <1>5 DEF list_in_list
    <3>. HIDE DEF own
    <3>. QED
      BY <3>1, <2>4, <1>8
  <2>. HIDE DEF own
  <2>. QED
    BY <2>3, <2>5, <2>6, Zenon DEF OneListEach
<1>. QED
  BY <1>1, <1>9, <1>10

\* What LoopVisitsAll says of the place of the loop.
LEMMA LoopInvVisits ==
    ASSUME LoopInv
    PROVE  LoopVisitsAll
<1>. SUFFICES ASSUME loop # NoLoop
              PROVE  /\ IsPrefix(loop.seen, loop.all)
                     /\ loop.entry = Append(loop.all, loop.list)[Len(loop.seen) + 1]
  BY DEF LoopVisitsAll
<1>. DEFINE l == loop.list
            all == loop.all
            seen == loop.seen
<1>1. all \in Seq(Item) /\ seen \in Seq(Item)
  BY DEF LoopInv
<1>2. PICK n \in Nat, m \in Nat : n = Len(all) /\ m = Len(seen) /\ m <= n
  <2>1. Len(all) \in Nat /\ Len(seen) \in Nat
    BY <1>1, LenProperties
  <2>2. Len(seen) <= Len(all)
    BY DEF LoopInv
  <2>. QED
    BY <2>1, <2>2
<1>3. \A k \in 1..m : seen[k] = all[k]
  BY <1>2 DEF LoopInv
<1>4. PICK d \in 0..m : LoopAt(d)
  BY <1>2 DEF LoopInv
<1>5. PICK q : q = Seqs[l]
  OBVIOUS
<1>6. /\ loop.entry = At(q, l, d + 1) /\ Len(q) = d + n - m
      /\ \A k \in 1..(n - m) : q[d + k] = all[m + k]
  BY <1>2, <1>4, <1>5 DEF LoopAt
<1>. HIDE DEF l, all, seen
<1>7. IsPrefix(seen, all)
  <2>1. \A k \in 1..m : all[k] \in Item /\ seen[k] \in Item
    BY <1>1, <1>2, ElementOfSeq
  <2>2. /\ SubSeq(seen, 1, m) \in Seq(Item) /\ Len(SubSeq(seen, 1, m)) = m
        /\ \A k \in 1..m : SubSeq(seen, 1, m)[k] = seen[k]
    BY <2>1, <1>1, <1>2, SubSeqProperties
  <2>3. /\ SubSeq(all, 1, m) \in Seq(Item) /\ Len(SubSeq(all, 1, m)) = m
        /\ \A k \in 1..m : SubSeq(all, 1, m)[k] = all[k]
    BY <2>1, <1>1, <1>2, SubSeqProperties
  <2>4. \A k \in 1..m : SubSeq(seen, 1, m)[k] = SubSeq(all, 1, m)[k]
    BY <2>2, <2>3, <1>3
  <2>5. SubSeq(seen, 1, m) = SubSeq(all, 1, m)
    BY <2>2, <2>3, <2>4, SeqEqual
  <2>. QED
    BY <2>5, <1>2 DEF IsPrefix
<1>8. loop.entry = Append(all, l)[m + 1]
  <2>1. CASE m = n
    <3>1. Append(all, l)[n + 1] = l
      BY <1>1, <1>2, AppendProperties
    <3>2. d + 1 \notin 1..Len(q)
      BY <2>1, <1>6
    <3>. QED
      BY <2>1, <3>1, <3>2, <1>6 DEF At
  <2>2. CASE m < n
    <3>1. m + 1 \in 1..n /\ 1 \in 1..(n - m) /\ d + 1 \in 1..(d + n - m)
      BY <2>2
    <3>2. Append(all, l)[m + 1] = all[m + 1]
      BY <3>1, <1>1, <1>2, AppendProperties
    <3>3. q[d + 1] = all[m + 1]
      BY <3>1, <1>6
    <3>. QED
      BY <3>1, <3>2, <3>3, <1>6 DEF At
  <2>. QED
    BY <2>1, <2>2, <1>2
<1>. QED
  BY <1>2, <1>7, <1>8 DEF l, all, seen

\* The lists start empty.
LEMMA ListInitRep ==
    ASSUME ListInit
    PROVE  Rep /\ LoopInv /\ IsSequences!Init
<1>. USE ListAssumption
<1>. DEFINE S == [ l \in ListHead |-> << >> ]
<1>1. S \in [ ListHead -> Seq(Item) ] /\ (\A l \in ListHead : S[l] = << >> /\ Len(S[l]) = 0)
  OBVIOUS
<1>2. next = [ n \in Node |-> IF n \in ListHead THEN n ELSE NoNode ]
      /\ prev = [ n \in Node |-> IF n \in ListHead THEN n ELSE NoNode ]
  BY DEF ListInit, LinkInit
<1>3. \A l \in ListHead : \A k \in Int : At(S[l], l, k) = l
  BY <1>1 DEF At
<1>. HIDE DEF S
<1>4. Apart(S)
  BY <1>1 DEF Apart
<1>5. \A l \in ListHead : \A k \in 0..Len(S[l]) :
         /\ At(S[l], l, k) = l /\ At(S[l], l, k + 1) = l
  BY <1>1, <1>3
<1>6. \A l \in ListHead : next[l] = l /\ prev[l] = l
  BY <1>2 DEF Node
<1>7. Represents(S, next, prev)
  <2>1. \A i \in Item : next[i] = NoNode /\ prev[i] = NoNode
    BY <1>2 DEF Node
  <2>2. next \in [ Node -> Node \cup { NoNode } ] /\ prev \in [ Node -> Node \cup { NoNode } ]
    BY <1>2 DEF Node
  <2>. QED
    BY <2>1, <2>2, <1>1, <1>4, <1>5, <1>6 DEF Represents
<1>8. Seqs = S
  BY <1>7, ForEveryRepresents DEF Seqs
<1>9. LoopInv
  BY DEF ListInit, LoopInv
<1>. QED
  BY <1>7, <1>8, <1>9 DEF Rep, S, IsSequences!Init

-----------------------------------------------------------------------------
(* The theorems.                                                           *)

\* Whatever is done with the operations of list.h on entries in the state that they
\* ask for, and with loops that delete or move their entries, the links keep mirroring
\* each other and no two lists ever mix.
THEOREM ListLinks == ListSpec => [](LinksTypeOK /\ LinksMirror /\ OneListEach)
<1>1. ListInit => Rep /\ LoopInv
  BY ListInitRep
<1>2. Rep /\ LoopInv /\ [ListNext]_listvars => Rep' /\ LoopInv'
  BY ListStep
<1>3. Rep => LinksTypeOK /\ LinksMirror /\ OneListEach
  BY RepLinks
<1>. QED
  BY <1>1, <1>2, <1>3, PTL DEF ListSpec

\* A loop over a list whose body deletes its entry, or moves it to another list, sees
\* every entry the list had when it began, once and in order, for any number of entries.
THEOREM LoopsVisitAll == ListSpec => []LoopVisitsAll
<1>1. ListInit => Rep /\ LoopInv
  BY ListInitRep
<1>2. Rep /\ LoopInv /\ [ListNext]_listvars => Rep' /\ LoopInv'
  BY ListStep
<1>3. LoopInv => LoopVisitsAll
  BY LoopInvVisits
<1>. QED
  BY <1>1, <1>2, <1>3, PTL DEF ListSpec

\* The lists of list.h implement sequences that share no element: each step is one of
\* ListOfSequences, at the place the operation says, and the queries tell the truth.
THEOREM ListsImplementSequences == ListSpec => ListsAreSequences
<1>1. ListInit => Rep /\ LoopInv /\ IsSequences!Init
  BY ListInitRep
<1>2. Rep /\ LoopInv /\ [ListNext]_listvars => Rep' /\ LoopInv' /\ [IsSequences!Next]_Seqs
  BY ListStep
<1>3. Rep => QueriesAgree
  BY Queries
<1>. DEFINE InPlaceStep ==
        links' # links => \A l \in ListHead :
          /\ \A i \in Item, e \in { l } \cup ToSet(Seqs[l]) : ~list_in_list(i) =>
                /\ list_add_head(e, i) =>
                      Seqs' = [Seqs EXCEPT ![l] = InsertAt(@, Before(l, e, TRUE) + 1, i)]
                /\ list_add_tail(e, i) =>
                      Seqs' = [Seqs EXCEPT ![l] = InsertAt(@, Before(l, e, FALSE) + 1, i)]
          /\ list_remove_head(l) => Seqs' = [Seqs EXCEPT ![l] = Tail(@)]
          /\ list_remove_tail(l) => Seqs' = [Seqs EXCEPT ![l] = Front(@)]
<1>4. Rep /\ [ListNext]_listvars => [InPlaceStep]_listvars
  BY InPlace
<1>5. [][InPlaceStep]_listvars => OperationsInPlace
  BY DEF OperationsInPlace
<1>. HIDE DEF InPlaceStep
<1>. QED
  BY <1>1, <1>2, <1>3, <1>4, <1>5, PTL DEF ListSpec, ListsAreSequences, IsSequences!Spec

-----------------------------------------------------------------------------
(* Powers of two.                                                          *)

\* A set of |n| members has 2^n subsets, and one more member twice as many.
LEMMA PowerDoubles ==
    ASSUME NEW n \in Nat
    PROVE  2^n \in Nat /\ 2^(n + 1) = 2 * 2^n
<1>. DEFINE S == 1..n
            T == 1..(n + 1)
            A == SUBSET S
            B == { s \cup { n + 1 } : s \in A }
            f == [ s \in A |-> s \cup { n + 1 } ]
<1>1. IsFiniteSet(S) /\ Cardinality(S) = n
  <2>1. \A m \in Nat : IsFiniteSet(1..m) /\ Cardinality(1..m) = m
    BY FS_Interval
  <2>. QED
    BY <2>1
<1>2. IsFiniteSet(T) /\ Cardinality(T) = n + 1
  <2>1. PICK m \in Nat : m = n + 1
    OBVIOUS
  <2>2. \A k \in Nat : IsFiniteSet(1..k) /\ Cardinality(1..k) = k
    BY FS_Interval
  <2>. QED
    BY <2>1, <2>2
<1>3. IsFiniteSet(A) /\ Cardinality(A) = 2^n /\ Cardinality(A) \in Nat
  <2>1. IsFiniteSet(A) /\ Cardinality(A) = 2^Cardinality(S)
    BY <1>1, FS_SUBSET
  <2>. QED
    BY <2>1, <1>1, FS_CardinalityType
<1>4. Cardinality(SUBSET T) = 2^(n + 1)
  <2>1. Cardinality(SUBSET T) = 2^Cardinality(T)
    BY <1>2, FS_SUBSET
  <2>. QED
    BY <2>1, <1>2
<1>5. IsFiniteSet(B) /\ Cardinality(B) = Cardinality(A)
  <2>1. f \in [ A -> B ]
    OBVIOUS
  <2>2. \A s, t \in A : f[s] = f[t] => s = t
    <3>1. \A s \in A : n + 1 \notin s
      OBVIOUS
    <3>. QED
      BY <3>1
  <2>3. \A t \in B : \E s \in A : f[s] = t
    OBVIOUS
  <2>4. f \in Bijection(A, B)
    BY <2>1, <2>2, <2>3 DEF Bijection, Injection, Surjection, IsInjective
  <2>. QED
    BY <2>4, <1>3, FS_Bijection DEF ExistsBijection
<1>6. SUBSET T = A \cup B
  <2>1. ASSUME NEW t \in SUBSET T
        PROVE  t \in A \cup B
    <3>1. CASE n + 1 \in t
      <4>1. t \ { n + 1 } \in A
        OBVIOUS
      <4>2. t = (t \ { n + 1 }) \cup { n + 1 }
        BY <3>1
      <4>. QED
        BY <4>1, <4>2
    <3>2. CASE n + 1 \notin t
      BY <3>2
    <3>. QED
      BY <3>1, <3>2
  <2>2. ASSUME NEW t \in A \cup B
        PROVE  t \subseteq T
    <3>1. \A s \in A : s \subseteq T
      OBVIOUS
    <3>2. n + 1 \in T
      OBVIOUS
    <3>. HIDE DEF A, T
    <3>. QED
      BY <3>1, <3>2
  <2>. QED
    BY <2>1, <2>2
<1>7. A \cap B = {}
  OBVIOUS
<1>8. Cardinality(A \cup B) = Cardinality(A) + Cardinality(B) - Cardinality(A \cap B)
  BY <1>3, <1>5, FS_Union
<1>9. Cardinality(A \cap B) = 0
  BY <1>7, FS_EmptySet
<1>. HIDE DEF A, B, T, S
<1>10. PICK c \in Nat : c = Cardinality(A)
  BY <1>3
<1>11. 2^n = c
  BY <1>3, <1>10
<1>12. 2^(n + 1) = c + c
  <2>1. Cardinality(A \cup B) = c + c
    BY <1>5, <1>8, <1>9, <1>10
  <2>2. Cardinality(SUBSET T) = Cardinality(A \cup B)
    BY <1>6
  <2>. QED
    BY <1>4, <2>1, <2>2, Zenon
<1>. QED
  BY <1>11, <1>12

\* The powers of two grow, and faster than their exponents.
LEMMA Powers ==
    /\ 2^0 = 1
    /\ \A n \in Nat : 2^n \in Nat /\ n < 2^n /\ 0 < 2^n
    /\ \A m, n \in Nat : m < n => 2 * 2^m <= 2^n
<1>1. 2^0 = 1
  <2>1. IsFiniteSet({}) /\ Cardinality({}) = 0
    BY FS_EmptySet
  <2>2. Cardinality(SUBSET {}) = 2^Cardinality({})
    BY <2>1, FS_SUBSET
  <2>3. SUBSET {} = { {} }
    OBVIOUS
  <2>4. Cardinality({ {} }) = 1
    BY FS_Singleton
  <2>. QED
    BY <2>1, <2>2, <2>3, <2>4
<1>2. \A n \in Nat : 2^n \in Nat /\ n < 2^n
  <2>. DEFINE P == { n \in Nat : n < 2^n }
  <2>1. 0 \in P
    BY <1>1
  <2>2. ASSUME NEW n \in Nat, n \in P
        PROVE  n + 1 \in P
    <3>1. 2^n \in Nat /\ 2^(n + 1) = 2 * 2^n
      BY PowerDoubles
    <3>2. n < 2^n
      BY <2>2
    <3>3. n + 1 < 2^(n + 1)
      BY <3>1, <3>2
    <3>. QED
      BY <3>3
  <2>3. \A n \in Nat : n \in P
    <3>. HIDE DEF P
    <3>. QED
      BY <2>1, <2>2, InductionOnSet
  <2>. QED
    BY <2>3, PowerDoubles
<1>3. ASSUME NEW m \in Nat
      PROVE  \A n \in Nat : m < n => 2 * 2^m <= 2^n
  <2>. DEFINE P == { n \in Nat : m < n => 2 * 2^m <= 2^n }
  <2>1. 0 \in P
    OBVIOUS
  <2>2. ASSUME NEW n \in Nat, n \in P
        PROVE  n + 1 \in P
    <3>1. 2^n \in Nat /\ 2^(n + 1) = 2 * 2^n /\ 2^m \in Nat
      BY PowerDoubles
    <3>2. m < n => 2 * 2^m <= 2^n
      BY <2>2
    <3>3. m < n + 1 => 2 * 2^m <= 2^(n + 1)
      <4>1. CASE m = n
        BY <4>1, <3>1
      <4>2. CASE m < n
        BY <4>2, <3>1, <3>2
      <4>. QED
        BY <4>1, <4>2
    <3>. QED
      BY <3>3
  <2>3. \A n \in Nat : n \in P
    <3>. HIDE DEF P
    <3>. QED
      BY <2>1, <2>2, InductionOnSet
  <2>. QED
    BY <2>3
<1>. QED
  BY <1>1, <1>2, <1>3

\* A set of naturals that is not empty has a least member.
LEMMA LeastOfSet ==
    ASSUME NEW S \in SUBSET Nat, S # {}
    PROVE  \E x \in S : \A y \in S : x <= y
<1>1. PICK x \in S : \A y \in S : ~(<< y, x >> \in OpToRel(<, Nat))
  BY NatLessThanWellFounded, WFMin
<1>2. ASSUME NEW y \in S, y < x
      PROVE  FALSE
  <2>1. << y, x >> \in OpToRel(<, Nat)
    BY <1>2 DEF OpToRel
  <2>. QED
    BY <2>1, <1>1
<1>. QED
  BY <1>2

\* A power of two divides the larger ones.
LEMMA PowerDivides ==
    ASSUME NEW m \in Nat, NEW n \in Nat, m <= n
    PROVE  \E k \in Nat \ {0} : 2^n = k * 2^m
<1>. DEFINE P == { d \in Nat : \E k \in Nat \ {0} : 2^(m + d) = k * 2^m }
<1>1. 0 \in P
  <2>1. m + 0 = m /\ 2^m \in Nat
    BY Powers
  <2>2. 2^(m + 0) = 1 * 2^m
    BY <2>1
  <2>. QED
    BY <2>2
<1>2. ASSUME NEW d \in Nat, d \in P
      PROVE  d + 1 \in P
  <2>1. PICK k \in Nat \ {0} : 2^(m + d) = k * 2^m
    BY <1>2
  <2>2. PICK e \in Nat : e = m + d /\ e + 1 = m + (d + 1)
    OBVIOUS
  <2>3. 2^(e + 1) = 2 * 2^e
    BY PowerDoubles
  <2>4. PICK p \in Nat : p = 2^m
    BY Powers
  <2>5. 2^e = k * p
    BY <2>1, <2>2, <2>4
  <2>6. 2^(e + 1) = (2 * k) * p
    BY <2>3, <2>5
  <2>7. 2 * k \in Nat \ {0}
    OBVIOUS
  <2>8. 2^(m + (d + 1)) = (2 * k) * 2^m
    BY <2>2, <2>4, <2>6
  <2>9. \E i \in Nat \ {0} : 2^(m + (d + 1)) = i * 2^m
    BY <2>7, <2>8, Zenon
  <2>10. d + 1 \in Nat
    OBVIOUS
  <2>. QED
    BY <2>9, <2>10, Zenon
<1>3. \A d \in Nat : d \in P
  <2>. HIDE DEF P
  <2>. QED
    BY <1>1, <1>2, InductionOnSet
<1>4. PICK d \in Nat : d = n - m /\ m + d = n
  OBVIOUS
<1>. QED
  BY <1>3, <1>4

\* A whole number of divisors shifts a quotient.
LEMMA DivShift ==
    ASSUME NEW u \in Int, NEW p \in Nat \ {0}, NEW t \in Int
    PROVE  (u + t * p) \div p = (u \div p) + t
<1>1. PICK q \in Int : q = u \div p
  OBVIOUS
<1>2. PICK r \in 0..(p - 1) : u = q * p + r
  <2>1. u = p * (u \div p) + (u % p) /\ u % p \in 0..(p - 1)
    OBVIOUS
  <2>. QED
    BY <1>1, <2>1
<1>3. PICK s \in Int : s = q + t /\ s * p = q * p + t * p
  OBVIOUS
<1>4. u + t * p = s * p + r
  BY <1>2, <1>3
<1>5. (s * p + r) \div p = s
  OBVIOUS
<1>. QED
  BY <1>1, <1>3, <1>4, <1>5

\* What is assumed of the constants, and of a page.
LEMMA Constants ==
    /\ MinIndex \in Nat /\ MAX_INDEX \in Nat /\ Header \in Nat /\ Range16 \in Nat \ {0}
    /\ Base \in Nat \ {0} /\ Limit \in Nat /\ Limit < Range16 /\ Base <= Limit
    /\ MinIndex <= MAX_INDEX
    /\ PAGE_SIZE \in Nat \ {0} /\ PAGE_SIZE = 2^MAX_INDEX /\ MAX_INDEX < Range16
    /\ \E c \in Nat \ {0} : Range16 = c * PAGE_SIZE
    /\ Index \subseteq Nat
    /\ \A i \in Index : MinIndex <= i /\ i <= MAX_INDEX
<1>1. /\ MinIndex \in Nat /\ MAX_INDEX \in Nat /\ Header \in Nat /\ Range16 \in Nat
      /\ Base \in Nat /\ Limit \in Nat
      /\ MinIndex <= MAX_INDEX /\ 0 < Base /\ Base <= Limit /\ Limit < Range16
      /\ Range16 % 2^MAX_INDEX = 0
  BY MallocAssumption
<1>2. PICK p \in Nat \ {0} : p = 2^MAX_INDEX /\ p = PAGE_SIZE /\ MAX_INDEX < p
  BY <1>1, Powers DEF PAGE_SIZE
<1>3. PICK c \in Int : Range16 = c * p
  <2>1. Range16 = p * (Range16 \div p) + (Range16 % p) /\ Range16 \div p \in Int
    BY <1>1
  <2>2. Range16 % p = 0
    BY <1>1, <1>2
  <2>3. PICK d \in Int : d = Range16 \div p
    BY <2>1
  <2>4. Range16 = p * d
    BY <2>1, <2>2, <2>3, <1>1
  <2>5. Range16 = d * p
    BY <2>4
  <2>. QED
    BY <2>5
<1>4. c \in Nat \ {0} /\ p <= Range16
  BY <1>1, <1>3
<1>. QED
  BY <1>1, <1>2, <1>3, <1>4 DEF Index

\* getindex() finds the least index whose blocks are large enough.
LEMMA IndexIsLeast ==
    ASSUME NEW size \in Nat, size <= Range16
    PROVE  /\ getindex(size) \in Nat /\ MinIndex <= getindex(size)
           /\ size <= 2^getindex(size)
           /\ \A j \in MinIndex..(getindex(size) - 1) : 2^j < size
<1>. USE Constants
<1>. DEFINE S == { i \in Nat : MinIndex <= i /\ size <= 2^i }
<1>1. Range16 \in S
  <2>1. Range16 < 2^Range16 /\ 2^Range16 \in Nat
    BY Powers
  <2>2. size <= 2^Range16
    BY <2>1
  <2>. QED
    BY <2>2
<1>2. PICK x \in S : \A y \in S : x <= y
  <2>1. S \in SUBSET Nat
    OBVIOUS
  <2>. QED
    BY <1>1, <2>1, LeastOfSet
<1>3. x \in MinIndex..Range16 /\ size <= 2^x
  BY <1>1, <1>2
<1>4. ASSUME NEW j \in MinIndex..(x - 1)
      PROVE  2^j < size
  <2>1. j \in Nat /\ ~(x <= j)
    BY <1>3
  <2>2. j \notin S
    BY <2>1, <1>2
  <2>3. 2^j \in Nat
    BY <2>1, Powers
  <2>. QED
    BY <2>1, <2>2, <2>3
<1>. DEFINE Q(i) == size <= 2^i /\ \A j \in MinIndex..(i - 1) : 2^j < size
<1>5. Q(x)
  BY <1>3, <1>4
<1>. HIDE DEF Q
<1>6. \E i \in MinIndex..Range16 : Q(i)
  BY <1>3, <1>5
<1>7. PICK g : g = CHOOSE i \in MinIndex..Range16 : Q(i)
  OBVIOUS
<1>8. g \in MinIndex..Range16 /\ Q(g)
  BY <1>6, <1>7
<1>9. getindex(size) = g
  BY <1>7 DEF getindex, Q
<1>10. g \in Nat /\ MinIndex <= g
  BY <1>8
<1>. QED
  BY <1>8, <1>9, <1>10 DEF Q

-----------------------------------------------------------------------------
(* Buddies.                                                                *)

\* Where the variable heap can be: a number of pages from the first break.
OnPages(h) == \E k \in Int : h = Base + k * PAGE_SIZE

\* The buddy of a block, of less than a page, as if the heap were at its first place.
Buddy(i, x) == getbuddy(i, x, Base)

\* Blocks of index |i| make pairs, and pairs make the range of a pointer.
LEMMA PairsFill ==
    ASSUME NEW i \in Index, i < MAX_INDEX
    PROVE  \E p \in Nat \ {0}, e \in Nat \ {0}, d \in Nat \ {0} :
              p = 2^i /\ PAGE_SIZE = d * (2 * p) /\ Range16 = e * (2 * p)
<1>. USE Constants
<1>1. i \in Nat /\ i + 1 \in Nat /\ i + 1 <= MAX_INDEX
  OBVIOUS
<1>2. PICK p \in Nat \ {0} : p = 2^i
  BY <1>1, Powers
<1>3. 2^(i + 1) = 2 * p
  BY <1>1, <1>2, PowerDoubles
<1>4. PICK j \in Nat : j = i + 1 /\ j <= MAX_INDEX /\ 2^j = 2 * p
  BY <1>1, <1>3
<1>5. PICK d \in Nat \ {0} : 2^MAX_INDEX = d * 2^j
  BY <1>4, PowerDivides
<1>6. PAGE_SIZE = d * (2 * p)
  BY <1>4, <1>5
<1>7. PICK c \in Nat \ {0} : Range16 = c * PAGE_SIZE
  OBVIOUS
<1>8. PICK q \in Nat \ {0} : q = 2 * p
  OBVIOUS
<1>9. Range16 = c * (d * q)
  BY <1>6, <1>7, <1>8
<1>10. c * (d * q) = (c * d) * q
  OBVIOUS
<1>11. c * d \in Nat \ {0}
  OBVIOUS
<1>12. Range16 = (c * d) * (2 * p)
  BY <1>8, <1>9, <1>10
<1>. QED
  BY <1>2, <1>6, <1>11, <1>12

\* Which half of its pair a block is does not depend on the page that heap is at.
LEMMA BuddySame ==
    ASSUME NEW i \in Index, i < MAX_INDEX, NEW x \in Int, NEW h, OnPages(h)
    PROVE  getbuddy(i, x, h) = Buddy(i, x)
<1>. USE Constants
<1>1. PICK p \in Nat \ {0}, e \in Nat \ {0}, d \in Nat \ {0} :
          p = 2^i /\ PAGE_SIZE = d * (2 * p) /\ Range16 = e * (2 * p)
  BY PairsFill
<1>2. PICK k \in Int : h = Base + k * PAGE_SIZE
  BY DEF OnPages
<1>3. PICK t \in Int : t = - (2 * (k * d))
  OBVIOUS
<1>4. k * PAGE_SIZE = - (t * p)
  <2>1. k * PAGE_SIZE = k * (d * (2 * p))
    BY <1>1
  <2>2. k * (d * (2 * p)) = 2 * (k * d) * p
    OBVIOUS
  <2>3. t * p = - (2 * (k * d) * p)
    BY <1>3
  <2>. QED
    BY <2>1, <2>2, <2>3
<1>5. x - h = (x - Base) + t * p
  BY <1>2, <1>4
<1>6. ((x - Base) + t * p) \div p = ((x - Base) \div p) + t
  BY DivShift
<1>7. PICK q \in Int : q = (x - Base) \div p
  OBVIOUS
<1>8. (x - h) \div p = q + t
  BY <1>5, <1>6, <1>7
<1>9. (q + t) % 2 = q % 2
  BY <1>3
<1>10. ((x - h) \div p) % 2 = ((x - Base) \div p) % 2
  BY <1>7, <1>8, <1>9
<1>. QED
  BY <1>1, <1>10 DEF Buddy, getbuddy

\* The buddy of the buddy of a block is the block itself, and another one.
LEMMA BuddyFlips ==
    ASSUME NEW i \in Index, i < MAX_INDEX, NEW x \in Address
    PROVE  /\ Buddy(i, x) \in Address /\ Buddy(i, x) # x
           /\ Buddy(i, Buddy(i, x)) = x
<1>. USE Constants
<1>1. PICK p \in Nat \ {0}, e \in Nat \ {0}, d \in Nat \ {0} :
          p = 2^i /\ PAGE_SIZE = d * (2 * p) /\ Range16 = e * (2 * p)
  BY PairsFill
<1>. DEFINE b(y) == IF ((y - Base) \div p) % 2 = 0 THEN (y + p) % Range16 ELSE (y - p) % Range16
<1>2. \A y : Buddy(i, y) = b(y)
  BY <1>1 DEF Buddy, getbuddy
<1>3. PICK R \in Nat \ {0} : R = Range16 /\ 2 * p <= R
  BY <1>1
<1>4. x \in 0..(R - 1)
  BY <1>3 DEF Address
<1>5. PICK q \in Int : q = (x - Base) \div p
  BY <1>4
<1>6. PICK y \in 0..(R - 1) : y = b(x)
  <2>1. (x + p) % R \in 0..(R - 1) /\ (x - p) % R \in 0..(R - 1)
    BY <1>4
  <2>. QED
    BY <1>3, <2>1
<1>7. PICK s \in { -1, 1 }, w \in { -1, 0, 1 } : y = x + s * p + w * R /\ s = IF q % 2 = 0 THEN 1 ELSE -1
  <2>1. CASE q % 2 = 0
    <3>1. y = (x + p) % R
      BY <2>1, <1>3, <1>5, <1>6
    <3>2. x + p \in 0..(2 * R - 1)
      BY <1>3, <1>4
    <3>3. y = x + p \/ y = x + p - R
      BY <3>1, <3>2, <1>3, <1>4
    <3>. QED
      BY <2>1, <3>3, <1>3, <1>4
  <2>2. CASE q % 2 # 0
    <3>1. y = (x - p) % R
      BY <2>2, <1>3, <1>5, <1>6
    <3>2. x - p \in (-R)..(R - 1)
      BY <1>3, <1>4
    <3>3. y = x - p \/ y = x - p + R
      BY <3>1, <3>2, <1>3, <1>4
    <3>. QED
      BY <2>2, <3>3, <1>3, <1>4
  <2>. QED
    BY <2>1, <2>2
<1>8. y # x
  BY <1>3, <1>4, <1>6, <1>7
<1>9. PICK t \in Int : t = s + 2 * (w * e)
  OBVIOUS
<1>10. (y - Base) \div p = q + t
  <2>1. w * R = (2 * (w * e)) * p
    BY <1>1, <1>3
  <2>2. t * p = s * p + (2 * (w * e)) * p
    BY <1>9
  <2>3. y - Base = (x - Base) + t * p
    BY <1>4, <1>6, <1>7, <2>1, <2>2
  <2>4. ((x - Base) + t * p) \div p = ((x - Base) \div p) + t
    BY <1>4, DivShift
  <2>. QED
    BY <2>3, <2>4, <1>5
<1>11. ((y - Base) \div p) % 2 = (q + s) % 2
  <2>1. (q + t) % 2 = (q + s) % 2
    <3>1. PICK v \in Int : v = w * e
      OBVIOUS
    <3>2. (q + s + 2 * v) % 2 = (q + s) % 2
      OBVIOUS
    <3>3. q + t = q + s + 2 * v
      BY <3>1, <1>9
    <3>. QED
      BY <3>2, <3>3
  <2>. QED
    BY <1>10, <2>1
<1>12. b(y) = x
  <2>1. CASE s = 1
    <3>1. (q + s) % 2 # 0
      BY <1>7, <2>1
    <3>2. b(y) = (y - p) % R
      BY <1>3, <1>11, <3>1
    <3>3. y - p = x + w * R
      BY <2>1, <1>4, <1>6, <1>7
    <3>4. (x + w * R) % R = x
      BY <1>3, <1>4
    <3>. QED
      BY <3>2, <3>3, <3>4
  <2>2. CASE s = -1
    <3>1. (q + s) % 2 = 0
      BY <1>7, <2>2
    <3>2. b(y) = (y + p) % R
      BY <1>3, <1>11, <3>1
    <3>3. y + p = x + w * R
      BY <2>2, <1>4, <1>6, <1>7
    <3>4. (x + w * R) % R = x
      BY <1>3, <1>4
    <3>. QED
      BY <3>2, <3>3, <3>4
  <2>. QED
    BY <2>1, <2>2
<1>. HIDE DEF b
<1>. QED
  BY <1>2, <1>3, <1>6, <1>8, <1>12 DEF Address

-----------------------------------------------------------------------------
(* The free lists.                                                         *)

\* What a list holds after its first entry was popped.
LEMMA TailSet ==
    ASSUME NEW S, NEW q \in Seq(S), q # << >>
    PROVE  /\ Head(q) \in S /\ Tail(q) \in Seq(S)
           /\ Head(q) \in ToSet(q) /\ ToSet(Tail(q)) \subseteq ToSet(q)
           /\ IsInjective(q) => ToSet(Tail(q)) = ToSet(q) \ { Head(q) } /\ IsInjective(Tail(q))
<1>1. /\ Len(q) \in Nat \ {0} /\ DOMAIN q = 1..Len(q)
      /\ Head(q) = q[1] /\ Tail(q) \in Seq(S) /\ Len(Tail(q)) = Len(q) - 1
      /\ \A j \in 1..(Len(q) - 1) : Tail(q)[j] = q[j + 1]
  BY HeadTailProperties, LenProperties, EmptySeq
<1>2. \A j \in 1..Len(q) : q[j] \in S
  BY ElementOfSeq
<1>3. PICK t \in Seq(S) : t = Tail(q)
  BY <1>1
<1>4. PICK n \in Nat \ {0} : n = Len(q)
  BY <1>1
<1>5. DOMAIN t = 1..(n - 1) /\ DOMAIN q = 1..n /\ \A j \in 1..(n - 1) : t[j] = q[j + 1]
  BY <1>1, <1>3, <1>4, LenProperties
<1>6. 1 \in 1..n /\ (\A j \in 1..(n - 1) : j + 1 \in 1..n) /\ (\A j \in 2..n : j - 1 \in 1..(n - 1) /\ (j - 1) + 1 = j)
  OBVIOUS
<1>7. Head(q) \in S /\ Head(q) \in ToSet(q) /\ ToSet(t) \subseteq ToSet(q)
  BY <1>1, <1>2, <1>4, <1>5, <1>6 DEF ToSet
<1>8. ASSUME IsInjective(q)
      PROVE  ToSet(t) = ToSet(q) \ { Head(q) } /\ IsInjective(t)
  <2>1. \A j, k \in 1..n : q[j] = q[k] => j = k
    BY <1>5, <1>8 DEF IsInjective
  <2>2. ASSUME NEW x \in ToSet(t)
        PROVE  x # Head(q)
    <3>1. PICK j \in 1..(n - 1) : x = q[j + 1]
      BY <1>5 DEF ToSet
    <3>. QED
      BY <3>1, <2>1, <1>1, <1>6
  <2>3. ASSUME NEW x \in ToSet(q), x # Head(q)
        PROVE  x \in ToSet(t)
    <3>1. PICK j \in 1..n : x = q[j]
      BY <1>5 DEF ToSet
    <3>2. j \in 2..n
      BY <3>1, <2>3, <1>1
    <3>3. PICK k \in 1..(n - 1) : k + 1 = j
      BY <3>2, <1>6
    <3>4. t[k] = x
      BY <3>1, <3>3, <1>5
    <3>. QED
      BY <3>4, <1>5 DEF ToSet
  <2>4. ASSUME NEW j \in 1..(n - 1), NEW k \in 1..(n - 1), t[j] = t[k]
        PROVE  j = k
    BY <2>4, <2>1, <1>5, <1>6
  <2>. QED
    BY <2>2, <2>3, <2>4, <1>5, <1>7 DEF IsInjective
<1>. QED
  BY <1>1, <1>3, <1>7, <1>8

\* What a list holds after an entry was added at its head.
LEMMA ConsSet ==
    ASSUME NEW S, NEW q \in Seq(S), NEW x \in S
    PROVE  /\ << x >> \o q \in Seq(S) /\ ToSet(<< x >> \o q) = { x } \cup ToSet(q)
           /\ IsInjective(q) /\ x \notin ToSet(q) => IsInjective(<< x >> \o q)
<1>1. PICK o \in Seq(S) : o = << x >> /\ Len(o) = 1 /\ o[1] = x
  <2>1. << x >> \in Seq(S)
    OBVIOUS
  <2>2. Len(<< x >>) = 1 /\ << x >>[1] = x
    OBVIOUS
  <2>. QED
    BY <2>1, <2>2, Zenon
<1>2. PICK n \in Nat : n = Len(q) /\ DOMAIN q = 1..n
  BY LenProperties
<1>3. PICK r \in Seq(S) : r = o \o q /\ Len(r) = n + 1 /\ DOMAIN r = 1..(n + 1)
                          /\ \A j \in 1..(n + 1) : r[j] = IF j <= 1 THEN o[j] ELSE q[j - 1]
  <2>1. /\ o \o q \in Seq(S) /\ Len(o \o q) = Len(o) + Len(q)
        /\ \A j \in 1..(Len(o) + Len(q)) : (o \o q)[j] = IF j <= Len(o) THEN o[j] ELSE q[j - Len(o)]
    BY ConcatProperties
  <2>2. PICK r \in Seq(S) : r = o \o q
    BY <2>1
  <2>3. Len(r) = n + 1
    BY <2>1, <2>2, <1>1, <1>2
  <2>4. \A j \in 1..(n + 1) : r[j] = IF j <= 1 THEN o[j] ELSE q[j - 1]
    BY <2>1, <2>2, <1>1, <1>2
  <2>. QED
    BY <2>2, <2>3, <2>4, LenProperties
<1>4. r[1] = x /\ \A j \in 1..n : r[j + 1] = q[j]
  BY <1>1, <1>3
<1>5. \A j \in 1..(n + 1) : j = 1 \/ \E k \in 1..n : j = k + 1
  <2>1. \A j \in 1..(n + 1) : j = 1 \/ (j - 1 \in 1..n /\ j = (j - 1) + 1)
    OBVIOUS
  <2>. QED
    BY <2>1
<1>6. 1 \in 1..(n + 1) /\ \A j \in 1..n : j + 1 \in 1..(n + 1)
  OBVIOUS
<1>7. ToSet(r) = { x } \cup ToSet(q)
  <2>1. \A y \in ToSet(r) : y = x \/ y \in ToSet(q)
    BY <1>2, <1>3, <1>4, <1>5 DEF ToSet
  <2>2. x \in ToSet(r)
    BY <1>3, <1>4, <1>6 DEF ToSet
  <2>3. ASSUME NEW y \in ToSet(q)
        PROVE  y \in ToSet(r)
    <3>1. PICK j \in 1..n : y = q[j]
      BY <1>2 DEF ToSet
    <3>2. PICK k \in 1..(n + 1) : k = j + 1 /\ r[k] = y
      BY <3>1, <1>4, <1>6
    <3>. QED
      BY <3>2, <1>3 DEF ToSet
  <2>. QED
    BY <2>1, <2>2, <2>3
<1>8. ASSUME IsInjective(q), x \notin ToSet(q)
      PROVE  IsInjective(r)
  <2>1. \A j, k \in 1..n : q[j] = q[k] => j = k
    BY <1>2, <1>8 DEF IsInjective
  <2>2. \A j \in 1..n : q[j] # x
    BY <1>2, <1>8 DEF ToSet
  <2>3. ASSUME NEW j \in 1..(n + 1), NEW k \in 1..(n + 1), r[j] = r[k]
        PROVE  j = k
    <3>1. ASSUME NEW a \in 1..n
          PROVE  r[a + 1] # r[1]
      BY <2>2, <1>4
    <3>2. CASE j = 1
      BY <3>1, <3>2, <2>3, <1>5
    <3>3. CASE k = 1
      BY <3>1, <3>3, <2>3, <1>5
    <3>4. CASE j # 1 /\ k # 1
      <4>1. PICK a \in 1..n, c \in 1..n : j = a + 1 /\ k = c + 1
        BY <3>4, <1>5
      <4>2. q[a] = q[c]
        BY <4>1, <2>3, <1>4
      <4>. QED
        BY <4>1, <4>2, <2>1
    <3>. QED
      BY <3>2, <3>3, <3>4
  <2>. QED
    BY <2>3, <1>3 DEF IsInjective
<1>. QED
  BY <1>1, <1>3, <1>7, <1>8

\* What a list holds after fb_remove() took an entry out.
LEMMA RemoveFirstSet ==
    ASSUME NEW S, NEW q \in Seq(S), NEW x
    PROVE  /\ RemoveFirst(q, x) \in Seq(S) /\ ToSet(RemoveFirst(q, x)) \subseteq ToSet(q)
           /\ IsInjective(q) => /\ ToSet(RemoveFirst(q, x)) = ToSet(q) \ { x }
                                /\ IsInjective(RemoveFirst(q, x))
<1>1. PICK n \in Nat : n = Len(q) /\ DOMAIN q = 1..n
  BY LenProperties
<1>2. CASE ~ \E i \in 1..n : q[i] = x
  <2>1. RemoveFirst(q, x) = q
    BY <1>1, <1>2 DEF RemoveFirst
  <2>2. x \notin ToSet(q)
    BY <1>1, <1>2 DEF ToSet
  <2>. QED
    BY <2>1, <2>2
<1>3. CASE \E i \in 1..n : q[i] = x
  <2>. DEFINE I == { i \in 1..n : q[i] = x }
  <2>1. PICK m \in I : \A k \in I : m <= k
    <3>1. I \in SUBSET Nat /\ I # {}
      BY <1>3
    <3>. QED
      BY <3>1, LeastOfSet
  <2>2. PICK i : i = Min(I)
    OBVIOUS
  <2>3. i \in 1..n /\ q[i] = x
    <3>1. i \in I
      BY <2>1, <2>2 DEF Min
    <3>. QED
      BY <3>1
  <2>4. RemoveFirst(q, x) = RemoveAt(q, i)
    <3>1. SelectInSeq(q, LAMBDA v : v = x) = Min(I)
      BY <1>1, <1>3 DEF SelectInSeq
    <3>. QED
      BY <3>1, <2>2, <1>1, <1>3 DEF RemoveFirst
  <2>. HIDE DEF I
  <2>5. PICK r \in Seq(S) : /\ r = RemoveAt(q, i) /\ DOMAIN r = 1..(n - 1)
                            /\ \A j \in 1..(n - 1) : r[j] = IF j < i THEN q[j] ELSE q[j + 1]
    <3>1. /\ RemoveAt(q, i) \in Seq(S)
          /\ Len(RemoveAt(q, i)) = Len(q) - 1
          /\ \A j \in 1..(Len(q) - 1) : RemoveAt(q, i)[j] = IF j < i THEN q[j] ELSE q[j + 1]
      BY <1>1, <2>3, RemoveAtPlace
    <3>. QED
      BY <3>1, <1>1, LenProperties
  <2>6. ToSet(r) \subseteq ToSet(q)
    <3>1. ASSUME NEW j \in 1..(n - 1)
          PROVE  r[j] \in ToSet(q)
      <4>1. j \in 1..n /\ j + 1 \in 1..n
        OBVIOUS
      <4>. QED
        BY <4>1, <2>5, <1>1 DEF ToSet
    <3>. QED
      BY <3>1, <2>5 DEF ToSet
  <2>7. ASSUME IsInjective(q)
        PROVE  ToSet(r) = ToSet(q) \ { x } /\ IsInjective(r)
    <3>1. \A j, k \in 1..n : q[j] = q[k] => j = k
      BY <1>1, <2>7 DEF IsInjective
    <3>2. ASSUME NEW j \in 1..(n - 1)
          PROVE  r[j] # x
      <4>1. j \in 1..n /\ j + 1 \in 1..n
        OBVIOUS
      <4>2. j < i \/ j + 1 # i
        BY <2>3
      <4>3. j < i => j # i
        BY <2>3
      <4>. QED
        BY <4>1, <4>2, <4>3, <3>1, <2>3, <2>5
    <3>3. ASSUME NEW j \in 1..n, j # i
          PROVE  q[j] \in ToSet(r)
      <4>1. CASE j < i
        <5>1. j \in 1..(n - 1) /\ r[j] = q[j]
          BY <4>1, <2>3, <2>5
        <5>. QED
          BY <5>1, <2>5 DEF ToSet
      <4>2. CASE j > i
        <5>1. PICK k \in 1..(n - 1) : k + 1 = j /\ ~(k < i)
          <6>1. j - 1 \in 1..(n - 1) /\ (j - 1) + 1 = j /\ ~(j - 1 < i)
            BY <4>2, <2>3
          <6>. QED
            BY <6>1
        <5>2. r[k] = q[j]
          BY <5>1, <2>5
        <5>. QED
          BY <5>2, <2>5 DEF ToSet
      <4>. QED
        BY <4>1, <4>2, <3>3, <2>3
    <3>4. ToSet(r) = ToSet(q) \ { x }
      <4>1. \A y \in ToSet(r) : y # x
        BY <3>2, <2>5 DEF ToSet
      <4>2. \A y \in ToSet(q) : y # x => y \in ToSet(r)
        BY <3>3, <2>3, <1>1 DEF ToSet
      <4>. QED
        BY <4>1, <4>2, <2>6
    <3>5. ASSUME NEW j \in 1..(n - 1), NEW k \in 1..(n - 1), r[j] = r[k]
          PROVE  j = k
      <4>1. j \in 1..n /\ j + 1 \in 1..n /\ k \in 1..n /\ k + 1 \in 1..n
        OBVIOUS
      <4>2. r[j] = (IF j < i THEN q[j] ELSE q[j + 1]) /\ r[k] = (IF k < i THEN q[k] ELSE q[k + 1])
        BY <2>5
      <4>3. PICK a \in 1..n, c \in 1..n : a = (IF j < i THEN j ELSE j + 1) /\ c = (IF k < i THEN k ELSE k + 1)
        BY <4>1
      <4>4. q[a] = q[c]
        BY <4>2, <4>3, <3>5
      <4>5. a = c
        BY <4>4, <3>1
      <4>. QED
        BY <4>3, <4>5, <2>3
    <3>. QED
      BY <3>4, <3>5, <2>5 DEF IsInjective
  <2>. QED
    BY <2>4, <2>5, <2>6, <2>7
<1>. QED
  BY <1>2, <1>3

-----------------------------------------------------------------------------
(* Merging.                                                                *)

\* What follows |x| when a block there is merged at index |i|.
Up(i, x, h) == Min({ x, getbuddy(i, x, h) })

\* The lower of a block and its buddy is one of them.
LEMMA UpIsLower ==
    ASSUME NEW i \in Index, NEW x \in Address, NEW h \in Int
    PROVE  /\ getbuddy(i, x, h) \in Address
           /\ Up(i, x, h) = IF x <= getbuddy(i, x, h) THEN x ELSE getbuddy(i, x, h)
           /\ Up(i, x, h) \in Address
<1>. USE Constants
<1>1. PICK p \in Nat \ {0} : p = 2^i
  BY Powers
<1>2. PICK R \in Nat \ {0} : R = Range16
  OBVIOUS
<1>3. x \in 0..(R - 1)
  BY <1>2 DEF Address
<1>4. (x + p) % R \in 0..(R - 1) /\ (x - p) % R \in 0..(R - 1)
  BY <1>3
<1>5. PICK y \in 0..(R - 1) : y = getbuddy(i, x, h)
  BY <1>1, <1>2, <1>4 DEF getbuddy
<1>6. PICK z : z = Min({ x, y })
  OBVIOUS
<1>7. \E m \in { x, y } : \A n \in { x, y } : m <= n
  BY <1>3
<1>8. z \in { x, y } /\ \A n \in { x, y } : z <= n
  BY <1>6, <1>7 DEF Min
<1>9. z = IF x <= y THEN x ELSE y
  BY <1>3, <1>8
<1>. QED
  BY <1>2, <1>3, <1>5, <1>6, <1>9 DEF Up, Address

\* The loop of free() goes up one index at a time.
LEMMA MergedBlocks ==
    ASSUME NEW addr \in Address, NEW first \in Index, NEW h \in Int,
           NEW Z, Z = MergedAt(addr, first, h)
    PROVE  /\ Z[first] = addr
           /\ \A i \in first..MAX_INDEX : Z[i] \in Address
           /\ \A i \in first..(MAX_INDEX - 1) : Z[i + 1] = Up(i, Z[i], h)
<1>. USE Constants
<1>. DEFINE G(f) == [ i \in first..MAX_INDEX |-> IF i = first THEN addr ELSE Up(i - 1, f[i - 1], h) ]
            Steps(f, m) == \A i \in first..(m - 1) : f[i + 1] = Up(i, f[i], h)
            P == { n \in Nat : first + n <= MAX_INDEX =>
                     \E f \in [ first..(first + n) -> Address ] : f[first] = addr /\ Steps(f, first + n) }
<1>1. Z = CHOOSE f : f = G(f)
  BY DEF MergedAt, Up
<1>2. 0 \in P
  <2>1. [ i \in first..first |-> addr ] \in [ first..first -> Address ]
    OBVIOUS
  <2>2. PICK f \in [ first..first -> Address ] : f[first] = addr
    <3>1. [ i \in first..first |-> addr ][first] = addr
      OBVIOUS
    <3>. QED
      BY <2>1, <3>1
  <2>3. Steps(f, first)
    OBVIOUS
  <2>4. first + 0 = first /\ first \in Nat
    OBVIOUS
  <2>5. \E g \in [ first..(first + 0) -> Address ] : g[first] = addr /\ Steps(g, first + 0)
    <3>. HIDE DEF Steps
    <3>. QED
      BY <2>2, <2>3, <2>4
  <2>. QED
    BY <2>5
<1>3. ASSUME NEW n \in Nat, n \in P
      PROVE  n + 1 \in P
  <2>. SUFFICES ASSUME first + (n + 1) <= MAX_INDEX
                PROVE  \E f \in [ first..(first + (n + 1)) -> Address ] :
                          f[first] = addr /\ Steps(f, first + (n + 1))
    OBVIOUS
  <2>1. PICK m \in Nat : m = first + n /\ first <= m /\ first + (n + 1) = m + 1 /\ m \in Index /\ m <= MAX_INDEX
    BY DEF Index
  <2>2. PICK f \in [ first..m -> Address ] : f[first] = addr /\ Steps(f, m)
    <3>. HIDE DEF Steps
    <3>1. \E f \in [ first..(first + n) -> Address ] : f[first] = addr /\ Steps(f, first + n)
      BY <1>3, <2>1
    <3>. QED
      BY <3>1, <2>1
  <2>. DEFINE g == [ i \in first..(m + 1) |-> IF i = m + 1 THEN Up(m, f[m], h) ELSE f[i] ]
  <2>3. m \in first..m /\ f[m] \in Address
    BY <2>1, <2>2
  <2>4. Up(m, f[m], h) \in Address
    BY <2>1, <2>3, UpIsLower
  <2>5. \A i \in first..(m + 1) : i = m + 1 \/ i \in first..m
    BY <2>1
  <2>6. g \in [ first..(m + 1) -> Address ]
    BY <2>2, <2>4, <2>5
  <2>7. g[first] = addr
    BY <2>1, <2>2
  <2>8. Steps(g, m + 1)
    <3>1. ASSUME NEW i \in first..m
          PROVE  g[i + 1] = Up(i, g[i], h)
      <4>1. g[i] = f[i]
        BY <2>1
      <4>2. CASE i = m
        <5>1. g[m + 1] = Up(m, f[m], h)
          BY <2>1
        <5>. HIDE DEF g
        <5>. QED
          BY <4>1, <4>2, <5>1
      <4>3. CASE i # m
        <5>1. PICK j \in first..m : j = i + 1 /\ i \in first..(m - 1)
          BY <2>1, <4>3
        <5>2. g[j] = f[j]
          BY <5>1, <2>1
        <5>3. f[i + 1] = Up(i, f[i], h)
          BY <2>2, <5>1
        <5>. HIDE DEF g
        <5>. QED
          BY <4>1, <5>1, <5>2, <5>3
      <4>. QED
        BY <4>2, <4>3
    <3>2. (m + 1) - 1 = m
      BY <2>1
    <3>. HIDE DEF g
    <3>. QED
      BY <3>1, <3>2
  <2>. HIDE DEF g, Steps
  <2>. QED
    BY <2>1, <2>6, <2>7, <2>8
<1>4. \A n \in Nat : n \in P
  <2>. HIDE DEF P
  <2>. QED
    BY <1>2, <1>3, InductionOnSet
<1>5. PICK f \in [ first..MAX_INDEX -> Address ] : f[first] = addr /\ Steps(f, MAX_INDEX)
  <2>1. PICK n \in Nat : first + n = MAX_INDEX
    <3>1. MAX_INDEX - first \in Nat /\ first + (MAX_INDEX - first) = MAX_INDEX
      OBVIOUS
    <3>. QED
      BY <3>1
  <2>. HIDE DEF Steps
  <2>2. \E f \in [ first..(first + n) -> Address ] : f[first] = addr /\ Steps(f, first + n)
    <3>1. n \in P
      <4>. HIDE DEF P
      <4>. QED
        BY <1>4
    <3>2. first + n <= MAX_INDEX
      BY <2>1
    <3>. QED
      BY <3>1, <3>2
  <2>. QED
    BY <2>1, <2>2
<1>6. f = G(f)
  <2>1. ASSUME NEW i \in first..MAX_INDEX
        PROVE  f[i] = IF i = first THEN addr ELSE Up(i - 1, f[i - 1], h)
    <3>1. CASE i = first
      BY <3>1, <1>5
    <3>2. CASE i # first
      <4>1. PICK j \in first..(MAX_INDEX - 1) : j = i - 1 /\ j + 1 = i
        BY <3>2
      <4>2. f[j + 1] = Up(j, f[j], h)
        BY <1>5, <4>1
      <4>. QED
        BY <3>2, <4>1, <4>2
    <3>. QED
      BY <3>1, <3>2
  <2>2. G(f) = [ i \in first..MAX_INDEX |-> f[i] ]
    BY <2>1
  <2>. QED
    BY <2>2, <1>5
<1>7. Z = G(Z)
  BY <1>1, <1>6
<1>8. /\ Z[first] = addr
      /\ \A i \in first..MAX_INDEX : i # first => Z[i] = Up(i - 1, Z[i - 1], h)
  <2>. DEFINE e(i) == IF i = first THEN addr ELSE Up(i - 1, Z[i - 1], h)
  <2>1. Z = [ i \in first..MAX_INDEX |-> e(i) ]
    BY <1>7
  <2>. HIDE DEF e
  <2>2. \A i \in first..MAX_INDEX : Z[i] = e(i)
    BY <2>1
  <2>3. first \in first..MAX_INDEX
    OBVIOUS
  <2>. QED
    BY <2>2, <2>3 DEF e
<1>9. ASSUME NEW i \in first..(MAX_INDEX - 1)
      PROVE  Z[i + 1] = Up(i, Z[i], h)
  <2>1. PICK j \in first..MAX_INDEX : j = i + 1 /\ j # first /\ j - 1 = i
    OBVIOUS
  <2>. QED
    BY <2>1, <1>8
<1>10. \A i \in first..MAX_INDEX : Z[i] \in Address
  <2>. DEFINE Q == { n \in Nat : first + n <= MAX_INDEX => Z[first + n] \in Address }
  <2>1. 0 \in Q
    BY <1>8
  <2>2. ASSUME NEW n \in Nat, n \in Q
        PROVE  n + 1 \in Q
    <3>. SUFFICES ASSUME first + (n + 1) <= MAX_INDEX
                  PROVE  Z[first + (n + 1)] \in Address
      OBVIOUS
    <3>1. PICK m \in first..(MAX_INDEX - 1) : m = first + n /\ first + (n + 1) = m + 1 /\ m \in Index
      BY DEF Index
    <3>2. Z[m] \in Address
      BY <2>2, <3>1
    <3>3. Z[m + 1] \in Address
      <4>1. Z[m + 1] = Up(m, Z[m], h)
        BY <1>9
      <4>2. Up(m, Z[m], h) \in Address
        BY <3>1, <3>2, UpIsLower
      <4>. QED
        BY <4>1, <4>2
    <3>. QED
      BY <3>1, <3>3
  <2>3. \A n \in Nat : n \in Q
    <3>. HIDE DEF Q
    <3>. QED
      BY <2>1, <2>2, InductionOnSet
  <2>4. ASSUME NEW i \in first..MAX_INDEX
        PROVE  Z[i] \in Address
    <3>1. PICK n \in Nat : first + n = i
      <4>1. i - first \in Nat /\ first + (i - first) = i
        OBVIOUS
      <4>. QED
        BY <4>1
    <3>. QED
      BY <3>1, <2>3
  <2>. QED
    BY <2>4
<1>. QED
  BY <1>8, <1>9, <1>10

\* The loop of free() ends at an index at which there is no free buddy.
LEMMA MergeEnds ==
    ASSUME NEW Z, NEW first \in Index, NEW h, NEW last, last = MergeEnd(Z, first, h)
    PROVE  /\ last \in first..MAX_INDEX
           /\ ~CanMerge(last, getbuddy(last, Z[last], h))
           /\ \A j \in first..(last - 1) : CanMerge(j, getbuddy(j, Z[j], h))
<1>. USE Constants
<1>. DEFINE S == { i \in first..MAX_INDEX : ~CanMerge(i, getbuddy(i, Z[i], h)) }
            Q(i) == /\ ~CanMerge(i, getbuddy(i, Z[i], h))
                    /\ \A j \in first..(i - 1) : CanMerge(j, getbuddy(j, Z[j], h))
<1>1. MAX_INDEX \in S
  BY DEF CanMerge
<1>2. PICK x \in S : \A y \in S : x <= y
  <2>1. S \in SUBSET Nat
    OBVIOUS
  <2>. QED
    BY <1>1, <2>1, LeastOfSet
<1>3. Q(x)
  <2>1. ASSUME NEW j \in first..(x - 1)
        PROVE  CanMerge(j, getbuddy(j, Z[j], h))
    <3>1. j \in first..MAX_INDEX /\ ~(x <= j)
      OBVIOUS
    <3>. QED
      BY <3>1, <1>2
  <2>. QED
    BY <1>2, <2>1
<1>4. x \in first..MAX_INDEX
  OBVIOUS
<1>. HIDE DEF Q
<1>5. last = CHOOSE i \in first..MAX_INDEX : Q(i)
  BY DEF MergeEnd, Q
<1>6. last \in first..MAX_INDEX /\ Q(last)
  BY <1>3, <1>4, <1>5
<1>. QED
  BY <1>6 DEF Q

-----------------------------------------------------------------------------
(* The invariant for every value of the constants.                         *)

\* No free block has a free buddy.
NoFreePair(fb) ==
    \A i \in Index : i < MAX_INDEX => \A x \in ToSet(fb[i]) : Buddy(i, x) \notin ToSet(fb[i])

\* The copies of the break agree, and the break moved by whole pages.
BreakInv ==
    /\ lib_brk \in { NULL, brk } /\ lib_heap \in { NULL, Base } /\ OnPages(brk)
    /\ lib_brk = NULL \/ (~shared /\ lib_heap = NULL) => brk = Base

\* Blocks in use are of a page at most.
SizeInv == \A b \in live : getindex(b.size) \in Index

\* The invariant of the allocator, whatever the heap and the pointers.
MallocInv == TypeOK /\ IsFiniteSet(live) /\ BreakInv /\ SizeInv /\ NoFreePair(fb_table)

\* The variable heap is at the first break in a program, at the break in the kernel.
LEMMA HeapPlace ==
    ASSUME TypeOK, BreakInv
    PROVE  /\ SbrkStart = brk /\ Heap(brk) \in Int /\ OnPages(Heap(brk))
           /\ shared => \A b : Heap(b) = b
           /\ ~shared => \A b : Heap(b) = Base
<1>. USE Constants
<1>1. SbrkStart = brk
  BY DEF BreakInv, SbrkStart, NULL
<1>2. shared => \A b : Heap(b) = b
  BY DEF Heap
<1>3. ~shared => \A b : Heap(b) = Base
  BY <1>1 DEF BreakInv, Heap, NULL
<1>4. OnPages(Base)
  <2>1. 0 \in Int /\ Base = Base + 0 * PAGE_SIZE
    OBVIOUS
  <2>. QED
    BY <2>1 DEF OnPages
<1>5. brk \in Int /\ Base \in Int
  BY DEF TypeOK
<1>6. OnPages(brk) /\ shared \in BOOLEAN
  BY DEF BreakInv, TypeOK
<1>. QED
  BY <1>1, <1>2, <1>3, <1>4, <1>5, <1>6

\* sbrk() of a page moves the break by a page, within the heap, or fails.
LEMMA SbrkMoves ==
    ASSUME TypeOK, BreakInv, ~SbrkFails(PAGE_SIZE),
           NEW new, new = heap_brk(SbrkEnd(PAGE_SIZE))
    PROVE  /\ new \in Base..Limit /\ OnPages(new)
           /\ brk + PAGE_SIZE < Range16 => new = brk + PAGE_SIZE
<1>. USE Constants
<1>1. SbrkStart = brk
  BY HeapPlace
<1>2. PICK p \in Nat \ {0}, R \in Nat \ {0}, c \in Nat \ {0} : p = PAGE_SIZE /\ R = Range16 /\ R = c * p
  OBVIOUS
<1>3. PICK k \in Int : brk = Base + k * p
  BY <1>2 DEF BreakInv, OnPages
<1>4. brk \in Base..Limit /\ brk \in Nat /\ brk < R
  BY <1>2 DEF TypeOK
<1>5. PICK end \in 0..(R - 1) : end = (brk + p) % R /\ end = SbrkEnd(PAGE_SIZE)
  <2>1. (brk + p) % R \in 0..(R - 1)
    BY <1>4
  <2>. QED
    BY <2>1, <1>1, <1>2 DEF SbrkEnd
<1>6. new = heap_brk(end) /\ new # Failed /\ ~(new < end)
  BY <1>5 DEF SbrkFails
<1>7. CASE end = 0
  <2>1. new = brk
    BY <1>6, <1>7 DEF heap_brk
  <2>2. brk + p < R => brk + p = end
    BY <1>4, <1>5
  <2>3. ~(brk + p < R)
    BY <2>2, <1>4, <1>7
  <2>. QED
    BY <2>1, <2>3, <1>2, <1>4 DEF BreakInv
<1>8. CASE end # 0
  <2>1. new = end /\ end \in Base..Limit
    BY <1>6, <1>8 DEF heap_brk
  <2>2. brk + p < R => brk + p = end
    BY <1>4, <1>5
  <2>3. PICK w \in Int : end = brk + p + w * R
    <3>1. brk + p = R * ((brk + p) \div R) + ((brk + p) % R) /\ (brk + p) \div R \in Int
      BY <1>4
    <3>2. PICK d \in Int : d = (brk + p) \div R
      BY <3>1
    <3>3. PICK w \in Int : w = -d
      OBVIOUS
    <3>4. w * R = - (R * d)
      BY <3>3
    <3>5. brk + p = R * d + end
      BY <3>1, <3>2, <1>5
    <3>6. end = brk + p + w * R
      BY <3>4, <3>5, <1>4
    <3>. QED
      BY <3>6
  <2>4. PICK m \in Int : m = k + 1 + w * c
    OBVIOUS
  <2>5. m * p = k * p + p + w * (c * p)
    BY <2>4
  <2>6. end = Base + m * p
    BY <2>3, <2>5, <1>2, <1>3
  <2>. QED
    BY <2>1, <2>2, <2>6, <1>2 DEF OnPages
<1>. QED
  BY <1>7, <1>8

\* No block is twice on a free list.
AllInjective(fb) == \A i \in Index : IsInjective(fb[i])

\* What malloc() leaves on the free lists: of the block it cuts down, a buddy at
\* each index.
IsSplit(fb, new, zone, from, to) ==
    \A i \in Index : ToSet(new[i]) = IF i \in to..(from - 1) THEN { Buddy(i, zone) } ELSE ToSet(fb[i])

\* A block is cut down where the lists of the smaller indices are empty.
CanSplit(fb, zone, from, to, h) ==
    /\ fb \in [ Index -> Seq(Address) ] /\ zone \in Address /\ OnPages(h)
    /\ to \in Index /\ from \in Index /\ to <= from
    /\ \A i \in to..(from - 1) : fb[i] = << >>

\* The loop that splits a block adds its pieces to the lists and no two buddies.
LEMMA SplitLists ==
    ASSUME NEW fb, NEW zone, NEW from, NEW to, NEW h, CanSplit(fb, zone, from, to, h),
           NEW new, new = Split(fb, zone, from, to, h)
    PROVE  /\ new \in [ Index -> Seq(Address) ]
           /\ IsSplit(fb, new, zone, from, to)
           /\ AllInjective(fb) => AllInjective(new)
           /\ NoFreePair(fb) => NoFreePair(new)
<1>. USE Constants
<1>. /\ fb \in [ Index -> Seq(Address) ] /\ zone \in Address /\ OnPages(h)
     /\ to \in Index /\ from \in Index /\ to <= from
     /\ \A i \in to..(from - 1) : fb[i] = << >>
  BY DEF CanSplit
<1>1. ASSUME NEW i \in Index, i \in to..(from - 1)
      PROVE  /\ new[i] \in Seq(Address) /\ ToSet(new[i]) = { Buddy(i, zone) } /\ IsInjective(new[i])
             /\ i < MAX_INDEX /\ Buddy(i, zone) \in Address
             /\ Buddy(i, Buddy(i, zone)) # Buddy(i, zone)
  <2>1. i < MAX_INDEX /\ zone \in Int
    BY <1>1 DEF Address
  <2>2. PICK y \in Address : y = Buddy(i, zone) /\ y = getbuddy(i, zone, h) /\ Buddy(i, y) # y
    <3>1. getbuddy(i, zone, h) = Buddy(i, zone)
      BY <2>1, BuddySame
    <3>2. Buddy(i, zone) \in Address /\ Buddy(i, zone) # zone /\ Buddy(i, Buddy(i, zone)) = zone
      BY <2>1, BuddyFlips
    <3>. QED
      BY <3>1, <3>2
  <2>3. new[i] = << y >> \o fb[i] /\ fb[i] = << >>
    BY <1>1, <2>2 DEF Split
  <2>4. ToSet(<< >>) = {} /\ IsInjective(<< >>) /\ << >> \in Seq(Address)
    BY DEF ToSet, IsInjective
  <2>5. PICK q \in Seq(Address) : q = << >> /\ ToSet(q) = {} /\ IsInjective(q)
    BY <2>4
  <2>6. /\ << y >> \o q \in Seq(Address) /\ ToSet(<< y >> \o q) = { y } \cup ToSet(q)
        /\ IsInjective(q) /\ y \notin ToSet(q) => IsInjective(<< y >> \o q)
    BY ConsSet
  <2>. QED
    BY <2>1, <2>2, <2>3, <2>5, <2>6
<1>2. ASSUME NEW i \in Index, i \notin to..(from - 1)
      PROVE  new[i] = fb[i]
  BY <1>2 DEF Split
<1>3. new \in [ Index -> Seq(Address) ]
  <2>1. DOMAIN new = Index /\ new = [ i \in Index |-> new[i] ]
    BY DEF Split
  <2>2. \A i \in Index : new[i] \in Seq(Address)
    BY <1>1, <1>2
  <2>. QED
    BY <2>1, <2>2
<1>4. IsSplit(fb, new, zone, from, to)
  BY <1>1, <1>2 DEF IsSplit
<1>5. AllInjective(fb) => AllInjective(new)
  BY <1>1, <1>2 DEF AllInjective
<1>6. ASSUME NoFreePair(fb)
      PROVE  NoFreePair(new)
  <2>1. ASSUME NEW i \in Index, i < MAX_INDEX, NEW x \in ToSet(new[i])
        PROVE  Buddy(i, x) \notin ToSet(new[i])
    <3>1. CASE i \in to..(from - 1)
      BY <2>1, <3>1, <1>1
    <3>2. CASE i \notin to..(from - 1)
      BY <2>1, <3>2, <1>2, <1>6 DEF NoFreePair
    <3>. QED
      BY <3>1, <3>2
  <2>. QED
    BY <2>1 DEF NoFreePair
<1>. QED
  BY <1>3, <1>4, <1>5, <1>6

\* The three ways of malloc(): a block of a free list, a new page, or none.
FromList(full, i) ==
    LET zone == Head(fb_table[i]) IN
    /\ i \in Index /\ getindex(full) <= i /\ fb_table[i] # << >>
    /\ \A j \in getindex(full)..(i - 1) : fb_table[j] = << >>
    /\ fb_table' = Split([fb_table EXCEPT ![i] = Tail(@)], zone, i, getindex(full), Heap(brk))
    /\ live' = live \cup { [ addr |-> zone, size |-> full ] }
    /\ UNCHANGED << brk, lib_brk, heap_size >>

FromPage(full, zone) ==
    /\ getindex(full) <= MAX_INDEX /\ ~SbrkFails(PAGE_SIZE)
    /\ \A j \in getindex(full)..MAX_INDEX : fb_table[j] = << >>
    /\ brk' = heap_brk(SbrkEnd(PAGE_SIZE)) /\ lib_brk' = brk'
    /\ heap_size' = heap_size + PAGE_SIZE
    /\ zone = (Heap(brk') + heap_size) % Range16
    /\ fb_table' = Split(fb_table, zone, MAX_INDEX, getindex(full), Heap(brk'))
    /\ live' = live \cup { [ addr |-> zone, size |-> full ] }

FromNone ==
    /\ lib_brk' \in { lib_brk, SbrkStart }
    /\ UNCHANGED << brk, heap_size, fb_table, live >>

\* malloc() goes one of these three ways.
LEMMA AllocateCases ==
    ASSUME NEW full \in Address, Allocate(full)
    PROVE  \/ \E i \in Index : FromList(full, i)
           \/ \E zone : FromPage(full, zone)
           \/ FromNone /\ (lib_brk' = SbrkStart \/ shared)
<1>. USE Constants
<1>1. PICK index \in Nat : index = getindex(full) /\ MinIndex <= index
  BY IndexIsLeast DEF Address
<1>. DEFINE found == { i \in index..MAX_INDEX : fb_table[i] # << >> }
<1>2. CASE found # {}
  <2>1. PICK m \in found : \A k \in found : m <= k
    <3>1. found \in SUBSET Nat
      OBVIOUS
    <3>. QED
      BY <3>1, <1>2, LeastOfSet
  <2>2. PICK i : i = Min(found)
    OBVIOUS
  <2>3. i \in found /\ \A k \in found : i <= k
    BY <2>1, <2>2 DEF Min
  <2>4. i \in Index /\ index <= i /\ fb_table[i] # << >> /\ i \in index..MAX_INDEX
    BY <2>3, <1>1 DEF Index
  <2>5. ASSUME NEW j \in index..(i - 1)
        PROVE  fb_table[j] = << >>
    <3>1. j \in index..MAX_INDEX /\ ~(i <= j)
      BY <2>4, <1>1
    <3>. QED
      BY <3>1, <2>3
  <2>6. FromList(full, i)
    BY <1>1, <1>2, <2>2, <2>4, <2>5 DEF Allocate, FromList
  <2>. QED
    BY <2>4, <2>6
<1>3. CASE found = {}
  <2>1. CASE index <= MAX_INDEX /\ ~SbrkFails(PAGE_SIZE)
    <3>1. \A j \in index..MAX_INDEX : fb_table[j] = << >>
      BY <1>3
    <3>2. \E zone : FromPage(full, zone)
      BY <1>1, <1>3, <2>1, <3>1 DEF Allocate, FromPage
    <3>. QED
      BY <3>2
  <2>2. CASE ~(index <= MAX_INDEX /\ ~SbrkFails(PAGE_SIZE))
    BY <1>1, <1>3, <2>2 DEF Allocate, FromNone
  <2>. QED
    BY <2>1, <2>2
<1>. QED
  BY <1>2, <1>3

\* A block that malloc() adds to those in use is of a page at most.
LEMMA UsedInv ==
    ASSUME MallocInv, NEW full \in Address, NEW zone \in Address, getindex(full) \in Index,
           live' = live \cup { [ addr |-> zone, size |-> full ] }
    PROVE  /\ live' \subseteq [ addr : Address, size : Address ]
           /\ IsFiniteSet(live') /\ SizeInv'
<1>1. live \subseteq [ addr : Address, size : Address ] /\ IsFiniteSet(live) /\ SizeInv
  BY DEF MallocInv, TypeOK
<1>2. PICK r \in [ addr : Address, size : Address ] :
          r.addr = zone /\ r.size = full /\ live' = live \cup { r }
  OBVIOUS
<1>3. IsFiniteSet(live')
  BY <1>1, <1>2, FS_AddElement
<1>4. SizeInv'
  BY <1>1, <1>2 DEF SizeInv
<1>. QED
  BY <1>1, <1>2, <1>3, <1>4

\* malloc() and calloc() keep the invariant.
LEMMA CallocKeeps ==
    ASSUME MallocInv, NEW n \in 1..2, NEW size \in Requests, Calloc(n, size)
    PROVE  MallocInv'
<1>. USE Constants
<1>1. PICK R \in Nat \ {0} : R = Range16
  OBVIOUS
<1>2. size \in 0..(R - 1)
  BY MallocAssumption, <1>1
<1>3. PICK asked \in Nat : asked = n * size
  <2>1. n * size \in Nat
    BY <1>2
  <2>. QED
    BY <2>1
<1>4. PICK sz \in 0..(R - 1) : sz = asked % R
  BY <1>3
<1>5. PICK full \in Address : full = FullSize(sz)
  <2>1. (sz + Header) % R \in 0..(R - 1)
    OBVIOUS
  <2>. QED
    BY <2>1, <1>1 DEF FullSize, Address
<1>7. sz = (n * size) % Range16 /\ full = FullSize((n * size) % Range16)
  BY <1>1, <1>3, <1>4, <1>5
<1>8. CASE ~getindex_ends(full)
  <2>1. UNCHANGED << shared, brk, lib_brk, lib_heap, heap_size, fb_table, live >> /\ hung' = TRUE
    BY <1>7, <1>8 DEF Calloc
  <2>. QED
    BY <2>1 DEF MallocInv, TypeOK, BreakInv, SizeInv, NoFreePair, OnPages
<1>9. CASE getindex_ends(full)
  <2>1. /\ Allocate(full) /\ lib_heap' = (IF shared THEN lib_heap ELSE Heap(brk))
        /\ UNCHANGED << shared, hung >>
    BY <1>3, <1>7, <1>9 DEF Calloc
  <2>2. TypeOK /\ BreakInv /\ IsFiniteSet(live) /\ SizeInv /\ NoFreePair(fb_table)
    BY DEF MallocInv
  <2>3. /\ SbrkStart = brk /\ Heap(brk) \in Int /\ OnPages(Heap(brk))
        /\ shared => \A b : Heap(b) = b
        /\ ~shared => \A b : Heap(b) = Base
    BY <2>2, HeapPlace
  <2>4. lib_heap' \in Address /\ lib_heap' \in { NULL, Base } /\ (~shared' => lib_heap' # NULL)
        /\ shared' \in BOOLEAN /\ hung' \in BOOLEAN /\ shared' = shared
    BY <2>1, <2>2, <2>3 DEF TypeOK, BreakInv, NULL, Address
  <2>5. /\ brk \in Base..Limit /\ lib_brk \in Address /\ heap_size \in Nat
        /\ fb_table \in [ Index -> Seq(Address) ]
        /\ lib_brk \in { NULL, brk } /\ OnPages(brk) /\ (lib_brk = NULL => brk = Base)
    BY <2>2 DEF TypeOK, BreakInv
  <2>6. PICK index \in Nat : index = getindex(full) /\ MinIndex <= index
    BY IndexIsLeast DEF Address
  <2>7. ASSUME NEW i \in Index, FromList(full, i)
        PROVE  MallocInv'
    <3>1. PICK fb : fb = [fb_table EXCEPT ![i] = Tail(@)]
      OBVIOUS
    <3>2. PICK q \in Seq(Address) : q = fb_table[i] /\ q # << >>
      BY <2>5, <2>7 DEF FromList
    <3>3. Head(q) \in Address /\ Tail(q) \in Seq(Address) /\ ToSet(Tail(q)) \subseteq ToSet(q)
      BY <3>2, TailSet
    <3>4. fb \in [ Index -> Seq(Address) ] /\ fb[i] = Tail(q) /\ \A j \in Index \ { i } : fb[j] = fb_table[j]
      BY <3>1, <3>2, <3>3, <2>5
    <3>5. NoFreePair(fb)
      <4>1. \A j \in Index : ToSet(fb[j]) \subseteq ToSet(fb_table[j])
        BY <3>2, <3>3, <3>4
      <4>. QED
        BY <4>1, <2>2 DEF NoFreePair
    <3>6. index \in Index /\ index <= i /\ \A j \in index..(i - 1) : fb[j] = << >>
      <4>1. index <= i /\ \A j \in index..(i - 1) : fb_table[j] = << >>
        BY <2>6, <2>7 DEF FromList
      <4>0. MinIndex \in Int /\ MAX_INDEX \in Int /\ i \in MinIndex..MAX_INDEX
        BY MallocAssumption DEF Index
      <4>2. index \in Index /\ \A j \in index..(i - 1) : j \in Index \ { i }
        <5>1. index \in MinIndex..MAX_INDEX
          BY <4>0, <4>1, <2>6
        <5>2. \A j \in index..(i - 1) : j \in MinIndex..MAX_INDEX /\ j # i
          BY <4>0, <5>1
        <5>. QED
          BY <5>1, <5>2 DEF Index
      <4>. QED
        BY <4>1, <4>2, <3>4
    <3>7. fb_table' = Split(fb, Head(q), i, index, Heap(brk))
      BY <2>6, <2>7, <3>1, <3>2 DEF FromList
    <3>8. fb_table' \in [ Index -> Seq(Address) ] /\ NoFreePair(fb_table')
      <4>1. PICK zone \in Address, h \in { Heap(brk) }, new \in { fb_table' } :
                h = Heap(brk) /\ new = fb_table' /\ zone = Head(q) /\ OnPages(h)
                /\ new = Split(fb, zone, i, index, h)
        BY <2>3, <3>3, <3>7
      <4>2. new \in [ Index -> Seq(Address) ] /\ NoFreePair(new)
        <5>1. CanSplit(fb, zone, i, index, h)
          BY <4>1, <3>4, <3>6 DEF CanSplit
        <5>. QED
          BY <4>1, <5>1, <3>5, SplitLists
      <4>. QED
        BY <4>1, <4>2
    <3>9. live' = live \cup { [ addr |-> Head(q), size |-> full ] }
      BY <2>7, <3>2 DEF FromList
    <3>10. /\ live' \subseteq [ addr : Address, size : Address ]
           /\ IsFiniteSet(live') /\ SizeInv'
      BY <2>6, <3>3, <3>6, <3>9, UsedInv
    <3>11. brk' = brk /\ lib_brk' = lib_brk /\ heap_size' = heap_size
      BY <2>7 DEF FromList
    <3>12. TypeOK'
      BY <2>4, <2>5, <3>8, <3>10, <3>11 DEF TypeOK, Address
    <3>13. BreakInv'
      BY <2>4, <2>5, <3>11 DEF BreakInv, OnPages
    <3>14. NoFreePair(fb_table)'
      BY <3>8 DEF NoFreePair
    <3>. QED
      BY <3>10, <3>12, <3>13, <3>14 DEF MallocInv
  <2>8. ASSUME NEW zone, FromPage(full, zone)
        PROVE  MallocInv'
    <3>1. brk' \in Base..Limit /\ OnPages(brk') /\ brk' # NULL /\ lib_brk' = brk' /\ brk' \in Address
      <4>1. ~SbrkFails(PAGE_SIZE) /\ brk' = heap_brk(SbrkEnd(PAGE_SIZE)) /\ lib_brk' = brk'
        BY <2>8 DEF FromPage
      <4>2. brk' \in Base..Limit /\ OnPages(brk')
        BY <4>1, <2>2, SbrkMoves
      <4>. QED
        BY <4>1, <4>2 DEF NULL, Address
    <3>2. PICK h \in Int : h = Heap(brk') /\ OnPages(h)
      <4>1. shared => Heap(brk') = brk'
        BY <2>3
      <4>2. ~shared => Heap(brk') = Heap(brk)
        BY <2>3
      <4>3. brk' \in Int
        BY <3>1
      <4>. QED
        BY <4>1, <4>2, <4>3, <3>1, <2>3
    <3>3. zone \in Address
      <4>1. zone = (h + heap_size) % R
        BY <2>8, <3>2, <1>1 DEF FromPage
      <4>2. (h + heap_size) % R \in 0..(R - 1)
        BY <2>5
      <4>. QED
        BY <4>1, <4>2, <1>1 DEF Address
    <3>4. index \in Index /\ MAX_INDEX \in Index /\ index <= MAX_INDEX
          /\ \A j \in index..(MAX_INDEX - 1) : fb_table[j] = << >>
      <4>1. index <= MAX_INDEX /\ \A j \in index..MAX_INDEX : fb_table[j] = << >>
        BY <2>6, <2>8 DEF FromPage
      <4>. QED
        BY <4>1, <2>6 DEF Index
    <3>5. fb_table' = Split(fb_table, zone, MAX_INDEX, index, h)
      BY <2>6, <2>8, <3>2 DEF FromPage
    <3>6. fb_table' \in [ Index -> Seq(Address) ] /\ NoFreePair(fb_table')
      <4>1. PICK new : new = fb_table' /\ new = Split(fb_table, zone, MAX_INDEX, index, h)
        BY <3>5
      <4>2. new \in [ Index -> Seq(Address) ] /\ NoFreePair(new)
        <5>1. CanSplit(fb_table, zone, MAX_INDEX, index, h)
          BY <2>5, <3>2, <3>3, <3>4 DEF CanSplit
        <5>. QED
          BY <4>1, <5>1, <2>2, SplitLists
      <4>. QED
        BY <4>1, <4>2
    <3>7. live' = live \cup { [ addr |-> zone, size |-> full ] }
      BY <2>8 DEF FromPage
    <3>8. /\ live' \subseteq [ addr : Address, size : Address ]
          /\ IsFiniteSet(live') /\ SizeInv'
      BY <2>6, <3>3, <3>4, <3>7, UsedInv
    <3>9. heap_size' \in Nat
      BY <2>5, <2>8 DEF FromPage
    <3>10. TypeOK'
      BY <2>4, <3>1, <3>6, <3>8, <3>9 DEF TypeOK
    <3>11. BreakInv'
      BY <2>4, <3>1 DEF BreakInv, OnPages
    <3>12. NoFreePair(fb_table)'
      BY <3>6 DEF NoFreePair
    <3>. QED
      BY <3>8, <3>10, <3>11, <3>12 DEF MallocInv
  <2>9. ASSUME FromNone
        PROVE  MallocInv'
    <3>1. UNCHANGED << brk, heap_size, fb_table, live >> /\ lib_brk' \in { lib_brk, brk }
      BY <2>3, <2>9 DEF FromNone
    <3>2. TypeOK'
      BY <2>2, <2>4, <2>5, <3>1 DEF TypeOK, Address
    <3>3. BreakInv'
      BY <2>2, <2>4, <2>5, <3>1 DEF BreakInv, OnPages, NULL
    <3>4. SizeInv' /\ NoFreePair(fb_table)' /\ IsFiniteSet(live')
      BY <2>2, <3>1 DEF SizeInv, NoFreePair
    <3>. QED
      BY <3>2, <3>3, <3>4 DEF MallocInv
  <2>. QED
    BY <2>1, <2>7, <2>8, <2>9, AllocateCases
<1>. QED
  BY <1>8, <1>9

\* What free() does: |Z| is the block at each index from |first|, the one of the
\* block that is freed, to |last|, where it has no free buddy.
Merges(Z, first, last) ==
    /\ first \in Index /\ last \in first..MAX_INDEX
    /\ \A i \in first..MAX_INDEX : Z[i] \in Address
    /\ \A i \in first..(MAX_INDEX - 1) :
          Z[i + 1] = IF Z[i] <= Buddy(i, Z[i]) THEN Z[i] ELSE Buddy(i, Z[i])
    /\ \A i \in first..(last - 1) : Buddy(i, Z[i]) \in ToSet(fb_table[i])
    /\ last < MAX_INDEX => Buddy(last, Z[last]) \notin ToSet(fb_table[last])

\* The free lists then, and what is on them.
MergedLists(Z, first, last, new) ==
    new = [ i \in Index |-> IF i \in first..(last - 1) THEN RemoveFirst(fb_table[i], Buddy(i, Z[i]))
                            ELSE IF i = last THEN << Z[i] >> \o fb_table[i]
                            ELSE fb_table[i] ]

IsMerged(Z, first, last, new) ==
    \A i \in Index : ToSet(new[i]) = IF i \in first..(last - 1) THEN ToSet(fb_table[i]) \ { Buddy(i, Z[i]) }
                                     ELSE IF i = last THEN { Z[i] } \cup ToSet(fb_table[i])
                                     ELSE ToSet(fb_table[i])

\* A list holds what is at one of its places.
LEMMA ContainsIsMember ==
    ASSUME NEW S, NEW q \in Seq(S), NEW x
    PROVE  Contains(q, x) <=> x \in ToSet(q)
<1>1. DOMAIN q = 1..Len(q)
  BY LenProperties
<1>. QED
  BY <1>1 DEF Contains, ToSet

\* free() merges that way, whatever the place of heap.
LEMMA FreeMerges ==
    ASSUME MallocInv, NEW b \in live, Free(b)
    PROVE  \E Z : \E last \in Index :
              /\ Merges(Z, getindex(b.size), last) /\ Z[getindex(b.size)] = b.addr
              /\ MergedLists(Z, getindex(b.size), last, fb_table')
<1>. USE Constants
<1>1. /\ fb_table \in [ Index -> Seq(Address) ]
      /\ live \subseteq [ addr : Address, size : Address ]
      /\ TypeOK /\ BreakInv
  BY DEF MallocInv, TypeOK
<1>2. PICK first \in Index : first = getindex(b.size)
  BY DEF MallocInv, SizeInv
<1>3. PICK h \in Int : h = Heap(brk) /\ OnPages(h)
  BY <1>1, HeapPlace
<1>4. PICK Z : Z = MergedAt(b.addr, first, h)
  OBVIOUS
<1>5. PICK last : last = MergeEnd(Z, first, h)
  OBVIOUS
<1>6. fb_table' = [ i \in Index |->
             IF i \in first..(last - 1) THEN RemoveFirst(fb_table[i], getbuddy(i, Z[i], h))
             ELSE IF i = last THEN << Z[i] >> \o fb_table[i]
             ELSE fb_table[i] ]
  BY <1>2, <1>3, <1>4, <1>5 DEF Free
<1>7. b.addr \in Address
  BY <1>1
<1>8. /\ Z[first] = b.addr
      /\ \A i \in first..MAX_INDEX : Z[i] \in Address
      /\ \A i \in first..(MAX_INDEX - 1) : Z[i + 1] = Up(i, Z[i], h)
  BY <1>4, <1>7, MergedBlocks
<1>9. /\ last \in first..MAX_INDEX
      /\ ~CanMerge(last, getbuddy(last, Z[last], h))
      /\ \A j \in first..(last - 1) : CanMerge(j, getbuddy(j, Z[j], h))
  BY <1>5, MergeEnds
<1>10. ASSUME NEW i \in first..(MAX_INDEX - 1)
       PROVE  /\ i \in Index /\ i < MAX_INDEX /\ Z[i] \in Address
              /\ getbuddy(i, Z[i], h) = Buddy(i, Z[i])
  <2>1. i \in Index /\ i < MAX_INDEX /\ i \in first..MAX_INDEX
    BY DEF Index
  <2>2. PICK x \in Address : x = Z[i]
    BY <2>1, <1>8
  <2>3. x \in Int
    BY DEF Address
  <2>4. getbuddy(i, x, h) = Buddy(i, x)
    BY <2>1, <2>3, <1>3, BuddySame
  <2>. QED
    BY <2>1, <2>2, <2>4
<1>11. ASSUME NEW i \in first..(MAX_INDEX - 1)
       PROVE  Z[i + 1] = IF Z[i] <= Buddy(i, Z[i]) THEN Z[i] ELSE Buddy(i, Z[i])
  <2>1. PICK x \in Address : x = Z[i]
    BY <1>10
  <2>2. Up(i, x, h) = IF x <= getbuddy(i, x, h) THEN x ELSE getbuddy(i, x, h)
    BY <1>10, UpIsLower
  <2>. QED
    BY <2>1, <2>2, <1>8, <1>10
<1>12. ASSUME NEW i \in first..(MAX_INDEX - 1)
       PROVE  CanMerge(i, getbuddy(i, Z[i], h)) <=> Buddy(i, Z[i]) \in ToSet(fb_table[i])
  <2>1. PICK q \in Seq(Address), x \in { Buddy(i, Z[i]) } : q = fb_table[i]
    BY <1>1, <1>10
  <2>2. Contains(q, x) <=> x \in ToSet(q)
    BY ContainsIsMember
  <2>. QED
    BY <2>1, <2>2, <1>10 DEF CanMerge
<1>13. \A i \in first..(last - 1) : i \in first..(MAX_INDEX - 1)
  BY <1>9
<1>14. Merges(Z, first, last)
  <2>1. \A i \in first..(last - 1) : Buddy(i, Z[i]) \in ToSet(fb_table[i])
    BY <1>9, <1>12, <1>13
  <2>2. last < MAX_INDEX => Buddy(last, Z[last]) \notin ToSet(fb_table[last])
    <3>1. last < MAX_INDEX => last \in first..(MAX_INDEX - 1)
      BY <1>9
    <3>. QED
      BY <3>1, <1>9, <1>12
  <2>. QED
    BY <2>1, <2>2, <1>8, <1>9, <1>11 DEF Merges
<1>15. MergedLists(Z, first, last, fb_table')
  <2>1. \A i \in first..(last - 1) : getbuddy(i, Z[i], h) = Buddy(i, Z[i])
    BY <1>10, <1>13
  <2>2. [ i \in Index |->
             IF i \in first..(last - 1) THEN RemoveFirst(fb_table[i], getbuddy(i, Z[i], h))
             ELSE IF i = last THEN << Z[i] >> \o fb_table[i]
             ELSE fb_table[i] ]
        = [ i \in Index |->
             IF i \in first..(last - 1) THEN RemoveFirst(fb_table[i], Buddy(i, Z[i]))
             ELSE IF i = last THEN << Z[i] >> \o fb_table[i]
             ELSE fb_table[i] ]
    BY <2>1
  <2>. QED
    BY <1>6, <2>2 DEF MergedLists
<1>16. last \in Index
  BY <1>9 DEF Index
<1>. QED
  BY <1>2, <1>8, <1>14, <1>15, <1>16

\* The free lists after free(), and that there is still no free pair.
LEMMA MergedSets ==
    ASSUME fb_table \in [ Index -> Seq(Address) ], NEW Z, NEW first, NEW last \in Index, NEW new,
           Merges(Z, first, last), MergedLists(Z, first, last, new)
    PROVE  /\ new \in [ Index -> Seq(Address) ]
           /\ NoFreePair(fb_table) => NoFreePair(new)
           /\ AllInjective(fb_table) => IsMerged(Z, first, last, new)
           /\ AllInjective(fb_table) /\ Z[last] \notin ToSet(fb_table[last]) => AllInjective(new)
<1>. USE Constants
<1>1. \A i \in Index : new[i] = IF i \in first..(last - 1) THEN RemoveFirst(fb_table[i], Buddy(i, Z[i]))
                                ELSE IF i = last THEN << Z[i] >> \o fb_table[i]
                                ELSE fb_table[i]
  BY DEF MergedLists
<1>2. first \in Index /\ last \in first..MAX_INDEX /\ Z[last] \in Address
  BY DEF Merges
<1>3. last \notin first..(last - 1)
  BY <1>2
<1>4. ASSUME NEW i \in Index, i \in first..(last - 1)
      PROVE  /\ new[i] \in Seq(Address) /\ ToSet(new[i]) \subseteq ToSet(fb_table[i])
             /\ IsInjective(fb_table[i]) => /\ ToSet(new[i]) = ToSet(fb_table[i]) \ { Buddy(i, Z[i]) }
                                            /\ IsInjective(new[i])
  <2>1. PICK q \in Seq(Address), x \in { Buddy(i, Z[i]) } : q = fb_table[i] /\ new[i] = RemoveFirst(q, x)
    BY <1>1, <1>4
  <2>. QED
    BY <2>1, RemoveFirstSet
<1>5. /\ new[last] \in Seq(Address) /\ ToSet(new[last]) = { Z[last] } \cup ToSet(fb_table[last])
      /\ IsInjective(fb_table[last]) /\ Z[last] \notin ToSet(fb_table[last]) => IsInjective(new[last])
  <2>1. PICK q \in Seq(Address), x \in Address : q = fb_table[last] /\ x = Z[last] /\ new[last] = << x >> \o q
    BY <1>1, <1>2, <1>3
  <2>. QED
    BY <2>1, ConsSet
<1>6. ASSUME NEW i \in Index, i \notin first..(last - 1), i # last
      PROVE  new[i] = fb_table[i]
  BY <1>1, <1>6
<1>7. new \in [ Index -> Seq(Address) ]
  <2>1. new = [ i \in Index |-> new[i] ]
    BY DEF MergedLists
  <2>2. \A i \in Index : new[i] \in Seq(Address)
    BY <1>4, <1>5, <1>6
  <2>. QED
    BY <2>1, <2>2
<1>8. ASSUME NoFreePair(fb_table)
      PROVE  NoFreePair(new)
  <2>1. ASSUME NEW i \in Index, i < MAX_INDEX, NEW x \in ToSet(new[i])
        PROVE  Buddy(i, x) \notin ToSet(new[i])
    <3>1. \A y \in ToSet(fb_table[i]) : Buddy(i, y) \notin ToSet(fb_table[i])
      BY <1>8, <2>1 DEF NoFreePair
    <3>2. CASE i # last
      <4>1. ToSet(new[i]) \subseteq ToSet(fb_table[i])
        BY <3>2, <1>4, <1>6
      <4>. QED
        BY <4>1, <3>1
    <3>3. CASE i = last
      <4>1. PICK z \in Address : z = Z[last] /\ ToSet(new[i]) = { z } \cup ToSet(fb_table[i])
        BY <1>2, <1>5, <3>3
      <4>2. Buddy(i, z) \notin ToSet(fb_table[i])
        BY <2>1, <3>3, <4>1 DEF Merges
      <4>3. Buddy(i, z) # z
        BY <2>1, BuddyFlips
      <4>4. CASE x = z
        BY <4>1, <4>2, <4>3, <4>4
      <4>5. CASE x # z
        <5>1. x \in ToSet(fb_table[i]) /\ Buddy(i, x) \notin ToSet(fb_table[i])
          BY <4>1, <4>5, <2>1, <3>1
        <5>2. x \in Address
          <6>1. PICK q \in Seq(Address) : q = fb_table[i]
            OBVIOUS
          <6>2. \A k \in DOMAIN q : q[k] \in Address
            BY LenProperties, ElementOfSeq
          <6>. QED
            BY <5>1, <6>1, <6>2 DEF ToSet
        <5>3. Buddy(i, Buddy(i, x)) = x
          BY <2>1, <5>2, BuddyFlips
        <5>4. Buddy(i, x) # z
          BY <4>2, <5>1, <5>3
        <5>. QED
          BY <4>1, <5>1, <5>4
      <4>. QED
        BY <4>4, <4>5
    <3>. QED
      BY <3>2, <3>3
  <2>. QED
    BY <2>1 DEF NoFreePair
<1>9. AllInjective(fb_table) => IsMerged(Z, first, last, new)
  BY <1>3, <1>4, <1>5, <1>6 DEF AllInjective, IsMerged
<1>10. AllInjective(fb_table) /\ Z[last] \notin ToSet(fb_table[last]) => AllInjective(new)
  BY <1>3, <1>4, <1>5, <1>6 DEF AllInjective
<1>. QED
  BY <1>7, <1>8, <1>9, <1>10

\* free() keeps the invariant.
LEMMA FreeKeeps ==
    ASSUME MallocInv, NEW b \in live, Free(b)
    PROVE  MallocInv'
<1>0. PICK Z : \E last \in Index : /\ Merges(Z, getindex(b.size), last)
                                  /\ MergedLists(Z, getindex(b.size), last, fb_table')
  BY FreeMerges
<1>1. PICK last \in Index : /\ Merges(Z, getindex(b.size), last)
                           /\ MergedLists(Z, getindex(b.size), last, fb_table')
  BY <1>0
<1>2. fb_table \in [ Index -> Seq(Address) ] /\ NoFreePair(fb_table)
  BY DEF MallocInv, TypeOK
<1>3. PICK new, first : new = fb_table' /\ first = getindex(b.size)
  OBVIOUS
<1>4. new \in [ Index -> Seq(Address) ] /\ NoFreePair(new)
  BY <1>1, <1>2, <1>3, MergedSets
<1>5. /\ live' = live \ { b }
      /\ UNCHANGED << shared, brk, lib_brk, lib_heap, heap_size, hung >>
  BY DEF Free
<1>6. TypeOK'
  BY <1>3, <1>4, <1>5 DEF MallocInv, TypeOK
<1>7. IsFiniteSet(live')
  BY <1>5, FS_RemoveElement DEF MallocInv
<1>8. BreakInv' /\ SizeInv'
  BY <1>5 DEF MallocInv, BreakInv, SizeInv, OnPages
<1>9. NoFreePair(fb_table)'
  BY <1>3, <1>4 DEF NoFreePair
<1>. QED
  BY <1>6, <1>7, <1>8, <1>9 DEF MallocInv

\* The heap is empty at first.
LEMMA InitKeeps == Init => MallocInv
<1>. SUFFICES ASSUME Init PROVE MallocInv
  OBVIOUS
<1>. USE Constants
<1>1. TypeOK
  <2>1. \A i \in Index : fb_table[i] \in Seq(Address)
    BY EmptySeq DEF Init
  <2>2. fb_table \in [ Index -> Seq(Address) ]
    BY <2>1 DEF Init
  <2>3. live \subseteq [ addr : Address, size : Address ]
    BY DEF Init
  <2>4. brk \in Base..Limit /\ lib_brk \in Address /\ lib_heap \in Address /\ heap_size \in Nat
    BY DEF Init, Address, NULL
  <2>. QED
    BY <2>2, <2>3, <2>4 DEF Init, TypeOK
<1>2. IsFiniteSet(live)
  BY FS_EmptySet DEF Init
<1>3. BreakInv
  <2>1. 0 \in Int /\ Base = Base + 0 * PAGE_SIZE
    OBVIOUS
  <2>. QED
    BY <2>1 DEF Init, BreakInv, OnPages
<1>4. SizeInv
  BY DEF Init, SizeInv
<1>5. NoFreePair(fb_table)
  <2>1. \A i \in Index : ToSet(fb_table[i]) = {}
    BY DEF Init, ToSet
  <2>. QED
    BY <2>1 DEF NoFreePair
<1>. QED
  BY <1>1, <1>2, <1>3, <1>4, <1>5 DEF MallocInv

\* The invariant holds in every state.
LEMMA MallocInvariant == Spec => []MallocInv
<1>1. ASSUME MallocInv, [Next]_vars
      PROVE  MallocInv'
  <2>1. CASE \E n \in 1..2, size \in Requests : Calloc(n, size)
    BY <2>1, <1>1, CallocKeeps
  <2>2. CASE \E b \in live : Free(b)
    BY <2>2, <1>1, FreeKeeps
  <2>3. CASE UNCHANGED vars
    BY <2>3, <1>1 DEF vars, MallocInv, TypeOK, BreakInv, SizeInv, NoFreePair, OnPages
  <2>. QED
    BY <1>1, <2>1, <2>2, <2>3 DEF Next
<1>. QED
  BY <1>1, InitKeeps, PTL DEF Spec

\* "Obtain the free buddies while there is some" (malloc.c:171): two buddies are
\* never both free, in a heap of any size, wherever malloc.c believes that it is.
THEOREM BuddiesMerged == Spec => []FullyMerged
<1>1. ASSUME MallocInv PROVE FullyMerged
  <2>. USE Constants
  <2>1. TypeOK /\ BreakInv /\ NoFreePair(fb_table) /\ fb_table \in [ Index -> Seq(Address) ]
    BY <1>1 DEF MallocInv, TypeOK
  <2>2. PICK h \in Int : h = Heap(brk) /\ OnPages(h)
    BY <2>1, HeapPlace
  <2>3. ASSUME NEW i \in Index \ { MAX_INDEX }, NEW k \in 1..Len(fb_table[i])
        PROVE  ~Contains(fb_table[i], getbuddy(i, fb_table[i][k], h))
    <3>1. PICK q \in Seq(Address) : q = fb_table[i]
      BY <2>1
    <3>2. PICK x \in Address : x = q[k] /\ x \in ToSet(q)
      <4>1. q[k] \in Address /\ DOMAIN q = 1..Len(q)
        BY <3>1, <2>3, ElementOfSeq, LenProperties
      <4>. QED
        BY <4>1, <3>1, <2>3 DEF ToSet
    <3>3. i \in Index /\ i < MAX_INDEX /\ x \in Int
      BY DEF Address
    <3>4. getbuddy(i, x, h) = Buddy(i, x)
      BY <3>3, <2>2, BuddySame
    <3>5. Buddy(i, x) \notin ToSet(q)
      BY <3>1, <3>2, <3>3, <2>1 DEF NoFreePair
    <3>6. PICK y : y = Buddy(i, x)
      OBVIOUS
    <3>7. ~Contains(q, y)
      BY <3>5, <3>6, ContainsIsMember
    <3>. QED
      BY <3>1, <3>2, <3>4, <3>6, <3>7
  <2>. QED
    BY <2>2, <2>3 DEF FullyMerged
<1>. QED
  BY <1>1, MallocInvariant, PTL

-----------------------------------------------------------------------------
(* Blocks as sets of bytes.  A block is a pair: an address and an index.   *)

Bytes(c) == Extent(c[1], c[2])
Cover(B) == UNION { Bytes(c) : c \in B }
Separate(B) == \A c, d \in B : c # d => Bytes(c) \cap Bytes(d) = {}

\* The end of the heap: a number of pages from its base, none of which wraps.
EndOfPages(top) == top <= Range16 /\ \E m \in Nat : top = Base + m * PAGE_SIZE

\* A block at a multiple of its size, between the base of the heap and |top|.
InHeap(c, top) ==
    /\ c[2] \in Index
    /\ \E k \in Nat : c[1] = Base + k * 2^c[2]
    /\ c[1] + 2^c[2] <= top

\* A product with a positive factor is ordered as the other factor is.
LEMMA ProductOrder ==
    ASSUME NEW a \in Int, NEW b \in Int, NEW p \in Nat \ {0}
    PROVE  a <= b <=> a * p <= b * p
<1>1. ASSUME a <= b PROVE a * p <= b * p
  <2>1. PICK d \in Nat : b = a + d
    <3>1. b - a \in Nat /\ b = a + (b - a)
      BY <1>1
    <3>. QED
      BY <3>1
  <2>2. b * p = a * p + d * p /\ 0 <= d * p
    BY <2>1
  <2>. QED
    BY <2>2
<1>2. ASSUME ~(a <= b) PROVE ~(a * p <= b * p)
  <2>1. PICK d \in Nat : a = b + 1 + d
    <3>1. a - b - 1 \in Nat /\ a = b + 1 + (a - b - 1)
      BY <1>2
    <3>. QED
      BY <3>1
  <2>2. a * p = b * p + p + d * p /\ 0 <= d * p
    BY <2>1
  <2>. QED
    BY <2>2
<1>. QED
  BY <1>1, <1>2

\* A block in the heap is a pointer and has bytes.
LEMMA BlockBytes ==
    ASSUME NEW top, EndOfPages(top), NEW x, NEW i, InHeap(<< x, i >>, top)
    PROVE  /\ i \in Index /\ x \in Address /\ 2^i \in Nat \ {0} /\ Base <= x /\ x + 2^i <= top
           /\ Bytes(<< x, i >>) = x..(x + 2^i - 1) /\ x \in Bytes(<< x, i >>)
           /\ \A a \in Bytes(<< x, i >>) : a \in Nat /\ Base <= a /\ a < top
<1>. USE Constants
<1>1. i \in Index /\ (\E k \in Nat : x = Base + k * 2^i) /\ x + 2^i <= top
  BY DEF InHeap
<1>2. PICK p \in Nat \ {0} : p = 2^i
  BY <1>1, Powers
<1>3. PICK k \in Nat : x = Base + k * p
  BY <1>1, <1>2
<1>4. k * p \in Nat
  OBVIOUS
<1>5. x \in Nat /\ Base <= x /\ x + p <= top
  BY <1>1, <1>2, <1>3, <1>4
<1>6. top \in Nat /\ top <= Range16
  <2>1. PICK m \in Nat : top = Base + m * PAGE_SIZE
    BY DEF EndOfPages
  <2>2. m * PAGE_SIZE \in Nat
    OBVIOUS
  <2>. QED
    BY <2>1, <2>2 DEF EndOfPages
<1>7. Bytes(<< x, i >>) = x..(x + p - 1)
  BY <1>2 DEF Bytes, Extent
<1>8. x \in Address
  BY <1>5, <1>6 DEF Address
<1>. QED
  BY <1>1, <1>2, <1>5, <1>6, <1>7, <1>8

\* A block and its buddy are the two halves of a block of the next index.
LEMMA Halves ==
    ASSUME NEW top, EndOfPages(top), NEW i \in Index, i < MAX_INDEX, NEW x, InHeap(<< x, i >>, top),
           NEW y, y = Buddy(i, x), NEW l, l = IF x <= y THEN x ELSE y
    PROVE  /\ InHeap(<< y, i >>, top) /\ InHeap(<< l, i + 1 >>, top)
           /\ Bytes(<< l, i + 1 >>) = Bytes(<< x, i >>) \cup Bytes(<< y, i >>)
           /\ \/ y = x + 2^i /\ l = x
              \/ y = x - 2^i /\ l = y
<1>. USE Constants
<1>1. PICK p \in Nat \ {0}, e \in Nat \ {0}, d \in Nat \ {0} :
          p = 2^i /\ PAGE_SIZE = d * (2 * p) /\ Range16 = e * (2 * p)
  BY PairsFill
<1>2. x \in Address /\ x + p <= top /\ Bytes(<< x, i >>) = x..(x + p - 1)
  BY <1>1, BlockBytes
<1>3. PICK k \in Nat : x = Base + k * p
  BY <1>1 DEF InHeap
<1>4. i + 1 \in Index /\ i + 1 \in Nat /\ 2^(i + 1) = 2 * p
  <2>1. i \in Nat /\ i + 1 \in Index /\ i + 1 \in Nat
    BY DEF Index
  <2>. QED
    BY <2>1, <1>1, PowerDoubles
<1>5. PICK M \in Nat : top = Base + M * (2 * p) /\ top <= Range16
  <2>1. PICK m \in Nat : top = Base + m * PAGE_SIZE
    BY DEF EndOfPages
  <2>2. m * (d * (2 * p)) = (m * d) * (2 * p) /\ m * d \in Nat
    OBVIOUS
  <2>3. top = Base + (m * d) * (2 * p)
    BY <2>1, <2>2, <1>1
  <2>. QED
    BY <2>2, <2>3 DEF EndOfPages
<1>6. ((x - Base) \div p) = k
  <2>1. PICK u \in Int, t \in Int : u = 0 /\ t = k
    OBVIOUS
  <2>2. (u + t * p) \div p = (u \div p) + t
    BY DivShift
  <2>3. u \div p = 0
    BY <2>1
  <2>4. x - Base = u + t * p
    BY <2>1, <1>3
  <2>. QED
    BY <2>1, <2>2, <2>3, <2>4
<1>7. y = IF k % 2 = 0 THEN (x + p) % Range16 ELSE (x - p) % Range16
  BY <1>1, <1>6 DEF Buddy, getbuddy
<1>8. x \in Nat /\ x < Range16
  BY <1>2 DEF Address
<1>9. PICK T \in Nat : T = top /\ T <= Range16 /\ T = Base + M * (2 * p)
  <2>1. M * (2 * p) \in Nat
    OBVIOUS
  <2>. QED
    BY <1>5, <2>1
<1>10. CASE k % 2 = 0
  <2>1. PICK j \in Nat : k = 2 * j
    <3>1. k = 2 * (k \div 2) /\ k \div 2 \in Nat
      BY <1>10
    <3>. QED
      BY <3>1
  <2>2. x = Base + j * (2 * p) /\ j * (2 * p) = k * p
    BY <2>1, <1>3
  <2>3. j + 1 <= M
    <3>1. (k + 1) * p <= (2 * M) * p
      <4>1. (k + 1) * p = k * p + p /\ (2 * M) * p = M * (2 * p)
        OBVIOUS
      <4>. QED
        BY <4>1, <1>2, <1>3, <1>9
    <3>2. k + 1 <= 2 * M
      BY <3>1, ProductOrder
    <3>. QED
      BY <3>2, <2>1
  <2>4. x + 2 * p <= T
    <3>1. (j + 1) * (2 * p) <= M * (2 * p)
      <4>1. 2 * p \in Nat \ {0}
        OBVIOUS
      <4>. QED
        BY <2>3, <4>1, ProductOrder
    <3>2. (j + 1) * (2 * p) = j * (2 * p) + 2 * p
      OBVIOUS
    <3>. QED
      BY <3>1, <3>2, <2>2, <1>9
  <2>5. y = x + p
    <3>1. x + p \in 0..(Range16 - 1)
      BY <2>4, <1>8, <1>9
    <3>2. (x + p) % Range16 = x + p
      BY <3>1
    <3>. QED
      BY <3>2, <1>7, <1>10
  <2>6. l = x
    BY <2>5, <1>8
  <2>7. InHeap(<< y, i >>, top)
    <3>1. y = Base + (k + 1) * p /\ k + 1 \in Nat
      BY <2>5, <1>3
    <3>2. y + p <= top
      BY <2>4, <2>5, <1>8, <1>9
    <3>. QED
      BY <3>1, <3>2, <1>1 DEF InHeap
  <2>8. InHeap(<< l, i + 1 >>, top)
    <3>1. PICK n \in Index : n = i + 1 /\ 2^n = 2 * p
      BY <1>4
    <3>2. l = Base + j * 2^n /\ l + 2^n <= top
      BY <3>1, <2>2, <2>4, <2>6, <1>9
    <3>3. InHeap(<< l, n >>, top)
      BY <3>2 DEF InHeap
    <3>. QED
      BY <3>1, <3>3
  <2>9. Bytes(<< l, i + 1 >>) = x..(x + 2 * p - 1)
    <3>1. PICK n \in Index : n = i + 1 /\ 2^n = 2 * p
      BY <1>4
    <3>2. Bytes(<< l, n >>) = x..(x + 2 * p - 1)
      BY <3>1, <2>6 DEF Bytes, Extent
    <3>. QED
      BY <3>1, <3>2
  <2>10. Bytes(<< y, i >>) = (x + p)..(x + 2 * p - 1)
    <3>1. Bytes(<< y, i >>) = y..(y + p - 1)
      BY <1>1 DEF Bytes, Extent
    <3>. QED
      BY <3>1, <2>5, <1>8
  <2>11. x..(x + 2 * p - 1) = (x..(x + p - 1)) \cup ((x + p)..(x + 2 * p - 1))
    BY <1>8
  <2>. QED
    BY <2>5, <2>6, <2>7, <2>8, <2>9, <2>10, <2>11, <1>1, <1>2
<1>11. CASE k % 2 # 0
  <2>1. PICK j \in Nat : k = 2 * j + 1
    <3>1. k = 2 * (k \div 2) + 1 /\ k \div 2 \in Nat
      BY <1>11
    <3>. QED
      BY <3>1
  <2>2. x = Base + j * (2 * p) + p /\ j * (2 * p) \in Nat
    <3>1. k * p = j * (2 * p) + p
      BY <2>1
    <3>. QED
      BY <3>1, <1>3
  <2>3. y = x - p
    <3>1. x - p \in 0..(Range16 - 1)
      BY <2>2, <1>8
    <3>2. (x - p) % Range16 = x - p
      BY <3>1
    <3>. QED
      BY <3>2, <1>7, <1>11
  <2>4. l = y /\ y \in Nat /\ y = Base + j * (2 * p) /\ x = y + p
    BY <2>2, <2>3, <1>8
  <2>5. y + 2 * p <= T
    BY <2>4, <1>2, <1>9
  <2>6. InHeap(<< y, i >>, top)
    <3>1. y = Base + (2 * j) * p /\ 2 * j \in Nat
      BY <2>4
    <3>2. y + p <= top
      BY <2>4, <2>5, <1>9
    <3>. QED
      BY <3>1, <3>2, <1>1 DEF InHeap
  <2>7. InHeap(<< l, i + 1 >>, top)
    <3>1. PICK n \in Index : n = i + 1 /\ 2^n = 2 * p
      BY <1>4
    <3>2. l = Base + j * 2^n /\ l + 2^n <= top
      BY <3>1, <2>4, <2>5, <1>9
    <3>3. InHeap(<< l, n >>, top)
      BY <3>2 DEF InHeap
    <3>. QED
      BY <3>1, <3>3
  <2>8. Bytes(<< l, i + 1 >>) = y..(y + 2 * p - 1)
    <3>1. PICK n \in Index : n = i + 1 /\ 2^n = 2 * p
      BY <1>4
    <3>2. Bytes(<< l, n >>) = y..(y + 2 * p - 1)
      BY <3>1, <2>4 DEF Bytes, Extent
    <3>. QED
      BY <3>1, <3>2
  <2>9. Bytes(<< y, i >>) = y..(y + p - 1)
    BY <1>1 DEF Bytes, Extent
  <2>10. y..(y + 2 * p - 1) = (x..(x + p - 1)) \cup (y..(y + p - 1))
    BY <2>4
  <2>. QED
    BY <2>3, <2>4, <2>6, <2>7, <2>8, <2>9, <2>10, <1>1, <1>2
<1>. QED
  BY <1>10, <1>11

\* What malloc() cuts a block into: the one it returns and the buddies it sets free.
Pieces(zone, to, from) == { << zone, to >> } \cup { << Buddy(i, zone), i >> : i \in to..(from - 1) }

\* A block is also one of each lesser index, and its buddy there is behind it.
LEMMA CutDown ==
    ASSUME NEW top, EndOfPages(top), NEW zone, NEW from, InHeap(<< zone, from >>, top),
           NEW i \in Index, i <= from
    PROVE  /\ InHeap(<< zone, i >>, top)
           /\ i < from => Buddy(i, zone) = zone + 2^i /\ InHeap(<< Buddy(i, zone), i >>, top)
<1>. USE Constants
<1>1. from \in Index /\ zone \in Address /\ zone + 2^from <= top
  BY BlockBytes
<1>2. PICK k \in Nat : zone = Base + k * 2^from
  BY DEF InHeap
<1>3. top \in Int
  BY Constants DEF EndOfPages
<1>4. ASSUME NEW j \in Index, j <= from
      PROVE  InHeap(<< zone, j >>, top) /\ \E n \in Nat : zone = Base + n * 2^j
  <2>1. PICK m \in Nat \ {0} : 2^from = m * 2^j
    <3>1. j \in Nat /\ from \in Nat
      BY <1>1
    <3>. QED
      BY <3>1, <1>4, PowerDivides
  <2>2. PICK p \in Nat \ {0} : p = 2^j
    BY Powers
  <2>3. k * (m * p) = (k * m) * p /\ k * m \in Nat
    OBVIOUS
  <2>4. PICK n \in Nat : zone = Base + n * p
    BY <1>2, <2>1, <2>2, <2>3
  <2>5. p <= m * p
    OBVIOUS
  <2>6. PICK q \in Nat : q = 2^from /\ p <= q
    <3>1. m * p \in Nat
      OBVIOUS
    <3>. QED
      BY <2>1, <2>2, <2>5, <3>1
  <2>7. zone \in Nat
    BY <1>1 DEF Address
  <2>8. zone + p <= top
    BY <1>1, <1>3, <2>6, <2>7
  <2>. QED
    BY <2>2, <2>4, <2>8 DEF InHeap
<1>5. ASSUME i < from
      PROVE  Buddy(i, zone) = zone + 2^i /\ InHeap(<< Buddy(i, zone), i >>, top)
  <2>1. PICK y, l : y = Buddy(i, zone) /\ l = IF zone <= y THEN zone ELSE y
    OBVIOUS
  <2>2. i < MAX_INDEX /\ i \in Nat /\ i + 1 \in Index /\ i + 1 <= from
    BY <1>1, <1>5 DEF Index
  <2>3. InHeap(<< zone, i >>, top)
    BY <1>4
  <2>4. /\ InHeap(<< y, i >>, top) /\ InHeap(<< l, i + 1 >>, top)
        /\ \/ y = zone + 2^i /\ l = zone
           \/ y = zone - 2^i /\ l = y
    BY <2>1, <2>2, <2>3, Halves
  <2>5. PICK p \in Nat \ {0} : p = 2^i /\ 2^(i + 1) = 2 * p
    BY <2>2, Powers, PowerDoubles
  <2>6. PICK n \in Nat : zone = Base + n * (2 * p)
    <3>1. PICK j \in Index : j = i + 1 /\ j <= from
      BY <2>2
    <3>2. \E n \in Nat : zone = Base + n * 2^j
      BY <3>1, <1>4
    <3>. QED
      BY <3>1, <3>2, <2>5
  <2>7. PICK e \in Nat : l = Base + e * (2 * p)
    <3>1. PICK j \in Index : j = i + 1 /\ 2^j = 2 * p
      BY <2>2, <2>5
    <3>2. InHeap(<< l, j >>, top)
      BY <3>1, <2>4
    <3>3. \E e \in Nat : l = Base + e * 2^j
      BY <3>2 DEF InHeap
    <3>. QED
      BY <3>1, <3>3
  <2>8. ASSUME l = zone - p
        PROVE  FALSE
    <3>1. (2 * n) * p = n * (2 * p) /\ (2 * e + 1) * p = e * (2 * p) + p
      OBVIOUS
    <3>2. (2 * n) * p = (2 * e + 1) * p
      BY <3>1, <2>6, <2>7, <2>8
    <3>3. PICK a \in Int, c \in Int : a = 2 * n /\ c = 2 * e + 1
      OBVIOUS
    <3>4. a * p = c * p
      BY <3>2, <3>3
    <3>5. a <= c /\ c <= a
      <4>1. a * p <= c * p /\ c * p <= a * p
        BY <3>4
      <4>. QED
        BY <4>1, ProductOrder
    <3>. QED
      BY <3>3, <3>5
  <2>. QED
    BY <2>1, <2>4, <2>5, <2>8
<1>. QED
  BY <1>4, <1>5

\* The pieces of a block lie apart and make the block.
LEMMA SplitCover ==
    ASSUME NEW top, EndOfPages(top), NEW zone, NEW from, InHeap(<< zone, from >>, top),
           NEW to \in Index, to <= from
    PROVE  /\ \A c \in Pieces(zone, to, from) : InHeap(c, top)
           /\ Separate(Pieces(zone, to, from))
           /\ Cover(Pieces(zone, to, from)) = Bytes(<< zone, from >>)
<1>. USE Constants
<1>1. PICK f \in Index : f = from
  BY BlockBytes
<1>2. PICK z \in Nat : z = zone
  <2>1. zone \in Address
    BY BlockBytes
  <2>. QED
    BY <2>1 DEF Address
<1>3. ASSUME NEW i \in to..(f - 1)
      PROVE  /\ i \in Index /\ i \in Nat /\ Buddy(i, z) = z + 2^i /\ InHeap(<< Buddy(i, z), i >>, top)
             /\ 2^i \in Nat \ {0} /\ 2^(i + 1) = 2 * 2^i
             /\ Bytes(<< Buddy(i, z), i >>) = (z + 2^i)..(z + 2^(i + 1) - 1)
  <2>1. i \in Index /\ i <= from /\ i < from /\ i \in Nat
    BY <1>1 DEF Index
  <2>2. Buddy(i, z) = z + 2^i /\ InHeap(<< Buddy(i, z), i >>, top)
    BY <2>1, <1>2, CutDown
  <2>3. PICK p \in Nat \ {0} : p = 2^i /\ 2^(i + 1) = 2 * p
    BY <2>1, Powers, PowerDoubles
  <2>4. Bytes(<< z + p, i >>) = (z + p)..(z + p + p - 1)
    BY <2>3 DEF Bytes, Extent
  <2>5. z + p + p - 1 = z + 2 * p - 1
    OBVIOUS
  <2>6. Bytes(<< Buddy(i, z), i >>) = (z + p)..(z + 2 * p - 1)
    BY <2>2, <2>3, <2>4, <2>5
  <2>. QED
    BY <2>1, <2>2, <2>3, <2>6
<1>4. InHeap(<< z, to >>, top) /\ 2^to \in Nat \ {0} /\ Bytes(<< z, to >>) = z..(z + 2^to - 1)
  <2>1. InHeap(<< z, to >>, top)
    BY <1>2, CutDown
  <2>. QED
    BY <2>1, BlockBytes
<1>5. PICK N \in Nat : N = 2^f /\ Bytes(<< zone, from >>) = z..(z + N - 1)
  <2>1. 2^from \in Nat \ {0} /\ Bytes(<< zone, from >>) = zone..(zone + 2^from - 1)
    BY BlockBytes
  <2>. QED
    BY <2>1, <1>1, <1>2
<1>6. \A i, j \in Nat : i < j => 2 * 2^i <= 2^j /\ 2^i \in Nat /\ 2^j \in Nat
  BY Powers
<1>7. Pieces(zone, to, from) = { << z, to >> } \cup { << Buddy(i, z), i >> : i \in to..(f - 1) }
  BY <1>1, <1>2 DEF Pieces
<1>8. \A c \in Pieces(zone, to, from) : InHeap(c, top)
  BY <1>3, <1>4, <1>7
<1>9. ASSUME NEW i \in to..(f - 1)
      PROVE  Bytes(<< z, to >>) \cap Bytes(<< Buddy(i, z), i >>) = {}
  <2>1. 2^to <= 2^i
    <3>1. CASE to = i
      BY <3>1, <1>3
    <3>2. CASE to # i
      BY <3>2, <1>3, <1>4, <1>6
    <3>. QED
      BY <3>1, <3>2
  <2>2. PICK a \in Nat, b \in Nat, e \in Int : a = 2^to /\ b = 2^i /\ e = z + 2^(i + 1) - 1 /\ a <= b
    BY <2>1, <1>3, <1>4
  <2>3. Bytes(<< z, to >>) = z..(z + a - 1) /\ Bytes(<< Buddy(i, z), i >>) = (z + b)..e
    BY <2>2, <1>3, <1>4
  <2>4. (z..(z + a - 1)) \cap ((z + b)..e) = {}
    BY <2>2
  <2>. QED
    BY <2>3, <2>4
<1>10. ASSUME NEW i \in to..(f - 1), NEW j \in to..(f - 1), i < j
       PROVE  Bytes(<< Buddy(i, z), i >>) \cap Bytes(<< Buddy(j, z), j >>) = {}
  <2>1. PICK a \in Nat, b \in Nat, c \in Nat, e \in Int :
            a = 2^i /\ b = 2^(i + 1) /\ c = 2^j /\ e = z + 2^(j + 1) - 1 /\ b <= c
    BY <1>3, <1>6, <1>10
  <2>2. Bytes(<< Buddy(i, z), i >>) = (z + a)..(z + b - 1) /\ Bytes(<< Buddy(j, z), j >>) = (z + c)..e
    BY <2>1, <1>3
  <2>3. ((z + a)..(z + b - 1)) \cap ((z + c)..e) = {}
    BY <2>1
  <2>. QED
    BY <2>2, <2>3
<1>11. Separate(Pieces(zone, to, from))
  <2>1. ASSUME NEW c \in Pieces(zone, to, from), NEW d \in Pieces(zone, to, from), c # d
        PROVE  Bytes(c) \cap Bytes(d) = {}
    <3>1. CASE c = << z, to >>
      <4>1. PICK i \in to..(f - 1) : d = << Buddy(i, z), i >>
        BY <3>1, <2>1, <1>7
      <4>. QED
        BY <3>1, <4>1, <1>9
    <3>2. CASE d = << z, to >>
      <4>1. PICK i \in to..(f - 1) : c = << Buddy(i, z), i >>
        BY <3>2, <2>1, <1>7
      <4>. QED
        BY <3>2, <4>1, <1>9
    <3>3. CASE c # << z, to >> /\ d # << z, to >>
      <4>1. PICK i \in to..(f - 1), j \in to..(f - 1) : c = << Buddy(i, z), i >> /\ d = << Buddy(j, z), j >>
        BY <3>3, <1>7
      <4>2. i < j \/ j < i
        BY <4>1, <2>1, <1>3
      <4>. QED
        BY <4>1, <4>2, <1>10
    <3>. QED
      BY <3>1, <3>2, <3>3
  <2>. QED
    BY <2>1 DEF Separate
<1>12. ASSUME NEW a \in z..(z + N - 1)
       PROVE  a \in Cover(Pieces(zone, to, from))
  <2>. DEFINE S == { j \in to..f : a < z + 2^j }
  <2>1. f \in S
    BY <1>1, <1>5
  <2>2. PICK j \in S : \A k \in S : j <= k
    <3>1. S \in SUBSET Nat
      OBVIOUS
    <3>. QED
      BY <2>1, <3>1, LeastOfSet
  <2>3. j \in to..f /\ a < z + 2^j
    OBVIOUS
  <2>4. CASE j = to
    <3>1. a \in Bytes(<< z, to >>)
      BY <2>3, <2>4, <1>4
    <3>. QED
      BY <3>1, <1>7 DEF Cover
  <2>5. CASE j # to
    <3>1. PICK i \in to..(f - 1) : i + 1 = j /\ ~(j <= i) /\ i \in to..f
      <4>1. j - 1 \in to..(f - 1) /\ (j - 1) + 1 = j /\ ~(j <= j - 1) /\ j - 1 \in to..f
        BY <2>3, <2>5
      <4>. QED
        BY <4>1
    <3>2. ~(a < z + 2^i)
      BY <3>1, <2>2
    <3>3. PICK u \in Nat, v \in Nat : u = 2^i /\ v = 2^(i + 1) /\ v = 2^j
      <4>1. PICK u \in Nat : u = 2^i /\ 2^(i + 1) = 2 * u
        BY <1>3
      <4>2. PICK v \in Nat : v = 2 * u /\ v = 2^(i + 1)
        BY <4>1
      <4>3. v = 2^j
        BY <4>2, <3>1
      <4>. QED
        BY <4>1, <4>2, <4>3
    <3>4. a \in (z + u)..(z + v - 1)
      BY <3>2, <3>3, <2>3
    <3>5. a \in Bytes(<< Buddy(i, z), i >>)
      BY <3>3, <3>4, <1>3
    <3>. QED
      BY <3>5, <1>7 DEF Cover
  <2>. QED
    BY <2>4, <2>5
<1>13. ASSUME NEW c \in Pieces(zone, to, from), NEW a \in Bytes(c)
       PROVE  a \in z..(z + N - 1)
  <2>1. CASE c = << z, to >>
    <3>1. PICK u \in Nat : u = 2^to /\ u <= N
      <4>1. to = f \/ 2^to <= 2^f
        BY <1>1, <1>4, <1>6
      <4>. QED
        BY <4>1, <1>4, <1>5
    <3>2. a \in z..(z + u - 1)
      BY <2>1, <3>1, <1>4, <1>13
    <3>. QED
      BY <3>1, <3>2
  <2>2. CASE c # << z, to >>
    <3>1. PICK i \in to..(f - 1) : c = << Buddy(i, z), i >>
      BY <2>2, <1>7
    <3>2. PICK u \in Nat, v \in Nat : u = 2^i /\ v = 2^(i + 1) /\ v <= N
      <4>1. PICK u \in Nat : u = 2^i /\ 2^(i + 1) = 2 * u
        BY <1>3
      <4>2. PICK v \in Nat : v = 2 * u /\ v = 2^(i + 1)
        BY <4>1
      <4>3. i < f /\ i \in Nat /\ f \in Nat
        BY <1>3
      <4>4. 2 * 2^i <= 2^f
        BY <4>3, <1>6
      <4>. QED
        BY <4>1, <4>2, <4>4, <1>5
    <3>3. a \in (z + u)..(z + v - 1)
      BY <3>1, <3>2, <1>3, <1>13
    <3>. QED
      BY <3>2, <3>3
  <2>. QED
    BY <2>1, <2>2
<1>14. Cover(Pieces(zone, to, from)) = z..(z + N - 1)
  BY <1>12, <1>13 DEF Cover
<1>. QED
  BY <1>5, <1>8, <1>11, <1>14

\* The blocks |R| of |B| have the same bytes as the blocks |N|.
CanReplace(B, R, N) ==
    /\ R \subseteq B /\ Separate(B) /\ Separate(N) /\ Cover(N) = Cover(R)
    /\ \A c \in N : Bytes(c) # {}

\* Blocks are replaced by others of the same bytes: the rest is not touched.
LEMMA Replaced ==
    ASSUME NEW B, NEW R, NEW N, CanReplace(B, R, N)
    PROVE  /\ Separate((B \ R) \cup N) /\ Cover((B \ R) \cup N) = Cover(B)
           /\ N \cap (B \ R) = {}
<1>. /\ R \subseteq B /\ Separate(B) /\ Separate(N) /\ Cover(N) = Cover(R)
     /\ \A c \in N : Bytes(c) # {}
  BY DEF CanReplace
<1>1. ASSUME NEW c \in B \ R, NEW d \in N, NEW a, a \in Bytes(c), a \in Bytes(d)
      PROVE  FALSE
  <2>1. a \in Cover(R)
    BY <1>1 DEF Cover
  <2>2. PICK r \in R : a \in Bytes(r)
    BY <2>1 DEF Cover
  <2>3. r \in B /\ c \in B /\ r # c
    OBVIOUS
  <2>. QED
    BY <2>2, <2>3, <1>1 DEF Separate
<1>2. Separate((B \ R) \cup N)
  <2>1. ASSUME NEW c \in (B \ R) \cup N, NEW d \in (B \ R) \cup N, c # d
        PROVE  Bytes(c) \cap Bytes(d) = {}
    <3>1. CASE c \in B \ R /\ d \in B \ R
      BY <3>1, <2>1 DEF Separate
    <3>2. CASE c \in N /\ d \in N
      BY <3>2, <2>1 DEF Separate
    <3>3. CASE (c \in B \ R /\ d \in N) \/ (c \in N /\ d \in B \ R)
      BY <3>3, <1>1
    <3>. QED
      BY <3>1, <3>2, <3>3
  <2>. QED
    BY <2>1 DEF Separate
<1>3. Cover((B \ R) \cup N) = Cover(B)
  <2>1. Cover((B \ R) \cup N) = Cover(B \ R) \cup Cover(N)
    BY DEF Cover
  <2>2. Cover(B) = Cover(B \ R) \cup Cover(R)
    BY DEF Cover
  <2>. QED
    BY <2>1, <2>2
<1>4. N \cap (B \ R) = {}
  BY <1>1
<1>. QED
  BY <1>2, <1>3, <1>4

\* What free() merges: the block and its buddies below index |n|.
Taken(Z, first, n) == { << Z[first], first >> } \cup { << Buddy(j, Z[j]), j >> : j \in first..(n - 1) }

\* The merged block is made of the block that was freed and of the buddies.
LEMMA MergeCover ==
    ASSUME NEW top, EndOfPages(top), NEW Z, NEW first, NEW last, Merges(Z, first, last),
           InHeap(<< Z[first], first >>, top)
    PROVE  /\ InHeap(<< Z[last], last >>, top)
           /\ Cover(Taken(Z, first, last)) = Bytes(<< Z[last], last >>)
<1>. USE Constants
<1>1. first \in Index /\ last \in first..MAX_INDEX /\ first \in Nat /\ last \in Nat
  BY DEF Merges
<1>. DEFINE Whole(n) == /\ InHeap(<< Z[n], n >>, top)
                        /\ Cover(Taken(Z, first, n)) = Bytes(<< Z[n], n >>)
            P == { d \in Nat : first + d <= MAX_INDEX => Whole(first + d) }
<1>2. Whole(first)
  <2>1. Taken(Z, first, first) = { << Z[first], first >> }
    <3>1. first..(first - 1) = {}
      BY <1>1
    <3>. QED
      BY <3>1 DEF Taken
  <2>2. Cover(Taken(Z, first, first)) = Bytes(<< Z[first], first >>)
    BY <2>1 DEF Cover
  <2>. QED
    BY <2>2
<1>3. ASSUME NEW n \in first..(MAX_INDEX - 1), Whole(n)
      PROVE  Whole(n + 1)
  <2>1. n \in Index /\ n < MAX_INDEX /\ n \in Nat /\ first <= n
    BY <1>1 DEF Index
  <2>2. PICK x, y, l : x = Z[n] /\ y = Buddy(n, x) /\ l = Z[n + 1]
    OBVIOUS
  <2>3. l = IF x <= y THEN x ELSE y
    BY <2>2 DEF Merges
  <2>4. InHeap(<< x, n >>, top)
    BY <1>3, <2>2
  <2>5. InHeap(<< l, n + 1 >>, top) /\ Bytes(<< l, n + 1 >>) = Bytes(<< x, n >>) \cup Bytes(<< y, n >>)
    BY <2>1, <2>2, <2>3, <2>4, Halves
  <2>6. Taken(Z, first, n + 1) = Taken(Z, first, n) \cup { << y, n >> }
    <3>1. (n + 1) - 1 = n /\ first..n = (first..(n - 1)) \cup { n }
      BY <1>1, <2>1
    <3>2. { << Buddy(j, Z[j]), j >> : j \in first..n }
             = { << Buddy(j, Z[j]), j >> : j \in first..(n - 1) } \cup { << Buddy(n, Z[n]), n >> }
      BY <3>1
    <3>. QED
      BY <3>1, <3>2, <2>2 DEF Taken
  <2>7. Cover(Taken(Z, first, n + 1)) = Cover(Taken(Z, first, n)) \cup Bytes(<< y, n >>)
    BY <2>6 DEF Cover
  <2>. QED
    BY <2>2, <2>5, <2>7, <1>3
<1>. HIDE DEF Whole
<1>4. 0 \in P
  <2>1. first + 0 = first
    BY <1>1
  <2>. QED
    BY <2>1, <1>2
<1>5. ASSUME NEW d \in Nat, d \in P
      PROVE  d + 1 \in P
  <2>. SUFFICES ASSUME first + (d + 1) <= MAX_INDEX
                PROVE  Whole(first + (d + 1))
    OBVIOUS
  <2>1. PICK n \in first..(MAX_INDEX - 1) : n = first + d /\ n + 1 = first + (d + 1)
    BY <1>1
  <2>2. Whole(n)
    BY <2>1, <1>5
  <2>3. Whole(n + 1)
    BY <2>2, <1>3
  <2>. QED
    BY <2>1, <2>3
<1>6. \A d \in Nat : d \in P
  <2>. HIDE DEF P
  <2>. QED
    BY <1>4, <1>5, InductionOnSet
<1>7. PICK d \in Nat : first + d = last
  <2>1. last - first \in Nat /\ first + (last - first) = last
    BY <1>1
  <2>. QED
    BY <2>1
<1>8. Whole(last)
  <2>1. d \in P
    BY <1>6
  <2>2. first + d <= MAX_INDEX
    BY <1>1, <1>7
  <2>. QED
    BY <2>1, <2>2, <1>7
<1>. QED
  BY <1>8 DEF Whole

-----------------------------------------------------------------------------
(* The blocks tile the heap.                                               *)

FreeBlocks(fb) == { c \in Address \X Index : c[1] \in ToSet(fb[c[2]]) }
LiveBlocks(lv) == { << b.addr, getindex(b.size) >> : b \in lv }

\* The free blocks |F| and those in use |L| are apart and have |size| bytes, all of
\* them below |top|.
Tile(F, L, size, top) ==
    /\ \A c \in F \cup L : InHeap(c, top)
    /\ Separate(F \cup L) /\ F \cap L = {}
    /\ IsFiniteSet(Cover(F \cup L)) /\ Cardinality(Cover(F \cup L)) = size

\* No block is twice on a list or in use twice.
Once(fb, lv) ==
    /\ AllInjective(fb)
    /\ \A b, c \in lv : b.addr = c.addr => b = c

Tiled(fb, lv, size, top) == Tile(FreeBlocks(fb), LiveBlocks(lv), size, top) /\ Once(fb, lv)

\* A page from |top| on is added to the heap.
LEMMA PageAdded ==
    ASSUME NEW F, NEW L, NEW size, NEW top, NEW new, NEW zone,
           Tile(F, L, size, top), EndOfPages(top), EndOfPages(new), top <= zone,
           InHeap(<< zone, MAX_INDEX >>, new)
    PROVE  /\ Tile(F \cup { << zone, MAX_INDEX >> }, L, size + PAGE_SIZE, new)
           /\ << zone, MAX_INDEX >> \notin F \cup L
<1>. USE Constants
<1>. DEFINE g == << zone, MAX_INDEX >>
            B == F \cup L
<1>1. /\ zone \in Address /\ zone + PAGE_SIZE <= new
      /\ Bytes(g) = zone..(zone + PAGE_SIZE - 1) /\ zone \in Bytes(g)
  BY BlockBytes
<1>2. PICK z \in Nat, p \in Nat \ {0}, t \in Nat, n \in Nat : z = zone /\ p = PAGE_SIZE /\ t = top /\ n = new /\ t <= n
  <2>1. zone \in Nat
    BY <1>1 DEF Address
  <2>2. top \in Nat /\ new \in Nat
    <3>1. ASSUME NEW e, EndOfPages(e) PROVE e \in Nat
      <4>1. PICK m \in Nat : e = Base + m * PAGE_SIZE
        BY <3>1 DEF EndOfPages
      <4>2. m * PAGE_SIZE \in Nat
        OBVIOUS
      <4>. QED
        BY <4>1, <4>2
    <3>. QED
      BY <3>1
  <2>3. top <= new
    BY <2>1, <2>2, <1>1
  <2>. QED
    BY <2>1, <2>2, <2>3
<1>3. ASSUME NEW c \in B
      PROVE  InHeap(c, new) /\ (\A a \in Bytes(c) : a \in Nat /\ a < t) /\ Bytes(c) # {}
  <2>1. InHeap(c, top)
    BY DEF Tile
  <2>2. PICK x, i : x = c[1] /\ i = c[2]
    OBVIOUS
  <2>3. InHeap(<< x, i >>, top) /\ Bytes(c) = Bytes(<< x, i >>)
    BY <2>1, <2>2 DEF InHeap, Bytes
  <2>4. /\ x \in Address /\ 2^i \in Nat \ {0} /\ x + 2^i <= top /\ x \in Bytes(<< x, i >>)
        /\ \A a \in Bytes(<< x, i >>) : a \in Nat /\ Base <= a /\ a < top
    BY <2>3, BlockBytes
  <2>5. x + 2^i <= new
    <3>1. PICK u \in Nat, v \in Nat : u = x /\ v = 2^i
      BY <2>4 DEF Address
    <3>. QED
      BY <3>1, <2>4, <1>2
  <2>6. InHeap(c, new)
    BY <2>1, <2>2, <2>5 DEF InHeap
  <2>. QED
    BY <2>3, <2>4, <2>6, <1>2
<1>4. \A a \in Bytes(g) : a \in Nat /\ t <= a
  BY <1>1, <1>2
<1>5. g \notin B
  <2>. HIDE DEF g, B
  <2>. SUFFICES ASSUME g \in B PROVE FALSE
    OBVIOUS
  <2>1. zone \in Bytes(g) /\ zone \in Nat /\ zone < t
    BY <1>1, <1>3
  <2>2. t <= zone
    BY <2>1, <1>4
  <2>. QED
    BY <2>1, <2>2, <1>2
<1>6. Separate(B \cup { g })
  <2>1. ASSUME NEW c \in B
        PROVE  Bytes(c) \cap Bytes(g) = {}
    <3>. HIDE DEF g, B
    <3>1. ASSUME NEW a, a \in Bytes(c), a \in Bytes(g)
          PROVE  FALSE
      BY <3>1, <1>2, <1>3, <1>4
    <3>. QED
      BY <3>1
  <2>2. Separate(B)
    BY DEF Tile
  <2>. HIDE DEF g, B
  <2>. QED
    BY <2>1, <2>2 DEF Separate
<1>7. Cover(B \cup { g }) = Cover(B) \cup Bytes(g) /\ Cover(B) \cap Bytes(g) = {}
  <2>1. Cover(B) \cap Bytes(g) = {}
    BY <1>3, <1>4 DEF Cover
  <2>. HIDE DEF g, B
  <2>. QED
    BY <2>1 DEF Cover
<1>8. IsFiniteSet(Bytes(g)) /\ Cardinality(Bytes(g)) = p
  <2>1. PICK e \in Int : e = z + p - 1 /\ z <= e /\ e - z + 1 = p
    OBVIOUS
  <2>2. Bytes(g) = z..e
    BY <2>1, <1>1, <1>2
  <2>3. IsFiniteSet(z..e) /\ Cardinality(z..e) = IF z > e THEN 0 ELSE e - z + 1
    <3>. HIDE DEF g, B
    <3>1. z \in Int /\ e \in Int
      OBVIOUS
    <3>. QED
      BY <3>1, FS_Interval
  <2>. QED
    BY <2>1, <2>2, <2>3
<1>9. IsFiniteSet(Cover(B)) /\ Cardinality(Cover(B)) = size /\ Cardinality(Cover(B)) \in Nat
  BY FS_CardinalityType DEF Tile
<1>10. IsFiniteSet(Cover(B \cup { g })) /\ Cardinality(Cover(B \cup { g })) = size + p
  <2>1. /\ IsFiniteSet(Cover(B) \cup Bytes(g))
        /\ Cardinality(Cover(B) \cup Bytes(g)) =
              Cardinality(Cover(B)) + Cardinality(Bytes(g)) - Cardinality(Cover(B) \cap Bytes(g))
    BY <1>8, <1>9, FS_Union
  <2>2. Cardinality(Cover(B) \cap Bytes(g)) = 0
    BY <1>7, FS_EmptySet
  <2>. HIDE DEF g, B
  <2>3. PICK k \in Nat : k = Cardinality(Cover(B)) /\ k = size
    BY <1>9
  <2>4. Cardinality(Cover(B) \cup Bytes(g)) = k + p
    BY <2>1, <2>2, <2>3, <1>8
  <2>. QED
    BY <2>1, <2>3, <2>4, <1>7
<1>11. (F \cup { g }) \cup L = B \cup { g }
  OBVIOUS
<1>12. (F \cup { g }) \cap L = {}
  <2>1. F \cap L = {}
    BY DEF Tile
  <2>. HIDE DEF g
  <2>. QED
    BY <2>1, <1>5
<1>13. \A c \in B \cup { g } : InHeap(c, new)
  BY <1>3
<1>. HIDE DEF B
<1>14. Tile(F \cup { g }, L, size + p, new)
  <2>. HIDE DEF g
  <2>. QED
    BY <1>6, <1>10, <1>11, <1>12, <1>13 DEF Tile
<1>. QED
  BY <1>2, <1>5, <1>14 DEF B

\* A free block is an address on the list of its index.
LEMMA FreePair ==
    ASSUME NEW fb, NEW c \in FreeBlocks(fb)
    PROVE  \E x \in Address, i \in Index : c = << x, i >> /\ x \in ToSet(fb[i])
<1>1. c \in Address \X Index /\ c[1] \in ToSet(fb[c[2]])
  BY DEF FreeBlocks
<1>2. PICK x \in Address, i \in Index : c = << x, i >>
  BY <1>1
<1>3. c[1] = x /\ c[2] = i
  BY <1>2
<1>. QED
  BY <1>1, <1>2, <1>3

\* Blocks are pairs of an address and an index.
ArePairs(B) == \A c \in B : \E x \in Address, i \in Index : c = << x, i >>

\* So are the free ones.
LEMMA BlockPairs ==
    ASSUME NEW fb
    PROVE  ArePairs(FreeBlocks(fb))
<1>1. ASSUME NEW c \in FreeBlocks(fb)
      PROVE  \E x \in Address, i \in Index : c = << x, i >>
  BY FreePair
<1>. QED
  BY <1>1 DEF ArePairs

\* The bytes of a block of a heap that is tiled.
LEMMA TileBlock ==
    ASSUME NEW F, NEW L, NEW size, NEW top, Tile(F, L, size, top), EndOfPages(top),
           NEW x, NEW i, << x, i >> \in F \cup L
    PROVE  InHeap(<< x, i >>, top) /\ x \in Bytes(<< x, i >>) /\ x \in Address /\ i \in Index
<1>1. InHeap(<< x, i >>, top)
  BY DEF Tile
<1>. QED
  BY <1>1, BlockBytes

\* malloc() cuts a free block down and takes its first piece.
LEMMA BlockCut ==
    ASSUME NEW top, EndOfPages(top), NEW size, NEW F, NEW lv, Tile(F, LiveBlocks(lv), size, top),
           NEW zone, NEW from, << zone, from >> \in F,
           NEW fb, NEW to, NEW h, CanSplit(fb, zone, from, to, h),
           FreeBlocks(fb) = F \ { << zone, from >> }, Once(fb, lv),
           NEW new, new = Split(fb, zone, from, to, h),
           NEW r, r.addr = zone, getindex(r.size) = to
    PROVE  Tiled(new, lv \cup { r }, size, top)
<1>. USE Constants
<1>. DEFINE g == << zone, from >>
            k == << zone, to >>
            L == LiveBlocks(lv)
            B == F \cup L
            G == { << Buddy(i, zone), i >> : i \in to..(from - 1) }
            N == Pieces(zone, to, from)
<1>1. N = { k } \cup G /\ g \in B /\ g \notin L
  BY DEF Pieces, Tile
<1>2. to \in Index /\ from \in Index /\ to <= from /\ zone \in Address
      /\ fb \in [ Index -> Seq(Address) ] /\ \A i \in to..(from - 1) : fb[i] = << >>
  BY DEF CanSplit
<1>3. InHeap(g, top) /\ zone \in Bytes(g)
  <2>1. g \in F \cup LiveBlocks(lv)
    OBVIOUS
  <2>. QED
    BY <2>1, TileBlock
<1>4. (\A c \in N : InHeap(c, top)) /\ Separate(N) /\ Cover(N) = Bytes(g)
  <2>1. to \in Index /\ to <= from /\ InHeap(<< zone, from >>, top)
    BY <1>2, <1>3
  <2>. HIDE DEF L, B, G
  <2>2. /\ \A c \in Pieces(zone, to, from) : InHeap(c, top)
        /\ Separate(Pieces(zone, to, from))
        /\ Cover(Pieces(zone, to, from)) = Bytes(<< zone, from >>)
    BY <2>1, SplitCover
  <2>. QED
    BY <2>2
<1>5. Cover({ g }) = Bytes(g)
  <2>. HIDE DEF g
  <2>. QED
    BY DEF Cover
<1>6. ASSUME NEW c \in N
      PROVE  Bytes(c) # {}
  <2>1. PICK x, i : c = << x, i >>
    BY <1>1
  <2>2. InHeap(<< x, i >>, top)
    BY <2>1, <1>4
  <2>. QED
    BY <2>1, <2>2, BlockBytes
<1>7. Separate(B)
  BY DEF Tile
<1>8. /\ Separate((B \ { g }) \cup N) /\ Cover((B \ { g }) \cup N) = Cover(B)
      /\ N \cap (B \ { g }) = {}
  <2>1. PICK R : R = { g } /\ R \subseteq B /\ Cover(N) = Cover(R)
    BY <1>1, <1>4, <1>5
  <2>2. Separate((B \ R) \cup N) /\ Cover((B \ R) \cup N) = Cover(B) /\ N \cap (B \ R) = {}
    <3>. HIDE DEF N, B
    <3>1. CanReplace(B, R, N)
      BY <2>1, <1>4, <1>6, <1>7 DEF CanReplace
    <3>. QED
      BY <3>1, Replaced
  <2>. QED
    BY <2>1, <2>2
<1>9. /\ \A i \in Index : ToSet(new[i]) = IF i \in to..(from - 1) THEN { Buddy(i, zone) } ELSE ToSet(fb[i])
      /\ AllInjective(new)
  <2>1. AllInjective(fb)
    BY DEF Once
  <2>2. IsSplit(fb, new, zone, from, to) /\ (AllInjective(fb) => AllInjective(new))
    <3>. HIDE DEF g, k, L, B, G, N
    <3>. QED
      BY SplitLists
  <2>. QED
    BY <2>1, <2>2 DEF IsSplit
<1>10. ASSUME NEW i \in to..(from - 1)
       PROVE  i \in Index /\ Buddy(i, zone) \in Address /\ Buddy(i, zone) # zone /\ ToSet(fb[i]) = {}
  <2>1. i \in Index /\ i < MAX_INDEX
    <3>. HIDE DEF g, k, L, B, G, N
    <3>1. to \in MinIndex..MAX_INDEX /\ from \in MinIndex..MAX_INDEX
      BY <1>2 DEF Index
    <3>2. i \in MinIndex..MAX_INDEX /\ i < MAX_INDEX
      BY <3>1
    <3>. QED
      BY <3>2 DEF Index
  <2>2. fb[i] = << >>
    BY <1>2
  <2>. QED
    BY <2>1, <2>2, <1>2, BuddyFlips DEF ToSet
<1>11. FreeBlocks(new) = (F \ { g }) \cup G
  <2>1. ASSUME NEW c \in FreeBlocks(new)
        PROVE  c \in FreeBlocks(fb) \cup G
    <3>1. PICK x \in Address, i \in Index : c = << x, i >> /\ x \in ToSet(new[i])
      BY FreePair
    <3>2. CASE i \in to..(from - 1)
      <4>1. x = Buddy(i, zone)
        BY <3>1, <3>2, <1>9
      <4>. QED
        BY <3>1, <3>2, <4>1
    <3>3. CASE i \notin to..(from - 1)
      <4>1. x \in ToSet(fb[i])
        BY <3>1, <3>3, <1>9
      <4>2. << x, i >> \in FreeBlocks(fb)
        BY <4>1 DEF FreeBlocks
      <4>. QED
        BY <3>1, <4>2
    <3>. QED
      BY <3>2, <3>3
  <2>2. ASSUME NEW c \in FreeBlocks(fb)
        PROVE  c \in FreeBlocks(new)
    <3>1. PICK x \in Address, i \in Index : c = << x, i >> /\ x \in ToSet(fb[i])
      BY FreePair
    <3>2. i \notin to..(from - 1)
      BY <3>1, <1>10
    <3>3. x \in ToSet(new[i])
      BY <3>1, <3>2, <1>9
    <3>. QED
      BY <3>1, <3>3 DEF FreeBlocks
  <2>3. ASSUME NEW i \in to..(from - 1)
        PROVE  << Buddy(i, zone), i >> \in FreeBlocks(new)
    <3>1. Buddy(i, zone) \in ToSet(new[i])
      BY <1>9, <1>10
    <3>. QED
      BY <3>1, <1>10 DEF FreeBlocks
  <2>. QED
    BY <2>1, <2>2, <2>3
<1>12. LiveBlocks(lv \cup { r }) = L \cup { k }
  BY DEF LiveBlocks
<1>13. k \notin G
  BY <1>10
<1>14. F \cap L = {}
  BY DEF Tile
<1>15. FreeBlocks(new) \cup LiveBlocks(lv \cup { r }) = (B \ { g }) \cup N
  <2>. HIDE DEF L, G, N, k, g
  <2>. QED
    BY <1>1, <1>11, <1>12
<1>16. FreeBlocks(new) \cap LiveBlocks(lv \cup { r }) = {}
  <2>. HIDE DEF L, G, N, k, g
  <2>. QED
    BY <1>1, <1>8, <1>11, <1>12, <1>13, <1>14
<1>17. Tile(FreeBlocks(new), LiveBlocks(lv \cup { r }), size, top)
  <2>1. \A c \in (B \ { g }) \cup N : InHeap(c, top)
    BY <1>4 DEF Tile
  <2>2. IsFiniteSet(Cover(B)) /\ Cardinality(Cover(B)) = size
    BY DEF Tile
  <2>. HIDE DEF B, N, g
  <2>. QED
    BY <1>8, <1>15, <1>16, <2>1, <2>2 DEF Tile
<1>18. ASSUME NEW b \in lv
       PROVE  b.addr # zone
  <2>1. PICK x, i : x = b.addr /\ i = getindex(b.size)
    OBVIOUS
  <2>2. << x, i >> \in L
    BY <2>1 DEF LiveBlocks
  <2>3. x \in Bytes(<< x, i >>)
    BY <2>2, TileBlock
  <2>4. << x, i >> # g /\ << x, i >> \in B
    BY <2>2, <1>1
  <2>5. Bytes(<< x, i >>) \cap Bytes(g) = {}
    <3>. HIDE DEF g, B
    <3>. QED
      BY <2>4, <1>1, <1>7 DEF Separate
  <2>. QED
    BY <2>1, <2>3, <2>5, <1>3
<1>19. Once(new, lv \cup { r })
  <2>1. \A b, c \in lv : b.addr = c.addr => b = c
    BY DEF Once
  <2>. QED
    BY <2>1, <1>9, <1>18 DEF Once
<1>. QED
  BY <1>17, <1>19 DEF Tiled

\* free() merges a block with the free ones around it.
LEMMA BlockFreed ==
    ASSUME NEW top, EndOfPages(top), NEW size, fb_table \in [ Index -> Seq(Address) ],
           Tiled(fb_table, live, size, top),
           NEW b \in live, NEW Z, NEW first, NEW last \in Index, NEW new,
           first = getindex(b.size), Z[first] = b.addr,
           Merges(Z, first, last), MergedLists(Z, first, last, new)
    PROVE  Tiled(new, live \ { b }, size, top)
<1>. USE Constants
<1>. DEFINE g == << Z[first], first >>
            n == << Z[last], last >>
            F == FreeBlocks(fb_table)
            L == LiveBlocks(live)
            B == F \cup L
            G == { << Buddy(j, Z[j]), j >> : j \in first..(last - 1) }
            R == Taken(Z, first, last)
<1>1. Tile(F, L, size, top) /\ Once(fb_table, live)
  BY DEF Tiled
<1>2. Separate(B) /\ F \cap L = {} /\ IsFiniteSet(Cover(B)) /\ Cardinality(Cover(B)) = size
      /\ \A c \in B : InHeap(c, top)
  BY <1>1 DEF Tile
<1>3. first \in Index /\ last \in first..MAX_INDEX /\ Z[last] \in Address
  BY DEF Merges
<1>4. g \in L /\ g \notin F
  <2>1. g \in L
    BY DEF LiveBlocks
  <2>. HIDE DEF g, F, L
  <2>. QED
    BY <2>1, <1>2
<1>5. InHeap(g, top)
  <2>. HIDE DEF g, F, L
  <2>. QED
    BY <1>2, <1>4
<1>6. InHeap(n, top) /\ Cover(R) = Bytes(n)
  BY <1>5, MergeCover
<1>7. Z[last] \in Bytes(n)
  BY <1>6, BlockBytes
<1>8. R = { g } \cup G
  BY DEF Taken
<1>9. ASSUME NEW j \in first..(last - 1)
      PROVE  << Buddy(j, Z[j]), j >> \in F
  <2>1. j \in Index /\ j < MAX_INDEX /\ j \in first..MAX_INDEX
    <3>. HIDE DEF g, F, L, n, R, G
    <3>1. first \in MinIndex..MAX_INDEX /\ last \in first..MAX_INDEX
      BY <1>3 DEF Index
    <3>2. j \in MinIndex..MAX_INDEX /\ j < MAX_INDEX /\ j \in first..MAX_INDEX
      BY <3>1
    <3>. QED
      BY <3>2 DEF Index
  <2>2. PICK x \in Address : x = Z[j]
    BY <2>1 DEF Merges
  <2>3. Buddy(j, x) \in Address
    BY <2>1, BuddyFlips
  <2>4. Buddy(j, x) \in ToSet(fb_table[j])
    BY <2>2 DEF Merges
  <2>. QED
    BY <2>1, <2>2, <2>3, <2>4 DEF FreeBlocks
<1>10. G \subseteq F /\ R \subseteq B
  <2>1. G \subseteq F
    BY <1>9
  <2>. HIDE DEF g, F, L, G, R
  <2>. QED
    BY <2>1, <1>4, <1>8
<1>11. /\ Separate((B \ R) \cup { n }) /\ Cover((B \ R) \cup { n }) = Cover(B)
       /\ { n } \cap (B \ R) = {}
  <2>1. PICK N : N = { n }
    OBVIOUS
  <2>. HIDE DEF n, B, R
  <2>2. Separate(N) /\ Cover(N) = Bytes(n) /\ \A c \in N : Bytes(c) # {}
    BY <2>1, <1>7 DEF Separate, Cover
  <2>3. Separate((B \ R) \cup N) /\ Cover((B \ R) \cup N) = Cover(B) /\ N \cap (B \ R) = {}
    <3>1. CanReplace(B, R, N)
      BY <2>2, <1>2, <1>6, <1>10 DEF CanReplace
    <3>. QED
      BY <3>1, Replaced
  <2>. QED
    BY <2>1, <2>3
<1>12. n \notin G
  BY <1>3
<1>13. n \notin F
  <2>. HIDE DEF n, g, F, L, G, R
  <2>. QED
    BY <1>4, <1>8, <1>11, <1>12
<1>14. Z[last] \notin ToSet(fb_table[last])
  BY <1>3, <1>13 DEF FreeBlocks
<1>15. AllInjective(fb_table)
  BY <1>1 DEF Once
<1>16. /\ \A i \in Index : ToSet(new[i]) = IF i \in first..(last - 1) THEN ToSet(fb_table[i]) \ { Buddy(i, Z[i]) }
                                           ELSE IF i = last THEN { Z[i] } \cup ToSet(fb_table[i])
                                           ELSE ToSet(fb_table[i])
       /\ AllInjective(new)
  <2>. HIDE DEF n, g, F, L, B, G, R
  <2>1. /\ AllInjective(fb_table) => IsMerged(Z, first, last, new)
        /\ AllInjective(fb_table) /\ Z[last] \notin ToSet(fb_table[last]) => AllInjective(new)
    BY MergedSets
  <2>. QED
    BY <1>14, <1>15, <2>1 DEF IsMerged
<1>17. FreeBlocks(new) = (F \ G) \cup { n }
  <2>1. ASSUME NEW x \in Address, NEW i \in Index
        PROVE  << x, i >> \in FreeBlocks(new) <=> << x, i >> \in (F \ G) \cup { n }
    <3>1. << x, i >> \in FreeBlocks(new) <=> x \in ToSet(new[i])
      BY DEF FreeBlocks
    <3>2. << x, i >> \in F <=> x \in ToSet(fb_table[i])
      BY DEF FreeBlocks
    <3>3. << x, i >> \in G <=> i \in first..(last - 1) /\ x = Buddy(i, Z[i])
      OBVIOUS
    <3>4. << x, i >> = n <=> i = last /\ x = Z[last]
      OBVIOUS
    <3>5. last \notin first..(last - 1)
      BY <1>3
    <3>6. CASE i \in first..(last - 1)
      <4>1. ToSet(new[i]) = ToSet(fb_table[i]) \ { Buddy(i, Z[i]) }
        BY <3>6, <1>16
      <4>. HIDE DEF F, G, n
      <4>. QED
        BY <3>1, <3>2, <3>3, <3>4, <3>5, <3>6, <4>1
    <3>7. CASE i = last
      <4>1. ToSet(new[i]) = { Z[i] } \cup ToSet(fb_table[i])
        BY <3>5, <3>7, <1>16
      <4>. HIDE DEF F, G, n
      <4>. QED
        BY <3>1, <3>2, <3>3, <3>4, <3>5, <3>7, <4>1
    <3>8. CASE i \notin first..(last - 1) /\ i # last
      <4>1. ToSet(new[i]) = ToSet(fb_table[i])
        BY <3>8, <1>16
      <4>. HIDE DEF F, G, n
      <4>. QED
        BY <3>1, <3>2, <3>3, <3>4, <3>8, <4>1
    <3>. QED
      BY <3>6, <3>7, <3>8
  <2>2. \A c \in FreeBlocks(new) : \E x \in Address, i \in Index : c = << x, i >>
    <3>1. ArePairs(FreeBlocks(new))
      BY BlockPairs
    <3>. QED
      BY <3>1 DEF ArePairs
  <2>3. \A c \in (F \ G) \cup { n } : \E x \in Address, i \in Index : c = << x, i >>
    <3>1. ArePairs(F)
      BY BlockPairs
    <3>. HIDE DEF F, G
    <3>. QED
      BY <3>1, <1>3 DEF ArePairs
  <2>. HIDE DEF F, G, n
  <2>. QED
    BY <2>1, <2>2, <2>3
<1>18. LiveBlocks(live \ { b }) = L \ { g }
  <2>1. \A c \in live : c # b => c.addr # b.addr
    BY <1>1 DEF Once
  <2>. QED
    BY <2>1 DEF LiveBlocks
<1>19. FreeBlocks(new) \cup LiveBlocks(live \ { b }) = (B \ R) \cup { n }
  <2>. HIDE DEF n, g, F, L, G, R
  <2>. QED
    BY <1>2, <1>4, <1>8, <1>10, <1>17, <1>18
<1>20. FreeBlocks(new) \cap LiveBlocks(live \ { b }) = {}
  <2>. HIDE DEF n, g, F, L, G, R
  <2>. QED
    BY <1>2, <1>4, <1>8, <1>10, <1>11, <1>17, <1>18
<1>21. \A c \in (B \ R) \cup { n } : InHeap(c, top)
  <2>. HIDE DEF n, B, R
  <2>. QED
    BY <1>2, <1>6
<1>22. Tile(FreeBlocks(new), LiveBlocks(live \ { b }), size, top)
  <2>. HIDE DEF n, B, R
  <2>. QED
    BY <1>2, <1>11, <1>19, <1>20, <1>21 DEF Tile
<1>23. Once(new, live \ { b })
  BY <1>1, <1>16 DEF Once
<1>. QED
  BY <1>22, <1>23 DEF Tiled

\* The end of the pages that malloc.c lays out: in the kernel every page is taken
\* behind the break, which has moved already.
Top == IF shared THEN Base + 2 * heap_size ELSE Base + heap_size

\* The blocks tile the pages obtained, which end at the break in a program.
TileInv ==
    /\ brk = Base + heap_size /\ \E n \in Nat : heap_size = n * PAGE_SIZE
    /\ Tiled(fb_table, live, heap_size, Top)

\* The pages do not wrap.
LEMMA PagesEnd ==
    ASSUME MallocInv, TileInv, Unwrapped
    PROVE  EndOfPages(Top) /\ (~shared => Top = brk)
<1>. USE Constants
<1>1. PICK n \in Nat : heap_size = n * PAGE_SIZE
  BY DEF TileInv
<1>2. heap_size \in Nat /\ brk \in Base..Limit /\ brk = Base + heap_size /\ shared \in BOOLEAN
  BY DEF MallocInv, TypeOK, TileInv
<1>3. CASE shared
  <2>1. Top = Base + (2 * n) * PAGE_SIZE
    BY <1>1, <1>3 DEF Top
  <2>2. Top <= Range16
    BY <1>2, <1>3 DEF Top, Unwrapped
  <2>. QED
    BY <2>1, <2>2, <1>3 DEF EndOfPages
<1>4. CASE ~shared
  <2>1. Top = Base + n * PAGE_SIZE
    BY <1>1, <1>4 DEF Top
  <2>2. Top <= Range16 /\ Top = brk
    BY <1>2, <1>4 DEF Top
  <2>. QED
    BY <2>1, <2>2 DEF EndOfPages
<1>. QED
  BY <1>2, <1>3, <1>4

\* malloc() that finds a free block keeps the heap tiled.
LEMMA ListTiles ==
    ASSUME MallocInv, TileInv, Unwrapped, shared' = shared,
           NEW full \in Address, NEW i \in Index, FromList(full, i)
    PROVE  TileInv'
<1>. USE Constants
<1>1. /\ TypeOK /\ BreakInv /\ fb_table \in [ Index -> Seq(Address) ]
      /\ Tile(FreeBlocks(fb_table), LiveBlocks(live), heap_size, Top) /\ Once(fb_table, live)
  BY DEF MallocInv, TypeOK, TileInv, Tiled
<1>2. PICK h \in Int : h = Heap(brk) /\ OnPages(h)
  BY <1>1, HeapPlace
<1>3. PICK top : top = Top /\ EndOfPages(top)
  BY PagesEnd
<1>4. PICK index \in Nat : index = getindex(full) /\ MinIndex <= index
  BY IndexIsLeast DEF Address
<1>5. PICK q \in Seq(Address) : q = fb_table[i] /\ q # << >>
  BY <1>1 DEF FromList
<1>6. IsInjective(q)
  BY <1>1, <1>5 DEF Once, AllInjective
<1>7. /\ Head(q) \in Address /\ Tail(q) \in Seq(Address) /\ Head(q) \in ToSet(q)
      /\ ToSet(Tail(q)) = ToSet(q) \ { Head(q) } /\ IsInjective(Tail(q))
  BY <1>5, <1>6, TailSet
<1>8. PICK zone \in Address : zone = Head(q)
  BY <1>7
<1>9. PICK fb \in [ Index -> Seq(Address) ] : fb = [fb_table EXCEPT ![i] = Tail(@)]
  BY <1>1, <1>5, <1>7
<1>10. fb[i] = Tail(q) /\ \A j \in Index \ { i } : fb[j] = fb_table[j]
  BY <1>1, <1>5, <1>9
<1>11. CanSplit(fb, zone, i, index, h)
  <2>1. index <= i /\ \A j \in index..(i - 1) : fb_table[j] = << >>
    BY <1>4 DEF FromList
  <2>2. index \in Index /\ \A j \in index..(i - 1) : j \in Index \ { i }
    <3>1. i \in MinIndex..MAX_INDEX /\ index \in MinIndex..MAX_INDEX
      BY <2>1, <1>1, <1>4 DEF Index
    <3>2. \A j \in index..(i - 1) : j \in MinIndex..MAX_INDEX /\ j # i
      BY <3>1
    <3>. QED
      BY <3>1, <3>2 DEF Index
  <2>3. \A j \in index..(i - 1) : fb[j] = << >>
    BY <2>1, <2>2, <1>10
  <2>. QED
    BY <2>1, <2>2, <2>3, <1>2 DEF CanSplit
<1>12. << zone, i >> \in FreeBlocks(fb_table)
  BY <1>5, <1>7, <1>8 DEF FreeBlocks
<1>13. FreeBlocks(fb) = FreeBlocks(fb_table) \ { << zone, i >> }
  <2>1. ASSUME NEW x \in Address, NEW j \in Index
        PROVE  << x, j >> \in FreeBlocks(fb) <=> << x, j >> \in FreeBlocks(fb_table) \ { << zone, i >> }
    <3>1. << x, j >> \in FreeBlocks(fb) <=> x \in ToSet(fb[j])
      BY DEF FreeBlocks
    <3>2. << x, j >> \in FreeBlocks(fb_table) <=> x \in ToSet(fb_table[j])
      BY DEF FreeBlocks
    <3>3. CASE j = i
      BY <3>1, <3>2, <3>3, <1>5, <1>7, <1>8, <1>10
    <3>4. CASE j # i
      BY <3>1, <3>2, <3>4, <1>10
    <3>. QED
      BY <3>3, <3>4
  <2>2. ASSUME NEW c \in FreeBlocks(fb)
        PROVE  \E x \in Address, j \in Index : c = << x, j >>
    BY FreePair
  <2>3. ASSUME NEW c \in FreeBlocks(fb_table)
        PROVE  \E x \in Address, j \in Index : c = << x, j >>
    BY FreePair
  <2>. QED
    BY <2>1, <2>2, <2>3
<1>14. Once(fb, live)
  BY <1>1, <1>7, <1>10 DEF Once, AllInjective
<1>15. PICK new : new = fb_table' /\ new = Split(fb, zone, i, index, h)
  BY <1>2, <1>4, <1>5, <1>8, <1>9 DEF FromList
<1>16. PICK r : r.addr = zone /\ getindex(r.size) = index /\ live' = live \cup { r }
  <2>1. live' = live \cup { [ addr |-> zone, size |-> full ] }
    BY <1>5, <1>8 DEF FromList
  <2>. QED
    BY <2>1, <1>4
<1>17. PICK F, lv, size : F = FreeBlocks(fb_table) /\ lv = live /\ size = heap_size
  OBVIOUS
<1>18. Tiled(new, lv \cup { r }, size, top)
  BY <1>1, <1>3, <1>11, <1>12, <1>13, <1>14, <1>15, <1>16, <1>17, BlockCut
<1>19. brk' = brk /\ heap_size' = heap_size /\ Top' = Top
  BY DEF FromList, Top
<1>20. Tiled(fb_table', live', heap_size', Top')
  BY <1>3, <1>15, <1>16, <1>17, <1>18, <1>19
<1>. QED
  BY <1>19, <1>20 DEF TileInv, Tiled, Tile, Once

\* malloc() that gets a page keeps the heap tiled, unless that page wraps.
LEMMA PageTiles ==
    ASSUME BreakFits, MallocInv, TileInv, Unwrapped', shared' = shared,
           NEW full \in Address, NEW zone, FromPage(full, zone)
    PROVE  TileInv'
<1>. USE Constants
<1>1. /\ TypeOK /\ BreakInv /\ fb_table \in [ Index -> Seq(Address) ] /\ heap_size \in Nat
      /\ brk \in Base..Limit /\ brk = Base + heap_size /\ shared \in BOOLEAN
      /\ Tile(FreeBlocks(fb_table), LiveBlocks(live), heap_size, Top) /\ Once(fb_table, live)
  BY DEF MallocInv, TypeOK, TileInv, Tiled
<1>2. PICK p \in Nat \ {0} : p = PAGE_SIZE
  OBVIOUS
<1>3. PICK n \in Nat : heap_size = n * p
  BY <1>2 DEF TileInv
<1>4. brk + p < Range16
  <2>1. n \in 0..Limit
    <3>1. n <= n * p
      OBVIOUS
    <3>. QED
      BY <3>1, <1>1, <1>3
  <2>2. Base + n * p <= Limit
    BY <1>1, <1>3
  <2>3. Base + (n + 1) * p < Range16
    BY <2>1, <2>2, <1>2 DEF BreakFits
  <2>4. (n + 1) * p = n * p + p
    OBVIOUS
  <2>. QED
    BY <2>3, <2>4, <1>1, <1>3
<1>5. brk' = brk + p /\ brk' \in Base..Limit /\ OnPages(brk')
  <2>1. PICK new : new = brk' /\ new = heap_brk(SbrkEnd(PAGE_SIZE))
    BY DEF FromPage
  <2>2. ~SbrkFails(PAGE_SIZE)
    BY DEF FromPage
  <2>3. new \in Base..Limit /\ OnPages(new) /\ (brk + PAGE_SIZE < Range16 => new = brk + PAGE_SIZE)
    BY <2>1, <2>2, <1>1, SbrkMoves
  <2>. QED
    BY <2>1, <2>3, <1>2, <1>4
<1>6. heap_size' = heap_size + p /\ (shared => Base + 2 * (heap_size + p) <= Range16)
  <2>1. heap_size' = heap_size + p
    BY <1>2 DEF FromPage
  <2>2. shared => Base + 2 * heap_size' <= Range16
    BY DEF Unwrapped
  <2>. QED
    BY <2>1, <2>2
<1>7. PICK top : top = Top /\ EndOfPages(top)
  <2>1. Unwrapped
    BY <1>1, <1>6 DEF Unwrapped
  <2>. QED
    BY <2>1, PagesEnd
<1>8. PICK s \in Nat : heap_size' = s * PAGE_SIZE /\ s = n + 1
  <2>1. (n + 1) * p = n * p + p
    OBVIOUS
  <2>2. heap_size' = (n + 1) * PAGE_SIZE /\ n + 1 \in Nat
    BY <2>1, <1>2, <1>3, <1>6
  <2>. QED
    BY <2>2
<1>9. PICK h \in Int : h = Heap(brk') /\ OnPages(h) /\ h = IF shared THEN brk + p ELSE Base
  <2>1. /\ shared => \A b : Heap(b) = b
        /\ ~shared => (\A b : Heap(b) = Base)
        /\ OnPages(Heap(brk))
    BY <1>1, HeapPlace
  <2>2. CASE shared
    BY <2>1, <2>2, <1>1, <1>5
  <2>3. CASE ~shared
    BY <2>1, <2>3
  <2>. QED
    BY <2>2, <2>3
<1>10. zone = IF shared THEN Top + p ELSE Top
  <2>1. h + heap_size = IF shared THEN Top + p ELSE Top
    BY <1>1, <1>9 DEF Top
  <2>2. h + heap_size \in 0..(Range16 - 1)
    <3>1. CASE shared
      <4>1. h + heap_size = Base + 2 * (heap_size + p) - p
        BY <3>1, <1>1, <1>9
      <4>. QED
        BY <3>1, <4>1, <1>1, <1>6
    <3>2. CASE ~shared
      BY <3>2, <1>1, <1>9
    <3>. QED
      BY <3>1, <3>2
  <2>3. zone = (h + heap_size) % Range16
    BY <1>9 DEF FromPage
  <2>4. (h + heap_size) % Range16 = h + heap_size
    BY <2>2
  <2>. QED
    BY <2>1, <2>3, <2>4
<1>11. PICK end : end = Top' /\ end = (IF shared THEN Base + (2 * s) * PAGE_SIZE ELSE Base + s * PAGE_SIZE)
                  /\ end = zone + p /\ zone \in Nat /\ top <= zone /\ end <= Range16
  <2>1. Top \in Nat /\ Top' = (IF shared THEN Top + p + p ELSE Top + p)
    BY <1>1, <1>6 DEF Top
  <2>2. Top' = zone + p /\ zone \in Nat /\ Top <= zone
    BY <2>1, <1>10
  <2>3. CASE shared
    <3>1. Top' = Base + 2 * (heap_size + p)
      BY <2>3, <1>1, <1>6 DEF Top
    <3>2. Top' <= Range16
      BY <2>3, <3>1, <1>6
    <3>3. Top' = Base + (2 * s) * PAGE_SIZE
      <4>1. Top' = Base + 2 * (s * PAGE_SIZE)
        BY <2>3, <1>8 DEF Top
      <4>. QED
        BY <4>1
    <3>. QED
      BY <2>2, <2>3, <3>2, <3>3, <1>7
  <2>4. CASE ~shared
    <3>1. Top' = Base + s * PAGE_SIZE
      BY <2>4, <1>8 DEF Top
    <3>2. Top' <= Range16
      BY <2>4, <1>1, <1>5, <1>6 DEF Top
    <3>. QED
      BY <2>2, <2>4, <3>1, <3>2, <1>7
  <2>. QED
    BY <2>3, <2>4
<1>12. EndOfPages(end)
  <2>1. CASE shared
    <3>1. 2 * s \in Nat /\ end = Base + (2 * s) * PAGE_SIZE
      BY <2>1, <1>8, <1>11
    <3>. QED
      BY <3>1, <1>11 DEF EndOfPages
  <2>2. CASE ~shared
    BY <2>2, <1>8, <1>11 DEF EndOfPages
  <2>. QED
    BY <2>1, <2>2
<1>13. InHeap(<< zone, MAX_INDEX >>, end)
  <2>1. PICK k \in Nat : end = Base + k * p /\ k # 0
    <3>1. CASE shared
      <4>1. 2 * s \in Nat /\ 2 * s # 0
        BY <1>8
      <4>. QED
        BY <3>1, <4>1, <1>2, <1>11
    <3>2. CASE ~shared
      BY <3>2, <1>2, <1>8, <1>11
    <3>. QED
      BY <3>1, <3>2
  <2>2. PICK j \in Nat : k = j + 1
    <3>1. k - 1 \in Nat /\ k = (k - 1) + 1
      BY <2>1
    <3>. QED
      BY <3>1
  <2>3. k * p = j * p + p /\ j * p \in Nat
    BY <2>2
  <2>4. zone = Base + j * p
    BY <2>1, <2>3, <1>11
  <2>5. MAX_INDEX \in Index /\ p = 2^MAX_INDEX /\ zone + p <= end
    <3>1. end \in Nat
      BY <1>11
    <3>. QED
      BY <3>1, <1>2, <1>11 DEF Index
  <2>. QED
    BY <2>4, <2>5 DEF InHeap
<1>14. PICK g, F, L, lv, size : g = << zone, MAX_INDEX >> /\ F = FreeBlocks(fb_table) /\ lv = live
                                /\ L = LiveBlocks(lv) /\ size = heap_size
  OBVIOUS
<1>15. Tile(F \cup { g }, L, size + PAGE_SIZE, end) /\ g \notin F
  <2>1. Tile(F, L, size, top)
    BY <1>1, <1>7, <1>14
  <2>. QED
    BY <2>1, <1>7, <1>11, <1>12, <1>13, <1>14, PageAdded
<1>16. PICK index \in Nat : index = getindex(full) /\ MinIndex <= index
  BY IndexIsLeast DEF Address
<1>17. CanSplit(fb_table, zone, MAX_INDEX, index, h)
  <2>1. index <= MAX_INDEX /\ \A j \in index..MAX_INDEX : fb_table[j] = << >>
    BY <1>16 DEF FromPage
  <2>2. index \in Index /\ MAX_INDEX \in Index /\ \A j \in index..(MAX_INDEX - 1) : fb_table[j] = << >>
    BY <2>1, <1>16 DEF Index
  <2>3. zone \in Address
    BY <1>13, <1>12, BlockBytes
  <2>. QED
    BY <2>1, <2>2, <2>3, <1>1, <1>9 DEF CanSplit
<1>18. PICK fb, new : fb = fb_table /\ new = fb_table' /\ new = Split(fb, zone, MAX_INDEX, index, h)
  BY <1>9, <1>16 DEF FromPage
<1>19. PICK r : r.addr = zone /\ getindex(r.size) = index /\ live' = live \cup { r }
  <2>1. live' = live \cup { [ addr |-> zone, size |-> full ] }
    BY DEF FromPage
  <2>. QED
    BY <2>1, <1>16
<1>20. PICK E : E = F \cup { g }
  OBVIOUS
<1>21. FreeBlocks(fb) = E \ { g } /\ g \in E
  BY <1>14, <1>15, <1>18, <1>20
<1>22. PICK total : total = size + PAGE_SIZE
  OBVIOUS
<1>23. Tiled(new, lv \cup { r }, total, end)
  <2>1. Once(fb, lv) /\ CanSplit(fb, zone, MAX_INDEX, index, h) /\ Tile(E, LiveBlocks(lv), total, end)
    BY <1>1, <1>14, <1>15, <1>17, <1>18, <1>20, <1>22
  <2>2. << zone, MAX_INDEX >> \in E /\ FreeBlocks(fb) = E \ { << zone, MAX_INDEX >> }
    BY <1>14, <1>21
  <2>. QED
    BY <2>1, <2>2, <1>12, <1>18, <1>19, BlockCut
<1>24. Tiled(fb_table', live', heap_size', Top')
  BY <1>2, <1>6, <1>11, <1>14, <1>18, <1>19, <1>22, <1>23
<1>25. brk' = Base + heap_size'
  BY <1>1, <1>5, <1>6
<1>. QED
  BY <1>8, <1>24, <1>25 DEF TileInv, Tiled, Tile, Once

\* Before the first call there is no block.
LEMMA InitTiles == Init => TileInv
<1>. SUFFICES ASSUME Init PROVE TileInv
  OBVIOUS
<1>. USE Constants
<1>1. brk = Base + heap_size /\ \E n \in Nat : heap_size = n * PAGE_SIZE
  <2>1. 0 \in Nat /\ 0 = 0 * PAGE_SIZE /\ Base = Base + 0
    OBVIOUS
  <2>. QED
    BY <2>1 DEF Init
<1>2. \A i \in Index : fb_table[i] = << >>
  BY DEF Init
<1>3. FreeBlocks(fb_table) = {}
  <2>1. ToSet(<< >>) = {}
    BY DEF ToSet
  <2>2. ASSUME NEW c \in FreeBlocks(fb_table) PROVE FALSE
    <3>1. PICK x \in Address, i \in Index : x \in ToSet(fb_table[i])
      BY FreePair
    <3>. QED
      BY <2>1, <3>1, <1>2
  <2>. QED
    BY <2>2
<1>4. LiveBlocks(live) = {}
  BY DEF Init, LiveBlocks
<1>5. Cover({}) = {}
  BY DEF Cover
<1>6. Tile({}, {}, 0, Top)
  BY <1>5, FS_EmptySet DEF Tile, Separate
<1>7. Once(fb_table, live)
  BY <1>2 DEF Init, Once, AllInjective, IsInjective
<1>. QED
  BY <1>1, <1>3, <1>4, <1>6, <1>7 DEF TileInv, Tiled, Init

\* calloc() keeps the heap tiled, whatever it finds, unless its page wraps.
LEMMA CallocTiles ==
    ASSUME BreakFits, MallocInv, Unwrapped => TileInv, Unwrapped',
           NEW n \in 1..2, NEW size \in Requests, Calloc(n, size)
    PROVE  TileInv'
<1>. USE Constants
<1>1. PICK R \in Nat \ {0} : R = Range16
  OBVIOUS
<1>2. PICK asked \in Nat : asked = n * size
  <2>1. n * size \in Nat
    BY MallocAssumption
  <2>. QED
    BY <2>1
<1>3. PICK sz \in 0..(R - 1) : sz = asked % R
  BY <1>2
<1>4. PICK full \in Address : full = FullSize(sz)
  <2>1. (sz + Header) % R \in 0..(R - 1)
    OBVIOUS
  <2>. QED
    BY <2>1, <1>1 DEF FullSize, Address
<1>5. full = FullSize((n * size) % Range16)
  BY <1>1, <1>2, <1>3, <1>4
<1>6. ASSUME UNCHANGED << shared, brk, heap_size, fb_table, live >>
      PROVE  TileInv'
  <2>1. Unwrapped
    BY <1>6 DEF Unwrapped
  <2>. QED
    BY <2>1, <1>6 DEF TileInv, Tiled, Tile, Once, Top
<1>7. CASE ~getindex_ends(full)
  <2>1. UNCHANGED << shared, brk, heap_size, fb_table, live >>
    BY <1>5, <1>7 DEF Calloc
  <2>. QED
    BY <2>1, <1>6
<1>8. CASE getindex_ends(full)
  <2>1. Allocate(full) /\ shared' = shared
    BY <1>2, <1>5, <1>8 DEF Calloc
  <2>2. \/ \E i \in Index : FromList(full, i)
        \/ \E zone : FromPage(full, zone)
        \/ FromNone
    BY <2>1, AllocateCases
  <2>3. CASE \E i \in Index : FromList(full, i)
    <3>1. heap_size' = heap_size
      BY <2>3 DEF FromList
    <3>2. Unwrapped
      BY <2>1, <3>1 DEF Unwrapped
    <3>. QED
      BY <2>1, <2>3, <3>2, ListTiles
  <2>4. CASE \E zone : FromPage(full, zone)
    <3>1. heap_size' = heap_size + PAGE_SIZE /\ heap_size \in Nat
      BY <2>4 DEF FromPage, MallocInv, TypeOK
    <3>2. Unwrapped
      BY <2>1, <3>1 DEF Unwrapped
    <3>. QED
      BY <2>1, <2>4, <3>2, PageTiles
  <2>5. CASE FromNone
    BY <2>1, <2>5, <1>6 DEF FromNone
  <2>. QED
    BY <2>2, <2>3, <2>4, <2>5
<1>. QED
  BY <1>7, <1>8

\* free() keeps the heap tiled.
LEMMA FreeTiles ==
    ASSUME MallocInv, TileInv, Unwrapped, NEW b \in live, Free(b)
    PROVE  TileInv'
<1>0. PICK Z : \E last \in Index :
                  /\ Merges(Z, getindex(b.size), last) /\ Z[getindex(b.size)] = b.addr
                  /\ MergedLists(Z, getindex(b.size), last, fb_table')
  BY FreeMerges
<1>1. PICK last \in Index :
                  /\ Merges(Z, getindex(b.size), last) /\ Z[getindex(b.size)] = b.addr
                  /\ MergedLists(Z, getindex(b.size), last, fb_table')
  BY <1>0
<1>2. PICK new, first, top, size : new = fb_table' /\ first = getindex(b.size) /\ top = Top /\ size = heap_size
  OBVIOUS
<1>3. EndOfPages(top) /\ fb_table \in [ Index -> Seq(Address) ] /\ Tiled(fb_table, live, size, top)
  BY <1>2, PagesEnd DEF MallocInv, TypeOK, TileInv
<1>4. Tiled(new, live \ { b }, size, top)
  BY <1>1, <1>2, <1>3, BlockFreed
<1>5. live' = live \ { b } /\ UNCHANGED << shared, brk, heap_size >>
  BY DEF Free
<1>6. Top' = Top
  BY <1>5 DEF Top
<1>7. Tiled(fb_table', live', heap_size', Top')
  BY <1>2, <1>4, <1>5, <1>6
<1>8. brk' = Base + heap_size' /\ \E n \in Nat : heap_size' = n * PAGE_SIZE
  BY <1>5 DEF TileInv
<1>. QED
  BY <1>7, <1>8 DEF TileInv, Tiled, Tile, Once

\* The invariant of the allocator: the blocks tile the heap until the pages that
\* malloc.c lays out wrap.
HeapInv == MallocInv /\ (Unwrapped => TileInv)

\* Every call keeps the invariant.
LEMMA HeapInvariant ==
    ASSUME BreakFits
    PROVE  Spec => []HeapInv
<1>1. Init => HeapInv
  BY InitKeeps, InitTiles DEF HeapInv
<1>2. ASSUME HeapInv, [Next]_vars
      PROVE  HeapInv'
  <2>1. MallocInv /\ (Unwrapped => TileInv)
    BY <1>2 DEF HeapInv
  <2>2. ASSUME NEW n \in 1..2, NEW size \in Requests, Calloc(n, size)
        PROVE  HeapInv'
    <3>1. MallocInv'
      BY <2>1, <2>2, CallocKeeps
    <3>2. ASSUME Unwrapped' PROVE TileInv'
      BY <2>1, <2>2, <3>2, CallocTiles
    <3>. QED
      BY <3>1, <3>2 DEF HeapInv
  <2>3. ASSUME NEW b \in live, Free(b)
        PROVE  HeapInv'
    <3>1. Unwrapped' => Unwrapped
      BY <2>3 DEF Free, Unwrapped
    <3>2. MallocInv'
      BY <2>1, <2>3, FreeKeeps
    <3>3. ASSUME Unwrapped' PROVE TileInv'
      BY <2>1, <2>3, <3>1, <3>3, FreeTiles
    <3>. QED
      BY <3>2, <3>3 DEF HeapInv
  <2>4. CASE UNCHANGED vars
    <3>1. MallocInv'
      BY <2>1, <2>4 DEF vars, MallocInv, TypeOK, BreakInv, SizeInv, NoFreePair, OnPages
    <3>2. TileInv => TileInv'
      BY <2>4 DEF vars, TileInv, Tiled, Tile, Once, Top
    <3>3. Unwrapped' => Unwrapped
      BY <2>4 DEF vars, Unwrapped
    <3>. QED
      BY <2>1, <3>1, <3>2, <3>3 DEF HeapInv
  <2>. QED
    BY <1>2, <2>2, <2>3, <2>4 DEF Next
<1>. QED
  BY <1>1, <1>2, PTL DEF Spec

Extents(B) == { Bytes(c) : c \in B }

\* The bytes of the blocks, block by block, are the extents that the property is
\* about.
LEMMA ExtentsAreBlocks ==
    ASSUME fb_table \in [ Index -> Seq(Address) ]
    PROVE  LiveExtents = Extents(LiveBlocks(live)) /\ FreeExtents = Extents(FreeBlocks(fb_table))
<1>1. \A x, i : Bytes(<< x, i >>) = Extent(x, i)
  BY DEF Bytes
<1>2. LiveExtents = Extents(LiveBlocks(live))
  BY <1>1 DEF LiveExtents, LiveBlocks, Extents
<1>3. ASSUME NEW e \in FreeExtents
      PROVE  \E c \in FreeBlocks(fb_table) : e = Bytes(c)
  <2>1. PICK i \in Index : e \in { Extent(fb_table[i][k], i) : k \in 1..Len(fb_table[i]) }
    BY DEF FreeExtents
  <2>2. PICK q \in Seq(Address) : q = fb_table[i]
    OBVIOUS
  <2>3. PICK k \in 1..Len(q) : e = Extent(q[k], i)
    BY <2>1, <2>2
  <2>4. q[k] \in Address /\ q[k] \in ToSet(q)
    <3>1. q[k] \in Address /\ DOMAIN q = 1..Len(q)
      BY ElementOfSeq, LenProperties
    <3>. QED
      BY <3>1 DEF ToSet
  <2>5. PICK x \in Address : x = q[k]
    BY <2>4
  <2>6. << x, i >> \in FreeBlocks(fb_table)
    BY <2>2, <2>4, <2>5 DEF FreeBlocks
  <2>. QED
    BY <2>3, <2>5, <2>6, <1>1
<1>4. ASSUME NEW c \in FreeBlocks(fb_table)
      PROVE  Bytes(c) \in FreeExtents
  <2>1. PICK x \in Address, i \in Index : c = << x, i >> /\ x \in ToSet(fb_table[i])
    BY FreePair
  <2>2. PICK q \in Seq(Address) : q = fb_table[i]
    OBVIOUS
  <2>3. PICK k \in 1..Len(q) : x = q[k]
    <3>1. DOMAIN q = 1..Len(q)
      BY LenProperties
    <3>. QED
      BY <3>1, <2>1, <2>2 DEF ToSet
  <2>4. Bytes(c) = Extent(fb_table[i][k], i) /\ k \in 1..Len(fb_table[i])
    BY <2>1, <2>2, <2>3, <1>1
  <2>. QED
    BY <2>4 DEF FreeExtents
<1>. QED
  BY <1>2, <1>3, <1>4 DEF Extents

\* Blocks |F| that are free and those of |lv| are apart and none of them is empty.
AllApart(F, lv) ==
    /\ IsFiniteSet(lv) /\ IsFiniteSet(Cover(F \cup LiveBlocks(lv)))
    /\ Separate(F \cup LiveBlocks(lv)) /\ F \cap LiveBlocks(lv) = {}
    /\ \A c \in F \cup LiveBlocks(lv) : Bytes(c) # {}
    /\ \A b, c \in lv : b.addr = c.addr => b = c

\* Such blocks have as many extents as there are blocks in use and free extents.
LEMMA ExtentsCount ==
    ASSUME NEW F, NEW lv, AllApart(F, lv)
    PROVE  Cardinality(Extents(LiveBlocks(lv)) \cup Extents(F)) = Cardinality(lv) + Cardinality(Extents(F))
<1>. DEFINE L == LiveBlocks(lv)
            X == Extents(L)
            Y == Extents(F)
            C == Cover(F \cup L)
            at(b) == << b.addr, getindex(b.size) >>
            f == [ b \in lv |-> Bytes(at(b)) ]
<1>0. /\ IsFiniteSet(lv) /\ IsFiniteSet(C) /\ Separate(F \cup L) /\ F \cap L = {}
      /\ \A c \in F \cup L : Bytes(c) # {}
      /\ \A b, c \in lv : b.addr = c.addr => b = c
  BY DEF AllApart
<1>1. \A b \in lv : at(b) \in L
  BY DEF LiveBlocks
<1>2. \A b, c \in lv : at(b) = at(c) => b = c
  BY <1>0
<1>3. \A x \in X : \E b \in lv : x = Bytes(at(b))
  BY DEF LiveBlocks, Extents
<1>4. ASSUME NEW c \in F \cup L, NEW d \in F \cup L, Bytes(c) = Bytes(d)
      PROVE  c = d
  <2>. HIDE DEF L
  <2>1. Bytes(c) # {}
    BY <1>0
  <2>. QED
    BY <2>1, <1>0, <1>4 DEF Separate
<1>5. ExistsBijection(lv, X)
  <2>. HIDE DEF at, L, C
  <2>1. f \in [ lv -> X ]
    BY <1>1 DEF Extents
  <2>2. \A b, c \in lv : f[b] = f[c] => b = c
    BY <1>1, <1>2, <1>4
  <2>3. \A x \in X : \E b \in lv : f[b] = x
    BY <1>3
  <2>. HIDE DEF f
  <2>4. f \in Bijection(lv, X)
    BY <2>1, <2>2, <2>3 DEF Bijection, Injection, Surjection, IsInjective
  <2>. QED
    BY <2>4 DEF ExistsBijection
<1>6. IsFiniteSet(X) /\ Cardinality(X) = Cardinality(lv)
  BY <1>0, <1>5, FS_Bijection
<1>7. IsFiniteSet(Y)
  <2>1. Y \in SUBSET (SUBSET C)
    <3>. HIDE DEF L
    <3>. QED
      BY DEF Cover, Extents
  <2>2. IsFiniteSet(SUBSET C)
    BY <1>0, FS_SUBSET
  <2>. HIDE DEF C
  <2>. QED
    BY <2>1, <2>2, FS_Subset
<1>8. X \cap Y = {}
  <2>1. ASSUME NEW c \in L, NEW d \in F, Bytes(c) = Bytes(d)
        PROVE  FALSE
    <3>. HIDE DEF L
    <3>1. c = d
      BY <2>1, <1>4
    <3>. QED
      BY <3>1, <1>0
  <2>. HIDE DEF L
  <2>. QED
    BY <2>1 DEF Extents
<1>. HIDE DEF X, Y, L
<1>9. Cardinality(X \cup Y) = Cardinality(X) + Cardinality(Y) - Cardinality(X \cap Y)
  BY <1>6, <1>7, FS_Union
<1>10. Cardinality(X \cap Y) = 0
  BY <1>8, FS_EmptySet
<1>11. Cardinality(X) \in Nat /\ Cardinality(Y) \in Nat
  BY <1>6, <1>7, FS_CardinalityType
<1>12. PICK m \in Nat, k \in Nat : m = Cardinality(X) /\ k = Cardinality(Y)
  BY <1>11
<1>. QED
  BY <1>6, <1>9, <1>10, <1>12 DEF X, Y, L

\* A heap that is tiled is sound.
LEMMA TiledHeap ==
    ASSUME MallocInv, TileInv, Unwrapped
    PROVE  HeapSound
<1>. USE Constants
<1>1. /\ TypeOK /\ fb_table \in [ Index -> Seq(Address) ] /\ IsFiniteSet(live)
      /\ brk \in Base..Limit
  BY DEF MallocInv, TypeOK
<1>2. PICK F, lv, top, size : F = FreeBlocks(fb_table) /\ lv = live /\ top = Top /\ size = heap_size
  OBVIOUS
<1>3. EndOfPages(top) /\ (~shared => top = brk)
  BY <1>2, PagesEnd
<1>. DEFINE L == LiveBlocks(lv)
            B == F \cup L
<1>4. /\ \A c \in B : InHeap(c, top)
      /\ Separate(B) /\ F \cap L = {}
      /\ IsFiniteSet(Cover(B)) /\ Cardinality(Cover(B)) = size
      /\ AllInjective(fb_table)
      /\ \A b, c \in lv : b.addr = c.addr => b = c
  BY <1>2 DEF TileInv, Tiled, Tile, Once
<1>5. ASSUME NEW c \in B
      PROVE  Bytes(c) # {} /\ \A a \in Bytes(c) : a \in Nat /\ Base <= a /\ a < top
  <2>1. PICK x, i : c = << x, i >>
    <3>1. ASSUME NEW d \in FreeBlocks(fb_table) PROVE \E x, i : d = << x, i >>
      BY FreePair
    <3>2. ASSUME NEW d \in L PROVE \E x, i : d = << x, i >>
      BY DEF LiveBlocks
    <3>. QED
      BY <3>1, <3>2, <1>2
  <2>2. InHeap(<< x, i >>, top)
    BY <2>1, <1>4
  <2>. QED
    BY <2>1, <2>2, <1>3, BlockBytes
<1>6. PICK X, Y : /\ X = LiveExtents /\ X = Extents(L)
                  /\ Y = FreeExtents /\ Y = Extents(F)
  BY <1>1, <1>2, ExtentsAreBlocks
<1>7. Cardinality(X \cup Y) = Cardinality(lv) + Cardinality(Y)
  <2>1. \A c \in F \cup LiveBlocks(lv) : Bytes(c) # {}
    BY <1>5
  <2>2. AllApart(F, lv)
    BY <2>1, <1>1, <1>2, <1>4 DEF AllApart
  <2>. QED
    BY <2>2, <1>6, ExtentsCount
<1>. HIDE DEF L
<1>8. X \cup Y = { Bytes(c) : c \in B }
  BY <1>6 DEF Extents
<1>9. \A x, y \in X \cup Y : x # y => x \cap y = {}
  BY <1>4, <1>8 DEF Separate
<1>10. UNION (X \cup Y) = Cover(B)
  BY <1>8 DEF Cover
<1>11. BlocksTile
  BY <1>2, <1>4, <1>6, <1>7, <1>9, <1>10 DEF BlocksTile, AllInjective
<1>12. OwnHeapBelowLimit
  <2>1. ASSUME ~shared, NEW x \in X \cup Y, NEW a \in x
        PROVE  Base <= a /\ a < Limit
    <3>1. PICK c \in B : x = Bytes(c)
      BY <1>8
    <3>2. a \in Nat /\ Base <= a /\ a < top
      BY <3>1, <1>5
    <3>3. top \in Nat /\ top <= Limit
      BY <2>1, <1>1, <1>3
    <3>. QED
      BY <3>2, <3>3
  <2>. QED
    BY <2>1, <1>6 DEF OwnHeapBelowLimit, BelowLimit
<1>. QED
  BY <1>1, <1>11, <1>12 DEF HeapSound

\* Whatever the order of the calls of malloc(), calloc() and free() and whatever the
\* sizes, the blocks of the free lists and those in use tile the pages obtained
\* (malloc.c:57-185), the break stays within the heap (heap.c:25-38) and in a
\* program so does every block.  In the kernel, which takes its pages behind the
\* break that has moved already, the blocks tile them until a page wraps, wherever
\* the heap begins and ends.
THEOREM HeapStaysSound ==
    ASSUME BreakFits
    PROVE  Spec => []HeapSound
<1>1. ASSUME HeapInv PROVE HeapSound
  <2>1. MallocInv /\ (Unwrapped => TileInv)
    BY <1>1 DEF HeapInv
  <2>2. CASE Unwrapped
    BY <2>1, <2>2, TiledHeap
  <2>3. CASE ~Unwrapped
    BY <2>1, <2>3 DEF HeapSound, MallocInv, Unwrapped, OwnHeapBelowLimit
  <2>. QED
    BY <2>2, <2>3
<1>. QED
  BY <1>1, HeapInvariant, PTL

-----------------------------------------------------------------------------
(* Formatted output.  What a character is does not matter: a text is a     *)
(* sequence of anything.                                                   *)

IsText(s) == \E S : s \in Seq(S)

\* The length and the places of a text.
LEMMA TextLength ==
    ASSUME NEW s, IsText(s)
    PROVE  Len(s) \in Nat /\ DOMAIN s = 1..Len(s)
<1>1. PICK S : s \in Seq(S)
  BY DEF IsText
<1>. QED
  BY <1>1, LenProperties

\* A function on the numbers up to |n| is a text.
LEMMA TextOf ==
    ASSUME NEW n \in Nat, NEW f, f = [ k \in 1..n |-> f[k] ]
    PROVE  IsText(f) /\ Len(f) = n
<1>. DEFINE S == { f[k] : k \in 1..n }
<1>1. f \in [ 1..n -> S ]
  OBVIOUS
<1>2. f \in Seq(S)
  <2>. HIDE DEF S
  <2>. QED
    BY <1>1, SeqDef
<1>3. DOMAIN f = 1..n
  OBVIOUS
<1>4. Len(f) = n
  BY <1>2, <1>3, LenProperties
<1>. QED
  BY <1>2, <1>4 DEF IsText

\* Two texts in a row.
LEMMA TextJoined ==
    ASSUME NEW s, NEW t, IsText(s), IsText(t)
    PROVE  /\ IsText(s \o t) /\ Len(s \o t) = Len(s) + Len(t)
           /\ \A k \in 1..(Len(s) + Len(t)) :
                 (s \o t)[k] = IF k <= Len(s) THEN s[k] ELSE t[k - Len(s)]
<1>1. PICK S : s \in Seq(S)
  BY DEF IsText
<1>2. PICK T : t \in Seq(T)
  BY DEF IsText
<1>. DEFINE U == S \cup T
<1>3. ASSUME NEW A, A \subseteq U, NEW q \in Seq(A)
      PROVE  q \in Seq(U)
  <2>1. q \in [ 1..Len(q) -> A ] /\ Len(q) \in Nat
    BY LenProperties
  <2>2. q \in [ 1..Len(q) -> U ]
    BY <2>1, <1>3
  <2>. HIDE DEF U
  <2>. QED
    BY <2>1, <2>2, SeqDef
<1>4. s \in Seq(U) /\ t \in Seq(U)
  BY <1>1, <1>2, <1>3
<1>. HIDE DEF U
<1>. QED
  BY <1>4, ConcatProperties DEF IsText

\* The same character |n| times, none at all when |n| is negative.
LEMMA TextRepeated ==
    ASSUME NEW c, NEW n \in Int
    PROVE  IsText(Repeat(c, n)) /\ Len(Repeat(c, n)) = IF n < 0 THEN 0 ELSE n
<1>1. PICK m \in Nat : m = IF n < 0 THEN 0 ELSE n
  OBVIOUS
<1>2. PICK f : f = Repeat(c, n)
  OBVIOUS
<1>3. f = [ k \in 1..m |-> c ]
  <2>1. 1..n = 1..m
    BY <1>1
  <2>. QED
    BY <2>1, <1>2 DEF Repeat
<1>4. f = [ k \in 1..m |-> f[k] ]
  BY <1>3
<1>. QED
  BY <1>1, <1>2, <1>4, TextOf

\* One character.
LEMMA TextOne ==
    ASSUME NEW c
    PROVE  IsText(<< c >>) /\ Len(<< c >>) = 1 /\ << c >>[1] = c
<1>1. << c >> \in Seq({ c })
  OBVIOUS
<1>. QED
  BY <1>1 DEF IsText

\* The first characters of a text.
LEMMA TextBegins ==
    ASSUME NEW s, IsText(s), NEW n \in 0..Len(s)
    PROVE  IsText(SubSeq(s, 1, n)) /\ Len(SubSeq(s, 1, n)) = n
<1>1. PICK S : s \in Seq(S)
  BY DEF IsText
<1>2. Len(s) \in Nat
  BY TextLength
<1>3. SubSeq(s, 1, n) \in Seq(S) /\ Len(SubSeq(s, 1, n)) = n
  BY <1>1, <1>2, SubSeqProperties
<1>. QED
  BY <1>3 DEF IsText

\* A text backwards.
LEMMA TextReversed ==
    ASSUME NEW s, IsText(s)
    PROVE  IsText(Reverse(s)) /\ Len(Reverse(s)) = Len(s)
<1>1. PICK n \in Nat : n = Len(s)
  BY TextLength
<1>2. PICK f : f = Reverse(s)
  OBVIOUS
<1>3. f = [ k \in 1..n |-> s[(n - k) + 1] ]
  BY <1>1, <1>2 DEF Reverse
<1>4. f = [ k \in 1..n |-> f[k] ]
  BY <1>3
<1>. QED
  BY <1>1, <1>2, <1>4, TextOf

-----------------------------------------------------------------------------
(* The conversion buffer.                                                  *)

\* A text that the conversion buffer holds.
Short(buf) == IsText(buf) /\ Len(buf) <= SIZE

\* One more character goes in only when there is room.
LEMMA AddedShort ==
    ASSUME NEW buf, NEW c, Short(buf)
    PROVE  Short(Added(buf, c))
<1>1. SIZE \in Nat
  BY PrintfAssumption DEF SIZE
<1>2. IsText(buf) /\ Len(buf) <= SIZE /\ Len(buf) \in Nat
  BY TextLength DEF Short
<1>3. CASE Len(buf) < SIZE
  <2>1. Added(buf, c) = buf \o << c >>
    <3>1. PICK S : buf \in Seq(S)
      BY <1>2 DEF IsText
    <3>. QED
      BY <3>1, <1>3, AppendIsConcat DEF Added
  <2>2. IsText(buf \o << c >>) /\ Len(buf \o << c >>) = Len(buf) + 1
    <3>1. IsText(<< c >>) /\ Len(<< c >>) = 1
      BY TextOne
    <3>2. PICK t : t = << c >>
      OBVIOUS
    <3>3. IsText(buf \o t) /\ Len(buf \o t) = Len(buf) + Len(t)
      BY <3>1, <3>2, <1>2, TextJoined
    <3>. QED
      BY <3>1, <3>2, <3>3
  <2>. QED
    BY <2>1, <2>2, <1>1, <1>2, <1>3 DEF Short
<1>4. CASE ~(Len(buf) < SIZE)
  BY <1>4 DEF Added
<1>. QED
  BY <1>3, <1>4

\* Min and Max of two numbers.
LEMMA OfTwo ==
    ASSUME NEW a \in Int, NEW b \in Int
    PROVE  /\ Min({ a, b }) = IF a <= b THEN a ELSE b
           /\ Max({ a, b }) = IF a <= b THEN b ELSE a
<1>1. PICK m : m = Min({ a, b })
  OBVIOUS
<1>2. m \in { a, b } /\ \A k \in { a, b } : m <= k
  <2>1. \E x \in { a, b } : \A k \in { a, b } : x <= k
    OBVIOUS
  <2>. QED
    BY <2>1, <1>1 DEF Min
<1>3. PICK n : n = Max({ a, b })
  OBVIOUS
<1>4. n \in { a, b } /\ \A k \in { a, b } : k <= n
  <2>1. \E x \in { a, b } : \A k \in { a, b } : x >= k
    OBVIOUS
  <2>. QED
    BY <2>1, <1>3 DEF Max
<1>. QED
  BY <1>1, <1>2, <1>3, <1>4

\* The zeros stop at the end of the buffer.
LEMMA FilledShort ==
    ASSUME NEW buf, NEW n \in Int, Short(buf)
    PROVE  Short(Filled(buf, n))
<1>1. SIZE \in Nat
  BY PrintfAssumption DEF SIZE
<1>2. IsText(buf) /\ Len(buf) <= SIZE /\ Len(buf) \in Nat
  BY TextLength DEF Short
<1>3. PICK z \in Int : z = Min({ n, SIZE }) /\ z <= SIZE
  <2>1. Min({ n, SIZE }) = IF n <= SIZE THEN n ELSE SIZE
    BY <1>1, OfTwo
  <2>. QED
    BY <2>1, <1>1
<1>4. PICK r : r = Repeat("0", z - Len(buf))
  OBVIOUS
<1>5. IsText(r) /\ Len(r) = IF z - Len(buf) < 0 THEN 0 ELSE z - Len(buf)
  BY <1>2, <1>4, TextRepeated
<1>6. IsText(buf \o r) /\ Len(buf \o r) = Len(buf) + Len(r)
  BY <1>2, <1>5, TextJoined
<1>7. Filled(buf, n) = buf \o r
  BY <1>3, <1>4 DEF Filled
<1>8. Len(buf \o r) <= SIZE
  BY <1>1, <1>2, <1>3, <1>5, <1>6
<1>. QED
  BY <1>6, <1>7, <1>8 DEF Short

\* The loop over the digits ends, within the buffer.
LEMMA DigitsShort ==
    ASSUME NEW value, NEW base, NEW upper
    PROVE  Short(Digits(value, base, upper))
<1>1. SIZE \in Nat \ {0}
  BY PrintfAssumption DEF SIZE
<1>2. PICK left : left = Quotients(value, base)
  OBVIOUS
<1>. DEFINE T == { m \in 1..SIZE : left[m] = 0 \/ m = SIZE }
<1>3. PICK e \in T : \A k \in T : e <= k
  <2>1. SIZE \in T /\ T \in SUBSET Nat
    BY <1>1
  <2>. HIDE DEF T
  <2>. QED
    BY <2>1, LeastOfSet
<1>4. e \in 1..SIZE /\ (left[e] = 0 \/ e = SIZE) /\ \A m \in 1..(e - 1) : left[m] # 0
  <2>1. ASSUME NEW m \in 1..(e - 1)
        PROVE  m \notin T
    BY <1>1, <1>3
  <2>. QED
    BY <2>1, <1>1, <1>3
<1>5. PICK n : n = CHOOSE x \in 1..SIZE : /\ left[x] = 0 \/ x = SIZE
                                         /\ \A m \in 1..(x - 1) : left[m] # 0
  OBVIOUS
<1>6. n \in 1..SIZE
  BY <1>4, <1>5
<1>7. PICK f : f = Digits(value, base, upper)
  OBVIOUS
<1>8. f = [ k \in 1..n |-> Digit(left[k - 1] % base, upper) ]
  BY <1>2, <1>5, <1>7 DEF Digits
<1>9. f = [ k \in 1..n |-> f[k] ]
  BY <1>8
<1>10. n \in Nat /\ n <= SIZE
  BY <1>1, <1>6
<1>11. IsText(f) /\ Len(f) = n
  BY <1>9, <1>10, TextOf
<1>. QED
  BY <1>7, <1>10, <1>11 DEF Short

\* The prefix replaces digits or goes in behind them, when there is room.
LEMMA HashedShort ==
    ASSUME NEW buf, NEW base, NEW prec, NEW width, NEW flags, Short(buf)
    PROVE  Short(Hashed(buf, base, prec, width, flags))
<1>1. SIZE \in Nat
  BY PrintfAssumption DEF SIZE
<1>2. IsText(buf) /\ Len(buf) <= SIZE /\ Len(buf) \in Nat
  BY TextLength DEF Short
<1>. DEFINE full == ~("prec" \in flags) /\ Len(buf) > 0 /\ Len(buf) \in { prec, width }
            drop == IF ~full THEN 0 ELSE IF Len(buf) > 1 /\ base = 16 THEN 2 ELSE 1
            rest == SubSeq(buf, 1, Len(buf) - drop)
            mark == CASE base = 16 -> Added(rest, IF "upper" \in flags THEN "X" ELSE "x")
                      [] base = 2  -> Added(rest, "b")
                      [] OTHER     -> rest
<1>3. PICK n \in 0..Len(buf) : n = Len(buf) - drop
  <2>1. Len(buf) - drop \in 0..Len(buf)
    BY <1>2
  <2>. QED
    BY <2>1
<1>4. Short(rest)
  <2>1. IsText(SubSeq(buf, 1, n)) /\ Len(SubSeq(buf, 1, n)) = n
    BY <1>2, TextBegins
  <2>2. rest = SubSeq(buf, 1, n)
    BY <1>3
  <2>. QED
    BY <2>1, <2>2, <1>1, <1>2 DEF Short
<1>5. Hashed(buf, base, prec, width, flags) = IF "#" \in flags THEN Added(mark, "0") ELSE buf
  BY DEF Hashed
<1>. HIDE DEF rest
<1>6. Short(mark)
  <2>1. \A c : Short(Added(rest, c))
    BY <1>4, AddedShort
  <2>2. CASE base = 16
    BY <2>1, <2>2
  <2>3. CASE base = 2
    BY <2>1, <2>3
  <2>4. CASE base # 16 /\ base # 2
    BY <2>4, <1>4
  <2>. QED
    BY <2>2, <2>3, <2>4
<1>. HIDE DEF mark
<1>7. Short(Added(mark, "0"))
  BY <1>6, AddedShort
<1>. QED
  BY <1>5, <1>7

\* Whatever the value, the precision, the width and the flags.
LEMMA FormatShort ==
    ASSUME NEW digits, Short(digits), NEW negative, NEW base, NEW prec \in Int, NEW width \in Int, NEW flags
    PROVE  Short(_ntoa_format(digits, negative, base, prec, width, flags))
<1>1. PICK w \in Int : w = SignWidth(width, flags, negative)
  <2>1. SignWidth(width, flags, negative) \in Int
    BY DEF SignWidth
  <2>. QED
    BY <2>1
<1>2. PICK precise : precise = IF "-" \in flags THEN digits ELSE Filled(digits, prec)
  OBVIOUS
<1>3. Short(precise)
  BY <1>2, FilledShort
<1>4. PICK padded : padded = IF "-" \in flags \/ "0" \notin flags THEN precise ELSE Filled(precise, w)
  OBVIOUS
<1>5. Short(padded)
  BY <1>3, <1>4, FilledShort
<1>6. PICK hashed : hashed = Hashed(padded, base, prec, w, flags)
  OBVIOUS
<1>7. Short(hashed)
  BY <1>5, <1>6, HashedShort
<1>8. \A c : Short(Added(hashed, c))
  BY <1>7, AddedShort
<1>9. _ntoa_format(digits, negative, base, prec, width, flags) =
        CASE negative -> Added(hashed, "-")
          [] ~negative /\ "+" \in flags -> Added(hashed, "+")
          [] ~negative /\ "+" \notin flags /\ " " \in flags -> Added(hashed, " ")
          [] OTHER -> hashed
  BY <1>1, <1>2, <1>4, <1>6 DEF _ntoa_format
<1>10. \/ _ntoa_format(digits, negative, base, prec, width, flags) = hashed
       \/ \E c : _ntoa_format(digits, negative, base, prec, width, flags) = Added(hashed, c)
  <2>1. CASE negative
    BY <2>1, <1>9
  <2>2. CASE ~negative /\ "+" \in flags
    BY <2>2, <1>9
  <2>3. CASE ~negative /\ "+" \notin flags /\ " " \in flags
    BY <2>3, <1>9
  <2>4. CASE ~negative /\ "+" \notin flags /\ " " \notin flags
    BY <2>4, <1>9
  <2>. QED
    BY <2>1, <2>2, <2>3, <2>4
<1>. QED
  BY <1>7, <1>8, <1>10

\* What a directive has to be.
IsDirective(d) ==
    /\ d.width \in Int /\ d.precision \in Int
    /\ d.conv = "s" => IsText(d.arg)

\* The number of a directive stays within the conversion buffer.
LEMMA NumberShort ==
    ASSUME NEW d, IsDirective(d)
    PROVE  Short(NumberBuffer(d)) /\ Width(d) \in Int /\ Precision(d) \in Nat
<1>1. PICK width \in Int : width = Width(d)
  <2>1. Width(d) \in Int
    BY PrintfAssumption DEF IsDirective, Width
  <2>. QED
    BY <2>1
<1>2. PICK prec \in Nat : prec = Precision(d)
  <2>1. PICK p \in Int : p = d.precision
    BY DEF IsDirective
  <2>2. Max({ p, 0 }) = IF p <= 0 THEN 0 ELSE p
    BY OfTwo
  <2>. QED
    BY <2>1, <2>2 DEF Precision
<1>3. PICK value, negative, base, flags :
        /\ value = (IF Value(d) < 0 THEN -Value(d) ELSE Value(d))
        /\ negative = (Value(d) < 0) /\ base = BaseOf(d) /\ flags = Flags(d)
  OBVIOUS
<1>4. PICK digits, now :
        /\ digits = (IF "prec" \in flags /\ value = 0 THEN << >> ELSE Digits(value, base, "upper" \in flags))
        /\ now = (IF value = 0 THEN flags \ { "#" } ELSE flags)
  OBVIOUS
<1>5. Short(digits)
  <2>1. Short(<< >>)
    <3>1. << >> \in Seq({}) /\ Len(<< >>) = 0
      BY EmptySeq
    <3>. QED
      BY <3>1, PrintfAssumption DEF Short, IsText, SIZE
  <2>. QED
    BY <2>1, <1>4, DigitsShort
<1>6. Short(_ntoa_format(digits, negative, base, prec, width, now))
  BY <1>5, FormatShort
<1>7. NumberBuffer(d) = _ntoa_format(digits, negative, base, prec, width, now)
  BY <1>1, <1>2, <1>3, <1>4 DEF NumberBuffer, _ntoa_long
<1>. QED
  BY <1>1, <1>2, <1>6, <1>7

\* What a directive sends to the output function is a text.
LEMMA ConvertText ==
    ASSUME NEW d, IsDirective(d)
    PROVE  IsText(Convert(d))
<1>1. PICK width \in Int : width = Width(d)
  BY NumberShort
<1>2. PICK prec \in Nat : prec = Precision(d)
  BY NumberShort
<1>3. PICK flags : flags = Flags(d)
  OBVIOUS
<1>4. ASSUME NEW s, IsText(s)
      PROVE  IsText(IF "-" \in flags THEN s \o Repeat(" ", width - Len(s)) ELSE Repeat(" ", width - Len(s)) \o s)
  <2>1. PICK r : r = Repeat(" ", width - Len(s))
    OBVIOUS
  <2>2. IsText(r)
    <3>1. width - Len(s) \in Int
      BY <1>4, TextLength
    <3>. QED
      BY <2>1, <3>1, TextRepeated
  <2>. QED
    BY <2>1, <2>2, <1>4, TextJoined
<1>5. CASE d.conv \in Numeric \cup { "p" }
  <2>1. PICK buf, w : buf = NumberBuffer(d) /\ w = SignWidth(Width(d), Flags(d), Value(d) < 0)
    OBVIOUS
  <2>2. IsText(buf) /\ w \in Int /\ Len(buf) \in Nat
    <3>1. Short(buf)
      BY <2>1, NumberShort
    <3>2. PICK negative : negative = (Value(d) < 0)
      OBVIOUS
    <3>3. SignWidth(width, flags, negative) \in { width, width - 1 }
      BY DEF SignWidth
    <3>4. w = SignWidth(width, flags, negative)
      BY <2>1, <1>1, <1>3, <3>2
    <3>5. w \in Int
      BY <3>3, <3>4
    <3>. QED
      BY <3>1, <3>5, TextLength DEF Short
  <2>3. PICK r : r = Repeat(" ", w - Len(buf))
    OBVIOUS
  <2>4. IsText(r)
    <3>1. w - Len(buf) \in Int
      BY <2>2
    <3>. QED
      BY <2>3, <3>1, TextRepeated
  <2>5. IsText(<< >>)
    BY EmptySeq DEF IsText
  <2>6. PICK before, back, after :
          /\ before = (IF flags \cap { "-", "0" } = {} THEN r ELSE << >>)
          /\ back = Reverse(buf)
          /\ after = (IF "-" \in flags THEN r ELSE << >>)
    OBVIOUS
  <2>7. IsText(before) /\ IsText(after)
    BY <2>4, <2>5, <2>6
  <2>8. IsText(back)
    BY <2>2, <2>6, TextReversed
  <2>9. PICK t : t = before \o back
    OBVIOUS
  <2>10. IsText(t)
    BY <2>7, <2>8, <2>9, TextJoined
  <2>11. IsText(t \o after)
    BY <2>7, <2>10, TextJoined
  <2>12. Convert(d) = _out_rev(buf, w, flags)
    <3>1. Convert(d) = _out_rev(NumberBuffer(d), SignWidth(Width(d), Flags(d), Value(d) < 0), Flags(d))
      <4>1. /\ "c" \notin Numeric \cup { "p" }
            /\ "s" \notin Numeric \cup { "p" }
        BY DEF Numeric
      <4>2. d.conv # "c" /\ d.conv # "s"
        BY <1>5, <4>1
      <4>. QED
        BY <1>5, <4>2, Zenon DEF Convert
    <3>. QED
      BY <3>1, <2>1, <1>3, Zenon
  <2>13. _out_rev(buf, w, flags) = t \o after
    BY <2>3, <2>6, <2>9 DEF _out_rev
  <2>. QED
    BY <2>11, <2>12, <2>13
<1>6. CASE d.conv = "c"
  <2>1. PICK s : s = << d.arg >>
    OBVIOUS
  <2>2. IsText(s)
    BY <2>1, TextOne
  <2>3. Convert(d) = IF "-" \in flags THEN s \o Repeat(" ", width - Len(s)) ELSE Repeat(" ", width - Len(s)) \o s
    BY <2>1, <1>1, <1>3, <1>6 DEF Convert, Numeric
  <2>. QED
    BY <2>2, <2>3, <1>4
<1>7. CASE d.conv = "s"
  <2>1. PICK a : a = d.arg
    OBVIOUS
  <2>2. IsText(a) /\ Len(a) \in Nat
    BY <2>1, <1>7, TextLength DEF IsDirective
  <2>3. PICK n \in 0..Len(a) : n = Min({ prec, Len(a) })
    <3>1. PICK l \in Nat : l = Len(a)
      BY <2>2
    <3>2. Min({ prec, l }) = IF prec <= l THEN prec ELSE l
      BY OfTwo
    <3>. QED
      BY <3>1, <3>2
  <2>4. PICK s : s = IF d.precision = NoPrecision THEN a ELSE SubSeq(a, 1, n)
    OBVIOUS
  <2>5. IsText(s)
    BY <2>2, <2>4, TextBegins
  <2>6. Convert(d) = IF "-" \in flags THEN s \o Repeat(" ", width - Len(s)) ELSE Repeat(" ", width - Len(s)) \o s
    BY <2>1, <2>3, <2>4, <1>1, <1>2, <1>3, <1>7 DEF Convert, Numeric
  <2>. QED
    BY <2>5, <2>6, <1>4
<1>8. CASE d.conv \notin Numeric \cup { "p", "c", "s" }
  <2>1. Convert(d) = << d.conv >>
    BY <1>8 DEF Convert
  <2>. QED
    BY <2>1, TextOne
<1>. QED
  BY <1>5, <1>6, <1>7, <1>8

-----------------------------------------------------------------------------
(* The buffer of the caller.                                               *)

\* What is left of the format, and the text so far.
FormatInv ==
    /\ IsText(format) /\ \A k \in 1..Len(format) : IsDirective(format[k])
    /\ IsText(text)

\* The buffer is as large as the caller says, and nothing behind it is touched.
CellsInv ==
    /\ maxlen \in Nat /\ DOMAIN cells = Cells /\ busy \in BOOLEAN
    /\ sink = "buffer" => 0..(maxlen - 1) \subseteq Cells
    /\ \A k \in Cells : k >= maxlen => cells[k] = None

\* The first |n| bytes are those of the text, as far as there is room.
Holds(n) == \A k \in Cells : k < maxlen /\ k < n => cells[k] = text[k + 1]

\* While the call lasts the buffer holds the text so far, and when it has returned the
\* beginning of the text and the NUL.
EndInv ==
    /\ busy => ret = -1 /\ (sink = "buffer" => Holds(Len(text)))
    /\ ~busy /\ sink = "buffer" /\ maxlen > 0 =>
          /\ ret \in Nat
          /\ \E e \in 0..(maxlen - 1) : /\ e = IF ret <= maxlen - 1 THEN ret ELSE maxlen - 1
                                        /\ cells[e] = NUL /\ Holds(e)

\* What every step of a call keeps.
PrintfInv == FormatInv /\ CellsInv /\ EndInv

\* Before the call.
LEMMA PrintfStart == PrintfInit => PrintfInv
<1>. SUFFICES ASSUME PrintfInit PROVE PrintfInv
  OBVIOUS
<1>1. PICK c \in PrintfCalls : format = c.format /\ sink = c.sink /\ maxlen = c.maxlen
  BY DEF PrintfInit
<1>2. /\ c.maxlen \in Nat /\ (c.sink = "buffer" => 0..(c.maxlen - 1) \subseteq Cells)
      /\ c.format \in Seq(ToSet(c.format))
      /\ \A d \in ToSet(c.format) : /\ d.width \in Int /\ d.precision \in Int
                                    /\ d.conv = "s" => d.arg \in Seq(ToSet(d.arg))
      /\ Cells \subseteq Nat
  BY PrintfAssumption
<1>3. PICK D : D = ToSet(c.format)
  OBVIOUS
<1>4. format \in Seq(D) /\ \A d \in D : IsDirective(d)
  BY <1>1, <1>2, <1>3 DEF IsDirective, IsText
<1>5. text = << >> /\ busy = TRUE /\ ret = -1 /\ cells = [ k \in Cells |-> None ]
  BY DEF PrintfInit
<1>6. FormatInv
  <2>1. \A k \in 1..Len(format) : format[k] \in D
    BY <1>4, ElementOfSeq
  <2>2. IsText(<< >>)
    BY EmptySeq DEF IsText
  <2>. QED
    BY <2>1, <2>2, <1>4, <1>5 DEF FormatInv, IsText
<1>7. CellsInv
  BY <1>1, <1>2, <1>5 DEF CellsInv
<1>8. EndInv
  <2>1. Len(text) = 0
    BY <1>5
  <2>. QED
    BY <2>1, <1>2, <1>5 DEF EndInv, Holds
<1>. QED
  BY <1>6, <1>7, <1>8 DEF PrintfInv

\* What the output function leaves in the buffer.
LEMMA OutCells ==
    ASSUME CellsInv, NEW s, NEW idx, Out(s, idx)
    PROVE  /\ DOMAIN cells' = Cells
           /\ sink # "buffer" => cells' = cells
           /\ sink = "buffer" =>
                 \A k \in Cells : cells'[k] = IF k \in idx..(idx + Len(s) - 1) /\ k < maxlen
                                              THEN s[k - idx + 1] ELSE cells[k]
  BY DEF CellsInv, Out, _out_buffer

\* A directive.
LEMMA DirectiveKeeps ==
    ASSUME PrintfInv, Directive
    PROVE  PrintfInv'
<1>1. /\ IsText(format) /\ (\A k \in 1..Len(format) : IsDirective(format[k])) /\ IsText(text)
      /\ maxlen \in Nat /\ DOMAIN cells = Cells /\ CellsInv /\ Cells \subseteq Nat
      /\ \A k \in Cells : k >= maxlen => cells[k] = None
  BY PrintfAssumption DEF PrintfInv, FormatInv, CellsInv
<1>2. PICK s : s = Convert(Head(format))
  OBVIOUS
<1>3. /\ busy /\ format # << >> /\ text' = text \o s /\ Out(s, Len(text)) /\ format' = Tail(format)
      /\ UNCHANGED << given, busy, sink, maxlen, ret >>
  BY <1>2 DEF Directive
<1>4. PICK S : format \in Seq(S)
  BY <1>1 DEF IsText
<1>5. /\ Head(format) = format[1] /\ Tail(format) \in Seq(S) /\ Len(Tail(format)) = Len(format) - 1
      /\ \A k \in 1..(Len(format) - 1) : Tail(format)[k] = format[k + 1]
      /\ Len(format) \in Nat /\ Len(format) # 0
  BY <1>3, <1>4, HeadTailProperties, LenProperties, EmptySeq
<1>6. IsText(s)
  <2>1. IsDirective(Head(format))
    BY <1>1, <1>5
  <2>2. PICK d : d = Head(format)
    OBVIOUS
  <2>. QED
    BY <2>1, <2>2, <1>2, ConvertText
<1>7. /\ IsText(text \o s) /\ Len(text \o s) = Len(text) + Len(s)
      /\ \A k \in 1..(Len(text) + Len(s)) :
            (text \o s)[k] = IF k <= Len(text) THEN text[k] ELSE s[k - Len(text)]
  BY <1>1, <1>6, TextJoined
<1>8. FormatInv'
  <2>1. \A k \in 1..Len(format') : IsDirective(format'[k])
    <3>. SUFFICES ASSUME NEW k \in 1..(Len(format) - 1) PROVE IsDirective(format[k + 1])
      BY <1>3, <1>5
    <3>1. k + 1 \in 1..Len(format)
      BY <1>5
    <3>. QED
      BY <3>1, <1>1
  <2>. QED
    BY <2>1, <1>3, <1>5, <1>7 DEF FormatInv, IsText
<1>9. PICK n \in Nat, l \in Nat : n = Len(text) /\ l = Len(s)
  BY <1>1, <1>6, TextLength
<1>10. /\ DOMAIN cells' = Cells
       /\ sink # "buffer" => cells' = cells
       /\ sink = "buffer" =>
             \A k \in Cells : cells'[k] = IF k \in n..(n + l - 1) /\ k < maxlen
                                          THEN s[k - n + 1] ELSE cells[k]
  BY <1>1, <1>3, <1>9, OutCells
<1>11. CellsInv'
  <2>1. \A k \in Cells : k >= maxlen => cells'[k] = None
    <3>. SUFFICES ASSUME NEW k \in Cells, k >= maxlen PROVE cells'[k] = None
      OBVIOUS
    <3>1. cells[k] = None /\ ~(k < maxlen)
      BY <1>1
    <3>2. CASE sink = "buffer"
      BY <1>10, <3>1, <3>2
    <3>3. CASE sink # "buffer"
      BY <1>10, <3>1, <3>3
    <3>. QED
      BY <3>2, <3>3
  <2>. QED
    BY <2>1, <1>3, <1>10 DEF PrintfInv, CellsInv
<1>12. ASSUME sink = "buffer", NEW k \in Cells, k < maxlen, k < n + l
       PROVE  cells'[k] = (text \o s)[k + 1]
  <2>1. k \in Nat /\ k + 1 \in 1..(n + l)
    BY <1>1, <1>12
  <2>2. (text \o s)[k + 1] = IF k + 1 <= n THEN text[k + 1] ELSE s[(k + 1) - n]
    BY <2>1, <1>7, <1>9
  <2>3. CASE k < n
    <3>1. cells[k] = text[k + 1]
      BY <2>3, <1>3, <1>9, <1>12 DEF PrintfInv, EndInv, Holds
    <3>. QED
      BY <2>1, <2>2, <2>3, <3>1, <1>10, <1>12
  <2>4. CASE k >= n
    <3>1. PICK j : j = k - n + 1 /\ j = (k + 1) - n /\ k \in n..(n + l - 1)
      BY <2>1, <2>4, <1>12
    <3>2. cells'[k] = s[j]
      BY <3>1, <1>10, <1>12
    <3>3. ~(k + 1 <= n)
      BY <2>1, <2>4
    <3>4. (text \o s)[k + 1] = s[j]
      BY <2>2, <3>1, <3>3
    <3>. QED
      BY <3>2, <3>4
  <2>5. k < n \/ k >= n
    BY <2>1
  <2>. QED
    BY <2>3, <2>4, <2>5, Zenon
<1>13. EndInv'
  <2>1. ret = -1
    BY <1>3 DEF PrintfInv, EndInv
  <2>2. PICK joined : joined = text \o s
    OBVIOUS
  <2>3. text' = joined /\ Len(joined) = n + l
    BY <2>2, <1>3, <1>7, <1>9
  <2>4. sink = "buffer" => \A k \in Cells : k < maxlen /\ k < n + l => cells'[k] = joined[k + 1]
    BY <2>2, <1>12
  <2>. QED
    BY <2>1, <2>3, <2>4, <1>3 DEF EndInv, Holds
<1>. QED
  BY <1>8, <1>11, <1>13 DEF PrintfInv

\* The end of the call.
LEMMA TerminateKeeps ==
    ASSUME PrintfInv, Terminate
    PROVE  PrintfInv'
<1>1. /\ IsText(text) /\ FormatInv /\ EndInv
      /\ maxlen \in Nat /\ DOMAIN cells = Cells /\ CellsInv /\ Cells \subseteq Nat
      /\ \A k \in Cells : k >= maxlen => cells[k] = None
      /\ sink = "buffer" => 0..(maxlen - 1) \subseteq Cells
  BY PrintfAssumption DEF PrintfInv, FormatInv, CellsInv
<1>2. PICK n \in Nat : n = Len(text)
  BY <1>1, TextLength
<1>3. PICK e \in Int : e = End(n) /\ e = IF n < maxlen THEN n ELSE maxlen - 1
  <2>1. End(n) = IF n < maxlen THEN n ELSE maxlen - 1
    BY DEF End
  <2>. QED
    BY <2>1, <1>1
<1>4. /\ busy /\ Out(<< NUL >>, e) /\ ret' = n /\ busy' = FALSE
      /\ UNCHANGED << given, format, sink, maxlen, text >>
  BY <1>2, <1>3 DEF Terminate
<1>5. PICK s : s = << NUL >> /\ Len(s) = 1 /\ s[1] = NUL
  BY TextOne
<1>6. /\ DOMAIN cells' = Cells
      /\ sink # "buffer" => cells' = cells
      /\ sink = "buffer" =>
            \A k \in Cells : cells'[k] = IF k = e /\ k < maxlen THEN NUL ELSE cells[k]
  <2>1. /\ DOMAIN cells' = Cells
        /\ sink # "buffer" => cells' = cells
        /\ sink = "buffer" =>
              \A k \in Cells : cells'[k] = IF k \in e..(e + Len(s) - 1) /\ k < maxlen
                                           THEN s[k - e + 1] ELSE cells[k]
    BY <1>1, <1>4, <1>5, OutCells
  <2>2. e + Len(s) - 1 = e /\ s[e - e + 1] = NUL /\ e..e = { e }
    BY <1>5
  <2>. QED
    BY <2>1, <2>2
<1>7. FormatInv'
  BY <1>1, <1>4 DEF FormatInv
<1>8. CellsInv'
  <2>1. \A k \in Cells : k >= maxlen => cells'[k] = None
    BY <1>1, <1>6
  <2>. QED
    BY <2>1, <1>1, <1>4, <1>6 DEF CellsInv
<1>9. ASSUME sink = "buffer", maxlen > 0
      PROVE  /\ e \in 0..(maxlen - 1) /\ e = (IF n <= maxlen - 1 THEN n ELSE maxlen - 1)
             /\ cells'[e] = NUL
             /\ \A k \in Cells : k < maxlen /\ k < e => cells'[k] = text[k + 1]
  <2>1. e \in 0..(maxlen - 1) /\ e = (IF n <= maxlen - 1 THEN n ELSE maxlen - 1) /\ e < maxlen /\ e <= n
    BY <1>1, <1>3, <1>9
  <2>2. e \in Cells /\ cells'[e] = NUL
    BY <2>1, <1>1, <1>6, <1>9
  <2>3. Holds(n)
    BY <1>1, <1>2, <1>4, <1>9 DEF EndInv
  <2>4. ASSUME NEW k \in Cells, k < maxlen, k < e
        PROVE  cells'[k] = text[k + 1]
    <3>1. k \in Nat /\ k < n /\ k # e
      BY <2>1, <2>4, <1>1
    <3>. QED
      BY <2>3, <2>4, <3>1, <1>6, <1>9 DEF Holds
  <2>. QED
    BY <2>1, <2>2, <2>4
<1>10. EndInv'
  BY <1>4, <1>9 DEF EndInv, Holds
<1>. QED
  BY <1>7, <1>8, <1>10 DEF PrintfInv

\* For formats of any length, directives of any kind, width and precision and buffers of
\* any size: no digit, zero, prefix or sign is stored behind the end of the conversion
\* buffer (printf.c:206-319), no character behind the |count| bytes of the caller's, and
\* a call leaves there the beginning of the text and a NUL (printf.c:126-131, 899).
THEOREM OutputStaysInBuffers == PrintfSpec => []WithinBuffers
<1>1. ASSUME PrintfInv, [PrintfNext]_printfvars
      PROVE  PrintfInv'
  <2>1. CASE Directive
    BY <2>1, <1>1, DirectiveKeeps
  <2>2. CASE Terminate
    BY <2>2, <1>1, TerminateKeeps
  <2>3. CASE UNCHANGED printfvars
    BY <2>3, <1>1 DEF printfvars, PrintfInv, FormatInv, CellsInv, EndInv, Holds
  <2>. QED
    BY <1>1, <2>1, <2>2, <2>3 DEF PrintfNext
<1>2. ASSUME PrintfInv PROVE WithinBuffers
  <2>1. /\ maxlen \in Nat /\ busy \in BOOLEAN /\ (sink = "buffer" => 0..(maxlen - 1) \subseteq Cells)
        /\ \A k \in Cells : k >= maxlen => cells[k] = None
    BY <1>2 DEF PrintfInv, CellsInv
  <2>2. ASSUME ret >= 0, sink = "buffer", maxlen > 0
        PROVE  cells[Min({ ret, maxlen - 1 })] = NUL
               /\ \A k \in 0..(Min({ ret, maxlen - 1 }) - 1) : cells[k] = text[k + 1]
    <3>1. ~busy
      BY <1>2, <2>2 DEF PrintfInv, EndInv
    <3>2. PICK e \in 0..(maxlen - 1) : /\ ret \in Nat
                                       /\ e = IF ret <= maxlen - 1 THEN ret ELSE maxlen - 1
                                       /\ cells[e] = NUL /\ Holds(e)
      BY <1>2, <2>2, <3>1 DEF PrintfInv, EndInv
    <3>3. Min({ ret, maxlen - 1 }) = e
      <4>1. PICK a \in Int, b \in Int : a = ret /\ b = maxlen - 1
        BY <2>1, <3>2
      <4>2. Min({ a, b }) = IF a <= b THEN a ELSE b
        BY OfTwo
      <4>. QED
        BY <3>2, <4>1, <4>2
    <3>4. \A k \in 0..(e - 1) : k \in Cells /\ k < maxlen /\ k < e
      BY <2>1, <2>2, <3>2
    <3>. QED
      BY <3>2, <3>3, <3>4 DEF Holds
  <2>3. StoresPrefix
    BY <2>1, <2>2 DEF StoresPrefix
  <2>4. ASSUME format # << >>
        PROVE  Len(NumberBuffer(Head(format))) <= SIZE
    <3>1. PICK S : format \in Seq(S)
      BY <1>2 DEF PrintfInv, FormatInv, IsText
    <3>2. Head(format) = format[1] /\ 1 \in 1..Len(format)
      BY <2>4, <3>1, HeadTailProperties, LenProperties, EmptySeq
    <3>3. IsDirective(Head(format))
      BY <1>2, <3>2 DEF PrintfInv, FormatInv
    <3>4. PICK d : d = Head(format)
      OBVIOUS
    <3>5. Short(NumberBuffer(d))
      BY <3>3, <3>4, NumberShort
    <3>. QED
      BY <3>4, <3>5 DEF Short
  <2>5. NumberFits
    BY <2>4 DEF NumberFits
  <2>. QED
    BY <2>3, <2>5 DEF WithinBuffers
<1>. QED
  BY <1>1, <1>2, PrintfStart, PTL DEF PrintfSpec
=============================================================================
