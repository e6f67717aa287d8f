--------------------------- MODULE TaskListProofs ---------------------------
(***************************************************************************)
(* What the operations on task lists do to the members of a list, to its   *)
(* order and to the absence of duplicates.                                 *)
(***************************************************************************)
EXTENDS TaskList, SequenceTheorems, WellFoundedInduction, TLAPS

\* A nonempty set of naturals has a first element.
LEMMA FirstExists ==
    ASSUME NEW S, S \subseteq Nat, S # {}
    PROVE  \E i \in S : IsFirst(i, S)
<1>1. PICK x \in S : \A y \in S : ~(<< y, x >> \in OpToRel(<, Nat))
  BY NatLessThanWellFounded, WFMin
<1>2. \A y \in S : y < x => << y, x >> \in OpToRel(<, Nat)
  BY DEF OpToRel
<1>3. x \in Nat /\ (\A y \in S : y \in Nat)
  OBVIOUS
<1>4. \A y \in S : ~(y < x)
  BY <1>1, <1>2
<1>5. \A y \in S : x <= y
  BY <1>3, <1>4
<1>. QED
  BY <1>5 DEF IsFirst

\* |r| is |q| with |e| inserted at position |k|.
Inserted(r, q, k, e) ==
    /\ k \in 1..(Len(q) + 1)
    /\ Len(r) = Len(q) + 1
    /\ \A j \in 1..(Len(q) + 1) :
         r[j] = IF j < k THEN q[j] ELSE IF j = k THEN e ELSE q[j - 1]

\* InsertAt() opens a place at i and shifts the rest.
LEMMA InsertAtProperties ==
    ASSUME NEW S, NEW q \in Seq(S), NEW i \in 1..Len(q), NEW e \in S
    PROVE  InsertAt(q, i, e) \in Seq(S) /\ Inserted(InsertAt(q, i, e), q, i, e)
<1>. DEFINE a == SubSeq(q, 1, i - 1)
            b == SubSeq(q, i, Len(q))
            ae == a \o << e >>
<1>0. Len(q) \in Nat /\ (\A j \in 1..Len(q) : q[j] \in S)
  BY LenProperties, ElementOfSeq
<1>1. /\ a \in Seq(S) /\ Len(a) = i - 1
      /\ \A j \in 1..(i - 1) : a[j] = q[j]
  BY <1>0, SubSeqProperties
<1>2. /\ b \in Seq(S) /\ Len(b) = Len(q) - i + 1
      /\ \A j \in 1..(Len(q) - i + 1) : b[j] = q[i + j - 1]
  BY <1>0, SubSeqProperties
<1>3. << e >> \in Seq(S) /\ Len(<< e >>) = 1 /\ << e >>[1] = e
  OBVIOUS
<1>. HIDE DEF a, b
<1>4. /\ ae \in Seq(S) /\ Len(ae) = i
      /\ \A j \in 1..i : ae[j] = IF j <= i - 1 THEN a[j] ELSE << e >>[j - (i - 1)]
  BY <1>1, <1>3, ConcatProperties
<1>5. /\ \A j \in 1..(i - 1) : ae[j] = q[j]
      /\ ae[i] = e
  BY <1>1, <1>3, <1>4
<1>. HIDE DEF ae
<1>6. /\ ae \o b \in Seq(S) /\ Len(ae \o b) = Len(ae) + Len(b)
      /\ \A j \in 1..(Len(ae) + Len(b)) : (ae \o b)[j] = IF j <= Len(ae) THEN ae[j] ELSE b[j - Len(ae)]
  BY <1>2, <1>4, ConcatProperties
<1>7. InsertAt(q, i, e) = ae \o b
  BY DEF InsertAt, ae, a, b
<1>8. ASSUME NEW j \in 1..(Len(q) + 1)
      PROVE  (ae \o b)[j] = IF j < i THEN q[j] ELSE IF j = i THEN e ELSE q[j - 1]
  <2>1. (ae \o b)[j] = IF j <= i THEN ae[j] ELSE b[j - i]
    <3>1. Len(ae) = i /\ Len(ae) + Len(b) = Len(q) + 1
      BY <1>0, <1>2, <1>4
    <3>2. j \in 1..(Len(ae) + Len(b))
      BY <3>1
    <3>3. (ae \o b)[j] = IF j <= Len(ae) THEN ae[j] ELSE b[j - Len(ae)]
      BY <1>6, <3>2
    <3>. QED
      BY <3>1, <3>3
  <2>2. CASE j <= i
    BY <2>1, <2>2, <1>5
  <2>3. CASE j > i
    <3>1. j - i \in 1..(Len(q) - i + 1) /\ i + (j - i) - 1 = j - 1
      BY <2>3, <1>0
    <3>. QED
      BY <2>1, <2>3, <3>1, <1>2
  <2>4. j <= i \/ j > i
    BY <1>0
  <2>. QED
    BY <2>2, <2>3, <2>4
<1>9. Inserted(ae \o b, q, i, e)
  BY <1>0, <1>2, <1>4, <1>6, <1>8 DEF Inserted
<1>. QED
  BY <1>6, <1>7, <1>9

\* list_delete() takes one element out and closes the gap.
LEMMA RemoveAtProperties ==
    ASSUME NEW S, NEW q \in Seq(S), NEW i \in 1..Len(q)
    PROVE  /\ RemoveAt(q, i) \in Seq(S)
           /\ Len(RemoveAt(q, i)) = Len(q) - 1
           /\ \A j \in 1..(Len(q) - 1) :
                RemoveAt(q, i)[j] = IF j < i THEN q[j] ELSE q[j + 1]
<1>. DEFINE a == SubSeq(q, 1, i - 1)
            b == SubSeq(q, i + 1, Len(q))
<1>0. Len(q) \in Nat /\ (\A j \in 1..Len(q) : q[j] \in S)
  BY LenProperties, ElementOfSeq
<1>1. /\ a \in Seq(S) /\ Len(a) = i - 1
      /\ \A j \in 1..(i - 1) : a[j] = q[j]
  BY <1>0, SubSeqProperties
<1>2. /\ b \in Seq(S) /\ Len(b) = Len(q) - i
      /\ \A j \in 1..(Len(q) - i) : b[j] = q[i + 1 + j - 1]
  BY <1>0, SubSeqProperties
<1>. HIDE DEF a, b
<1>3. /\ a \o b \in Seq(S) /\ Len(a \o b) = Len(a) + Len(b)
      /\ \A j \in 1..(Len(a) + Len(b)) : (a \o b)[j] = IF j <= Len(a) THEN a[j] ELSE b[j - Len(a)]
  BY <1>1, <1>2, ConcatProperties
<1>4. RemoveAt(q, i) = a \o b
  BY DEF RemoveAt, a, b
<1>5. ASSUME NEW j \in 1..(Len(q) - 1)
      PROVE  (a \o b)[j] = IF j < i THEN q[j] ELSE q[j + 1]
  <2>1. (a \o b)[j] = IF j <= i - 1 THEN a[j] ELSE b[j - (i - 1)]
    BY <1>0, <1>1, <1>2, <1>3
  <2>2. CASE j < i
    BY <2>1, <2>2, <1>1, <1>0
  <2>3. CASE j >= i
    <3>1. j - (i - 1) \in 1..(Len(q) - i) /\ i + 1 + (j - (i - 1)) - 1 = j + 1
      BY <2>3, <1>0
    <3>. QED
      BY <2>1, <2>3, <3>1, <1>2, <1>0
  <2>4. j < i \/ j >= i
    BY <1>0
  <2>. QED
    BY <2>2, <2>3, <2>4
<1>6. Len(a \o b) = Len(q) - 1
  BY <1>0, <1>1, <1>2, <1>3
<1>. QED
  BY <1>3, <1>4, <1>5, <1>6

-----------------------------------------------------------------------------
(* Members, duplicates and order.                                          *)

\* task_put() inserts its task at one place: the end, when the tail's priority
\* is at least its own, or before the first task of lower priority.
LEMMA TaskPutProperties ==
    ASSUME NEW S, NEW q \in Seq(S), NEW t \in S, NEW pr \in [S -> Int]
    PROVE  /\ task_put(q, t, pr) \in Seq(S)
           /\ \E k \in 1..(Len(q) + 1) :
                /\ Inserted(task_put(q, t, pr), q, k, t)
                /\ k <= Len(q) => /\ pr[q[k]] < pr[t]
                                  /\ \A j \in 1..(k - 1) : pr[q[j]] >= pr[t]
                /\ k = Len(q) + 1 /\ Len(q) > 0 => pr[q[Len(q)]] >= pr[t]
<1>0. Len(q) \in Nat /\ (\A j \in 1..Len(q) : q[j] \in S)
  BY LenProperties, ElementOfSeq
<1>1. CASE q = << >> \/ pr[Last(q)] >= pr[t]
  <2>1. task_put(q, t, pr) = Append(q, t)
    BY <1>1 DEF task_put
  <2>2. /\ Append(q, t) \in Seq(S) /\ Len(Append(q, t)) = Len(q) + 1
        /\ \A i \in 1..Len(q) : Append(q, t)[i] = q[i]
        /\ Append(q, t)[Len(q) + 1] = t
    BY AppendProperties
  <2>3. Inserted(Append(q, t), q, Len(q) + 1, t)
    BY <1>0, <2>2 DEF Inserted
  <2>4. Len(q) > 0 => pr[q[Len(q)]] >= pr[t]
    BY <1>0, <1>1 DEF Last
  <2>. QED
    BY <1>0, <2>1, <2>2, <2>3, <2>4
<1>2. CASE q # << >> /\ ~(pr[Last(q)] >= pr[t])
  <2>. DEFINE L == Lower(q, t, pr)
  <2>1. Len(q) \in L
    <3>1. Len(q) > 0
      BY <1>0, <1>2, EmptySeq
    <3>2. pr[q[Len(q)]] \in Int /\ pr[t] \in Int
      BY <1>0, <3>1
    <3>. QED
      BY <1>0, <1>2, <3>1, <3>2 DEF Lower, Last
  <2>2. L \subseteq Nat /\ L \subseteq 1..Len(q)
    BY <1>0 DEF Lower
  <2>. DEFINE c == CHOOSE i \in L : IsFirst(i, L)
  <2>3. c \in L /\ IsFirst(c, L)
    <3>1. \E i \in L : IsFirst(i, L)
      BY <2>1, <2>2, FirstExists
    <3>. QED
      BY <3>1
  <2>4. task_put(q, t, pr) = InsertAt(q, c, t)
    BY <1>2 DEF task_put
  <2>. HIDE DEF c
  <2>5. c \in 1..Len(q) /\ pr[q[c]] < pr[t]
    BY <2>3 DEF Lower
  <2>6. \A j \in 1..(c - 1) : pr[q[j]] >= pr[t]
    <3>1. SUFFICES ASSUME NEW j \in 1..(c - 1) PROVE pr[q[j]] >= pr[t]
      OBVIOUS
    <3>2. j \in 1..Len(q) /\ ~(c <= j)
      BY <1>0, <2>5
    <3>3. j \notin L
      BY <2>3, <3>2 DEF IsFirst
    <3>4. pr[q[j]] \in Int /\ pr[t] \in Int
      BY <1>0, <3>2
    <3>. QED
      BY <3>2, <3>3, <3>4 DEF Lower
  <2>7. /\ InsertAt(q, c, t) \in Seq(S)
        /\ Inserted(InsertAt(q, c, t), q, c, t)
    BY <2>5, InsertAtProperties
  <2>8. c \in 1..(Len(q) + 1) /\ c <= Len(q) /\ c # Len(q) + 1
    BY <1>0, <2>5
  <2>. QED
    BY <2>4, <2>5, <2>6, <2>7, <2>8
<1>. QED
  BY <1>1, <1>2

\* task_put() adds its task to the members of the list, links none twice, and
\* keeps the list ordered.
LEMMA TaskPutList ==
    ASSUME NEW S, NEW q \in Seq(S), NEW t \in S, NEW pr \in [S -> Int]
    PROVE  /\ task_put(q, t, pr) \in Seq(S)
           /\ \A x : Contains(task_put(q, t, pr), x) <=> x = t \/ Contains(q, x)
           /\ NoDuplicate(q) /\ ~Contains(q, t) => NoDuplicate(task_put(q, t, pr))
           /\ Ordered(q, pr) => Ordered(task_put(q, t, pr), pr)
<1>. DEFINE r == task_put(q, t, pr)
<1>0. Len(q) \in Nat /\ (\A j \in 1..Len(q) : q[j] \in S)
  BY LenProperties, ElementOfSeq
<1>1. r \in Seq(S)
  BY TaskPutProperties
<1>2. PICK k \in 1..(Len(q) + 1) :
        /\ Inserted(r, q, k, t)
        /\ k <= Len(q) => /\ pr[q[k]] < pr[t]
                          /\ \A j \in 1..(k - 1) : pr[q[j]] >= pr[t]
        /\ k = Len(q) + 1 /\ Len(q) > 0 => pr[q[Len(q)]] >= pr[t]
  BY TaskPutProperties
<1>. HIDE DEF r
<1>3. /\ Len(r) = Len(q) + 1
      /\ \A j \in 1..(k - 1) : r[j] = q[j]
      /\ r[k] = t
      /\ \A j \in (k + 1)..(Len(q) + 1) : r[j] = q[j - 1]
  BY <1>0, <1>2 DEF Inserted
<1>4. ASSUME NEW x PROVE Contains(r, x) <=> x = t \/ Contains(q, x)
  <2>1. ASSUME NEW i \in 1..Len(r), r[i] = x, x # t PROVE Contains(q, x)
    <3>1. i \in 1..(k - 1) \/ i \in (k + 1)..(Len(q) + 1)
      BY <1>0, <1>3, <2>1
    <3>2. CASE i \in 1..(k - 1)
      BY <1>0, <1>3, <2>1, <3>2, SMTT(30) DEF Contains
    <3>3. CASE i \in (k + 1)..(Len(q) + 1)
      <4>1. i - 1 \in 1..Len(q) /\ q[i - 1] = x
        BY <1>0, <1>3, <2>1, <3>3
      <4>. QED
        BY <4>1 DEF Contains
    <3>. QED
      BY <3>1, <3>2, <3>3
  <2>2. ASSUME NEW i \in 1..Len(q), q[i] = x PROVE Contains(r, x)
    <3>1. CASE i < k
      <4>1. i \in 1..Len(r) /\ r[i] = x
        BY <1>0, <1>3, <2>2, <3>1
      <4>. QED
        BY <4>1 DEF Contains
    <3>2. CASE i >= k
      <4>1. i + 1 \in (k + 1)..(Len(q) + 1) /\ (i + 1) - 1 = i
        BY <1>0, <3>2
      <4>2. i + 1 \in 1..Len(r)
        BY <1>0, <1>3
      <4>3. r[i + 1] = q[(i + 1) - 1]
        BY <1>3, <4>1
      <4>. QED
        BY <2>2, <4>1, <4>2, <4>3 DEF Contains
    <3>. QED
      BY <1>0, <3>1, <3>2
  <2>3. Contains(r, t)
    BY <1>0, <1>3 DEF Contains
  <2>. QED
    BY <2>1, <2>2, <2>3 DEF Contains
<1>5. ASSUME NoDuplicate(q), ~Contains(q, t) PROVE NoDuplicate(r)
  <2>. DEFINE src(i) == IF i < k THEN i ELSE i - 1
  <2>1. ASSUME NEW i \in 1..Len(r), i # k
        PROVE  src(i) \in 1..Len(q) /\ r[i] = q[src(i)] /\ r[i] # t
    <3>1. src(i) \in 1..Len(q) /\ r[i] = q[src(i)]
      BY <1>0, <1>3, <2>1
    <3>. QED
      BY <1>5, <3>1 DEF Contains
  <2>2. ASSUME NEW i \in 1..Len(r), NEW j \in 1..Len(r), r[i] = r[j] PROVE i = j
    <3>1. CASE i = k \/ j = k
      BY <1>3, <2>1, <2>2, <3>1
    <3>2. CASE i # k /\ j # k
      <4>1. src(i) \in 1..Len(q) /\ src(j) \in 1..Len(q) /\ q[src(i)] = q[src(j)]
        BY <2>1, <2>2, <3>2
      <4>2. src(i) = src(j)
        BY <1>5, <4>1 DEF NoDuplicate
      <4>. QED
        <5>1. i \in Int /\ j \in Int /\ k \in Int
          BY <1>0, <1>3
        <5>. QED
          BY <5>1, <3>2, <4>2
    <3>. QED
      BY <3>1, <3>2
  <2>. QED
    BY <2>2 DEF NoDuplicate
<1>6. ASSUME Ordered(q, pr) PROVE Ordered(r, pr)
  <2>0. pr[t] \in Int /\ (\A i \in 1..Len(q) : pr[q[i]] \in Int)
    BY <1>0
  <2>1. \A i, j \in 1..Len(q) : i < j => pr[q[i]] >= pr[q[j]]
    BY <1>6 DEF Ordered
  <2>2. \A i \in 1..(k - 1) : pr[q[i]] >= pr[t]
    <3>1. CASE k <= Len(q)
      BY <1>2, <3>1
    <3>2. CASE k = Len(q) + 1
      <4>1. SUFFICES ASSUME NEW i \in 1..(k - 1) PROVE pr[q[i]] >= pr[t]
        OBVIOUS
      <4>2. i \in 1..Len(q) /\ Len(q) \in 1..Len(q) /\ Len(q) > 0
        BY <1>0, <3>2
      <4>3. pr[q[Len(q)]] >= pr[t]
        BY <1>2, <3>2, <4>2
      <4>4. i < Len(q) \/ i = Len(q)
        BY <4>2, <1>0
      <4>5. pr[q[i]] >= pr[q[Len(q)]]
        BY <2>0, <2>1, <4>2, <4>4
      <4>. QED
        BY <2>0, <4>2, <4>3, <4>5
    <3>. QED
      BY <1>0, <3>1, <3>2, SMTT(30)
  <2>3. \A i \in k..Len(q) : pr[t] >= pr[q[i]]
    <3>1. SUFFICES ASSUME NEW i \in k..Len(q) PROVE pr[t] >= pr[q[i]]
      OBVIOUS
    <3>2. k \in 1..Len(q) /\ i \in 1..Len(q) /\ (k < i \/ i = k)
      BY <1>0
    <3>3. pr[q[k]] < pr[t]
      BY <1>2, <3>2
    <3>4. pr[q[k]] >= pr[q[i]]
      BY <2>0, <2>1, <3>2
    <3>. QED
      BY <2>0, <3>2, <3>3, <3>4
  <2>4. ASSUME NEW i \in 1..Len(r), NEW j \in 1..Len(r), i < j
        PROVE  pr[r[i]] >= pr[r[j]]
    <3>1. CASE j < k
      <4>1. i \in 1..(k - 1) /\ j \in 1..(k - 1) /\ i \in 1..Len(q) /\ j \in 1..Len(q)
        BY <1>0, <2>4, <3>1
      <4>. QED
        BY <1>3, <2>1, <2>4, <4>1
    <3>2. CASE j = k
      <4>1. i \in 1..(k - 1)
        BY <1>0, <2>4, <3>2
      <4>. QED
        BY <1>3, <2>2, <3>2, <4>1
    <3>3. CASE i < k /\ j > k
      <4>1. i \in 1..(k - 1) /\ j \in (k + 1)..(Len(q) + 1)
        BY <1>0, <1>3, <3>3
      <4>2. i \in 1..Len(q) /\ j - 1 \in 1..Len(q) /\ i < j - 1
        BY <1>0, <3>3, <4>1
      <4>. QED
        BY <1>3, <2>1, <4>1, <4>2
    <3>4. CASE i = k
      <4>1. j \in (k + 1)..(Len(q) + 1) /\ j - 1 \in k..Len(q)
        BY <1>0, <1>3, <2>4, <3>4
      <4>. QED
        BY <1>3, <2>3, <3>4, <4>1
    <3>5. CASE i > k
      <4>1. i \in (k + 1)..(Len(q) + 1) /\ j \in (k + 1)..(Len(q) + 1)
        BY <1>0, <1>3, <2>4, <3>5
      <4>2. i - 1 \in 1..Len(q) /\ j - 1 \in 1..Len(q) /\ i - 1 < j - 1
        BY <1>0, <2>4, <4>1
      <4>. QED
        BY <1>3, <2>1, <4>1, <4>2
    <3>6. j < k \/ j = k \/ (i < k /\ j > k) \/ i = k \/ i > k
      BY <1>0, <1>3
    <3>. QED
      BY <3>1, <3>2, <3>3, <3>4, <3>5, <3>6
  <2>. QED
    BY <2>4 DEF Ordered
<1>. QED
  BY <1>1, <1>4, <1>5, <1>6 DEF r

\* list_add_before() at the end of a list.
LEMMA AppendList ==
    ASSUME NEW S, NEW q \in Seq(S), NEW t \in S
    PROVE  /\ Append(q, t) \in Seq(S)
           /\ \A x : Contains(Append(q, t), x) <=> x = t \/ Contains(q, x)
           /\ NoDuplicate(q) /\ ~Contains(q, t) => NoDuplicate(Append(q, t))
<1>0. Len(q) \in Nat
  BY LenProperties
<1>. DEFINE r == Append(q, t)
<1>1. /\ r \in Seq(S) /\ Len(r) = Len(q) + 1
      /\ \A i \in 1..Len(q) : r[i] = q[i]
      /\ r[Len(q) + 1] = t
  BY AppendProperties
<1>. HIDE DEF r
<1>2. \A i \in 1..Len(r) : i \in 1..Len(q) \/ i = Len(q) + 1
  BY <1>0, <1>1
<1>3. \A i \in 1..Len(q) : i \in 1..Len(r) /\ i # Len(q) + 1
  BY <1>0, <1>1
<1>4. Len(q) + 1 \in 1..Len(r)
  BY <1>0, <1>1
<1>5. \A x : Contains(r, x) <=> x = t \/ Contains(q, x)
  BY <1>1, <1>2, <1>3, <1>4 DEF Contains
<1>6. NoDuplicate(q) /\ ~Contains(q, t) => NoDuplicate(r)
  BY <1>1, <1>2, <1>3, <1>4 DEF Contains, NoDuplicate
<1>. QED
  BY <1>1, <1>5, <1>6 DEF r

\* list_remove_head() on a list that is not empty.
LEMMA TailList ==
    ASSUME NEW S, NEW q \in Seq(S), q # << >>
    PROVE  /\ Head(q) \in S /\ Contains(q, Head(q)) /\ Tail(q) \in Seq(S)
           /\ NoDuplicate(q) =>
                /\ NoDuplicate(Tail(q))
                /\ \A x : Contains(Tail(q), x) <=> Contains(q, x) /\ x # Head(q)
           /\ \A pr : Ordered(q, pr) => Ordered(Tail(q), pr)
<1>0. Len(q) \in Nat \ {0} /\ Head(q) = q[1]
  BY EmptySeq
<1>. DEFINE r == Tail(q)
<1>1. /\ Head(q) \in S /\ r \in Seq(S) /\ Len(r) = Len(q) - 1
      /\ \A i \in 1..Len(r) : r[i] = q[i + 1]
  BY HeadTailProperties
<1>. HIDE DEF r
<1>2. \A i \in 1..Len(r) : i + 1 \in 2..Len(q) /\ i + 1 \in 1..Len(q) /\ i + 1 # 1
  BY <1>0, <1>1
<1>3. \A i \in 1..Len(q) : i # 1 => i - 1 \in 1..Len(r) /\ r[i - 1] = q[i]
  <2>1. SUFFICES ASSUME NEW i \in 1..Len(q), i # 1
                 PROVE  i - 1 \in 1..Len(r) /\ r[i - 1] = q[i]
    OBVIOUS
  <2>2. i - 1 \in 1..Len(r) /\ (i - 1) + 1 = i
    BY <1>0, <1>1, <2>1
  <2>. QED
    BY <1>1, <2>2
<1>4. 1 \in 1..Len(q)
  BY <1>0
<1>5. Contains(q, Head(q))
  BY <1>0, <1>4 DEF Contains
<1>6. ASSUME NoDuplicate(q) PROVE NoDuplicate(r)
  <2>1. SUFFICES ASSUME NEW i \in 1..Len(r), NEW j \in 1..Len(r), r[i] = r[j] PROVE i = j
    BY DEF NoDuplicate
  <2>2. i + 1 = j + 1
    BY <1>1, <1>2, <1>6, <2>1 DEF NoDuplicate
  <2>. QED
    BY <2>2, <1>0, <1>1
<1>7. ASSUME NoDuplicate(q), NEW x
      PROVE  Contains(r, x) <=> Contains(q, x) /\ x # Head(q)
  BY <1>0, <1>1, <1>2, <1>3, <1>4, <1>7, SMTT(30) DEF Contains, NoDuplicate
<1>8. ASSUME NEW pr, Ordered(q, pr) PROVE Ordered(r, pr)
  <2>1. SUFFICES ASSUME NEW i \in 1..Len(r), NEW j \in 1..Len(r), i < j
                 PROVE  pr[r[i]] >= pr[r[j]]
    BY DEF Ordered
  <2>2. i + 1 < j + 1
    BY <1>0, <1>1, <2>1
  <2>. QED
    BY <1>1, <1>2, <1>8, <2>2 DEF Ordered
<1>. QED
  BY <1>1, <1>5, <1>6, <1>7, <1>8 DEF r

\* list_delete() of the task at position i.
LEMMA RemoveAtList ==
    ASSUME NEW S, NEW q \in Seq(S), NEW i \in 1..Len(q)
    PROVE  /\ RemoveAt(q, i) \in Seq(S)
           /\ NoDuplicate(q) =>
                /\ NoDuplicate(RemoveAt(q, i))
                /\ \A x : Contains(RemoveAt(q, i), x) <=> Contains(q, x) /\ x # q[i]
<1>0. Len(q) \in Nat
  BY LenProperties
<1>. DEFINE r == RemoveAt(q, i)
            src(j) == IF j < i THEN j ELSE j + 1
<1>1. /\ r \in Seq(S) /\ Len(r) = Len(q) - 1
      /\ \A j \in 1..(Len(q) - 1) : r[j] = IF j < i THEN q[j] ELSE q[j + 1]
  BY RemoveAtProperties
<1>. HIDE DEF r
<1>2. ASSUME NEW j \in 1..Len(r)
      PROVE  src(j) \in 1..Len(q) /\ src(j) # i /\ r[j] = q[src(j)]
  BY <1>0, <1>1
<1>3. ASSUME NEW m \in 1..Len(q), m # i PROVE \E j \in 1..Len(r) : r[j] = q[m]
  <2>1. CASE m < i
    <3>1. m \in 1..Len(r) /\ r[m] = q[m]
      BY <1>0, <1>1, <2>1
    <3>. QED
      BY <3>1
  <2>2. CASE m > i
    <3>1. m - 1 \in 1..Len(r) /\ (m - 1) + 1 = m /\ ~(m - 1 < i)
      BY <1>0, <1>1, <2>2
    <3>2. r[m - 1] = q[m]
      BY <1>1, <3>1
    <3>. QED
      BY <3>1, <3>2
  <2>. QED
    BY <1>0, <1>3, <2>1, <2>2
<1>4. ASSUME NoDuplicate(q) PROVE NoDuplicate(r)
  <2>1. SUFFICES ASSUME NEW j \in 1..Len(r), NEW m \in 1..Len(r), r[j] = r[m] PROVE j = m
    BY DEF NoDuplicate
  <2>2. src(j) = src(m)
    <3>1. /\ src(j) \in 1..Len(q) /\ src(m) \in 1..Len(q)
          /\ q[src(j)] = q[src(m)]
      BY <1>2, <2>1
    <3>. QED
      BY <1>4, <3>1 DEF NoDuplicate
  <2>. QED
    BY <1>0, <1>1, <2>2
<1>5. ASSUME NoDuplicate(q), NEW x PROVE Contains(r, x) <=> Contains(q, x) /\ x # q[i]
  <2>1. ASSUME NEW j \in 1..Len(r), r[j] = x PROVE Contains(q, x) /\ x # q[i]
    <3>1. src(j) \in 1..Len(q) /\ src(j) # i /\ q[src(j)] = x
      BY <1>2, <2>1
    <3>. QED
      BY <1>5, <3>1 DEF Contains, NoDuplicate
  <2>2. ASSUME Contains(q, x), x # q[i] PROVE Contains(r, x)
    BY <1>3, <2>2 DEF Contains
  <2>. QED
    BY <2>1, <2>2 DEF Contains
<1>. QED
  BY <1>1, <1>4, <1>5 DEF r

-----------------------------------------------------------------------------
(* The order in which a list serves its tasks.                             *)

\* A task that is in |q| and in |r| has in front of it in |r| only tasks of a
\* higher priority and tasks it already had in front of it in |q|.
KeepsOrder(q, r, pr) ==
    \A i \in 1..Len(q), k, l \in 1..Len(r) :
        r[l] = q[i] /\ k < l => \/ pr[r[k]] > pr[r[l]]
                               \/ \E j \in 1..(i - 1) : q[j] = r[k]

\* A list that does not change keeps its order.
LEMMA SameOrder ==
    ASSUME NEW S, NEW q \in Seq(S), NoDuplicate(q), NEW pr PROVE KeepsOrder(q, q, pr)
<1>1. SUFFICES ASSUME NEW i \in 1..Len(q), NEW k \in 1..Len(q), NEW l \in 1..Len(q),
                      q[l] = q[i], k < l
               PROVE  \E j \in 1..(i - 1) : q[j] = q[k]
  BY DEF KeepsOrder
<1>2. l = i
  BY <1>1 DEF NoDuplicate
<1>3. Len(q) \in Nat
  BY LenProperties
<1>4. k \in 1..(i - 1)
  BY <1>1, <1>2, <1>3
<1>. QED
  BY <1>4

\* list_remove_head() leaves the others in order.
LEMMA TailOrder ==
    ASSUME NEW S, NEW q \in Seq(S), q # << >>, NoDuplicate(q), NEW pr
    PROVE  KeepsOrder(q, Tail(q), pr)
<1>. DEFINE r == Tail(q)
<1>1. /\ Len(q) \in Nat /\ Len(r) = Len(q) - 1
      /\ \A i \in 1..Len(r) : r[i] = q[i + 1]
  BY LenProperties, HeadTailProperties
<1>. HIDE DEF r
<1>2. SUFFICES ASSUME NEW i \in 1..Len(q), NEW k \in 1..Len(r), NEW l \in 1..Len(r),
                      r[l] = q[i], k < l
               PROVE  \E j \in 1..(i - 1) : q[j] = r[k]
  BY DEF KeepsOrder, r
<1>3. l + 1 \in 1..Len(q) /\ q[l + 1] = q[i]
  BY <1>1, <1>2
<1>4. l + 1 = i
  BY <1>3 DEF NoDuplicate
<1>5. k + 1 \in 1..(i - 1) /\ q[k + 1] = r[k]
  BY <1>1, <1>2, <1>4
<1>. QED
  BY <1>5

\* task_put() puts a task in front of the tasks of a lower priority only.
LEMMA TaskPutOrder ==
    ASSUME NEW S, NEW q \in Seq(S), NEW t \in S, NEW pr \in [S -> Int],
           NoDuplicate(q), Ordered(q, pr), ~Contains(q, t)
    PROVE  KeepsOrder(q, task_put(q, t, pr), pr)
<1>. DEFINE r == task_put(q, t, pr)
<1>1. PICK m \in 1..(Len(q) + 1) :
        /\ Inserted(r, q, m, t)
        /\ m <= Len(q) => pr[q[m]] < pr[t]
  BY TaskPutProperties
<1>2. /\ Len(q) \in Nat /\ Len(r) = Len(q) + 1 /\ r[m] = t
      /\ \A j \in 1..Len(q) : q[j] \in S /\ pr[q[j]] \in Int
      /\ pr[t] \in Int
  BY <1>1, LenProperties, ElementOfSeq DEF Inserted
<1>3. /\ \A j \in 1..(Len(q) + 1) : j < m => r[j] = q[j]
      /\ \A j \in 1..(Len(q) + 1) : j > m => r[j] = q[j - 1]
  BY <1>1, <1>2 DEF Inserted
<1>. HIDE DEF r
<1>4. SUFFICES ASSUME NEW i \in 1..Len(q), NEW k \in 1..Len(r), NEW l \in 1..Len(r),
                      r[l] = q[i], k < l
               PROVE  \/ pr[r[k]] > pr[r[l]]
                      \/ \E j \in 1..(i - 1) : q[j] = r[k]
  BY DEF KeepsOrder, r
<1>5. l # m
  BY <1>2, <1>4 DEF Contains
<1>6. CASE l < m
  <2>1. l \in 1..Len(q) /\ q[l] = q[i] /\ r[k] = q[k]
    <3>1. l \in 1..Len(q) /\ l \in 1..(Len(q) + 1) /\ k \in 1..(Len(q) + 1) /\ k < m
      BY <1>2, <1>4, <1>6
    <3>2. r[l] = q[l] /\ r[k] = q[k]
      BY <1>3, <1>6, <3>1
    <3>. QED
      BY <1>4, <3>1, <3>2
  <2>2. l = i
    BY <2>1 DEF NoDuplicate
  <2>3. k \in 1..(i - 1)
    BY <1>2, <1>4, <2>2
  <2>. QED
    BY <2>1, <2>3
<1>7. CASE l > m
  <2>1. l - 1 \in 1..Len(q) /\ q[l - 1] = q[i]
    BY <1>2, <1>3, <1>4, <1>7, SMTT(30)
  <2>2. l - 1 = i
    BY <2>1 DEF NoDuplicate
  <2>3. CASE k < m
    <3>1. k \in 1..(i - 1) /\ k \in 1..(Len(q) + 1)
      BY <1>2, <1>4, <1>7, <2>2, <2>3
    <3>2. r[k] = q[k]
      BY <1>3, <2>3, <3>1
    <3>. QED
      BY <3>1, <3>2
  <2>4. CASE k > m
    <3>1. k - 1 \in 1..(i - 1) /\ q[k - 1] = r[k]
      BY <1>2, <1>3, <1>4, <2>2, <2>4, SMTT(30)
    <3>. QED
      BY <3>1
  <2>5. CASE k = m
    <3>1. m \in 1..Len(q) /\ m <= i
      BY <1>2, <1>4, <1>7, <2>2
    <3>2. pr[q[m]] >= pr[q[i]]
      <4>1. CASE m = i
        BY <1>2, <4>1
      <4>2. CASE m < i
        BY <3>1, <4>2 DEF Ordered
      <4>. QED
        BY <3>1, <4>1, <4>2
    <3>3. pr[q[m]] < pr[t]
      BY <1>1, <3>1
    <3>4. pr[q[m]] \in Int /\ pr[q[i]] \in Int
      BY <1>2, <3>1
    <3>5. pr[t] > pr[q[i]]
      BY <1>2, <3>2, <3>3, <3>4
    <3>. QED
      BY <1>2, <1>4, <2>5, <3>5
  <2>. QED
    BY <1>2, <2>3, <2>4, <2>5
<1>. QED
  BY <1>2, <1>5, <1>6, <1>7

\* Two such changes make one, unless the first drops a task the second restores.
LEMMA OrderTransitive ==
    ASSUME NEW S, NEW q \in Seq(S), NEW r \in Seq(S), NEW s \in Seq(S),
           NEW pr \in [S -> Int],
           KeepsOrder(q, r, pr), KeepsOrder(r, s, pr),
           \A x : Contains(q, x) /\ Contains(s, x) => Contains(r, x)
    PROVE  KeepsOrder(q, s, pr)
<1>1. SUFFICES ASSUME NEW i \in 1..Len(q), NEW k \in 1..Len(s), NEW l \in 1..Len(s),
                      s[l] = q[i], k < l
               PROVE  \/ pr[s[k]] > pr[s[l]]
                      \/ \E j \in 1..(i - 1) : q[j] = s[k]
  BY DEF KeepsOrder
<1>2. Contains(r, s[l])
  BY <1>1 DEF Contains
<1>3. PICK m \in 1..Len(r) : r[m] = s[l]
  BY <1>2 DEF Contains
<1>4. \/ pr[s[k]] > pr[s[l]]
      \/ \E j \in 1..(m - 1) : r[j] = s[k]
  BY <1>1, <1>3 DEF KeepsOrder
<1>5. ASSUME NEW n \in 1..(m - 1), r[n] = s[k]
      PROVE  \/ pr[s[k]] > pr[s[l]]
             \/ \E j \in 1..(i - 1) : q[j] = s[k]
  <2>1. Len(r) \in Nat
    BY LenProperties
  <2>2. n \in 1..Len(r) /\ n < m
    BY <2>1
  <2>3. r[m] = q[i]
    BY <1>1, <1>3
  <2>4. \/ pr[r[n]] > pr[r[m]]
        \/ \E j \in 1..(i - 1) : q[j] = r[n]
    BY <2>2, <2>3 DEF KeepsOrder
  <2>. QED
    BY <1>3, <1>5, <2>4
<1>. QED
  BY <1>4, <1>5
=============================================================================
