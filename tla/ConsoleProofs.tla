---------------------------- MODULE ConsoleProofs ----------------------------
(***************************************************************************)
(* Proofs about the console: Uart keeps the bytes in order in both         *)
(* directions and the TX interrupt armed, for any sizes of the buffers;    *)
(* RingBuffer implements the queue that Uart and BoundedFifo take a ring   *)
(* buffer for.                                                             *)
(***************************************************************************)
EXTENDS Uart, RingBuffer, SequenceTheorems, WellFoundedInduction, TLAPS

-----------------------------------------------------------------------------
(* Lemmas about increasing sequences.                                      *)

\* Whatever is in |a| is less than whatever is in |b|.
Below(a, b) == \A x \in Range(a), y \in Range(b) : x < y

\* The elements of a sequence, by their positions.
LEMMA RangeOf ==
    ASSUME NEW S, NEW s \in Seq(S)
    PROVE  /\ Len(s) \in Nat /\ Range(s) \subseteq S
           /\ \A x : x \in Range(s) <=> \E i \in 1..Len(s) : s[i] = x
BY LenProperties, ElementOfSeq DEF Range

\* A concatenation increases if its parts do and come one after the other.
LEMMA IncreasingConcat ==
    ASSUME NEW a \in Seq(Int), NEW b \in Seq(Int)
    PROVE  /\ a \o b \in Seq(Int) /\ Range(a \o b) = Range(a) \cup Range(b)
           /\ Increasing(a \o b) <=> Increasing(a) /\ Increasing(b) /\ Below(a, b)
<1>1. PICK c : c = a \o b
  OBVIOUS
<1>2. /\ c \in Seq(Int) /\ Len(c) = Len(a) + Len(b) /\ Len(a) \in Nat /\ Len(b) \in Nat
      /\ \A i \in 1..(Len(a) + Len(b)) : c[i] = IF i <= Len(a) THEN a[i] ELSE b[i - Len(a)]
  BY <1>1, ConcatProperties, LenProperties
<1>3. \A i \in 1..Len(a) : i \in 1..Len(c) /\ c[i] = a[i] /\ a[i] \in Int
  BY <1>2, ElementOfSeq, SMTT(30)
<1>4. ASSUME NEW i \in 1..Len(b)
      PROVE  Len(a) + i \in 1..Len(c) /\ c[Len(a) + i] = b[i] /\ b[i] \in Int
  <2>1. Len(a) + i \in 1..Len(c) /\ ~(Len(a) + i <= Len(a)) /\ (Len(a) + i) - Len(a) = i
    BY <1>2
  <2>. QED
    BY <1>2, <2>1, ElementOfSeq
<1>5. ASSUME NEW i \in 1..Len(c)
      PROVE  \/ i \in 1..Len(a) /\ c[i] = a[i]
             \/ /\ i - Len(a) \in 1..Len(b) /\ c[i] = b[i - Len(a)] /\ i > Len(a)
  BY <1>2
<1>6. Range(c) = Range(a) \cup Range(b)
  <2>1. ASSUME NEW x \in Range(c) PROVE x \in Range(a) \cup Range(b)
    <3>1. PICK i \in 1..Len(c) : c[i] = x
      BY <1>2, RangeOf
    <3>2. CASE i \in 1..Len(a) /\ c[i] = a[i]
      BY <3>1, <3>2, RangeOf
    <3>3. CASE i - Len(a) \in 1..Len(b) /\ c[i] = b[i - Len(a)]
      BY <3>1, <3>3, RangeOf
    <3>. QED
      BY <1>5, <3>2, <3>3
  <2>2. ASSUME NEW x \in Range(a) PROVE x \in Range(c)
    <3>1. PICK i \in 1..Len(a) : a[i] = x
      BY RangeOf
    <3>2. i \in 1..Len(c) /\ c[i] = x
      BY <1>3, <3>1
    <3>. QED
      BY <1>2, <3>2, RangeOf
  <2>3. ASSUME NEW x \in Range(b) PROVE x \in Range(c)
    <3>1. PICK i \in 1..Len(b) : b[i] = x
      BY RangeOf
    <3>2. Len(a) + i \in 1..Len(c) /\ c[Len(a) + i] = x
      BY <1>4, <3>1
    <3>. QED
      BY <1>2, <3>2, RangeOf
  <2>. QED
    BY <2>1, <2>2, <2>3
<1>7. ASSUME Increasing(c) PROVE Increasing(a) /\ Increasing(b) /\ Below(a, b)
  <2>1. Increasing(a)
    BY <1>3, <1>7 DEF Increasing
  <2>2. ASSUME NEW i \in 1..Len(b), NEW j \in 1..Len(b), i < j PROVE b[i] < b[j]
    <3>1. Len(a) + i < Len(a) + j
      BY <1>2, <2>2
    <3>. QED
      BY <1>4, <1>7, <3>1 DEF Increasing
  <2>3. ASSUME NEW i \in 1..Len(a), NEW j \in 1..Len(b) PROVE a[i] < b[j]
    <3>1. i < Len(a) + j
      BY <1>2
    <3>. QED
      BY <1>3, <1>4, <1>7, <3>1 DEF Increasing
  <2>4. Below(a, b)
    BY <2>3, RangeOf, SMTT(30) DEF Below
  <2>. QED
    BY <2>1, <2>2, <2>4 DEF Increasing
<1>8. ASSUME Increasing(a), Increasing(b), Below(a, b) PROVE Increasing(c)
  <2>. SUFFICES ASSUME NEW i \in 1..Len(c), NEW j \in 1..Len(c), i < j PROVE c[i] < c[j]
    BY DEF Increasing
  <2>1. CASE j \in 1..Len(a)
    <3>1. i \in 1..Len(a)
      BY <1>2, <2>1
    <3>. QED
      BY <1>3, <1>8, <2>1, <3>1 DEF Increasing
  <2>2. CASE i \in 1..Len(a) /\ j - Len(a) \in 1..Len(b) /\ c[j] = b[j - Len(a)]
    <3>1. c[i] \in Range(a) /\ c[j] \in Range(b)
      BY <1>3, <2>2, RangeOf
    <3>. QED
      BY <1>8, <3>1 DEF Below
  <2>3. CASE /\ i - Len(a) \in 1..Len(b) /\ c[i] = b[i - Len(a)]
             /\ j - Len(a) \in 1..Len(b) /\ c[j] = b[j - Len(a)]
    <3>1. i - Len(a) < j - Len(a)
      BY <1>2
    <3>. QED
      BY <1>8, <2>3, <3>1 DEF Increasing
  <2>4. i > Len(a) => j > Len(a)
    BY <1>2
  <2>. QED
    BY <1>2, <1>5, <2>1, <2>2, <2>3, <2>4
<1>. QED
  BY <1>1, <1>2, <1>6, <1>7, <1>8

\* Three sequences, one after the other.
Chain(a, b, c) ==
    /\ Increasing(a) /\ Increasing(b) /\ Increasing(c)
    /\ Below(a, b) /\ Below(a, c) /\ Below(b, c)

\* A concatenation of three.
LEMMA IncreasingChain ==
    ASSUME NEW a \in Seq(Int), NEW b \in Seq(Int), NEW c \in Seq(Int)
    PROVE  /\ Range(a \o b \o c) = Range(a) \cup Range(b) \cup Range(c)
           /\ Increasing(a \o b \o c) <=> Chain(a, b, c)
<1>1. /\ a \o b \in Seq(Int) /\ Range(a \o b) = Range(a) \cup Range(b)
      /\ Increasing(a \o b) <=> Increasing(a) /\ Increasing(b) /\ Below(a, b)
  BY IncreasingConcat
<1>2. PICK d \in Seq(Int) : d = a \o b
  BY <1>1
<1>3. /\ Range(d \o c) = Range(d) \cup Range(c)
      /\ Increasing(d \o c) <=> Increasing(d) /\ Increasing(c) /\ Below(d, c)
  BY IncreasingConcat
<1>4. Below(d, c) <=> Below(a, c) /\ Below(b, c)
  BY <1>1, <1>2 DEF Below
<1>. QED
  BY <1>1, <1>2, <1>3, <1>4 DEF Chain

\* The first element leaves the sequence.
LEMMA IncreasingTail ==
    ASSUME NEW S, S \subseteq Int, NEW s \in Seq(S), s # << >>, Increasing(s)
    PROVE  /\ Head(s) \in S /\ Tail(s) \in Seq(S) /\ Len(Tail(s)) = Len(s) - 1
           /\ Increasing(Tail(s)) /\ Range(s) = { Head(s) } \cup Range(Tail(s))
           /\ \A x \in Range(Tail(s)) : Head(s) < x
<1>1. PICK r : r = Tail(s)
  OBVIOUS
<1>2. /\ Head(s) \in S /\ r \in Seq(S) /\ Len(r) = Len(s) - 1 /\ Len(s) \in Nat \ {0}
      /\ \A i \in 1..Len(r) : r[i] = s[i + 1]
      /\ Head(s) = s[1]
  BY <1>1, HeadTailProperties, EmptySeq
<1>3. Increasing(r)
  <2>. SUFFICES ASSUME NEW i \in 1..Len(r), NEW j \in 1..Len(r), i < j PROVE r[i] < r[j]
    BY DEF Increasing
  <2>1. i + 1 \in 1..Len(s) /\ j + 1 \in 1..Len(s) /\ i + 1 < j + 1
    BY <1>2
  <2>. QED
    BY <1>2, <2>1 DEF Increasing
<1>4. \A x \in Range(r) : s[1] < x /\ x \in Range(s)
  <2>1. ASSUME NEW i \in 1..Len(r) PROVE s[1] < r[i] /\ r[i] \in Range(s)
    <3>1. 1 \in 1..Len(s) /\ i + 1 \in 1..Len(s) /\ 1 < i + 1
      BY <1>2
    <3>. QED
      BY <1>2, <3>1, RangeOf DEF Increasing
  <2>. QED
    BY <1>2, <2>1, RangeOf
<1>5. \A x \in Range(s) : x = s[1] \/ x \in Range(r)
  <2>1. ASSUME NEW i \in 1..Len(s), i # 1 PROVE s[i] \in Range(r)
    <3>1. i - 1 \in 1..Len(r) /\ (i - 1) + 1 = i
      BY <1>2, <2>1
    <3>2. r[i - 1] = s[i]
      BY <1>2, <3>1
    <3>. QED
      BY <1>2, <3>1, <3>2, RangeOf
  <2>. QED
    BY <2>1, RangeOf
<1>6. s[1] \in Range(s)
  <2>1. 1 \in 1..Len(s)
    BY <1>2
  <2>. QED
    BY <2>1, RangeOf
<1>. QED
  BY <1>1, <1>2, <1>3, <1>4, <1>5, <1>6

\* An element is put behind the others.
LEMMA IncreasingAppend ==
    ASSUME NEW S, S \subseteq Int, NEW s \in Seq(S), NEW e \in S, Increasing(s),
           \A x \in Range(s) : x < e
    PROVE  /\ Append(s, e) \in Seq(S) /\ Len(Append(s, e)) = Len(s) + 1
           /\ Increasing(Append(s, e)) /\ Range(Append(s, e)) = Range(s) \cup { e }
<1>1. PICK r : r = Append(s, e)
  OBVIOUS
<1>2. /\ r \in Seq(S) /\ Len(r) = Len(s) + 1 /\ Len(s) \in Nat
      /\ \A i \in 1..Len(s) : r[i] = s[i]
      /\ r[Len(s) + 1] = e
  BY <1>1, AppendProperties, LenProperties
<1>3. \A i \in 1..Len(r) : i \in 1..Len(s) \/ i = Len(s) + 1
  BY <1>2
<1>4. Increasing(r)
  <2>. SUFFICES ASSUME NEW i \in 1..Len(r), NEW j \in 1..Len(r), i < j PROVE r[i] < r[j]
    BY DEF Increasing
  <2>1. i \in 1..Len(s)
    BY <1>2
  <2>2. CASE j \in 1..Len(s)
    BY <1>2, <2>1, <2>2 DEF Increasing
  <2>3. CASE j = Len(s) + 1
    BY <1>2, <2>1, <2>3, RangeOf
  <2>. QED
    BY <1>3, <2>2, <2>3
<1>5. Range(r) = Range(s) \cup { e }
  <2>1. \A i \in 1..Len(s) : i \in 1..Len(r)
    BY <1>2
  <2>2. Len(s) + 1 \in 1..Len(r)
    BY <1>2
  <2>3. ASSUME NEW x PROVE x \in Range(r) <=> x \in Range(s) \/ x = e
    BY <1>2, <1>3, <2>1, <2>2, RangeOf
  <2>. QED
    BY <2>3
<1>. QED
  BY <1>1, <1>2, <1>4, <1>5

\* The last elements of a sequence: what a full ring buffer keeps.
LEMMA IncreasingKeepLast ==
    ASSUME NEW S, S \subseteq Int, NEW s \in Seq(S), NEW cap \in Nat, Increasing(s)
    PROVE  /\ KeepLast(s, cap) \in Seq(S) /\ Len(KeepLast(s, cap)) <= cap
           /\ Increasing(KeepLast(s, cap)) /\ Range(KeepLast(s, cap)) \subseteq Range(s)
<1>1. Len(s) \in Nat
  BY LenProperties
<1>2. CASE ~(Len(s) > cap)
  BY <1>1, <1>2 DEF KeepLast
<1>3. CASE Len(s) > cap
  <2>1. PICK r, k : r = SubSeq(s, k + 1, Len(s)) /\ k = Len(s) - cap
    OBVIOUS
  <2>2. \A i \in (k + 1)..Len(s) : i \in 1..Len(s) /\ s[i] \in S
    BY <1>1, <1>3, <2>1, ElementOfSeq
  <2>3. /\ r \in Seq(S) /\ Len(r) = cap /\ \A i \in 1..cap : r[i] = s[k + i]
    <3>1. k + 1 \in Int /\ Len(s) \in Int /\ Len(s) - (k + 1) + 1 = cap
          /\ (k + 1 <= Len(s) => cap = Len(s) - (k + 1) + 1) /\ (~(k + 1 <= Len(s)) => cap = 0)
      BY <1>1, <1>3, <2>1
    <3>2. \A i \in 1..cap : (k + 1) + i - 1 = k + i
      BY <1>1, <2>1
    <3>3. /\ r \in Seq(S) /\ Len(r) = IF k + 1 <= Len(s) THEN Len(s) - (k + 1) + 1 ELSE 0
          /\ \A i \in 1..(Len(s) - (k + 1) + 1) : r[i] = s[(k + 1) + i - 1]
      BY <2>1, <2>2, <3>1, SubSeqProperties
    <3>. QED
      BY <3>1, <3>2, <3>3
  <2>4. \A i \in 1..cap : k + i \in 1..Len(s)
    BY <1>1, <1>3, <2>1
  <2>5. Increasing(r)
    <3>. SUFFICES ASSUME NEW i \in 1..cap, NEW j \in 1..cap, i < j PROVE r[i] < r[j]
      BY <2>3 DEF Increasing
    <3>1. k + i < k + j
      BY <1>1, <2>1
    <3>. QED
      BY <2>3, <2>4, <3>1 DEF Increasing
  <2>6. Range(r) \subseteq Range(s)
    BY <2>3, <2>4, RangeOf
  <2>7. KeepLast(s, cap) = r
    <3>1. k + 1 = Len(s) - cap + 1
      BY <2>1
    <3>. QED
      BY <1>3, <2>1, <3>1 DEF KeepLast
  <2>. QED
    BY <2>3, <2>5, <2>6, <2>7
<1>. QED
  BY <1>2, <1>3

-----------------------------------------------------------------------------
(* The invariant of Uart.                                                  *)

\* The loop of RX_DATA finds the bytes it has still to pull in the FIFO: it was started
\* by as many, and only the handler takes them out.
RxEnough == handler = "RX_DATA" => count <= Trigger /\ Len(rx_buf) + count >= Trigger

\* The loop of TX_EMPTY has written what is in the FIFO: it was started by an empty one,
\* and only the handler fills it.
TxRoom == handler = "TX_EMPTY" => count <= FifoSize /\ Len(tx_buf) <= count

\* The bytes on their way out, and the ones that were lost.
Out == Range(stdout) \cup Range(tx_buf) \cup Range(tx_ring)
OutputInv ==
    /\ Chain(stdout, tx_buf, tx_ring)
    /\ Out \cup lost = 1..sent /\ Out \cap lost = {}

\* The bytes on their way in, none of which is still to come.
InputInv ==
    /\ Increasing(rx_ring) /\ Increasing(rx_buf) /\ Below(rx_ring, rx_buf)
    /\ \A x \in Range(rx_ring) \cup Range(rx_buf) : returned < x /\ x <= typed
    /\ returned <= typed

UartInv ==
    /\ TypeOK /\ RxEnough /\ TxRoom
    /\ TxArmed /\ OutputInv /\ InputInv

\* Names for the sets of the type invariant.
Identity == Interrupt \cup { NoInterrupt }
Where == Interrupt \cup { "off", "isr" }
MaxCount == IF FifoSize > Trigger THEN FifoSize ELSE Trigger

\* The type invariant, one variable after the other.
LEMMA UartTypes ==
    TypeOK <=>
        /\ tx_ring \in Seq(1..MaxSent) /\ Len(tx_ring) <= RingCap
        /\ rx_ring \in Seq(1..MaxTyped) /\ Len(rx_ring) <= RingCap
        /\ tx_buf \in Seq(1..MaxSent) /\ Len(tx_buf) <= QUEUE_SZ
        /\ rx_buf \in Seq(1..MaxTyped) /\ Len(rx_buf) <= QUEUE_SZ
        /\ binded \in { "no", "ier", "init", "yes" } /\ handler \in Where /\ count \in 0..MaxCount
        /\ ier_tx \in BOOLEAN /\ rxOverrun \in BOOLEAN /\ quiet \in BOOLEAN /\ pending \in BOOLEAN
        /\ loop \in { "select", "sample", "send" }
        /\ intr \in Identity /\ lastIrq \in Identity /\ mgr \in Identity \cup { "recv" }
        /\ sent \in 0..MaxSent /\ typed \in 0..MaxTyped
        /\ lost \subseteq 1..MaxSent /\ stdout \in Seq(1..MaxSent) /\ returned \in 0..MaxTyped
<1>1. { ier_tx, rxOverrun, quiet, pending } \subseteq BOOLEAN <=>
        ier_tx \in BOOLEAN /\ rxOverrun \in BOOLEAN /\ quiet \in BOOLEAN /\ pending \in BOOLEAN
  BY Zenon
<1>2. { intr, lastIrq } \subseteq Identity <=> intr \in Identity /\ lastIrq \in Identity
  BY Zenon
<1>3. mgr \in Interrupt \cup { NoInterrupt, "recv" } <=> mgr \in Identity \cup { "recv" }
  BY DEF Identity
<1>. QED
  BY <1>1, <1>2, <1>3, Zenon DEF TypeOK, Identity, Where, MaxCount

\* The constants of the console are numbers.
LEMMA UartConstants ==
    /\ RingCap \in Nat \ {0} /\ QUEUE_SZ \in Nat \ {0} /\ FifoSize \in Nat \ {0}
    /\ Trigger \in Nat \ {0} /\ MaxSent \in Nat /\ MaxTyped \in Nat /\ Sizes \subseteq Nat \ {0}
    /\ FifoSize <= QUEUE_SZ /\ MaxCount \in Nat /\ FifoSize <= MaxCount /\ Trigger <= MaxCount
    /\ 1..MaxSent \subseteq Int /\ 1..MaxTyped \subseteq Int
BY UartAssumption DEF MaxCount

\* No byte on its way out moves.
LEMMA OutputKept ==
    ASSUME OutputInv, UNCHANGED << stdout, tx_buf, tx_ring, sent, lost >>
    PROVE  OutputInv'
BY DEF OutputInv, Out, Chain, Increasing, Below

\* No byte on its way in moves.
LEMMA InputKept ==
    ASSUME InputInv, UNCHANGED << returned, rx_ring, rx_buf, typed >>
    PROVE  InputInv'
BY DEF InputInv, Increasing, Below

\* The queues are empty at first.
LEMMA UartInvInit == Init => UartInv
<1>. SUFFICES ASSUME Init PROVE UartInv
  OBVIOUS
<1>. USE UartConstants DEF Init
<1>1. \A S : << >> \in Seq(S) /\ Len(<< >>) = 0
  BY EmptySeq
<1>2. Range(<< >>) = {}
  BY DEF Range
<1>3. TypeOK
  <2>1. handler \in Where /\ intr \in Identity /\ lastIrq \in Identity
    BY DEF Where, Identity
  <2>2. 0 \in 0..MaxSent /\ 0 \in 0..MaxTyped /\ 0 \in 0..MaxCount /\ 0 <= RingCap /\ 0 <= QUEUE_SZ
    OBVIOUS
  <2>. QED
    BY <1>1, <2>1, <2>2, UartTypes
<1>4. Increasing(<< >>)
  BY <1>1 DEF Increasing
<1>5. OutputInv
  <2>1. 1..0 = {}
    OBVIOUS
  <2>2. Below(<< >>, << >>)
    BY <1>2 DEF Below
  <2>. QED
    BY <1>2, <1>4, <2>1, <2>2 DEF OutputInv, Out, Chain
<1>6. InputInv
  BY <1>2, <1>4 DEF InputInv, Below
<1>. QED
  BY <1>3, <1>5, <1>6 DEF UartInv, RxEnough, TxRoom, TxArmed

-----------------------------------------------------------------------------
(* The steps of Uart.                                                      *)

\* The numbers of the bytes a call sends.
LEMMA NewBytes ==
    ASSUME NEW s \in 0..MaxSent, NEW n \in Sizes, s + n <= MaxSent, NEW new,
           new = [ i \in 1..n |-> s + i ]
    PROVE  /\ new \in Seq(1..MaxSent) /\ Increasing(new) /\ Range(new) = (s + 1)..(s + n)
           /\ new \in Seq(Int)
<1>1. n \in Nat /\ s \in Nat /\ MaxSent \in Nat
  BY UartConstants
<1>2. \A i \in 1..n : s + i \in 1..MaxSent
  BY <1>1
<1>3. new \in Seq(1..MaxSent) /\ Len(new) = n
  BY <1>1, <1>2
<1>4. PICK r : /\ r = new /\ r \in Seq(1..MaxSent) /\ Len(r) = n
               /\ \A i \in 1..n : r[i] = s + i
  <2>1. \A i \in 1..n : new[i] = s + i
    OBVIOUS
  <2>. QED
    BY <1>3, <2>1, Zenon
<1>5. Increasing(r)
  BY <1>1, <1>4 DEF Increasing
<1>6. Range(r) = (s + 1)..(s + n)
  <2>1. \A x : x \in Range(r) <=> \E i \in 1..Len(r) : r[i] = x
    <3>1. r \in Seq(1..MaxSent)
      BY <1>4
    <3>. QED
      BY <3>1, RangeOf
  <2>2. ASSUME NEW x \in Range(r) PROVE x \in (s + 1)..(s + n)
    <3>1. PICK i \in 1..n : s + i = x
      BY <1>4, <2>1
    <3>. QED
      BY <1>1, <3>1
  <2>3. ASSUME NEW x \in (s + 1)..(s + n) PROVE x \in Range(r)
    <3>1. x - s \in 1..n /\ s + (x - s) = x
      BY <1>1
    <3>2. r[x - s] = x
      BY <1>4, <3>1
    <3>. QED
      BY <1>4, <2>1, <3>1, <3>2
  <2>. QED
    BY <2>2, <2>3
<1>7. r \in Seq(Int)
  BY <1>4, SeqMonotonic, UartConstants
<1>. QED
  BY <1>4, <1>5, <1>6, <1>7

\* The bytes a console call queues come after all the others; what the full ring buffer
\* gives up is counted as lost.
LEMMA WriteInv ==
    ASSUME UartInv, NEW n \in Sizes, Write(n)
    PROVE  UartInv'
<1>. USE UartConstants
<1>1. PICK new : new = [ i \in 1..n |-> sent + i ]
  OBVIOUS
<1>2. /\ handler = "off" /\ sent + n <= MaxSent /\ sent' = sent + n
      /\ tx_ring' = KeepLast(tx_ring \o new, RingCap)
      /\ lost' = lost \cup (Range(tx_ring \o new) \ Range(tx_ring'))
      /\ ier_tx' = (ier_tx \/ binded = "yes")
      /\ UNCHANGED << rx_ring, binded, returned, handler, count, tx_buf, rx_buf, rxOverrun,
                      quiet, loop, intr, mgr, lastIrq, pending, typed, stdout >>
  BY <1>1 DEF Write, start_xmit, PushAll, driver, board
<1>3. TypeOK /\ OutputInv /\ InputInv
  BY DEF UartInv
<1>4. /\ tx_ring \in Seq(1..MaxSent) /\ tx_buf \in Seq(1..MaxSent) /\ stdout \in Seq(1..MaxSent)
      /\ sent \in 0..MaxSent /\ lost \subseteq 1..MaxSent
  BY <1>3, UartTypes
<1>5. /\ new \in Seq(1..MaxSent) /\ Increasing(new) /\ Range(new) = (sent + 1)..(sent + n)
      /\ new \in Seq(Int)
  BY <1>1, <1>2, <1>4, NewBytes
<1>6. PICK all : all = tx_ring \o new
  OBVIOUS
<1>7. all \in Seq(1..MaxSent)
  BY <1>4, <1>5, <1>6, ConcatProperties
<1>8. Range(all) = Range(tx_ring) \cup Range(new) /\ Increasing(all)
  <2>1. tx_ring \in Seq(Int)
    BY <1>4, SeqMonotonic
  <2>2. Range(tx_ring) \subseteq 1..sent
    BY <1>3 DEF OutputInv, Out
  <2>3. Below(tx_ring, new)
    BY <1>4, <1>5, <2>2 DEF Below
  <2>. QED
    BY <1>3, <1>5, <1>6, <2>1, <2>3, IncreasingConcat DEF OutputInv, Chain
<1>9. /\ tx_ring' \in Seq(1..MaxSent) /\ Len(tx_ring') <= RingCap
      /\ Increasing(tx_ring') /\ Range(tx_ring') \subseteq Range(all)
  BY <1>2, <1>6, <1>7, <1>8, IncreasingKeepLast
<1>10. lost' = lost \cup (Range(all) \ Range(tx_ring'))
  BY <1>2, <1>6
<1>11. Range(stdout) \cup Range(tx_buf) \cup Range(tx_ring) \cup lost = 1..sent
  BY <1>3 DEF OutputInv, Out
<1>12. (1..sent) \cup Range(new) = 1..(sent + n)
  BY <1>4, <1>5
<1>13. \A x \in Range(new) : x \notin 1..sent
  BY <1>4, <1>5
<1>14. OutputInv'
  <2>1. \A x \in Range(stdout) \cup Range(tx_buf), y \in Range(all) : x < y
    <3>1. \A x \in 1..sent, y \in Range(new) : x < y
      BY <1>4, <1>5
    <3>. QED
      BY <1>3, <1>8, <1>11, <3>1 DEF OutputInv, Chain, Below
  <2>2. Chain(stdout, tx_buf, tx_ring)'
    BY <1>2, <1>3, <1>9, <2>1 DEF OutputInv, Chain, Below, Increasing
  <2>3. Out' = Range(stdout) \cup Range(tx_buf) \cup Range(tx_ring')
    BY <1>2 DEF Out
  <2>4. Out' \cup lost' = 1..sent'
    BY <1>2, <1>8, <1>9, <1>10, <1>11, <1>12, <2>3
  <2>5. Out' \cap lost' = {}
    <3>1. \A x \in Range(stdout) \cup Range(tx_buf) : x \notin Range(all)
      <4>1. Range(all) \subseteq Int
        BY <1>7, RangeOf
      <4>. QED
        BY <2>1, <4>1
    <3>2. \A x \in Range(all) : x \notin lost
      BY <1>3, <1>8, <1>11, <1>13 DEF OutputInv, Out
    <3>. QED
      BY <1>3, <1>9, <1>10, <2>3, <3>1, <3>2 DEF OutputInv, Out
  <2>. QED
    BY <2>2, <2>4, <2>5 DEF OutputInv
<1>15. TypeOK'
  <2>1. sent' \in 0..MaxSent
    BY <1>2, <1>4
  <2>2. lost' \subseteq 1..MaxSent
    BY <1>4, <1>7, <1>10, RangeOf
  <2>3. ier_tx' \in BOOLEAN
    BY <1>2
  <2>. QED
    BY <1>2, <1>3, <1>9, <2>1, <2>2, <2>3, Zenon DEF TypeOK
<1>16. InputInv'
  BY <1>2, <1>3, InputKept
<1>. QED
  BY <1>2, <1>14, <1>15, <1>16 DEF UartInv, RxEnough, TxRoom, TxArmed

\* getchar() takes the oldest byte of the ring buffer.
LEMMA GetcharInv ==
    ASSUME UartInv, Getchar
    PROVE  UartInv'
<1>. USE UartConstants
<1>1. TypeOK /\ OutputInv /\ InputInv
  BY DEF UartInv
<1>2. /\ rx_ring # << >> /\ returned' = Head(rx_ring) /\ rx_ring' = Tail(rx_ring)
      /\ UNCHANGED << tx_ring, binded, sent, lost, handler, count, ier_tx, tx_buf, rx_buf,
                      rxOverrun, quiet, loop, intr, mgr, lastIrq, pending, typed, stdout >>
  BY DEF Getchar, driver, regs, board
<1>3. /\ rx_ring \in Seq(1..MaxTyped) /\ Len(rx_ring) \in Nat /\ Len(rx_ring) <= RingCap
      /\ typed \in 0..MaxTyped
  BY <1>1, UartTypes, LenProperties
<1>4. /\ returned' \in 1..MaxTyped /\ rx_ring' \in Seq(1..MaxTyped) /\ Len(rx_ring') = Len(rx_ring) - 1
      /\ Increasing(rx_ring') /\ Range(rx_ring) = { returned' } \cup Range(rx_ring')
      /\ \A x \in Range(rx_ring') : returned' < x
  BY <1>1, <1>2, <1>3, IncreasingTail DEF InputInv
<1>5. TypeOK'
  <2>1. returned' \in 0..MaxTyped /\ Len(rx_ring') <= RingCap
    BY <1>3, <1>4
  <2>. QED
    BY <1>1, <1>2, <1>4, <2>1, Zenon DEF TypeOK
<1>6. InputInv'
  <2>1. Increasing(rx_buf') /\ typed' = typed /\ rx_buf' = rx_buf
    BY <1>1, <1>2 DEF InputInv, Increasing
  <2>2. returned' \in Range(rx_ring)
    BY <1>4
  <2>3. \A x \in Range(rx_buf) : returned' < x
    BY <1>1, <2>2 DEF InputInv, Below
  <2>4. returned' <= typed
    BY <1>1, <2>2 DEF InputInv
  <2>. QED
    BY <1>1, <1>4, <2>1, <2>3, <2>4 DEF InputInv, Below
<1>7. OutputInv'
  BY <1>1, <1>2, OutputKept
<1>. QED
  BY <1>2, <1>5, <1>6, <1>7 DEF UartInv, RxEnough, TxRoom, TxArmed

\* A byte goes from the FIFO of the device to the ring buffer, in order.
LEMMA PullByteInv ==
    ASSUME TypeOK, InputInv, PullByte, rx_buf # << >>, UNCHANGED << returned, typed >>
    PROVE  /\ rx_ring' \in Seq(1..MaxTyped) /\ Len(rx_ring') <= RingCap
           /\ rx_buf' \in Seq(1..MaxTyped) /\ Len(rx_buf') = Len(rx_buf) - 1 /\ Len(rx_buf) \in Nat
           /\ Len(rx_buf') <= QUEUE_SZ
           /\ InputInv'
<1>. USE UartConstants
<1>1. /\ rx_ring \in Seq(1..MaxTyped) /\ rx_buf \in Seq(1..MaxTyped) /\ Len(rx_buf) \in Nat
      /\ Len(rx_buf) <= QUEUE_SZ
  BY UartTypes, LenProperties
<1>2. PICK e, all : e = Head(rx_buf) /\ all = Append(rx_ring, e)
  OBVIOUS
<1>3. /\ e \in 1..MaxTyped /\ rx_buf' \in Seq(1..MaxTyped) /\ Len(rx_buf') = Len(rx_buf) - 1
      /\ Increasing(rx_buf') /\ Range(rx_buf) = { e } \cup Range(rx_buf')
      /\ \A x \in Range(rx_buf') : e < x
  BY <1>1, <1>2, IncreasingTail DEF InputInv, PullByte
<1>4. /\ all \in Seq(1..MaxTyped) /\ Increasing(all) /\ Range(all) = Range(rx_ring) \cup { e }
  <2>1. \A x \in Range(rx_ring) : x < e
    BY <1>3 DEF InputInv, Below
  <2>2. Increasing(rx_ring) /\ rx_ring \in Seq(1..MaxTyped) /\ e \in 1..MaxTyped
    BY <1>1, <1>3 DEF InputInv
  <2>3. /\ Append(rx_ring, e) \in Seq(1..MaxTyped) /\ Increasing(Append(rx_ring, e))
        /\ Range(Append(rx_ring, e)) = Range(rx_ring) \cup { e }
    BY <2>1, <2>2, IncreasingAppend
  <2>. QED
    BY <1>2, <2>3
<1>5. /\ rx_ring' \in Seq(1..MaxTyped) /\ Len(rx_ring') <= RingCap
      /\ Increasing(rx_ring') /\ Range(rx_ring') \subseteq Range(rx_ring) \cup { e }
  <2>1. rx_ring' = KeepLast(all, RingCap)
    BY <1>2 DEF PullByte, Push
  <2>. QED
    BY <1>4, <2>1, IncreasingKeepLast
<1>6. InputInv'
  <2>1. Below(rx_ring, rx_buf)'
    BY <1>3, <1>5 DEF InputInv, Below
  <2>2. \A x \in Range(rx_ring') \cup Range(rx_buf') : x \in Range(rx_ring) \cup Range(rx_buf)
    BY <1>3, <1>5
  <2>3. (Increasing(rx_ring) /\ Increasing(rx_buf))'
    BY <1>3, <1>5
  <2>. QED
    BY <2>1, <2>2, <2>3 DEF InputInv
<1>. QED
  BY <1>1, <1>3, <1>5, <1>6

\* RX_DATA: the FIFO still has the bytes that the loop pulls.
LEMMA RxDataInv ==
    ASSUME UartInv, HandlerRxData
    PROVE  UartInv'
<1>. USE UartConstants
<1>1. TypeOK /\ OutputInv /\ InputInv /\ RxEnough /\ TxArmed
  BY DEF UartInv
<1>2. /\ handler = "RX_DATA"
      /\ UNCHANGED << tx_ring, binded, sent, lost, returned, ier_tx, tx_buf, rxOverrun,
                      quiet, loop, intr, mgr, lastIrq, pending, typed, stdout >>
  BY DEF HandlerRxData, board
<1>3. count \in Nat /\ Len(rx_buf) + count >= Trigger /\ Len(rx_buf) \in Nat
  BY <1>1, <1>2, UartTypes, LenProperties DEF RxEnough
<1>4. OutputInv'
  BY <1>1, <1>2, OutputKept
<1>5. CASE count < Trigger /\ PullByte /\ count' = count + 1 /\ handler' = handler
  <2>1. rx_buf # << >>
    <3>1. Len(rx_buf) # 0
      BY <1>3, <1>5
    <3>. QED
      BY <3>1, EmptySeq
  <2>2. /\ rx_ring' \in Seq(1..MaxTyped) /\ Len(rx_ring') <= RingCap
        /\ rx_buf' \in Seq(1..MaxTyped) /\ Len(rx_buf') = Len(rx_buf) - 1 /\ Len(rx_buf') <= QUEUE_SZ
        /\ InputInv'
    BY <1>1, <1>2, <1>5, <2>1, PullByteInv
  <2>3. count' \in 0..MaxCount /\ count' <= Trigger /\ Len(rx_buf') + count' >= Trigger
    BY <1>3, <1>5, <2>2
  <2>4. TypeOK'
    BY <1>1, <1>2, <1>5, <2>2, <2>3, Zenon DEF TypeOK, MaxCount
  <2>. QED
    BY <1>1, <1>2, <1>4, <1>5, <2>2, <2>3, <2>4 DEF UartInv, RxEnough, TxRoom, TxArmed
<1>6. CASE handler' = "isr" /\ UNCHANGED << rx_ring, rx_buf, count >>
  <2>1. InputInv'
    BY <1>1, <1>2, <1>6, InputKept
  <2>2. TypeOK'
    BY <1>1, <1>2, <1>6, Zenon DEF TypeOK
  <2>. QED
    BY <1>1, <1>2, <1>4, <1>6, <2>1, <2>2 DEF UartInv, RxEnough, TxRoom, TxArmed
<1>. QED
  BY <1>5, <1>6 DEF HandlerRxData

\* RX_FIFO_TIMEOUT: a byte is pulled only when the status shows one.
LEMMA RxTimeoutInv ==
    ASSUME UartInv, HandlerRxTimeout
    PROVE  UartInv'
<1>. USE UartConstants
<1>1. TypeOK /\ OutputInv /\ InputInv /\ TxArmed
  BY DEF UartInv
<1>2. /\ handler = "RX_FIFO_TIMEOUT"
      /\ UNCHANGED << tx_ring, binded, sent, lost, returned, count, ier_tx, tx_buf,
                      quiet, loop, intr, mgr, lastIrq, pending, typed, stdout >>
  BY DEF HandlerRxTimeout, board
<1>3. OutputInv'
  BY <1>1, <1>2, OutputKept
<1>4. rxOverrun' \in BOOLEAN
  BY DEF HandlerRxTimeout, ReadLSR
<1>5. CASE rx_buf # << >> /\ PullByte /\ handler' = handler
  <2>1. /\ rx_ring' \in Seq(1..MaxTyped) /\ Len(rx_ring') <= RingCap
        /\ rx_buf' \in Seq(1..MaxTyped) /\ Len(rx_buf') <= QUEUE_SZ
        /\ InputInv'
    BY <1>1, <1>2, <1>5, PullByteInv
  <2>2. TypeOK'
    BY <1>1, <1>2, <1>4, <1>5, <2>1, Zenon DEF TypeOK
  <2>. QED
    BY <1>1, <1>2, <1>3, <1>5, <2>1, <2>2 DEF UartInv, RxEnough, TxRoom, TxArmed
<1>6. CASE handler' = "isr" /\ UNCHANGED << rx_ring, rx_buf >>
  <2>1. InputInv'
    BY <1>1, <1>2, <1>6, InputKept
  <2>2. TypeOK'
    BY <1>1, <1>2, <1>4, <1>6, Zenon DEF TypeOK
  <2>. QED
    BY <1>1, <1>2, <1>3, <1>6, <2>1, <2>2 DEF UartInv, RxEnough, TxRoom, TxArmed
<1>. QED
  BY <1>5, <1>6 DEF HandlerRxTimeout

\* TX_EMPTY: the FIFO has room for the byte that is written, which is not dropped.
LEMMA TxByteInv ==
    ASSUME UartInv, HandlerTxByte
    PROVE  UartInv'
<1>. USE UartConstants
<1>1. TypeOK /\ OutputInv /\ InputInv /\ TxArmed /\ TxRoom
  BY DEF UartInv
<1>2. /\ handler = "TX_EMPTY" /\ count < FifoSize /\ tx_ring # << >> /\ tx_ring' = Tail(tx_ring)
      /\ tx_buf' = IF Len(tx_buf) < QUEUE_SZ THEN Append(tx_buf, Head(tx_ring)) ELSE tx_buf
      /\ count' = count + 1
      /\ UNCHANGED << rx_ring, binded, sent, lost, returned, handler, ier_tx, rx_buf,
                      rxOverrun, quiet, loop, intr, mgr, lastIrq, pending, typed, stdout >>
  BY DEF HandlerTxByte, WriteTxBuf, board
<1>3. /\ tx_ring \in Seq(1..MaxSent) /\ tx_buf \in Seq(1..MaxSent) /\ Len(tx_buf) \in Nat
      /\ Len(tx_ring) \in Nat /\ Len(tx_ring) <= RingCap /\ count \in Nat /\ Len(tx_buf) <= count
  BY <1>1, <1>2, UartTypes, LenProperties DEF TxRoom
<1>4. PICK e : e = Head(tx_ring)
  OBVIOUS
<1>5. tx_buf' = Append(tx_buf, e)
  <2>1. Len(tx_buf) < QUEUE_SZ
    BY <1>2, <1>3
  <2>. QED
    BY <1>2, <1>4, <2>1
<1>6. /\ e \in 1..MaxSent /\ tx_ring' \in Seq(1..MaxSent) /\ Len(tx_ring') = Len(tx_ring) - 1
      /\ Increasing(tx_ring') /\ Range(tx_ring) = { e } \cup Range(tx_ring')
      /\ \A x \in Range(tx_ring') : e < x
  BY <1>1, <1>2, <1>3, <1>4, IncreasingTail DEF OutputInv, Chain
<1>7. /\ tx_buf' \in Seq(1..MaxSent) /\ Len(tx_buf') = Len(tx_buf) + 1
      /\ Increasing(tx_buf') /\ Range(tx_buf') = Range(tx_buf) \cup { e }
  <2>1. \A x \in Range(tx_buf) : x < e
    BY <1>1, <1>6 DEF OutputInv, Chain, Below
  <2>2. Increasing(tx_buf) /\ tx_buf \in Seq(1..MaxSent) /\ e \in 1..MaxSent
    BY <1>1, <1>3, <1>6 DEF OutputInv, Chain
  <2>3. /\ Append(tx_buf, e) \in Seq(1..MaxSent) /\ Len(Append(tx_buf, e)) = Len(tx_buf) + 1
        /\ Increasing(Append(tx_buf, e)) /\ Range(Append(tx_buf, e)) = Range(tx_buf) \cup { e }
    BY <2>1, <2>2, IncreasingAppend
  <2>. QED
    BY <1>5, <2>3
<1>8. OutputInv'
  <2>1. Out' = Out
    BY <1>2, <1>6, <1>7 DEF Out
  <2>2. Below(tx_buf, tx_ring)'
    BY <1>1, <1>6, <1>7 DEF OutputInv, Chain, Below
  <2>3. (Below(stdout, tx_buf) /\ Below(stdout, tx_ring))'
    BY <1>1, <1>2, <1>6, <1>7 DEF OutputInv, Chain, Below
  <2>4. Increasing(stdout)'
    BY <1>1, <1>2 DEF OutputInv, Chain, Increasing
  <2>5. (Increasing(tx_buf) /\ Increasing(tx_ring))'
    BY <1>6, <1>7
  <2>. QED
    BY <1>1, <1>2, <2>1, <2>2, <2>3, <2>4, <2>5 DEF OutputInv, Chain
<1>9. /\ count' \in 0..MaxCount /\ count' <= FifoSize /\ Len(tx_buf') <= count'
      /\ Len(tx_buf') <= QUEUE_SZ /\ Len(tx_ring') <= RingCap
  BY <1>2, <1>3, <1>6, <1>7
<1>10. TypeOK'
  BY <1>1, <1>2, <1>6, <1>7, <1>9, Zenon DEF TypeOK, MaxCount
<1>11. InputInv'
  BY <1>1, <1>2, InputKept
<1>. QED
  BY <1>1, <1>2, <1>8, <1>9, <1>10, <1>11 DEF UartInv, RxEnough, TxRoom, TxArmed

\* The board sends the oldest byte of the FIFO to the terminal.
LEMMA LoopTxInv ==
    ASSUME UartInv, LoopTx
    PROVE  UartInv'
<1>. USE UartConstants
<1>1. TypeOK /\ OutputInv /\ InputInv /\ TxArmed /\ TxRoom /\ RxEnough
  BY DEF UartInv
<1>2. /\ tx_buf # << >> /\ stdout' = Append(stdout, Head(tx_buf)) /\ tx_buf' = Tail(tx_buf)
      /\ loop' = "sample"
      /\ UNCHANGED << tx_ring, rx_ring, binded, sent, lost, returned, handler, count, ier_tx,
                      rx_buf, rxOverrun, quiet, intr, mgr, lastIrq, pending, typed >>
  BY DEF LoopTx, console, driver
<1>3. /\ tx_buf \in Seq(1..MaxSent) /\ stdout \in Seq(1..MaxSent) /\ Len(tx_buf) \in Nat
      /\ Len(tx_buf) <= QUEUE_SZ /\ count \in Nat
  BY <1>1, UartTypes, LenProperties
<1>4. PICK e : e = Head(tx_buf)
  OBVIOUS
<1>5. /\ e \in 1..MaxSent /\ tx_buf' \in Seq(1..MaxSent) /\ Len(tx_buf') = Len(tx_buf) - 1
      /\ Increasing(tx_buf') /\ Range(tx_buf) = { e } \cup Range(tx_buf')
      /\ \A x \in Range(tx_buf') : e < x
  BY <1>1, <1>2, <1>3, <1>4, IncreasingTail DEF OutputInv, Chain
<1>6. /\ stdout' \in Seq(1..MaxSent) /\ Increasing(stdout')
      /\ Range(stdout') = Range(stdout) \cup { e }
  <2>1. \A x \in Range(stdout) : x < e
    BY <1>1, <1>5 DEF OutputInv, Chain, Below
  <2>2. Increasing(stdout) /\ stdout \in Seq(1..MaxSent) /\ e \in 1..MaxSent
    BY <1>1, <1>3, <1>5 DEF OutputInv, Chain
  <2>3. /\ Append(stdout, e) \in Seq(1..MaxSent) /\ Increasing(Append(stdout, e))
        /\ Range(Append(stdout, e)) = Range(stdout) \cup { e }
    BY <2>1, <2>2, IncreasingAppend
  <2>. QED
    BY <1>2, <1>4, <2>3
<1>7. OutputInv'
  <2>1. Out' = Out
    BY <1>2, <1>5, <1>6 DEF Out
  <2>2. (Below(tx_buf, tx_ring) /\ Below(stdout, tx_ring))'
    BY <1>1, <1>2, <1>5, <1>6 DEF OutputInv, Chain, Below
  <2>3. Below(stdout, tx_buf)'
    BY <1>1, <1>5, <1>6 DEF OutputInv, Chain, Below
  <2>4. Increasing(tx_ring)'
    BY <1>1, <1>2 DEF OutputInv, Chain, Increasing
  <2>5. (Increasing(tx_buf) /\ Increasing(stdout))'
    BY <1>5, <1>6
  <2>. QED
    BY <1>1, <1>2, <2>1, <2>2, <2>3, <2>4, <2>5 DEF OutputInv, Chain
<1>8. Len(tx_buf') <= QUEUE_SZ
  BY <1>3, <1>5
<1>9. TypeOK'
  BY <1>1, <1>2, <1>5, <1>6, <1>8, Zenon DEF TypeOK
<1>10. TxRoom'
  <2>1. Len(tx_buf) <= count => Len(tx_buf') <= count
    BY <1>3, <1>5
  <2>. QED
    BY <1>1, <1>2, <2>1 DEF TxRoom
<1>11. InputInv'
  BY <1>1, <1>2, InputKept
<1>. QED
  BY <1>1, <1>2, <1>7, <1>9, <1>10, <1>11 DEF UartInv, RxEnough, TxArmed

\* A byte is typed: it goes behind the others or, when the FIFO is full, is not seen.
LEMMA LoopRxInv ==
    ASSUME UartInv, LoopRx
    PROVE  UartInv'
<1>. USE UartConstants
<1>1. TypeOK /\ OutputInv /\ InputInv /\ TxArmed /\ TxRoom /\ RxEnough
  BY DEF UartInv
<1>2. /\ typed < MaxTyped /\ typed' = typed + 1 /\ loop' = "sample"
      /\ UNCHANGED << tx_ring, rx_ring, binded, sent, lost, returned, handler, count, ier_tx,
                      tx_buf, intr, mgr, lastIrq, pending, stdout >>
  BY DEF LoopRx, console, driver
<1>3. /\ rx_buf \in Seq(1..MaxTyped) /\ rx_ring \in Seq(1..MaxTyped) /\ Len(rx_buf) \in Nat
      /\ typed \in Nat /\ returned \in Nat /\ count \in Nat
  BY <1>1, UartTypes, LenProperties
<1>4. PICK e : e = typed'
  OBVIOUS
<1>5. e \in 1..MaxTyped /\ typed' \in 0..MaxTyped /\ e = typed + 1
  BY <1>2, <1>3, <1>4
<1>6. Range(rx_ring) \subseteq Int /\ Range(rx_buf) \subseteq Int
  BY <1>3, RangeOf
<1>7. \A x \in Range(rx_ring) \cup Range(rx_buf) : returned < x /\ x <= typed /\ x < e /\ x <= e
  BY <1>1, <1>3, <1>5, <1>6 DEF InputInv
<1>8. Increasing(rx_ring) /\ Increasing(rx_buf) /\ Below(rx_ring, rx_buf) /\ returned <= typed
  BY <1>1 DEF InputInv
<1>9. returned < e /\ returned <= e
  BY <1>3, <1>5, <1>8
<1>10. OutputInv'
  BY <1>1, <1>2, OutputKept
<1>11. CASE RxRoom /\ rx_buf' = Append(rx_buf, e) /\ quiet' = FALSE /\ rxOverrun' = rxOverrun
  <2>1. /\ Append(rx_buf, e) \in Seq(1..MaxTyped) /\ Len(Append(rx_buf, e)) = Len(rx_buf) + 1
        /\ Increasing(Append(rx_buf, e)) /\ Range(Append(rx_buf, e)) = Range(rx_buf) \cup { e }
    <3>1. \A x \in Range(rx_buf) : x < e
      BY <1>7
    <3>2. Increasing(rx_buf) /\ rx_buf \in Seq(1..MaxTyped) /\ e \in 1..MaxTyped
      BY <1>3, <1>5, <1>8
    <3>. QED
      BY <3>1, <3>2, IncreasingAppend
  <2>2. /\ rx_buf' \in Seq(1..MaxTyped) /\ Len(rx_buf') = Len(rx_buf) + 1
        /\ Increasing(rx_buf') /\ Range(rx_buf') = Range(rx_buf) \cup { e }
    BY <1>11, <2>1
  <2>3. InputInv'
    <3>1. Below(rx_ring, rx_buf)'
      BY <1>2, <1>7, <1>8, <2>2 DEF Below
    <3>2. \A x \in Range(rx_ring') \cup Range(rx_buf') : returned' < x /\ x <= e
      BY <1>2, <1>5, <1>7, <1>9, <2>2
    <3>3. (Increasing(rx_ring) /\ Increasing(rx_buf))'
      BY <1>2, <1>8, <2>2 DEF Increasing
    <3>. QED
      BY <1>2, <1>4, <1>9, <3>1, <3>2, <3>3 DEF InputInv
  <2>4. Len(rx_buf') <= QUEUE_SZ /\ (Len(rx_buf) + count >= Trigger => Len(rx_buf') + count >= Trigger)
    BY <1>3, <1>11, <2>2 DEF RxRoom
  <2>5. TypeOK'
    BY <1>1, <1>2, <1>5, <1>11, <2>2, <2>4, Zenon DEF TypeOK
  <2>. QED
    BY <1>1, <1>2, <1>10, <2>3, <2>4, <2>5 DEF UartInv, RxEnough, TxRoom, TxArmed
<1>12. CASE rxOverrun' = TRUE /\ UNCHANGED << rx_buf, quiet >>
  <2>1. InputInv'
    BY <1>2, <1>4, <1>7, <1>8, <1>9, <1>12 DEF InputInv, Increasing, Below
  <2>2. TypeOK'
    BY <1>1, <1>2, <1>5, <1>12, Zenon DEF TypeOK
  <2>. QED
    BY <1>1, <1>2, <1>10, <1>12, <2>1, <2>2 DEF UartInv, RxEnough, TxRoom, TxArmed
<1>. QED
  BY <1>4, <1>11, <1>12 DEF LoopRx

\* Steps that move no byte.
LEMMA NoByteMoves ==
    ASSUME UartInv, TypeOK', RxEnough', TxRoom', TxArmed',
           UNCHANGED << stdout, tx_buf, tx_ring, sent, lost, returned, rx_ring, rx_buf, typed >>
    PROVE  UartInv'
BY OutputKept, InputKept DEF UartInv

\* The handler finds out why it was called: with enough bytes for RX_DATA, with an empty
\* FIFO for TX_EMPTY.
LEMMA IsrInv ==
    ASSUME UartInv, HandlerIsr
    PROVE  UartInv'
<1>. USE UartConstants
<1>1. TypeOK /\ TxArmed
  BY DEF UartInv
<1>2. /\ handler' = (IF IIR = NoInterrupt THEN "off" ELSE IIR) /\ count' = 0
      /\ UNCHANGED << tx_ring, rx_ring, binded, sent, lost, returned, ier_tx, tx_buf, rx_buf,
                      rxOverrun, quiet, loop, intr, mgr, lastIrq, pending, typed, stdout >>
  BY DEF HandlerIsr, console, regs, board
<1>3. /\ IIR \in Identity
      /\ IIR = "RX_DATA" => Len(rx_buf) >= Trigger
      /\ IIR = "TX_EMPTY" => tx_buf = << >>
  BY DEF IIR, Identity, Interrupt, NoInterrupt
<1>4. handler' \in Where
  BY <1>2, <1>3 DEF Identity, Where
<1>5. count' \in 0..MaxCount
  BY <1>2
<1>6. TypeOK'
  BY <1>1, <1>2, <1>4, <1>5, Zenon DEF TypeOK, Where, MaxCount
<1>7. RxEnough'
  <2>1. handler' = "RX_DATA" => IIR = "RX_DATA"
    BY <1>2
  <2>2. Len(rx_buf) \in Nat
    BY <1>1, UartTypes, LenProperties
  <2>. QED
    BY <1>2, <1>3, <2>1, <2>2 DEF RxEnough
<1>8. TxRoom'
  <2>1. handler' = "TX_EMPTY" => IIR = "TX_EMPTY"
    BY <1>2
  <2>. QED
    BY <1>2, <1>3, <2>1, EmptySeq DEF TxRoom
<1>. QED
  BY <1>1, <1>2, <1>6, <1>7, <1>8, NoByteMoves DEF TxArmed

\* The TX interrupt is turned off only when the ring buffer was found empty at once.
LEMMA TxEndInv ==
    ASSUME UartInv, HandlerTxEnd
    PROVE  UartInv'
<1>. USE UartConstants
<1>1. TypeOK /\ TxArmed
  BY DEF UartInv
<1>2. /\ count = FifoSize \/ tx_ring = << >>
      /\ ier_tx' = (IF count = 0 THEN FALSE ELSE ier_tx)
      /\ handler' = "isr"
      /\ UNCHANGED << tx_ring, rx_ring, binded, sent, lost, returned, count, tx_buf, rx_buf,
                      rxOverrun, quiet, loop, intr, mgr, lastIrq, pending, typed, stdout >>
  BY DEF HandlerTxEnd, TxDisable, console, board
<1>3. ier_tx' \in BOOLEAN
  BY <1>1, <1>2, UartTypes
<1>4. TypeOK'
  BY <1>1, <1>2, <1>3, Zenon DEF TypeOK
<1>5. TxArmed'
  <2>1. CASE count = 0
    <3>1. tx_ring = << >>
      BY <1>2, <2>1
    <3>. QED
      BY <1>2, <3>1 DEF TxArmed
  <2>2. CASE count # 0
    BY <1>1, <1>2, <2>2 DEF TxArmed
  <2>. QED
    BY <2>1, <2>2
<1>. QED
  BY <1>2, <1>4, <1>5, NoByteMoves DEF RxEnough, TxRoom

\* The end of console_bind_uart() arms the TX interrupt for what is queued already.
LEMMA BindInv ==
    ASSUME UartInv, uart_initialize \/ irq_enable \/ BindXmit
    PROVE  UartInv'
<1>1. TypeOK
  BY DEF UartInv
<1>2. /\ handler = "off" /\ binded' \in { "ier", "init", "yes" }
      /\ binded' = "yes" => ier_tx' = (tx_ring # << >>)
      /\ ier_tx' = ier_tx \/ ier_tx' = (tx_ring # << >>)
      /\ UNCHANGED << tx_ring, rx_ring, sent, lost, returned, handler, count, tx_buf, rx_buf,
                      rxOverrun, quiet, loop, intr, mgr, lastIrq, pending, typed, stdout >>
  BY DEF uart_initialize, irq_enable, BindXmit, driver, regs, board
<1>3. ier_tx' \in BOOLEAN
  BY <1>1, <1>2, UartTypes
<1>4. TypeOK'
  BY <1>1, <1>2, <1>3, Zenon DEF TypeOK
<1>. QED
  BY <1>2, <1>4, NoByteMoves DEF RxEnough, TxRoom, TxArmed

\* The handler starts, or reads the line status.
LEMMA HandlerMovesInv ==
    ASSUME UartInv, HandlerEnter \/ HandlerLineStatus
    PROVE  UartInv'
<1>1. TypeOK /\ TxArmed
  BY DEF UartInv
<1>2. /\ handler' = "isr" /\ pending' \in { pending, FALSE }
      /\ rxOverrun' \in { rxOverrun, (rxOverrun /\ (rx_buf # << >> \/ tx_buf = << >>)) }
      /\ UNCHANGED << tx_ring, rx_ring, binded, sent, lost, returned, count, ier_tx, tx_buf,
                      rx_buf, quiet, loop, intr, mgr, lastIrq, typed, stdout >>
  BY DEF HandlerEnter, HandlerLineStatus, ReadLSR, console, regs, board
<1>3. pending' \in BOOLEAN /\ rxOverrun' \in BOOLEAN
  BY <1>1, <1>2, UartTypes
<1>4. TypeOK'
  BY <1>1, <1>2, <1>3, Zenon DEF TypeOK
<1>. QED
  BY <1>1, <1>2, <1>4, NoByteMoves DEF RxEnough, TxRoom, TxArmed

\* The device signals an interrupt, or time passes.
LEMMA BoardInv ==
    ASSUME UartInv, LoopTick \/ LoopSample \/ LoopSend \/ IrqManager \/ Quiet
    PROVE  UartInv'
<1>1. TypeOK /\ TxArmed /\ TxRoom /\ RxEnough
  BY DEF UartInv
<1>2. UNCHANGED << tx_ring, rx_ring, binded, sent, lost, returned, handler, count, ier_tx, tx_buf,
                   rx_buf, rxOverrun, typed, stdout >>
  BY DEF LoopTick, LoopSample, LoopSend, IrqManager, Quiet, console, driver, regs
<1>3. IIR \in Identity
  BY DEF IIR, Identity, Interrupt, NoInterrupt
<1>4. /\ intr \in Identity /\ lastIrq \in Identity /\ mgr \in Identity \cup { "recv" }
      /\ pending \in BOOLEAN /\ quiet \in BOOLEAN /\ loop \in { "select", "sample", "send" }
  BY <1>1, UartTypes
<1>5. intr' \in Identity /\ lastIrq' \in Identity /\ mgr' \in Identity \cup { "recv" }
  BY <1>3, <1>4 DEF LoopTick, LoopSample, LoopSend, IrqManager, Quiet, board
<1>6. pending' \in BOOLEAN /\ quiet' \in BOOLEAN /\ loop' \in { "select", "sample", "send" }
  BY <1>4 DEF LoopTick, LoopSample, LoopSend, IrqManager, Quiet, board, regs
<1>7. TypeOK'
  <2>1. mgr' \in Interrupt \cup { NoInterrupt, "recv" }
    BY <1>5 DEF Identity
  <2>. QED
    BY <1>1, <1>2, <1>5, <1>6, <2>1, Zenon DEF TypeOK, Identity
<1>. QED
  BY <1>1, <1>2, <1>7, NoByteMoves DEF RxEnough, TxRoom, TxArmed

\* Every step keeps the invariant.
LEMMA UartInvNext == UartInv /\ [Next]_vars => UartInv'
<1>. SUFFICES ASSUME UartInv, [Next]_vars PROVE UartInv'
  OBVIOUS
<1>1. CASE UNCHANGED vars
  <2>1. UNCHANGED << tx_ring, rx_ring, binded, sent, lost, returned, handler, count, ier_tx, tx_buf,
                   rx_buf, rxOverrun, quiet, loop, intr, mgr, lastIrq, pending, typed, stdout >>
    BY <1>1 DEF vars, console, driver, regs, board
  <2>2. TypeOK'
    BY <2>1, Zenon DEF UartInv, TypeOK
  <2>. QED
    BY <2>1, <2>2, NoByteMoves DEF UartInv, RxEnough, TxRoom, TxArmed
<1>2. CASE Next
  BY <1>2, WriteInv, GetcharInv, BindInv, HandlerMovesInv, IsrInv, RxDataInv, RxTimeoutInv,
     TxByteInv, TxEndInv, LoopTxInv, LoopRxInv, BoardInv DEF Next
<1>. QED
  BY <1>1, <1>2

-----------------------------------------------------------------------------
(* The theorems about Uart.                                                *)

\* The invariant holds in every state.
LEMMA UartInvariant == Spec => []UartInv
BY UartInvInit, UartInvNext, PTL DEF Spec

\* Between console_putchar() and the terminal no byte is repeated, misplaced or lost
\* but those the full ring buffer gives up.
THEOREM OutputInOrder == Spec => []OutputConserved
<1>1. ASSUME UartInv PROVE OutputConserved
  <2>1. tx_ring \in Seq(1..MaxSent) /\ tx_buf \in Seq(1..MaxSent) /\ stdout \in Seq(1..MaxSent)
    BY <1>1, UartTypes DEF UartInv
  <2>2. tx_ring \in Seq(Int) /\ tx_buf \in Seq(Int) /\ stdout \in Seq(Int)
    BY <2>1, SeqMonotonic, UartConstants
  <2>3. /\ Range(stdout \o tx_buf \o tx_ring) = Out
        /\ Increasing(stdout \o tx_buf \o tx_ring)
    BY <1>1, <2>2, IncreasingChain DEF UartInv, OutputInv, Out
  <2>. QED
    BY <1>1, <2>3 DEF UartInv, OutputInv, OutputConserved
<1>. QED
  BY <1>1, UartInvariant, PTL

\* The bytes typed reach getchar() in the order in which they were typed.
THEOREM InputKeepsOrder == Spec => []InputInOrder
<1>1. ASSUME UartInv PROVE InputInOrder
  <2>1. /\ rx_ring \in Seq(1..MaxTyped) /\ rx_buf \in Seq(1..MaxTyped)
        /\ returned \in Int
    BY <1>1, UartTypes, UartConstants DEF UartInv
  <2>2. rx_ring \in Seq(Int) /\ rx_buf \in Seq(Int)
    BY <2>1, SeqMonotonic, UartConstants
  <2>3. PICK r : r = << returned >> /\ r \in Seq(Int) /\ Len(r) = 1 /\ r[1] = returned
    <3>1. << returned >> \in Seq(Int) /\ Len(<< returned >>) = 1 /\ << returned >>[1] = returned
      BY <2>1
    <3>. QED
      BY <3>1, Zenon
  <2>4. Range(r) = { returned }
    <3>1. r \in Seq(Int) /\ 1..Len(r) = { 1 } /\ r[1] = returned
      BY <2>3
    <3>2. \A x : x \in Range(r) <=> \E i \in 1..Len(r) : r[i] = x
      BY <3>1, RangeOf
    <3>. QED
      BY <3>1, <3>2
  <2>5. Increasing(r)
    BY <2>3 DEF Increasing
  <2>6. Chain(r, rx_ring, rx_buf)
    BY <1>1, <2>4, <2>5 DEF UartInv, InputInv, Chain, Below
  <2>7. Increasing(r \o rx_ring \o rx_buf)
    BY <2>2, <2>3, <2>6, IncreasingChain
  <2>. QED
    BY <2>3, <2>7 DEF InputInOrder
<1>. QED
  BY <1>1, UartInvariant, PTL

\* While bytes wait in the ring buffer of a console that is bound, the TX interrupt is
\* enabled: the handler cannot have turned it off too early.
THEOREM TransmissionArmed == Spec => []TxArmed
<1>1. UartInv => TxArmed
  BY DEF UartInv
<1>. QED
  BY <1>1, UartInvariant, PTL

-----------------------------------------------------------------------------
(* The ring buffer: its indexes.                                           *)

\* Induction over the naturals, for a set that holds what is to be shown.
LEMMA InductionOnSet ==
    ASSUME NEW S, 0 \in S, \A n \in Nat : n \in S => n + 1 \in S
    PROVE  \A n \in Nat : n \in S
<1>. SUFFICES ASSUME Nat \ S # {} PROVE FALSE
  OBVIOUS
<1>1. PICK x \in Nat \ S : \A y \in Nat \ S : ~(<< y, x >> \in OpToRel(<, Nat))
  <2>1. Nat \ S \subseteq Nat
    OBVIOUS
  <2>. QED
    BY <2>1, NatLessThanWellFounded, WFMin
<1>2. x - 1 \in Nat /\ x - 1 < x /\ (x - 1) + 1 = x
  OBVIOUS
<1>3. << x - 1, x >> \in OpToRel(<, Nat)
  BY <1>2 DEF OpToRel
<1>4. x - 1 \in S
  BY <1>1, <1>2, <1>3
<1>. QED
  BY <1>2, <1>4

\* "& buffer_mask" of a sum or of a difference of indexes.
LEMMA MaskOf ==
    /\ \A x \in 0..(Size - 1) : Mask(x) = x
    /\ \A x \in Size..(2 * Size - 1) : Mask(x) = x - Size
    /\ \A x \in (1 - Size)..(-1) : Mask(x) = x + Size
    /\ \A x \in Int : Mask(x) \in 0..(Size - 1)
<1>. USE RingBufferAssumption
<1>1. ASSUME NEW x \in 0..(Size - 1) PROVE Mask(x) = x
  BY DEF Mask
<1>2. ASSUME NEW x \in Size..(2 * Size - 1) PROVE Mask(x) = x - Size
  BY DEF Mask
<1>3. ASSUME NEW x \in (1 - Size)..(-1) PROVE Mask(x) = x + Size
  BY DEF Mask
<1>4. ASSUME NEW x \in Int PROVE Mask(x) \in 0..(Size - 1)
  BY DEF Mask
<1>. QED
  BY <1>1, <1>2, <1>3, <1>4

\* A ring buffer whose indexes are inside its array.
Ring == [ array : [0..(Size - 1) -> Byte], head : 0..(Size - 1), tail : 0..(Size - 1) ]

\* The number of items, and the position in the array of the |i|th item.
Held(b) == num_items(b.head, b.tail)
Slot(b, i) == Mask(b.tail + i - 1)

\* The items of a ring buffer have slots of their own, none of which is at the head.
LEMMA Slots ==
    ASSUME NEW b \in Ring
    PROVE  /\ Held(b) \in 0..(Size - 1)
           /\ Held(b) = IF b.head >= b.tail THEN b.head - b.tail ELSE b.head - b.tail + Size
           /\ \A i \in 1..Size : /\ Slot(b, i) \in 0..(Size - 1)
                                 /\ Slot(b, i) = IF b.tail + i - 1 < Size THEN b.tail + i - 1
                                                 ELSE b.tail + i - 1 - Size
           /\ \A i \in 1..Size : Slot(b, i) = b.head <=> i = Held(b) + 1
<1>. USE RingBufferAssumption
<1>1. b.head \in 0..(Size - 1) /\ b.tail \in 0..(Size - 1)
  BY DEF Ring
<1>2. Held(b) = IF b.head >= b.tail THEN b.head - b.tail ELSE b.head - b.tail + Size
  <2>1. CASE b.head >= b.tail
    <3>1. b.head - b.tail \in 0..(Size - 1)
      BY <1>1, <2>1
    <3>. QED
      BY <2>1, <3>1, MaskOf DEF Held, num_items
  <2>2. CASE ~(b.head >= b.tail)
    <3>1. b.head - b.tail \in (1 - Size)..(-1)
      BY <1>1, <2>2
    <3>. QED
      BY <2>2, <3>1, MaskOf DEF Held, num_items
  <2>. QED
    BY <2>1, <2>2
<1>3. ASSUME NEW i \in 1..Size
      PROVE  /\ Slot(b, i) \in 0..(Size - 1)
             /\ Slot(b, i) = IF b.tail + i - 1 < Size THEN b.tail + i - 1 ELSE b.tail + i - 1 - Size
  <2>1. CASE b.tail + i - 1 < Size
    <3>1. b.tail + i - 1 \in 0..(Size - 1)
      BY <1>1, <2>1
    <3>. QED
      BY <2>1, <3>1, MaskOf DEF Slot
  <2>2. CASE ~(b.tail + i - 1 < Size)
    <3>1. b.tail + i - 1 \in Size..(2 * Size - 1) /\ b.tail + i - 1 - Size \in 0..(Size - 1)
      BY <1>1, <2>2
    <3>2. PICK x : x = b.tail + i - 1
      OBVIOUS
    <3>3. x \in Size..(2 * Size - 1)
      BY <3>1, <3>2
    <3>4. Mask(x) = x - Size
      BY <3>3, MaskOf
    <3>5. Slot(b, i) = Mask(x)
      BY <3>2 DEF Slot
    <3>. QED
      BY <1>1, <2>2, <3>1, <3>2, <3>4, <3>5
  <2>. QED
    BY <2>1, <2>2
<1>4. ASSUME NEW i \in 1..Size PROVE Slot(b, i) = b.head <=> i = Held(b) + 1
  BY <1>1, <1>2, <1>3
<1>. QED
  BY <1>1, <1>2, <1>3, <1>4

\* One byte is queued: it becomes the last item; the first one is given up when the buffer
\* is full.
LEMMA QueueOne ==
    ASSUME NEW b \in Ring, NEW c \in Byte, NEW r, r = Queued(b, c)
    PROVE  /\ r \in Ring
           /\ Held(r) = IF Held(b) = Size - 1 THEN Held(b) ELSE Held(b) + 1
           /\ \A i \in 1..Held(r) :
                 r.array[Slot(r, i)] = IF i = Held(r) THEN c
                                       ELSE b.array[Slot(b, i + 1 - (Held(r) - Held(b)))]
<1>. USE RingBufferAssumption
<1>1. /\ b.array \in [0..(Size - 1) -> Byte] /\ b.head \in 0..(Size - 1) /\ b.tail \in 0..(Size - 1)
  BY DEF Ring
<1>2. /\ r.array = [b.array EXCEPT ![b.head] = c] /\ r.head = Mask(b.head + 1)
      /\ r.tail = IF Held(b) = Size - 1 THEN Mask(b.tail + 1) ELSE b.tail
  BY DEF Queued, is_full, Held
<1>3. r \in Ring
  <2>1. Mask(b.head + 1) \in 0..(Size - 1) /\ Mask(b.tail + 1) \in 0..(Size - 1)
    BY <1>1, MaskOf, SMTT(30)
  <2>2. [b.array EXCEPT ![b.head] = c] \in [0..(Size - 1) -> Byte]
    BY <1>1
  <2>3. (IF is_full(b.head, b.tail) THEN Mask(b.tail + 1) ELSE b.tail) \in 0..(Size - 1)
    BY <1>1, <2>1
  <2>. QED
    BY <2>1, <2>2, <2>3 DEF Queued, Ring
<1>4. \A x \in 0..(Size - 1) : Mask(x + 1) = IF x = Size - 1 THEN 0 ELSE x + 1
  <2>1. ASSUME NEW x \in 0..(Size - 1) PROVE Mask(x + 1) = IF x = Size - 1 THEN 0 ELSE x + 1
    <3>1. CASE x = Size - 1
      <4>1. x + 1 \in Size..(2 * Size - 1) /\ x + 1 - Size = 0
        BY <3>1
      <4>. QED
        BY <3>1, <4>1, MaskOf
    <3>2. CASE x # Size - 1
      <4>1. x + 1 \in 0..(Size - 1)
        BY <3>2
      <4>. QED
        BY <3>2, <4>1, MaskOf
    <3>. QED
      BY <3>1, <3>2
  <2>. QED
    BY <2>1
<1>5. /\ r.head = IF b.head = Size - 1 THEN 0 ELSE b.head + 1
      /\ r.tail = IF Held(b) = Size - 1 THEN IF b.tail = Size - 1 THEN 0 ELSE b.tail + 1 ELSE b.tail
  BY <1>1, <1>2, <1>4
<1>6. Held(b) \in 0..(Size - 1) /\ Held(r) \in 0..(Size - 1)
  BY <1>3, Slots
<1>7. Held(r) = IF Held(b) = Size - 1 THEN Held(b) ELSE Held(b) + 1
  <2>1. Held(b) = IF b.head >= b.tail THEN b.head - b.tail ELSE b.head - b.tail + Size
    BY Slots
  <2>2. Held(r) = IF r.head >= r.tail THEN r.head - r.tail ELSE r.head - r.tail + Size
    BY <1>3, Slots
  <2>. QED
    BY <1>1, <1>5, <2>1, <2>2
<1>8. ASSUME NEW i \in 1..Held(r)
      PROVE  r.array[Slot(r, i)] = IF i = Held(r) THEN c
                                   ELSE b.array[Slot(b, i + 1 - (Held(r) - Held(b)))]
  <2>1. PICK j : j = i + 1 - (Held(r) - Held(b))
    OBVIOUS
  <2>2. i \in 1..Size /\ j \in 1..Size /\ (j = Held(b) + 1 <=> i = Held(r))
    BY <1>6, <1>7, <2>1
  <2>3. Slot(r, i) = Slot(b, j)
    <3>1. Slot(r, i) = IF r.tail + i - 1 < Size THEN r.tail + i - 1 ELSE r.tail + i - 1 - Size
      BY <1>3, <2>2, Slots
    <3>2. Slot(b, j) = IF b.tail + j - 1 < Size THEN b.tail + j - 1 ELSE b.tail + j - 1 - Size
      BY <2>2, Slots
    <3>3. CASE Held(b) = Size - 1
      <4>1. j = i + 1
        BY <1>6, <1>7, <2>1, <3>3
      <4>2. r.tail = IF b.tail = Size - 1 THEN 0 ELSE b.tail + 1
        BY <1>5, <3>3
      <4>3. i < Size
        BY <1>6
      <4>4. PICK n, x, y, u, v : /\ n = Size /\ x = b.tail /\ y = r.tail
                                 /\ u = Slot(r, i) /\ v = Slot(b, j)
        OBVIOUS
      <4>5. /\ n \in Nat /\ x \in 0..(n - 1) /\ i \in 1..(n - 1)
            /\ y = IF x = n - 1 THEN 0 ELSE x + 1
        BY <1>1, <2>2, <4>2, <4>3, <4>4
      <4>6. /\ u = IF y + i - 1 < n THEN y + i - 1 ELSE y + i - 1 - n
            /\ v = IF x + (i + 1) - 1 < n THEN x + (i + 1) - 1 ELSE x + (i + 1) - 1 - n
        BY <3>1, <3>2, <4>1, <4>4
      <4>7. u = v
        <5>1. CASE x = n - 1
          BY <4>5, <4>6, <5>1
        <5>2. CASE x # n - 1
          BY <4>5, <4>6, <5>2
        <5>. QED
          BY <5>1, <5>2
      <4>. QED
        BY <4>4, <4>7
    <3>4. CASE Held(b) # Size - 1
      <4>1. j = i
        BY <1>6, <1>7, <2>1, <3>4
      <4>. QED
        BY <1>5, <3>1, <3>2, <3>4, <4>1
    <3>. QED
      BY <3>3, <3>4
  <2>4. Slot(b, j) = b.head <=> i = Held(r)
    BY <2>2, Slots
  <2>5. Slot(b, j) \in 0..(Size - 1)
    BY <2>2, Slots
  <2>6. r.array[Slot(b, j)] = IF Slot(b, j) = b.head THEN c ELSE b.array[Slot(b, j)]
    BY <1>1, <1>2, <2>5
  <2>. QED
    BY <2>1, <2>3, <2>4, <2>6
<1>. QED
  BY <1>3, <1>7, <1>8

-----------------------------------------------------------------------------
(* The ring buffer: ring_buffer_queue_arr().                               *)

\* ring_buffer_queue_arr() after each of its first |k| bytes, from |b|.
IsRun(g, b, s, k) == g = [ n \in 0..k |-> IF n = 0 THEN b ELSE Queued(g[n - 1], s[n]) ]

\* There is such a run, so that the recursive definition of QueueArr defines it.
LEMMA RunExists ==
    ASSUME NEW b, NEW s
    PROVE  \A k \in Nat : \E g : IsRun(g, b, s, k)
<1>. DEFINE S == { k \in Nat : \E g : IsRun(g, b, s, k) }
<1>1. 0 \in S
  <2>1. IsRun([ n \in 0..0 |-> b ], b, s, 0)
    BY DEF IsRun
  <2>. QED
    BY <2>1
<1>2. ASSUME NEW k \in Nat, k \in S PROVE k + 1 \in S
  <2>1. PICK g : IsRun(g, b, s, k)
    BY <1>2
  <2>2. PICK h : h = [ n \in 0..(k + 1) |-> IF n = k + 1 THEN Queued(g[k], s[k + 1]) ELSE g[n] ]
    OBVIOUS
  <2>3. ASSUME NEW n \in 0..(k + 1)
        PROVE  h[n] = IF n = 0 THEN b ELSE Queued(h[n - 1], s[n])
    <3>1. CASE n = k + 1
      <4>1. h[n] = Queued(g[k], s[n]) /\ n # 0 /\ n - 1 = k
        BY <2>2, <3>1
      <4>2. h[k] = g[k]
        BY <2>2
      <4>. QED
        BY <4>1, <4>2
    <3>2. CASE n # k + 1
      <4>1. n \in 0..k /\ h[n] = g[n]
        BY <2>2, <3>2
      <4>2. g[n] = IF n = 0 THEN b ELSE Queued(g[n - 1], s[n])
        BY <2>1, <4>1 DEF IsRun
      <4>3. n # 0 => n - 1 \in 0..k /\ n - 1 # k + 1 /\ n - 1 \in 0..(k + 1)
        BY <4>1
      <4>4. n # 0 => h[n - 1] = g[n - 1]
        BY <2>2, <4>3
      <4>. QED
        BY <4>1, <4>2, <4>4
    <3>. QED
      BY <3>1, <3>2
  <2>4. h = [ n \in 0..(k + 1) |-> h[n] ]
    BY <2>2
  <2>5. IsRun(h, b, s, k + 1)
    BY <2>3, <2>4 DEF IsRun
  <2>. QED
    BY <2>5
<1>3. \A k \in Nat : k \in S
  <2>. HIDE DEF S
  <2>. QED
    BY <1>1, <1>2, InductionOnSet
<1>. QED
  BY <1>3

\* The |p|th byte of what was in the buffer, |L| items of |b|, followed by |s|.
Stream(b, s, p) == IF p <= Held(b) THEN b.array[Slot(b, p)] ELSE s[p - Held(b)]

\* After |n| bytes the buffer holds the end of that stream, as much as fits.
RunHolds(g, b, s, n) ==
    /\ g[n] \in Ring
    /\ Held(g[n]) = IF Held(b) + n < Size THEN Held(b) + n ELSE Size - 1
    /\ \A i \in 1..Held(g[n]) :
          g[n].array[Slot(g[n], i)] = Stream(b, s, Held(b) + n - Held(g[n]) + i)

\* By induction on the number of bytes queued.
LEMMA RunContents ==
    ASSUME NEW b \in Ring, NEW k \in Nat, NEW s \in [1..k -> Byte], NEW g, IsRun(g, b, s, k)
    PROVE  RunHolds(g, b, s, k)
<1>. USE RingBufferAssumption
<1>. DEFINE S == { n \in Nat : n <= k => RunHolds(g, b, s, n) }
<1>1. Held(b) \in 0..(Size - 1)
  BY Slots
<1>2. \A n \in 0..k : g[n] = IF n = 0 THEN b ELSE Queued(g[n - 1], s[n])
  BY DEF IsRun
<1>3. 0 \in S
  <2>1. g[0] = b
    BY <1>2
  <2>2. Held(b) + 0 < Size /\ Held(b) + 0 = Held(b)
    BY <1>1
  <2>3. ASSUME NEW i \in 1..Held(b) PROVE Stream(b, s, Held(b) + 0 - Held(b) + i) = b.array[Slot(b, i)]
    <3>1. Held(b) + 0 - Held(b) + i = i /\ i <= Held(b)
      BY <1>1
    <3>. QED
      BY <3>1 DEF Stream
  <2>4. RunHolds(g, b, s, 0)
    BY <2>1, <2>2, <2>3 DEF RunHolds
  <2>. QED
    BY <2>4
<1>4. ASSUME NEW n \in Nat, n \in S PROVE n + 1 \in S
  <2>. SUFFICES ASSUME n + 1 <= k PROVE RunHolds(g, b, s, n + 1)
    OBVIOUS
  <2>1. RunHolds(g, b, s, n)
    BY <1>4
  <2>2. PICK a, r, c : a = g[n] /\ r = g[n + 1] /\ c = s[n + 1]
    OBVIOUS
  <2>3. n + 1 \in 0..k /\ n + 1 \in 1..k /\ (n + 1) - 1 = n /\ n + 1 # 0
    OBVIOUS
  <2>4. r = Queued(a, c) /\ c \in Byte
    BY <1>2, <2>2, <2>3
  <2>5. a \in Ring
    BY <2>1, <2>2 DEF RunHolds
  <2>6. /\ r \in Ring
        /\ Held(r) = IF Held(a) = Size - 1 THEN Held(a) ELSE Held(a) + 1
        /\ \A i \in 1..Held(r) :
              r.array[Slot(r, i)] = IF i = Held(r) THEN c
                                    ELSE a.array[Slot(a, i + 1 - (Held(r) - Held(a)))]
    BY <2>4, <2>5, QueueOne, SMTT(30)
  <2>7. /\ Held(a) = IF Held(b) + n < Size THEN Held(b) + n ELSE Size - 1
        /\ \A i \in 1..Held(a) : a.array[Slot(a, i)] = Stream(b, s, Held(b) + n - Held(a) + i)
    BY <2>1, <2>2 DEF RunHolds
  <2>8. Held(a) \in 0..(Size - 1) /\ Held(r) \in 0..(Size - 1)
    BY <2>5, <2>6, Slots
  <2>9. Held(r) = IF Held(b) + (n + 1) < Size THEN Held(b) + (n + 1) ELSE Size - 1
    BY <1>1, <2>6, <2>7, <2>8
  <2>10. ASSUME NEW i \in 1..Held(r)
         PROVE  r.array[Slot(r, i)] = Stream(b, s, Held(b) + (n + 1) - Held(r) + i)
    <3>1. CASE i = Held(r)
      <4>1. PICK p : p = Held(b) + (n + 1)
        OBVIOUS
      <4>2. p = Held(b) + (n + 1) - Held(r) + i /\ ~(p <= Held(b)) /\ p - Held(b) = n + 1
        BY <1>1, <2>8, <3>1, <4>1
      <4>3. Stream(b, s, p) = s[n + 1]
        BY <4>2 DEF Stream
      <4>. QED
        BY <2>2, <2>6, <3>1, <4>2, <4>3
    <3>2. CASE i # Held(r)
      <4>1. PICK j : j = i + 1 - (Held(r) - Held(a))
        OBVIOUS
      <4>2. j \in 1..Held(a) /\ Held(b) + n - Held(a) + j = Held(b) + (n + 1) - Held(r) + i
        <5>1. CASE Held(a) = Size - 1
          BY <1>1, <2>6, <2>8, <3>2, <4>1, <5>1
        <5>2. CASE Held(a) # Size - 1
          <6>1. Held(r) = Held(a) + 1
            BY <2>6, <5>2
          <6>2. j = i
            BY <2>8, <4>1, <6>1
          <6>. QED
            BY <1>1, <2>8, <3>2, <6>1, <6>2, SMTT(30)
        <5>. QED
          BY <5>1, <5>2
      <4>3. r.array[Slot(r, i)] = a.array[Slot(a, j)]
        BY <2>6, <3>2, <4>1
      <4>. QED
        BY <2>7, <4>2, <4>3
    <3>. QED
      BY <3>1, <3>2
  <2>. QED
    BY <2>2, <2>6, <2>9, <2>10 DEF RunHolds
<1>5. \A n \in Nat : n \in S
  <2>. HIDE DEF S
  <2>. QED
    BY <1>3, <1>4, InductionOnSet
<1>. QED
  BY <1>5

-----------------------------------------------------------------------------
(* The ring buffer: the refinement of BoundedFifo.                         *)

\* The queue that a ring buffer stands for, and the ring buffer of the state.
Contents(b) == [ i \in 1..Held(b) |-> b.array[Slot(b, i)] ]
Now == [ array |-> buffer, head |-> head_index, tail |-> tail_index ]

\* The refinement mapping of RingBuffer is Contents.
LEMMA ItemsContents ==
    /\ Items = Contents(Now) /\ Items' = Contents(Now')
    /\ RingTypeOK <=> Now \in Ring /\ output \in Seq(Byte)
    /\ RingTypeOK' <=> Now' \in Ring /\ output' \in Seq(Byte)
<1>1. Items = Contents(Now) /\ Items' = Contents(Now')
  BY DEF Items, Contents, Now, Held, Slot
<1>2. RingTypeOK <=> Now \in Ring /\ output \in Seq(Byte)
  BY DEF RingTypeOK, Now, Ring
<1>3. RingTypeOK' <=> Now' \in Ring /\ output' \in Seq(Byte)
  BY DEF RingTypeOK, Now, Ring
<1>. QED
  BY <1>1, <1>2, <1>3

\* The contents are a sequence of bytes.
LEMMA ContentsSeq ==
    ASSUME NEW b \in Ring
    PROVE  /\ Contents(b) \in Seq(Byte) /\ Len(Contents(b)) = Held(b) /\ Held(b) \in Nat
           /\ \A i \in 1..Held(b) : /\ Contents(b)[i] = b.array[Slot(b, i)]
                                    /\ b.array[Slot(b, i)] \in Byte
<1>. USE RingBufferAssumption
<1>1. Held(b) \in Nat /\ Held(b) \in 0..(Size - 1)
  BY Slots
<1>2. ASSUME NEW i \in 1..Held(b) PROVE b.array[Slot(b, i)] \in Byte
  <2>1. i \in 1..Size
    BY <1>1
  <2>2. Slot(b, i) \in 0..(Size - 1)
    BY <2>1, Slots
  <2>. QED
    BY <2>2 DEF Ring
<1>3. Contents(b) \in Seq(Byte) /\ Len(Contents(b)) = Held(b)
  BY <1>1, <1>2 DEF Contents
<1>4. \A i \in 1..Held(b) : Contents(b)[i] = b.array[Slot(b, i)]
  BY DEF Contents
<1>. QED
  BY <1>1, <1>2, <1>3, <1>4

\* What the run of ring_buffer_queue_arr() leaves is what PushAll leaves.
LEMMA RunPushes ==
    ASSUME NEW b \in Ring, NEW k \in Nat, NEW s \in Seq(Byte), Len(s) = k, NEW g, RunHolds(g, b, s, k)
    PROVE  Contents(g[k]) = PushAll(Contents(b), s, Size - 1)
<1>. USE RingBufferAssumption
<1>1. PICK r, q, w : r = g[k] /\ q = Contents(b) /\ w = q \o s
  OBVIOUS
<1>2. /\ r \in Ring /\ Held(r) = IF Held(b) + k < Size THEN Held(b) + k ELSE Size - 1
      /\ \A i \in 1..Held(r) : r.array[Slot(r, i)] = Stream(b, s, Held(b) + k - Held(r) + i)
  BY <1>1 DEF RunHolds
<1>3. /\ q \in Seq(Byte) /\ Len(q) = Held(b) /\ Held(b) \in Nat /\ Held(b) < Size
      /\ \A i \in 1..Held(b) : q[i] = b.array[Slot(b, i)]
  <2>1. Held(b) \in 0..(Size - 1)
    BY Slots
  <2>. QED
    BY <1>1, <2>1, ContentsSeq
<1>4. /\ w \in Seq(Byte) /\ Len(w) = Held(b) + k
      /\ \A p \in 1..(Held(b) + k) : w[p] = Stream(b, s, p)
  <2>1. /\ w \in Seq(Byte) /\ Len(w) = Len(q) + Len(s)
        /\ \A p \in 1..(Len(q) + Len(s)) : w[p] = IF p <= Len(q) THEN q[p] ELSE s[p - Len(q)]
    BY <1>1, <1>3, ConcatProperties
  <2>2. ASSUME NEW p \in 1..(Held(b) + k) PROVE w[p] = Stream(b, s, p)
    <3>1. w[p] = IF p <= Held(b) THEN q[p] ELSE s[p - Held(b)]
      BY <1>3, <2>1
    <3>2. CASE p <= Held(b)
      <4>1. p \in 1..Held(b)
        BY <1>3, <3>2
      <4>. QED
        BY <1>3, <3>1, <3>2, <4>1 DEF Stream
    <3>3. CASE ~(p <= Held(b))
      BY <3>1, <3>3 DEF Stream
    <3>. QED
      BY <3>2, <3>3
  <2>. QED
    BY <1>3, <2>1, <2>2
<1>5. PICK v, d : v = Contents(r) /\ d = Held(b) + k - Held(r)
  OBVIOUS
<1>6. Held(r) \in Nat /\ d \in Nat
  BY <1>2, <1>3, <1>5
<1>7. v \in Seq(Byte) /\ Len(v) = Held(r) /\ \A i \in 1..Held(r) : v[i] = w[d + i]
  <2>1. /\ v \in Seq(Byte) /\ Len(v) = Held(r)
        /\ \A i \in 1..Held(r) : v[i] = r.array[Slot(r, i)]
    BY <1>2, <1>5, ContentsSeq
  <2>2. ASSUME NEW i \in 1..Held(r) PROVE v[i] = w[d + i]
    <3>1. d + i \in 1..(Held(b) + k) /\ d + i = Held(b) + k - Held(r) + i
      BY <1>3, <1>5, <1>6
    <3>2. r.array[Slot(r, i)] = Stream(b, s, d + i)
      BY <1>2, <3>1
    <3>. QED
      BY <1>4, <2>1, <3>1, <3>2
  <2>. QED
    BY <2>1, <2>2
<1>8. CASE Len(w) > Size - 1
  <2>1. Held(r) = Size - 1 /\ d = Len(w) - (Size - 1)
    BY <1>2, <1>3, <1>4, <1>5, <1>8
  <2>2. PICK m, z : m = d + 1 /\ z = SubSeq(w, m, Len(w))
    OBVIOUS
  <2>3. /\ m \in Int /\ Len(w) \in Int /\ \A i \in m..Len(w) : w[i] \in Byte
    <3>1. \A i \in m..Len(w) : i \in 1..Len(w)
      BY <1>3, <1>4, <1>6, <2>2
    <3>. QED
      BY <1>3, <1>4, <1>6, <2>2, <3>1, ElementOfSeq
  <2>4. /\ z \in Seq(Byte) /\ Len(z) = IF m <= Len(w) THEN Len(w) - m + 1 ELSE 0
        /\ \A i \in 1..(Len(w) - m + 1) : z[i] = w[m + i - 1]
    BY <2>2, <2>3, SubSeqProperties
  <2>5. Len(z) = Held(r) /\ Len(w) - m + 1 = Held(r)
    <3>1. m = d + 1 /\ Len(w) \in Nat
      BY <1>3, <1>4, <2>2
    <3>2. Len(w) - m + 1 = Held(r) /\ (~(m <= Len(w)) => Held(r) = 0)
      BY <1>6, <2>1, <3>1
    <3>. QED
      BY <2>4, <3>2
  <2>6. ASSUME NEW i \in 1..Held(r) PROVE z[i] = v[i]
    <3>1. m + i - 1 = d + i
      BY <1>6, <2>2
    <3>. QED
      BY <1>7, <2>4, <2>5, <3>1
  <2>7. z = v
    BY <1>7, <2>4, <2>5, <2>6, SeqEqual
  <2>8. m = Len(w) - (Size - 1) + 1
    BY <2>1, <2>2
  <2>. QED
    BY <1>1, <1>5, <1>8, <2>2, <2>7, <2>8 DEF PushAll, KeepLast
<1>9. CASE ~(Len(w) > Size - 1)
  <2>1. Held(r) = Len(w) /\ d = 0
    BY <1>2, <1>3, <1>4, <1>5, <1>9
  <2>2. \A i \in 1..Held(r) : v[i] = w[i]
    <3>1. \A i \in 1..Held(r) : d + i = i
      BY <1>6, <2>1
    <3>. QED
      BY <1>7, <3>1
  <2>3. v = w
    BY <1>4, <1>7, <2>1, <2>2, SeqEqual
  <2>. QED
    BY <1>1, <1>5, <1>9, <2>3 DEF PushAll, KeepLast
<1>. QED
  BY <1>8, <1>9

\* ring_buffer_queue_arr() is a Put of BoundedFifo.
LEMMA QueueArrRefines ==
    ASSUME RingTypeOK, NEW s \in Arrays, QueueArr(s)
    PROVE  RingTypeOK' /\ Fifo!Put(s)
<1>. USE RingBufferAssumption
<1>1. PICK k \in 0..MaxArr : s \in [1..k -> Byte]
  BY DEF Arrays
<1>2. k \in Nat /\ s \in Seq(Byte) /\ Len(s) = k
  BY <1>1
<1>3. PICK b : b = Now
  OBVIOUS
<1>4. b \in Ring /\ output \in Seq(Byte)
  BY <1>3, ItemsContents
<1>5. PICK g : g = CHOOSE h : IsRun(h, b, s, k)
  OBVIOUS
<1>6. IsRun(g, b, s, k)
  BY <1>2, <1>5, RunExists
<1>7. buffer' = g[k].array /\ head_index' = g[k].head /\ tail_index' = g[k].tail /\ output' = output
  BY <1>2, <1>3, <1>5 DEF QueueArr, IsRun, Now
<1>8. RunHolds(g, b, s, k)
  BY <1>1, <1>2, <1>4, <1>6, RunContents
<1>9. Now' = g[k] /\ g[k] \in Ring
  BY <1>7, <1>8 DEF Now, RunHolds, Ring
<1>10. Contents(g[k]) = PushAll(Contents(b), s, Size - 1)
  BY <1>2, <1>4, <1>8, RunPushes
<1>11. Items' = PushAll(Items, s, Size - 1)
  BY <1>3, <1>9, <1>10, ItemsContents
<1>12. RingTypeOK'
  BY <1>4, <1>7, <1>9, ItemsContents
<1>. QED
  BY <1>7, <1>11, <1>12 DEF Fifo!Put, Fifo!PushAll, Fifo!KeepLast, PushAll, KeepLast

\* The loop of ring_buffer_dequeue_arr() stops after |n| bytes or at the last.
LEMMA TakenIs ==
    ASSUME NEW b \in Ring, b = Now, NEW n \in Nat
    PROVE  Taken(n) = IF n < Held(b) THEN n ELSE Held(b)
<1>. USE RingBufferAssumption
<1>1. /\ b.head = head_index /\ b.tail = tail_index
      /\ head_index \in 0..(Size - 1) /\ tail_index \in 0..(Size - 1)
  BY DEF Now, Ring
<1>2. Held(b) \in 0..(Size - 1)
  BY Slots
<1>3. ASSUME NEW j \in 0..(Size - 1)
      PROVE  Mask(tail_index + j) = head_index <=> j = Held(b)
  <2>1. j + 1 \in 1..Size /\ tail_index + (j + 1) - 1 = tail_index + j
    BY <1>1
  <2>2. Slot(b, j + 1) = Mask(tail_index + j)
    BY <1>1, <2>1 DEF Slot
  <2>3. Slot(b, j + 1) = b.head <=> j + 1 = Held(b) + 1
    BY <2>1, Slots
  <2>. QED
    BY <1>1, <1>2, <2>2, <2>3
<1>4. is_empty(head_index, tail_index) <=> Held(b) = 0
  <2>1. Held(b) = IF b.head >= b.tail THEN b.head - b.tail ELSE b.head - b.tail + Size
    BY Slots
  <2>. QED
    BY <1>1, <2>1 DEF is_empty
<1>5. PICK m : m = IF n < Held(b) THEN n ELSE Held(b)
  OBVIOUS
<1>6. m \in 0..n /\ m <= Held(b) /\ (m = n \/ m = Held(b)) /\ m \in 0..(Size - 1)
  BY <1>2, <1>5
<1>7. CASE Held(b) = 0
  BY <1>2, <1>4, <1>5, <1>7 DEF Taken
<1>8. CASE Held(b) # 0
  <2>. DEFINE P(k) == /\ k = n \/ Mask(tail_index + k) = head_index
                      /\ \A j \in 0..(k - 1) : Mask(tail_index + j) # head_index
  <2>1. P(m)
    <3>1. \A j \in 0..(m - 1) : j \in 0..(Size - 1) /\ j # Held(b)
      BY <1>2, <1>6
    <3>. QED
      BY <1>3, <1>6, <3>1
  <2>2. ASSUME NEW k \in 0..n, P(k) PROVE k = m
    <3>1. CASE k < m
      <4>1. k \in 0..(Size - 1) /\ k # Held(b) /\ k # n
        BY <1>2, <1>6, <3>1
      <4>. QED
        BY <1>3, <2>2, <4>1
    <3>2. CASE k > m
      <4>1. m \in 0..(k - 1) /\ m = Held(b)
        BY <1>2, <1>6, <3>2
      <4>2. Mask(tail_index + m) # head_index
        BY <2>2, <4>1
      <4>. QED
        BY <1>3, <1>6, <4>1, <4>2
    <3>. QED
      BY <1>2, <1>6, <3>1, <3>2
  <2>3. (CHOOSE k \in 0..n : P(k)) = m
    <3>. HIDE DEF P
    <3>. QED
      BY <1>6, <2>1, <2>2
  <2>4. Taken(n) = CHOOSE k \in 0..n : P(k)
    BY <1>4, <1>8 DEF Taken
  <2>. QED
    BY <1>5, <2>3, <2>4
<1>. QED
  BY <1>7, <1>8

\* The items after the first |m|, when the tail has gone forward by |m|.
LEMMA TailForward ==
    ASSUME NEW b \in Ring, NEW m \in 0..Held(b), NEW r \in Ring,
           r.array = b.array, r.head = b.head, r.tail = Mask(b.tail + m)
    PROVE  /\ Held(r) = Held(b) - m
           /\ \A i \in 1..Held(r) : Slot(r, i) = Slot(b, m + i)
<1>. USE RingBufferAssumption
<1>1. b.head \in 0..(Size - 1) /\ b.tail \in 0..(Size - 1)
  BY DEF Ring
<1>2. /\ Held(b) \in 0..(Size - 1)
      /\ Held(b) = IF b.head >= b.tail THEN b.head - b.tail ELSE b.head - b.tail + Size
  BY Slots
<1>3. m \in 0..(Size - 1)
  BY <1>2
<1>4. r.tail = IF b.tail + m < Size THEN b.tail + m ELSE b.tail + m - Size
  <2>1. m + 1 \in 1..Size /\ b.tail + (m + 1) - 1 = b.tail + m
    BY <1>1, <1>3
  <2>2. Slot(b, m + 1) = Mask(b.tail + m)
    BY <2>1 DEF Slot
  <2>3. Slot(b, m + 1) = IF b.tail + (m + 1) - 1 < Size THEN b.tail + (m + 1) - 1
                         ELSE b.tail + (m + 1) - 1 - Size
    BY <2>1, Slots
  <2>. QED
    BY <2>1, <2>2, <2>3
<1>5. Held(r) = Held(b) - m
  <2>1. Held(r) = IF r.head >= r.tail THEN r.head - r.tail ELSE r.head - r.tail + Size
    BY Slots
  <2>. QED
    BY <1>1, <1>2, <1>3, <1>4, <2>1
<1>6. ASSUME NEW i \in 1..Held(r) PROVE Slot(r, i) = Slot(b, m + i)
  <2>1. i \in 1..Size /\ m + i \in 1..Size
    BY <1>2, <1>3, <1>5
  <2>2. Slot(r, i) = IF r.tail + i - 1 < Size THEN r.tail + i - 1 ELSE r.tail + i - 1 - Size
    BY <2>1, Slots
  <2>3. Slot(b, m + i) = IF b.tail + (m + i) - 1 < Size THEN b.tail + (m + i) - 1
                         ELSE b.tail + (m + i) - 1 - Size
    BY <2>1, Slots
  <2>. QED
    BY <1>1, <1>3, <1>4, <2>1, <2>2, <2>3
<1>. QED
  BY <1>5, <1>6

\* A part of a sequence, by its elements.
LEMMA PartOf ==
    ASSUME NEW S, NEW q \in Seq(S), NEW m \in Nat, NEW n \in Nat, n <= Len(q), m <= n,
           NEW z \in Seq(S), Len(z) = n - m, \A i \in 1..(n - m) : z[i] = q[m + i]
    PROVE  z = SubSeq(q, m + 1, n)
<1>1. PICK y, k : k = m + 1 /\ y = SubSeq(q, k, n)
  OBVIOUS
<1>2. Len(q) \in Nat
  BY LenProperties
<1>3. k \in Int /\ n \in Int /\ n - k + 1 = n - m /\ (~(k <= n) => n - m = 0)
  BY <1>1
<1>4. \A i \in k..n : q[i] \in S
  <2>1. \A i \in k..n : i \in 1..Len(q)
    BY <1>1, <1>2
  <2>. QED
    BY <2>1, ElementOfSeq
<1>5. /\ y \in Seq(S) /\ Len(y) = IF k <= n THEN n - k + 1 ELSE 0
      /\ \A i \in 1..(n - k + 1) : y[i] = q[k + i - 1]
  BY <1>1, <1>3, <1>4, SubSeqProperties
<1>6. ASSUME NEW i \in 1..(n - m) PROVE y[i] = z[i]
  <2>1. k + i - 1 = m + i
    BY <1>1
  <2>. QED
    BY <1>3, <1>5, <2>1
<1>7. Len(y) = n - m
  BY <1>3, <1>5
<1>8. y = z
  BY <1>5, <1>6, <1>7, SeqEqual
<1>. QED
  BY <1>1, <1>8

\* ring_buffer_dequeue_arr() is a Get of BoundedFifo.
LEMMA DequeueArrRefines ==
    ASSUME RingTypeOK, NEW n \in Nat, DequeueArr(n)
    PROVE  RingTypeOK' /\ Fifo!Get(n)
<1>. USE RingBufferAssumption
<1>1. PICK b, q : b = Now /\ q = Contents(b)
  OBVIOUS
<1>2. /\ b \in Ring /\ b.array = buffer /\ b.head = head_index /\ b.tail = tail_index
  BY <1>1, ItemsContents DEF Now
<1>3. PICK m : m = Taken(n)
  OBVIOUS
<1>4. /\ q \in Seq(Byte) /\ Len(q) = Held(b) /\ Held(b) \in Nat
      /\ \A i \in 1..Held(b) : q[i] = buffer[Slot(b, i)] /\ q[i] \in Byte
  BY <1>1, <1>2, ContentsSeq
<1>5. m = (IF n < Len(q) THEN n ELSE Len(q)) /\ m \in 0..Held(b)
  BY <1>1, <1>2, <1>3, <1>4, TakenIs
<1>6. PICK o : o = output'
  OBVIOUS
<1>7. o = SubSeq(q, 1, m) /\ o \in Seq(Byte) /\ Len(o) = m
  <2>1. o = [ i \in 1..m |-> buffer[Mask(tail_index + i - 1)] ]
    BY <1>3, <1>6 DEF DequeueArr
  <2>2. ASSUME NEW i \in 1..m PROVE o[i] = q[0 + i] /\ o[i] \in Byte
    <3>1. i \in 1..Held(b) /\ 0 + i = i
      BY <1>4, <1>5
    <3>2. o[i] = buffer[Slot(b, i)]
      BY <1>2, <2>1 DEF Slot
    <3>. QED
      BY <1>4, <3>1, <3>2
  <2>3. m \in Nat /\ m - 0 = m /\ m <= Len(q) /\ 0 <= m /\ 0 + 1 = 1
    BY <1>4, <1>5
  <2>4. DOMAIN o = 1..m /\ o = [ i \in 1..m |-> o[i] ]
    BY <2>1
  <2>5. o \in Seq(Byte) /\ Len(o) = m
    <3>1. o \in [1..m -> Byte]
      BY <2>2, <2>4
    <3>. QED
      BY <2>3, <3>1
  <2>6. o = SubSeq(q, 0 + 1, m)
    BY <1>4, <2>2, <2>3, <2>5, PartOf
  <2>. QED
    BY <2>3, <2>5, <2>6
<1>8. PICK r : r = Now'
  OBVIOUS
<1>9. /\ r.array = b.array /\ r.head = b.head /\ r.tail = Mask(b.tail + m)
      /\ r = [ array |-> buffer, head |-> head_index, tail |-> Mask(b.tail + m) ]
  BY <1>2, <1>3, <1>8 DEF DequeueArr, Now
<1>10. r \in Ring
  <2>1. Mask(b.tail + m) \in 0..(Size - 1)
    <3>1. b.tail + m \in Int
      BY <1>2, <1>4, <1>5 DEF Ring
    <3>. QED
      BY <3>1, MaskOf
  <2>2. b.array \in [0..(Size - 1) -> Byte] /\ b.head \in 0..(Size - 1)
    BY <1>2 DEF Ring
  <2>. QED
    BY <1>2, <1>9, <2>1, <2>2 DEF Ring
<1>11. Held(r) = Held(b) - m /\ \A i \in 1..Held(r) : Slot(r, i) = Slot(b, m + i)
  BY <1>2, <1>5, <1>9, <1>10, TailForward
<1>12. Contents(r) = SubSeq(q, m + 1, Len(q))
  <2>1. PICK z : z = Contents(r)
    OBVIOUS
  <2>2. /\ z \in Seq(Byte) /\ Len(z) = Len(q) - m
        /\ \A i \in 1..Held(r) : z[i] = r.array[Slot(r, i)]
    BY <1>4, <1>10, <1>11, <2>1, ContentsSeq
  <2>3. ASSUME NEW i \in 1..(Len(q) - m) PROVE z[i] = q[m + i]
    <3>1. i \in 1..Held(r) /\ m + i \in 1..Held(b)
      BY <1>4, <1>5, <1>11
    <3>2. z[i] = b.array[Slot(b, m + i)]
      BY <1>9, <1>11, <2>2, <3>1
    <3>. QED
      BY <1>2, <1>4, <3>1, <3>2
  <2>4. PICK k : k = Len(q)
    OBVIOUS
  <2>5. m \in Nat /\ k \in Nat /\ m <= k /\ k <= Len(q)
    BY <1>4, <1>5, <2>4
  <2>6. Len(z) = k - m /\ \A i \in 1..(k - m) : z[i] = q[m + i]
    BY <2>2, <2>3, <2>4
  <2>7. z = SubSeq(q, m + 1, k)
    <3>1. q \in Seq(Byte) /\ z \in Seq(Byte)
      BY <1>4, <2>2
    <3>. QED
      BY <2>5, <2>6, <3>1, PartOf
  <2>. QED
    BY <2>1, <2>4, <2>7
<1>13. Items = q /\ Items' = Contents(r)
  BY <1>1, <1>8, ItemsContents
<1>14. RingTypeOK'
  BY <1>6, <1>7, <1>8, <1>10, ItemsContents
<1>15. output' = SubSeq(Items, 1, IF n < Len(Items) THEN n ELSE Len(Items))
  BY <1>5, <1>6, <1>7, <1>13
<1>16. Items' = SubSeq(Items, Len(output') + 1, Len(Items))
  BY <1>6, <1>7, <1>12, <1>13
<1>. QED
  BY <1>14, <1>15, <1>16, Zenon DEF Fifo!Get

\* ring_buffer_peek() is a Look of BoundedFifo.
LEMMA PeekRefines ==
    ASSUME RingTypeOK, NEW i \in 0..(Size - 1), Peek(i)
    PROVE  RingTypeOK' /\ Fifo!Look(i)
<1>. USE RingBufferAssumption
<1>1. PICK b, q : b = Now /\ q = Contents(b)
  OBVIOUS
<1>2. b \in Ring /\ b.array = buffer /\ b.head = head_index /\ b.tail = tail_index
  BY <1>1, ItemsContents DEF Now
<1>3. /\ q \in Seq(Byte) /\ Len(q) = Held(b) /\ Held(b) \in Nat
      /\ \A j \in 1..Held(b) : q[j] = buffer[Slot(b, j)] /\ q[j] \in Byte
  BY <1>1, <1>2, ContentsSeq
<1>4. Items = q /\ Items' = q /\ Now' = b
  <2>1. Now' = Now
    BY DEF Peek, Now
  <2>. QED
    BY <1>1, <2>1, ItemsContents
<1>5. output' = IF i >= Held(b) THEN << >> ELSE << buffer[Mask(tail_index + i)] >>
  BY <1>2 DEF Peek, Held
<1>6. CASE i < Len(q)
  <2>1. i + 1 \in 1..Held(b) /\ tail_index + (i + 1) - 1 = tail_index + i
    BY <1>2, <1>3, <1>6 DEF Ring
  <2>2. q[i + 1] = buffer[Mask(tail_index + i)]
    BY <1>2, <1>3, <2>1 DEF Slot
  <2>3. PICK e : e = q[i + 1]
    OBVIOUS
  <2>4. e \in Byte /\ output' = << e >>
    BY <1>3, <1>5, <1>6, <2>1, <2>2, <2>3
  <2>5. PICK z : z = << e >> /\ z \in Seq(Byte) /\ Len(z) = 1 /\ z[1] = e
    <3>1. << e >> \in Seq(Byte) /\ Len(<< e >>) = 1 /\ << e >>[1] = e
      BY <2>4
    <3>. QED
      BY <3>1, Zenon
  <2>6. z = SubSeq(q, i + 1, i + 1)
    <3>1. (i + 1) - i = 1 /\ i \in Nat /\ i + 1 \in Nat /\ i + 1 <= Len(q) /\ i <= i + 1
      BY <1>3, <1>6
    <3>2. \A j \in 1..1 : z[j] = q[i + j]
      BY <2>3, <2>5
    <3>3. z \in Seq(Byte) /\ Len(z) = (i + 1) - i /\ \A j \in 1..((i + 1) - i) : z[j] = q[i + j]
      BY <2>5, <3>1, <3>2
    <3>. QED
      BY <1>3, <3>1, <3>3, PartOf
  <2>7. output' = SubSeq(Items, i + 1, IF i < Len(Items) THEN i + 1 ELSE 0)
    BY <1>4, <1>6, <2>4, <2>5, <2>6
  <2>8. RingTypeOK'
    BY <1>2, <1>4, <2>4, <2>5, ItemsContents
  <2>. QED
    BY <1>4, <2>7, <2>8, Zenon DEF Fifo!Look
<1>7. CASE ~(i < Len(q))
  <2>1. output' = << >>
    BY <1>3, <1>5, <1>7
  <2>2. SubSeq(q, i + 1, 0) = << >>
    BY SubSeqEmpty
  <2>3. output' = SubSeq(Items, i + 1, IF i < Len(Items) THEN i + 1 ELSE 0)
    BY <1>4, <1>7, <2>1, <2>2
  <2>4. RingTypeOK'
    BY <1>2, <1>4, <2>1, EmptySeq, ItemsContents
  <2>. QED
    BY <1>4, <2>3, <2>4, Zenon DEF Fifo!Look
<1>. QED
  BY <1>6, <1>7

\* A buffer whose indexes are both zero is empty.
LEMMA EmptyContents ==
    ASSUME NEW b, b.head = 0, b.tail = 0
    PROVE  Contents(b) = << >>
<1>1. Held(b) = 0
  <2>1. 0 \in 0..(Size - 1) /\ 0 - 0 = 0
    BY RingBufferAssumption
  <2>. QED
    BY <2>1, MaskOf DEF Held, num_items
<1>. QED
  BY <1>1 DEF Contents

\* Every step of the ring buffer is one of the queue.
LEMMA RingStep ==
    ASSUME RingTypeOK, [RingNext]_ringvars
    PROVE  RingTypeOK' /\ [Fifo!FifoNext]_<< Items, output >>
<1>. USE RingBufferAssumption
<1>1. CASE Reset
  <2>1. /\ Now'.head = 0 /\ Now'.tail = 0 /\ Now' = [ array |-> buffer, head |-> 0, tail |-> 0 ]
        /\ output' = output
    BY <1>1 DEF Reset, Now
  <2>2. Items' = << >>
    BY <2>1, EmptyContents, ItemsContents
  <2>3. RingTypeOK'
    BY <1>1 DEF Reset, RingTypeOK
  <2>4. Fifo!Reset
    BY <2>1, <2>2 DEF Fifo!Reset
  <2>. QED
    BY <2>3, <2>4 DEF Fifo!FifoNext
<1>2. CASE \E s \in Arrays : QueueArr(s)
  <2>1. PICK s \in Arrays : QueueArr(s)
    BY <1>2
  <2>2. RingTypeOK' /\ Fifo!Put(s)
    BY <2>1, QueueArrRefines
  <2>. QED
    BY <2>2 DEF Fifo!FifoNext, Arrays
<1>3. CASE \E n \in 0..MaxArr : DequeueArr(n)
  <2>1. PICK n \in 0..MaxArr : DequeueArr(n)
    BY <1>3
  <2>2. RingTypeOK' /\ Fifo!Get(n)
    BY <2>1, DequeueArrRefines
  <2>. QED
    BY <2>2 DEF Fifo!FifoNext
<1>4. CASE \E i \in 0..(Size - 1) : Peek(i)
  <2>1. PICK i \in 0..(Size - 1) : Peek(i)
    BY <1>4
  <2>2. RingTypeOK' /\ Fifo!Look(i)
    BY <2>1, PeekRefines
  <2>. QED
    BY <2>2 DEF Fifo!FifoNext
<1>5. CASE UNCHANGED ringvars
  BY <1>5 DEF ringvars, RingTypeOK, Items
<1>. QED
  BY <1>1, <1>2, <1>3, <1>4, <1>5 DEF RingNext

\* The ring buffer of ringbuffer.c is a queue of RING_BUFFER_SIZE-1 bytes that gives them
\* back in order and loses the oldest ones, and only those, when it is full, for every
\* size of the array; its indexes stay inside the array.
THEOREM RingIsBoundedFifo == RingSpec => IsBoundedFifo
<1>1. RingInit => RingTypeOK /\ Fifo!FifoInit
  <2>. SUFFICES ASSUME RingInit PROVE RingTypeOK /\ Fifo!FifoInit
    OBVIOUS
  <2>1. RingTypeOK
    BY RingBufferAssumption, EmptySeq DEF RingInit, RingTypeOK
  <2>2. Now.head = 0 /\ Now.tail = 0
    BY DEF RingInit, Now
  <2>3. Items = << >>
    BY <2>2, EmptyContents, ItemsContents
  <2>. QED
    BY <2>1, <2>3 DEF RingInit, Fifo!FifoInit
<1>2. RingTypeOK /\ [RingNext]_ringvars => RingTypeOK' /\ [Fifo!FifoNext]_<< Items, output >>
  BY RingStep
<1>. QED
  BY <1>1, <1>2, PTL DEF RingSpec, IsBoundedFifo, Fifo!FifoSpec
=============================================================================
