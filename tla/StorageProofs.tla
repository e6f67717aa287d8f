---------------------------- MODULE StorageProofs ------------------------------
(***************************************************************************)
(* Proofs about BlockDevice and Cfi.                                       *)
(*                                                                         *)
(* BlockDevice: for any size of block and of disk, any table of partitions *)
(* and any tasks that share no block, a call moves exactly the bytes of    *)
(* its window.                                                             *)
(*                                                                         *)
(* Cfi: for any number and size of sectors, any data and any losses of     *)
(* power, a call that reads gets the contents of the flash and a call that *)
(* writes risks one block at a time.                                       *)
(***************************************************************************)
EXTENDS BlockDevice, Cfi, FiniteSetTheorems, SequenceTheorems, WellFoundedInduction, TLAPS

\* A product is monotone in a factor.
LEMMA TimesMonotone ==
    ASSUME NEW a \in Int, NEW b \in Int, NEW n \in Nat, a <= b
    PROVE  a * n <= b * n
<1>1. PICK d \in Nat : b = a + d
  <2>1. b - a \in Nat /\ b = a + (b - a)
    OBVIOUS
  <2>. QED
    BY <2>1
<1>2. b * n = a * n + d * n
  BY <1>1
<1>3. d * n \in Nat /\ a * n \in Int
  BY <1>1
<1>. QED
  BY <1>2, <1>3

\* Quotient and remainder.
LEMMA DivMod ==
    ASSUME NEW a \in Int, NEW n \in Nat \ {0}
    PROVE  /\ a \div n \in Int /\ a % n \in 0..(n - 1)
           /\ a = (a \div n) * n + (a % n)
  OBVIOUS

\* The same, with names for the two.
LEMMA Split ==
    ASSUME NEW a \in Nat, NEW n \in Nat \ {0}
    PROVE  \E q \in Int, r \in 0..(n - 1) : q = a \div n /\ r = a % n /\ a = q * n + r
  BY DivMod

\* They are the only ones.
LEMMA DivModUnique ==
    ASSUME NEW a \in Int, NEW n \in Nat \ {0}, NEW q \in Int, NEW r \in 0..(n - 1), a = q * n + r
    PROVE  a \div n = q /\ a % n = r
<1>1. PICK p \in Int, m \in 0..(n - 1) : p = a \div n /\ m = a % n /\ a = p * n + m
  BY DivMod
<1>2. p * n - q * n = r - m /\ p * n \in Int /\ q * n \in Int
  BY <1>1
<1>3. ~(p < q)
  <2>1. SUFFICES ASSUME p < q PROVE FALSE
    OBVIOUS
  <2>2. (p + 1) * n <= q * n
    BY <2>1, TimesMonotone
  <2>3. (p + 1) * n = p * n + n
    OBVIOUS
  <2>. QED
    BY <1>2, <2>2, <2>3
<1>4. ~(q < p)
  <2>1. SUFFICES ASSUME q < p PROVE FALSE
    OBVIOUS
  <2>2. (q + 1) * n <= p * n
    BY <2>1, TimesMonotone
  <2>3. (q + 1) * n = q * n + n
    OBVIOUS
  <2>. QED
    BY <1>2, <2>2, <2>3
<1>5. p = q
  BY <1>3, <1>4
<1>. QED
  BY <1>1, <1>2, <1>5

-----------------------------------------------------------------------------
(* The range of a call.                                                    *)

Size == block_size * block_count

\* The sizes that the assumption gives.
LEMMA Sizes ==
    /\ block_size \in Nat \ {0} /\ block_count \in Nat /\ Range32 \in Nat \ {0}
    /\ Size \in Nat /\ 2 * Size <= Range32
<1>1. /\ block_size \in Nat \ {0} /\ block_count \in Nat /\ Range32 \in Nat \ {0}
      /\ 2 * Size <= Range32
  BY BlockDeviceAssumption DEF Size
<1>. QED
  BY <1>1 DEF Size

\* A product of 32 bits that fits is itself or, at the limit, negative.
LEMMA ToOffSmall ==
    ASSUME NEW n \in 0..Size
    PROVE  ToOff(n) \in Int /\ (ToOff(n) = n \/ ToOff(n) < 0)
<1>1. n = 0 * Range32 + n /\ n \in 0..(Range32 - 1)
  BY Sizes
<1>2. n % Range32 = n
  BY <1>1, Sizes, DivModUnique
<1>3. Range32 \div 2 \in Int
  BY Sizes
<1>. QED
  BY <1>1, <1>2, <1>3, Sizes DEF ToOff

\* The length of a partition whose end comes round is a negative number of bytes.
LEMMA ToOffRound ==
    ASSUME NEW l \in 1..(Range32 - 1), Range32 - l <= block_count
    PROVE  ToOff(block_size * l) \in Int /\ ToOff(block_size * l) < 0
<1>1. PICK k \in Nat : k = Range32 - l /\ 0 < k /\ k <= block_count
  <2>1. Range32 - l \in Nat /\ 0 < Range32 - l
    BY Sizes
  <2>. QED
    BY <2>1
<1>2. k * block_size <= block_count * block_size /\ 1 * block_size <= k * block_size
  BY <1>1, Sizes, TimesMonotone
<1>3. PICK m \in Nat : m = k * block_size
  BY Sizes
<1>4. 0 < m /\ m <= Size
  BY <1>2, <1>3, Sizes DEF Size
<1>5. block_size * l = (block_size - 1) * Range32 + (Range32 - m)
  <2>1. l = Range32 - k
    BY <1>1, Sizes
  <2>2. block_size * (Range32 - k) = block_size * Range32 - block_size * k
    BY Sizes
  <2>3. (block_size - 1) * Range32 = block_size * Range32 - Range32
    BY Sizes
  <2>4. block_size * Range32 \in Int /\ block_size * k = m
    BY <1>3, Sizes
  <2>. QED
    BY <2>1, <2>2, <2>3, <2>4, Sizes
<1>6. block_size * l \in Int /\ block_size - 1 \in Int /\ Range32 - m \in 0..(Range32 - 1)
  BY <1>4, Sizes
<1>7. (block_size * l) % Range32 = Range32 - m
  BY <1>5, <1>6, Sizes, DivModUnique
<1>8. Range32 \div 2 \in Int /\ ~(Range32 - m < Range32 \div 2)
  <2>1. PICK h \in Int, r \in 0..1 : h = Range32 \div 2 /\ Range32 = h * 2 + r
    BY Sizes, DivMod
  <2>. QED
    BY <2>1, <1>4, Sizes
<1>. QED
  BY <1>4, <1>7, <1>8, Sizes DEF ToOff

\* blk_trim_range() never makes a range longer.
LEMMA TrimRange ==
    ASSUME NEW total \in Int, NEW o \in Nat, NEW n \in Nat, NEW r,
           r = IF o >= total THEN 0 ELSE IF o + n > total THEN total - o ELSE n
    PROVE  /\ r \in 0..n
           /\ r # 0 => total > 0 /\ o + r <= total /\ (r = n \/ o + r = total)
  OBVIOUS

\* A device is the disk or a partition that mbr_is_valid_entry() accepts.
LEMMA DeviceOf ==
    ASSUME NEW t \in Task, NEW c \in Calls(t)
    PROVE  /\ Device(c) \in Devices /\ Device(c).name = c.dev
           /\ c.offset \in Nat /\ c.len \in Nat /\ c.op \in { "read", "write" }
<1>1. /\ c.dev \in { d.name : d \in Devices } /\ c.offset \in Offsets /\ c.len \in Lengths
      /\ c.op \in { "read", "write" }
  BY DEF Calls
<1>2. \E d \in Devices : d.name = c.dev
  BY <1>1
<1>3. Device(c) \in Devices /\ Device(c).name = c.dev
  BY <1>2 DEF Device
<1>. QED
  BY <1>1, <1>3, BlockDeviceAssumption

\* The blocks of a device begin on the disk and, when a byte is left of a call to it,
\* end there.
LEMMA RangeOnDisk ==
    ASSUME NEW t \in Task, NEW c \in Calls(t)
    PROVE  /\ Device(c).lba_start \in Nat /\ Device(c).lba_len \in Nat
           /\ Place(c) \in Nat /\ Trimmed(c) \in Nat /\ Place(c) = First(c)
           /\ Device(c).lba_start * block_size <= Place(c)
           /\ Trimmed(c) # 0 =>
                LET end == (Device(c).lba_start + Device(c).lba_len) * block_size
                IN /\ Device(c).lba_start + Device(c).lba_len <= block_count
                   /\ end <= Size /\ end \in Nat
                   /\ Place(c) + Trimmed(c) <= end
                   /\ Trimmed(c) <= c.len
                   /\ Trimmed(c) = c.len \/ Place(c) + Trimmed(c) = end
<1>1. PICK s, l : s = Device(c).lba_start /\ l = Device(c).lba_len
  OBVIOUS
<1>2. /\ s \in Nat /\ l \in Nat
      /\ c.dev = "disk" => s = 0 /\ l = block_count
      /\ c.dev # "disk" => /\ l \in 1..(Range32 - 1) /\ s < block_count
                           /\ (s + l) % Range32 <= block_count /\ s < Range32
  <2>1. CASE Device(c) = [ name |-> "disk", lba_start |-> 0, lba_len |-> block_count ]
    BY <1>1, <2>1, DeviceOf, Sizes
  <2>2. CASE Device(c) \in Entries /\ mbr_is_valid_entry(Device(c))
    <3>1. /\ Device(c).lba_start \in 0..(Range32 - 1) /\ Device(c).lba_len \in 1..(Range32 - 1)
          /\ Device(c).name # "disk"
      BY <2>2, BlockDeviceAssumption
    <3>. QED
      BY <1>1, <2>2, <3>1, DeviceOf, Sizes DEF mbr_is_valid_entry
  <2>. QED
    BY <2>1, <2>2, DeviceOf DEF Devices
<1>3. PICK b \in Nat : b = s * block_size
  BY <1>2, Sizes
<1>4. PICK P \in Nat : P = Place(c) /\ P = c.offset + b
  <2>1. c.offset \in Nat
    BY DeviceOf
  <2>. QED
    BY <1>1, <1>3, <2>1 DEF Place
<1>5. Place(c) = First(c) /\ b <= P
  <2>1. c.offset \in Nat
    BY DeviceOf
  <2>2. First(c) = b + c.offset
    BY <1>1, <1>3 DEF First
  <2>. QED
    BY <1>3, <1>4, <2>1, <2>2
<1>6. PICK n : n = IF c.dev = "disk" THEN c.len ELSE blk_trim_range(l, c.offset, c.len)
  OBVIOUS
<1>7. Trimmed(c) = IF n = 0 THEN 0 ELSE blk_trim_range(block_count, P, n)
  BY <1>1, <1>4, <1>6 DEF Trimmed
<1>8. s * block_size + l * block_size = (s + l) * block_size /\ l * block_size \in Nat
  BY <1>2, Sizes
<1>9. PICK e \in Nat : e = l * block_size
  BY <1>8
<1>10. /\ n \in 0..c.len
       /\ n # 0 => /\ s + l <= block_count /\ b + e <= Size
                   /\ c.dev # "disk" => c.offset + n <= e /\ (n = c.len \/ c.offset + n = e)
  <2>1. c.len \in Nat /\ c.offset \in Nat
    BY DeviceOf
  <2>2. s + l <= block_count => b + e <= Size
    <3>1. s + l <= block_count => (s + l) * block_size <= block_count * block_size
      BY <1>2, Sizes, TimesMonotone
    <3>. QED
      BY <1>3, <1>8, <1>9, <3>1, Sizes DEF Size
  <2>3. CASE c.dev = "disk"
    BY <1>2, <1>6, <2>1, <2>2, <2>3, Sizes
  <2>4. CASE c.dev # "disk" /\ s + l <= block_count
    <3>1. block_size * l = e /\ e \in 0..Size
      BY <1>3, <1>9, <1>2, <2>2, <2>4, Sizes
    <3>2. ToOff(block_size * l) \in Int /\ (ToOff(block_size * l) = e \/ ToOff(block_size * l) < 0)
      BY <3>1, ToOffSmall
    <3>3. n = blk_trim_range(l, c.offset, c.len)
      BY <1>6, <2>4
    <3>4. PICK T \in Int : T = ToOff(block_size * l)
      BY <3>2
    <3>5. /\ n \in 0..c.len
          /\ n # 0 => T > 0 /\ c.offset + n <= T /\ (n = c.len \/ c.offset + n = T)
      <4>1. PICK o \in Nat, k \in Nat : o = c.offset /\ k = c.len
        BY <2>1
      <4>2. n = IF o >= T THEN 0 ELSE IF o + k > T THEN T - o ELSE k
        BY <3>3, <3>4, <4>1 DEF blk_trim_range
      <4>3. n \in 0..k /\ (n # 0 => T > 0 /\ o + n <= T /\ (n = k \/ o + n = T))
        BY <4>2, TrimRange
      <4>. QED
        BY <4>1, <4>3
    <3>. QED
      BY <2>1, <2>2, <2>4, <3>2, <3>4, <3>5
  <2>5. CASE c.dev # "disk" /\ ~(s + l <= block_count)
    <3>1. Range32 - l <= block_count
      <4>1. CASE s + l < Range32
        <5>1. s + l = 0 * Range32 + (s + l) /\ s + l \in 0..(Range32 - 1)
          BY <1>2, <4>1, Sizes
        <5>2. (s + l) % Range32 = s + l
          BY <5>1, DivModUnique, Sizes
        <5>. QED
          BY <1>2, <2>5, <5>2
      <4>2. CASE ~(s + l < Range32)
        BY <1>2, <2>5, <4>2, Sizes
      <4>. QED
        BY <4>1, <4>2
    <3>2. ToOff(block_size * l) \in Int /\ ToOff(block_size * l) < 0
      BY <1>2, <2>5, <3>1, ToOffRound
    <3>3. n = blk_trim_range(l, c.offset, c.len)
      BY <1>6, <2>5
    <3>4. PICK T \in Int : T = ToOff(block_size * l)
      BY <3>2
    <3>5. n = 0
      BY <2>1, <3>2, <3>3, <3>4 DEF blk_trim_range
    <3>. QED
      BY <2>1, <3>5
  <2>. QED
    BY <2>3, <2>4, <2>5
<1>11. /\ Trimmed(c) \in Nat
       /\ Trimmed(c) # 0 => /\ Trimmed(c) <= n /\ P + Trimmed(c) <= Size
                            /\ Trimmed(c) = n \/ P + Trimmed(c) = Size
  <2>1. CASE n = 0
    BY <1>7, <2>1
  <2>2. CASE n # 0
    <3>1. ToOff(Size) \in Int /\ (ToOff(Size) = Size \/ ToOff(Size) < 0)
      BY Sizes, ToOffSmall
    <3>2. Trimmed(c) = blk_trim_range(block_count, P, n) /\ n \in Nat
      <4>1. c.len \in Nat
        BY DeviceOf
      <4>. QED
        BY <1>7, <1>10, <2>2, <4>1
    <3>3. PICK T \in Int : T = ToOff(block_size * block_count)
      BY <3>1 DEF Size
    <3>4. /\ Trimmed(c) \in 0..n
          /\ Trimmed(c) # 0 => T > 0 /\ P + Trimmed(c) <= T /\ (Trimmed(c) = n \/ P + Trimmed(c) = T)
      <4>1. Trimmed(c) = IF P >= T THEN 0 ELSE IF P + n > T THEN T - P ELSE n
        BY <3>2, <3>3 DEF blk_trim_range
      <4>. QED
        BY <3>2, <4>1, TrimRange
    <3>5. T = Size \/ T < 0
      BY <3>1, <3>3 DEF Size
    <3>. QED
      BY <3>2, <3>4, <3>5, Sizes
  <2>. QED
    BY <2>1, <2>2
<1>12. ASSUME Trimmed(c) # 0
       PROVE  /\ s + l <= block_count /\ b + e <= Size
              /\ P + Trimmed(c) <= b + e /\ Trimmed(c) <= c.len
              /\ Trimmed(c) = c.len \/ P + Trimmed(c) = b + e
  <2>1. c.len \in Nat /\ c.offset \in Nat
    BY DeviceOf
  <2>2. n # 0
    BY <1>7, <1>12
  <2>3. c.dev = "disk" => b + e = Size
    BY <1>2, <1>3, <1>9, Sizes DEF Size
  <2>4. c.dev = "disk" => n = c.len
    BY <1>6
  <2>. QED
    BY <1>4, <1>10, <1>11, <1>12, <2>1, <2>2, <2>3, <2>4, Sizes
<1>13. (s + l) * block_size = b + e /\ b + e \in Nat
  BY <1>3, <1>8, <1>9
<1>. QED
  BY <1>1, <1>2, <1>3, <1>4, <1>5, <1>11, <1>12, <1>13

\* The bytes of a call of which some are left are consecutive.
LEMMA WindowIsRange ==
    ASSUME NEW t \in Task, NEW c \in Calls(t), Trimmed(c) # 0
    PROVE  /\ Window(c) = Place(c)..(Place(c) + Trimmed(c) - 1)
           /\ Cardinality(Window(c)) = Trimmed(c)
<1>1. PICK P \in Nat, n \in Nat, e \in Nat :
        /\ P = Place(c) /\ P = First(c) /\ n = Trimmed(c)
        /\ e = (Device(c).lba_start + Device(c).lba_len) * block_size
        /\ P + n <= e /\ e <= Size /\ n <= c.len /\ (n = c.len \/ P + n = e)
  BY RangeOnDisk
<1>2. c.len \in Nat
  BY DeviceOf
<1>3. Window(c) = { a \in Byte : P <= a /\ a < P + c.len /\ a < e /\ e <= Size }
  BY <1>1 DEF Window, Size
<1>4. Byte = 0..(Size - 1)
  BY DEF Byte, Size
<1>5. Window(c) = P..(P + n - 1)
  <2>1. ASSUME NEW a \in P..(P + n - 1)
        PROVE  a \in Byte /\ P <= a /\ a < P + c.len /\ a < e /\ e <= Size
    <3>1. a \in Int /\ P <= a /\ a < P + n /\ a < e
      BY <1>1
    <3>2. PICK m \in Nat : m = c.len /\ n <= m
      BY <1>1, <1>2
    <3>3. PICK z \in Nat : z = Size /\ e <= z
      BY <1>1, Sizes
    <3>4. a < P + m /\ a \in 0..(z - 1)
      BY <3>1, <3>2, <3>3
    <3>. QED
      BY <1>1, <1>4, <3>1, <3>2, <3>3, <3>4
  <2>2. ASSUME NEW a \in Byte, P <= a, a < P + c.len, a < e
        PROVE  a \in P..(P + n - 1)
    BY <1>1, <1>2, <1>4, <2>2, Sizes, SMTT(30)
  <2>. QED
    BY <1>3, <2>1, <2>2
<1>6. Cardinality(P..(P + n - 1)) = n
  <2>1. Cardinality(P..(P + n - 1)) = IF P > P + n - 1 THEN 0 ELSE (P + n - 1) - P + 1
    BY FS_Interval
  <2>. QED
    BY <2>1
<1>. QED
  BY <1>1, <1>5, <1>6

\* The bytes of such a call are in blocks of its device, which are whole on the disk.
LEMMA WindowInExtent ==
    ASSUME NEW t \in Task, NEW c \in Calls(t), Trimmed(c) # 0,
           NEW a \in Place(c)..(Place(c) + Trimmed(c) - 1)
    PROVE  /\ a \in Byte /\ a \div block_size \in Extent(c)
<1>1. PICK s \in Nat, l \in Nat, P \in Nat, n \in Nat, e \in Nat :
        /\ s = Device(c).lba_start /\ l = Device(c).lba_len /\ P = Place(c) /\ n = Trimmed(c)
        /\ e = (s + l) * block_size /\ s + l <= block_count
        /\ s * block_size <= P /\ P + n <= e /\ e <= Size
  BY RangeOnDisk
<1>2. a \in Int /\ P <= a /\ a < P + n
  BY <1>1
<1>3. PICK q \in Int, r \in 0..(block_size - 1) : q = a \div block_size /\ a = q * block_size + r
  BY <1>2, DivMod, Sizes
<1>4. PICK sb \in Int, qb \in Int : sb = s * block_size /\ qb = q * block_size
  BY <1>1, <1>3, Sizes
<1>5. ~(q < s)
  <2>1. SUFFICES ASSUME q < s PROVE FALSE
    OBVIOUS
  <2>2. (q + 1) * block_size <= s * block_size
    BY <1>1, <1>3, <2>1, TimesMonotone, Sizes
  <2>3. (q + 1) * block_size = qb + block_size
    BY <1>3, <1>4, Sizes
  <2>. QED
    BY <1>1, <1>2, <1>3, <1>4, <2>2, <2>3, Sizes
<1>6. ~(q >= s + l)
  <2>1. SUFFICES ASSUME s + l <= q PROVE FALSE
    BY <1>1, <1>3
  <2>2. (s + l) * block_size <= q * block_size
    BY <1>1, <1>3, <2>1, TimesMonotone, Sizes
  <2>. QED
    BY <1>1, <1>2, <1>3, <1>4, <2>2, Sizes
<1>7. a \in Byte
  BY <1>1, <1>2, Sizes DEF Byte, Size
<1>8. q \in 0..(block_count - 1)
  BY <1>1, <1>3, <1>5, <1>6, Sizes
<1>. QED
  BY <1>1, <1>3, <1>5, <1>6, <1>7, <1>8 DEF Extent

\* A place of a block is on the disk, and tells the block and itself.
LEMMA BlockOnDisk ==
    ASSUME NEW b \in 0..(block_count - 1), NEW i \in 0..(block_size - 1)
    PROVE  /\ b * block_size + i \in Byte
           /\ (b * block_size + i) \div block_size = b
           /\ (b * block_size + i) % block_size = i
<1>1. /\ b + 1 <= block_count /\ b \in Nat /\ i \in Nat /\ i < block_size
      /\ block_size \in Nat \ {0} /\ block_count \in Nat
  BY Sizes
<1>2. (b + 1) * block_size <= block_count * block_size
  BY <1>1, TimesMonotone
<1>3. PICK m \in Nat : m = b * block_size /\ m + block_size <= Size
  <2>1. (b + 1) * block_size = b * block_size + block_size
    BY <1>1
  <2>. QED
    BY <1>1, <1>2, <2>1 DEF Size
<1>4. m + i \in 0..(Size - 1)
  BY <1>1, <1>3, Sizes
<1>5. m + i \in Int /\ m + i = b * block_size + i /\ b \in Int
  BY <1>1, <1>3
<1>6. (m + i) \div block_size = b /\ (m + i) % block_size = i
  BY <1>1, <1>5, DivModUnique
<1>. QED
  BY <1>3, <1>4, <1>6 DEF Byte, Size

-----------------------------------------------------------------------------
(* The invariant of a call.                                                *)

PieceOf(p, n) == LET room == block_size - (p % block_size) IN IF room < n THEN room ELSE n

\* The block that a write stores: the bytes of the disk |d| with its own over them.
Patched(t, c, p, n, d) ==
    [ i \in 0..(block_size - 1) |->
        IF i \in (p % block_size)..((p % block_size) + PieceOf(p, n) - 1)
        THEN << t, p - Place(c) + i - (p % block_size) >>
        ELSE d[(p \div block_size) * block_size + i] ]

\* What the call |c| of task t has done when it is at |at|, with |n| bytes to move from
\* |p| on, and what it holds in its buffers.
Progress(t, c, p, n, at, tmp, bf, d) ==
    /\ c \in Calls(t) /\ Trimmed(c) # 0
    /\ p \in Nat /\ n \in Nat /\ Place(c) <= p /\ p + n = Place(c) + Trimmed(c)
    /\ at \in { "first", "last", "store" } => n > 0
    /\ at = "middle" => p % block_size = 0 /\ n >= block_size
    /\ at = "done" => n = 0
    /\ at = "store" => c.op = "write" /\ tmp = Patched(t, c, p, n, d)
    /\ c.op = "write" => \A a \in Place(c)..(p - 1) : d[a] = << t, a - Place(c) >>
    /\ c.op = "read" => bf = [ i \in 1..(p - Place(c)) |-> d[Place(c) + i - 1] ]

\* A call only depends on the blocks of its device.
LEMMA ProgressFrame ==
    ASSUME NEW t \in Task, NEW c, NEW p, NEW n, NEW at, NEW tmp, NEW bf, NEW d, NEW d2,
           Progress(t, c, p, n, at, tmp, bf, d),
           \A a \in Byte : a \div block_size \in Extent(c) => d2[a] = d[a]
    PROVE  Progress(t, c, p, n, at, tmp, bf, d2)
<1>1. /\ c \in Calls(t) /\ Trimmed(c) # 0 /\ p \in Nat /\ n \in Nat
      /\ Place(c) <= p /\ p + n = Place(c) + Trimmed(c)
  BY DEF Progress
<1>2. PICK P \in Nat, N \in Nat : P = Place(c) /\ N = Trimmed(c)
  BY <1>1, RangeOnDisk
<1>3. \A a \in P..(P + N - 1) : d2[a] = d[a]
  BY <1>1, <1>2, WindowInExtent
<1>4. \A a \in P..(p - 1) : d2[a] = d[a]
  <2>1. \A a \in P..(p - 1) : a \in P..(P + N - 1)
    BY <1>1, <1>2
  <2>. QED
    BY <1>3, <2>1
<1>5. ASSUME n > 0 PROVE Patched(t, c, p, n, d2) = Patched(t, c, p, n, d)
  <2>1. p \in P..(P + N - 1)
    BY <1>1, <1>2, <1>5
  <2>2. p \div block_size \in Extent(c) /\ p \div block_size \in 0..(block_count - 1)
    <3>1. p \div block_size \in Extent(c)
      BY <1>1, <1>2, <2>1, WindowInExtent
    <3>. QED
      BY <3>1 DEF Extent
  <2>3. \A i \in 0..(block_size - 1) :
           d2[(p \div block_size) * block_size + i] = d[(p \div block_size) * block_size + i]
    BY <2>2, BlockOnDisk
  <2>. QED
    BY <2>3 DEF Patched
<1>6. at = "store" => c.op = "write" /\ tmp = Patched(t, c, p, n, d2)
  BY <1>5 DEF Progress
<1>7. c.op = "write" => \A a \in Place(c)..(p - 1) : d2[a] = << t, a - Place(c) >>
  BY <1>2, <1>4 DEF Progress
<1>8. c.op = "read" => bf = [ i \in 1..(p - Place(c)) |-> d2[Place(c) + i - 1] ]
  <2>1. \A i \in 1..(p - P) : P + i - 1 \in P..(p - 1)
    BY <1>1, <1>2
  <2>2. \A i \in 1..(p - P) : d2[P + i - 1] = d[P + i - 1]
    BY <2>1, <1>4
  <2>3. c.op = "read" => bf = [ i \in 1..(p - P) |-> d[P + i - 1] ]
    BY <1>2 DEF Progress
  <2>4. [ i \in 1..(p - P) |-> d2[P + i - 1] ] = [ i \in 1..(p - P) |-> d[P + i - 1] ]
    BY <2>2
  <2>. QED
    BY <1>2, <2>3, <2>4
<1>9. /\ at \in { "first", "last", "store" } => n > 0
      /\ at = "middle" => p % block_size = 0 /\ n >= block_size
      /\ at = "done" => n = 0
  BY DEF Progress
<1>. QED
  BY <1>1, <1>6, <1>7, <1>8, <1>9 DEF Progress

\* What is left tells where a call goes next.
LEMMA AfterFirstCases ==
    ASSUME NEW n \in Nat, NEW at, at = AfterFirst(n)
    PROVE  /\ at \in { "middle", "last", "done" }
           /\ at = "middle" => n >= block_size
           /\ at = "last" => n > 0
           /\ at = "done" => n = 0
  BY Sizes DEF AfterFirst

\* |m| bytes are moved to the right places.
MovesTo(t, c, p, n, m, d, bf, d2, bf2) ==
    /\ m \in 1..n /\ (n - m >= block_size => (p + m) % block_size = 0)
    /\ c.op = "read" => d2 = d /\ bf2 = bf \o [ i \in 1..m |-> d[p + i - 1] ]
    /\ c.op = "write" => d2 = [ a \in Byte |-> IF a \in p..(p + m - 1)
                                               THEN << t, a - Place(c) >> ELSE d[a] ]

\* Then the call goes on from the next one.
LEMMA Moved ==
    ASSUME NEW t \in Task, NEW c, NEW p, NEW n, NEW at, NEW tmp, NEW bf, NEW d,
           NEW tmp2, NEW bf2, NEW d2, NEW m,
           Progress(t, c, p, n, at, tmp, bf, d),
           MovesTo(t, c, p, n, m, d, bf, d2, bf2)
    PROVE  Progress(t, c, p + m, n - m, AfterFirst(n - m), tmp2, bf2, d2)
<1>1. /\ c \in Calls(t) /\ Trimmed(c) # 0 /\ p \in Nat /\ n \in Nat
      /\ Place(c) <= p /\ p + n = Place(c) + Trimmed(c)
  BY DEF Progress
<1>2. PICK P \in Nat, N \in Nat : P = Place(c) /\ N = Trimmed(c)
  BY <1>1, RangeOnDisk
<1>3. m \in Nat /\ 1 <= m /\ m <= n
  BY <1>1 DEF MovesTo
<1>4. /\ p + m \in Nat /\ n - m \in Nat /\ P <= p + m /\ (p + m) + (n - m) = P + N
  BY <1>1, <1>2, <1>3
<1>5. /\ AfterFirst(n - m) \in { "middle", "last", "done" }
      /\ AfterFirst(n - m) = "middle" => n - m >= block_size
      /\ AfterFirst(n - m) = "last" => n - m > 0
      /\ AfterFirst(n - m) = "done" => n - m = 0
  BY <1>4, AfterFirstCases
<1>6. ASSUME c.op = "write", NEW a \in P..((p + m) - 1) PROVE d2[a] = << t, a - P >>
  <2>1. a \in P..(P + N - 1) /\ (a \in P..(p - 1) \/ a \in p..(p + m - 1))
    BY <1>1, <1>2, <1>3
  <2>2. a \in Byte
    BY <1>1, <1>2, <2>1, WindowInExtent
  <2>3. a \in P..(p - 1) => d[a] = << t, a - P >>
    BY <1>2, <1>6 DEF Progress
  <2>4. d2[a] = IF a \in p..(p + m - 1) THEN << t, a - P >> ELSE d[a]
    BY <1>2, <1>6, <2>2 DEF MovesTo
  <2>. QED
    BY <2>1, <2>3, <2>4
<1>7. ASSUME c.op = "read" PROVE bf2 = [ i \in 1..((p + m) - P) |-> d2[P + i - 1] ]
  <2>1. PICK k \in Nat : k = p - P /\ bf = [ i \in 1..k |-> d[P + i - 1] ]
    <3>1. p - P \in Nat /\ bf = [ i \in 1..(p - P) |-> d[P + i - 1] ]
      BY <1>1, <1>2, <1>7 DEF Progress
    <3>. QED
      BY <3>1
  <2>2. bf2 = bf \o [ i \in 1..m |-> d[p + i - 1] ] /\ d2 = d
    BY <1>7 DEF MovesTo
  <2>3. p = P + k
    BY <1>1, <1>2, <2>1
  <2>4. PICK S : \A a \in Int : d[a] \in S
    <3>1. \A a \in Int : d[a] \in { d[x] : x \in Int }
      OBVIOUS
    <3>. QED
      BY <3>1
  <2>5. bf \in Seq(S) /\ Len(bf) = k /\ \A i \in 1..k : bf[i] = d[P + i - 1]
    <3>1. bf \in [ 1..k -> S ]
      BY <1>2, <2>1, <2>4
    <3>. QED
      BY <2>1, <3>1
  <2>6. PICK x : x = [ i \in 1..m |-> d[p + i - 1] ]
    OBVIOUS
  <2>7. x \in Seq(S) /\ Len(x) = m /\ \A i \in 1..m : x[i] = d[p + i - 1]
    <3>1. x \in [ 1..m -> S ]
      BY <1>1, <2>4, <2>6
    <3>. QED
      BY <1>3, <2>6, <3>1
  <2>8. /\ bf \o x \in Seq(S) /\ Len(bf \o x) = k + m
        /\ \A i \in 1..(k + m) : (bf \o x)[i] = IF i <= k THEN bf[i] ELSE x[i - k]
    <3>1. /\ bf \o x \in Seq(S) /\ Len(bf \o x) = Len(bf) + Len(x)
          /\ \A i \in 1..(Len(bf) + Len(x)) :
                (bf \o x)[i] = IF i <= Len(bf) THEN bf[i] ELSE x[i - Len(bf)]
      <4>1. bf \in Seq(S) /\ x \in Seq(S)
        BY <2>5, <2>7
      <4>. QED
        BY <4>1, ConcatProperties, Zenon
    <3>2. Len(bf) = k /\ Len(x) = m
      BY <2>5, <2>7
    <3>. QED
      BY <3>1, <3>2, Zenon
  <2>9. \A i \in 1..(k + m) : (bf \o x)[i] = d[P + i - 1]
    <3>1. ASSUME NEW i \in 1..(k + m) PROVE (bf \o x)[i] = d[P + i - 1]
      <4>1. CASE i <= k
        BY <2>1, <2>5, <2>8, <4>1
      <4>2. CASE ~(i <= k)
        <5>1. i - k \in 1..m /\ p + (i - k) - 1 = P + i - 1
          <6>1. i \in Int /\ k < i /\ i <= k + m
            BY <1>3, <2>1, <4>2
          <6>. QED
            BY <1>3, <2>3, <6>1
        <5>2. (bf \o x)[i] = x[i - k]
          BY <2>8, <4>2
        <5>3. x[i - k] = d[p + (i - k) - 1]
          BY <2>7, <5>1
        <5>. QED
          BY <5>1, <5>2, <5>3
      <4>. QED
        BY <4>1, <4>2
    <3>. QED
      BY <3>1
  <2>10. bf \o x = [ i \in 1..(k + m) |-> d[P + i - 1] ]
    <3>1. bf \o x = [ i \in 1..(k + m) |-> (bf \o x)[i] ]
      <4>1. bf \o x \in [ 1..Len(bf \o x) -> S ]
        BY <2>8, LenProperties
      <4>. QED
        BY <2>8, <4>1
    <3>2. [ i \in 1..(k + m) |-> (bf \o x)[i] ] = [ i \in 1..(k + m) |-> d[P + i - 1] ]
      BY <2>9
    <3>. QED
      BY <3>1, <3>2
  <2>11. (p + m) - P = k + m
    BY <1>2, <1>3, <2>1, <2>3
  <2>. QED
    BY <2>2, <2>6, <2>10, <2>11
<1>8. /\ AfterFirst(n - m) \in { "first", "last", "store" } => n - m > 0
      /\ AfterFirst(n - m) = "middle" => (p + m) % block_size = 0 /\ n - m >= block_size
      /\ AfterFirst(n - m) # "store"
  BY <1>5 DEF MovesTo
<1>. QED
  BY <1>1, <1>2, <1>4, <1>5, <1>6, <1>7, <1>8 DEF Progress

-----------------------------------------------------------------------------
(* The pieces that a step moves.                                           *)

\* A piece is not empty, stays in its block and reaches its end or the one of the call.
LEMMA PieceInBlock ==
    ASSUME NEW p \in Nat, NEW n \in Nat \ {0}, NEW m, m = PieceOf(p, n)
    PROVE  /\ m \in 1..n /\ (p % block_size) + m <= block_size
           /\ n - m >= block_size => (p + m) % block_size = 0
<1>1. PICK q \in Int, o \in 0..(block_size - 1) :
        q = p \div block_size /\ o = p % block_size /\ p = q * block_size + o
  BY Split, Sizes, Zenon
<1>2. m = IF block_size - o < n THEN block_size - o ELSE n
  BY <1>1 DEF PieceOf
<1>3. m \in 1..n /\ o + m <= block_size
  BY <1>1, <1>2, Sizes
<1>4. ASSUME n - m >= block_size PROVE (p + m) % block_size = 0
  <2>1. m = block_size - o
    BY <1>2, <1>3, <1>4, Sizes
  <2>2. (q + 1) * block_size = q * block_size + block_size
    BY <1>1, Sizes
  <2>3. p + m = (q + 1) * block_size + 0
    <3>1. PICK z \in Int : z = q * block_size
      BY <1>1, Sizes
    <3>. QED
      BY <1>1, <2>1, <2>2, <3>1, Sizes
  <2>4. p + m \in Int /\ q + 1 \in Int /\ 0 \in 0..(block_size - 1)
    BY <1>1, <1>3, Sizes
  <2>. QED
    BY <2>3, <2>4, DivModUnique, Sizes
<1>. QED
  BY <1>1, <1>3, <1>4

\* The bytes of a piece, by their places in the block.
LEMMA PieceBytes ==
    ASSUME NEW p \in Nat, NEW m \in Nat, (p % block_size) + m <= block_size, NEW a \in Nat
    PROVE  /\ a \in p..(p + m - 1) <=>
                /\ a \div block_size = p \div block_size
                /\ a % block_size \in (p % block_size)..((p % block_size) + m - 1)
           /\ a \div block_size = p \div block_size =>
                (a % block_size) - (p % block_size) = a - p
<1>1. PICK q \in Int, o \in 0..(block_size - 1) :
        q = p \div block_size /\ o = p % block_size /\ p = q * block_size + o
  BY Split, Sizes, Zenon
<1>2. PICK v \in Int, r \in 0..(block_size - 1) :
        v = a \div block_size /\ r = a % block_size /\ a = v * block_size + r
  BY Split, Sizes, Zenon
<1>3. PICK z \in Int : z = q * block_size
  BY <1>1, Sizes
<1>4. v = q => r - o = a - p
  BY <1>1, <1>2, <1>3, Sizes
<1>5. ASSUME a \in p..(p + m - 1) PROVE v = q
  <2>1. a = q * block_size + (a - z) /\ a - z \in 0..(block_size - 1)
    BY <1>1, <1>3, <1>5, Sizes
  <2>. QED
    <3>1. block_size \in Nat \ {0} /\ a \in Int
      BY Sizes
    <3>2. a \div block_size = q
      BY <2>1, <3>1, DivModUnique
    <3>. QED
      BY <1>2, <3>2
<1>6. v = q => (a \in p..(p + m - 1) <=> r \in o..(o + m - 1))
  BY <1>1, <1>2, <1>4, Sizes
<1>. QED
  BY <1>1, <1>2, <1>4, <1>5, <1>6

StoredByte(tmp, p, d, a) ==
    IF a \div block_size = p \div block_size THEN tmp[a % block_size] ELSE d[a]
MovedByte(t, c, p, m, d, a) == IF a \in p..(p + m - 1) THEN << t, a - Place(c) >> ELSE d[a]

\* Storing the patched block changes the bytes of the piece and no other.
LEMMA StoreIsMove ==
    ASSUME NEW t, NEW c, Place(c) \in Nat, NEW p \in Nat, NEW n \in Nat \ {0}, NEW d,
           NEW a \in Byte
    PROVE  StoredByte(Patched(t, c, p, n, d), p, d, a) = MovedByte(t, c, p, PieceOf(p, n), d, a)
<1>. DEFINE tmp == Patched(t, c, p, n, d)
<1>1. PICK m \in Nat : m = PieceOf(p, n) /\ (p % block_size) + m <= block_size
  BY PieceInBlock
<1>2. a \in Nat
  BY Sizes DEF Byte, Size
<1>3. PICK q \in Int, o \in 0..(block_size - 1) :
        q = p \div block_size /\ o = p % block_size /\ p = q * block_size + o
  BY Split, Sizes, Zenon
<1>4. PICK v \in Int, r \in 0..(block_size - 1) :
        v = a \div block_size /\ r = a % block_size /\ a = v * block_size + r
  BY <1>2, Split, Sizes, Zenon
<1>5. /\ a \in p..(p + m - 1) <=> v = q /\ r \in o..(o + m - 1)
      /\ v = q => r - o = a - p
  BY <1>1, <1>2, <1>3, <1>4, PieceBytes
<1>6. tmp[r] = IF r \in o..(o + m - 1) THEN << t, p - Place(c) + r - o >> ELSE d[q * block_size + r]
  BY <1>1, <1>3, <1>4 DEF Patched
<1>7. v = q => p - Place(c) + r - o = a - Place(c)
  BY <1>2, <1>3, <1>4, <1>5
<1>8. v = q => q * block_size + r = a
  BY <1>4
<1>. QED
  BY <1>1, <1>3, <1>4, <1>5, <1>6, <1>7, <1>8 DEF StoredByte, MovedByte

\* A whole block, from its first byte on.
LEMMA BlockIsMove ==
    ASSUME NEW p \in Nat, p % block_size = 0, NEW a \in Byte
    PROVE  a \div block_size = p \div block_size <=> a \in p..(p + block_size - 1)
<1>1. a \in Nat
  BY Sizes DEF Byte, Size
<1>2. a % block_size \in 0..(block_size - 1)
  BY <1>1, DivMod, Sizes
<1>3. 0 + block_size <= block_size /\ block_size \in Nat
  BY Sizes
<1>4. a \in p..(p + block_size - 1) <=>
        a \div block_size = p \div block_size /\ a % block_size \in 0..(0 + block_size - 1)
  BY <1>1, <1>3, PieceBytes
<1>. QED
  BY <1>2, <1>3, <1>4

\* The bytes of a block that lie from |p| on.
LEMMA BlockFrom ==
    ASSUME NEW p \in Nat, NEW m \in Nat, (p % block_size) + m <= block_size, NEW i \in 1..m
    PROVE  /\ (p % block_size) + i - 1 \in 0..(block_size - 1)
           /\ (p \div block_size) * block_size + ((p % block_size) + i - 1) = p + i - 1
<1>1. PICK q \in Int, o \in 0..(block_size - 1) :
        q = p \div block_size /\ o = p % block_size /\ p = q * block_size + o
  BY Split, Sizes, Zenon
<1>2. PICK z \in Int : z = q * block_size
  BY <1>1, Sizes
<1>3. o + i - 1 \in 0..(block_size - 1) /\ z + (o + i - 1) = p + i - 1
  BY <1>1, <1>2, Sizes
<1>. QED
  BY <1>1, <1>2, <1>3

-----------------------------------------------------------------------------
(* The steps.                                                              *)

At == { "none", "first", "middle", "last", "store", "done" }

Shapes ==
    /\ DOMAIN disk = Byte /\ pc \in [Task -> At] /\ DOMAIN call = Task
    /\ pos \in [Task -> Nat] /\ len \in [Task -> Nat] /\ DOMAIN temp = Task /\ DOMAIN buf = Task
    /\ \A t \in Task : call[t] \in Calls(t) \cup { NoCall }

ProgressOf(t) == Progress(t, call[t], pos[t], len[t], pc[t], temp[t], buf[t], disk)

\* The inductive invariant: each call has moved exactly the bytes before its position.
DiskInv == Shapes /\ \A t \in Task : pc[t] # "none" => ProgressOf(t)

\* |m| bytes are moved, in normal form.
Transfer(t, m) ==
    /\ pc[t] # "none" /\ m \in 1..len[t]
    /\ len[t] - m >= block_size => (pos[t] + m) % block_size = 0
    /\ Advance(t, m) /\ call' = call
    /\ DOMAIN temp' = Task /\ \A u \in Task : u # t => temp'[u] = temp[u]
    /\ call[t].op = "read" =>
          /\ disk' = disk
          /\ buf' = [buf EXCEPT ![t] = @ \o [ i \in 1..m |-> disk[pos[t] + i - 1] ]]
    /\ call[t].op = "write" =>
          /\ disk' = [ a \in Byte |-> IF a \in pos[t]..(pos[t] + m - 1)
                                      THEN << t, a - Place(call[t]) >> ELSE disk[a] ]
          /\ buf' = buf

\* The task at work, and the others.
LEMMA TaskKinds ==
    ASSUME Shapes, NEW t \in Task, ProgressOf(t)
    PROVE  /\ call[t] \in Calls(t) /\ Trimmed(call[t]) # 0
           /\ call[t].op \in { "read", "write" }
           /\ Place(call[t]) \in Nat /\ pos[t] \in Nat /\ len[t] \in Nat
<1>1. call[t] \in Calls(t) /\ Trimmed(call[t]) # 0 /\ pos[t] \in Nat /\ len[t] \in Nat
  BY DEF ProgressOf, Progress
<1>. QED
  BY <1>1, DeviceOf, RangeOnDisk

\* The bytes that a transfer moves are of the window of its call.
LEMMA TransferInWindow ==
    ASSUME Shapes, NEW t \in Task, ProgressOf(t), NEW m \in 1..len[t],
           NEW a \in pos[t]..(pos[t] + m - 1)
    PROVE  a \in Place(call[t])..(Place(call[t]) + Trimmed(call[t]) - 1)
<1>1. PICK P \in Nat, N \in Nat : P = Place(call[t]) /\ N = Trimmed(call[t])
  BY TaskKinds, RangeOnDisk
<1>2. PICK p \in Nat, n \in Nat : p = pos[t] /\ n = len[t] /\ P <= p /\ p + n = P + N
  BY <1>1, TaskKinds DEF ProgressOf, Progress
<1>3. a \in p..(p + m - 1) /\ m \in 1..n
  BY <1>2
<1>4. a \in P..(P + N - 1)
  BY <1>1, <1>2, <1>3
<1>. QED
  BY <1>1, <1>4

\* A transfer takes the call of its task forward.
LEMMA TransferKeeps ==
    ASSUME DisjointUse, DiskInv, NEW t \in Task, NEW m, Transfer(t, m)
    PROVE  DiskInv'
<1>1. /\ ProgressOf(t) /\ m \in 1..len[t] /\ call' = call
      /\ pos' = [pos EXCEPT ![t] = @ + m] /\ len' = [len EXCEPT ![t] = @ - m]
      /\ pc' = [pc EXCEPT ![t] = AfterFirst(len[t] - m)]
  BY DEF DiskInv, Transfer, Advance
<1>2. /\ call[t] \in Calls(t) /\ Trimmed(call[t]) # 0 /\ call[t].op \in { "read", "write" }
      /\ Place(call[t]) \in Nat /\ pos[t] \in Nat /\ len[t] \in Nat
  BY <1>1, TaskKinds DEF DiskInv
<1>3. /\ m \in Nat /\ len[t] - m \in Nat /\ pos[t] + m \in Nat
  BY <1>1, <1>2
<1>4. AfterFirst(len[t] - m) \in At
  BY <1>3, AfterFirstCases DEF At
<1>5. /\ pos' \in [Task -> Nat] /\ len' \in [Task -> Nat] /\ pc' \in [Task -> At]
      /\ pos'[t] = pos[t] + m /\ len'[t] = len[t] - m /\ pc'[t] = AfterFirst(len[t] - m)
      /\ \A u \in Task : u # t => pos'[u] = pos[u] /\ len'[u] = len[u] /\ pc'[u] = pc[u]
  BY <1>1, <1>3, <1>4 DEF DiskInv, Shapes
<1>6. /\ DOMAIN temp' = Task /\ DOMAIN buf' = Task
      /\ \A u \in Task : u # t => temp'[u] = temp[u] /\ buf'[u] = buf[u]
      /\ call[t].op = "read" => buf'[t] = buf[t] \o [ i \in 1..m |-> disk[pos[t] + i - 1] ]
  BY <1>2 DEF Transfer, DiskInv, Shapes
<1>7. DOMAIN disk' = Byte
  BY <1>2 DEF Transfer, DiskInv, Shapes
<1>8. Shapes'
  BY <1>1, <1>5, <1>6, <1>7 DEF DiskInv, Shapes, Calls
<1>9. ProgressOf(t)'
  <2>1. PICK p, n, c, d, bf : /\ p = pos[t] /\ n = len[t] /\ c = call[t] /\ d = disk /\ bf = buf[t]
                              /\ Progress(t, c, p, n, pc[t], temp[t], bf, d)
    BY <1>1 DEF ProgressOf
  <2>2. m \in 1..n /\ (n - m >= block_size => (p + m) % block_size = 0)
    BY <2>1 DEF Transfer
  <2>3. c.op = "read" => disk' = d /\ buf'[t] = bf \o [ i \in 1..m |-> d[p + i - 1] ]
    BY <1>6, <2>1 DEF Transfer
  <2>4. c.op = "write" => disk' = [ a \in Byte |-> IF a \in p..(p + m - 1)
                                                   THEN << t, a - Place(c) >> ELSE d[a] ]
    BY <2>1 DEF Transfer
  <2>5. Progress(t, c, p + m, n - m, AfterFirst(n - m), temp'[t], buf'[t], disk')
    <3>1. PICK tmp2, bf2, d2 : tmp2 = temp'[t] /\ bf2 = buf'[t] /\ d2 = disk'
      OBVIOUS
    <3>2. c.op = "read" => d2 = d /\ bf2 = bf \o [ i \in 1..m |-> d[p + i - 1] ]
      BY <2>3, <3>1
    <3>3. c.op = "write" => d2 = [ a \in Byte |-> IF a \in p..(p + m - 1)
                                                  THEN << t, a - Place(c) >> ELSE d[a] ]
      BY <2>4, <3>1
    <3>4. PICK at, tmp : at = pc[t] /\ tmp = temp[t] /\ Progress(t, c, p, n, at, tmp, bf, d)
      BY <2>1
    <3>5. Progress(t, c, p + m, n - m, AfterFirst(n - m), tmp2, bf2, d2)
      <4>1. MovesTo(t, c, p, n, m, d, bf, d2, bf2)
        BY <2>2, <3>2, <3>3 DEF MovesTo
      <4>. QED
        BY <3>4, <4>1, Moved
    <3>. QED
      BY <3>1, <3>5
  <2>. QED
    BY <1>1, <1>5, <2>1, <2>5, SMTT(30) DEF ProgressOf, Progress, Calls
<1>10. ASSUME NEW u \in Task, u # t, pc'[u] # "none" PROVE ProgressOf(u)'
  <2>1. ProgressOf(u)
    BY <1>5, <1>10 DEF DiskInv
  <2>2. call[u] \in Calls(u)
    BY <2>1 DEF ProgressOf, Progress
  <2>3. ASSUME NEW a \in Byte, a \div block_size \in Extent(call[u]) PROVE disk'[a] = disk[a]
    <3>1. a \notin pos[t]..(pos[t] + m - 1)
      <4>1. SUFFICES ASSUME a \in pos[t]..(pos[t] + m - 1) PROVE FALSE
        OBVIOUS
      <4>2. a \in Place(call[t])..(Place(call[t]) + Trimmed(call[t]) - 1)
        BY <1>1, <4>1, TransferInWindow DEF DiskInv
      <4>3. a \div block_size \in Extent(call[t])
        BY <1>2, <4>2, WindowInExtent
      <4>. QED
        BY <1>2, <1>10, <2>2, <2>3, <4>3 DEF DisjointUse
    <3>. QED
      BY <1>2, <3>1 DEF Transfer
  <2>4. Progress(u, call[u], pos[u], len[u], pc[u], temp[u], buf[u], disk')
    <3>1. \A a \in Byte : a \div block_size \in Extent(call[u]) => disk'[a] = disk[a]
      BY <2>3
    <3>. QED
      BY <2>1, <3>1, ProgressFrame DEF ProgressOf
  <2>. QED
    BY <1>1, <1>5, <1>6, <1>10, <2>4 DEF ProgressOf, Progress, Calls
<1>. QED
  BY <1>8, <1>9, <1>10 DEF DiskInv

\* The other tasks when the disk is left alone.
LEMMA OthersKeep ==
    ASSUME DiskInv, NEW t \in Task, disk' = disk,
           \A u \in Task : u # t => /\ pc'[u] = pc[u] /\ call'[u] = call[u] /\ pos'[u] = pos[u]
                                    /\ len'[u] = len[u] /\ temp'[u] = temp[u] /\ buf'[u] = buf[u],
           Shapes', pc'[t] # "none" => ProgressOf(t)'
    PROVE  DiskInv'
<1>1. ASSUME NEW u \in Task, u # t, pc'[u] # "none" PROVE ProgressOf(u)'
  <2>1. Progress(u, call[u], pos[u], len[u], pc[u], temp[u], buf[u], disk)
    BY <1>1 DEF DiskInv, ProgressOf
  <2>. QED
    BY <1>1, <2>1 DEF ProgressOf, Progress, Calls
<1>. QED
  BY <1>1 DEF DiskInv

\* A call begins.
LEMMA CallKeeps ==
    ASSUME DiskInv, NEW t \in Task, NEW c \in Calls(t), Call(t, c)
    PROVE  DiskInv'
<1>1. /\ pc[t] = "none" /\ disk' = disk /\ temp' = temp /\ call' = [call EXCEPT ![t] = c]
      /\ pos' = [pos EXCEPT ![t] = Place(c)] /\ len' = [len EXCEPT ![t] = Trimmed(c)]
      /\ buf' = [buf EXCEPT ![t] = << >>]
      /\ \/ pc' = pc
         \/ /\ Trimmed(c) > 0
            /\ pc' = [pc EXCEPT ![t] = IF Place(c) % block_size # 0 THEN "first"
                                       ELSE AfterFirst(Trimmed(c))]
  BY DEF Call
<1>2. Place(c) \in Nat /\ Trimmed(c) \in Nat
  BY RangeOnDisk
<1>3. AfterFirst(Trimmed(c)) \in At /\ "first" \in At
  BY <1>2, AfterFirstCases DEF At
<1>4. /\ pos'[t] = Place(c) /\ len'[t] = Trimmed(c) /\ call'[t] = c /\ buf'[t] = << >>
      /\ temp'[t] = temp[t]
      /\ pc' \in [Task -> At] /\ pos' \in [Task -> Nat] /\ len' \in [Task -> Nat]
      /\ DOMAIN call' = Task /\ DOMAIN buf' = Task
  BY <1>1, <1>2, <1>3 DEF DiskInv, Shapes
<1>5. \A u \in Task : u # t => /\ pc'[u] = pc[u] /\ call'[u] = call[u] /\ pos'[u] = pos[u]
                               /\ len'[u] = len[u] /\ temp'[u] = temp[u] /\ buf'[u] = buf[u]
  BY <1>1 DEF DiskInv, Shapes
<1>6. Shapes'
  BY <1>1, <1>4, <1>5 DEF DiskInv, Shapes, Calls
<1>7. ASSUME pc'[t] # "none" PROVE ProgressOf(t)'
  <2>1. /\ Trimmed(c) > 0
        /\ pc'[t] = IF Place(c) % block_size # 0 THEN "first" ELSE AfterFirst(Trimmed(c))
    BY <1>1, <1>7 DEF DiskInv, Shapes
  <2>2. PICK p \in Nat, n \in Nat, at \in { pc'[t] } : p = Place(c) /\ n = Trimmed(c) /\ at = pc'[t] /\ n > 0
    BY <1>2, <2>1
  <2>3. /\ at = "first" \/ (p % block_size = 0 /\ at = AfterFirst(n))
    BY <2>1, <2>2
  <2>4. /\ at \in { "first", "last", "store" } => n > 0
        /\ at = "middle" => p % block_size = 0 /\ n >= block_size
        /\ at = "done" => n = 0
        /\ at # "store"
    BY <2>2, <2>3, AfterFirstCases
  <2>5. \A a \in p..(p - 1) : disk[a] = << t, a - p >>
    BY <2>2
  <2>6. << >> = [ i \in 1..(p - p) |-> disk[p + i - 1] ]
    <3>1. 1..(p - p) = {}
      BY <2>2
    <3>. QED
      BY <3>1
  <2>7. Progress(t, c, p, n, at, temp[t], << >>, disk)
    BY <2>2, <2>4, <2>5, <2>6 DEF Progress
  <2>. QED
    BY <1>1, <1>4, <2>2, <2>7 DEF ProgressOf, Progress, Calls
<1>. QED
  BY <1>1, <1>5, <1>6, <1>7, OthersKeep

\* A call ends, well or not.
LEMMA EndKeeps ==
    ASSUME DiskInv, NEW t \in Task, pc' = [pc EXCEPT ![t] = "none"],
           UNCHANGED << disk, call, pos, len, temp, buf >>
    PROVE  DiskInv'
<1>1. pc' \in [Task -> At] /\ pc'[t] = "none" /\ \A u \in Task : u # t => pc'[u] = pc[u]
  BY DEF DiskInv, Shapes, At
<1>2. Shapes'
  BY <1>1 DEF DiskInv, Shapes, Calls
<1>. QED
  BY <1>1, <1>2, OthersKeep

\* A partial block is fetched to be patched.
LEMMA PatchKeeps ==
    ASSUME DiskInv, NEW t \in Task, FetchPartial(t), call[t].op = "write"
    PROVE  DiskInv'
<1>1. /\ pc[t] \in { "first", "last" } /\ pc' = [pc EXCEPT ![t] = "store"]
      /\ UNCHANGED << disk, call, pos, len, buf >>
      /\ temp' = [temp EXCEPT ![t] = Patched(t, call[t], pos[t], len[t], disk)]
  <2>1. "write" # "read"
    OBVIOUS
  <2>2. Patched(t, call[t], pos[t], len[t], disk)
          = [ i \in 0..(block_size - 1) |->
                IF i \in (pos[t] % block_size)..((pos[t] % block_size) + Piece(t) - 1)
                THEN << t, pos[t] - Place(call[t]) + i - (pos[t] % block_size) >>
                ELSE BlockBytes(t)[i] ]
    BY DEF Patched, PieceOf, Piece, BlockBytes, Block
  <2>. QED
    BY <2>1, <2>2 DEF FetchPartial
<1>2. /\ pc' \in [Task -> At] /\ pc'[t] = "store" /\ DOMAIN temp' = Task
      /\ temp'[t] = Patched(t, call[t], pos[t], len[t], disk)
      /\ \A u \in Task : u # t => pc'[u] = pc[u] /\ temp'[u] = temp[u]
  BY <1>1 DEF DiskInv, Shapes, At
<1>3. Shapes'
  BY <1>1, <1>2 DEF DiskInv, Shapes, Calls
<1>4. Progress(t, call[t], pos[t], len[t], pc[t], temp[t], buf[t], disk)
  BY <1>1 DEF DiskInv, ProgressOf
<1>5. Progress(t, call[t], pos[t], len[t], "store",
               Patched(t, call[t], pos[t], len[t], disk), buf[t], disk)
  BY <1>1, <1>4 DEF Progress
<1>6. ProgressOf(t)'
  BY <1>1, <1>2, <1>5 DEF ProgressOf, Progress, Calls
<1>. QED
  BY <1>1, <1>2, <1>3, <1>6, OthersKeep

\* The other steps move bytes.
LEMMA FetchIsTransfer ==
    ASSUME DiskInv, NEW t \in Task, FetchPartial(t), call[t].op = "read"
    PROVE  Transfer(t, Piece(t))
<1>1. /\ pc[t] \in { "first", "last" } /\ Advance(t, Piece(t))
      /\ UNCHANGED << disk, call >> /\ temp' = [temp EXCEPT ![t] = BlockBytes(t)]
      /\ buf' = [buf EXCEPT ![t] =
            @ \o [ i \in 1..Piece(t) |-> temp'[t][(pos[t] % block_size) + i - 1] ]]
  BY DEF FetchPartial
<1>2. PICK p \in Nat, n \in Nat \ {0}, m \in { Piece(t) } : p = pos[t] /\ n = len[t] /\ m = PieceOf(p, n) /\ m = Piece(t)
  <2>1. pos[t] \in Nat /\ len[t] \in Nat \ {0}
    <3>1. Progress(t, call[t], pos[t], len[t], pc[t], temp[t], buf[t], disk)
      BY <1>1 DEF DiskInv, ProgressOf
    <3>. QED
      BY <1>1, <3>1 DEF Progress
  <2>. QED
    BY <2>1 DEF Piece, PieceOf
<1>3. /\ m \in 1..n /\ (p % block_size) + m <= block_size
      /\ n - m >= block_size => (p + m) % block_size = 0
  BY <1>2, PieceInBlock
<1>4. /\ temp'[t] = BlockBytes(t) /\ DOMAIN temp' = Task
      /\ \A u \in Task : u # t => temp'[u] = temp[u]
  BY <1>1 DEF DiskInv, Shapes
<1>5. ASSUME NEW i \in 1..m
      PROVE  temp'[t][(p % block_size) + i - 1] = disk[p + i - 1]
  <2>1. /\ (p % block_size) + i - 1 \in 0..(block_size - 1)
        /\ (p \div block_size) * block_size + ((p % block_size) + i - 1) = p + i - 1
    BY <1>3, BlockFrom
  <2>. QED
    BY <1>2, <1>4, <2>1 DEF BlockBytes, Block
<1>6. [ i \in 1..m |-> temp'[t][(p % block_size) + i - 1] ] = [ i \in 1..m |-> disk[p + i - 1] ]
  BY <1>5
<1>7. buf' = [buf EXCEPT ![t] = @ \o [ i \in 1..m |-> disk[p + i - 1] ]]
  <2>1. buf' = [buf EXCEPT ![t] = @ \o [ i \in 1..m |-> temp'[t][(p % block_size) + i - 1] ]]
    BY <1>1, <1>2
  <2>2. PICK x, y : /\ x = [ i \in 1..m |-> temp'[t][(p % block_size) + i - 1] ]
                    /\ y = [ i \in 1..m |-> disk[p + i - 1] ] /\ x = y
    BY <1>6
  <2>. QED
    BY <2>1, <2>2
<1>. QED
  BY <1>1, <1>2, <1>3, <1>4, <1>7 DEF Transfer

\* The store of a patched block is a transfer.
LEMMA StoreIsTransfer ==
    ASSUME DiskInv, NEW t \in Task, StorePartial(t)
    PROVE  Transfer(t, Piece(t))
<1>1. /\ pc[t] = "store" /\ Advance(t, Piece(t)) /\ UNCHANGED << call, temp, buf >>
      /\ disk' = [ a \in Byte |-> IF a \div block_size = pos[t] \div block_size
                                  THEN temp[t][a % block_size] ELSE disk[a] ]
  BY DEF StorePartial, InBlock, Block
<1>2. Progress(t, call[t], pos[t], len[t], "store", temp[t], buf[t], disk)
  BY <1>1 DEF DiskInv, ProgressOf
<1>3. PICK p \in Nat, n \in Nat \ {0}, m \in { Piece(t) } : p = pos[t] /\ n = len[t] /\ m = PieceOf(p, n) /\ m = Piece(t)
  <2>1. pos[t] \in Nat /\ len[t] \in Nat \ {0}
    BY <1>2 DEF Progress
  <2>. QED
    BY <2>1 DEF Piece, PieceOf
<1>4. m \in 1..n /\ (n - m >= block_size => (p + m) % block_size = 0)
  BY <1>3, PieceInBlock
<1>5. call[t].op = "write" /\ temp[t] = Patched(t, call[t], p, n, disk) /\ Place(call[t]) \in Nat
  <2>1. call[t].op = "write" /\ temp[t] = Patched(t, call[t], p, n, disk) /\ call[t] \in Calls(t)
    BY <1>2, <1>3 DEF Progress
  <2>. QED
    BY <2>1, RangeOnDisk
<1>6. \A a \in Byte :
        (IF a \div block_size = p \div block_size THEN temp[t][a % block_size] ELSE disk[a])
          = IF a \in p..(p + m - 1) THEN << t, a - Place(call[t]) >> ELSE disk[a]
  <2>1. PICK c, d, tmp : c = call[t] /\ d = disk /\ tmp = temp[t]
    OBVIOUS
  <2>2. tmp = Patched(t, c, p, n, d) /\ Place(c) \in Nat
    BY <1>5, <2>1
  <2>3. ASSUME NEW a \in Byte
        PROVE  StoredByte(tmp, p, d, a) = MovedByte(t, c, p, PieceOf(p, n), d, a)
    <3>1. StoredByte(Patched(t, c, p, n, d), p, d, a) = MovedByte(t, c, p, PieceOf(p, n), d, a)
      BY <2>2, StoreIsMove
    <3>. QED
      BY <2>2, <3>1
  <2>. QED
    BY <1>3, <2>1, <2>3 DEF StoredByte, MovedByte
<1>7. disk' = [ a \in Byte |-> IF a \in p..(p + m - 1) THEN << t, a - Place(call[t]) >> ELSE disk[a] ]
  BY <1>1, <1>3, <1>6
<1>8. DOMAIN temp' = Task /\ \A u \in Task : temp'[u] = temp[u]
  BY <1>1 DEF DiskInv, Shapes
<1>. QED
  BY <1>1, <1>3, <1>4, <1>5, <1>7, <1>8 DEF Transfer

\* The move of a whole block is a transfer.
LEMMA MoveIsTransfer ==
    ASSUME DiskInv, NEW t \in Task, MoveBlock(t)
    PROVE  Transfer(t, block_size)
<1>1. /\ pc[t] = "middle" /\ Advance(t, block_size) /\ UNCHANGED << call, temp >>
      /\ call[t].op = "read" =>
            /\ buf' = [buf EXCEPT ![t] = @ \o [ i \in 1..block_size |-> BlockBytes(t)[i - 1] ]]
            /\ disk' = disk
      /\ call[t].op # "read" =>
            /\ disk' = [ a \in Byte |-> IF a \div block_size = pos[t] \div block_size
                            THEN << t, a - Place(call[t]) >> ELSE disk[a] ]
            /\ buf' = buf
  BY DEF MoveBlock, InBlock, Block
<1>2. Progress(t, call[t], pos[t], len[t], "middle", temp[t], buf[t], disk)
  BY <1>1 DEF DiskInv, ProgressOf
<1>3. PICK p \in Nat, n \in Nat : p = pos[t] /\ n = len[t] /\ p % block_size = 0 /\ n >= block_size
  BY <1>2 DEF Progress
<1>4. block_size \in 1..n
  BY <1>3, Sizes
<1>5. (p + block_size) % block_size = 0
  <2>1. PICK q \in Int, o \in 0..(block_size - 1) :
          q = p \div block_size /\ o = p % block_size /\ p = q * block_size + o
    BY Split, Sizes, Zenon
  <2>2. PICK z \in Int : z = q * block_size /\ p = z
    BY <1>3, <2>1, Sizes
  <2>3. (q + 1) * block_size = z + block_size
    BY <2>1, <2>2, Sizes
  <2>4. p + block_size = (q + 1) * block_size + 0 /\ p + block_size \in Int
        /\ q + 1 \in Int /\ 0 \in 0..(block_size - 1)
    BY <2>1, <2>2, <2>3, Sizes
  <2>. QED
    BY <2>4, DivModUnique, Sizes
<1>6. [ i \in 1..block_size |-> BlockBytes(t)[i - 1] ] = [ i \in 1..block_size |-> disk[p + i - 1] ]
  <2>1. ASSUME NEW i \in 1..block_size PROVE BlockBytes(t)[i - 1] = disk[p + i - 1]
    <3>1. (p % block_size) + block_size <= block_size /\ block_size \in Nat
      BY <1>3, Sizes
    <3>2. /\ (p % block_size) + i - 1 \in 0..(block_size - 1)
          /\ (p \div block_size) * block_size + ((p % block_size) + i - 1) = p + i - 1
      BY <3>1, BlockFrom
    <3>3. (p % block_size) + i - 1 = i - 1
      BY <1>3
    <3>. QED
      BY <1>3, <3>2, <3>3 DEF BlockBytes, Block
  <2>. QED
    BY <2>1
<1>7. \A a \in Byte : a \div block_size = p \div block_size <=> a \in p..(p + block_size - 1)
  BY <1>3, BlockIsMove
<1>8. call[t].op # "read" =>
        disk' = [ a \in Byte |-> IF a \in p..(p + block_size - 1)
                                 THEN << t, a - Place(call[t]) >> ELSE disk[a] ]
  BY <1>1, <1>3, <1>7
<1>9. DOMAIN temp' = Task /\ \A u \in Task : temp'[u] = temp[u]
  BY <1>1 DEF DiskInv, Shapes
<1>. QED
  BY <1>1, <1>3, <1>4, <1>5, <1>6, <1>8, <1>9 DEF Transfer

-----------------------------------------------------------------------------
(* The theorems on block devices.                                          *)

\* The invariant holds at first.
LEMMA DiskInit == Init => DiskInv
<1>1. SUFFICES ASSUME Init PROVE DiskInv
  OBVIOUS
<1>2. Shapes
  BY <1>1 DEF Init, Shapes, At
<1>3. \A t \in Task : pc[t] = "none"
  BY <1>1 DEF Init
<1>. QED
  BY <1>2, <1>3 DEF DiskInv

\* A step is one of the moves or leaves the disk alone.
LEMMA DiskStep ==
    ASSUME DisjointUse, DiskInv, [Next]_vars
    PROVE  /\ DiskInv'
           /\ disk' = disk \/ \E t \in Task, m \in Nat : Transfer(t, m) /\ call[t].op = "write"
<1>1. ASSUME NEW t \in Task, NEW c \in Calls(t), Call(t, c)
      PROVE  DiskInv' /\ disk' = disk
  BY <1>1, CallKeeps DEF Call
<1>2. ASSUME NEW t \in Task, NEW m \in Nat, Transfer(t, m)
      PROVE  DiskInv' /\ (disk' = disk \/ (Transfer(t, m) /\ call[t].op = "write"))
  <2>1. call[t].op \in { "read", "write" }
    <3>1. ProgressOf(t) /\ Shapes
      BY <1>2 DEF Transfer, DiskInv
    <3>. QED
      BY <3>1, TaskKinds
  <2>2. DiskInv'
    BY <1>2, TransferKeeps
  <2>. QED
    BY <1>2, <2>1, <2>2 DEF Transfer
<1>3. ASSUME NEW t \in Task, FetchPartial(t)
      PROVE  DiskInv' /\ (disk' = disk \/ \E m \in Nat : Transfer(t, m) /\ call[t].op = "write")
  <2>1. disk' = disk /\ pc[t] # "none"
    BY <1>3 DEF FetchPartial
  <2>2. call[t].op \in { "read", "write" }
    <3>1. ProgressOf(t) /\ Shapes
      BY <2>1 DEF DiskInv
    <3>. QED
      BY <3>1, TaskKinds
  <2>3. CASE call[t].op = "write"
    BY <1>3, <2>1, <2>3, PatchKeeps
  <2>4. CASE call[t].op = "read"
    <3>1. Transfer(t, Piece(t))
      BY <1>3, <2>4, FetchIsTransfer
    <3>2. DiskInv'
      BY <3>1, TransferKeeps
    <3>. QED
      BY <2>1, <3>2
  <2>. QED
    BY <2>2, <2>3, <2>4
<1>4. ASSUME NEW t \in Task, StorePartial(t)
      PROVE  DiskInv' /\ (disk' = disk \/ \E m \in Nat : Transfer(t, m) /\ call[t].op = "write")
  <2>1. Transfer(t, Piece(t))
    BY <1>4, StoreIsTransfer
  <2>2. Piece(t) \in Nat
    BY <2>1 DEF Transfer, DiskInv, Shapes
  <2>. QED
    BY <1>2, <2>1, <2>2
<1>5. ASSUME NEW t \in Task, MoveBlock(t)
      PROVE  DiskInv' /\ (disk' = disk \/ \E m \in Nat : Transfer(t, m) /\ call[t].op = "write")
  <2>1. Transfer(t, block_size) /\ block_size \in Nat
    BY <1>5, MoveIsTransfer, Sizes
  <2>. QED
    BY <1>2, <2>1
<1>6. ASSUME NEW t \in Task, TransferFails(t) \/ Return(t)
      PROVE  DiskInv' /\ disk' = disk
  <2>1. pc' = [pc EXCEPT ![t] = "none"] /\ UNCHANGED << disk, call, pos, len, temp, buf >>
    BY <1>6 DEF TransferFails, Return
  <2>2. DiskInv'
    BY <2>1, EndKeeps
  <2>. QED
    BY <2>1, <2>2
<1>7. CASE UNCHANGED vars
  BY <1>7 DEF vars, DiskInv, Shapes, ProgressOf, Progress, Calls
<1>8. CASE Next
  BY <1>1, <1>3, <1>4, <1>5, <1>6, <1>8 DEF Next
<1>. QED
  BY <1>7, <1>8

\* A call whose task is at "done" has moved the bytes of its window.
LEMMA DiskCompleted == DiskInv => Completed
<1>1. SUFFICES ASSUME DiskInv PROVE Completed
  OBVIOUS
<1>2. ASSUME NEW t \in Task, pc[t] # "none"
      PROVE  /\ pos[t] + len[t] <= block_size * block_count
             /\ Window(call[t]) = First(call[t])..(First(call[t]) + Trimmed(call[t]) - 1)
             /\ Cardinality(Window(call[t])) = Trimmed(call[t])
             /\ Place(call[t]) = First(call[t])
  <2>1. ProgressOf(t)
    BY <1>1, <1>2 DEF DiskInv
  <2>2. call[t] \in Calls(t) /\ Trimmed(call[t]) # 0
    BY <2>1 DEF ProgressOf, Progress
  <2>3. PICK P \in Nat, N \in Nat, e \in Nat :
          P = Place(call[t]) /\ N = Trimmed(call[t]) /\ P + N <= e /\ e <= Size
    BY <2>2, RangeOnDisk
  <2>4. pos[t] + len[t] = P + N
    BY <2>1, <2>3 DEF ProgressOf, Progress
  <2>5. P + N <= Size
    BY <2>3, Sizes
  <2>6. Place(call[t]) = First(call[t])
    BY <2>2, RangeOnDisk
  <2>7. /\ Window(call[t]) = Place(call[t])..(Place(call[t]) + Trimmed(call[t]) - 1)
        /\ Cardinality(Window(call[t])) = Trimmed(call[t])
    BY <2>2, WindowIsRange
  <2>. QED
    BY <2>4, <2>5, <2>6, <2>7 DEF Size
<1>3. TypeOK
  BY <1>1, <1>2 DEF DiskInv, Shapes, At, TypeOK
<1>4. ASSUME NEW t \in Task, pc[t] = "done"
      PROVE  LET W == Window(call[t])
             IN /\ pos[t] - First(call[t]) = Cardinality(W)
                /\ call[t].op = "write" => \A a \in W : disk[a] = << t, a - First(call[t]) >>
                /\ call[t].op = "read" =>
                     buf[t] = [ i \in 1..Cardinality(W) |-> disk[First(call[t]) + i - 1] ]
  <2>1. PICK c, p, n : /\ c = call[t] /\ p = pos[t] /\ n = len[t]
                       /\ Progress(t, c, p, n, "done", temp[t], buf[t], disk)
    BY <1>1, <1>4 DEF DiskInv, ProgressOf
  <2>2. n = 0 /\ p \in Nat /\ c \in Calls(t) /\ p + n = Place(c) + Trimmed(c)
    BY <2>1 DEF Progress
  <2>3. PICK F \in Nat, N \in Nat : F = First(c) /\ F = Place(c) /\ N = Trimmed(c)
    BY <2>2, RangeOnDisk
  <2>4. Window(c) = F..(F + N - 1) /\ Cardinality(Window(c)) = N
    BY <1>2, <1>4, <2>1, <2>3
  <2>5. p = F + N /\ p - F = N /\ p - 1 = F + N - 1
    BY <2>2, <2>3
  <2>6. c.op = "write" => \A a \in F..(p - 1) : disk[a] = << t, a - F >>
    BY <2>1, <2>3 DEF Progress
  <2>7. c.op = "read" => buf[t] = [ i \in 1..(p - F) |-> disk[F + i - 1] ]
    BY <2>1, <2>3 DEF Progress
  <2>8. c.op = "write" => \A a \in Window(c) : disk[a] = << t, a - F >>
    BY <2>4, <2>5, <2>6
  <2>9. c.op = "read" => buf[t] = [ i \in 1..Cardinality(Window(c)) |-> disk[F + i - 1] ]
    BY <2>4, <2>5, <2>7
  <2>. QED
    BY <2>1, <2>3, <2>4, <2>5, <2>8, <2>9
<1>. QED
  BY <1>3, <1>4 DEF Completed

\* A call of blk_read() or blk_write() that ends well has moved all the bytes of its
\* range that the device has, to or from the right places, for any disk, partition table
\* and calls, when devices that different tasks use share no block.
THEOREM CallsComplete ==
    ASSUME DisjointUse
    PROVE  Spec => []Completed
<1>1. DiskInv /\ [Next]_vars => DiskInv'
  BY DiskStep
<1>. QED
  BY <1>1, DiskInit, DiskCompleted, PTL DEF Spec

\* Under the same hypothesis a byte of the disk only changes to the byte that a write in
\* its window puts there: blk_default_write() restores what it reads of partial blocks
\* and no partition is left, whatever the entries of its table.
THEOREM WritesStayInWindow ==
    ASSUME DisjointUse
    PROVE  Spec => OnlyOwnBytes
<1>. DEFINE Own == \A a \in Byte : disk'[a] # disk[a] =>
                     \E t \in Task : /\ pc[t] # "none" /\ call[t].op = "write"
                                     /\ a \in Window(call[t])
                                     /\ disk'[a] = << t, a - First(call[t]) >>
<1>1. DiskInv /\ [Next]_vars => DiskInv' /\ [Own]_vars
  <2>1. SUFFICES ASSUME DiskInv, [Next]_vars PROVE DiskInv' /\ Own
    OBVIOUS
  <2>2. /\ DiskInv'
        /\ disk' = disk \/ \E t \in Task, m \in Nat : Transfer(t, m) /\ call[t].op = "write"
    BY <2>1, DiskStep
  <2>3. ASSUME NEW t \in Task, NEW m \in Nat, Transfer(t, m), call[t].op = "write",
               NEW a \in Byte, disk'[a] # disk[a]
        PROVE  /\ pc[t] # "none" /\ call[t].op = "write"
               /\ a \in Window(call[t])
               /\ disk'[a] = << t, a - First(call[t]) >>
    <3>1. /\ pc[t] # "none" /\ m \in 1..len[t]
          /\ disk'[a] = IF a \in pos[t]..(pos[t] + m - 1)
                        THEN << t, a - Place(call[t]) >> ELSE disk[a]
      BY <2>3 DEF Transfer
    <3>2. a \in pos[t]..(pos[t] + m - 1) /\ disk'[a] = << t, a - Place(call[t]) >>
      BY <2>3, <3>1
    <3>3. ProgressOf(t) /\ Shapes
      BY <2>1, <3>1 DEF DiskInv
    <3>4. a \in Place(call[t])..(Place(call[t]) + Trimmed(call[t]) - 1)
      BY <3>1, <3>2, <3>3, TransferInWindow
    <3>5. call[t] \in Calls(t) /\ Trimmed(call[t]) # 0
      BY <3>3, TaskKinds
    <3>6. a \in Window(call[t]) /\ Place(call[t]) = First(call[t])
      BY <3>4, <3>5, WindowIsRange, RangeOnDisk
    <3>. QED
      BY <2>3, <3>1, <3>2, <3>6
  <2>. QED
    BY <2>2, <2>3
<1>. QED
  BY <1>1, DiskInit, PTL DEF Spec, OnlyOwnBytes

-----------------------------------------------------------------------------
(* Sequences put one after the other.                                      *)

\* Induction over the naturals, for a set that holds what is to be shown.
LEMMA NatInductionOnSet ==
    ASSUME NEW S, 0 \in S, \A n \in Nat : n \in S => n + 1 \in S
    PROVE  \A n \in Nat : n \in S
<1>. SUFFICES ASSUME Nat \ S # {} PROVE FALSE
  OBVIOUS
<1>1. PICK x \in Nat \ S : \A y \in Nat \ S : ~(<< y, x >> \in OpToRel(<, Nat))
  <2>1. Nat \ S \subseteq Nat
    OBVIOUS
  <2>. QED
    BY <2>1, NatLessThanWellFounded, WFMin
<1>2. x - 1 \in Nat /\ x - 1 < x /\ (x - 1) + 1 = x
  OBVIOUS
<1>3. << x - 1, x >> \in OpToRel(<, Nat)
  BY <1>2 DEF OpToRel
<1>4. x - 1 \in S
  BY <1>1, <1>2, <1>3
<1>. QED
  BY <1>2, <1>4

\* Two sequences put together.
LEMMA ConcatAt ==
    ASSUME NEW T, NEW x \in Seq(T), NEW y \in Seq(T), NEW m, NEW n, Len(x) = m, Len(y) = n
    PROVE  /\ x \o y \in Seq(T) /\ Len(x \o y) = m + n /\ m \in Nat /\ n \in Nat
           /\ \A k \in 1..m : (x \o y)[k] = x[k]
           /\ \A k \in 1..n : (x \o y)[m + k] = y[k]
<1>1. /\ x \o y \in Seq(T) /\ Len(x \o y) = Len(x) + Len(y)
      /\ \A k \in 1..(Len(x) + Len(y)) : (x \o y)[k] = IF k <= Len(x) THEN x[k] ELSE y[k - Len(x)]
  BY ConcatProperties, Zenon
<1>2. m \in Nat /\ n \in Nat
  BY LenProperties
<1>3. \A k \in 1..(m + n) : (x \o y)[k] = IF k <= m THEN x[k] ELSE y[k - m]
  BY <1>1, Zenon
<1>4. ASSUME NEW k \in 1..m PROVE (x \o y)[k] = x[k]
  BY <1>2, <1>3
<1>5. ASSUME NEW k \in 1..n PROVE (x \o y)[m + k] = y[k]
  <2>1. m + k \in 1..(m + n) /\ ~(m + k <= m) /\ (m + k) - m = k
    BY <1>2
  <2>. QED
    BY <1>3, <2>1
<1>. QED
  BY <1>1, <1>2, <1>4, <1>5

\* Sequences of one length, one after the other: |i| of them make i * w elements.
Rows(seqs, w, i) ==
    [ k \in 1..(i * w) |-> seqs[((k - 1) \div w) + 1][((k - 1) % w) + 1] ]

\* Place r of row i.
LEMMA RowPlace ==
    ASSUME NEW w \in Nat \ {0}, NEW i \in Nat \ {0}, NEW r \in 1..w
    PROVE  \E k \in 1..(i * w) :
              k = (i - 1) * w + r /\ (k - 1) \div w = i - 1 /\ (k - 1) % w = r - 1
<1>1. PICK z \in Nat : z = (i - 1) * w
  OBVIOUS
<1>3. i * w = z + w
  BY <1>1
<1>4. (z + r) - 1 = (i - 1) * w + (r - 1) /\ (z + r) - 1 \in Int /\ i - 1 \in Int /\ r - 1 \in 0..(w - 1)
  BY <1>1
<1>5. ((z + r) - 1) \div w = i - 1 /\ ((z + r) - 1) % w = r - 1
  BY <1>4, DivModUnique
<1>6. z + r \in 1..(i * w)
  BY <1>1, <1>3
<1>. QED
  BY <1>1, <1>5, <1>6

\* A place of the first rows is in one of them.
LEMMA PlaceRow ==
    ASSUME NEW w \in Nat \ {0}, NEW n \in Nat, NEW k \in 1..(n * w)
    PROVE  ((k - 1) \div w) + 1 \in 1..n /\ ((k - 1) % w) + 1 \in 1..w
<1>1. k - 1 \in Nat /\ n * w \in Nat /\ k - 1 < n * w
  OBVIOUS
<1>2. PICK q \in Int, r \in 0..(w - 1) : q = (k - 1) \div w /\ r = (k - 1) % w /\ k - 1 = q * w + r
  BY <1>1, Split
<1>3. PICK z \in Int : z = q * w
  OBVIOUS
<1>4. ~(q < 0)
  <2>1. SUFFICES ASSUME q + 1 <= 0 PROVE FALSE
    BY <1>2
  <2>2. (q + 1) * w <= 0 * w
    BY <1>2, <2>1, TimesMonotone
  <2>3. (q + 1) * w = z + w /\ 0 * w = 0
    BY <1>2, <1>3
  <2>. QED
    BY <1>1, <1>2, <1>3, <2>2, <2>3
<1>5. ~(q >= n)
  <2>1. SUFFICES ASSUME n <= q PROVE FALSE
    BY <1>2
  <2>2. n * w <= q * w
    BY <1>2, <2>1, TimesMonotone
  <2>. QED
    BY <1>1, <1>2, <1>3, <2>2
<1>. QED
  BY <1>2, <1>4, <1>5

AreRows(seqs, T, w, n) == seqs \in [ 1..n -> Seq(T) ] /\ \A i \in 1..n : Len(seqs[i]) = w
AreFlat(x, seqs, T, w, n) ==
    /\ x \in Seq(T) /\ Len(x) = n * w
    /\ \A i \in 1..n : \A r \in 1..w : x[(i - 1) * w + r] = seqs[i][r]

\* Sequences of one length, flattened: place r of row i.
LEMMA FlattenRows ==
    ASSUME NEW T, NEW w \in Nat \ {0}, NEW n \in Nat \ {0}, NEW seqs, AreRows(seqs, T, w, n)
    PROVE  AreFlat(FlattenSeq(seqs), seqs, T, w, n)
<1>. DEFINE g == [ i \in 1..n |-> Rows(seqs, w, i) ]
            e(h, i) == IF i = 1 THEN seqs[i] ELSE h[i - 1] \o seqs[i]
            f == CHOOSE h : h = [ i \in 1..n |-> e(h, i) ]
<1>1. \A i \in 1..n : seqs[i] \in Seq(T) /\ DOMAIN seqs[i] = 1..w /\ \A r \in 1..w : seqs[i][r] \in T
  BY LenProperties, ElementOfSeq DEF AreRows
<1>2. ASSUME NEW i \in 1..n
      PROVE  /\ Rows(seqs, w, i) \in Seq(T) /\ Len(Rows(seqs, w, i)) = i * w
             /\ DOMAIN Rows(seqs, w, i) = 1..(i * w)
  <2>1. i * w \in Nat /\ i \in Nat
    OBVIOUS
  <2>2. ASSUME NEW k \in 1..(i * w)
        PROVE  seqs[((k - 1) \div w) + 1][((k - 1) % w) + 1] \in T
    <3>1. PICK q \in 1..i, r \in 1..w : q = ((k - 1) \div w) + 1 /\ r = ((k - 1) % w) + 1
      BY <2>1, PlaceRow
    <3>2. q \in 1..n
      BY <3>1
    <3>. QED
      BY <1>1, <3>1, <3>2
  <2>3. Rows(seqs, w, i) \in [ 1..(i * w) -> T ]
    BY <2>2 DEF Rows
  <2>. QED
    BY <2>1, <2>3
<1>3. ASSUME NEW i \in 1..n, NEW q \in 1..i, NEW r \in 1..w
      PROVE  Rows(seqs, w, i)[(q - 1) * w + r] = seqs[q][r]
  <2>1. PICK k \in 1..(i * w) : /\ k = (q - 1) * w + r
                                /\ (k - 1) \div w = q - 1 /\ (k - 1) % w = r - 1
    <3>1. q \in Nat \ {0} /\ i \in Nat
      OBVIOUS
    <3>2. PICK k \in 1..(q * w) : k = (q - 1) * w + r /\ (k - 1) \div w = q - 1 /\ (k - 1) % w = r - 1
      BY <3>1, RowPlace
    <3>3. PICK x \in Int, y \in Int : x = q * w /\ y = i * w /\ x <= y
      <4>1. q * w <= i * w
        BY <3>1, TimesMonotone
      <4>2. q * w \in Int /\ i * w \in Int
        OBVIOUS
      <4>. QED
        BY <4>1, <4>2
    <3>4. k \in 1..(i * w)
      <4>1. k \in 1..x
        BY <3>2, <3>3
      <4>2. x <= y
        BY <3>3
      <4>3. k \in 1..y
        BY <4>1, <4>2
      <4>. QED
        BY <3>3, <4>3
    <3>. QED
      BY <3>2, <3>4
  <2>2. Rows(seqs, w, i)[k] = seqs[((k - 1) \div w) + 1][((k - 1) % w) + 1]
    BY DEF Rows
  <2>3. (q - 1) + 1 = q /\ (r - 1) + 1 = r
    OBVIOUS
  <2>. QED
    BY <2>1, <2>2, <2>3
<1>4. ASSUME NEW i \in 1..n PROVE Rows(seqs, w, i) = e(g, i)
  <2>1. CASE i = 1
    <3>1. 1 * w = w /\ Rows(seqs, w, 1) \in Seq(T) /\ Len(Rows(seqs, w, 1)) = 1 * w
      BY <1>2, <2>1
    <3>2. ASSUME NEW r \in 1..w PROVE Rows(seqs, w, 1)[r] = seqs[1][r]
      <4>1. Rows(seqs, w, 1)[(1 - 1) * w + r] = seqs[1][r]
        BY <1>3, <2>1
      <4>2. (1 - 1) * w + r = r
        OBVIOUS
      <4>. QED
        BY <4>1, <4>2
    <3>3. Rows(seqs, w, 1) = seqs[1]
      <4>1. seqs[1] \in Seq(T) /\ Len(seqs[1]) = w /\ Len(Rows(seqs, w, 1)) = w
        BY <1>1, <2>1, <3>1 DEF AreRows
      <4>. QED
        BY <3>1, <3>2, <4>1, SeqEqual
    <3>. QED
      BY <2>1, <3>3
  <2>2. CASE i # 1
    <3>1. PICK d \in 1..n : d = i - 1 /\ d + 1 = i
      BY <2>2
    <3>2. PICK x, y, v : x = Rows(seqs, w, i) /\ y = Rows(seqs, w, d) /\ v = seqs[i]
      OBVIOUS
    <3>3. /\ x \in Seq(T) /\ Len(x) = i * w /\ y \in Seq(T) /\ Len(y) = d * w
          /\ v \in Seq(T) /\ Len(v) = w
      BY <1>1, <1>2, <3>1, <3>2 DEF AreRows
    <3>4. PICK z \in Nat : z = d * w /\ i * w = z + w
      BY <3>1
    <3>5. /\ y \o v \in Seq(T) /\ Len(y \o v) = z + w
          /\ \A k \in 1..(z + w) : (y \o v)[k] = IF k <= z THEN y[k] ELSE v[k - z]
      <4>1. /\ y \o v \in Seq(T) /\ Len(y \o v) = Len(y) + Len(v)
            /\ \A k \in 1..(Len(y) + Len(v)) : (y \o v)[k] = IF k <= Len(y) THEN y[k] ELSE v[k - Len(y)]
        BY <3>3, ConcatProperties, Zenon
      <4>2. Len(y) = z /\ Len(v) = w
        BY <3>3, <3>4
      <4>. QED
        BY <4>1, <4>2, Zenon
    <3>6. ASSUME NEW k \in 1..(z + w) PROVE x[k] = (y \o v)[k]
      <4>1. CASE k <= z
        <5>1. k \in 1..z /\ k \in 1..(d * w) /\ k \in 1..(i * w)
          BY <3>4, <4>1
        <5>2. x[k] = y[k]
          BY <3>2, <5>1 DEF Rows
        <5>. QED
          BY <3>5, <4>1, <5>2
      <4>2. CASE ~(k <= z)
        <5>1. PICK r \in 1..w : r = k - z /\ k = (i - 1) * w + r
          <6>1. k - z \in 1..w /\ k = z + (k - z)
            BY <3>4, <4>2
          <6>. QED
            BY <3>1, <3>4, <6>1
        <5>2. i \in 1..i
          OBVIOUS
        <5>3. x[k] = v[r]
          BY <1>3, <3>2, <5>1, <5>2
        <5>. QED
          BY <3>5, <4>2, <5>1, <5>3
      <4>. QED
        BY <4>1, <4>2
    <3>7. x = y \o v
      <4>1. Len(x) = z + w /\ Len(y \o v) = z + w /\ z + w \in Nat
        BY <3>3, <3>4, <3>5
      <4>. QED
        BY <3>3, <3>5, <3>6, <4>1, SeqEqual
    <3>8. g[i - 1] = y
      BY <3>1, <3>2
    <3>. QED
      BY <2>2, <3>2, <3>7, <3>8
  <2>. QED
    BY <2>1, <2>2
<1>5. g = [ i \in 1..n |-> e(g, i) ]
  BY <1>4
<1>6. f = [ i \in 1..n |-> e(f, i) ]
  <2>. HIDE DEF g, e
  <2>. QED
    BY <1>5
<1>. HIDE DEF f
<1>7. \A i \in 1..n : f[i] = g[i]
  <2>. DEFINE P == { d \in Nat : d + 1 \in 1..n => f[d + 1] = g[d + 1] }
  <2>1. \A i \in 1..n : f[i] = e(f, i)
    <3>. HIDE DEF e
    <3>. QED
      BY <1>6
  <2>2. \A i \in 1..n : g[i] = e(g, i)
    <3>. HIDE DEF e, g
    <3>. QED
      BY <1>5
  <2>. HIDE DEF g
  <2>3. 0 \in P
    BY <2>1, <2>2
  <2>4. ASSUME NEW d \in Nat, d \in P PROVE d + 1 \in P
    <3>1. SUFFICES ASSUME d + 2 \in 1..n PROVE f[d + 2] = g[d + 2]
      OBVIOUS
    <3>2. PICK i \in 1..n, j \in 1..n : i = d + 2 /\ j = d + 1 /\ j = i - 1 /\ i # 1 /\ f[j] = g[j]
      BY <2>4, <3>1
    <3>. QED
      BY <2>1, <2>2, <3>2
  <2>5. \A d \in Nat : d \in P
    <3>. HIDE DEF P
    <3>. QED
      BY <2>3, <2>4, NatInductionOnSet
  <2>6. ASSUME NEW i \in 1..n PROVE f[i] = g[i]
    <3>1. PICK d \in Nat : d + 1 = i
      <4>1. i - 1 \in Nat /\ (i - 1) + 1 = i
        OBVIOUS
      <4>. QED
        BY <4>1
    <3>. QED
      BY <2>5, <3>1
  <2>. QED
    BY <2>6
<1>8. FlattenSeq(seqs) = f[n]
  <2>1. seqs \in Seq(Seq(T)) /\ Len(seqs) = n
    BY DEF AreRows
  <2>. QED
    BY <2>1 DEF FlattenSeq, f
<1>9. FlattenSeq(seqs) = Rows(seqs, w, n)
  BY <1>7, <1>8
<1>10. n \in 1..n
  OBVIOUS
<1>. QED
  BY <1>2, <1>3, <1>9, <1>10 DEF AreFlat

-----------------------------------------------------------------------------
(* The flash: the accesses of the calls.                                   *)

FlashSize == sector_size * sector_count

\* An access to the bus, and what is written to the chip by one.
Access == ({ "write" } \X Address \X Int) \cup ({ "read", "wait" } \X Address)
Command == Address \X Int

\* What the assumption says of the flash.
LEMMA FlashSizes ==
    /\ sector_size \in Nat \ {0} /\ sector_count \in Nat \ {0} /\ FlashSize \in Nat
    /\ Address = 0..(FlashSize - 1)
    /\ Reg0 \in Int /\ Reg1 \in Int /\ Reg0 # Reg1 /\ Reg0 \in Address /\ Reg1 \in Address
    /\ 0 \in Address /\ 1 \in Address
    /\ FlashData \subseteq Seq(FlashByte)
<1>1. sector_size \in Nat \ {0} /\ sector_count \in Nat \ {0} /\ FlashSize \in Nat
  BY CfiAssumption DEF FlashSize
<1>2. Address = 0..(FlashSize - 1)
  BY DEF Address, FlashSize
<1>3. Reg0 \in Address /\ Reg1 \in Address /\ Reg0 # Reg1
  BY CfiAssumption
<1>. QED
  BY <1>1, <1>2, <1>3, CfiAssumption

\* The bytes of the blocks are in the chip.
LEMMA InChip ==
    ASSUME NEW c \in Nat, c < sector_count, NEW j \in 1..sector_size
    PROVE  c * sector_size + (j - 1) \in Address
<1>1. PICK S \in Nat \ {0}, N \in Nat : S = sector_size /\ N = sector_count /\ FlashSize = N * S
  BY FlashSizes DEF FlashSize
<1>2. c + 1 \in Nat /\ c + 1 <= N
  BY <1>1
<1>3. PICK x \in Nat, y \in Nat, z \in Nat : x = c * S /\ y = (c + 1) * S /\ z = N * S
  BY <1>1, <1>2
<1>4. y <= z
  BY <1>1, <1>2, <1>3, TimesMonotone
<1>5. y = x + S
  BY <1>1, <1>3
<1>6. x + (j - 1) \in 0..(z - 1)
  BY <1>1, <1>3, <1>4, <1>5
<1>. QED
  BY <1>1, <1>3, <1>6, FlashSizes

\* The segment and the offset of the far pointer give the address back.
LEMMA BlockAddr ==
    ASSUME NEW b \in Nat
    PROVE  cfi_get_block_addr(b) = b * sector_size
<1>1. PICK o \in Nat : o = b * sector_size
  BY FlashSizes
<1>2. /\ FarRange \in Nat \ {0} /\ Paragraph \in Nat \ {0} /\ base_addr \in Nat
      /\ FarRange % Paragraph = 0
  BY CfiAssumption
<1>3. PICK q \in Int, r \in 0..(FarRange - 1) :
        q = o \div FarRange /\ r = o % FarRange /\ o = q * FarRange + r
  BY <1>2, Split
<1>4. PICK u \in Int : u = FarRange \div Paragraph /\ FarRange = u * Paragraph
  <2>1. PICK u \in Int, v \in 0..(Paragraph - 1) :
          u = FarRange \div Paragraph /\ v = FarRange % Paragraph /\ FarRange = u * Paragraph + v
    BY <1>2, Split
  <2>2. u * Paragraph \in Int /\ v = 0
    BY <1>2, <2>1
  <2>. QED
    BY <2>1, <2>2
<1>5. (base_addr + q * u) - base_addr = q * u
  <2>1. PICK z \in Int : z = q * u
    BY <1>3, <1>4
  <2>. QED
    BY <1>2, <2>1
<1>6. (q * u) * Paragraph = q * FarRange
  <2>1. (q * u) * Paragraph = q * (u * Paragraph)
    BY <1>2, <1>3, <1>4
  <2>. QED
    BY <1>4, <2>1
<1>7. cfi_get_block_addr(b) = ((base_addr + q * u) - base_addr) * Paragraph + r
  BY <1>1, <1>3, <1>4 DEF cfi_get_block_addr
<1>. QED
  BY <1>1, <1>3, <1>5, <1>6, <1>7

\* The writes of the two commands.
LEMMA Commands ==
    /\ EraseCommand \in Seq(Command) /\ Len(EraseCommand) = 5
    /\ ProgramCommand \in Seq(Command) /\ Len(ProgramCommand) = 3
    /\ EraseCommand[1] = << Reg0, 170 >> /\ EraseCommand[2] = << Reg1, 85 >>
    /\ EraseCommand[3] = << Reg0, 128 >>
    /\ EraseCommand[4] = << Reg0, 170 >> /\ EraseCommand[5] = << Reg1, 85 >>
    /\ ProgramCommand[1] = << Reg0, 170 >> /\ ProgramCommand[2] = << Reg1, 85 >>
    /\ ProgramCommand[3] = << Reg0, 160 >>
<1>1. << Reg0, 170 >> \in Command /\ << Reg1, 85 >> \in Command
      /\ << Reg0, 128 >> \in Command /\ << Reg0, 160 >> \in Command
  BY FlashSizes DEF Command
<1>2. /\ Unlocks \in Seq(Command) /\ Len(Unlocks) = 2
      /\ Unlocks[1] = << Reg0, 170 >> /\ Unlocks[2] = << Reg1, 85 >>
  BY <1>1 DEF Unlocks
<1>3. ASSUME NEW c \in Command
      PROVE  /\ Unlocks \o << c >> \in Seq(Command) /\ Len(Unlocks \o << c >>) = 3
             /\ (Unlocks \o << c >>)[1] = << Reg0, 170 >> /\ (Unlocks \o << c >>)[2] = << Reg1, 85 >>
             /\ (Unlocks \o << c >>)[3] = c
  <2>1. << c >> \in Seq(Command) /\ Len(<< c >>) = 1 /\ << c >>[1] = c
    OBVIOUS
  <2>2. PICK x \in Seq(Command), y \in Seq(Command) :
          x = Unlocks /\ y = << c >> /\ Len(x) = 2 /\ Len(y) = 1
    BY <1>2, <2>1
  <2>3. PICK m, n : m = Len(x) /\ n = Len(y)
    OBVIOUS
  <2>4. /\ x \o y \in Seq(Command) /\ Len(x \o y) = m + n /\ m \in Nat /\ n \in Nat
        /\ \A k \in 1..m : (x \o y)[k] = x[k]
        /\ \A k \in 1..n : (x \o y)[m + k] = y[k]
    BY <2>3, ConcatAt
  <2>5. (x \o y)[1] = x[1] /\ (x \o y)[2] = x[2] /\ (x \o y)[2 + 1] = y[1] /\ Len(x \o y) = 3
    BY <2>2, <2>3, <2>4
  <2>. QED
    BY <1>2, <2>1, <2>2, <2>4, <2>5
<1>4. PICK c1 \in Command, c2 \in Command : c1 = << Reg0, 128 >> /\ c2 = << Reg0, 160 >>
  BY <1>1
<1>5. PICK e, u : e = Unlocks \o << c1 >> /\ u = Unlocks
  OBVIOUS
<1>6. /\ e \in Seq(Command) /\ Len(e) = 3
      /\ e[1] = << Reg0, 170 >> /\ e[2] = << Reg1, 85 >> /\ e[3] = c1
  BY <1>3, <1>5
<1>7. u \in Seq(Command) /\ Len(u) = 2
  BY <1>2, <1>5
<1>8. /\ e \o u \in Seq(Command) /\ Len(e \o u) = 5
      /\ (e \o u)[1] = e[1] /\ (e \o u)[2] = e[2] /\ (e \o u)[3] = e[3]
      /\ (e \o u)[4] = u[1] /\ (e \o u)[5] = u[2]
  <2>1. PICK m, n : m = Len(e) /\ n = Len(u)
    OBVIOUS
  <2>2. e \in Seq(Command) /\ u \in Seq(Command)
    BY <1>6, <1>7
  <2>3. /\ e \o u \in Seq(Command) /\ Len(e \o u) = m + n /\ m \in Nat /\ n \in Nat
        /\ \A k \in 1..m : (e \o u)[k] = e[k]
        /\ \A k \in 1..n : (e \o u)[m + k] = u[k]
    BY <2>1, <2>2, ConcatAt
  <2>4. m = 3 /\ n = 2
    BY <1>6, <1>7, <2>1
  <2>5. /\ (e \o u)[1] = e[1] /\ (e \o u)[2] = e[2] /\ (e \o u)[3] = e[3]
        /\ (e \o u)[3 + 1] = u[1] /\ (e \o u)[3 + 2] = u[2]
    BY <2>3, <2>4
  <2>. QED
    BY <2>3, <2>4, <2>5
<1>9. EraseCommand = e \o u
  BY <1>4, <1>5 DEF EraseCommand, CMD_ERASE
<1>10. ProgramCommand = Unlocks \o << c2 >>
  BY <1>4 DEF ProgramCommand, CMD_BYTE_PROGRAM
<1>11. /\ ProgramCommand \in Seq(Command) /\ Len(ProgramCommand) = 3
       /\ ProgramCommand[1] = << Reg0, 170 >> /\ ProgramCommand[2] = << Reg1, 85 >>
       /\ ProgramCommand[3] = c2
  BY <1>3, <1>10
<1>12. /\ EraseCommand \in Seq(Command) /\ Len(EraseCommand) = 5
       /\ EraseCommand[1] = << Reg0, 170 >> /\ EraseCommand[2] = << Reg1, 85 >> /\ EraseCommand[3] = c1
       /\ EraseCommand[4] = << Reg0, 170 >> /\ EraseCommand[5] = << Reg1, 85 >>
  BY <1>2, <1>5, <1>6, <1>8, <1>9
<1>. QED
  BY <1>4, <1>11, <1>12

\* A command, the write that gives it its address and byte, and the wait for the chip.
Job(cmd, a, v) == Append(Writes(Append(cmd, << a, v >>)), << "wait", a >>)

\* The accesses of a job.
LEMMA JobList ==
    ASSUME NEW cmd \in Seq(Command), NEW a \in Address, NEW v \in Int
    PROVE  /\ Job(cmd, a, v) \in Seq(Access) /\ Len(Job(cmd, a, v)) = Len(cmd) + 2
           /\ \A q \in 1..Len(cmd) : Job(cmd, a, v)[q] = << "write", cmd[q][1], cmd[q][2] >>
           /\ Job(cmd, a, v)[Len(cmd) + 1] = << "write", a, v >>
           /\ Job(cmd, a, v)[Len(cmd) + 2] = << "wait", a >>
<1>1. PICK n \in Nat : n = Len(cmd)
  BY LenProperties
<1>2. PICK c : c = Append(cmd, << a, v >>)
  OBVIOUS
<1>3. << a, v >> \in Command
  BY DEF Command
<1>4. /\ c \in Seq(Command) /\ Len(c) = n + 1 /\ c[n + 1] = << a, v >>
      /\ \A q \in 1..n : c[q] = cmd[q]
  BY <1>1, <1>2, <1>3, AppendProperties
<1>5. PICK x : x = Writes(c)
  OBVIOUS
<1>6. x = [ k \in 1..(n + 1) |-> << "write", c[k][1], c[k][2] >> ]
  BY <1>4, <1>5 DEF Writes
<1>7. \A k \in 1..(n + 1) : c[k][1] \in Address /\ c[k][2] \in Int
  <2>1. \A k \in 1..(n + 1) : c[k] \in Command
    BY <1>4, ElementOfSeq
  <2>. QED
    BY <2>1 DEF Command
<1>8. x \in Seq(Access) /\ Len(x) = n + 1
  <2>1. x \in [ 1..(n + 1) -> Access ]
    BY <1>6, <1>7 DEF Access
  <2>. QED
    BY <1>1, <2>1
<1>9. << "wait", a >> \in Access
  BY DEF Access
<1>10. PICK j : j = Append(x, << "wait", a >>)
  OBVIOUS
<1>11. /\ j \in Seq(Access) /\ Len(j) = (n + 1) + 1 /\ j[(n + 1) + 1] = << "wait", a >>
       /\ \A k \in 1..(n + 1) : j[k] = x[k]
  BY <1>1, <1>8, <1>9, <1>10, AppendProperties
<1>12. j = Job(cmd, a, v)
  BY <1>2, <1>5, <1>10 DEF Job
<1>13. /\ Len(j) = n + 2 /\ j[n + 2] = << "wait", a >>
       /\ j[n + 1] = << "write", a, v >>
  <2>1. (n + 1) + 1 = n + 2 /\ n + 1 \in 1..(n + 1)
    BY <1>1
  <2>2. x[n + 1] = << "write", a, v >>
    BY <1>4, <1>6, <2>1
  <2>. QED
    BY <1>11, <2>1, <2>2
<1>14. \A q \in 1..n : j[q] = << "write", cmd[q][1], cmd[q][2] >>
  <2>1. \A q \in 1..n : q \in 1..(n + 1)
    BY <1>1
  <2>. QED
    BY <1>4, <1>6, <1>11, <2>1
<1>. QED
  BY <1>1, <1>11, <1>12, <1>13, <1>14

\* Erasing a block and programming a byte are jobs.
LEMMA JobsAre ==
    ASSUME NEW a, NEW v
    PROVE  /\ cfi_erase_block(a) = Job(EraseCommand, a, CMD_ERASE_SECTOR)
           /\ cfi_write_byte(a, v) = Job(ProgramCommand, a, v)
  BY DEF cfi_erase_block, cfi_write_byte, Job

\* cfi_read_block() reads consecutive addresses.
LEMMA ReadList ==
    ASSUME NEW b \in Nat, NEW n \in Nat \ {0}, b + n <= sector_count
    PROVE  /\ cfi_read_block(b, n) \in Seq(Access) /\ Len(cfi_read_block(b, n)) = n * sector_size
           /\ \A k \in 1..(n * sector_size) :
                cfi_read_block(b, n)[k] = << "read", b * sector_size + k - 1 >>
<1>. DEFINE S == sector_size
            Row(i) == [ j \in 1..S |-> << "read", cfi_get_block_addr(b + i - 1) + j - 1 >> ]
            rows == [ i \in 1..n |-> Row(i) ]
<1>1. S \in Nat \ {0}
  BY FlashSizes
<1>2. ASSUME NEW i \in 1..n PROVE Row(i) \in Seq(Access) /\ Len(Row(i)) = S
  <2>0. b + i - 1 \in Nat /\ b + i - 1 < sector_count
    BY FlashSizes
  <2>1. PICK A \in Int : A = cfi_get_block_addr(b + i - 1) /\ A = (b + i - 1) * S
    <3>1. (b + i - 1) * S \in Int
      BY <1>1, <2>0
    <3>. QED
      BY <2>0, <3>1, BlockAddr
  <2>2. ASSUME NEW j \in 1..S PROVE << "read", A + j - 1 >> \in Access
    <3>1. A + (j - 1) \in Address
      BY <2>0, <2>1, InChip
    <3>2. A + (j - 1) = A + j - 1
      OBVIOUS
    <3>3. A + j - 1 \in Address
      BY <3>1, <3>2
    <3>. QED
      BY <3>3 DEF Access
  <2>3. Row(i) \in [ 1..S -> Access ]
    BY <2>1, <2>2
  <2>. QED
    BY <1>1, <2>3
<1>3. rows \in [ 1..n -> Seq(Access) ] /\ \A i \in 1..n : Len(rows[i]) = S
  BY <1>2
<1>4. cfi_read_block(b, n) = FlattenSeq(rows)
  BY DEF cfi_read_block
<1>5. PICK full : full = FlattenSeq(rows)
  OBVIOUS
<1>6. /\ full \in Seq(Access) /\ Len(full) = n * S
      /\ \A i \in 1..n : \A r \in 1..S : full[(i - 1) * S + r] = rows[i][r]
  <2>1. AreRows(rows, Access, S, n)
    BY <1>3 DEF AreRows
  <2>2. AreFlat(full, rows, Access, S, n)
    <3>. HIDE DEF rows, S
    <3>. QED
      BY <1>1, <1>5, <2>1, FlattenRows
  <2>. HIDE DEF rows, S
  <2>. QED
    BY <2>2 DEF AreFlat
<1>7. ASSUME NEW k \in 1..(n * S) PROVE full[k] = << "read", b * S + k - 1 >>
  <2>1. PICK i \in 1..n, r \in 1..S : i = ((k - 1) \div S) + 1 /\ r = ((k - 1) % S) + 1
    BY <1>1, PlaceRow
  <2>2. k = (i - 1) * S + r
    <3>1. k - 1 \in Nat
      BY <1>1
    <3>2. k - 1 = ((k - 1) \div S) * S + ((k - 1) % S) /\ (k - 1) \div S \in Int /\ (k - 1) % S \in Int
      BY <1>1, <3>1, DivMod
    <3>3. (k - 1) \div S = i - 1 /\ (k - 1) % S = r - 1
      BY <2>1, <3>2
    <3>4. (i - 1) * S \in Int /\ k - 1 = (i - 1) * S + (r - 1)
      BY <1>1, <3>2, <3>3
    <3>. QED
      BY <3>4
  <2>3. full[k] = << "read", cfi_get_block_addr(b + i - 1) + r - 1 >>
    BY <1>6, <2>1, <2>2
  <2>4. cfi_get_block_addr(b + i - 1) = b * S + (i - 1) * S
    <3>1. b + i - 1 \in Nat /\ b + i - 1 = b + (i - 1)
      OBVIOUS
    <3>2. (b + (i - 1)) * S = b * S + (i - 1) * S
      BY <1>1
    <3>. QED
      BY <3>1, <3>2, BlockAddr
  <2>5. (b * S + (i - 1) * S) + r - 1 = b * S + k - 1
    <3>1. PICK x \in Int, y \in Int : x = b * S /\ y = (i - 1) * S
      BY <1>1
    <3>. QED
      BY <2>2, <3>1
  <2>. QED
    BY <2>3, <2>4, <2>5
<1>. QED
  BY <1>4, <1>5, <1>6, <1>7

\* The jobs of cfi_write_block(): for each block, number 0 erases it and number x
\* programs its byte x.  Job x of block i comes after Start(i, x) accesses.
RowLen == 7 + sector_size * 5
Start(i, x) == (i - 1) * RowLen + (IF x = 0 THEN 0 ELSE 7 + (x - 1) * 5)
CmdOf(x) == IF x = 0 THEN EraseCommand ELSE ProgramCommand
AddrOf(b, i, x) == (b + (i - 1)) * sector_size + (IF x = 0 THEN 0 ELSE x - 1)
ValOf(data, i, x) == IF x = 0 THEN CMD_ERASE_SECTOR ELSE data[(i - 1) * sector_size + x]
JobOf(b, data, i, x) == Job(CmdOf(x), AddrOf(b, i, x), ValOf(data, i, x))

\* The bytes of the data that a block has.
LEMMA DataPlace ==
    ASSUME NEW n \in Nat \ {0}, NEW i \in 1..n, NEW x \in 1..sector_size
    PROVE  (i - 1) * sector_size + x \in 1..(n * sector_size)
<1>1. sector_size \in Nat \ {0} /\ i \in Nat \ {0} /\ n \in Nat
  BY FlashSizes
<1>2. PICK k \in 1..(i * sector_size) : k = (i - 1) * sector_size + x
  BY <1>1, RowPlace
<1>3. PICK u \in Int, v \in Int : u = i * sector_size /\ v = n * sector_size /\ u <= v
  <2>1. i * sector_size <= n * sector_size
    BY <1>1, TimesMonotone
  <2>2. i * sector_size \in Int /\ n * sector_size \in Int
    BY <1>1
  <2>. QED
    BY <2>1, <2>2
<1>4. k \in 1..u /\ u <= v
  BY <1>2, <1>3
<1>5. k \in 1..v
  BY <1>4
<1>. QED
  BY <1>2, <1>3, <1>5

\* The command, the address and the byte of a job.
LEMMA JobTypes ==
    ASSUME NEW b \in Nat, NEW n \in Nat \ {0}, NEW data \in Seq(FlashByte), Len(data) = n * sector_size,
           b + n <= sector_count, NEW i \in 1..n, NEW x \in 0..sector_size
    PROVE  /\ CmdOf(x) \in Seq(Command) /\ Len(CmdOf(x)) = (IF x = 0 THEN 5 ELSE 3)
           /\ AddrOf(b, i, x) \in Address /\ ValOf(data, i, x) \in Int
           /\ x # 0 => ValOf(data, i, x) \in FlashByte
<1>1. sector_size \in Nat \ {0} /\ i - 1 \in Nat /\ b + (i - 1) \in Nat
  BY FlashSizes
<1>2. PICK c \in Nat, j \in 1..sector_size :
        c = b + (i - 1) /\ c < sector_count /\ j - 1 = IF x = 0 THEN 0 ELSE x - 1
  <2>1. b + (i - 1) < sector_count
    BY <1>1, FlashSizes
  <2>2. CASE x = 0
    BY <1>1, <2>1, <2>2
  <2>3. CASE x # 0
    BY <1>1, <2>1, <2>3
  <2>. QED
    BY <2>2, <2>3
<1>3. AddrOf(b, i, x) \in Address
  <2>1. c * sector_size + (j - 1) \in Address
    BY <1>2, InChip
  <2>. QED
    BY <1>2, <2>1 DEF AddrOf
<1>4. x # 0 => ValOf(data, i, x) \in FlashByte
  <2>1. x # 0 => (i - 1) * sector_size + x \in 1..Len(data)
    BY <1>1, DataPlace
  <2>. QED
    BY <2>1, ElementOfSeq DEF ValOf
<1>5. ValOf(data, i, x) \in Int
  BY <1>4 DEF ValOf, CMD_ERASE_SECTOR, FlashByte
<1>. QED
  BY <1>3, <1>4, <1>5, Commands DEF CmdOf

\* Access r of the programming of byte j, among those for its block.
ProgramPlace(j, r) == 7 + ((j - 1) * 5 + r)

\* The accesses for one block.
BlockJobs(b, data, i) ==
    cfi_erase_block(cfi_get_block_addr(b + i - 1))
    \o FlattenSeq([ j \in 1..sector_size |->
           cfi_write_byte(cfi_get_block_addr(b + i - 1) + j - 1, data[(i - 1) * sector_size + j]) ])

ProgramsFollow(b, data, i) ==
    \A j \in 1..sector_size : \A r \in 1..5 :
        BlockJobs(b, data, i)[ProgramPlace(j, r)] = JobOf(b, data, i, j)[r]

\* The accesses for a block are those of its jobs, in order.
LEMMA BlockJobsList ==
    ASSUME NEW b \in Nat, NEW n \in Nat \ {0}, NEW data \in Seq(FlashByte), Len(data) = n * sector_size,
           b + n <= sector_count, NEW i \in 1..n
    PROVE  /\ BlockJobs(b, data, i) \in Seq(Access) /\ Len(BlockJobs(b, data, i)) = RowLen
           /\ \A r \in 1..7 : BlockJobs(b, data, i)[r] = JobOf(b, data, i, 0)[r]
           /\ ProgramsFollow(b, data, i)
<1>. DEFINE prog == [ j \in 1..sector_size |-> JobOf(b, data, i, j) ]
<1>1. sector_size \in Nat \ {0} /\ b + i - 1 \in Nat /\ b + i - 1 = b + (i - 1)
  BY FlashSizes
<1>2. PICK A \in Int : A = (b + (i - 1)) * sector_size /\ A = cfi_get_block_addr(b + i - 1)
  <2>1. (b + (i - 1)) * sector_size \in Int
    BY <1>1
  <2>. QED
    BY <1>1, <2>1, BlockAddr
<1>3. JobOf(b, data, i, 0) = cfi_erase_block(A)
  <2>1. CmdOf(0) = EraseCommand /\ AddrOf(b, i, 0) = A /\ ValOf(data, i, 0) = CMD_ERASE_SECTOR
    BY <1>2 DEF CmdOf, AddrOf, ValOf
  <2>. QED
    BY <2>1, JobsAre DEF JobOf
<1>4. ASSUME NEW j \in 1..sector_size
      PROVE  JobOf(b, data, i, j) = cfi_write_byte(A + j - 1, data[(i - 1) * sector_size + j])
  <2>1. CmdOf(j) = ProgramCommand /\ AddrOf(b, i, j) = A + j - 1
        /\ ValOf(data, i, j) = data[(i - 1) * sector_size + j]
    <3>1. j # 0 /\ A + (j - 1) = A + j - 1
      OBVIOUS
    <3>. QED
      BY <1>2, <3>1 DEF CmdOf, AddrOf, ValOf
  <2>. QED
    BY <2>1, JobsAre DEF JobOf
<1>5. BlockJobs(b, data, i) = JobOf(b, data, i, 0) \o FlattenSeq(prog)
  BY <1>2, <1>3, <1>4 DEF BlockJobs
<1>6. ASSUME NEW x \in 0..sector_size
      PROVE  /\ JobOf(b, data, i, x) \in Seq(Access)
             /\ Len(JobOf(b, data, i, x)) = IF x = 0 THEN 7 ELSE 5
  <2>1. PICK c \in Seq(Command), a \in Address, v \in Int :
          /\ c = CmdOf(x) /\ a = AddrOf(b, i, x) /\ v = ValOf(data, i, x)
          /\ Len(c) = IF x = 0 THEN 5 ELSE 3
    <3>1. /\ CmdOf(x) \in Seq(Command) /\ Len(CmdOf(x)) = (IF x = 0 THEN 5 ELSE 3)
          /\ AddrOf(b, i, x) \in Address /\ ValOf(data, i, x) \in Int
      BY JobTypes
    <3>. QED
      BY <3>1
  <2>2. Job(c, a, v) \in Seq(Access) /\ Len(Job(c, a, v)) = Len(c) + 2
    BY <2>1, JobList
  <2>. QED
    BY <2>1, <2>2 DEF JobOf
<1>7. AreRows(prog, Access, 5, sector_size)
  <2>1. \A j \in 1..sector_size : j \in 0..sector_size /\ j # 0
    BY <1>1
  <2>. QED
    BY <1>6, <2>1 DEF AreRows
<1>8. PICK y : y = FlattenSeq(prog)
  OBVIOUS
<1>9. /\ y \in Seq(Access) /\ Len(y) = sector_size * 5
      /\ \A j \in 1..sector_size : \A r \in 1..5 : y[(j - 1) * 5 + r] = JobOf(b, data, i, j)[r]
  <2>0. PICK p : p = prog
    OBVIOUS
  <2>1. PICK w \in Nat \ {0} : w = 5
    OBVIOUS
  <2>2. AreRows(p, Access, w, sector_size)
    BY <1>7, <2>0, <2>1
  <2>3. AreFlat(y, p, Access, w, sector_size)
    <3>. HIDE DEF prog
    <3>. QED
      BY <1>1, <1>8, <2>0, <2>2, FlattenRows
  <2>4. \A j \in 1..sector_size : p[j] = JobOf(b, data, i, j)
    BY <2>0
  <2>. QED
    BY <2>1, <2>3, <2>4, SMTT(30) DEF AreFlat
<1>10. PICK x \in Seq(Access) : x = JobOf(b, data, i, 0) /\ Len(x) = 7
  <2>1. 0 \in 0..sector_size
    BY <1>1
  <2>. QED
    BY <1>6, <2>1
<1>11. PICK m, k : m = 7 /\ k = sector_size * 5
  OBVIOUS
<1>12. /\ x \o y \in Seq(Access) /\ Len(x \o y) = m + k
       /\ \A r \in 1..m : (x \o y)[r] = x[r]
       /\ \A r \in 1..k : (x \o y)[m + r] = y[r]
  <2>1. Len(x) = m /\ Len(y) = k /\ y \in Seq(Access)
    BY <1>9, <1>10, <1>11
  <2>. QED
    BY <2>1, ConcatAt
<1>13. BlockJobs(b, data, i) = x \o y
  BY <1>5, <1>8, <1>10
<1>14. ASSUME NEW j \in 1..sector_size, NEW r \in 1..5
       PROVE  (x \o y)[7 + ((j - 1) * 5 + r)] = JobOf(b, data, i, j)[r]
  <2>1. PICK z \in 1..k : z = (j - 1) * 5 + r
    <3>1. (j - 1) * 5 + r \in 1..(sector_size * 5)
      BY <1>1
    <3>. QED
      BY <1>11, <3>1
  <2>2. (x \o y)[7 + z] = y[z]
    BY <1>11, <1>12
  <2>. QED
    BY <1>9, <2>1, <2>2
<1>15. Len(x \o y) = RowLen
  BY <1>11, <1>12 DEF RowLen
<1>16. \A r \in 1..7 : (x \o y)[r] = JobOf(b, data, i, 0)[r]
  BY <1>10, <1>11, <1>12
<1>. QED
  BY <1>12, <1>13, <1>14, <1>15, <1>16 DEF ProgramPlace, ProgramsFollow

\* The number of accesses of a job.
JobLen(x) == IF x = 0 THEN 7 ELSE 5

\* Where a job begins among the accesses of its call.
LEMMA Starts ==
    ASSUME NEW i \in Nat \ {0}, NEW x \in 0..sector_size
    PROVE  /\ Start(i, x) \in Nat /\ Start(1, 0) = 0 /\ Start(i + 1, 0) = i * RowLen
           /\ RowLen \in Nat \ {0}
           /\ x < sector_size => Start(i, x) + JobLen(x) = Start(i, x + 1)
           /\ x = sector_size => Start(i, x) + JobLen(x) = Start(i + 1, 0)
           /\ Start(i, x) + JobLen(x) <= Start(i + 1, 0)
<1>1. PICK S \in Nat \ {0} : S = sector_size
  BY FlashSizes
<1>2. PICK L \in Nat \ {0} : L = RowLen /\ L = 7 + S * 5
  BY <1>1 DEF RowLen
<1>3. PICK z \in Nat : z = (i - 1) * L
  BY <1>2
<1>4. i * L = z + L /\ (i + 1) - 1 = i /\ (1 - 1) * L = 0
  BY <1>2, <1>3
<1>5. Start(i, x) = z + (IF x = 0 THEN 0 ELSE 7 + (x - 1) * 5)
  BY <1>2, <1>3 DEF Start
<1>6. Start(i + 1, 0) = z + L
  BY <1>2, <1>4 DEF Start
<1>7. Start(1, 0) = 0
  BY <1>2, <1>4 DEF Start
<1>8. x < S => Start(i, x + 1) = z + (7 + ((x + 1) - 1) * 5)
  BY <1>1, <1>2, <1>3 DEF Start
<1>9. x \in 0..S
  BY <1>1
<1>10. /\ Start(i, x) \in Nat
       /\ x < S => Start(i, x) + JobLen(x) = z + (7 + ((x + 1) - 1) * 5)
       /\ x = S => Start(i, x) + JobLen(x) = z + L
       /\ Start(i, x) + JobLen(x) <= z + L
  BY <1>2, <1>3, <1>5, <1>9 DEF JobLen
<1>. QED
  BY <1>1, <1>2, <1>4, <1>6, <1>7, <1>8, <1>10

\* The accesses of cfi_write_block() are those of the jobs of its blocks, in order.
LEMMA WriteList ==
    ASSUME NEW b \in Nat, NEW n \in Nat \ {0}, NEW data \in Seq(FlashByte), Len(data) = n * sector_size,
           b + n <= sector_count, NEW full, full = cfi_write_block(b, n, data)
    PROVE  /\ full \in Seq(Access) /\ Len(full) = n * RowLen
           /\ \A i \in 1..n : \A x \in 0..sector_size : \A q \in 1..JobLen(x) :
                 full[Start(i, x) + q] = JobOf(b, data, i, x)[q]
<1>. DEFINE rows == [ i \in 1..n |-> BlockJobs(b, data, i) ]
<1>1. full = FlattenSeq(rows)
  BY DEF cfi_write_block, BlockJobs
<1>2. RowLen \in Nat \ {0}
  BY FlashSizes DEF RowLen
<1>3. AreRows(rows, Access, RowLen, n)
  BY BlockJobsList DEF AreRows
<1>4. AreFlat(full, rows, Access, RowLen, n)
  <2>. HIDE DEF rows
  <2>. QED
    BY <1>1, <1>2, <1>3, FlattenRows
<1>5. full \in Seq(Access) /\ Len(full) = n * RowLen
  BY <1>4 DEF AreFlat
<1>6. ASSUME NEW i \in 1..n, NEW r \in 1..RowLen
      PROVE  full[(i - 1) * RowLen + r] = BlockJobs(b, data, i)[r]
  BY <1>4 DEF AreFlat
<1>7. ASSUME NEW i \in 1..n, NEW x \in 0..sector_size, NEW q \in 1..JobLen(x)
      PROVE  full[Start(i, x) + q] = JobOf(b, data, i, x)[q]
  <2>1. PICK S \in Nat \ {0} : S = sector_size
    BY FlashSizes
  <2>2. PICK L \in Nat \ {0} : L = RowLen /\ L = 7 + S * 5
    BY <2>1 DEF RowLen
  <2>3. PICK z \in Nat : z = (i - 1) * RowLen
    BY <1>2
  <2>4. CASE x = 0
    <3>1. q \in 1..7 /\ q \in 1..RowLen
      BY <2>2, <2>4 DEF JobLen
    <3>2. Start(i, x) = z
      BY <2>3, <2>4 DEF Start
    <3>3. full[z + q] = BlockJobs(b, data, i)[q]
      BY <1>6, <2>3, <3>1
    <3>4. BlockJobs(b, data, i)[q] = JobOf(b, data, i, 0)[q]
      <4>1. \A r \in 1..7 : BlockJobs(b, data, i)[r] = JobOf(b, data, i, 0)[r]
        BY BlockJobsList, ZenonT(40)
      <4>. QED
        BY <3>1, <4>1
    <3>. QED
      BY <2>4, <3>2, <3>3, <3>4
  <2>5. CASE x # 0
    <3>1. q \in 1..5 /\ x \in 1..S
      BY <2>1, <2>5 DEF JobLen
    <3>2. PICK r \in 1..L : r = 7 + ((x - 1) * 5 + q)
      <4>1. 7 + ((x - 1) * 5 + q) \in 1..L
        BY <2>2, <3>1
      <4>. QED
        BY <4>1
    <3>3. Start(i, x) + q = z + r
      BY <2>3, <2>5, <3>1, <3>2 DEF Start
    <3>4. full[z + r] = BlockJobs(b, data, i)[r]
      BY <1>6, <2>2, <2>3
    <3>5. BlockJobs(b, data, i)[7 + ((x - 1) * 5 + q)] = JobOf(b, data, i, x)[q]
      <4>1. ProgramsFollow(b, data, i)
        BY BlockJobsList
      <4>. QED
        BY <2>1, <3>1, <4>1 DEF ProgramPlace, ProgramsFollow
    <3>. QED
      BY <3>2, <3>3, <3>4, <3>5
  <2>. QED
    BY <2>4, <2>5
<1>. QED
  BY <1>5, <1>7

\* What is left of the accesses |s| after |k| of them.
Rest(s, k) == [ x \in 1..(Len(s) - k) |-> s[k + x] ]

\* The first of the accesses that are left, and those that follow it.
LEMMA RestOf ==
    ASSUME NEW T, NEW s \in Seq(T), NEW k \in 0..Len(s)
    PROVE  /\ Rest(s, k) \in Seq(T) /\ Len(Rest(s, k)) = Len(s) - k
           /\ Rest(s, k) = << >> <=> k = Len(s)
           /\ k < Len(s) => /\ Rest(s, k) # << >> /\ Rest(s, k)[1] = s[k + 1]
                            /\ Tail(Rest(s, k)) = Rest(s, k + 1)
           /\ \A x \in 1..Len(Rest(s, k)) : Rest(s, k)[x] = s[k + x]
<1>1. PICK n \in Nat : n = Len(s)
  BY LenProperties
<1>2. \A x \in 1..n : s[x] \in T
  BY <1>1, ElementOfSeq
<1>3. PICK r : r = Rest(s, k)
  OBVIOUS
<1>4. PICK m \in Nat : m = n - k /\ k \in Nat /\ k + m = n
  <2>1. n - k \in Nat /\ k \in Nat /\ k + (n - k) = n
    BY <1>1
  <2>. QED
    BY <2>1
<1>5. r = [ x \in 1..m |-> s[k + x] ]
  BY <1>1, <1>3, <1>4 DEF Rest
<1>6. r \in [ 1..m -> T ]
  <2>1. \A x \in 1..m : k + x \in 1..n
    BY <1>4
  <2>. QED
    BY <1>2, <1>5, <2>1
<1>7. r \in Seq(T) /\ Len(r) = m
  BY <1>4, <1>6
<1>8. r = << >> <=> m = 0
  BY <1>7, EmptySeq
<1>9. ASSUME m # 0
      PROVE  r[1] = s[k + 1] /\ Tail(r) = Rest(s, k + 1)
  <2>1. 1 \in 1..m
    BY <1>9
  <2>2. r # << >>
    BY <1>8, <1>9
  <2>3. PICK t : t = Tail(r)
    OBVIOUS
  <2>4. t \in Seq(T) /\ Len(t) = m - 1 /\ \A x \in 1..(m - 1) : t[x] = r[x + 1]
    BY <1>7, <1>9, <2>2, <2>3, HeadTailProperties
  <2>5. ASSUME NEW x \in 1..(m - 1) PROVE t[x] = s[(k + 1) + x]
    <3>1. x + 1 \in 1..m /\ k + (x + 1) = (k + 1) + x
      BY <1>4
    <3>. QED
      BY <1>5, <2>4, <3>1
  <2>6. t = [ x \in 1..(m - 1) |-> s[(k + 1) + x] ]
    <3>1. t \in [ 1..(m - 1) -> T ]
      BY <2>4, LenProperties
    <3>. QED
      BY <2>5, <3>1
  <2>7. Len(s) - (k + 1) = m - 1
    BY <1>1, <1>4
  <2>. QED
    BY <1>5, <2>1, <2>3, <2>6, <2>7 DEF Rest
<1>10. k = Len(s) <=> m = 0
  BY <1>1, <1>4
<1>11. k < Len(s) => m # 0
  BY <1>1, <1>4
<1>. QED
  BY <1>1, <1>3, <1>4, <1>5, <1>7, <1>8, <1>9, <1>10, <1>11

-----------------------------------------------------------------------------
(* The flash: what the chip makes of the writes.                           *)

ChipShape ==
    /\ chip = [ id |-> chip.id, seq |-> chip.seq, mode |-> chip.mode, work |-> chip.work,
                toggle |-> chip.toggle ]
    /\ chip.mode \in { "read", "id" } /\ chip.toggle \in { 0, 1 }

\* The first |q| writes of a command.
Begun(cmd, q) == SubSeq(cmd, 1, q)

\* A command of which some writes are sent.
LEMMA BegunOf ==
    ASSUME NEW cmd \in Seq(Command), NEW q \in 0..Len(cmd)
    PROVE  /\ Begun(cmd, q) \in Seq(Command) /\ Len(Begun(cmd, q)) = q
           /\ \A k \in 1..q : Begun(cmd, q)[k] = cmd[k]
           /\ Begun(cmd, 0) = << >> /\ Begun(cmd, Len(cmd)) = cmd
           /\ q < Len(cmd) => Append(Begun(cmd, q), cmd[q + 1]) = Begun(cmd, q + 1)
           /\ IsPrefix(Begun(cmd, q), cmd)
<1>1. PICK n \in Nat : n = Len(cmd)
  BY LenProperties
<1>2. q \in 0..n
  BY <1>1
<1>3. \A k \in 1..n : cmd[k] \in Command
  BY <1>1, ElementOfSeq
<1>4. ASSUME NEW p \in 0..n
      PROVE  /\ Begun(cmd, p) \in Seq(Command) /\ Len(Begun(cmd, p)) = p
             /\ \A k \in 1..p : Begun(cmd, p)[k] = cmd[k]
  <2>1. Begun(cmd, p) = [ k \in 1..p |-> cmd[k] ]
    BY DEF Begun
  <2>2. \A k \in 1..p : k \in 1..n
    BY <1>1
  <2>3. Begun(cmd, p) \in [ 1..p -> Command ]
    BY <1>3, <2>1, <2>2
  <2>4. p \in Nat
    BY <1>1
  <2>. QED
    BY <2>1, <2>3, <2>4
<1>5. Begun(cmd, 0) = << >>
  <2>1. 0 \in 0..n
    BY <1>1
  <2>2. Begun(cmd, 0) \in Seq(Command) /\ Len(Begun(cmd, 0)) = 0
    BY <1>4, <2>1
  <2>. QED
    BY <2>2, EmptySeq
<1>6. Begun(cmd, Len(cmd)) = cmd
  <2>1. n \in 0..n
    BY <1>1
  <2>2. /\ Begun(cmd, n) \in Seq(Command) /\ Len(Begun(cmd, n)) = n
        /\ \A k \in 1..n : Begun(cmd, n)[k] = cmd[k]
    BY <1>4, <2>1
  <2>. QED
    BY <1>1, <2>2, SeqEqual
<1>7. ASSUME q < n PROVE Append(Begun(cmd, q), cmd[q + 1]) = Begun(cmd, q + 1)
  <2>1. q + 1 \in 0..n /\ q + 1 \in 1..n /\ q \in Nat
    BY <1>2, <1>7
  <2>2. PICK x, y, c : x = Begun(cmd, q) /\ y = Begun(cmd, q + 1) /\ c = cmd[q + 1]
    OBVIOUS
  <2>3. x \in Seq(Command) /\ Len(x) = q /\ c \in Command /\ \A k \in 1..q : x[k] = cmd[k]
    BY <1>2, <1>3, <1>4, <2>1, <2>2
  <2>4. y \in Seq(Command) /\ Len(y) = q + 1 /\ \A k \in 1..(q + 1) : y[k] = cmd[k]
    BY <1>4, <2>1, <2>2
  <2>5. PICK z : z = Append(x, c)
    OBVIOUS
  <2>6. z \in Seq(Command) /\ Len(z) = q + 1 /\ z[q + 1] = c /\ \A k \in 1..q : z[k] = x[k]
    BY <2>3, <2>5, AppendProperties
  <2>7. \A k \in 1..(q + 1) : z[k] = y[k]
    <3>1. \A k \in 1..(q + 1) : k \in 1..q \/ k = q + 1
      BY <2>1
    <3>. QED
      BY <2>2, <2>3, <2>4, <2>6, <3>1
  <2>8. z = y
    BY <2>4, <2>6, <2>7, SeqEqual
  <2>. QED
    BY <2>2, <2>5, <2>8
<1>8. IsPrefix(Begun(cmd, q), cmd)
  <2>1. PICK x : x = Begun(cmd, q)
    OBVIOUS
  <2>2. x \in Seq(Command) /\ Len(x) = q /\ \A k \in 1..q : x[k] = cmd[k]
    BY <1>2, <1>4, <2>1
  <2>3. SubSeq(x, 1, q) = [ k \in 1..q |-> x[k] ] /\ SubSeq(cmd, 1, q) = [ k \in 1..q |-> cmd[k] ]
    OBVIOUS
  <2>4. SubSeq(x, 1, q) = SubSeq(cmd, 1, q)
    BY <2>2, <2>3
  <2>5. q <= Len(cmd)
    BY <1>1, <1>2
  <2>. QED
    BY <2>1, <2>2, <2>4, <2>5 DEF IsPrefix
<1>. QED
  BY <1>1, <1>2, <1>4, <1>5, <1>6, <1>7, <1>8

SoftEntry == Append(Unlocks, CMD_SOFT_ID_ENTRY)
SoftExit == Append(Unlocks, CMD_SOFT_ID_EXIT)

\* The commands that the chip knows are told apart by their third write.
LEMMA SoftCommands ==
    /\ SoftEntry \in Seq(Command) /\ Len(SoftEntry) = 3 /\ SoftEntry[3] = << Reg0, 144 >>
    /\ SoftExit \in Seq(Command) /\ Len(SoftExit) = 3 /\ SoftExit[3] = << Reg0, 240 >>
    /\ Unlocks = Begun(ProgramCommand, 2)
<1>1. << Reg0, 144 >> \in Command /\ << Reg0, 240 >> \in Command
      /\ << Reg0, 170 >> \in Command /\ << Reg1, 85 >> \in Command
  BY FlashSizes DEF Command
<1>2. /\ Unlocks \in Seq(Command) /\ Len(Unlocks) = 2
      /\ Unlocks[1] = << Reg0, 170 >> /\ Unlocks[2] = << Reg1, 85 >>
  BY <1>1 DEF Unlocks
<1>3. ASSUME NEW c \in Command
      PROVE  Append(Unlocks, c) \in Seq(Command) /\ Len(Append(Unlocks, c)) = 3 /\ Append(Unlocks, c)[3] = c
  <2>1. PICK u \in Seq(Command) : u = Unlocks /\ Len(u) = 2
    BY <1>2
  <2>2. PICK m \in Nat : m = Len(u)
    BY <2>1
  <2>3. Append(u, c) \in Seq(Command) /\ Len(Append(u, c)) = m + 1 /\ Append(u, c)[m + 1] = c
    BY <2>2, AppendProperties
  <2>. QED
    BY <2>1, <2>2, <2>3
<1>4. PICK c1 \in Command, c2 \in Command :
        /\ c1 = << Reg0, 144 >> /\ c2 = << Reg0, 240 >>
        /\ SoftEntry = Append(Unlocks, c1) /\ SoftExit = Append(Unlocks, c2)
  BY <1>1 DEF SoftEntry, SoftExit, CMD_SOFT_ID_ENTRY, CMD_SOFT_ID_EXIT
<1>5. /\ SoftEntry \in Seq(Command) /\ Len(SoftEntry) = 3 /\ SoftEntry[3] = c1
      /\ SoftExit \in Seq(Command) /\ Len(SoftExit) = 3 /\ SoftExit[3] = c2
  BY <1>3, <1>4
<1>6. Unlocks = Begun(ProgramCommand, 2)
  <2>1. PICK x, c : x = Begun(ProgramCommand, 2) /\ c = ProgramCommand
    OBVIOUS
  <2>2. c \in Seq(Command) /\ 2 \in 0..Len(c) /\ c[1] = << Reg0, 170 >> /\ c[2] = << Reg1, 85 >>
    BY <2>1, Commands
  <2>3. x \in Seq(Command) /\ Len(x) = 2 /\ \A k \in 1..2 : x[k] = c[k]
    <3>1. PICK q \in 0..Len(c) : q = 2
      BY <2>2
    <3>2. c \in Seq(Command)
      BY <2>2
    <3>3. Begun(c, q) \in Seq(Command) /\ Len(Begun(c, q)) = q /\ \A k \in 1..q : Begun(c, q)[k] = c[k]
      BY <3>2, BegunOf
    <3>. QED
      BY <2>1, <3>1, <3>3
  <2>4. x[1] = Unlocks[1] /\ x[2] = Unlocks[2]
    BY <1>2, <2>2, <2>3
  <2>5. \A k \in 1..2 : x[k] = Unlocks[k]
    BY <2>4
  <2>. QED
    BY <1>2, <2>1, <2>3, <2>5, SeqEqual
<1>. QED
  BY <1>4, <1>5, <1>6

\* No command is another, and their third writes tell them apart.
LEMMA ThirdWrites ==
    /\ EraseCommand \in Seq(Command) /\ Len(EraseCommand) = 5
    /\ ProgramCommand \in Seq(Command) /\ Len(ProgramCommand) = 3
    /\ EraseCommand # ProgramCommand /\ EraseCommand[3] # ProgramCommand[3]
    /\ SoftEntry \in Seq(Command) /\ Len(SoftEntry) = 3
    /\ SoftExit \in Seq(Command) /\ Len(SoftExit) = 3
    /\ SoftEntry[3] \notin { EraseCommand[3], ProgramCommand[3] }
    /\ SoftExit[3] \notin { EraseCommand[3], ProgramCommand[3] }
    /\ SoftEntry # SoftExit
<1>1. PICK a : a = << Reg0, 128 >>
  OBVIOUS
<1>a. PICK b : b = << Reg0, 160 >>
  OBVIOUS
<1>b. PICK c : c = << Reg0, 144 >>
  OBVIOUS
<1>c. PICK d : d = << Reg0, 240 >>
  OBVIOUS
<1>2. EraseCommand[3] = a /\ ProgramCommand[3] = b /\ SoftEntry[3] = c /\ SoftExit[3] = d
  BY <1>1, <1>a, <1>b, <1>c, Commands, SoftCommands, Zenon
<1>3. /\ EraseCommand \in Seq(Command) /\ Len(EraseCommand) = 5
      /\ ProgramCommand \in Seq(Command) /\ Len(ProgramCommand) = 3
      /\ SoftEntry \in Seq(Command) /\ Len(SoftEntry) = 3
      /\ SoftExit \in Seq(Command) /\ Len(SoftExit) = 3
  BY Commands, SoftCommands, Zenon
<1>0. a # b /\ c # d /\ c # a /\ c # b /\ d # a /\ d # b
  <2>1. a[2] = 128 /\ b[2] = 160 /\ c[2] = 144 /\ d[2] = 240
    BY <1>1, <1>a, <1>b, <1>c
  <2>. QED
    BY <2>1
<1>4. EraseCommand[3] # ProgramCommand[3] /\ SoftEntry[3] # SoftExit[3]
  BY <1>0, <1>2
<1>5. SoftEntry[3] \notin { EraseCommand[3], ProgramCommand[3] }
      /\ SoftExit[3] \notin { EraseCommand[3], ProgramCommand[3] }
  BY <1>0, <1>2
<1>6. EraseCommand # ProgramCommand /\ SoftEntry # SoftExit
  BY <1>4, Zenon
<1>. QED
  BY <1>3, <1>4, <1>5, <1>6, Zenon

\* The length of a command tells it.
LEMMA CommandLength ==
    ASSUME NEW cmd \in { EraseCommand, ProgramCommand }
    PROVE  \E n \in Nat : n = Len(cmd) /\ n \in { 3, 5 } /\ (cmd = EraseCommand <=> n = 5)
<1>1. Len(EraseCommand) = 5 /\ Len(ProgramCommand) = 3 /\ EraseCommand # ProgramCommand
  BY ThirdWrites
<1>2. CASE cmd = EraseCommand
  <2>1. Len(cmd) = 5
    BY <1>1, <1>2
  <2>. QED
    BY <1>2, <2>1
<1>3. CASE cmd = ProgramCommand
  <2>1. Len(cmd) = 3 /\ cmd # EraseCommand
    BY <1>1, <1>3
  <2>. QED
    BY <2>1
<1>. QED
  BY <1>2, <1>3

\* A write of a command takes the chip further into it.
LEMMA ChipGoesOn ==
    ASSUME ChipShape, chip.work = NoWork, NEW cmd, cmd \in { EraseCommand, ProgramCommand },
           NEW q \in 0..(Len(cmd) - 1), chip.seq = Begun(cmd, q)
    PROVE  ChipWrite(cmd[q + 1][1], cmd[q + 1][2]) = [chip EXCEPT !.seq = Begun(cmd, q + 1)]
<1>1. PICK n \in Nat : n = Len(cmd) /\ n \in { 3, 5 } /\ (cmd = EraseCommand <=> n = 5)
  BY CommandLength
<1>2. cmd \in Seq(Command) /\ cmd[3] \in { EraseCommand[3], ProgramCommand[3] }
  BY ThirdWrites
<1>3. q \in 0..n /\ q < n /\ q + 1 \in 0..n /\ q + 1 \in 1..n /\ q \in Nat
  BY <1>1
<1>4. /\ Len(Begun(cmd, q)) = q /\ \A k \in 1..q : Begun(cmd, q)[k] = cmd[k]
  BY <1>1, <1>2, <1>3, BegunOf
<1>5. /\ Len(Begun(cmd, q + 1)) = q + 1 /\ \A k \in 1..(q + 1) : Begun(cmd, q + 1)[k] = cmd[k]
      /\ IsPrefix(Begun(cmd, q + 1), cmd)
  BY <1>1, <1>2, <1>3, BegunOf
<1>6. cmd[q + 1] \in Command
  BY <1>1, <1>2, <1>3, ElementOfSeq
<1>7. << cmd[q + 1][1], cmd[q + 1][2] >> = cmd[q + 1]
  BY <1>6 DEF Command
<1>8. PICK s : s = Append(chip.seq, << cmd[q + 1][1], cmd[q + 1][2] >>) /\ s = Begun(cmd, q + 1)
  <2>1. Append(Begun(cmd, q), cmd[q + 1]) = Begun(cmd, q + 1)
    BY <1>1, <1>2, <1>3, BegunOf
  <2>. QED
    BY <1>7, <2>1
<1>9. chip.seq # ProgramCommand
  <2>1. SUFFICES ASSUME chip.seq = ProgramCommand PROVE FALSE
    OBVIOUS
  <2>2. q = 3
    BY <1>4, <2>1, ThirdWrites
  <2>3. Begun(cmd, q)[3] = cmd[3] /\ cmd = EraseCommand
    BY <1>1, <1>3, <1>4, <2>2
  <2>. QED
    BY <2>1, <2>3, ThirdWrites
<1>10. chip.seq # EraseCommand
  BY <1>1, <1>3, <1>4, ThirdWrites
<1>11. s # SoftEntry /\ s # SoftExit
  <2>1. SUFFICES ASSUME s = SoftEntry \/ s = SoftExit PROVE FALSE
    OBVIOUS
  <2>2. Len(s) = 3
    BY <2>1, ThirdWrites
  <2>3. q + 1 = 3
    BY <1>5, <1>8, <2>2
  <2>4. s[3] = cmd[3] /\ n >= 3
    BY <1>3, <1>5, <1>8, <2>3
  <2>. QED
    BY <1>2, <2>1, <2>4, ThirdWrites
<1>12. IsPrefix(s, EraseCommand) \/ IsPrefix(s, ProgramCommand)
  BY <1>5, <1>8
<1>. QED
  BY <1>8, <1>9, <1>10, <1>11, <1>12 DEF ChipWrite, SoftEntry, SoftExit

KindOf(cmd) == IF cmd = ProgramCommand THEN "program" ELSE "erase"
WorkOf(cmd, a, v) == [ op |-> KindOf(cmd), addr |-> a, byte |-> v ]

\* The write that follows a command begins the work.
LEMMA ChipBegins ==
    ASSUME ChipShape, chip.work = NoWork, NEW cmd, cmd \in { EraseCommand, ProgramCommand },
           chip.seq = cmd, NEW a \in Address, NEW v \in Int, cmd = EraseCommand => v = CMD_ERASE_SECTOR
    PROVE  ChipWrite(a, v) = [chip EXCEPT !.seq = << >>, !.work = WorkOf(cmd, a, v)]
<1>1. PICK n \in Nat : n = Len(cmd) /\ n \in { 3, 5 } /\ (cmd = EraseCommand <=> n = 5)
  BY CommandLength
<1>2. cmd \in Seq(Command) /\ << a, v >> \in Command
  BY ThirdWrites DEF Command
<1>3. PICK s : s = Append(chip.seq, << a, v >>)
  OBVIOUS
<1>4. Len(s) = n + 1
  BY <1>1, <1>2, <1>3, AppendProperties
<1>5. s # SoftEntry /\ s # SoftExit
  BY <1>1, <1>4, ThirdWrites
<1>6. EraseCommand # ProgramCommand
  BY ThirdWrites
<1>7. CASE cmd = ProgramCommand
  <2>1. KindOf(cmd) = "program" /\ chip.seq # EraseCommand
    BY <1>6, <1>7 DEF KindOf
  <2>. QED
    BY <1>3, <1>5, <1>7, <2>1 DEF ChipWrite, SoftEntry, SoftExit, WorkOf
<1>8. CASE cmd = EraseCommand
  <2>1. KindOf(cmd) = "erase" /\ chip.seq # ProgramCommand /\ v = CMD_ERASE_SECTOR
    BY <1>6, <1>8 DEF KindOf
  <2>. QED
    BY <1>3, <1>5, <1>8, <2>1 DEF ChipWrite, SoftEntry, SoftExit, WorkOf
<1>. QED
  BY <1>7, <1>8

\* The two commands of the probe.
LEMMA ChipChangesMode ==
    ASSUME ChipShape, chip.work = NoWork, chip.seq = Begun(ProgramCommand, 2)
    PROVE  /\ ChipWrite(Reg0, 144) = [chip EXCEPT !.seq = << >>, !.mode = "id"]
           /\ ChipWrite(Reg0, 240) = [chip EXCEPT !.seq = << >>, !.mode = "read"]
<1>1. chip.seq = Unlocks /\ Len(Unlocks) = 2
  <2>1. Len(Unlocks) = 2
    BY DEF Unlocks
  <2>. QED
    BY <2>1, SoftCommands
<1>2. chip.seq # ProgramCommand /\ chip.seq # EraseCommand
  <2>1. Len(EraseCommand) = 5 /\ Len(ProgramCommand) = 3
    BY ThirdWrites
  <2>. QED
    BY <1>1, <2>1
<1>3. Append(chip.seq, << Reg0, 144 >>) = SoftEntry /\ Append(chip.seq, << Reg0, 240 >>) = SoftExit
  BY <1>1 DEF SoftEntry, SoftExit, CMD_SOFT_ID_ENTRY, CMD_SOFT_ID_EXIT
<1>4. SoftEntry # SoftExit
  BY ThirdWrites
<1>5. ChipWrite(Reg0, 144) = [chip EXCEPT !.seq = << >>, !.mode = "id"]
  BY <1>2, <1>3, <1>4 DEF ChipWrite, SoftEntry, SoftExit
<1>6. ChipWrite(Reg0, 240) = [chip EXCEPT !.seq = << >>, !.mode = "read"]
  BY <1>2, <1>3, <1>4 DEF ChipWrite, SoftEntry, SoftExit
<1>. QED
  BY <1>5, <1>6

-----------------------------------------------------------------------------
(* The flash: the invariant.                                               *)

\* A call that writes, with the flash as it was when it began.
WriteRequest(b, n, data, before) ==
    [ op |-> "write", block |-> b, count |-> n, data |-> data, before |-> before ]

\* Of the blocks to write, the bytes before m are written, those from m to e erased,
\* and all the others are as they were.
Mixed(b, data, before, m, e) ==
    flash = [ a \in Address |->
                IF b * sector_size <= a /\ a < m THEN data[a - b * sector_size + 1]
                ELSE IF m <= a /\ a < e THEN Erased ELSE before[a] ]

\* The flash before job x of block i, and after it.
BlockStart(b, i) == (b + (i - 1)) * sector_size
BeforeJob(b, data, before, i, x) ==
    Mixed(b, data, before, BlockStart(b, i) + (IF x = 0 THEN 0 ELSE x - 1),
                           BlockStart(b, i) + (IF x = 0 THEN 0 ELSE sector_size))
AfterJob(b, data, before, i, x) ==
    Mixed(b, data, before, BlockStart(b, i) + x, BlockStart(b, i) + sector_size)

\* The chip works at nothing, has no command begun and gives its contents.
Calm == chip.work = NoWork /\ chip.seq = << >> /\ chip.mode = "read" /\ byte0 = NoByte

InNone == request = NoRequest /\ todo = << >> /\ Calm

\* How much of a command the chip has after k accesses of cfi_identity.
UnlocksSent(k) == IF k \in { 1, 6 } THEN 1 ELSE IF k \in { 2, 7 } THEN 2 ELSE 0
InProbe ==
    /\ request = [ op |-> "probe" ]
    /\ chip.work = NoWork /\ byte0 = NoByte
    /\ \E k \in 0..8 : /\ todo = Rest(cfi_identity, k)
                       /\ chip.mode = (IF k \in 3..7 THEN "id" ELSE "read")
                       /\ chip.seq = Begun(ProgramCommand, UnlocksSent(k))

\* The bytes of a call that reads are read one after the other.
ReadAt(b, n, k) ==
    /\ todo = Rest(cfi_read_block(b, n), k)
    /\ got = [ x \in 1..k |-> flash[b * sector_size + x - 1] ]
InRead ==
    /\ Calm
    /\ \E b \in Nat, n \in Nat \ {0} :
          /\ b + n <= sector_count
          /\ request = [ op |-> "read", block |-> b, count |-> n ]
          /\ \E k \in 0..(n * sector_size) : ReadAt(b, n, k)

\* Job x of block i is being sent: q writes of its command are.
Sending(b, n, data, before, i, x) ==
    /\ chip.work = NoWork /\ byte0 = NoByte
    /\ BeforeJob(b, data, before, i, x)
    /\ \E q \in 0..Len(CmdOf(x)) :
          /\ todo = Rest(cfi_write_block(b, n, data), Start(i, x) + q)
          /\ chip.seq = Begun(CmdOf(x), q)

\* Job x of block i is sent: the chip works at it, in which case two reads differ, or is
\* done with it.
Working(b, data, before, i, x) ==
    /\ chip.work = WorkOf(CmdOf(x), AddrOf(b, i, x), ValOf(data, i, x))
    /\ BeforeJob(b, data, before, i, x)
    /\ byte0 = NoByte \/ byte0 = 2 * (1 - chip.toggle)
WorkedAt(b, data, before, i, x) ==
    /\ chip.work = NoWork /\ byte0 \in FlashByte \cup { NoByte }
    /\ AfterJob(b, data, before, i, x)
Waiting(b, n, data, before, i, x) ==
    /\ chip.seq = << >>
    /\ todo = Rest(cfi_write_block(b, n, data), Start(i, x) + (Len(CmdOf(x)) + 1))
    /\ Working(b, data, before, i, x) \/ WorkedAt(b, data, before, i, x)

WriteDone(b, n, data, before) ==
    /\ todo = << >> /\ Calm
    /\ Mixed(b, data, before, (b + n) * sector_size, (b + n) * sector_size)

WriteArgs(b, n, data, before) ==
    /\ b \in Nat /\ n \in Nat \ {0} /\ b + n <= sector_count
    /\ data \in Seq(FlashByte) /\ Len(data) = n * sector_size
    /\ before \in [ Address -> FlashByte ]
WriteAt(b, n, data, before) ==
    \/ WriteDone(b, n, data, before)
    \/ \E i \in 1..n, x \in 0..sector_size :
          \/ Sending(b, n, data, before, i, x)
          \/ Waiting(b, n, data, before, i, x)
InWrite ==
    /\ chip.mode = "read"
    /\ \E b, n, data, before :
          /\ WriteArgs(b, n, data, before)
          /\ request = WriteRequest(b, n, data, before)
          /\ WriteAt(b, n, data, before)

CfiShape == ChipShape /\ flash \in [ Address -> FlashByte ] /\ mtd \in BOOLEAN
CfiInv == CfiShape /\ (InNone \/ InProbe \/ InRead \/ InWrite)

-----------------------------------------------------------------------------
(* The flash: a call that writes.                                          *)

\* What is left to do while a job is done whose command has m writes: the job comes
\* after s of the accesses |full|.
JobAccesses(full, s, c, m, a, v) ==
    /\ \A q \in 0..(m + 1) :
          /\ Rest(full, s + q) # << >> /\ Tail(Rest(full, s + q)) = Rest(full, s + (q + 1))
          /\ Rest(full, s + q) \in Seq(Access)
    /\ \A q \in 0..(m - 1) : Rest(full, s + q)[1] = << "write", c[q + 1][1], c[q + 1][2] >>
    /\ Rest(full, s + m)[1] = << "write", a, v >>
    /\ Rest(full, s + (m + 1))[1] = << "wait", a >>

\* Where the accesses of a job are, and what they are.
LEMMA WriteTodo ==
    ASSUME NEW b, NEW n, NEW data, NEW before, WriteArgs(b, n, data, before),
           NEW i \in 1..n, NEW x \in 0..sector_size,
           NEW full, full = cfi_write_block(b, n, data), NEW c, c = CmdOf(x), NEW s, s = Start(i, x)
    PROVE  /\ full \in Seq(Access) /\ s \in Nat /\ c \in Seq(Command)
           /\ Len(c) \in { 3, 5 } /\ c \in { EraseCommand, ProgramCommand }
           /\ JobAccesses(full, s, c, Len(c), AddrOf(b, i, x), ValOf(data, i, x))
           /\ x < sector_size => s + (Len(c) + 2) = Start(i, x + 1)
           /\ x = sector_size => s + (Len(c) + 2) = Start(i + 1, 0)
           /\ Rest(full, Start(n + 1, 0)) = << >>
<1>1. /\ b \in Nat /\ n \in Nat \ {0} /\ b + n <= sector_count
      /\ data \in Seq(FlashByte) /\ Len(data) = n * sector_size
  BY DEF WriteArgs
<1>2. /\ c \in Seq(Command) /\ Len(c) = (IF x = 0 THEN 5 ELSE 3)
      /\ AddrOf(b, i, x) \in Address /\ ValOf(data, i, x) \in Int
  BY <1>1, JobTypes
<1>3. PICK m \in Nat : m = Len(c) /\ m \in { 3, 5 } /\ JobLen(x) = m + 2
  BY <1>2 DEF JobLen
<1>4. PICK a \in Address, v \in Int : a = AddrOf(b, i, x) /\ v = ValOf(data, i, x)
  BY <1>2
<1>5. PICK job : job = JobOf(b, data, i, x)
  OBVIOUS
<1>6. /\ \A q \in 1..m : job[q] = << "write", c[q][1], c[q][2] >>
      /\ job[m + 1] = << "write", a, v >> /\ job[m + 2] = << "wait", a >>
  <2>1. job = Job(c, a, v)
    BY <1>4, <1>5 DEF JobOf
  <2>. QED
    BY <1>2, <1>3, <1>4, <2>1, JobList, ZenonT(40)
<1>7. /\ full \in Seq(Access) /\ Len(full) = n * RowLen
      /\ \A q \in 1..(m + 2) : full[s + q] = job[q]
  BY <1>1, <1>3, <1>5, WriteList
<1>8. /\ s \in Nat /\ s + (m + 2) <= Start(i + 1, 0)
      /\ x < sector_size => s + (m + 2) = Start(i, x + 1)
      /\ x = sector_size => s + (m + 2) = Start(i + 1, 0)
      /\ Start(i + 1, 0) = i * RowLen /\ RowLen \in Nat \ {0}
  <2>1. i \in Nat \ {0}
    BY <1>1
  <2>. QED
    BY <1>3, <2>1, Starts
<1>9. Start(n + 1, 0) = n * RowLen
  <2>1. 0 \in 0..sector_size
    BY FlashSizes
  <2>. QED
    BY <1>1, <2>1, Starts
<1>10. PICK L \in Nat : L = Len(full) /\ s + (m + 2) <= L /\ Start(n + 1, 0) = L
  <2>1. i * RowLen <= n * RowLen
    BY <1>1, <1>8, TimesMonotone
  <2>2. PICK u \in Nat, w \in Nat : u = i * RowLen /\ w = n * RowLen
    BY <1>1, <1>8
  <2>. QED
    BY <1>3, <1>7, <1>8, <1>9, <2>1, <2>2
<1>11. ASSUME NEW q \in 0..(m + 1)
       PROVE  /\ Rest(full, s + q) # << >> /\ Tail(Rest(full, s + q)) = Rest(full, s + (q + 1))
              /\ Rest(full, s + q) \in Seq(Access)
              /\ Rest(full, s + q)[1] = job[q + 1]
  <2>1. PICK k \in 0..L : k = s + q /\ k < L /\ k + 1 = s + (q + 1)
    <3>1. PICK z \in Nat : z = s /\ z + (m + 2) <= L
      BY <1>8, <1>10
    <3>2. z + q \in 0..L /\ z + q < L /\ (z + q) + 1 = z + (q + 1)
      BY <3>1
    <3>. QED
      BY <3>1, <3>2
  <2>2. /\ Rest(full, k) # << >> /\ Tail(Rest(full, k)) = Rest(full, k + 1)
        /\ Rest(full, k) \in Seq(Access) /\ Rest(full, k)[1] = full[k + 1]
    BY <1>7, <1>10, <2>1, RestOf
  <2>3. q + 1 \in 1..(m + 2)
    BY <1>3
  <2>. QED
    BY <1>7, <2>1, <2>2, <2>3
<1>12. ASSUME NEW q \in 0..(m - 1)
       PROVE  Rest(full, s + q)[1] = << "write", c[q + 1][1], c[q + 1][2] >>
  <2>1. q \in 0..(m + 1) /\ q + 1 \in 1..m
    BY <1>3
  <2>. QED
    BY <1>6, <1>11, <2>1
<1>13. /\ Rest(full, s + m)[1] = << "write", a, v >>
       /\ Rest(full, s + (m + 1))[1] = << "wait", a >>
  <2>1. m \in 0..(m + 1) /\ m + 1 \in 0..(m + 1) /\ (m + 1) + 1 = m + 2
    BY <1>3
  <2>. QED
    BY <1>6, <1>11, <2>1
<1>14. Rest(full, Start(n + 1, 0)) = << >>
  <2>1. L \in 0..Len(full)
    BY <1>10
  <2>. QED
    BY <1>7, <1>10, <2>1, RestOf
<1>15. c \in { EraseCommand, ProgramCommand }
  BY DEF CmdOf
<1>16. JobAccesses(full, s, c, m, a, v)
  BY <1>11, <1>12, <1>13 DEF JobAccesses
<1>. QED
  BY <1>2, <1>3, <1>4, <1>7, <1>8, <1>14, <1>15, <1>16

\* The block that an address is in.
LEMMA BlockRange ==
    ASSUME NEW a \in Nat, NEW c \in Nat
    PROVE  BlockOf(a) = c <=> c * sector_size <= a /\ a < c * sector_size + sector_size
<1>1. PICK S \in Nat \ {0}, z \in Nat : S = sector_size /\ z = c * S
  BY FlashSizes
<1>2. ASSUME BlockOf(a) = c PROVE z <= a /\ a < z + S
  <2>1. PICK q \in Int, r \in 0..(S - 1) : q = a \div S /\ a = q * S + r
    BY <1>1, Split
  <2>2. q = c
    BY <1>1, <1>2, <2>1 DEF BlockOf
  <2>3. a = z + r
    BY <1>1, <2>1, <2>2
  <2>. QED
    BY <2>3
<1>3. ASSUME z <= a, a < z + S PROVE BlockOf(a) = c
  <2>1. PICK r \in 0..(S - 1) : a = z + r
    <3>1. a - z \in 0..(S - 1) /\ a = z + (a - z)
      BY <1>1, <1>3
    <3>. QED
      BY <3>1
  <2>2. a = c * S + r /\ a \in Int /\ c \in Int
    BY <1>1, <2>1
  <2>3. a \div S = c
    BY <2>1, <2>2, <1>1, DivModUnique
  <2>. QED
    BY <1>1, <2>3 DEF BlockOf
<1>. QED
  BY <1>1, <1>2, <1>3

\* Where the blocks of a call begin.
LEMMA BlockStarts ==
    ASSUME NEW b, NEW n, NEW data, NEW before, WriteArgs(b, n, data, before), NEW i \in 1..n
    PROVE  /\ BlockStart(b, i) \in Nat /\ b * sector_size \in Nat /\ b * sector_size <= BlockStart(b, i)
           /\ BlockStart(b, i) = b * sector_size + (i - 1) * sector_size
           /\ BlockStart(b, i + 1) = BlockStart(b, i) + sector_size
           /\ BlockStart(b, n) + sector_size = (b + n) * sector_size
           /\ BlockStart(b, 1) = b * sector_size
           /\ b + (i - 1) \in Nat /\ BlockStart(b, i) = (b + (i - 1)) * sector_size
<1>1. PICK S \in Nat \ {0} : S = sector_size /\ b \in Nat /\ n \in Nat \ {0}
  BY FlashSizes DEF WriteArgs
<1>2. b + (i - 1) \in Nat /\ i - 1 \in Nat /\ i \in Nat
  BY <1>1
<1>3. PICK u \in Nat, v \in Nat : u = b * S /\ v = (i - 1) * S
  BY <1>1, <1>2
<1>4. (b + (i - 1)) * S = u + v
  BY <1>1, <1>2, <1>3
<1>5. (b + ((i + 1) - 1)) * S = (b + (i - 1)) * S + S
  BY <1>1, <1>2
<1>6. (b + (n - 1)) * S + S = (b + n) * S
  BY <1>1
<1>7. (b + (1 - 1)) * S = b * S
  BY <1>1
<1>. QED
  BY <1>1, <1>2, <1>3, <1>4, <1>5, <1>6, <1>7 DEF BlockStart

\* What a job leaves is what the next one finds.
LEMMA JobAfterJob ==
    ASSUME NEW b, NEW n, NEW data, NEW before, WriteArgs(b, n, data, before),
           NEW i \in 1..n, NEW x \in 0..sector_size, AfterJob(b, data, before, i, x)
    PROVE  /\ x < sector_size => BeforeJob(b, data, before, i, x + 1)
           /\ x = sector_size => BeforeJob(b, data, before, i + 1, 0)
           /\ x = sector_size /\ i = n =>
                 Mixed(b, data, before, (b + n) * sector_size, (b + n) * sector_size)
<1>1. PICK A \in Nat : /\ A = BlockStart(b, i) /\ BlockStart(b, i + 1) = A + sector_size
                       /\ i = n => (b + n) * sector_size = A + sector_size
  BY BlockStarts
<1>2. sector_size \in Nat \ {0}
  BY FlashSizes
<1>3. Mixed(b, data, before, A + x, A + sector_size)
  BY <1>1 DEF AfterJob
<1>4. ASSUME x < sector_size PROVE BeforeJob(b, data, before, i, x + 1)
  <2>1. x + 1 # 0 /\ (x + 1) - 1 = x
    BY <1>2
  <2>. QED
    BY <1>1, <1>3, <2>1 DEF BeforeJob
<1>5. ASSUME x = sector_size PROVE BeforeJob(b, data, before, i + 1, 0)
  <2>1. (A + sector_size) + 0 = A + sector_size
    BY <1>2
  <2>. QED
    BY <1>1, <1>3, <1>5, <2>1 DEF BeforeJob
<1>6. ASSUME x = sector_size, i = n
      PROVE  Mixed(b, data, before, (b + n) * sector_size, (b + n) * sector_size)
  BY <1>1, <1>3, <1>6
<1>. QED
  BY <1>4, <1>5, <1>6

\* Bits that are set are programmed to any value.
LEMMA ProgramErased ==
    ASSUME NEW v \in FlashByte
    PROVE  BitAnd(Erased, v) = v
<1>1. v \in { 0, 1, 2, 3 }
  BY DEF FlashByte
<1>2. 3 % 2 = 1 /\ 3 \div 2 = 1
  OBVIOUS
<1>3. v = 0 => v % 2 = 0 /\ v \div 2 = 0
  OBVIOUS
<1>4. v = 1 => v % 2 = 1 /\ v \div 2 = 0
  OBVIOUS
<1>5. v = 2 => v % 2 = 0 /\ v \div 2 = 1
  OBVIOUS
<1>6. v = 3 => v % 2 = 1 /\ v \div 2 = 1
  OBVIOUS
<1>. QED
  BY <1>1, <1>2, <1>3, <1>4, <1>5, <1>6 DEF BitAnd, Erased

\* Programming leaves a byte.
LEMMA BitAndByte ==
    ASSUME NEW w \in FlashByte, NEW v \in FlashByte
    PROVE  BitAnd(w, v) \in FlashByte
<1>1. ASSUME NEW u \in FlashByte PROVE u % 2 \in { 0, 1 } /\ u \div 2 \in { 0, 1 }
  BY DEF FlashByte
<1>2. PICK a \in { 0, 1 }, b \in { 0, 1 }, c \in { 0, 1 }, d \in { 0, 1 } :
        a = w % 2 /\ b = v % 2 /\ c = w \div 2 /\ d = v \div 2
  BY <1>1
<1>3. a * b \in { 0, 1 } /\ c * d \in { 0, 1 }
  OBVIOUS
<1>. QED
  BY <1>2, <1>3 DEF BitAnd, FlashByte

\* The byte at a of a flash that Mixed describes.
MixedAt(b, data, before, m, e, a) ==
    IF b * sector_size <= a /\ a < m THEN data[a - b * sector_size + 1]
    ELSE IF m <= a /\ a < e THEN Erased ELSE before[a]

\* The chip is done erasing.
LEMMA EraseDoes ==
    ASSUME NEW b, NEW n, NEW data, NEW before, WriteArgs(b, n, data, before), NEW i \in 1..n,
           BeforeJob(b, data, before, i, 0),
           flash' = [ a \in Address |-> IF BlockOf(a) = BlockOf(AddrOf(b, i, 0))
                                        THEN Erased ELSE flash[a] ]
    PROVE  AfterJob(b, data, before, i, 0)'
<1>1. PICK A \in Nat, B \in Nat, c \in Nat :
        /\ A = BlockStart(b, i) /\ B = b * sector_size /\ B <= A
        /\ c = b + (i - 1) /\ A = c * sector_size
  BY BlockStarts
<1>2. PICK S \in Nat \ {0} : S = sector_size
  BY FlashSizes
<1>3. AddrOf(b, i, 0) = A
  <2>1. A + 0 = A
    OBVIOUS
  <2>. QED
    BY <1>1, <2>1 DEF AddrOf
<1>4. \A a \in Address : a \in Nat
  BY FlashSizes
<1>5. ASSUME NEW a \in Nat PROVE BlockOf(a) = c <=> A <= a /\ a < A + S
  BY <1>1, <1>2, BlockRange
<1>6. BlockOf(A) = c
  BY <1>2, <1>5
<1>7. \A a \in Address : flash[a] = MixedAt(b, data, before, A, A, a)
  <2>1. A + 0 = A
    OBVIOUS
  <2>2. Mixed(b, data, before, A, A)
    BY <1>1, <2>1 DEF BeforeJob
  <2>. QED
    BY <2>2 DEF Mixed, MixedAt
<1>8. ASSUME NEW a \in Address
      PROVE  flash'[a] = MixedAt(b, data, before, A, A + S, a)
  <2>1. a \in Nat /\ flash[a] = MixedAt(b, data, before, A, A, a)
    BY <1>4, <1>7
  <2>2. flash'[a] = IF A <= a /\ a < A + S THEN Erased ELSE flash[a]
    <3>1. flash'[a] = IF BlockOf(a) = c THEN Erased ELSE flash[a]
      BY <1>3, <1>6
    <3>. QED
      BY <1>5, <2>1, <3>1
  <2>3. CASE A <= a /\ a < A + S
    <3>1. ~(a < A)
      BY <2>1, <2>3
    <3>. QED
      BY <1>1, <2>2, <2>3, <3>1 DEF MixedAt
  <2>4. CASE ~(A <= a /\ a < A + S)
    <3>1. ~(A <= a /\ a < A)
      BY <2>1
    <3>. QED
      BY <1>1, <2>1, <2>2, <2>4, <3>1 DEF MixedAt
  <2>. QED
    BY <2>3, <2>4
<1>9. flash' = [ a \in Address |-> MixedAt(b, data, before, A, A + S, a) ]
  BY <1>8
<1>10. A + 0 = A
  OBVIOUS
<1>. QED
  BY <1>1, <1>2, <1>9, <1>10 DEF AfterJob, Mixed, MixedAt

\* The chip is done programming.
LEMMA ProgramDoes ==
    ASSUME NEW b, NEW n, NEW data, NEW before, WriteArgs(b, n, data, before), NEW i \in 1..n,
           NEW x \in 1..sector_size, BeforeJob(b, data, before, i, x),
           flash' = [flash EXCEPT ![AddrOf(b, i, x)] = BitAnd(@, ValOf(data, i, x))]
    PROVE  AfterJob(b, data, before, i, x)'
<1>1. PICK A \in Nat, B \in Nat, z \in Nat :
        /\ A = BlockStart(b, i) /\ B = b * sector_size /\ B <= A
        /\ z = (i - 1) * sector_size /\ A = B + z
  <2>1. (i - 1) * sector_size \in Nat
    BY FlashSizes DEF WriteArgs
  <2>. QED
    BY <2>1, BlockStarts
<1>2. PICK S \in Nat \ {0} : S = sector_size
  BY FlashSizes
<1>3. PICK P \in Nat : P = A + (x - 1)
  <2>1. A + (x - 1) \in Nat
    BY <1>1
  <2>. QED
    BY <2>1
<1>4. x # 0 /\ x \in 0..sector_size
  BY <1>2
<1>5. AddrOf(b, i, x) = P
  BY <1>1, <1>3, <1>4 DEF AddrOf, BlockStart
<1>6. PICK v \in FlashByte : v = ValOf(data, i, x) /\ v = data[z + x]
  <2>1. ValOf(data, i, x) \in FlashByte
    BY <1>4, JobTypes DEF WriteArgs
  <2>. QED
    BY <1>1, <1>4, <2>1 DEF ValOf
<1>7. Mixed(b, data, before, P, A + S)
  BY <1>1, <1>2, <1>3, <1>4 DEF BeforeJob
<1>8. flash = [ a \in Address |-> MixedAt(b, data, before, P, A + S, a) ]
  BY <1>7 DEF Mixed, MixedAt
<1>9. P \in Address
  BY <1>4, <1>5, JobTypes DEF WriteArgs
<1>10. flash[P] = Erased
  <2>1. ~(P < P) /\ P <= P /\ P < A + S
    BY <1>2, <1>3
  <2>. QED
    BY <1>8, <1>9, <2>1 DEF MixedAt
<1>11. \A a \in Address : a \in Nat
  BY FlashSizes
<1>12. flash' = [ a \in Address |-> IF a = P THEN v ELSE flash[a] ]
  <2>1. BitAnd(flash[P], v) = v
    BY <1>10, ProgramErased
  <2>. QED
    BY <1>5, <1>6, <1>8, <1>9, <2>1
<1>13. ASSUME NEW a \in Address
       PROVE  flash'[a] = MixedAt(b, data, before, A + x, A + S, a)
  <2>1. a \in Nat /\ A + x = P + 1
    BY <1>3, <1>11
  <2>2. CASE a = P
    <3>1. B <= a /\ a < A + x /\ a - B + 1 = z + x
      BY <1>1, <1>3, <2>2
    <3>. QED
      BY <1>1, <1>6, <1>12, <2>2, <3>1 DEF MixedAt
  <2>3. CASE a # P
    <3>1. (a < P <=> a < A + x) /\ (P <= a <=> A + x <= a)
      BY <1>3, <2>1, <2>3
    <3>2. flash'[a] = MixedAt(b, data, before, P, A + S, a)
      BY <1>8, <1>12, <2>3
    <3>. QED
      BY <3>1, <3>2 DEF MixedAt
  <2>. QED
    BY <2>2, <2>3
<1>14. flash' = [ a \in Address |-> MixedAt(b, data, before, A + x, A + S, a) ]
  BY <1>12, <1>13
<1>. QED
  BY <1>1, <1>2, <1>14 DEF AfterJob, Mixed, MixedAt

\* The fields of the chip after the steps of its state.
LEMMA ChipFields ==
    ASSUME ChipShape
    PROVE  /\ \A s : chip' = [chip EXCEPT !.seq = s] =>
                 /\ ChipShape' /\ chip'.seq = s /\ chip'.mode = chip.mode /\ chip'.work = chip.work
           /\ \A s, w : chip' = [chip EXCEPT !.seq = s, !.work = w] =>
                 /\ ChipShape' /\ chip'.seq = s /\ chip'.mode = chip.mode /\ chip'.work = w
           /\ \A s : \A m \in { "read", "id" } : chip' = [chip EXCEPT !.seq = s, !.mode = m] =>
                 /\ ChipShape' /\ chip'.seq = s /\ chip'.mode = m /\ chip'.work = chip.work
           /\ chip' = [chip EXCEPT !.work = NoWork] =>
                 /\ ChipShape' /\ chip'.seq = chip.seq /\ chip'.mode = chip.mode
                 /\ chip'.work = NoWork
           /\ chip' = [chip EXCEPT !.toggle = 1 - @] =>
                 /\ ChipShape' /\ chip'.seq = chip.seq /\ chip'.mode = chip.mode
                 /\ chip'.work = chip.work /\ chip'.toggle = 1 - chip.toggle
<1>1. PICK i, q, o, u, t :
        /\ chip = [ id |-> i, seq |-> q, mode |-> o, work |-> u, toggle |-> t ]
        /\ o \in { "read", "id" } /\ t \in { 0, 1 }
  BY DEF ChipShape
<1>2. ASSUME NEW s, chip' = [chip EXCEPT !.seq = s]
      PROVE  ChipShape' /\ chip'.seq = s /\ chip'.mode = chip.mode /\ chip'.work = chip.work
  BY <1>1, <1>2 DEF ChipShape
<1>3. ASSUME NEW s, NEW w, chip' = [chip EXCEPT !.seq = s, !.work = w]
      PROVE  ChipShape' /\ chip'.seq = s /\ chip'.mode = chip.mode /\ chip'.work = w
  BY <1>1, <1>3 DEF ChipShape
<1>4. ASSUME NEW s, NEW m \in { "read", "id" }, chip' = [chip EXCEPT !.seq = s, !.mode = m]
      PROVE  ChipShape' /\ chip'.seq = s /\ chip'.mode = m /\ chip'.work = chip.work
  BY <1>1, <1>4 DEF ChipShape
<1>5. ASSUME chip' = [chip EXCEPT !.work = NoWork]
      PROVE  /\ ChipShape' /\ chip'.seq = chip.seq /\ chip'.mode = chip.mode
             /\ chip'.work = NoWork
  BY <1>1, <1>5 DEF ChipShape
<1>6. ASSUME chip' = [chip EXCEPT !.toggle = 1 - @]
      PROVE  /\ ChipShape' /\ chip'.seq = chip.seq /\ chip'.mode = chip.mode
             /\ chip'.work = chip.work /\ chip'.toggle = 1 - chip.toggle
  BY <1>1, <1>6 DEF ChipShape
<1>. QED
  BY <1>2, <1>3, <1>4, <1>5, <1>6

\* A call that writes goes on.
LEMMA WriteGoesOn ==
    ASSUME NEW b, NEW n, NEW data, NEW before, WriteArgs(b, n, data, before),
           request = WriteRequest(b, n, data, before), request' = request, mtd' = mtd,
           CfiShape, ChipShape', flash' \in [ Address -> FlashByte ], chip'.mode = "read",
           WriteAt(b, n, data, before)'
    PROVE  CfiInv'
<1>1. CfiShape'
  BY DEF CfiShape
<1>2. InWrite'
  BY DEF InWrite
<1>. QED
  BY <1>1, <1>2 DEF CfiInv

\* What a call that writes has sent so far is left as it is by a write.
LEMMA SendStep ==
    ASSUME NEW b, NEW n, NEW data, NEW before, WriteArgs(b, n, data, before),
           request = WriteRequest(b, n, data, before), CfiShape, chip.mode = "read",
           NEW i \in 1..n, NEW x \in 0..sector_size, Sending(b, n, data, before, i, x), BusWrite
    PROVE  CfiInv'
<1>1. PICK full, c, s : full = cfi_write_block(b, n, data) /\ c = CmdOf(x) /\ s = Start(i, x)
  OBVIOUS
<1>2. PICK m \in Nat :
        /\ m = Len(c) /\ m \in { 3, 5 }
        /\ JobAccesses(full, s, c, m, AddrOf(b, i, x), ValOf(data, i, x))
        /\ c \in { EraseCommand, ProgramCommand } /\ c \in Seq(Command)
  <2>1. /\ Len(c) \in { 3, 5 } /\ c \in { EraseCommand, ProgramCommand } /\ c \in Seq(Command)
        /\ JobAccesses(full, s, c, Len(c), AddrOf(b, i, x), ValOf(data, i, x))
    BY <1>1, WriteTodo
  <2>2. Len(c) \in Nat
    BY <2>1
  <2>. QED
    BY <2>1, <2>2
<1>3. PICK q \in 0..m : todo = Rest(full, s + q) /\ chip.seq = Begun(c, q)
  BY <1>1, <1>2 DEF Sending
<1>4. /\ chip.work = NoWork /\ byte0 = NoByte /\ BeforeJob(b, data, before, i, x) /\ ChipShape
      /\ flash \in [ Address -> FlashByte ]
  BY DEF Sending, CfiShape
<1>5. /\ chip' = ChipWrite(todo[1][2], todo[1][3]) /\ todo' = Tail(todo)
      /\ flash' = flash /\ request' = request /\ byte0' = byte0 /\ mtd' = mtd
  BY DEF BusWrite
<1>6. BeforeJob(b, data, before, i, x)'
  BY <1>4, <1>5 DEF BeforeJob, Mixed
<1>7. Tail(todo) = Rest(full, s + (q + 1))
  <2>1. q \in 0..(m + 1)
    BY <1>2
  <2>. QED
    BY <1>2, <1>3, <2>1 DEF JobAccesses
<1>8. CASE q < m
  <2>1. q \in 0..(m - 1) /\ q + 1 \in 0..m
    BY <1>2, <1>8
  <2>2. todo[1] = << "write", c[q + 1][1], c[q + 1][2] >>
    BY <1>2, <1>3, <2>1 DEF JobAccesses
  <2>3. chip' = ChipWrite(c[q + 1][1], c[q + 1][2])
    BY <1>5, <2>2
  <2>4. chip' = [chip EXCEPT !.seq = Begun(c, q + 1)]
    BY <1>2, <1>3, <1>4, <2>1, <2>3, ChipGoesOn
  <2>5. ChipShape' /\ chip'.seq = Begun(c, q + 1) /\ chip'.mode = "read" /\ chip'.work = NoWork
    BY <1>4, <2>4, ChipFields
  <2>6. Sending(b, n, data, before, i, x)'
    <3>1. byte0' = NoByte /\ chip'.work = NoWork /\ todo' = Rest(full, s + (q + 1))
      BY <1>4, <1>5, <1>7, <2>5
    <3>. QED
      BY <1>1, <1>2, <1>6, <2>1, <2>5, <3>1 DEF Sending
  <2>7. WriteAt(b, n, data, before)'
    BY <2>6 DEF WriteAt
  <2>. QED
    BY <1>4, <1>5, <2>5, <2>7, WriteGoesOn
<1>9. CASE q = m
  <2>1. PICK a \in Address, v \in Int :
          /\ a = AddrOf(b, i, x) /\ v = ValOf(data, i, x)
          /\ c = EraseCommand => v = CMD_ERASE_SECTOR
    <3>1. AddrOf(b, i, x) \in Address /\ ValOf(data, i, x) \in Int
      BY JobTypes DEF WriteArgs
    <3>2. c = EraseCommand => ValOf(data, i, x) = CMD_ERASE_SECTOR
      BY <1>1, ThirdWrites DEF CmdOf, ValOf
    <3>. QED
      BY <3>1, <3>2
  <2>2. todo[1] = << "write", a, v >>
    BY <1>2, <1>3, <1>9, <2>1 DEF JobAccesses
  <2>3. chip' = ChipWrite(a, v)
    BY <1>5, <2>2
  <2>4. chip.seq = c
    <3>1. q \in 0..Len(c) /\ q = Len(c)
      BY <1>2, <1>9
    <3>2. Begun(c, Len(c)) = c
      BY <1>2, <3>1, BegunOf
    <3>. QED
      BY <1>3, <3>1, <3>2
  <2>5. chip' = [chip EXCEPT !.seq = << >>, !.work = WorkOf(c, a, v)]
    <3>1. c \in { EraseCommand, ProgramCommand } /\ (c = EraseCommand => v = CMD_ERASE_SECTOR)
      BY <1>2, <2>1
    <3>2. chip.work = NoWork /\ ChipShape
      BY <1>4
    <3>3. ChipWrite(a, v) = [chip EXCEPT !.seq = << >>, !.work = WorkOf(c, a, v)]
      BY <2>4, <3>1, <3>2, ChipBegins, ZenonT(40)
    <3>. QED
      BY <2>3, <3>3
  <2>6. ChipShape' /\ chip'.seq = << >> /\ chip'.mode = "read" /\ chip'.work = WorkOf(c, a, v)
    BY <1>4, <2>5, ChipFields
  <2>7. Waiting(b, n, data, before, i, x)'
    <3>1. byte0' = NoByte /\ todo' = Rest(full, s + (m + 1))
      BY <1>4, <1>5, <1>7, <1>9
    <3>2. Working(b, data, before, i, x)'
      BY <1>1, <1>6, <2>1, <2>6, <3>1 DEF Working
    <3>. QED
      BY <1>1, <1>2, <2>6, <3>1, <3>2 DEF Waiting
  <2>8. WriteAt(b, n, data, before)'
    BY <2>7 DEF WriteAt
  <2>. QED
    BY <1>4, <1>5, <2>6, <2>8, WriteGoesOn
<1>. QED
  BY <1>2, <1>8, <1>9

\* The chip that works is told from the one that does not.
LEMMA WorkIs ==
    ASSUME NEW c, NEW a, NEW v
    PROVE  /\ WorkOf(c, a, v) # NoWork /\ WorkOf(c, a, v).op = KindOf(c)
           /\ WorkOf(c, a, v).addr = a /\ WorkOf(c, a, v).byte = v
<1>1. KindOf(c) \in { "program", "erase" }
  BY DEF KindOf
<1>2. WorkOf(c, a, v).op = KindOf(c) /\ NoWork.op = "none"
  BY DEF WorkOf, NoWork
<1>. QED
  BY <1>1, <1>2 DEF WorkOf

\* The first access that is left while the chip is waited for.
LEMMA WaitingTodo ==
    ASSUME NEW b, NEW n, NEW data, NEW before, WriteArgs(b, n, data, before),
           NEW i \in 1..n, NEW x \in 0..sector_size, Waiting(b, n, data, before, i, x)
    PROVE  /\ todo # << >> /\ todo[1] = << "wait", AddrOf(b, i, x) >> /\ todo \in Seq(Access)
           /\ AddrOf(b, i, x) \in Address
           /\ Tail(todo) = Rest(cfi_write_block(b, n, data), Start(i, x) + (Len(CmdOf(x)) + 2))
<1>1. PICK full, c, s, m : /\ full = cfi_write_block(b, n, data) /\ c = CmdOf(x) /\ s = Start(i, x)
                           /\ m = Len(c)
  OBVIOUS
<1>2. m \in { 3, 5 } /\ JobAccesses(full, s, c, m, AddrOf(b, i, x), ValOf(data, i, x))
  BY <1>1, WriteTodo
<1>3. todo = Rest(full, s + (m + 1))
  BY <1>1 DEF Waiting
<1>4. m + 1 \in 0..(m + 1) /\ (m + 1) + 1 = m + 2
  BY <1>2
<1>5. /\ todo # << >> /\ todo[1] = << "wait", AddrOf(b, i, x) >> /\ todo \in Seq(Access)
      /\ Tail(todo) = Rest(full, s + ((m + 1) + 1))
  BY <1>2, <1>3, <1>4 DEF JobAccesses
<1>6. AddrOf(b, i, x) \in Address
  BY JobTypes DEF WriteArgs
<1>. QED
  BY <1>1, <1>4, <1>5, <1>6

\* The first access that is left while a job is sent.
LEMMA SendingTodo ==
    ASSUME NEW b, NEW n, NEW data, NEW before, WriteArgs(b, n, data, before),
           NEW i \in 1..n, NEW x \in 0..sector_size, Sending(b, n, data, before, i, x)
    PROVE  todo # << >> /\ todo[1][1] = "write" /\ todo \in Seq(Access)
<1>1. PICK full, c, s, m : /\ full = cfi_write_block(b, n, data) /\ c = CmdOf(x) /\ s = Start(i, x)
                           /\ m = Len(c)
  OBVIOUS
<1>2. m \in { 3, 5 } /\ JobAccesses(full, s, c, m, AddrOf(b, i, x), ValOf(data, i, x))
  BY <1>1, WriteTodo
<1>3. PICK q \in 0..m : todo = Rest(full, s + q)
  BY <1>1 DEF Sending
<1>4. q \in 0..(m + 1)
  BY <1>2
<1>5. todo # << >> /\ todo \in Seq(Access)
  BY <1>2, <1>3, <1>4 DEF JobAccesses
<1>6. CASE q = m
  <2>1. todo[1] = << "write", AddrOf(b, i, x), ValOf(data, i, x) >>
    BY <1>2, <1>3, <1>6 DEF JobAccesses
  <2>. QED
    BY <1>5, <2>1
<1>7. CASE q # m
  <2>1. q \in 0..(m - 1)
    BY <1>2, <1>7
  <2>2. todo[1] = << "write", c[q + 1][1], c[q + 1][2] >>
    BY <1>2, <1>3, <2>1 DEF JobAccesses
  <2>. QED
    BY <1>5, <2>2
<1>. QED
  BY <1>6, <1>7

\* The wait for a job that is done comes to the next one, or to the end of the call.
LEMMA JobEnds ==
    ASSUME NEW b, NEW n, NEW data, NEW before, WriteArgs(b, n, data, before),
           NEW i \in 1..n, NEW x \in 0..sector_size,
           chip'.work = NoWork, chip'.seq = << >>, chip'.mode = "read", byte0' = NoByte,
           todo' = Rest(cfi_write_block(b, n, data), Start(i, x) + (Len(CmdOf(x)) + 2)),
           AfterJob(b, data, before, i, x), flash' = flash
    PROVE  WriteAt(b, n, data, before)'
<1>1. PICK full, c, s, m : /\ full = cfi_write_block(b, n, data) /\ c = CmdOf(x) /\ s = Start(i, x)
                           /\ m = Len(c)
  OBVIOUS
<1>2. /\ x < sector_size => s + (m + 2) = Start(i, x + 1)
      /\ x = sector_size => s + (m + 2) = Start(i + 1, 0)
      /\ Rest(full, Start(n + 1, 0)) = << >>
  BY <1>1, WriteTodo
<1>3. sector_size \in Nat \ {0} /\ n \in Nat \ {0}
  BY FlashSizes DEF WriteArgs
<1>4. ASSUME NEW j \in 1..n, NEW y \in 0..sector_size, BeforeJob(b, data, before, j, y),
             todo' = Rest(full, Start(j, y))
      PROVE  WriteAt(b, n, data, before)'
  <2>1. PICK d : d = CmdOf(y)
    OBVIOUS
  <2>2. d \in Seq(Command) /\ 0 \in 0..Len(d) /\ Start(j, y) \in Nat
    <3>1. d \in Seq(Command) /\ Start(j, y) \in Nat
      BY <2>1, WriteTodo
    <3>. QED
      BY <3>1, LenProperties
  <2>3. Begun(d, 0) = << >>
    BY <2>2, BegunOf
  <2>4. BeforeJob(b, data, before, j, y)'
    BY <1>4 DEF BeforeJob, Mixed
  <2>5. Start(j, y) + 0 = Start(j, y)
    BY <2>2
  <2>6. todo' = Rest(full, Start(j, y) + 0) /\ chip'.seq = Begun(d, 0)
    BY <1>4, <2>3, <2>5
  <2>7. Sending(b, n, data, before, j, y)'
    BY <1>1, <2>1, <2>2, <2>4, <2>6 DEF Sending
  <2>. QED
    BY <2>7 DEF WriteAt
<1>5. CASE x < sector_size
  <2>1. x + 1 \in 0..sector_size
    BY <1>3, <1>5
  <2>2. BeforeJob(b, data, before, i, x + 1)
    BY <1>5, JobAfterJob
  <2>. QED
    BY <1>1, <1>2, <1>4, <1>5, <2>1, <2>2
<1>6. CASE x = sector_size /\ i # n
  <2>1. i + 1 \in 1..n /\ 0 \in 0..sector_size
    BY <1>3, <1>6
  <2>2. BeforeJob(b, data, before, i + 1, 0)
    BY <1>6, JobAfterJob
  <2>. QED
    BY <1>1, <1>2, <1>4, <1>6, <2>1, <2>2
<1>7. CASE x = sector_size /\ i = n
  <2>1. Mixed(b, data, before, (b + n) * sector_size, (b + n) * sector_size)
    BY <1>7, JobAfterJob
  <2>2. Mixed(b, data, before, (b + n) * sector_size, (b + n) * sector_size)'
    BY <2>1 DEF Mixed
  <2>3. todo' = << >>
    BY <1>1, <1>2, <1>7
  <2>4. WriteDone(b, n, data, before)'
    BY <2>2, <2>3 DEF WriteDone, Calm
  <2>. QED
    BY <2>4 DEF WriteAt
<1>. QED
  BY <1>3, <1>5, <1>6, <1>7

\* Two reads differ while the chip works; when it does no more, the wait ends sooner or
\* later and not before.
LEMMA WaitStep ==
    ASSUME NEW b, NEW n, NEW data, NEW before, WriteArgs(b, n, data, before),
           request = WriteRequest(b, n, data, before), CfiShape, chip.mode = "read",
           NEW i \in 1..n, NEW x \in 0..sector_size, Waiting(b, n, data, before, i, x), ToggleWait
    PROVE  CfiInv'
<1>1. /\ chip' = ChipToggles /\ flash' = flash /\ request' = request /\ mtd' = mtd
      /\ byte0 = NoByte => byte0' = ChipRead(todo[1][2]) /\ todo' = todo
      /\ byte0 # NoByte =>
            /\ byte0' = NoByte
            /\ todo' = IF byte0 \div 2 = ChipRead(todo[1][2]) \div 2 THEN Tail(todo) ELSE todo
  BY DEF ToggleWait
<1>2. PICK a \in Address : a = AddrOf(b, i, x) /\ todo[1][2] = a
  BY WaitingTodo
<1>3. ChipShape /\ flash \in [ Address -> FlashByte ] /\ chip.seq = << >>
  BY DEF CfiShape, Waiting
<1>4. todo = Rest(cfi_write_block(b, n, data), Start(i, x) + (Len(CmdOf(x)) + 1))
  BY DEF Waiting
<1>5. CASE Working(b, data, before, i, x)
  <2>1. chip.work # NoWork /\ chip.work = WorkOf(CmdOf(x), AddrOf(b, i, x), ValOf(data, i, x))
    BY <1>5, WorkIs DEF Working
  <2>2. PICK t \in { 0, 1 } : t = chip.toggle
    BY <1>3 DEF ChipShape
  <2>3. ChipRead(a) = 2 * t /\ chip' = [chip EXCEPT !.toggle = 1 - @]
    BY <1>1, <2>1, <2>2 DEF ChipRead, ChipToggles
  <2>4. /\ ChipShape' /\ chip'.seq = << >> /\ chip'.mode = "read" /\ chip'.work = chip.work
        /\ chip'.toggle = 1 - t
    BY <1>3, <2>2, <2>3, ChipFields
  <2>5. todo' = todo /\ (byte0' = NoByte \/ byte0' = 2 * (1 - chip'.toggle))
    <3>1. CASE byte0 = NoByte
      <4>1. 2 * t = 2 * (1 - (1 - t))
        BY <2>2
      <4>. QED
        BY <1>1, <1>2, <2>3, <2>4, <3>1, <4>1
    <3>2. CASE byte0 # NoByte
      <4>1. byte0 = 2 * (1 - t)
        BY <1>5, <2>2, <3>2 DEF Working
      <4>2. byte0 \div 2 # (2 * t) \div 2
        <5>1. CASE t = 0
          BY <4>1, <5>1
        <5>2. CASE t = 1
          BY <4>1, <5>2
        <5>. QED
          BY <2>2, <5>1, <5>2
      <4>. QED
        BY <1>1, <1>2, <2>3, <3>2, <4>2
    <3>. QED
      BY <3>1, <3>2
  <2>6. BeforeJob(b, data, before, i, x)'
    BY <1>1, <1>5 DEF Working, BeforeJob, Mixed
  <2>7. Working(b, data, before, i, x)'
    BY <2>1, <2>4, <2>5, <2>6 DEF Working
  <2>8. Waiting(b, n, data, before, i, x)'
    BY <1>4, <2>4, <2>5, <2>7 DEF Waiting
  <2>9. WriteAt(b, n, data, before)'
    BY <2>8 DEF WriteAt
  <2>. QED
    BY <1>1, <1>3, <2>4, <2>9, WriteGoesOn
<1>6. CASE WorkedAt(b, data, before, i, x)
  <2>1. chip.work = NoWork /\ byte0 \in FlashByte \cup { NoByte } /\ AfterJob(b, data, before, i, x)
    BY <1>6 DEF WorkedAt
  <2>2. ChipRead(a) = flash[a] /\ flash[a] \in FlashByte /\ chip' = chip
    BY <1>1, <1>3, <2>1 DEF ChipRead, ChipToggles
  <2>3. ChipShape' /\ chip'.seq = << >> /\ chip'.mode = "read" /\ chip'.work = NoWork
    BY <1>3, <2>1, <2>2 DEF ChipShape
  <2>4. AfterJob(b, data, before, i, x)'
    BY <1>1, <2>1 DEF AfterJob, Mixed
  <2>5. byte0' \in FlashByte \cup { NoByte }
    BY <1>1, <1>2, <2>2
  <2>6. CASE todo' = todo
    <3>1. Waiting(b, n, data, before, i, x)'
      BY <1>4, <2>3, <2>4, <2>5, <2>6 DEF Waiting, WorkedAt
    <3>2. WriteAt(b, n, data, before)'
      BY <3>1 DEF WriteAt
    <3>. QED
      BY <1>1, <1>3, <2>3, <3>2, WriteGoesOn
  <2>7. CASE todo' = Tail(todo) /\ byte0' = NoByte
    <3>1. todo' = Rest(cfi_write_block(b, n, data), Start(i, x) + (Len(CmdOf(x)) + 2))
      BY <2>7, WaitingTodo
    <3>2. WriteAt(b, n, data, before)'
      BY <1>1, <2>1, <2>3, <2>7, <3>1, JobEnds
    <3>. QED
      BY <1>1, <1>3, <2>3, <3>2, WriteGoesOn
  <2>. QED
    BY <1>1, <2>6, <2>7
<1>. QED
  BY <1>5, <1>6 DEF Waiting

\* The chip is done with the job.
LEMMA DoneStep ==
    ASSUME NEW b, NEW n, NEW data, NEW before, WriteArgs(b, n, data, before),
           request = WriteRequest(b, n, data, before), CfiShape, chip.mode = "read",
           NEW i \in 1..n, NEW x \in 0..sector_size, Waiting(b, n, data, before, i, x), ChipDone
    PROVE  CfiInv'
<1>1. /\ chip.work # NoWork /\ chip' = [chip EXCEPT !.work = NoWork]
      /\ flash' = IF chip.work.op = "program"
                  THEN [flash EXCEPT ![chip.work.addr] = BitAnd(@, chip.work.byte)]
                  ELSE [ a \in Address |-> IF BlockOf(a) = BlockOf(chip.work.addr)
                                           THEN Erased ELSE flash[a] ]
      /\ todo' = todo /\ request' = request /\ byte0' = byte0 /\ mtd' = mtd
  BY DEF ChipDone
<1>2. Working(b, data, before, i, x)
  BY <1>1 DEF Waiting, WorkedAt
<1>3. ChipShape /\ flash \in [ Address -> FlashByte ] /\ chip.seq = << >>
  BY DEF CfiShape, Waiting
<1>4. PICK a \in Address, v \in Int, c \in { CmdOf(x) } :
        a = AddrOf(b, i, x) /\ v = ValOf(data, i, x) /\ c = CmdOf(x)
  BY JobTypes DEF WriteArgs
<1>5. chip.work.op = KindOf(c) /\ chip.work.addr = a /\ chip.work.byte = v
  BY <1>2, <1>4, WorkIs DEF Working
<1>6. ChipShape' /\ chip'.seq = << >> /\ chip'.mode = "read" /\ chip'.work = NoWork
  BY <1>1, <1>3, ChipFields
<1>7. AfterJob(b, data, before, i, x)' /\ flash' \in [ Address -> FlashByte ]
  <2>1. CASE x = 0
    <3>1. KindOf(c) = "erase"
      BY <1>4, <2>1, ThirdWrites DEF CmdOf, KindOf
    <3>2. flash' = [ y \in Address |-> IF BlockOf(y) = BlockOf(AddrOf(b, i, 0)) THEN Erased ELSE flash[y] ]
      BY <1>1, <1>4, <1>5, <2>1, <3>1
    <3>3. BeforeJob(b, data, before, i, 0)
      BY <1>2, <2>1 DEF Working
    <3>4. AfterJob(b, data, before, i, 0)'
      BY <3>2, <3>3, EraseDoes
    <3>5. flash' \in [ Address -> FlashByte ]
      BY <1>3, <3>2 DEF Erased, FlashByte
    <3>. QED
      BY <2>1, <3>4, <3>5
  <2>2. CASE x # 0
    <3>1. KindOf(c) = "program" /\ x \in 1..sector_size
      BY <1>4, <2>2, FlashSizes DEF CmdOf, KindOf
    <3>2. flash' = [flash EXCEPT ![AddrOf(b, i, x)] = BitAnd(@, ValOf(data, i, x))]
      BY <1>1, <1>4, <1>5, <3>1
    <3>3. BeforeJob(b, data, before, i, x)
      BY <1>2 DEF Working
    <3>4. AfterJob(b, data, before, i, x)'
      BY <3>1, <3>2, <3>3, ProgramDoes
    <3>5. flash' \in [ Address -> FlashByte ]
      <4>2. v \in FlashByte
        BY <1>4, <2>2, JobTypes DEF WriteArgs
      <4>3. BitAnd(flash[a], v) \in FlashByte
        BY <1>3, <4>2, BitAndByte
      <4>. QED
        BY <1>3, <1>4, <3>2, <4>3
    <3>. QED
      BY <3>4, <3>5
  <2>. QED
    BY <2>1, <2>2
<1>8. byte0 \in FlashByte \cup { NoByte }
  BY <1>2, <1>3 DEF Working, ChipShape, FlashByte
<1>9. Waiting(b, n, data, before, i, x)'
  <2>1. todo = Rest(cfi_write_block(b, n, data), Start(i, x) + (Len(CmdOf(x)) + 1))
    BY DEF Waiting
  <2>. QED
    BY <1>1, <1>6, <1>7, <1>8, <2>1 DEF Waiting, WorkedAt
<1>10. WriteAt(b, n, data, before)'
  BY <1>9 DEF WriteAt
<1>. QED
  BY <1>1, <1>6, <1>7, <1>10, WriteGoesOn

-----------------------------------------------------------------------------
(* The flash: the probe and the calls that read.                           *)

\* A function on the first naturals is a sequence.
LEMMA FunctionIsSeq ==
    ASSUME NEW T, NEW n \in Nat, NEW f, f \in [ 1..n -> T ]
    PROVE  f \in Seq(T) /\ Len(f) = n
  OBVIOUS

\* The writes of the two commands of the probe.
LEMMA UnlockedWrites ==
    ASSUME NEW v \in Int, NEW w, w = Writes(Append(Unlocks, << Reg0, v >>))
    PROVE  /\ w \in Seq(Access) /\ Len(w) = 3
           /\ w[1] = << "write", Reg0, 170 >> /\ w[2] = << "write", Reg1, 85 >>
           /\ w[3] = << "write", Reg0, v >>
<1>1. PICK c1 \in Command, c2 \in Command, c3 \in Command :
        c1 = << Reg0, 170 >> /\ c2 = << Reg1, 85 >> /\ c3 = << Reg0, v >>
  <2>1. << Reg0, 170 >> \in Command /\ << Reg1, 85 >> \in Command /\ << Reg0, v >> \in Command
    BY FlashSizes DEF Command
  <2>. QED
    BY <2>1, Zenon
<1>2. PICK u : u = Unlocks /\ u = << c1, c2 >>
  BY <1>1 DEF Unlocks
<1>3. u \in Seq(Command) /\ Len(u) = 2 /\ u[1] = c1 /\ u[2] = c2
  BY <1>2
<1>4. PICK s : s = Append(u, c3)
  OBVIOUS
<1>5. PICK m : m = Len(u)
  OBVIOUS
<1>6. /\ s \in Seq(Command) /\ Len(s) = m + 1 /\ s[m + 1] = c3 /\ \A k \in 1..m : s[k] = u[k]
  <2>1. u \in Seq(Command)
    BY <1>3
  <2>2. /\ Append(u, c3) \in Seq(Command) /\ Len(Append(u, c3)) = Len(u) + 1
        /\ Append(u, c3)[Len(u) + 1] = c3 /\ \A k \in 1..Len(u) : Append(u, c3)[k] = u[k]
    BY <2>1, AppendProperties
  <2>. QED
    BY <1>4, <1>5, <2>2
<1>7. Len(s) = 3 /\ s[1] = c1 /\ s[2] = c2 /\ s[3] = c3
  BY <1>3, <1>5, <1>6
<1>8. w = [ k \in 1..3 |-> << "write", s[k][1], s[k][2] >> ]
  BY <1>1, <1>2, <1>4, <1>7 DEF Writes
<1>9. w[1] = << "write", c1[1], c1[2] >> /\ w[2] = << "write", c2[1], c2[2] >>
      /\ w[3] = << "write", c3[1], c3[2] >>
  BY <1>7, <1>8
<1>10. \A k \in 1..3 : << "write", s[k][1], s[k][2] >> \in Access
  <2>1. \A k \in 1..3 : s[k] \in Command
    BY <1>6, <1>7, ElementOfSeq
  <2>. QED
    BY <2>1 DEF Command, Access
<1>11. w \in [ 1..3 -> Access ]
  BY <1>8, <1>10
<1>12. w \in Seq(Access) /\ Len(w) = 3
  <2>1. PICK l \in Nat, y \in { w } : y = w /\ l = 3 /\ y \in [ 1..l -> Access ]
    BY <1>11
  <2>2. y \in Seq(Access) /\ Len(y) = l
    BY <2>1, FunctionIsSeq
  <2>. QED
    BY <2>1, <2>2
<1>13. /\ c1[1] = Reg0 /\ c1[2] = 170 /\ c2[1] = Reg1 /\ c2[2] = 85 /\ c3[1] = Reg0 /\ c3[2] = v
  BY <1>1
<1>. QED
  BY <1>9, <1>12, <1>13

\* The accesses of the probe.
LEMMA IdentityList ==
    ASSUME NEW id, id = cfi_identity
    PROVE  /\ id \in Seq(Access) /\ Len(id) = 8
           /\ id[1] = << "write", Reg0, 170 >> /\ id[2] = << "write", Reg1, 85 >>
           /\ id[3] = << "write", Reg0, 144 >> /\ id[4] = << "read", 0 >> /\ id[5] = << "read", 1 >>
           /\ id[6] = << "write", Reg0, 170 >> /\ id[7] = << "write", Reg1, 85 >>
           /\ id[8] = << "write", Reg0, 240 >>
<1>1. PICK v1 \in Int, v2 \in Int : v1 = 144 /\ v2 = 240
  OBVIOUS
<1>2. PICK x, y, r : /\ x = Writes(Append(Unlocks, << Reg0, v1 >>))
                     /\ y = Writes(Append(Unlocks, << Reg0, v2 >>))
                     /\ r = << << "read", 0 >>, << "read", 1 >> >>
  OBVIOUS
<1>3. id = (x \o r) \o y
  BY <1>1, <1>2 DEF cfi_identity, CMD_SOFT_ID_ENTRY, CMD_SOFT_ID_EXIT
<1>4. /\ x \in Seq(Access) /\ Len(x) = 3
      /\ x[1] = << "write", Reg0, 170 >> /\ x[2] = << "write", Reg1, 85 >>
      /\ x[3] = << "write", Reg0, v1 >>
  BY <1>2, UnlockedWrites
<1>5. /\ y \in Seq(Access) /\ Len(y) = 3
      /\ y[1] = << "write", Reg0, 170 >> /\ y[2] = << "write", Reg1, 85 >>
      /\ y[3] = << "write", Reg0, v2 >>
  BY <1>2, UnlockedWrites
<1>6. r \in Seq(Access) /\ Len(r) = 2 /\ r[1] = << "read", 0 >> /\ r[2] = << "read", 1 >>
  <2>1. PICK r1 \in Access, r2 \in Access : r1 = << "read", 0 >> /\ r2 = << "read", 1 >>
    BY FlashSizes DEF Access
  <2>2. r = << r1, r2 >>
    BY <1>2, <2>1
  <2>3. r \in Seq(Access) /\ Len(r) = 2 /\ r[1] = r1 /\ r[2] = r2
    BY <2>2
  <2>. QED
    BY <2>1, <2>3
<1>7. PICK l, m, n : l = Len(x) /\ m = Len(r) /\ n = Len(y)
  OBVIOUS
<1>8. PICK z : z = x \o r
  OBVIOUS
<1>9. /\ z \in Seq(Access) /\ Len(z) = l + m
      /\ \A k \in 1..l : z[k] = x[k]
      /\ \A k \in 1..m : z[l + k] = r[k]
  <2>1. x \in Seq(Access) /\ r \in Seq(Access) /\ Len(x) = l /\ Len(r) = m
    BY <1>4, <1>6, <1>7
  <2>. QED
    BY <1>8, <2>1, ConcatAt
<1>10. l = 3 /\ m = 2 /\ n = 3
  BY <1>4, <1>5, <1>6, <1>7
<1>11. /\ z \in Seq(Access) /\ Len(z) = 5
       /\ z[1] = x[1] /\ z[2] = x[2] /\ z[3] = x[3] /\ z[4] = r[1] /\ z[5] = r[2]
  <2>1. 1 \in 1..l /\ 2 \in 1..l /\ 3 \in 1..l /\ 1 \in 1..m /\ 2 \in 1..m /\ l + 1 = 4 /\ l + 2 = 5
    BY <1>10
  <2>. QED
    BY <1>9, <1>10, <2>1
<1>12. PICK j : j = Len(z)
  OBVIOUS
<1>13. /\ id \in Seq(Access) /\ Len(id) = j + n
       /\ \A k \in 1..j : id[k] = z[k]
       /\ \A k \in 1..n : id[j + k] = y[k]
  <2>1. z \in Seq(Access) /\ y \in Seq(Access) /\ Len(z) = j /\ Len(y) = n /\ id = z \o y
    BY <1>3, <1>5, <1>7, <1>8, <1>11, <1>12
  <2>. QED
    BY <2>1, ConcatAt
<1>14. j = 5
  BY <1>11, <1>12
<1>15. /\ Len(id) = 8 /\ id[1] = z[1] /\ id[2] = z[2] /\ id[3] = z[3] /\ id[4] = z[4] /\ id[5] = z[5]
       /\ id[6] = y[1] /\ id[7] = y[2] /\ id[8] = y[3]
  <2>1. /\ 1 \in 1..j /\ 2 \in 1..j /\ 3 \in 1..j /\ 4 \in 1..j /\ 5 \in 1..j
        /\ 1 \in 1..n /\ 2 \in 1..n /\ 3 \in 1..n /\ j + 1 = 6 /\ j + 2 = 7 /\ j + 3 = 8
    BY <1>10, <1>14
  <2>. QED
    BY <1>10, <1>13, <1>14, <2>1
<1>16. id[1] = x[1] /\ id[2] = x[2] /\ id[3] = x[3] /\ id[4] = r[1] /\ id[5] = r[2]
  BY <1>11, <1>15
<1>17. id \in Seq(Access)
  BY <1>13
<1>18. /\ id[1] = << "write", Reg0, 170 >> /\ id[2] = << "write", Reg1, 85 >>
       /\ id[3] = << "write", Reg0, 144 >>
  BY <1>1, <1>4, <1>16
<1>19. id[4] = << "read", 0 >> /\ id[5] = << "read", 1 >>
  BY <1>6, <1>16
<1>20. /\ id[6] = << "write", Reg0, 170 >> /\ id[7] = << "write", Reg1, 85 >>
       /\ id[8] = << "write", Reg0, 240 >>
  BY <1>1, <1>5, <1>15
<1>. QED
  BY <1>15, <1>17, <1>18, <1>19, <1>20

\* The state of a probe after k accesses.
ProbeAt(k) ==
    /\ chip.work = NoWork /\ byte0 = NoByte
    /\ todo = Rest(cfi_identity, k)
    /\ chip.mode = (IF k \in 3..7 THEN "id" ELSE "read")
    /\ chip.seq = Begun(ProgramCommand, UnlocksSent(k))

\* A probe goes on.
LEMMA ProbeGoesOn ==
    ASSUME CfiShape, request = [ op |-> "probe" ], request' = request, mtd' = mtd, flash' = flash,
           ChipShape', NEW k \in 0..8, ProbeAt(k)'
    PROVE  CfiInv'
<1>1. CfiShape'
  BY DEF CfiShape
<1>2. InProbe'
  BY DEF InProbe, ProbeAt
<1>. QED
  BY <1>1, <1>2 DEF CfiInv

\* What a probe has to do next.
LEMMA ProbeTodo ==
    ASSUME NEW k \in 0..8, todo = Rest(cfi_identity, k)
    PROVE  /\ todo \in Seq(Access) /\ (todo = << >> <=> k = 8)
           /\ k # 8 => Tail(todo) = Rest(cfi_identity, k + 1) /\ todo[1] = cfi_identity[k + 1]
<1>1. PICK id : id = cfi_identity
  OBVIOUS
<1>2. id \in Seq(Access) /\ Len(id) = 8
  BY <1>1, IdentityList
<1>3. k \in 0..Len(id)
  BY <1>2
<1>4. /\ Rest(id, k) \in Seq(Access) /\ (Rest(id, k) = << >> <=> k = Len(id))
      /\ k < Len(id) => Rest(id, k)[1] = id[k + 1] /\ Tail(Rest(id, k)) = Rest(id, k + 1)
  BY <1>2, <1>3, RestOf
<1>. QED
  BY <1>1, <1>2, <1>4

\* The two writes that unlock the chip, and the one that follows them.
LEMMA ProbeWrite ==
    ASSUME CfiShape, chip.work = NoWork, NEW p \in { 0, 1, 2 }, chip.seq = Begun(ProgramCommand, p)
    PROVE  /\ p = 0 => ChipWrite(Reg0, 170) = [chip EXCEPT !.seq = Begun(ProgramCommand, 1)]
           /\ p = 1 => ChipWrite(Reg1, 85) = [chip EXCEPT !.seq = Begun(ProgramCommand, 2)]
           /\ p = 2 => /\ ChipWrite(Reg0, 144) =
                             [chip EXCEPT !.seq = Begun(ProgramCommand, 0), !.mode = "id"]
                       /\ ChipWrite(Reg0, 240) =
                             [chip EXCEPT !.seq = Begun(ProgramCommand, 0), !.mode = "read"]
<1>1. PICK c : c = ProgramCommand /\ c \in { EraseCommand, ProgramCommand }
  OBVIOUS
<1>2. /\ c \in Seq(Command) /\ Len(c) = 3 /\ c[1] = << Reg0, 170 >> /\ c[2] = << Reg1, 85 >>
      /\ ChipShape
  BY <1>1, Commands DEF CfiShape
<1>3. ASSUME p # 2
      PROVE  ChipWrite(c[p + 1][1], c[p + 1][2]) = [chip EXCEPT !.seq = Begun(c, p + 1)]
  <2>1. p \in 0..(Len(c) - 1)
    BY <1>2, <1>3
  <2>. QED
    BY <1>1, <1>2, <2>1, ChipGoesOn
<1>4. ASSUME p = 0 PROVE ChipWrite(Reg0, 170) = [chip EXCEPT !.seq = Begun(ProgramCommand, 1)]
  <2>1. p + 1 = 1 /\ c[p + 1][1] = Reg0 /\ c[p + 1][2] = 170 /\ p # 2
    BY <1>2, <1>4
  <2>2. ChipWrite(c[p + 1][1], c[p + 1][2]) = [chip EXCEPT !.seq = Begun(c, p + 1)]
    BY <1>3, <2>1
  <2>. QED
    BY <1>1, <2>1, <2>2
<1>5. ASSUME p = 1 PROVE ChipWrite(Reg1, 85) = [chip EXCEPT !.seq = Begun(ProgramCommand, 2)]
  <2>1. p + 1 = 2 /\ c[p + 1][1] = Reg1 /\ c[p + 1][2] = 85 /\ p # 2
    BY <1>2, <1>5
  <2>2. ChipWrite(c[p + 1][1], c[p + 1][2]) = [chip EXCEPT !.seq = Begun(c, p + 1)]
    BY <1>3, <2>1
  <2>. QED
    BY <1>1, <2>1, <2>2
<1>6. ASSUME p = 2
      PROVE  /\ ChipWrite(Reg0, 144) = [chip EXCEPT !.seq = Begun(ProgramCommand, 0), !.mode = "id"]
             /\ ChipWrite(Reg0, 240) = [chip EXCEPT !.seq = Begun(ProgramCommand, 0), !.mode = "read"]
  <2>1. chip.seq = Begun(ProgramCommand, 2)
    BY <1>6
  <2>2. Begun(ProgramCommand, 0) = << >>
    <3>1. 0 \in 0..Len(c)
      BY <1>2
    <3>. QED
      BY <1>1, <1>2, <3>1, BegunOf
  <2>. QED
    BY <1>2, <2>1, <2>2, ChipChangesMode
<1>. QED
  BY <1>4, <1>5, <1>6

\* A step of the probe.
LEMMA ProbeStep ==
    ASSUME CfiShape, request = [ op |-> "probe" ], NEW k \in 0..8, ProbeAt(k), BusWrite \/ BusRead
    PROVE  CfiInv'
<1>1. /\ todo # << >> /\ todo' = Tail(todo) /\ flash' = flash /\ request' = request
      /\ byte0' = byte0 /\ mtd' = mtd
      /\ todo[1][1] = "write" => chip' = ChipWrite(todo[1][2], todo[1][3])
      /\ todo[1][1] = "read" => chip' = ChipToggles
  BY DEF BusWrite, BusRead
<1>2. /\ chip.work = NoWork /\ byte0 = NoByte /\ todo = Rest(cfi_identity, k)
      /\ chip.mode = (IF k \in 3..7 THEN "id" ELSE "read")
      /\ chip.seq = Begun(ProgramCommand, UnlocksSent(k)) /\ ChipShape
  BY DEF ProbeAt, CfiShape
<1>3. k # 8 /\ todo' = Rest(cfi_identity, k + 1) /\ todo[1] = cfi_identity[k + 1]
  BY <1>1, <1>2, ProbeTodo
<1>4. k + 1 \in 0..8 /\ k \in { 0, 1, 2, 3, 4, 5, 6, 7 }
  BY <1>3
<1>5. ASSUME ChipShape', chip'.work = NoWork, chip'.seq = Begun(ProgramCommand, UnlocksSent(k + 1)),
             chip'.mode = (IF k + 1 \in 3..7 THEN "id" ELSE "read")
      PROVE  CfiInv'
  <2>1. ProbeAt(k + 1)'
    BY <1>1, <1>2, <1>3, <1>5 DEF ProbeAt
  <2>. QED
    BY <1>1, <1>4, <1>5, <2>1, ProbeGoesOn
<1>6. CASE k \in { 0, 5 }
  <2>1. UnlocksSent(k) = 0 /\ UnlocksSent(k + 1) = 1
    BY <1>6 DEF UnlocksSent
  <2>2. todo[1] = << "write", Reg0, 170 >>
    BY <1>3, <1>6, IdentityList, SMTT(30)
  <2>3. chip' = [chip EXCEPT !.seq = Begun(ProgramCommand, 1)]
    BY <1>1, <1>2, <2>1, <2>2, ProbeWrite
  <2>4. ChipShape' /\ chip'.seq = Begun(ProgramCommand, 1) /\ chip'.mode = chip.mode /\ chip'.work = NoWork
    BY <1>2, <2>3, ChipFields
  <2>5. k \in 3..7 <=> k + 1 \in 3..7
    BY <1>6
  <2>. QED
    BY <1>2, <1>5, <2>1, <2>4, <2>5
<1>7. CASE k \in { 1, 6 }
  <2>1. UnlocksSent(k) = 1 /\ UnlocksSent(k + 1) = 2
    BY <1>7 DEF UnlocksSent
  <2>2. todo[1] = << "write", Reg1, 85 >>
    BY <1>3, <1>7, IdentityList, SMTT(30)
  <2>3. chip' = [chip EXCEPT !.seq = Begun(ProgramCommand, 2)]
    BY <1>1, <1>2, <2>1, <2>2, ProbeWrite
  <2>4. ChipShape' /\ chip'.seq = Begun(ProgramCommand, 2) /\ chip'.mode = chip.mode /\ chip'.work = NoWork
    BY <1>2, <2>3, ChipFields
  <2>5. k \in 3..7 <=> k + 1 \in 3..7
    BY <1>7
  <2>. QED
    BY <1>2, <1>5, <2>1, <2>4, <2>5
<1>8. CASE k = 2
  <2>1. UnlocksSent(k) = 2 /\ UnlocksSent(k + 1) = 0
    BY <1>8 DEF UnlocksSent
  <2>2. todo[1] = << "write", Reg0, 144 >>
    BY <1>3, <1>8, IdentityList
  <2>3. chip' = [chip EXCEPT !.seq = Begun(ProgramCommand, 0), !.mode = "id"]
    BY <1>1, <1>2, <2>1, <2>2, ProbeWrite
  <2>4. ChipShape' /\ chip'.seq = Begun(ProgramCommand, 0) /\ chip'.mode = "id" /\ chip'.work = NoWork
    BY <1>2, <2>3, ChipFields
  <2>5. k + 1 \in 3..7
    BY <1>8
  <2>. QED
    BY <1>5, <2>1, <2>4, <2>5
<1>9. CASE k = 7
  <2>1. UnlocksSent(k) = 2 /\ UnlocksSent(k + 1) = 0
    BY <1>9 DEF UnlocksSent
  <2>2. todo[1] = << "write", Reg0, 240 >>
    BY <1>3, <1>9, IdentityList
  <2>3. chip' = [chip EXCEPT !.seq = Begun(ProgramCommand, 0), !.mode = "read"]
    BY <1>1, <1>2, <2>1, <2>2, ProbeWrite
  <2>4. ChipShape' /\ chip'.seq = Begun(ProgramCommand, 0) /\ chip'.mode = "read" /\ chip'.work = NoWork
    BY <1>2, <2>3, ChipFields
  <2>5. ~(k + 1 \in 3..7)
    BY <1>9
  <2>. QED
    BY <1>5, <2>1, <2>4, <2>5
<1>10. CASE k \in { 3, 4 }
  <2>1. UnlocksSent(k) = 0 /\ UnlocksSent(k + 1) = 0
    BY <1>10 DEF UnlocksSent
  <2>2. todo[1][1] = "read"
    <3>1. todo[1] = << "read", 0 >> \/ todo[1] = << "read", 1 >>
      BY <1>3, <1>10, IdentityList, SMTT(30)
    <3>. QED
      BY <3>1
  <2>3. chip' = chip
    BY <1>1, <1>2, <2>2 DEF ChipToggles
  <2>4. k \in 3..7 /\ k + 1 \in 3..7
    BY <1>10
  <2>5. ChipShape'
    BY <1>2, <2>3 DEF ChipShape
  <2>. QED
    BY <1>2, <1>5, <2>1, <2>3, <2>4, <2>5
<1>. QED
  BY <1>4, <1>6, <1>7, <1>8, <1>9, <1>10

\* What a call that reads has to do next.
LEMMA ReadTodo ==
    ASSUME NEW b \in Nat, NEW n \in Nat \ {0}, b + n <= sector_count,
           NEW k \in 0..(n * sector_size), ReadAt(b, n, k)
    PROVE  /\ todo \in Seq(Access) /\ (todo = << >> <=> k = n * sector_size)
           /\ k # n * sector_size =>
                 /\ k + 1 \in 0..(n * sector_size)
                 /\ Tail(todo) = Rest(cfi_read_block(b, n), k + 1)
                 /\ todo[1] = << "read", b * sector_size + (k + 1) - 1 >>
<1>1. PICK r, L : r = cfi_read_block(b, n) /\ L = n * sector_size
  OBVIOUS
<1>2. /\ r \in Seq(Access) /\ Len(r) = L
      /\ \A j \in 1..L : r[j] = << "read", b * sector_size + j - 1 >>
  BY <1>1, ReadList
<1>3. L \in Nat
  BY <1>1, FlashSizes
<1>4. k \in 0..Len(r) /\ todo = Rest(r, k)
  BY <1>1, <1>2 DEF ReadAt
<1>5. /\ todo \in Seq(Access) /\ (todo = << >> <=> k = L)
      /\ k < L => todo[1] = r[k + 1] /\ Tail(todo) = Rest(r, k + 1)
  BY <1>2, <1>4, RestOf
<1>6. k # L => k < L /\ k + 1 \in 1..L /\ k + 1 \in 0..L
  BY <1>2, <1>3, <1>4
<1>. QED
  BY <1>1, <1>2, <1>5, <1>6

\* A call that reads gets its next byte from the flash.
LEMMA ReadStep ==
    ASSUME CfiShape, Calm, NEW b \in Nat, NEW n \in Nat \ {0}, b + n <= sector_count,
           request = [ op |-> "read", block |-> b, count |-> n ],
           NEW k \in 0..(n * sector_size), ReadAt(b, n, k), BusRead
    PROVE  CfiInv'
<1>1. /\ todo # << >> /\ got' = Append(got, ChipRead(todo[1][2])) /\ chip' = ChipToggles
      /\ todo' = Tail(todo) /\ flash' = flash /\ request' = request /\ byte0' = byte0 /\ mtd' = mtd
  BY DEF BusRead
<1>2. chip.work = NoWork /\ chip.mode = "read"
  BY DEF Calm
<1>3. chip' = chip
  BY <1>1, <1>2 DEF ChipToggles
<1>4. PICK B \in Int, L \in Nat : B = b * sector_size /\ L = n * sector_size
  BY FlashSizes
<1>5. /\ k # L /\ k + 1 \in 0..L /\ k \in Nat
      /\ todo' = Rest(cfi_read_block(b, n), k + 1) /\ todo[1] = << "read", B + (k + 1) - 1 >>
  BY <1>1, <1>4, ReadTodo
<1>6. got' = Append(got, flash[B + (k + 1) - 1])
  <2>1. todo[1][2] = B + (k + 1) - 1
    BY <1>5
  <2>. QED
    BY <1>1, <1>2, <2>1 DEF ChipRead
<1>7. PICK f : f = [ x \in 1..(k + 1) |-> flash[B + x - 1] ]
  OBVIOUS
<1>8. got = [ x \in 1..k |-> flash[B + x - 1] ]
  BY <1>4 DEF ReadAt
<1>9. got' = f
  <2>1. got \in [ 1..k -> { flash[B + x - 1] : x \in 1..(k + 1) } ]
    BY <1>5, <1>8
  <2>2. PICK T \in { { flash[B + x - 1] : x \in 1..(k + 1) } } : T = { flash[B + x - 1] : x \in 1..(k + 1) }
    OBVIOUS
  <2>3. got \in Seq(T) /\ Len(got) = k
    BY <1>5, <2>1, <2>2, FunctionIsSeq
  <2>4. PICK y \in T : y = flash[B + (k + 1) - 1]
    BY <1>5, <2>2
  <2>5. /\ Append(got, y) \in Seq(T) /\ Len(Append(got, y)) = k + 1 /\ Append(got, y)[k + 1] = y
        /\ \A x \in 1..k : Append(got, y)[x] = got[x]
    BY <2>3, AppendProperties
  <2>6. got' \in Seq(T) /\ Len(got') = k + 1 /\ DOMAIN got' = 1..(k + 1) /\ got'[k + 1] = y
        /\ \A x \in 1..k : got'[x] = got[x]
    BY <1>6, <2>4, <2>5, LenProperties
  <2>7. \A x \in 1..(k + 1) : got'[x] = f[x]
    <3>1. \A x \in 1..(k + 1) : x \in 1..k \/ x = k + 1
      BY <1>5
    <3>. QED
      BY <1>7, <1>8, <2>4, <2>6, <3>1
  <2>8. f \in Seq(T) /\ Len(f) = k + 1
    <3>1. f \in [ 1..(k + 1) -> T ] /\ k + 1 \in Nat
      BY <1>5, <1>7, <2>2
    <3>. QED
      BY <3>1, FunctionIsSeq
  <2>. QED
    BY <2>6, <2>7, <2>8, SeqEqual
<1>10. ReadAt(b, n, k + 1)'
  BY <1>1, <1>4, <1>5, <1>7, <1>9 DEF ReadAt
<1>11. CfiShape' /\ Calm'
  BY <1>1, <1>3 DEF CfiShape, Calm, ChipShape
<1>12. InRead'
  BY <1>1, <1>4, <1>5, <1>10, <1>11 DEF InRead
<1>. QED
  BY <1>11, <1>12 DEF CfiInv

-----------------------------------------------------------------------------
(* The flash: the invariant is kept.                                       *)

\* Before the first access, all are left.
LEMMA RestOfAll ==
    ASSUME NEW T, NEW s \in Seq(T)
    PROVE  Rest(s, 0) = s
<1>1. PICK n \in Nat : n = Len(s)
  BY LenProperties
<1>2. 0 \in 0..Len(s)
  BY <1>1
<1>3. /\ Rest(s, 0) \in Seq(T) /\ Len(Rest(s, 0)) = Len(s) - 0
      /\ \A x \in 1..Len(Rest(s, 0)) : Rest(s, 0)[x] = s[0 + x]
  BY <1>2, RestOf
<1>4. Len(Rest(s, 0)) = n
  BY <1>1, <1>3
<1>5. \A x \in 1..n : Rest(s, 0)[x] = s[x]
  BY <1>3, <1>4
<1>. QED
  BY <1>1, <1>3, <1>4, <1>5, SeqEqual

\* The invariant by the call at hand.
LEMMA InvByCall ==
    ASSUME CfiInv
    PROVE  /\ request = NoRequest => InNone
           /\ request.op = "read" => InRead
           /\ request.op = "write" => InWrite
<1>1. InProbe => request.op = "probe"
  BY DEF InProbe
<1>2. InRead => request.op = "read"
  BY DEF InRead
<1>3. InWrite => request.op = "write"
  BY DEF InWrite, WriteRequest
<1>4. InNone => request.op = "none"
  BY DEF InNone, NoRequest
<1>5. NoRequest.op = "none"
  BY DEF NoRequest
<1>. QED
  BY <1>1, <1>2, <1>3, <1>4, <1>5 DEF CfiInv

\* No call is at hand any more.
LEMMA NoneAfter ==
    ASSUME CfiShape', request' = NoRequest, todo' = << >>, chip'.work = NoWork,
           chip'.seq = << >>, chip'.mode = "read", byte0' = NoByte
    PROVE  CfiInv'
<1>1. InNone'
  BY DEF InNone, Calm
<1>. QED
  BY <1>1 DEF CfiInv

\* The invariant holds at first.
LEMMA CfiBegins == CfiInit => CfiInv
<1>1. SUFFICES ASSUME CfiInit PROVE CfiInv
  OBVIOUS
<1>2. PICK id : chip = ChipReset(id)
  BY <1>1 DEF CfiInit
<1>3. /\ ChipShape /\ chip.work = NoWork /\ chip.seq = << >> /\ chip.mode = "read"
  BY <1>2 DEF ChipShape, ChipReset
<1>4. flash \in [ Address -> FlashByte ]
  BY <1>1 DEF CfiInit, Erased, FlashByte
<1>5. CfiShape
  BY <1>1, <1>3, <1>4 DEF CfiInit, CfiShape
<1>6. InNone
  BY <1>1, <1>3 DEF CfiInit, InNone, Calm
<1>. QED
  BY <1>5, <1>6 DEF CfiInv

\* A call begins.
LEMMA ProbeStarts ==
    ASSUME CfiInv, CfiProbe
    PROVE  CfiInv'
<1>1. /\ request = NoRequest /\ request' = [ op |-> "probe" ] /\ todo' = cfi_identity
      /\ flash' = flash /\ chip' = chip /\ byte0' = byte0 /\ mtd' = mtd
  BY DEF CfiProbe, StartRequest
<1>2. Calm /\ CfiShape
  BY <1>1, InvByCall DEF InNone, CfiInv
<1>3. CfiShape'
  BY <1>1, <1>2 DEF CfiShape, ChipShape
<1>4. todo' = Rest(cfi_identity, 0)
  <2>1. PICK id : id = cfi_identity
    OBVIOUS
  <2>2. Rest(id, 0) = id
    BY <2>1, IdentityList, RestOfAll
  <2>. QED
    BY <1>1, <2>1, <2>2
<1>5. Begun(ProgramCommand, UnlocksSent(0)) = << >>
  <2>1. PICK c : c = ProgramCommand
    OBVIOUS
  <2>2. c \in Seq(Command) /\ 0 \in 0..Len(c)
    BY <2>1, Commands
  <2>3. Begun(c, 0) = << >>
    BY <2>2, BegunOf
  <2>. QED
    BY <2>1, <2>3 DEF UnlocksSent
<1>6. PICK k \in 0..8 : k = 0
  OBVIOUS
<1>7. /\ chip'.work = NoWork /\ byte0' = NoByte /\ todo' = Rest(cfi_identity, k)
      /\ chip'.mode = (IF k \in 3..7 THEN "id" ELSE "read")
      /\ chip'.seq = Begun(ProgramCommand, UnlocksSent(k))
  BY <1>1, <1>2, <1>4, <1>5, <1>6 DEF Calm
<1>8. InProbe'
  BY <1>1, <1>7 DEF InProbe
<1>. QED
  BY <1>3, <1>8 DEF CfiInv

\* A call that reads begins.
LEMMA ReadStarts ==
    ASSUME CfiInv, NEW b \in Nat, NEW n \in Nat \ {0}, b + n <= sector_count, CfiRead(b, n)
    PROVE  CfiInv'
<1>1. /\ request = NoRequest /\ request' = [ op |-> "read", block |-> b, count |-> n ]
      /\ todo' = cfi_read_block(b, n) /\ got' = << >>
      /\ flash' = flash /\ chip' = chip /\ byte0' = byte0 /\ mtd' = mtd
  BY DEF CfiRead, StartRequest
<1>2. Calm /\ CfiShape
  BY <1>1, InvByCall DEF InNone, CfiInv
<1>3. CfiShape' /\ Calm'
  BY <1>1, <1>2 DEF CfiShape, ChipShape, Calm
<1>4. todo' = Rest(cfi_read_block(b, n), 0)
  <2>1. PICK r : r = cfi_read_block(b, n)
    OBVIOUS
  <2>2. r \in Seq(Access)
    BY <2>1, ReadList
  <2>3. Rest(r, 0) = r
    BY <2>2, RestOfAll
  <2>. QED
    BY <1>1, <2>1, <2>3
<1>5. PICK k \in 0..(n * sector_size) : k = 0
  <2>1. n * sector_size \in Nat
    BY FlashSizes
  <2>2. 0 \in 0..(n * sector_size)
    BY <2>1
  <2>. QED
    BY <2>2
<1>6. got' = [ x \in 1..k |-> flash'[b * sector_size + x - 1] ]
  <2>1. 1..k = {}
    BY <1>5
  <2>. QED
    BY <1>1, <2>1
<1>7. ReadAt(b, n, k)'
  BY <1>4, <1>5, <1>6 DEF ReadAt
<1>8. InRead'
  BY <1>1, <1>3, <1>5, <1>7 DEF InRead
<1>. QED
  BY <1>3, <1>8 DEF CfiInv

\* A call that writes begins: the flash is what it was before.
LEMMA WriteStarts ==
    ASSUME CfiInv, NEW b \in Nat, NEW n \in Nat \ {0}, b + n <= sector_count,
           NEW data \in FlashData, Len(data) = n * sector_size, CfiWrite(b, n, data)
    PROVE  CfiInv'
<1>1. /\ request = NoRequest /\ request' = WriteRequest(b, n, data, flash)
      /\ todo' = cfi_write_block(b, n, data)
      /\ flash' = flash /\ chip' = chip /\ byte0' = byte0 /\ mtd' = mtd
  BY DEF CfiWrite, StartRequest, WriteRequest
<1>2. Calm /\ CfiShape
  BY <1>1, InvByCall DEF InNone, CfiInv
<1>3. CfiShape' /\ Calm'
  BY <1>1, <1>2 DEF CfiShape, ChipShape, Calm
<1>4. PICK before : before = flash
  OBVIOUS
<1>5. WriteArgs(b, n, data, before)
  BY <1>2, <1>4, FlashSizes DEF WriteArgs, CfiShape
<1>6. PICK i \in 1..n, x \in 0..sector_size : i = 1 /\ x = 0
  <2>1. 1 \in 1..n /\ 0 \in 0..sector_size
    BY FlashSizes
  <2>. QED
    BY <2>1
<1>7. PICK full, c : full = cfi_write_block(b, n, data) /\ c = CmdOf(x)
  OBVIOUS
<1>8. full \in Seq(Access) /\ c \in Seq(Command) /\ Start(i, x) = 0
  <2>1. full \in Seq(Access) /\ c \in Seq(Command)
    BY <1>5, <1>7, WriteTodo
  <2>2. Start(1, 0) = 0
    BY <1>6, Starts
  <2>. QED
    BY <1>6, <2>1, <2>2
<1>9. todo' = Rest(full, Start(i, x) + 0)
  <2>1. Start(i, x) + 0 = 0
    BY <1>8
  <2>2. Rest(full, 0) = full
    BY <1>8, RestOfAll
  <2>. QED
    BY <1>1, <1>7, <2>1, <2>2
<1>10. 0 \in 0..Len(c) /\ Begun(c, 0) = << >>
  <2>1. 0 \in 0..Len(c)
    BY <1>8, LenProperties
  <2>. QED
    BY <1>8, <2>1, BegunOf
<1>11. BeforeJob(b, data, before, i, x)'
  <2>1. PICK B \in Nat : B = b * sector_size /\ BlockStart(b, 1) = B
    BY <1>5, <1>6, BlockStarts
  <2>2. B + 0 = B
    OBVIOUS
  <2>3. before = [ a \in Address |-> IF B <= a /\ a < B THEN data[a - B + 1]
                                     ELSE IF B <= a /\ a < B THEN Erased ELSE before[a] ]
    <3>1. before \in [ Address -> FlashByte ] /\ \A a \in Address : a \in Int
      BY <1>5, FlashSizes DEF WriteArgs
    <3>2. \A a \in Address : ~(B <= a /\ a < B)
      BY <3>1
    <3>. QED
      BY <3>1, <3>2
  <2>4. flash' = [ a \in Address |-> IF B <= a /\ a < B THEN data[a - B + 1]
                                     ELSE IF B <= a /\ a < B THEN Erased ELSE before[a] ]
    BY <1>1, <1>4, <2>3
  <2>5. Mixed(b, data, before, B, B)'
    BY <2>1, <2>4 DEF Mixed
  <2>. QED
    BY <1>6, <2>1, <2>2, <2>5 DEF BeforeJob
<1>12. Sending(b, n, data, before, i, x)'
  BY <1>3, <1>7, <1>9, <1>10, <1>11 DEF Sending, Calm
<1>13. WriteAt(b, n, data, before)'
  BY <1>12 DEF WriteAt
<1>14. InWrite'
  BY <1>1, <1>3, <1>4, <1>5, <1>13 DEF InWrite, Calm
<1>. QED
  BY <1>3, <1>14 DEF CfiInv

\* What the calls access next, and when they have no more to access.
LEMMA ProbeNext ==
    ASSUME CfiShape, InProbe
    PROVE  /\ \E k \in 0..8 : ProbeAt(k)
           /\ todo \in Seq(Access)
           /\ todo # << >> => todo[1][1] \in { "write", "read" }
           /\ todo = << >> => Calm
           /\ chip.work = NoWork /\ request = [ op |-> "probe" ] /\ byte0 = NoByte
<1>1. PICK k \in 0..8 : ProbeAt(k)
  BY DEF InProbe, ProbeAt
<1>2. /\ chip.work = NoWork /\ byte0 = NoByte /\ todo = Rest(cfi_identity, k)
      /\ chip.mode = (IF k \in 3..7 THEN "id" ELSE "read")
      /\ chip.seq = Begun(ProgramCommand, UnlocksSent(k)) /\ request = [ op |-> "probe" ]
  BY <1>1 DEF ProbeAt, InProbe
<1>3. /\ todo \in Seq(Access) /\ (todo = << >> <=> k = 8)
      /\ k # 8 => todo[1] = cfi_identity[k + 1]
  BY <1>2, ProbeTodo
<1>4. ASSUME todo # << >> PROVE todo[1][1] \in { "write", "read" }
  <2>1. 1 \in 1..Len(todo)
    BY <1>3, <1>4, EmptySeq, LenProperties
  <2>2. todo[1] \in Access
    BY <1>3, <2>1, ElementOfSeq
  <2>3. k \in { 0, 1, 2, 3, 4, 5, 6, 7 }
    BY <1>3, <1>4
  <2>4. PICK id : id = cfi_identity
    OBVIOUS
  <2>5. \A j \in 1..8 : id[j][1] \in { "write", "read" }
    <3>1. /\ id[1] = << "write", Reg0, 170 >> /\ id[2] = << "write", Reg1, 85 >>
          /\ id[3] = << "write", Reg0, 144 >> /\ id[4] = << "read", 0 >> /\ id[5] = << "read", 1 >>
          /\ id[6] = << "write", Reg0, 170 >> /\ id[7] = << "write", Reg1, 85 >>
          /\ id[8] = << "write", Reg0, 240 >>
      BY <2>4, IdentityList
    <3>2. /\ id[1][1] = "write" /\ id[2][1] = "write" /\ id[3][1] = "write"
          /\ id[4][1] = "read" /\ id[5][1] = "read"
          /\ id[6][1] = "write" /\ id[7][1] = "write" /\ id[8][1] = "write"
      BY <3>1
    <3>3. \A j \in 1..8 : j \in { 1, 2, 3, 4, 5, 6, 7, 8 }
      OBVIOUS
    <3>. QED
      BY <3>2, <3>3
  <2>6. k + 1 \in 1..8 /\ k # 8
    BY <2>3
  <2>. QED
    BY <1>3, <2>4, <2>5, <2>6
<1>5. ASSUME todo = << >> PROVE Calm
  <2>1. k = 8
    BY <1>3, <1>5
  <2>2. UnlocksSent(k) = 0 /\ ~(k \in 3..7)
    BY <2>1 DEF UnlocksSent
  <2>3. PICK c : c = ProgramCommand
    OBVIOUS
  <2>4. c \in Seq(Command) /\ 0 \in 0..Len(c)
    BY <2>3, Commands
  <2>5. Begun(c, 0) = << >>
    BY <2>4, BegunOf
  <2>. QED
    BY <1>2, <2>2, <2>3, <2>5 DEF Calm
<1>. QED
  BY <1>1, <1>2, <1>3, <1>4, <1>5

\* A call that reads has only reads to make, and is done when it has the last byte.
LEMMA ReadNext ==
    ASSUME InRead
    PROVE  /\ \E b \in Nat, n \in Nat \ {0} :
                 /\ b + n <= sector_count
                 /\ request = [ op |-> "read", block |-> b, count |-> n ]
                 /\ \E k \in 0..(n * sector_size) :
                       /\ ReadAt(b, n, k)
                       /\ todo = << >> => k = n * sector_size
           /\ Calm /\ todo \in Seq(Access)
           /\ todo # << >> => todo[1][1] = "read"
<1>1. PICK b \in Nat, n \in Nat \ {0} :
        /\ b + n <= sector_count
        /\ request = [ op |-> "read", block |-> b, count |-> n ]
        /\ \E k \in 0..(n * sector_size) : ReadAt(b, n, k)
  BY DEF InRead
<1>2. PICK k \in 0..(n * sector_size) : ReadAt(b, n, k)
  BY <1>1
<1>3. /\ todo \in Seq(Access) /\ (todo = << >> <=> k = n * sector_size)
      /\ k # n * sector_size => todo[1] = << "read", b * sector_size + (k + 1) - 1 >>
  BY <1>1, <1>2, ReadTodo
<1>4. todo # << >> => todo[1][1] = "read"
  BY <1>3
<1>. QED
  BY <1>1, <1>2, <1>3, <1>4 DEF InRead

\* A call that writes is done, sends a job or waits for one.
LEMMA WriteNext ==
    ASSUME InWrite
    PROVE  \E b, n, data, before :
              /\ WriteArgs(b, n, data, before) /\ request = WriteRequest(b, n, data, before)
              /\ chip.mode = "read" /\ todo \in Seq(Access)
              /\ \/ WriteDone(b, n, data, before)
                 \/ \E i \in 1..n, x \in 0..sector_size :
                       /\ Sending(b, n, data, before, i, x) /\ todo # << >> /\ todo[1][1] = "write"
                       /\ chip.work = NoWork
                 \/ \E i \in 1..n, x \in 0..sector_size :
                       Waiting(b, n, data, before, i, x) /\ todo # << >> /\ todo[1][1] = "wait"
<1>1. PICK b, n, data, before :
        /\ WriteArgs(b, n, data, before) /\ request = WriteRequest(b, n, data, before)
        /\ chip.mode = "read" /\ WriteAt(b, n, data, before)
  BY DEF InWrite
<1>2. CASE WriteDone(b, n, data, before)
  <2>1. todo \in Seq(Access)
    BY <1>2 DEF WriteDone
  <2>. QED
    BY <1>1, <1>2, <2>1
<1>3. ASSUME NEW i \in 1..n, NEW x \in 0..sector_size, Sending(b, n, data, before, i, x)
      PROVE  todo # << >> /\ todo[1][1] = "write" /\ todo \in Seq(Access) /\ chip.work = NoWork
  BY <1>1, <1>3, SendingTodo DEF Sending
<1>4. ASSUME NEW i \in 1..n, NEW x \in 0..sector_size, Waiting(b, n, data, before, i, x)
      PROVE  todo # << >> /\ todo[1][1] = "wait" /\ todo \in Seq(Access)
  BY <1>1, <1>4, WaitingTodo
<1>5. CASE \E i \in 1..n, x \in 0..sector_size : Sending(b, n, data, before, i, x)
  BY <1>1, <1>3, <1>5
<1>6. CASE \E i \in 1..n, x \in 0..sector_size : Waiting(b, n, data, before, i, x)
  BY <1>1, <1>4, <1>6
<1>. QED
  BY <1>1, <1>2, <1>5, <1>6 DEF WriteAt

\* One step of the driver, of the chip or of the power.
LEMMA CfiStep ==
    ASSUME CfiInv, CfiNext
    PROVE  CfiInv'
<1>1. CfiShape /\ (InNone \/ InProbe \/ InRead \/ InWrite)
  BY DEF CfiInv
<1>2. InNone => todo = << >> /\ chip.work = NoWork /\ request = NoRequest
  BY DEF InNone, Calm
<1>3. CASE CfiProbe
  BY <1>3, ProbeStarts
<1>4. ASSUME NEW b \in 0..(sector_count - 1), NEW n \in 1..sector_count, b + n <= sector_count,
             \/ CfiRead(b, n)
             \/ \E data \in FlashData : Len(data) = n * sector_size /\ CfiWrite(b, n, data)
      PROVE  CfiInv'
  <2>1. b \in Nat /\ n \in Nat \ {0}
    BY FlashSizes
  <2>2. CASE CfiRead(b, n)
    BY <1>4, <2>1, <2>2, ReadStarts
  <2>3. ASSUME NEW data \in FlashData, Len(data) = n * sector_size, CfiWrite(b, n, data)
        PROVE  CfiInv'
    BY <1>4, <2>1, <2>3, WriteStarts
  <2>. QED
    BY <1>4, <2>2, <2>3
<1>5. CASE BusWrite
  <2>1. todo # << >> /\ todo[1][1] = "write"
    BY <1>5 DEF BusWrite
  <2>2. ~InRead /\ ~InNone
    BY <1>2, <2>1, ReadNext
  <2>3. CASE InProbe
    BY <1>1, <1>5, <2>3, ProbeNext, ProbeStep
  <2>4. CASE InWrite
    <3>1. PICK b, n, data, before :
            /\ WriteArgs(b, n, data, before) /\ request = WriteRequest(b, n, data, before)
            /\ chip.mode = "read"
            /\ \E i \in 1..n, x \in 0..sector_size : Sending(b, n, data, before, i, x)
      BY <2>1, <2>4, WriteNext DEF WriteDone
    <3>. QED
      BY <1>1, <1>5, <3>1, SendStep
  <2>. QED
    BY <1>1, <2>2, <2>3, <2>4
<1>6. CASE BusRead
  <2>1. todo # << >> /\ todo[1][1] = "read"
    BY <1>6 DEF BusRead
  <2>2. ~InNone
    BY <1>2, <2>1
  <2>3. CASE InProbe
    BY <1>1, <1>6, <2>3, ProbeNext, ProbeStep
  <2>4. CASE InRead
    BY <1>1, <1>6, <2>4, ReadNext, ReadStep
  <2>5. ~InWrite
    BY <2>1, WriteNext DEF WriteDone
  <2>. QED
    BY <1>1, <2>2, <2>3, <2>4, <2>5
<1>7. CASE ToggleWait
  <2>1. todo # << >> /\ todo[1][1] = "wait"
    BY <1>7 DEF ToggleWait
  <2>2. ~InNone /\ ~InProbe /\ ~InRead
    BY <1>1, <1>2, <2>1, ProbeNext, ReadNext
  <2>3. PICK b, n, data, before :
          /\ WriteArgs(b, n, data, before) /\ request = WriteRequest(b, n, data, before)
          /\ chip.mode = "read"
          /\ \E i \in 1..n, x \in 0..sector_size : Waiting(b, n, data, before, i, x)
    BY <1>1, <2>1, <2>2, WriteNext DEF WriteDone
  <2>. QED
    BY <1>1, <1>7, <2>3, WaitStep
<1>8. CASE ChipDone
  <2>1. chip.work # NoWork
    BY <1>8 DEF ChipDone
  <2>2. ~InNone /\ ~InProbe /\ ~InRead
    BY <1>1, <1>2, <2>1, ProbeNext, ReadNext DEF Calm
  <2>3. PICK b, n, data, before :
          /\ WriteArgs(b, n, data, before) /\ request = WriteRequest(b, n, data, before)
          /\ chip.mode = "read"
          /\ \E i \in 1..n, x \in 0..sector_size : Waiting(b, n, data, before, i, x)
    BY <1>1, <2>1, <2>2, WriteNext DEF WriteDone, Calm
  <2>. QED
    BY <1>1, <1>8, <2>3, DoneStep
<1>9. CASE CfiReturn
  <2>1. /\ request # NoRequest /\ todo = << >> /\ request' = NoRequest
        /\ flash' = flash /\ chip' = chip /\ todo' = todo /\ byte0' = byte0
    BY <1>9 DEF CfiReturn
  <2>2. mtd' \in BOOLEAN
    <3>1. mtd \in BOOLEAN
      BY <1>1 DEF CfiShape
    <3>2. mtd' = (mtd \/ (request.op = "probe" /\ got = ConfigId)) \/ mtd' = mtd
      BY <1>9 DEF CfiReturn
    <3>. QED
      BY <3>1, <3>2
  <2>3. Calm
    <3>1. ~InNone
      BY <1>2, <2>1
    <3>2. InProbe => Calm
      BY <1>1, <2>1, ProbeNext
    <3>3. InRead => Calm
      BY ReadNext
    <3>4. InWrite => Calm
      BY <2>1, WriteNext DEF WriteDone
    <3>. QED
      BY <1>1, <3>1, <3>2, <3>3, <3>4
  <2>4. CfiShape'
    BY <1>1, <2>1, <2>2 DEF CfiShape, ChipShape
  <2>. QED
    BY <2>1, <2>3, <2>4, NoneAfter DEF Calm
<1>10. CASE PowerLoss
  <2>1. /\ chip' = ChipReset(chip.id) /\ todo' = << >> /\ request' = NoRequest /\ byte0' = NoByte
        /\ mtd' = FALSE
        /\ \E any \in [ Changing -> FlashByte ] :
              flash' = [ a \in Address |-> IF a \in Changing THEN any[a] ELSE flash[a] ]
    BY <1>10 DEF PowerLoss
  <2>2. flash' \in [ Address -> FlashByte ]
    BY <1>1, <2>1 DEF CfiShape
  <2>3. ChipShape' /\ chip'.work = NoWork /\ chip'.seq = << >> /\ chip'.mode = "read"
    BY <2>1 DEF ChipShape, ChipReset
  <2>4. CfiShape'
    BY <2>1, <2>2, <2>3 DEF CfiShape
  <2>. QED
    BY <2>1, <2>3, <2>4, NoneAfter
<1>. QED
  BY <1>3, <1>4, <1>5, <1>6, <1>7, <1>8, <1>9, <1>10 DEF CfiNext

\* Nothing happens.
LEMMA CfiStutters ==
    ASSUME CfiInv, UNCHANGED cfivars
    PROVE  CfiInv'
<1>1. /\ flash' = flash /\ chip' = chip /\ todo' = todo /\ request' = request /\ byte0' = byte0
      /\ got' = got /\ mtd' = mtd
  BY DEF cfivars
<1>2. CfiShape' /\ CfiShape
  BY <1>1 DEF CfiInv, CfiShape, ChipShape
<1>3. CASE InNone
  <2>1. InNone'
    BY <1>1, <1>3 DEF InNone, Calm
  <2>. QED
    BY <1>2, <2>1 DEF CfiInv
<1>4. CASE InProbe
  <2>1. InProbe'
    BY <1>1, <1>4 DEF InProbe
  <2>. QED
    BY <1>2, <2>1 DEF CfiInv
<1>5. CASE InRead
  <2>1. InRead'
    BY <1>1, <1>5 DEF InRead, Calm, ReadAt
  <2>. QED
    BY <1>2, <2>1 DEF CfiInv
<1>6. CASE InWrite
  <2>1. PICK b, n, data, before :
          /\ WriteArgs(b, n, data, before) /\ request = WriteRequest(b, n, data, before)
          /\ chip.mode = "read" /\ WriteAt(b, n, data, before)
    BY <1>6 DEF InWrite
  <2>2. ASSUME NEW i, NEW x, Sending(b, n, data, before, i, x)
        PROVE  Sending(b, n, data, before, i, x)'
    BY <1>1, <2>2 DEF Sending, BeforeJob, Mixed
  <2>3. ASSUME NEW i, NEW x, Waiting(b, n, data, before, i, x)
        PROVE  Waiting(b, n, data, before, i, x)'
    BY <1>1, <2>3 DEF Waiting, Working, WorkedAt, BeforeJob, AfterJob, Mixed
  <2>4. WriteDone(b, n, data, before) => WriteDone(b, n, data, before)'
    BY <1>1 DEF WriteDone, Calm, Mixed
  <2>5. WriteAt(b, n, data, before)'
    BY <2>1, <2>2, <2>3, <2>4 DEF WriteAt
  <2>. QED
    BY <1>1, <1>2, <2>1, <2>5, WriteGoesOn DEF CfiShape
<1>. QED
  BY <1>3, <1>4, <1>5, <1>6 DEF CfiInv

\* The invariant of the flash holds in every state.
LEMMA CfiInvariant == CfiSpec => []CfiInv
<1>1. CfiInv /\ [CfiNext]_cfivars => CfiInv'
  BY CfiStep, CfiStutters
<1>. QED
  BY <1>1, CfiBegins, PTL DEF CfiSpec

-----------------------------------------------------------------------------
(* The flash: what the invariant says of a call.                           *)

\* A call that writes is at its block i: the blocks before it are written and the others
\* are untouched.
LEMMA RiskAtBlock ==
    ASSUME NEW b, NEW n, NEW data, NEW before, WriteArgs(b, n, data, before),
           request = WriteRequest(b, n, data, before), NEW i \in 1..n, NEW m \in Nat, NEW e \in Nat,
           BlockStart(b, i) <= m, m <= BlockStart(b, i) + sector_size,
           m <= e, e <= BlockStart(b, i) + sector_size, Mixed(b, data, before, m, e)
    PROVE  /\ \A c \in Nat : b <= c /\ c < b + (i - 1) => Written(c)
           /\ \A c \in Nat : c < b \/ b + (i - 1) < c => Untouched(c)
           /\ m = BlockStart(b, i) + sector_size => Written(b + (i - 1))
<1>1. PICK A \in Nat, B \in Nat, S \in Nat \ {0}, r \in Nat :
        /\ A = BlockStart(b, i) /\ B = b * sector_size /\ B <= A /\ S = sector_size
        /\ r = b + (i - 1) /\ A = r * S
  <2>1. /\ BlockStart(b, i) \in Nat /\ b * sector_size \in Nat /\ b + (i - 1) \in Nat
        /\ b * sector_size <= BlockStart(b, i)
        /\ BlockStart(b, i) = (b + (i - 1)) * sector_size
    BY BlockStarts
  <2>2. sector_size \in Nat \ {0}
    BY FlashSizes
  <2>. QED
    BY <2>1, <2>2
<1>2. b \in Nat /\ b <= r /\ \A a \in Address : a \in Nat
  BY <1>1, FlashSizes DEF WriteArgs
<1>3. /\ request.data = data /\ request.before = before /\ request.block = b
  BY DEF WriteRequest
<1>4. ASSUME NEW a \in Address
      PROVE  flash[a] = IF B <= a /\ a < m THEN data[a - B + 1]
                        ELSE IF m <= a /\ a < e THEN Erased ELSE before[a]
  BY <1>1 DEF Mixed
<1>5. ASSUME NEW c \in Nat, NEW a \in Address, BlockOf(a) = c
      PROVE  \E z \in Nat : z = c * S /\ z <= a /\ a < z + S /\ (c + 1) * S = z + S
  <2>1. c * S \in Nat /\ (c + 1) * S = c * S + S
    BY <1>1
  <2>2. c * sector_size <= a /\ a < c * sector_size + sector_size
    BY <1>2, <1>5, BlockRange
  <2>. QED
    BY <1>1, <2>1, <2>2
<1>6. ASSUME NEW c \in Nat, b <= c, c < r \/ (c = r /\ m = A + S) PROVE Written(c)
  <2>1. SUFFICES ASSUME NEW a \in Address, BlockOf(a) = c PROVE flash[a] = data[a - B + 1]
    BY <1>1, <1>3 DEF Written
  <2>2. PICK z \in Nat : z = c * S /\ z <= a /\ a < z + S /\ (c + 1) * S = z + S
    BY <1>5, <2>1
  <2>3. B <= z
    <3>1. b * S <= c * S
      BY <1>1, <1>2, <1>6, TimesMonotone
    <3>. QED
      BY <1>1, <2>2, <3>1
  <2>4. z + S <= m
    <3>1. CASE c < r
      <4>1. c + 1 \in Int /\ c + 1 <= r
        BY <3>1
      <4>2. (c + 1) * S <= r * S
        BY <1>1, <4>1, TimesMonotone
      <4>3. z + S <= A
        BY <1>1, <2>2, <4>2
      <4>4. A <= m
        BY <1>1
      <4>. QED
        BY <4>3, <4>4
    <3>2. CASE c = r /\ m = A + S
      <4>1. z = A
        BY <1>1, <2>2, <3>2
      <4>. QED
        BY <3>2, <4>1
    <3>. QED
      BY <1>6, <3>1, <3>2
  <2>5. a \in Nat /\ z <= a /\ a < z + S
    BY <1>2, <2>2
  <2>6. B <= a /\ a < m
    BY <2>3, <2>4, <2>5
  <2>. QED
    BY <1>4, <2>6
<1>7. ASSUME NEW c \in Nat, c < b \/ r < c PROVE Untouched(c)
  <2>1. SUFFICES ASSUME NEW a \in Address, BlockOf(a) = c PROVE flash[a] = before[a]
    BY <1>3 DEF Untouched
  <2>2. PICK z \in Nat : z = c * S /\ z <= a /\ a < z + S /\ (c + 1) * S = z + S
    BY <1>5, <2>1
  <2>3. a \in Nat /\ z <= a /\ a < z + S
    BY <1>2, <2>2
  <2>4. A <= m /\ m <= e /\ e <= A + S /\ B <= A
    BY <1>1
  <2>5. ~(B <= a /\ a < m) /\ ~(m <= a /\ a < e)
    <3>1. CASE c < b
      <4>1. c + 1 \in Int /\ c + 1 <= b /\ b \in Int
        BY <1>2, <3>1
      <4>2. (c + 1) * S <= b * S
        BY <1>1, <4>1, TimesMonotone
      <4>3. z + S <= B
        BY <1>1, <2>2, <4>2
      <4>. QED
        BY <2>3, <2>4, <4>3
    <3>2. CASE r < c
      <4>1. r + 1 \in Int /\ r + 1 <= c
        BY <3>2
      <4>2. (r + 1) * S <= c * S
        BY <1>1, <4>1, TimesMonotone
      <4>3. (r + 1) * S = A + S
        BY <1>1
      <4>4. A + S <= z
        BY <2>2, <4>2, <4>3
      <4>. QED
        BY <2>3, <2>4, <4>4
    <3>. QED
      BY <1>7, <3>1, <3>2
  <2>. QED
    BY <1>4, <2>5
<1>8. /\ \A c \in Nat : b <= c /\ c < r => Written(c)
      /\ \A c \in Nat : c < b \/ r < c => Untouched(c)
      /\ m = A + S => Written(r)
  BY <1>2, <1>6, <1>7
<1>. QED
  BY <1>1, <1>8

\* The part of OneBlockAtRisk that holds while the call is under way, and that of its end.
AtRisk(b, n) ==
    /\ \A c \in 0..(sector_count - 1) \ b..(b + n - 1) : Untouched(c)
    /\ \E risk \in b..(b + n - 1) :
          /\ \A c \in b..(risk - 1) : Written(c)
          /\ \A c \in (risk + 1)..(b + n - 1) : Untouched(c)

\* The same, with the blocks that OneBlockAtRisk names.
LEMMA RiskOfCall ==
    ASSUME NEW b, NEW n, NEW data, NEW before, WriteArgs(b, n, data, before),
           request = WriteRequest(b, n, data, before), NEW i \in 1..n, NEW m \in Nat, NEW e \in Nat,
           BlockStart(b, i) <= m, m <= BlockStart(b, i) + sector_size,
           m <= e, e <= BlockStart(b, i) + sector_size, Mixed(b, data, before, m, e)
    PROVE  /\ AtRisk(b, n)
           /\ i = n /\ m = BlockStart(b, i) + sector_size => \A c \in b..(b + n - 1) : Written(c)
<1>1. PICK r \in Nat : r = b + (i - 1) /\ b \in Nat /\ n \in Nat \ {0} /\ r \in b..(b + n - 1)
  <2>1. b \in Nat /\ n \in Nat \ {0}
    BY DEF WriteArgs
  <2>2. b + (i - 1) \in Nat /\ b + (i - 1) \in b..(b + n - 1)
    BY <2>1
  <2>. QED
    BY <2>1, <2>2
<1>2. /\ \A c \in Nat : b <= c /\ c < r => Written(c)
      /\ \A c \in Nat : c < b \/ r < c => Untouched(c)
      /\ m = BlockStart(b, i) + sector_size => Written(r)
  BY <1>1, RiskAtBlock
<1>3. ASSUME NEW c \in 0..(sector_count - 1), c \notin b..(b + n - 1) PROVE Untouched(c)
  <2>1. c \in Nat /\ (c < b \/ r < c)
    BY <1>1, <1>3, FlashSizes
  <2>. QED
    BY <1>2, <2>1
<1>4. ASSUME NEW c \in b..(r - 1) PROVE Written(c)
  <2>1. c \in Nat /\ b <= c /\ c < r
    BY <1>1
  <2>. QED
    BY <1>2, <2>1
<1>5. ASSUME NEW c \in (r + 1)..(b + n - 1) PROVE Untouched(c)
  <2>1. c \in Nat /\ r < c
    BY <1>1
  <2>. QED
    BY <1>2, <2>1
<1>6. AtRisk(b, n)
  BY <1>1, <1>3, <1>4, <1>5 DEF AtRisk
<1>7. ASSUME i = n, m = BlockStart(b, i) + sector_size, NEW c \in b..(b + n - 1) PROVE Written(c)
  <2>1. c \in Nat /\ b <= c /\ (c < r \/ c = r)
    BY <1>1, <1>7
  <2>2. Written(r)
    BY <1>2, <1>7
  <2>3. c < r => Written(c)
    BY <1>2, <2>1
  <2>4. c = r => Written(c)
    BY <2>2
  <2>. QED
    BY <2>1, <2>3, <2>4
<1>. QED
  BY <1>6, <1>7

\* cfi_write_block() puts one block at risk at a time, whatever the sectors, the data and
\* the moment at which power is lost: the blocks before it are written, the ones after it
\* are as they were, those that are not asked for never change, and when the call returns
\* all its blocks hold the data.
THEOREM WriteRisksOneBlock == CfiSpec => []OneBlockAtRisk
<1>1. CfiInv => OneBlockAtRisk
  <2>1. SUFFICES ASSUME CfiInv, request.op = "write"
                 PROVE  /\ todo = << >> => \A c \in request.block..(request.block + request.count - 1) : Written(c)
                        /\ AtRisk(request.block, request.count)
    BY DEF OneBlockAtRisk, AtRisk
  <2>2. PICK b, n, data, before :
          /\ WriteArgs(b, n, data, before) /\ request = WriteRequest(b, n, data, before)
          /\ \/ WriteDone(b, n, data, before)
             \/ todo # << >> /\ \E i \in 1..n, x \in 0..sector_size :
                   Sending(b, n, data, before, i, x) \/ Waiting(b, n, data, before, i, x)
    BY <2>1, InvByCall, WriteNext
  <2>3. request.block = b /\ request.count = n
    BY <2>2 DEF WriteRequest
  <2>4. PICK S \in Nat \ {0} : S = sector_size /\ n \in Nat \ {0}
    BY <2>2, FlashSizes DEF WriteArgs
  <2>5. CASE WriteDone(b, n, data, before)
    <3>1. n \in 1..n
      BY <2>4
    <3>2. PICK A \in Nat : A = BlockStart(b, n) /\ (b + n) * sector_size = A + S
      BY <2>2, <2>4, <3>1, BlockStarts
    <3>3. PICK m \in Nat : m = A + S
      BY <2>4
    <3>4. Mixed(b, data, before, m, m)
      BY <2>5, <3>2, <3>3 DEF WriteDone
    <3>5. A <= m /\ m <= A + S /\ m <= m
      BY <2>4, <3>3
    <3>6. AtRisk(b, n) /\ \A c \in b..(b + n - 1) : Written(c)
      BY <2>2, <2>4, <3>1, <3>2, <3>3, <3>4, <3>5, RiskOfCall
    <3>. QED
      BY <2>3, <3>6
  <2>6. ASSUME NEW i \in 1..n, NEW x \in 0..sector_size, todo # << >>,
               Sending(b, n, data, before, i, x) \/ Waiting(b, n, data, before, i, x)
        PROVE  AtRisk(b, n)
    <3>1. PICK A \in Nat : A = BlockStart(b, i)
      BY <2>2, BlockStarts
    <3>2. BeforeJob(b, data, before, i, x) \/ AfterJob(b, data, before, i, x)
      BY <2>6 DEF Sending, Waiting, Working, WorkedAt
    <3>3. CASE x = 0 /\ BeforeJob(b, data, before, i, x)
      <4>1. A + 0 = A /\ A <= A /\ A <= A + S
        BY <2>4
      <4>2. Mixed(b, data, before, A, A)
        BY <3>1, <3>3, <4>1 DEF BeforeJob
      <4>. QED
        BY <2>2, <2>4, <3>1, <4>1, <4>2, RiskOfCall
    <3>4. CASE x # 0 /\ BeforeJob(b, data, before, i, x)
      <4>1. PICK m \in Nat, e \in Nat : /\ m = A + (x - 1) /\ e = A + S
                                        /\ A <= m /\ m <= A + S /\ m <= e /\ e <= A + S
        <5>1. /\ A + (x - 1) \in Nat /\ A + S \in Nat /\ A <= A + (x - 1) /\ A + (x - 1) <= A + S
          BY <2>4, <3>4
        <5>. QED
          BY <5>1
      <4>2. Mixed(b, data, before, m, e)
        BY <2>4, <3>1, <3>4, <4>1 DEF BeforeJob
      <4>. QED
        BY <2>2, <2>4, <3>1, <4>1, <4>2, RiskOfCall
    <3>5. CASE AfterJob(b, data, before, i, x)
      <4>1. PICK m \in Nat, e \in Nat : /\ m = A + x /\ e = A + S
                                        /\ A <= m /\ m <= A + S /\ m <= e /\ e <= A + S
        <5>1. /\ A + x \in Nat /\ A + S \in Nat /\ A <= A + x /\ A + x <= A + S
          BY <2>4
        <5>. QED
          BY <5>1
      <4>2. Mixed(b, data, before, m, e)
        BY <2>4, <3>1, <3>5, <4>1 DEF AfterJob
      <4>. QED
        BY <2>2, <2>4, <3>1, <4>1, <4>2, RiskOfCall
    <3>. QED
      BY <3>2, <3>3, <3>4, <3>5
  <2>. QED
    BY <2>2, <2>3, <2>5, <2>6
<1>. QED
  BY <1>1, CfiInvariant, PTL

\* cfi_read_block() gets the contents of the flash and never a status or an identity: no
\* access leaves the chip, none but the wait is made while it works, and it works at
\* nothing, with no command begun and giving its contents, whenever no call is made.
THEOREM ReadsGetContents == CfiSpec => []ReadsContents
<1>1. CfiInv => ReadsContents
  <2>1. SUFFICES ASSUME CfiInv PROVE ReadsContents
    OBVIOUS
  <2>2. CfiShape /\ (InNone \/ InProbe \/ InRead \/ InWrite)
    BY <2>1 DEF CfiInv
  <2>3. InNone => /\ todo \in Seq(Access) /\ todo = << >> /\ byte0 = NoByte /\ chip.work = NoWork
                  /\ chip.seq = << >> /\ chip.mode = "read"
    <3>1. << >> \in Seq(Access)
      OBVIOUS
    <3>. QED
      BY <3>1 DEF InNone, Calm
  <2>4. InProbe => todo \in Seq(Access) /\ byte0 = NoByte /\ chip.work = NoWork
    BY <2>2, ProbeNext
  <2>5. InRead => todo \in Seq(Access) /\ byte0 = NoByte /\ chip.work = NoWork
    BY ReadNext DEF Calm
  <2>6. InWrite => /\ todo \in Seq(Access) /\ byte0 \in FlashByte \cup { NoByte }
                   /\ NeverWhileBusy
    <3>1. SUFFICES ASSUME InWrite
                   PROVE  /\ todo \in Seq(Access) /\ byte0 \in FlashByte \cup { NoByte }
                          /\ NeverWhileBusy
      OBVIOUS
    <3>2. PICK b, n, data, before :
            /\ todo \in Seq(Access)
            /\ \/ WriteDone(b, n, data, before)
               \/ \E i \in 1..n, x \in 0..sector_size :
                     Sending(b, n, data, before, i, x) /\ chip.work = NoWork
               \/ \E i \in 1..n, x \in 0..sector_size :
                     Waiting(b, n, data, before, i, x) /\ todo[1][1] = "wait"
      BY <3>1, WriteNext, ZenonT(40)
    <3>3. CASE WriteDone(b, n, data, before)
      BY <3>2, <3>3 DEF WriteDone, Calm, NeverWhileBusy
    <3>4. ASSUME NEW i, NEW x, Sending(b, n, data, before, i, x), chip.work = NoWork
          PROVE  byte0 = NoByte /\ NeverWhileBusy
      BY <3>4 DEF Sending, NeverWhileBusy
    <3>5. ASSUME NEW i, NEW x, Waiting(b, n, data, before, i, x), todo[1][1] = "wait"
          PROVE  byte0 \in FlashByte \cup { NoByte } /\ NeverWhileBusy
      <4>1. chip.toggle \in { 0, 1 }
        BY <2>2 DEF CfiShape, ChipShape
      <4>2. 2 * (1 - chip.toggle) \in FlashByte
        BY <4>1 DEF FlashByte
      <4>3. byte0 \in FlashByte \cup { NoByte }
        BY <3>5, <4>2 DEF Waiting, Working, WorkedAt
      <4>4. NeverWhileBusy
        BY <3>5 DEF NeverWhileBusy
      <4>. QED
        BY <4>3, <4>4
    <3>. QED
      BY <3>2, <3>3, <3>4, <3>5
  <2>7. todo \in Seq(Access) /\ byte0 \in FlashByte \cup { NoByte } /\ NeverWhileBusy
    BY <2>2, <2>3, <2>4, <2>5, <2>6 DEF NeverWhileBusy
  <2>8. CfiTypeOK
    <3>1. \A k \in 1..Len(todo) : todo[k][2] \in Address
      <4>1. \A k \in 1..Len(todo) : todo[k] \in Access
        BY <2>7, ElementOfSeq
      <4>2. \A y \in Access : y[2] \in Address
        BY DEF Access
      <4>. QED
        BY <4>1, <4>2
    <3>2. todo = << >> \/ request # NoRequest
      BY <2>1, <2>3, InvByCall
    <3>3. chip.mode \in { "read", "id" } /\ flash \in [ Address -> FlashByte ] /\ mtd \in BOOLEAN
      BY <2>2 DEF CfiShape, ChipShape
    <3>. QED
      BY <2>7, <3>1, <3>2, <3>3 DEF CfiTypeOK
  <2>9. request = NoRequest => chip.seq = << >> /\ chip.mode = "read" /\ chip.work = NoWork
    BY <2>1, <2>3, InvByCall
  <2>10. ASSUME request.op = "read", todo = << >>
         PROVE  got = [ k \in 1..(request.count * sector_size) |->
                          flash[request.block * sector_size + k - 1] ]
    <3>1. PICK b \in Nat, n \in Nat \ {0} :
            /\ request = [ op |-> "read", block |-> b, count |-> n ]
            /\ \E k \in 0..(n * sector_size) : ReadAt(b, n, k) /\ k = n * sector_size
      BY <2>1, <2>10, InvByCall, ReadNext
    <3>2. request.block = b /\ request.count = n
      BY <3>1
    <3>3. ReadAt(b, n, n * sector_size)
      BY <3>1
    <3>. QED
      BY <3>2, <3>3 DEF ReadAt
  <2>. QED
    BY <2>7, <2>8, <2>9, <2>10 DEF ReadsContents
<1>. QED
  BY <1>1, CfiInvariant, PTL
=============================================================================
