------------------------------ MODULE VfsProofs ------------------------------
(***************************************************************************)
(* Proofs about Vfs: the reference counts are exact, a mount in use is not *)
(* freed, and what is mounted over a mount was asked for before it, for    *)
(* any tasks, mounts, paths and sizes of the descriptor table; and about   *)
(* the normalisation of paths.                                             *)
(***************************************************************************)
EXTENDS Vfs, Path, TaskListProofs, FiniteSetTheorems

\* No mount is found by fs_unmount(), which has no caller in the kernel, after it was
\* unmounted once.
UnmountedOnce == MaxUnmounts <= 1

\* The references that the mount |m| owes: to its users, and to itself until it is
\* unmounted.
Users(m) == Cardinality(Handles(m)) + Cardinality(Opening(m)) + leaked[m]
Owed(m) == (IF unmounts[m] = 0 THEN 1 ELSE 0) + Users(m)

\* A mount on the list has exactly the references it owes, at least one; another has
\* no user.
CountOK(m) ==
    /\ Contains(mounts, m) => ref[m] = Owed(m) /\ ref[m] > 0
    /\ ~Contains(mounts, m) => Users(m) = 0

\* A task that sleeps in sys_read() keeps the descriptor it reads from open.
ReadOK(t) == pc[t] = "read" => \E i \in Fd : i \in DOMAIN fds[t] /\ fds[t][i] = arg[t]

RefInv ==
    /\ TypeOK /\ DOMAIN arg = Task /\ NoDuplicate(mounts)
    /\ \A m \in Mount : CountOK(m)
    /\ \A t \in Task : ReadOK(t)

\* The history variables.
HistoryOK == seen \in [Task -> SUBSET Mount] /\ raced \in [Mount -> SUBSET Mount]

\* What was listed at or above the path that a call is mounting was listed since the
\* call began.
SeenInv ==
    \A t \in Task, m \in Mount :
        pc[t] = "mount" /\ Contains(mounts, m) /\ IsPrefix(path[m], arg[t]) => m \in seen[t]

PathInv ==
    /\ mounts \in Seq(Mount) /\ DOMAIN path = Mount
    /\ pc \in [Task -> { "none", "mount", "open", "read", "dead" }] /\ DOMAIN arg = Task
    /\ HistoryOK /\ SeenInv /\ LaterMountsRaced

-----------------------------------------------------------------------------
(* Lemmas about the sets of users.                                         *)

\* A descriptor table before and after it is allocated.
Table == { << >> } \cup [Fd -> Mount \cup { UNSET, Garbage }]

\* The sets that are counted are finite.
LEMMA FiniteUsers ==
    /\ \A m : IsFiniteSet(Handles(m)) /\ IsFiniteSet(Opening(m))
    /\ \A m : Cardinality(Handles(m)) \in Nat /\ Cardinality(Opening(m)) \in Nat
    /\ \A m : Cardinality(Handles(m)') \in Nat /\ Cardinality(Opening(m)') \in Nat
<1>1. IsFiniteSet(Task \X Fd) /\ IsFiniteSet(Task)
  <2>1. IsFiniteSet(Fd)
    BY FS_Interval, VfsAssumption DEF Fd
  <2>. QED
    BY <2>1, FS_Product, VfsAssumption
<1>2. ASSUME NEW m PROVE IsFiniteSet(Handles(m)) /\ IsFiniteSet(Opening(m))
  <2>1. Handles(m) \in SUBSET (Task \X Fd) /\ Opening(m) \in SUBSET Task
    BY DEF Handles, Opening
  <2>. QED
    BY <1>1, <2>1, FS_Subset
<1>3. ASSUME NEW m PROVE IsFiniteSet(Handles(m)') /\ IsFiniteSet(Opening(m)')
  <2>1. Handles(m)' \in SUBSET (Task \X Fd) /\ Opening(m)' \in SUBSET Task
    BY DEF Handles, Opening
  <2>. QED
    BY <1>1, <2>1, FS_Subset
<1>. QED
  BY <1>2, <1>3, FS_CardinalityType

\* One descriptor more refers to the mount: it has one handle more.
LEMMA HandlesAdd ==
    ASSUME NEW m, NEW t \in Task, NEW k \in Fd, ~(k \in DOMAIN fds[t] /\ fds[t][k] = m),
           \A u \in Task, i \in Fd : (i \in DOMAIN fds'[u] /\ fds'[u][i] = m) <=>
                (i \in DOMAIN fds[u] /\ fds[u][i] = m) \/ (u = t /\ i = k)
    PROVE  Cardinality(Handles(m)') = Cardinality(Handles(m)) + 1
<1>1. Handles(m)' = Handles(m) \cup { << t, k >> }
  BY DEF Handles
<1>2. << t, k >> \notin Handles(m)
  BY DEF Handles
<1>. QED
  BY <1>1, <1>2, FiniteUsers, FS_AddElement

\* One descriptor less: one handle less.
LEMMA HandlesRemove ==
    ASSUME NEW m, NEW t \in Task, NEW k \in Fd, k \in DOMAIN fds[t] /\ fds[t][k] = m,
           \A u \in Task, i \in Fd : (i \in DOMAIN fds'[u] /\ fds'[u][i] = m) <=>
                (i \in DOMAIN fds[u] /\ fds[u][i] = m) /\ ~(u = t /\ i = k)
    PROVE  Cardinality(Handles(m)') = Cardinality(Handles(m)) - 1
<1>1. Handles(m)' = Handles(m) \ { << t, k >> }
  BY DEF Handles
<1>2. << t, k >> \in Handles(m)
  BY DEF Handles
<1>. QED
  BY <1>1, <1>2, FiniteUsers, FS_RemoveElement, ZenonT(60)

\* The same descriptors: the same handles.
LEMMA HandlesKept ==
    ASSUME NEW m,
           \A u \in Task, i \in Fd : (i \in DOMAIN fds'[u] /\ fds'[u][i] = m) <=>
                (i \in DOMAIN fds[u] /\ fds[u][i] = m)
    PROVE  Handles(m)' = Handles(m)
BY DEF Handles

\* A task begins to open a file on the mount.
LEMMA OpeningAdd ==
    ASSUME NEW m, NEW t \in Task, ~(pc[t] = "open" /\ arg[t] = m),
           \A u \in Task : (pc'[u] = "open" /\ arg'[u] = m) <=>
                (pc[u] = "open" /\ arg[u] = m) \/ u = t
    PROVE  Cardinality(Opening(m)') = Cardinality(Opening(m)) + 1
<1>1. Opening(m)' = Opening(m) \cup { t } /\ t \notin Opening(m)
  BY DEF Opening
<1>. QED
  BY <1>1, FiniteUsers, FS_AddElement

\* A task is done with opening a file on it.
LEMMA OpeningRemove ==
    ASSUME NEW m, NEW t \in Task, pc[t] = "open" /\ arg[t] = m,
           \A u \in Task : (pc'[u] = "open" /\ arg'[u] = m) <=>
                (pc[u] = "open" /\ arg[u] = m) /\ u # t
    PROVE  Cardinality(Opening(m)') = Cardinality(Opening(m)) - 1
<1>1. Opening(m)' = Opening(m) \ { t } /\ t \in Opening(m)
  BY DEF Opening
<1>. QED
  BY <1>1, FiniteUsers, FS_RemoveElement

\* The same tasks open files on it.
LEMMA OpeningKept ==
    ASSUME NEW m,
           \A u \in Task : (pc'[u] = "open" /\ arg'[u] = m) <=> (pc[u] = "open" /\ arg[u] = m)
    PROVE  Opening(m)' = Opening(m)
BY DEF Opening

-----------------------------------------------------------------------------
(* Lemmas about the list of mounts.                                        *)

\* Where a task may be.
Place == { "none", "mount", "open", "read", "dead" }

\* The type invariant, with names for its sets.
LEMMA Types ==
    TypeOK <=> /\ mounts \in Seq(Mount) /\ path \in [Mount -> MountPaths \cup { << >> }]
               /\ ref \in [Mount -> Nat] /\ unmounts \in [Mount -> 0..MaxUnmounts]
               /\ fds \in [Task -> Table] /\ pc \in [Task -> Place]
               /\ \A t \in Task : pc[t] \in { "open", "read" } => arg[t] \in Mount
               /\ \A t \in Task : pc[t] = "mount" => arg[t] \in MountPaths
               /\ leaked \in [Mount -> 0..MaxLeaks]
               /\ HistoryOK
BY Zenon DEF TypeOK, Table, Place, HistoryOK

\* The counts are naturals.
LEMMA UsersNat ==
    ASSUME TypeOK, NEW m \in Mount
    PROVE  /\ Users(m) \in Nat /\ Owed(m) \in Nat /\ ref[m] \in Nat /\ leaked[m] \in Nat
           /\ Users(m) = 0 <=> /\ Handles(m) = {} /\ Opening(m) = {} /\ leaked[m] = 0
<1>1. Cardinality(Handles(m)) \in Nat /\ Cardinality(Opening(m)) \in Nat
  BY FiniteUsers
<1>2. ref[m] \in Nat /\ leaked[m] \in Nat
  BY Types, VfsAssumption
<1>3. Users(m) \in Nat /\ Owed(m) \in Nat
  BY <1>1, <1>2 DEF Users, Owed
<1>4. Users(m) = 0 <=> Cardinality(Handles(m)) = 0 /\ Cardinality(Opening(m)) = 0 /\ leaked[m] = 0
  BY <1>1, <1>2 DEF Users
<1>. QED
  BY <1>2, <1>3, <1>4, FiniteUsers, FS_EmptySet

\* find_mount() gives a mount of the list.
LEMMA FindMount ==
    ASSUME TypeOK, NEW p, Matches(p) # {}
    PROVE  find_mount(p) \in Mount /\ Contains(mounts, find_mount(p))
<1>1. mounts \in Seq(Mount) /\ Matches(p) \subseteq 1..Len(mounts)
  BY Types DEF Matches
<1>2. Matches(p) \subseteq Nat
  BY <1>1
<1>3. PICK i \in Matches(p) : \A j \in Matches(p) : i <= j
  BY <1>2, FirstExists DEF IsFirst
<1>4. PICK k : k = CHOOSE i1 \in Matches(p) : \A j \in Matches(p) : i1 <= j
  OBVIOUS
<1>5. k \in Matches(p)
  BY <1>3, <1>4
<1>6. find_mount(p) = mounts[k]
  BY <1>4 DEF find_mount
<1>. QED
  BY <1>1, <1>5, <1>6, ElementOfSeq DEF Contains

\* put_mount() takes the mount off the list when its last reference goes.
LEMMA PutMountList ==
    ASSUME TypeOK, NoDuplicate(mounts), NEW m \in Mount, Contains(mounts, m), put_mount(m),
           ref[m] > 0
    PROVE  /\ mounts' \in Seq(Mount) /\ NoDuplicate(mounts')
           /\ \A n : Contains(mounts', n) <=> Contains(mounts, n) /\ ~(n = m /\ ref[m] = 1)
           /\ ref' \in [Mount -> Nat] /\ ref'[m] = ref[m] - 1
           /\ \A n \in Mount : n # m => ref'[n] = ref[n]
<1>1. mounts \in Seq(Mount) /\ ref \in [Mount -> Nat] /\ Len(mounts) \in Nat
  BY Types, LenProperties
<1>2. /\ ref' \in [Mount -> Nat] /\ ref'[m] = ref[m] - 1
      /\ \A n \in Mount : n # m => ref'[n] = ref[n]
  BY <1>1 DEF put_mount
<1>3. CASE ref[m] # 1
  BY <1>1, <1>2, <1>3 DEF put_mount
<1>4. CASE ref[m] = 1
  <2>1. PICK S : S = { i \in 1..Len(mounts) : mounts[i] = m }
    OBVIOUS
  <2>2. PICK k \in S : \A j \in S : k <= j
    <3>1. S \subseteq Nat /\ S # {}
      BY <1>1, <2>1 DEF Contains
    <3>. QED
      BY <3>1, FirstExists DEF IsFirst
  <2>3. PICK i \in 1..Len(mounts) : mounts[i] = m /\ RemoveFirst(mounts, m) = RemoveAt(mounts, i)
    <3>1. Min(S) \in S
      BY <2>2 DEF Min
    <3>2. RemoveFirst(mounts, m) = RemoveAt(mounts, Min(S))
      BY <2>1, <2>2 DEF RemoveFirst, SelectInSeq
    <3>. QED
      BY <2>1, <3>1, <3>2
  <2>4. mounts' = RemoveAt(mounts, i)
    BY <1>4, <2>3 DEF put_mount
  <2>. QED
    BY <1>1, <1>2, <1>4, <2>3, <2>4, RemoveAtList
<1>. QED
  BY <1>3, <1>4

-----------------------------------------------------------------------------
(* The counts, one action after the other.                                 *)

\* Nothing is mounted at first.
LEMMA RefInvInit == Init => RefInv
<1>. SUFFICES ASSUME Init PROVE RefInv
  OBVIOUS
<1>. USE VfsAssumption DEF Init
<1>1. TypeOK
  <2>1. 0 \in 0..MaxUnmounts /\ 0 \in 0..MaxLeaks
    OBVIOUS
  <2>2. << >> \in Table /\ mounts \in Seq(Mount)
    BY DEF Table
  <2>3. fds \in [Task -> Table] /\ pc \in [Task -> Place]
    BY <2>2 DEF Place
  <2>4. HistoryOK
    BY DEF HistoryOK
  <2>. QED
    BY <2>1, <2>2, <2>3, <2>4, Types
<1>2. ASSUME NEW m \in Mount PROVE CountOK(m)
  <2>1. ~Contains(mounts, m)
    BY DEF Contains
  <2>2. Handles(m) = {} /\ Opening(m) = {} /\ leaked[m] = 0
    BY DEF Handles, Opening
  <2>. QED
    BY <1>1, <2>1, <2>2, UsersNat DEF CountOK
<1>. QED
  BY <1>1, <1>2 DEF RefInv, ReadOK, NoDuplicate

\* A user of a mount keeps it on the list.
LEMMA UserListed ==
    ASSUME RefInv, NEW m \in Mount, Handles(m) # {} \/ Opening(m) # {} \/ leaked[m] # 0
    PROVE  Contains(mounts, m) /\ ref[m] = Owed(m) /\ ref[m] > 0 /\ Users(m) > 0
<1>1. Users(m) # 0 /\ Users(m) \in Nat
  BY UsersNat DEF RefInv
<1>. QED
  BY <1>1 DEF RefInv, CountOK

\* put_mount() returns one of the references that are owed.
LEMMA PutMountCounts ==
    ASSUME RefInv, NEW m \in Mount, Contains(mounts, m), put_mount(m),
           Owed(m)' = Owed(m) - 1, Users(m)' \in Nat,
           \A n \in Mount : n # m => Owed(n)' = Owed(n) /\ Users(n)' = Users(n)
    PROVE  \A n \in Mount : CountOK(n)'
<1>1. /\ ref[m] = Owed(m) /\ ref[m] > 0 /\ ref[m] \in Nat
  BY UsersNat DEF RefInv, CountOK
<1>2. /\ \A n : Contains(mounts', n) <=> Contains(mounts, n) /\ ~(n = m /\ ref[m] = 1)
      /\ ref'[m] = ref[m] - 1 /\ \A n \in Mount : n # m => ref'[n] = ref[n]
  BY <1>1, PutMountList DEF RefInv
<1>3. CountOK(m)'
  <2>1. CASE ref[m] = 1
    <3>1. Owed(m)' = 0 /\ ~Contains(mounts', m)
      BY <1>1, <1>2, <2>1
    <3>2. Users(m)' = 0
      BY <3>1 DEF Owed
    <3>. QED
      BY <3>1, <3>2 DEF CountOK
  <2>2. CASE ref[m] # 1
    <3>1. ref'[m] = Owed(m)' /\ ref'[m] > 0 /\ Contains(mounts', m)
      BY <1>1, <1>2, <2>2
    <3>. QED
      BY <3>1 DEF CountOK
  <2>. QED
    BY <2>1, <2>2
<1>4. ASSUME NEW n \in Mount, n # m PROVE CountOK(n)'
  <2>1. Owed(n)' = Owed(n) /\ Users(n)' = Users(n) /\ ref'[n] = ref[n]
    BY <1>2, <1>4
  <2>2. Contains(mounts', n) <=> Contains(mounts, n)
    BY <1>2, <1>4
  <2>. QED
    BY <2>1, <2>2 DEF RefInv, CountOK
<1>. QED
  BY <1>3, <1>4

\* A mount whose users are as many as before.
LEMMA CountKept ==
    ASSUME RefInv, NEW m \in Mount, Users(m)' = Users(m), UNCHANGED << mounts, ref, unmounts >>
    PROVE  CountOK(m)'
BY DEF RefInv, CountOK, Owed

\* Steps that leave mounts, counts and descriptors alone: a mount that is asked for or
\* fails, a read, the exit of a task.
LEMMA QuietInv ==
    ASSUME RefInv, NEW t \in Task, pc[t] # "open", pc'[t] \in Place \ { "open" },
           DOMAIN pc' = Task, DOMAIN arg' = Task,
           \A u \in Task : u # t => pc'[u] = pc[u] /\ arg'[u] = arg[u],
           pc'[t] = "mount" => arg'[t] \in MountPaths,
           pc'[t] = "read" => /\ arg'[t] \in Mount
                              /\ \E i \in Fd : i \in DOMAIN fds[t] /\ fds[t][i] = arg'[t],
           pc' = [pc EXCEPT ![t] = pc'[t]],
           HistoryOK', UNCHANGED << mounts, path, ref, unmounts, fds, leaked >>
    PROVE  RefInv'
<1>1. TypeOK
  BY DEF RefInv
<1>2. TypeOK'
  <2>1. pc' \in [Task -> Place]
    BY <1>1, Types
  <2>. QED
    BY <1>1, <2>1 DEF TypeOK, Place, HistoryOK
<1>3. \A m \in Mount : CountOK(m)'
  <2>1. ASSUME NEW m \in Mount PROVE Users(m)' = Users(m)
    <3>1. Handles(m)' = Handles(m)
      BY DEF Handles
    <3>2. Opening(m)' = Opening(m)
      BY OpeningKept
    <3>. QED
      BY <3>1, <3>2 DEF Users
  <2>. QED
    BY <2>1, CountKept
<1>4. \A u \in Task : ReadOK(u)'
  BY DEF RefInv, ReadOK
<1>. QED
  BY <1>2, <1>3, <1>4 DEF RefInv, NoDuplicate

\* What a mount adds to the history.
LEMMA MountDoneHistory ==
    ASSUME HistoryOK, NEW t \in Task, MountDone(t)
    PROVE  HistoryOK'
<1>1. PICK m \in Mount :
         /\ raced' = [ n \in Mount |-> IF n = m THEN seen[t] ELSE raced[n] \ { m } ]
         /\ seen' = [ u \in Task |-> IF u = t THEN {}
                                     ELSE IF pc[u] = "mount" THEN seen[u] \cup { m }
                                     ELSE seen[u] ]
  BY DEF MountDone
<1>. QED
  BY <1>1 DEF HistoryOK

\* The mount is put on the list with its own reference: the structure is new, no one
\* uses it.
LEMMA MountDoneInv ==
    ASSUME RefInv, NEW t \in Task, MountDone(t)
    PROVE  RefInv'
<1>1. PICK m \in Mount :
         /\ ~Contains(mounts, m) /\ ~InUse(m) /\ mounts' = << m >> \o mounts
         /\ path' = [path EXCEPT ![m] = arg[t]] /\ ref' = [ref EXCEPT ![m] = 1]
         /\ unmounts' = [unmounts EXCEPT ![m] = 0]
  BY DEF MountDone
<1>2. /\ pc[t] = "mount" /\ pc' = [pc EXCEPT ![t] = "none"] /\ arg' = [arg EXCEPT ![t] = << >>]
      /\ UNCHANGED << fds, leaked >>
  BY DEF MountDone
<1>3. /\ mounts \in Seq(Mount) /\ path \in [Mount -> MountPaths \cup { << >> }]
      /\ ref \in [Mount -> Nat] /\ unmounts \in [Mount -> 0..MaxUnmounts]
      /\ pc \in [Task -> Place] /\ DOMAIN arg = Task /\ arg[t] \in MountPaths
  BY <1>2, Types DEF RefInv
<1>4. /\ pc' \in [Task -> Place] /\ pc'[t] = "none" /\ DOMAIN arg' = Task
      /\ \A u \in Task : u # t => pc'[u] = pc[u] /\ arg'[u] = arg[u]
  BY <1>2, <1>3 DEF Place
<1>5. /\ mounts' \in Seq(Mount) /\ Len(mounts') = Len(mounts) + 1 /\ mounts'[1] = m
      /\ \A i \in 1..Len(mounts) : mounts'[i + 1] = mounts[i]
      /\ Len(mounts) \in Nat
  <2>1. << m >> \in Seq(Mount) /\ Len(<< m >>) = 1 /\ << m >>[1] = m
    OBVIOUS
  <2>. QED
    BY <1>1, <1>3, <2>1, ConcatProperties, LenProperties
<1>6. \A n : Contains(mounts', n) <=> n = m \/ Contains(mounts, n)
  <2>1. ASSUME NEW i \in 1..Len(mounts')
        PROVE  i = 1 \/ (i - 1 \in 1..Len(mounts) /\ mounts'[i] = mounts[i - 1])
    <3>1. CASE i # 1
      <4>1. i - 1 \in 1..Len(mounts) /\ (i - 1) + 1 = i
        BY <1>5, <3>1
      <4>. QED
        BY <1>5, <4>1
    <3>. QED
      BY <3>1
  <2>2. \A i \in 1..Len(mounts) : i + 1 \in 1..Len(mounts')
    BY <1>5
  <2>3. 1 \in 1..Len(mounts')
    BY <1>5
  <2>4. ASSUME NEW n, Contains(mounts', n) PROVE n = m \/ Contains(mounts, n)
    <3>1. PICK i \in 1..Len(mounts') : mounts'[i] = n
      BY <2>4 DEF Contains
    <3>. QED
      BY <1>5, <2>1, <3>1 DEF Contains
  <2>5. ASSUME NEW n, Contains(mounts, n) PROVE Contains(mounts', n)
    <3>1. PICK i \in 1..Len(mounts) : mounts[i] = n
      BY <2>5 DEF Contains
    <3>2. i + 1 \in 1..Len(mounts') /\ mounts'[i + 1] = n
      BY <1>5, <2>2, <3>1
    <3>. QED
      BY <3>2 DEF Contains
  <2>6. Contains(mounts', m)
    BY <1>5, <2>3 DEF Contains
  <2>. QED
    BY <2>4, <2>5, <2>6
<1>7. NoDuplicate(mounts')
  <2>1. ASSUME NEW i \in 1..Len(mounts'), NEW j \in 1..Len(mounts'), mounts'[i] = mounts'[j], i # 1, j # 1
        PROVE  i = j
    <3>1. /\ i - 1 \in 1..Len(mounts) /\ (i - 1) + 1 = i
          /\ j - 1 \in 1..Len(mounts) /\ (j - 1) + 1 = j
      BY <1>5, <2>1
    <3>2. mounts[i - 1] = mounts[j - 1]
      BY <1>5, <2>1, <3>1
    <3>3. i - 1 = j - 1
      BY <3>1, <3>2 DEF RefInv, NoDuplicate
    <3>. QED
      BY <3>1, <3>3
  <2>2. ASSUME NEW i \in 1..Len(mounts'), mounts'[i] = m PROVE i = 1
    <3>1. CASE i # 1
      <4>1. i - 1 \in 1..Len(mounts) /\ (i - 1) + 1 = i
        BY <1>5, <3>1
      <4>2. mounts[i - 1] = m
        BY <1>5, <2>2, <4>1
      <4>. QED
        BY <1>1, <4>1, <4>2 DEF Contains
    <3>. QED
      BY <3>1
  <2>. QED
    BY <1>5, <2>1, <2>2 DEF NoDuplicate
<1>8. /\ ref' \in [Mount -> Nat] /\ unmounts' \in [Mount -> 0..MaxUnmounts]
      /\ path' \in [Mount -> MountPaths \cup { << >> }]
      /\ ref'[m] = 1 /\ unmounts'[m] = 0
      /\ \A n \in Mount : n # m => ref'[n] = ref[n] /\ unmounts'[n] = unmounts[n]
  BY <1>1, <1>3, VfsAssumption
<1>9. TypeOK'
  <2>1. HistoryOK'
    BY MountDoneHistory, Types DEF RefInv
  <2>. QED
    BY <1>2, <1>4, <1>5, <1>8, <2>1 DEF RefInv, TypeOK, Place, HistoryOK
<1>10. \A n \in Mount : Users(n)' = Users(n)
  <2>1. ASSUME NEW n \in Mount PROVE Handles(n)' = Handles(n) /\ Opening(n)' = Opening(n)
    <3>1. Handles(n)' = Handles(n)
      BY <1>2 DEF Handles
    <3>2. Opening(n)' = Opening(n)
      BY <1>2, <1>4, OpeningKept
    <3>. QED
      BY <3>1, <3>2
  <2>. QED
    BY <1>2, <2>1 DEF Users
<1>11. Users(m) = 0
  <2>1. Handles(m) = {} /\ Opening(m) = {} /\ leaked[m] = 0
    <3>1. leaked[m] \in Nat
      BY UsersNat DEF RefInv
    <3>. QED
      BY <1>1, <3>1 DEF InUse
  <2>. QED
    BY <2>1, UsersNat DEF RefInv
<1>12. CountOK(m)'
  <2>1. Owed(m)' = 1
    BY <1>8, <1>10, <1>11 DEF Owed
  <2>. QED
    BY <1>6, <1>8, <2>1 DEF CountOK
<1>13. ASSUME NEW n \in Mount, n # m PROVE CountOK(n)'
  <2>1. Users(n)' = Users(n) /\ Owed(n)' = Owed(n) /\ ref'[n] = ref[n]
    BY <1>8, <1>10, <1>13 DEF Owed
  <2>2. Contains(mounts', n) <=> Contains(mounts, n)
    BY <1>6, <1>13
  <2>. QED
    BY <2>1, <2>2 DEF RefInv, CountOK
<1>14. \A u \in Task : ReadOK(u)'
  BY <1>2, <1>4 DEF RefInv, ReadOK
<1>. QED
  BY <1>4, <1>7, <1>9, <1>12, <1>13, <1>14 DEF RefInv

\* fs_unmount() returns the reference of the mount itself.
LEMMA UnmountInv ==
    ASSUME RefInv, UnmountedOnce, NEW t \in Task, NEW p \in MountPaths, Unmount(t, p)
    PROVE  RefInv'
<1>1. PICK m : m = find_mount(p)
  OBVIOUS
<1>2. m \in Mount /\ Contains(mounts, m)
  BY <1>1, FindMount DEF RefInv, Unmount
<1>3. /\ unmounts[m] < MaxUnmounts /\ put_mount(m)
      /\ unmounts' = [unmounts EXCEPT ![m] = @ + 1]
      /\ UNCHANGED << path, fds, pc, arg, leaked, seen, raced >>
  BY <1>1 DEF Unmount, history
<1>4. unmounts \in [Mount -> 0..MaxUnmounts] /\ MaxUnmounts \in Nat
  BY Types, VfsAssumption DEF RefInv
<1>5. /\ unmounts[m] = 0 /\ unmounts'[m] = 1 /\ unmounts' \in [Mount -> 0..MaxUnmounts]
      /\ \A n \in Mount : n # m => unmounts'[n] = unmounts[n]
  BY <1>2, <1>3, <1>4 DEF UnmountedOnce
<1>6. \A n \in Mount : Users(n)' = Users(n) /\ Users(n) \in Nat
  <2>1. ASSUME NEW n \in Mount PROVE Users(n)' = Users(n)
    <3>1. Handles(n)' = Handles(n) /\ Opening(n)' = Opening(n)
      BY <1>3 DEF Handles, Opening
    <3>. QED
      BY <1>3, <3>1 DEF Users
  <2>. QED
    BY <2>1, UsersNat DEF RefInv
<1>7. Owed(m)' = Owed(m) - 1 /\ \A n \in Mount : n # m => Owed(n)' = Owed(n)
  BY <1>2, <1>5, <1>6 DEF Owed
<1>8. \A n \in Mount : CountOK(n)'
  BY <1>2, <1>3, <1>6, <1>7, PutMountCounts
<1>9. mounts' \in Seq(Mount) /\ NoDuplicate(mounts') /\ ref' \in [Mount -> Nat]
  BY <1>2, <1>3, PutMountList DEF RefInv, CountOK
<1>10. TypeOK'
  BY <1>3, <1>5, <1>9 DEF RefInv, TypeOK
<1>11. \A u \in Task : ReadOK(u)'
  BY <1>3 DEF RefInv, ReadOK
<1>. QED
  BY <1>3, <1>8, <1>9, <1>10, <1>11 DEF RefInv

\* find_mount() takes a reference for the task that opens a file.
LEMMA OpenInv ==
    ASSUME RefInv, NEW t \in Task, NEW p \in Files, Open(t, p)
    PROVE  RefInv'
<1>1. PICK m : m = find_mount(p)
  OBVIOUS
<1>2. m \in Mount /\ Contains(mounts, m)
  BY <1>1, FindMount DEF RefInv, Open
<1>3. /\ pc[t] = "none" /\ ref' = [ref EXCEPT ![m] = @ + 1]
      /\ pc' = [pc EXCEPT ![t] = "open"] /\ arg' = [arg EXCEPT ![t] = m]
      /\ UNCHANGED << mounts, path, unmounts, fds, leaked, seen, raced >>
  BY <1>1 DEF Open, history
<1>4. ref \in [Mount -> Nat] /\ pc \in [Task -> Place] /\ DOMAIN arg = Task
  BY Types DEF RefInv
<1>5. /\ ref' \in [Mount -> Nat] /\ ref'[m] = ref[m] + 1 /\ ref[m] \in Nat
      /\ \A n \in Mount : n # m => ref'[n] = ref[n]
  BY <1>2, <1>3, <1>4
<1>6. /\ pc' \in [Task -> Place] /\ pc'[t] = "open" /\ DOMAIN arg' = Task /\ arg'[t] = m
      /\ \A u \in Task : u # t => pc'[u] = pc[u] /\ arg'[u] = arg[u]
  BY <1>3, <1>4 DEF Place
<1>7. TypeOK'
  BY <1>2, <1>3, <1>5, <1>6 DEF RefInv, TypeOK, Place
<1>8. \A n \in Mount : Handles(n)' = Handles(n) /\ leaked'[n] = leaked[n] /\ unmounts'[n] = unmounts[n]
  BY <1>3 DEF Handles
<1>9. CountOK(m)'
  <2>1. Cardinality(Opening(m)') = Cardinality(Opening(m)) + 1
    BY <1>3, <1>6, OpeningAdd
  <2>2. /\ Cardinality(Handles(m)) \in Nat /\ Cardinality(Opening(m)) \in Nat
        /\ leaked[m] \in Nat
    BY <1>2, FiniteUsers, UsersNat DEF RefInv
  <2>3. Users(m)' = Users(m) + 1 /\ Users(m) \in Nat
    BY <1>2, <1>8, <2>1, <2>2 DEF Users
  <2>4. Owed(m)' = Owed(m) + 1
    BY <1>2, <1>8, <2>3 DEF Owed
  <2>5. ref[m] = Owed(m)
    BY <1>2 DEF RefInv, CountOK
  <2>. QED
    BY <1>2, <1>3, <1>5, <2>4, <2>5 DEF CountOK
<1>10. ASSUME NEW n \in Mount, n # m PROVE CountOK(n)'
  <2>1. Opening(n)' = Opening(n)
    BY <1>3, <1>6, <1>10, OpeningKept
  <2>2. Users(n)' = Users(n)
    BY <1>8, <2>1 DEF Users
  <2>3. Owed(n)' = Owed(n) /\ ref'[n] = ref[n] /\ mounts' = mounts
    BY <1>3, <1>5, <1>8, <1>10, <2>2 DEF Owed
  <2>. QED
    BY <2>2, <2>3 DEF RefInv, CountOK
<1>11. \A u \in Task : ReadOK(u)'
  BY <1>3, <1>6 DEF RefInv, ReadOK
<1>. QED
  BY <1>3, <1>6, <1>7, <1>9, <1>10, <1>11 DEF RefInv

\* The task |t| is done with its open: what changes in pc and arg.
OpenEnds(t) ==
    /\ pc[t] = "open" /\ pc' = [pc EXCEPT ![t] = "none"] /\ arg' = [arg EXCEPT ![t] = << >>]

\* The mount that was being opened has one open less under way, another as many.
LEMMA OpenEndsCounts ==
    ASSUME RefInv, NEW t \in Task, NEW m, m = arg[t], OpenEnds(t)
    PROVE  /\ m \in Mount /\ Contains(mounts, m)
           /\ pc' \in [Task -> Place] /\ DOMAIN arg' = Task /\ pc'[t] = "none"
           /\ \A u \in Task : u # t => pc'[u] = pc[u] /\ arg'[u] = arg[u]
           /\ Cardinality(Opening(m)') = Cardinality(Opening(m)) - 1
           /\ \A n \in Mount : n # m => Opening(n)' = Opening(n)
<1>1. pc \in [Task -> Place] /\ DOMAIN arg = Task /\ m \in Mount
  BY Types DEF RefInv, OpenEnds
<1>2. Contains(mounts, m)
  <2>1. t \in Opening(m)
    BY DEF Opening, OpenEnds
  <2>. QED
    BY <1>1, <2>1, UserListed
<1>3. /\ pc' \in [Task -> Place] /\ DOMAIN arg' = Task /\ pc'[t] = "none"
      /\ \A u \in Task : u # t => pc'[u] = pc[u] /\ arg'[u] = arg[u]
  BY <1>1 DEF OpenEnds, Place
<1>4. Cardinality(Opening(m)') = Cardinality(Opening(m)) - 1
  <2>1. pc[t] = "open" /\ arg[t] = m
    BY DEF OpenEnds
  <2>. QED
    BY <1>3, <2>1, OpeningRemove
<1>5. ASSUME NEW n \in Mount, n # m PROVE Opening(n)' = Opening(n)
  BY <1>3, <1>5, OpeningKept DEF OpenEnds
<1>. QED
  BY <1>1, <1>2, <1>3, <1>4, <1>5

\* What is left to show of a step by which a mount loses a user: the mount returns the
\* reference, or keeps it for a handle that is lost.
LEMMA CloseHandleInv ==
    ASSUME RefInv, NEW m \in Mount, Contains(mounts, m), CloseHandle(m),
           UNCHANGED << path, unmounts, seen, raced >>,
           fds' \in [Task -> Table], pc' \in [Task -> Place], DOMAIN arg' = Task,
           \A u \in Task : pc'[u] \in { "open", "read" } => arg'[u] \in Mount,
           \A u \in Task : pc'[u] = "mount" => arg'[u] \in MountPaths,
           \A u \in Task : ReadOK(u)',
           Cardinality(Handles(m)') + Cardinality(Opening(m)')
                = Cardinality(Handles(m)) + Cardinality(Opening(m)) - 1,
           \A n \in Mount : n # m => Handles(n)' = Handles(n) /\ Opening(n)' = Opening(n)
    PROVE  RefInv'
<1>1. /\ \A n : Cardinality(Handles(n)) \in Nat /\ Cardinality(Opening(n)) \in Nat
      /\ \A n : Cardinality(Handles(n)') \in Nat /\ Cardinality(Opening(n)') \in Nat
  BY FiniteUsers
<1>2. leaked \in [Mount -> 0..MaxLeaks] /\ MaxLeaks \in Nat
  BY Types, VfsAssumption DEF RefInv
<1>3. unmounts' = unmounts /\ path' = path /\ seen' = seen /\ raced' = raced
  OBVIOUS
<1>4. CASE put_mount(m) /\ UNCHANGED leaked
  <2>1. mounts' \in Seq(Mount) /\ NoDuplicate(mounts') /\ ref' \in [Mount -> Nat]
    BY <1>4, PutMountList DEF RefInv, CountOK
  <2>2. TypeOK'
    BY <1>3, <1>4, <2>1 DEF RefInv, TypeOK, Table, Place
  <2>3. Users(m)' = Users(m) - 1 /\ Users(m) \in Int /\ Users(m)' \in Nat
    BY <1>1, <1>2, <1>4 DEF Users
  <2>4. Owed(m)' = Owed(m) - 1
    BY <1>3, <2>3 DEF Owed
  <2>5. \A n \in Mount : n # m => Owed(n)' = Owed(n) /\ Users(n)' = Users(n)
    BY <1>3, <1>4 DEF Owed, Users
  <2>6. \A n \in Mount : CountOK(n)'
    BY <1>4, <2>3, <2>4, <2>5, PutMountCounts
  <2>. QED
    BY <2>1, <2>2, <2>6 DEF RefInv
<1>5. CASE /\ leaked[m] < MaxLeaks /\ leaked' = [leaked EXCEPT ![m] = @ + 1]
           /\ UNCHANGED << mounts, ref >>
  <2>1. /\ leaked' \in [Mount -> 0..MaxLeaks] /\ leaked'[m] = leaked[m] + 1 /\ leaked[m] \in Nat
        /\ \A n \in Mount : n # m => leaked'[n] = leaked[n]
    BY <1>2, <1>5
  <2>2. TypeOK'
    BY <1>3, <1>5, <2>1 DEF RefInv, TypeOK, Table, Place
  <2>3. Users(m)' = Users(m)
    BY <1>1, <2>1 DEF Users
  <2>4. \A n \in Mount : n # m => Users(n)' = Users(n)
    BY <2>1 DEF Users
  <2>5. \A n \in Mount : CountOK(n)'
    BY <1>3, <1>5, <2>3, <2>4, CountKept
  <2>. QED
    BY <1>5, <2>2, <2>5 DEF RefInv, NoDuplicate
<1>. QED
  BY <1>4, <1>5 DEF CloseHandle

\* The file system reports an error: the reference of the open is returned.
LEMMA OpenFailsInv ==
    ASSUME RefInv, NEW t \in Task, OpenFails(t)
    PROVE  RefInv'
<1>1. PICK m : m = arg[t]
  OBVIOUS
<1>2. CloseHandle(m) /\ OpenEnds(t) /\ fds' = fds /\ UNCHANGED << path, unmounts, seen, raced >>
  BY <1>1 DEF OpenFails, CloseHandle, OpenEnds, history
<1>3. /\ m \in Mount /\ Contains(mounts, m)
      /\ pc' \in [Task -> Place] /\ DOMAIN arg' = Task /\ pc'[t] = "none"
      /\ \A u \in Task : u # t => pc'[u] = pc[u] /\ arg'[u] = arg[u]
      /\ Cardinality(Opening(m)') = Cardinality(Opening(m)) - 1
      /\ \A n \in Mount : n # m => Opening(n)' = Opening(n)
  BY <1>1, <1>2, OpenEndsCounts
<1>4. \A n \in Mount : Handles(n)' = Handles(n)
  BY <1>2 DEF Handles
<1>5. Cardinality(Handles(m)') + Cardinality(Opening(m)')
        = Cardinality(Handles(m)) + Cardinality(Opening(m)) - 1
  BY <1>3, <1>4, FiniteUsers
<1>6. /\ \A u \in Task : pc'[u] \in { "open", "read" } => arg'[u] \in Mount
      /\ \A u \in Task : pc'[u] = "mount" => arg'[u] \in MountPaths
  BY <1>3, Types DEF RefInv
<1>7. \A u \in Task : ReadOK(u)'
  BY <1>2, <1>3 DEF RefInv, ReadOK
<1>8. fds' \in [Task -> Table]
  BY <1>2, Types DEF RefInv
<1>. QED
  BY <1>2, <1>3, <1>4, <1>5, <1>6, <1>7, <1>8, CloseHandleInv

\* sys_close() gives up the handle of the descriptor.
LEMMA CloseInv ==
    ASSUME RefInv, NEW t \in Task, NEW fd \in Fd, Close(t, fd)
    PROVE  RefInv'
<1>1. PICK m : m = fds[t][fd]
  OBVIOUS
<1>2. /\ pc[t] = "none" /\ fd \in DOMAIN fds[t] /\ m \in Mount /\ CloseHandle(m)
      /\ fds' = [fds EXCEPT ![t][fd] = UNSET] /\ UNCHANGED << path, unmounts, pc, arg, seen, raced >>
  BY <1>1 DEF Close, history
<1>3. fds \in [Task -> Table] /\ DOMAIN fds = Task
  BY Types DEF RefInv
<1>4. fds[t] \in [Fd -> Mount \cup { UNSET, Garbage }]
  BY <1>2, <1>3 DEF Table
<1>5. m # UNSET
  BY <1>2, VfsAssumption
<1>6. /\ fds'[t] \in [Fd -> Mount \cup { UNSET, Garbage }] /\ fds'[t][fd] = UNSET
      /\ \A i \in Fd : i # fd => fds'[t][i] = fds[t][i]
      /\ \A u \in Task : u # t => fds'[u] = fds[u]
  BY <1>2, <1>3, <1>4
<1>7. fds' \in [Task -> Table]
  BY <1>2, <1>3, <1>6 DEF Table
<1>8. Contains(mounts, m)
  <2>1. << t, fd >> \in Handles(m)
    BY <1>1, <1>2 DEF Handles
  <2>. QED
    BY <1>2, <2>1, UserListed
<1>9. \A n \in Mount : Opening(n)' = Opening(n)
  BY <1>2 DEF Opening
<1>10. Cardinality(Handles(m)') = Cardinality(Handles(m)) - 1
  <2>1. \A u \in Task, i \in Fd : (i \in DOMAIN fds'[u] /\ fds'[u][i] = m) <=>
                (i \in DOMAIN fds[u] /\ fds[u][i] = m) /\ ~(u = t /\ i = fd)
    BY <1>4, <1>5, <1>6
  <2>. QED
    BY <1>1, <1>2, <2>1, HandlesRemove
<1>11. ASSUME NEW n \in Mount, n # m PROVE Handles(n)' = Handles(n)
  <2>1. n # UNSET
    BY VfsAssumption
  <2>2. \A u \in Task, i \in Fd : (i \in DOMAIN fds'[u] /\ fds'[u][i] = n) <=>
                (i \in DOMAIN fds[u] /\ fds[u][i] = n)
    BY <1>1, <1>4, <1>6, <1>11, <2>1
  <2>. QED
    BY <2>2, HandlesKept
<1>12. Cardinality(Handles(m)') + Cardinality(Opening(m)')
        = Cardinality(Handles(m)) + Cardinality(Opening(m)) - 1
  BY <1>2, <1>9, <1>10, FiniteUsers
<1>13. /\ pc' \in [Task -> Place] /\ DOMAIN arg' = Task
       /\ \A u \in Task : pc'[u] \in { "open", "read" } => arg'[u] \in Mount
       /\ \A u \in Task : pc'[u] = "mount" => arg'[u] \in MountPaths
  BY <1>2, Types DEF RefInv
<1>14. \A u \in Task : ReadOK(u)'
  BY <1>2, <1>6 DEF RefInv, ReadOK
<1>. QED
  BY <1>2, <1>7, <1>8, <1>9, <1>11, <1>12, <1>13, <1>14, CloseHandleInv

\* The table task_put_desc() works on refers to the mounts the task's does.
LEMMA TableOf ==
    ASSUME TypeOK, NEW t \in Task, NEW table \in Tables(t)
    PROVE  /\ table \in [Fd -> Mount \cup { UNSET, Garbage }]
           /\ \A m \in Mount, i \in Fd : table[i] = m <=> i \in DOMAIN fds[t] /\ fds[t][i] = m
<1>1. fds[t] \in Table
  BY Types
<1>2. CASE fds[t] = << >>
  <2>1. table \in [Fd -> { UNSET, Garbage }]
    BY <1>2 DEF Tables, NewTable
  <2>2. \A m \in Mount, i \in Fd : table[i] # m
    BY <2>1, VfsAssumption
  <2>3. DOMAIN fds[t] = {}
    BY <1>2
  <2>. QED
    BY <2>1, <2>2, <2>3
<1>3. CASE fds[t] # << >>
  BY <1>1, <1>3 DEF Tables, Table
<1>. QED
  BY <1>2, <1>3

\* The handle is given the first free descriptor, or closed again.
LEMMA OpenDoneInv ==
    ASSUME RefInv, NEW t \in Task, OpenDone(t)
    PROVE  RefInv'
<1>1. PICK m : m = arg[t]
  OBVIOUS
<1>2. PICK table \in Tables(t) :
         LET free == { i \in Fd : table[i] = UNSET }
         IN \/ /\ free # {}
               /\ fds' = [fds EXCEPT ![t] =
                      [table EXCEPT ![CHOOSE i \in free : \A j \in free : i <= j] = m]]
               /\ UNCHANGED << mounts, ref, leaked >>
            \/ free = {} /\ CloseHandle(m) /\ fds' = [fds EXCEPT ![t] = table]
  BY <1>1 DEF OpenDone
<1>. DEFINE free == { i \in Fd : table[i] = UNSET }
<1>3. OpenEnds(t) /\ UNCHANGED << path, unmounts, seen, raced >>
  BY DEF OpenDone, OpenEnds, history
<1>4. /\ m \in Mount /\ Contains(mounts, m)
      /\ pc' \in [Task -> Place] /\ DOMAIN arg' = Task /\ pc'[t] = "none"
      /\ \A u \in Task : u # t => pc'[u] = pc[u] /\ arg'[u] = arg[u]
      /\ Cardinality(Opening(m)') = Cardinality(Opening(m)) - 1
      /\ \A n \in Mount : n # m => Opening(n)' = Opening(n)
  BY <1>1, <1>3, OpenEndsCounts
<1>5. /\ table \in [Fd -> Mount \cup { UNSET, Garbage }]
      /\ \A n \in Mount, i \in Fd : table[i] = n <=> i \in DOMAIN fds[t] /\ fds[t][i] = n
  BY TableOf DEF RefInv
<1>6. fds \in [Task -> Table] /\ DOMAIN fds = Task
  BY Types DEF RefInv
<1>7. /\ \A u \in Task : pc'[u] \in { "open", "read" } => arg'[u] \in Mount
      /\ \A u \in Task : pc'[u] = "mount" => arg'[u] \in MountPaths
  BY <1>4, Types DEF RefInv
<1>8. ASSUME \A u \in Task : u # t => fds'[u] = fds[u]
      PROVE  \A u \in Task : ReadOK(u)'
  BY <1>4, <1>8 DEF RefInv, ReadOK
<1>9. CASE /\ free # {} /\ UNCHANGED << mounts, ref, leaked >>
           /\ fds' = [fds EXCEPT ![t] =
                  [table EXCEPT ![CHOOSE i \in free : \A j \in free : i <= j] = m]]
  <2>1. PICK k : k = CHOOSE i \in free : \A j \in free : i <= j
    OBVIOUS
  <2>2. k \in free
    <3>1. free \subseteq Nat
      BY VfsAssumption DEF Fd
    <3>2. \E i \in free : \A j \in free : i <= j
      BY <1>9, <3>1, FirstExists DEF IsFirst
    <3>. QED
      BY <2>1, <3>2
  <2>3. k \in Fd /\ table[k] = UNSET
    BY <1>2, <2>2
  <2>4. fds' = [fds EXCEPT ![t] = [table EXCEPT ![k] = m]]
    BY <1>9, <2>1
  <2>5. /\ fds'[t] \in [Fd -> Mount \cup { UNSET, Garbage }] /\ fds'[t][k] = m
        /\ \A i \in Fd : i # k => fds'[t][i] = table[i]
        /\ \A u \in Task : u # t => fds'[u] = fds[u]
    BY <1>4, <1>5, <1>6, <2>3, <2>4
  <2>6. fds' \in [Task -> Table]
    BY <1>6, <2>4, <2>5 DEF Table
  <2>7. \A n \in Mount : table[k] # n
    BY <2>3, VfsAssumption
  <2>8. Cardinality(Handles(m)') = Cardinality(Handles(m)) + 1
    <3>1. ~(k \in DOMAIN fds[t] /\ fds[t][k] = m)
      BY <1>4, <1>5, <2>3, <2>7
    <3>2. \A u \in Task, i \in Fd : (i \in DOMAIN fds'[u] /\ fds'[u][i] = m) <=>
                (i \in DOMAIN fds[u] /\ fds[u][i] = m) \/ (u = t /\ i = k)
      BY <1>4, <1>5, <2>5
    <3>. QED
      BY <2>3, <3>1, <3>2, HandlesAdd
  <2>9. ASSUME NEW n \in Mount, n # m PROVE Handles(n)' = Handles(n)
    <3>1. \A u \in Task, i \in Fd : (i \in DOMAIN fds'[u] /\ fds'[u][i] = n) <=>
                (i \in DOMAIN fds[u] /\ fds[u][i] = n)
      BY <1>5, <2>5, <2>7, <2>9
    <3>. QED
      BY <3>1, HandlesKept
  <2>10. ASSUME NEW n \in Mount PROVE Users(n)' = Users(n)
    <3>1. CASE n = m
      <4>1. /\ Cardinality(Handles(m)) \in Nat /\ Cardinality(Opening(m)) \in Nat
            /\ leaked'[m] = leaked[m]
        BY <1>9, FiniteUsers
      <4>. QED
        BY <1>4, <2>8, <3>1, <4>1 DEF Users
    <3>2. CASE n # m
      BY <1>4, <1>9, <2>9, <3>2 DEF Users
    <3>. QED
      BY <3>1, <3>2
  <2>11. \A n \in Mount : CountOK(n)'
    BY <1>3, <1>9, <2>10, CountKept
  <2>12. TypeOK'
    BY <1>3, <1>4, <1>7, <1>9, <2>6 DEF RefInv, TypeOK, Table, Place
  <2>. QED
    BY <1>4, <1>8, <1>9, <2>5, <2>11, <2>12 DEF RefInv, NoDuplicate
<1>10. CASE CloseHandle(m) /\ fds' = [fds EXCEPT ![t] = table]
  <2>1. /\ fds'[t] = table /\ \A u \in Task : u # t => fds'[u] = fds[u]
        /\ fds' \in [Task -> Table]
    BY <1>5, <1>6, <1>10 DEF Table
  <2>2. ASSUME NEW n \in Mount PROVE Handles(n)' = Handles(n)
    <3>1. \A u \in Task, i \in Fd : (i \in DOMAIN fds'[u] /\ fds'[u][i] = n) <=>
                (i \in DOMAIN fds[u] /\ fds[u][i] = n)
      BY <1>5, <2>1
    <3>. QED
      BY <3>1, HandlesKept
  <2>3. Cardinality(Handles(m)') + Cardinality(Opening(m)')
          = Cardinality(Handles(m)) + Cardinality(Opening(m)) - 1
    BY <1>4, <2>2, FiniteUsers
  <2>. QED
    BY <1>3, <1>4, <1>7, <1>8, <1>10, <2>1, <2>2, <2>3, CloseHandleInv
<1>. QED
  BY <1>2, <1>9, <1>10

\* Every step keeps the counts, if no mount is unmounted twice.
LEMMA RefInvNext ==
    ASSUME UnmountedOnce, RefInv, [Next]_vars
    PROVE  RefInv'
<1>1. pc \in [Task -> Place] /\ DOMAIN arg = Task /\ HistoryOK
  BY Types DEF RefInv
<1>2. ASSUME NEW t \in Task, NEW p \in MountPaths, MountCall(t, p) PROVE RefInv'
  <2>1. pc'[t] = "mount" /\ arg'[t] = p /\ HistoryOK'
    BY <1>1, <1>2 DEF MountCall, history, HistoryOK
  <2>. QED
    BY <1>1, <1>2, <2>1, QuietInv DEF MountCall, Place
<1>3. ASSUME NEW t \in Task, MountFails(t) \/ ReadDone(t) PROVE RefInv'
  <2>1. pc'[t] = "none" /\ HistoryOK'
    BY <1>1, <1>3 DEF MountFails, ReadDone, history, HistoryOK
  <2>. QED
    BY <1>1, <1>3, <2>1, QuietInv DEF MountFails, ReadDone, Place
<1>4. ASSUME NEW t \in Task, NEW fd \in Fd, Read(t, fd) PROVE RefInv'
  <2>1. pc'[t] = "read" /\ arg'[t] = fds[t][fd] /\ HistoryOK'
    BY <1>1, <1>4 DEF Read, history, HistoryOK
  <2>. QED
    BY <1>1, <1>4, <2>1, QuietInv DEF Read, Place
<1>5. ASSUME NEW t \in Task, Exit(t) PROVE RefInv'
  <2>1. pc'[t] = "dead" /\ HistoryOK'
    BY <1>1, <1>5 DEF Exit, history, HistoryOK
  <2>. QED
    BY <1>1, <1>5, <2>1, QuietInv DEF Exit, Place
<1>6. CASE UNCHANGED vars
  BY <1>6, ZenonT(60) DEF vars, RefInv, TypeOK, NoDuplicate, CountOK, Owed, Users, Handles, Opening, ReadOK
<1>. QED
  BY <1>2, <1>3, <1>4, <1>5, <1>6, UnmountInv, MountDoneInv, OpenInv, OpenDoneInv, OpenFailsInv,
     CloseInv DEF Next

-----------------------------------------------------------------------------
(* The paths of the mounts.                                                *)

\* Steps that mount nothing: some mounts leave the list, the others keep their order.
LEMMA PathKept ==
    ASSUME PathInv, UNCHANGED << path, raced >>, HistoryOK', mounts' \in Seq(Mount),
           pc' \in [Task -> Place], DOMAIN arg' = Task,
           NEW src, \A i \in 1..Len(mounts') : src[i] \in 1..Len(mounts) /\ mounts'[i] = mounts[src[i]],
           \A i, j \in 1..Len(mounts') : i < j => src[i] < src[j],
           \A u \in Task : pc'[u] = "mount" => /\ pc[u] = "mount" /\ arg'[u] = arg[u]
                                               /\ seen'[u] = seen[u]
    PROVE  PathInv'
<1>1. \A m \in Mount : Contains(mounts', m) => Contains(mounts, m)
  BY DEF Contains
<1>2. SeenInv'
  BY <1>1 DEF PathInv, SeenInv
<1>3. LaterMountsRaced'
  BY DEF PathInv, LaterMountsRaced
<1>. QED
  BY <1>2, <1>3 DEF PathInv, Place

\* put_mount() keeps the order of the mounts that stay.
LEMMA PutKeepsOrder ==
    ASSUME mounts \in Seq(Mount), NEW m, put_mount(m) \/ CloseHandle(m)
    PROVE  /\ mounts' \in Seq(Mount)
           /\ \E src : /\ \A i \in 1..Len(mounts') : /\ src[i] \in 1..Len(mounts)
                                                     /\ mounts'[i] = mounts[src[i]]
                      /\ \A i, j \in 1..Len(mounts') : i < j => src[i] < src[j]
<1>1. Len(mounts) \in Nat
  BY LenProperties
<1>2. CASE mounts' = mounts
  <2>1. PICK src : src = [ i \in 1..Len(mounts) |-> i ]
    OBVIOUS
  <2>2. /\ \A i \in 1..Len(mounts') : src[i] \in 1..Len(mounts) /\ mounts'[i] = mounts[src[i]]
        /\ \A i, j \in 1..Len(mounts') : i < j => src[i] < src[j]
    BY <1>2, <2>1
  <2>. QED
    BY <1>2, <2>2
<1>3. CASE mounts' # mounts
  <2>1. mounts' = RemoveFirst(mounts, m)
    BY <1>3 DEF put_mount, CloseHandle
  <2>2. PICK S : S = { i \in 1..Len(mounts) : mounts[i] = m }
    OBVIOUS
  <2>3. S \subseteq Nat /\ S # {}
    BY <1>1, <1>3, <2>1, <2>2 DEF RemoveFirst
  <2>4. PICK k \in S : \A j \in S : k <= j
    BY <2>3, FirstExists DEF IsFirst
  <2>5. Min(S) \in S
    BY <2>4 DEF Min
  <2>6. RemoveFirst(mounts, m) = RemoveAt(mounts, Min(S))
    BY <2>2, <2>4 DEF RemoveFirst, SelectInSeq
  <2>7. PICK l \in 1..Len(mounts) : mounts' = RemoveAt(mounts, l)
    BY <2>1, <2>2, <2>5, <2>6
  <2>8. /\ mounts' \in Seq(Mount) /\ Len(mounts') = Len(mounts) - 1
        /\ \A j \in 1..(Len(mounts) - 1) : mounts'[j] = IF j < l THEN mounts[j] ELSE mounts[j + 1]
    BY <2>7, RemoveAtProperties
  <2>9. PICK src : src = [ i \in 1..Len(mounts') |-> IF i < l THEN i ELSE i + 1 ]
    OBVIOUS
  <2>10. \A i \in 1..Len(mounts') : src[i] \in 1..Len(mounts) /\ mounts'[i] = mounts[src[i]]
    BY <1>1, <2>8, <2>9
  <2>11. \A i, j \in 1..Len(mounts') : i < j => src[i] < src[j]
    BY <1>1, <2>8, <2>9
  <2>. QED
    BY <2>8, <2>10, <2>11
<1>. QED
  BY <1>2, <1>3

\* Steps that give a reference up, or none.
LEMMA PathKeptByPut ==
    ASSUME PathInv, UNCHANGED << path, seen, raced >>,
           pc' \in [Task -> Place], DOMAIN arg' = Task,
           \A u \in Task : pc'[u] = "mount" => pc[u] = "mount" /\ arg'[u] = arg[u],
           NEW m, mounts' = mounts \/ put_mount(m) \/ CloseHandle(m)
    PROVE  PathInv'
<1>1. mounts \in Seq(Mount) /\ HistoryOK'
  BY DEF PathInv, HistoryOK
<1>2. CASE mounts' = mounts
  <2>1. SeenInv' /\ LaterMountsRaced'
    BY <1>2 DEF PathInv, SeenInv, LaterMountsRaced
  <2>. QED
    BY <1>1, <1>2, <2>1 DEF PathInv, Place
<1>3. CASE put_mount(m) \/ CloseHandle(m)
  <2>1. mounts' \in Seq(Mount)
    BY <1>1, <1>3, PutKeepsOrder
  <2>2. PICK src : /\ \A i \in 1..Len(mounts') : /\ src[i] \in 1..Len(mounts)
                                                 /\ mounts'[i] = mounts[src[i]]
                   /\ \A i, j \in 1..Len(mounts') : i < j => src[i] < src[j]
    BY <1>1, <1>3, PutKeepsOrder
  <2>. QED
    BY <1>1, <2>1, <2>2, PathKept
<1>. QED
  BY <1>2, <1>3

\* A mount is asked for only where find_mount() finds nothing.
LEMMA MountCallPaths ==
    ASSUME PathInv, NEW t \in Task, NEW p \in MountPaths, MountCall(t, p)
    PROVE  PathInv'
<1>1. pc \in [Task -> Place] /\ DOMAIN arg = Task
  BY DEF PathInv, Place
<1>2. /\ Matches(p) = {} /\ arg'[t] = p /\ pc' \in [Task -> Place] /\ DOMAIN arg' = Task
      /\ \A u \in Task : u # t => pc'[u] = pc[u] /\ arg'[u] = arg[u]
      /\ UNCHANGED << mounts, path, seen, raced >>
  BY <1>1 DEF MountCall, history, Place
<1>3. \A m \in Mount : Contains(mounts, m) => ~IsPrefix(path[m], p)
  BY <1>2 DEF Matches, Contains
<1>4. SeenInv'
  BY <1>2, <1>3 DEF PathInv, SeenInv
<1>5. LaterMountsRaced' /\ HistoryOK'
  BY <1>2 DEF PathInv, LaterMountsRaced, HistoryOK
<1>. QED
  BY <1>2, <1>4, <1>5 DEF PathInv, Place

\* The mount is new to the calls under way, and what its own call has seen is all
\* that is listed at or above its path.
LEMMA MountDonePaths ==
    ASSUME PathInv, NEW t \in Task, MountDone(t)
    PROVE  PathInv'
<1>1. PICK m \in Mount :
         /\ ~Contains(mounts, m) /\ mounts' = << m >> \o mounts
         /\ path' = [path EXCEPT ![m] = arg[t]]
         /\ raced' = [ n \in Mount |-> IF n = m THEN seen[t] ELSE raced[n] \ { m } ]
         /\ seen' = [ u \in Task |-> IF u = t THEN {}
                                     ELSE IF pc[u] = "mount" THEN seen[u] \cup { m }
                                     ELSE seen[u] ]
  BY DEF MountDone
<1>2. /\ mounts \in Seq(Mount) /\ DOMAIN path = Mount /\ pc \in [Task -> Place]
      /\ DOMAIN arg = Task /\ pc[t] = "mount" /\ HistoryOK
      /\ pc' = [pc EXCEPT ![t] = "none"] /\ arg' = [arg EXCEPT ![t] = << >>]
  BY DEF PathInv, MountDone, Place
<1>3. /\ pc' \in [Task -> Place] /\ DOMAIN arg' = Task /\ pc'[t] = "none"
      /\ \A u \in Task : u # t => pc'[u] = pc[u] /\ arg'[u] = arg[u]
  BY <1>2 DEF Place
<1>4. DOMAIN path' = Mount /\ path'[m] = arg[t] /\ \A n \in Mount : n # m => path'[n] = path[n]
  BY <1>1, <1>2
<1>5. /\ mounts' \in Seq(Mount) /\ Len(mounts') = Len(mounts) + 1 /\ mounts'[1] = m
      /\ \A i \in 1..Len(mounts') : i # 1 => mounts'[i] = mounts[i - 1]
      /\ Len(mounts) \in Nat
  <2>1. << m >> \in Seq(Mount) /\ Len(<< m >>) = 1 /\ << m >>[1] = m /\ Len(mounts) \in Nat
    BY <1>2, LenProperties
  <2>2. /\ mounts' \in Seq(Mount) /\ Len(mounts') = Len(mounts) + 1
        /\ \A j \in 1..Len(mounts') :
              mounts'[j] = IF j <= Len(<< m >>) THEN << m >>[j] ELSE mounts[j - Len(<< m >>)]
    BY <1>1, <1>2, <2>1, ConcatProperties
  <2>. QED
    BY <2>1, <2>2
<1>6. ASSUME NEW i \in 1..Len(mounts'), i # 1
      PROVE  /\ i - 1 \in 1..Len(mounts) /\ mounts'[i] = mounts[i - 1]
             /\ mounts'[i] \in Mount /\ mounts'[i] # m /\ Contains(mounts, mounts'[i])
             /\ path'[mounts'[i]] = path[mounts[i - 1]]
  <2>1. i - 1 \in 1..Len(mounts) /\ mounts'[i] = mounts[i - 1]
    BY <1>5, <1>6
  <2>2. mounts[i - 1] \in Mount /\ Contains(mounts, mounts[i - 1])
    BY <1>2, <2>1, ElementOfSeq DEF Contains
  <2>3. mounts[i - 1] # m
    BY <1>1, <2>2
  <2>. QED
    BY <1>4, <2>1, <2>2, <2>3
<1>7. LaterMountsRaced'
  <2>1. SUFFICES ASSUME NEW i \in 1..Len(mounts'), NEW j \in 1..Len(mounts'), i < j,
                        IsPrefix(path'[mounts'[j]], path'[mounts'[i]])
                 PROVE  mounts'[j] \in raced'[mounts'[i]]
    BY DEF LaterMountsRaced
  <2>2. j # 1
    BY <1>5, <2>1
  <2>3. CASE i = 1
    <3>1. mounts'[i] = m /\ raced'[m] = seen[t]
      BY <1>1, <1>5, <2>3
    <3>2. IsPrefix(path[mounts'[j]], arg[t])
      BY <1>4, <1>6, <2>1, <2>2, <3>1
    <3>3. mounts'[j] \in seen[t]
      BY <1>2, <1>6, <2>2, <3>2 DEF PathInv, SeenInv
    <3>. QED
      BY <3>1, <3>3
  <2>4. CASE i # 1
    <3>1. i - 1 < j - 1
      BY <1>5, <2>1
    <3>2. mounts[j - 1] \in raced[mounts[i - 1]]
      BY <1>6, <2>1, <2>2, <2>4, <3>1 DEF PathInv, LaterMountsRaced
    <3>3. raced'[mounts'[i]] = raced[mounts'[i]] \ { m }
      BY <1>1, <1>6, <2>4
    <3>. QED
      BY <1>6, <2>2, <2>4, <3>2, <3>3
  <2>. QED
    BY <2>3, <2>4
<1>8. SeenInv'
  <2>1. SUFFICES ASSUME NEW u \in Task, NEW n \in Mount, pc'[u] = "mount",
                        Contains(mounts', n), IsPrefix(path'[n], arg'[u])
                 PROVE  n \in seen'[u]
    BY DEF SeenInv
  <2>2. u # t /\ pc[u] = "mount" /\ arg'[u] = arg[u] /\ seen'[u] = seen[u] \cup { m }
    BY <1>1, <1>3, <2>1
  <2>3. CASE n = m
    BY <2>2, <2>3
  <2>4. CASE n # m
    <3>1. PICK i \in 1..Len(mounts') : mounts'[i] = n
      BY <2>1 DEF Contains
    <3>2. Contains(mounts, n) /\ path'[n] = path[n]
      BY <1>4, <1>5, <1>6, <2>4, <3>1
    <3>3. n \in seen[u]
      BY <2>1, <2>2, <3>2 DEF PathInv, SeenInv
    <3>. QED
      BY <2>2, <3>3
  <2>. QED
    BY <2>3, <2>4
<1>9. HistoryOK'
  BY <1>2, MountDoneHistory
<1>. QED
  BY <1>3, <1>4, <1>5, <1>7, <1>8, <1>9 DEF PathInv, Place

\* Every step keeps the invariant of the paths.
LEMMA PathInvNext ==
    ASSUME PathInv, [Next]_vars
    PROVE  PathInv'
<1>1. pc \in [Task -> Place] /\ DOMAIN arg = Task
  BY DEF PathInv, Place
<1>2. ASSUME NEW t \in Task, ReadDone(t) \/ Exit(t) PROVE PathInv'
  <2>1. /\ pc' \in [Task -> Place] /\ DOMAIN arg' = Task
        /\ \A u \in Task : pc'[u] = "mount" => pc[u] = "mount" /\ arg'[u] = arg[u]
        /\ UNCHANGED << path, seen, raced, mounts >>
    BY <1>1, <1>2 DEF ReadDone, Exit, Place, history
  <2>. QED
    BY <2>1, PathKeptByPut
<1>3. ASSUME NEW t \in Task, NEW fd \in Fd, Read(t, fd) PROVE PathInv'
  <2>1. /\ pc' \in [Task -> Place] /\ DOMAIN arg' = Task
        /\ \A u \in Task : pc'[u] = "mount" => pc[u] = "mount" /\ arg'[u] = arg[u]
        /\ UNCHANGED << path, seen, raced, mounts >>
    BY <1>1, <1>3 DEF Read, Place, history
  <2>. QED
    BY <2>1, PathKeptByPut
<1>4. ASSUME NEW t \in Task, NEW p \in Files, Open(t, p) PROVE PathInv'
  <2>1. /\ pc' \in [Task -> Place] /\ DOMAIN arg' = Task
        /\ \A u \in Task : pc'[u] = "mount" => pc[u] = "mount" /\ arg'[u] = arg[u]
        /\ UNCHANGED << path, seen, raced, mounts >>
    BY <1>1, <1>4 DEF Open, Place, history
  <2>. QED
    BY <2>1, PathKeptByPut
<1>5. ASSUME NEW t \in Task, NEW p \in MountPaths, Unmount(t, p) PROVE PathInv'
  <2>1. put_mount(find_mount(p)) /\ UNCHANGED << path, seen, raced, pc, arg >>
    BY <1>5 DEF Unmount, history
  <2>. QED
    BY <1>1, <2>1, PathKeptByPut
<1>6. ASSUME NEW t \in Task, OpenFails(t) \/ OpenDone(t) PROVE PathInv'
  <2>1. /\ pc' \in [Task -> Place] /\ DOMAIN arg' = Task
        /\ \A u \in Task : pc'[u] = "mount" => pc[u] = "mount" /\ arg'[u] = arg[u]
    BY <1>1, <1>6 DEF OpenFails, OpenDone, Place
  <2>2. UNCHANGED << path, seen, raced >>
    BY <1>6 DEF OpenFails, OpenDone, history
  <2>3. mounts' = mounts \/ put_mount(arg[t]) \/ CloseHandle(arg[t])
    BY <1>6 DEF OpenFails, OpenDone
  <2>. QED
    BY <2>1, <2>2, <2>3, PathKeptByPut
<1>7. ASSUME NEW t \in Task, NEW fd \in Fd, Close(t, fd) PROVE PathInv'
  <2>1. CloseHandle(fds[t][fd]) /\ UNCHANGED << path, seen, raced, pc, arg >>
    BY <1>7 DEF Close, history
  <2>. QED
    BY <1>1, <2>1, PathKeptByPut
<1>8. ASSUME NEW t \in Task, MountFails(t) PROVE PathInv'
  <2>1. /\ pc' \in [Task -> Place] /\ DOMAIN arg' = Task
        /\ \A u \in Task : pc'[u] = "mount" => pc[u] = "mount" /\ u # t /\ arg'[u] = arg[u]
        /\ seen' = [seen EXCEPT ![t] = {}] /\ UNCHANGED << path, raced, mounts >>
    BY <1>1, <1>8 DEF MountFails, Place
  <2>2. HistoryOK' /\ \A u \in Task : u # t => seen'[u] = seen[u]
    BY <2>1 DEF PathInv, HistoryOK
  <2>3. SeenInv' /\ LaterMountsRaced'
    BY <2>1, <2>2 DEF PathInv, SeenInv, LaterMountsRaced
  <2>. QED
    BY <2>1, <2>2, <2>3 DEF PathInv, Place
<1>9. CASE UNCHANGED vars
  BY <1>1, <1>9, PathKeptByPut DEF vars
<1>. QED
  BY <1>2, <1>3, <1>4, <1>5, <1>6, <1>7, <1>8, <1>9, MountCallPaths, MountDonePaths DEF Next

-----------------------------------------------------------------------------
(* The theorems.                                                           *)

\* The invariant holds in every state.
LEMMA RefInvariant == ASSUME UnmountedOnce PROVE Spec => []RefInv
<1>1. Init => RefInv
  BY RefInvInit
<1>2. RefInv /\ [Next]_vars => RefInv'
  BY RefInvNext
<1>. QED
  BY <1>1, <1>2, PTL DEF Spec

\* No error path of fs.c forgets a reference of a mount or returns one twice: the count
\* of a mount on the list is the number of its users, and one until it is unmounted.
THEOREM CountsExact == ASSUME UnmountedOnce PROVE Spec => []RefExact
<1>1. ASSUME RefInv, NEW m \in Mount, Contains(mounts, m)
      PROVE  ref[m] = (IF unmounts[m] = 0 THEN 1 ELSE 0)
                      + Cardinality(Handles(m)) + Cardinality(Opening(m)) + leaked[m]
  <2>1. ref[m] = Owed(m)
    BY <1>1 DEF RefInv, CountOK
  <2>2. /\ Cardinality(Handles(m)) \in Nat /\ Cardinality(Opening(m)) \in Nat
        /\ leaked[m] \in Nat
    BY <1>1, FiniteUsers, UsersNat DEF RefInv
  <2>. QED
    BY <2>1, <2>2 DEF Owed, Users
<1>2. RefInv => RefExact
  BY <1>1 DEF RefInv, RefExact
<1>. QED
  BY <1>2, RefInvariant, PTL

\* put_mount() never frees a mount that a handle refers to or that a task sleeps in.
THEOREM UsersKeepMount == ASSUME UnmountedOnce PROVE Spec => []MountOutlivesUse
<1>1. ASSUME RefInv, NEW m \in Mount, InUse(m) PROVE Contains(mounts, m)
  <2>1. leaked[m] \in Nat
    BY <1>1, UsersNat DEF RefInv
  <2>2. ASSUME NEW t \in Reading(m) PROVE Handles(m) # {}
    <3>1. PICK i \in Fd : i \in DOMAIN fds[t] /\ fds[t][i] = m
      BY <1>1 DEF RefInv, ReadOK, Reading
    <3>2. << t, i >> \in Handles(m)
      BY <3>1 DEF Handles, Reading
    <3>. QED
      BY <3>2
  <2>3. Handles(m) # {} \/ Opening(m) # {} \/ leaked[m] # 0
    BY <1>1, <2>1, <2>2 DEF InUse
  <2>. QED
    BY <1>1, <2>3, UserListed
<1>2. RefInv => MountOutlivesUse
  BY <1>1 DEF MountOutlivesUse
<1>. QED
  BY <1>2, RefInvariant, PTL

\* However many tasks mount and unmount at the same time: fs_mount() puts nothing at or
\* below the path of a mount but by a call that was already past its test when that
\* mount was listed.
THEOREM MountedOverByRaceOnly == Spec => []LaterMountsRaced
<1>1. Init => PathInv
  BY DEF Init, PathInv, SeenInv, LaterMountsRaced, HistoryOK
<1>2. PathInv /\ [Next]_vars => PathInv'
  BY PathInvNext
<1>3. PathInv => LaterMountsRaced
  BY DEF PathInv
<1>. QED
  BY <1>1, <1>2, <1>3, PTL DEF Spec

-----------------------------------------------------------------------------
(* fs_normalize_path() never leaves the string it is given and never       *)
(* overwrites what it has still to read, whatever the path and its length. *)

Src(k) == IF k < Len(arg0) THEN arg0[k + 1] ELSE Nul
Active == States \cup { "WALK_BACK" }

NormalizeTypeOK ==
    /\ arg0 \in Seq(Char \ { Nul })
    /\ buf \in [ 0..Len(arg0) -> Char ]
    /\ pos \in Nat /\ outpos \in Nat
    /\ pstate \in Active \cup { "idle", "done", "return" }

\* How far writing lags behind reading: dots are written after they were all read.
Lag ==
    /\ pos <= Len(arg0) /\ outpos <= pos
    /\ pstate \in { "SEEN_DOT", "DOTDOT" } => outpos + 1 <= pos
    /\ pstate \in { "SEEN_DOTDOT" } => outpos + 2 <= pos

\* The states that consume a character have it before them.
Ahead ==
    /\ pstate = "SEP" => buf[pos] = "/"
    /\ pstate \in { "DOT", "DOTDOT" } => buf[pos] = "."

\* The inductive invariant.
NormalizeInv ==
    /\ NormalizeTypeOK
    /\ pstate \in Active => Lag /\ Ahead /\ \A k \in pos..Len(arg0) : buf[k] = Src(k)
    /\ pstate \in { "idle", "done" } => outpos <= Len(arg0)
    /\ pstate = "return" => outpos <= Len(arg0) + 1

\* The terminator is where the string ends, and nowhere before.
LEMMA NulIsLast ==
    ASSUME NormalizeInv, pstate \in Active
    PROVE  /\ pos \in 0..Len(arg0) /\ Len(arg0) \in Nat
           /\ buf[pos] \in Char
           /\ buf[pos] # Nul => pos < Len(arg0)
<1> USE DEF NormalizeInv, NormalizeTypeOK, Lag
<1>1. pos \in 0..Len(arg0) /\ Len(arg0) \in Nat OBVIOUS
<1>2. buf[pos] = Src(pos) BY <1>1
<1> QED BY <1>1, <1>2 DEF Src

\* A step that writes nothing and reads at most the character before it.
LEMMA GotoInv ==
    ASSUME NormalizeInv, NEW n \in { 0, 1 }, NEW s \in Active \cup { "done" },
           pstate \in Active, Goto(s, n),
           n = 1 => buf[pos] # Nul,
           s \in { "SEP" } => n = 0 /\ buf[pos] = "/",
           s \in { "DOT", "DOTDOT" } => n = 0 /\ buf[pos] = ".",
           s \in { "DOTDOT" } => pstate \in { "SEEN_DOT" },
           s \in { "SEEN_DOT" } => n = 1,
           s \in { "SEEN_DOTDOT" } => n = 1 /\ pstate = "DOTDOT"
    PROVE  NormalizeInv'
<1>1. pos \in 0..Len(arg0) /\ Len(arg0) \in Nat /\ (buf[pos] # Nul => pos < Len(arg0)) BY NulIsLast
<1>2. pstate' = s /\ pos' = pos + n /\ arg0' = arg0 /\ buf' = buf /\ outpos' = outpos BY DEF Goto
<1>3. NormalizeTypeOK' BY <1>1, <1>2 DEF NormalizeInv, NormalizeTypeOK
<1>4. (outpos <= Len(arg0))' BY <1>1, <1>2 DEF NormalizeInv, NormalizeTypeOK, Lag
<1>5. Lag' BY <1>1, <1>2 DEF NormalizeInv, NormalizeTypeOK, Lag
<1>6. Ahead' BY <1>1, <1>2 DEF Ahead
<1>7. (\A k \in pos..Len(arg0) : buf[k] = Src(k))'
  BY <1>1, <1>2 DEF NormalizeInv, NormalizeTypeOK, Src
<1>8. s # "idle" /\ s # "return" BY DEF Active, States
<1> QED BY <1>2, <1>3, <1>4, <1>5, <1>6, <1>7, <1>8 DEF NormalizeInv

\* A step that writes one character, at or behind the one it reads.
LEMMA EmitInv ==
    ASSUME NormalizeInv, NEW n \in { 0, 1 }, NEW x \in Char, NEW s \in { "IN_FIELD", "SEEN_SEP" },
           pstate \in Active, Emit(x, s, n),
           n = 1 => buf[pos] # Nul,
           n = 0 => outpos + 1 <= pos
    PROVE  NormalizeInv'
<1>1. pos \in 0..Len(arg0) /\ Len(arg0) \in Nat /\ (buf[pos] # Nul => pos < Len(arg0)) BY NulIsLast
<1>2. /\ pstate' = s /\ pos' = pos + n /\ arg0' = arg0 /\ outpos' = outpos + 1
      /\ buf' = [buf EXCEPT ![outpos] = x]
  BY DEF Emit
<1>3. outpos \in Nat /\ outpos <= pos BY DEF NormalizeInv, NormalizeTypeOK, Lag
<1>4. NormalizeTypeOK'
  BY <1>1, <1>2, <1>3 DEF NormalizeInv, NormalizeTypeOK, Active, States
<1>5. Lag' /\ Ahead' BY <1>1, <1>2, <1>3 DEF Lag, Ahead
<1>6. (\A k \in pos..Len(arg0) : buf[k] = Src(k))'
  BY <1>1, <1>2, <1>3 DEF NormalizeInv, NormalizeTypeOK, Src
<1>7. s \in Active /\ s # "idle" /\ s # "return" /\ s # "done" BY DEF Active, States
<1> QED BY <1>2, <1>4, <1>5, <1>6, <1>7 DEF NormalizeInv

\* Every step of the machine keeps the invariant.
LEMMA PathStep ==
    ASSUME NormalizeInv, [PathNext]_pathvars
    PROVE  NormalizeInv'
<1> USE DEF Active, States
<1>c. pstate \in Active => buf[pos] \in Char BY NulIsLast
<1>n. Nul # "/" /\ Nul # "." BY DEF Nul
<1>1. ASSUME NEW p \in PathArgs, Normalize(p) PROVE NormalizeInv'
  <2>1. p \in Seq(Char \ { Nul })
    BY PathAssumption DEF Char, Nul
  <2>2. arg0' \in Seq(Char \ { Nul })
    BY <2>1, <1>1, PathAssumption DEF Normalize, Copied
  <2>3. NormalizeTypeOK' BY <2>2, <1>1 DEF Normalize, NormalizeTypeOK, Char
  <2>4. (Lag /\ Ahead)' BY <2>2, <1>1 DEF Normalize, Lag, Ahead
  <2>5. (\A k \in pos..Len(arg0) : buf[k] = Src(k))' BY <2>2, <1>1 DEF Normalize, Src
  <2> QED BY <1>1, <2>3, <2>4, <2>5 DEF NormalizeInv, Normalize
<1>2. CASE Initial
  <2>1. PICK s \in { "SEP", "DOT", "FIELD_START" } :
           Goto(s, 0) /\ (s = "SEP" => buf[pos] = "/") /\ (s = "DOT" => buf[pos] = ".")
    BY <1>2 DEF Initial, c
  <2> QED BY <1>2, <2>1, GotoInv DEF Initial
<1>3. CASE FieldStart
  <2>1. PICK s \in { "DOT", "done", "IN_FIELD" } :
           Goto(s, 0) /\ (s = "DOT" => buf[pos] = ".")
    BY <1>3 DEF FieldStart, c
  <2> QED BY <1>3, <2>1, GotoInv DEF FieldStart
<1>4. CASE InField
  <2>1. pstate = "IN_FIELD" BY <1>4 DEF InField
  <2>2. CASE buf[pos] = "/" /\ Goto("SEP", 0) BY <2>1, <2>2, GotoInv
  <2>3. CASE Goto("done", 0) BY <2>1, <2>3, GotoInv
  <2>4. CASE buf[pos] # Nul /\ Emit(buf[pos], "IN_FIELD", 1) BY <1>c, <2>1, <2>4, EmitInv
  <2> QED BY <1>4, <2>2, <2>3, <2>4 DEF InField, c
<1>5. CASE Sep
  <2>1. buf[pos] = "/" BY <1>5 DEF Sep, NormalizeInv, Ahead
  <2> QED BY <1>5, <1>n, <2>1, EmitInv DEF Sep, Char
<1>6. CASE SeenSep
  <2>1. pstate = "SEEN_SEP" BY <1>6 DEF SeenSep
  <2>2. CASE buf[pos] = "/" /\ Goto("SEEN_SEP", 1) BY <1>n, <2>1, <2>2, GotoInv
  <2>3. CASE Goto("done", 0) BY <2>1, <2>3, GotoInv
  <2>4. CASE Goto("FIELD_START", 0) BY <2>1, <2>4, GotoInv
  <2> QED BY <1>6, <2>2, <2>3, <2>4 DEF SeenSep, c
<1>7. CASE Dot
  <2>1. buf[pos] = "." BY <1>7 DEF Dot, NormalizeInv, Ahead
  <2> QED BY <1>7, <1>n, <2>1, GotoInv DEF Dot
<1>8. CASE SeenDot
  <2>1. pstate = "SEEN_DOT" BY <1>8 DEF SeenDot
  <2>2. CASE buf[pos] = "." /\ Goto("DOTDOT", 0) BY <2>1, <2>2, GotoInv
  <2>3. CASE buf[pos] = "/" /\ Goto("SEEN_SEP", 1) BY <1>n, <2>1, <2>3, GotoInv
  <2>4. CASE Goto("done", 0) BY <2>1, <2>4, GotoInv
  <2>5. CASE Emit(".", "IN_FIELD", 0)
    BY <2>1, <2>5, EmitInv DEF Char, NormalizeInv, Lag
  <2> QED BY <1>8, <2>2, <2>3, <2>4, <2>5 DEF SeenDot, c
<1>9. CASE DotDot
  <2>1. buf[pos] = "." BY <1>9 DEF DotDot, NormalizeInv, Ahead
  <2> QED BY <1>9, <1>n, <2>1, GotoInv DEF DotDot
<1>10. CASE SeenDotDot
  <2>1. /\ pos \in 0..Len(arg0) /\ Len(arg0) \in Nat /\ outpos \in Nat /\ outpos + 2 <= pos
        /\ pstate = "SEEN_DOTDOT"
    BY <1>10, NulIsLast DEF SeenDotDot, NormalizeInv, NormalizeTypeOK, Lag
  <2>2. arg0' = arg0 /\ pos' = pos BY <1>10 DEF SeenDotDot
  <2>3. \/ pstate' = "WALK_BACK" /\ buf' = buf /\ outpos' \in Nat /\ outpos' <= outpos
        \/ /\ pstate' = "IN_FIELD" /\ outpos' = outpos + 2
           /\ buf' = [buf EXCEPT ![outpos] = ".", ![outpos + 1] = "."]
    BY <1>10, <2>1 DEF SeenDotDot
  <2>4. NormalizeTypeOK' BY <2>1, <2>2, <2>3 DEF NormalizeInv, NormalizeTypeOK, Char
  <2>5. (Lag /\ Ahead)' BY <2>1, <2>2, <2>3 DEF Lag, Ahead
  <2>6. (\A k \in pos..Len(arg0) : buf[k] = Src(k))'
    BY <2>1, <2>2, <2>3 DEF NormalizeInv, NormalizeTypeOK, Src
  <2> QED BY <2>3, <2>4, <2>5, <2>6 DEF NormalizeInv
<1>11. CASE WalkBack
  <2>1. /\ pos \in 0..Len(arg0) /\ Len(arg0) \in Nat /\ outpos \in Nat /\ outpos <= pos
        /\ pstate = "WALK_BACK" /\ (buf[pos] # Nul => pos < Len(arg0))
    BY <1>11, NulIsLast DEF WalkBack, NormalizeInv, NormalizeTypeOK, Lag
  <2>2. arg0' = arg0 /\ buf' = buf BY <1>11 DEF WalkBack
  <2>3. \/ pstate' = pstate /\ pos' = pos /\ outpos' = outpos - 1 /\ outpos > 0
        \/ /\ pstate' = (IF buf[pos] = Nul THEN "done" ELSE "SEEN_SEP")
           /\ pos' = pos + 1 /\ outpos' = outpos
    BY <1>11 DEF WalkBack, c
  <2>4. NormalizeTypeOK' BY <2>1, <2>2, <2>3 DEF NormalizeInv, NormalizeTypeOK
  <2>5. CASE pstate' = "done" BY <2>1, <2>2, <2>3, <2>4, <2>5 DEF NormalizeInv
  <2>6. CASE pstate' # "done"
    <3>1. (Lag /\ Ahead)' BY <2>1, <2>2, <2>3, <2>6 DEF Lag, Ahead
    <3>2. (\A k \in pos..Len(arg0) : buf[k] = Src(k))'
      BY <2>1, <2>2, <2>3 DEF NormalizeInv, NormalizeTypeOK, Src
    <3> QED BY <2>1, <2>3, <2>4, <2>6, <3>1, <3>2 DEF NormalizeInv
  <2> QED BY <2>5, <2>6
<1>12. CASE Terminate
  <2>1. outpos \in 0..Len(arg0) /\ Len(arg0) \in Nat
    BY <1>12 DEF Terminate, NormalizeInv, NormalizeTypeOK
  <2>2. PICK end \in 0..Len(arg0) :
           buf' = [buf EXCEPT ![end] = Nul] /\ outpos' = end + 1
    <3> DEFINE e == IF outpos > 0 /\ buf[outpos - 1] = "/" THEN outpos - 1 ELSE outpos
    <3>1. e \in 0..Len(arg0) BY <2>1
    <3>2. buf' = [buf EXCEPT ![e] = Nul] /\ outpos' = e + 1 BY <1>12 DEF Terminate
    <3> HIDE DEF e
    <3> QED BY <3>1, <3>2
  <2>3. pstate' = "return" /\ arg0' = arg0 /\ pos' = pos BY <1>12 DEF Terminate
  <2> QED BY <2>1, <2>2, <2>3 DEF NormalizeInv, NormalizeTypeOK, Char
<1>13. CASE UNCHANGED pathvars
  BY <1>13 DEF pathvars, NormalizeInv, NormalizeTypeOK, Lag, Ahead, Src
<1> QED BY <1>1, <1>2, <1>3, <1>4, <1>5, <1>6, <1>7, <1>8, <1>9, <1>10, <1>11, <1>12, <1>13
    DEF PathNext

\* fs_normalize_path() stays inside the string it was given, terminator included,
\* and never destroys a character before reading it, for paths of any length.
THEOREM NormalizeInPlace == PathSpec => []InPlace
<1>1. PathInit => NormalizeInv
  BY DEF PathInit, NormalizeInv, NormalizeTypeOK, Char, Active, States
<1>2. NormalizeInv => InPlace
  BY DEF NormalizeInv, NormalizeTypeOK, InPlace, Lag, Src, Active, States
<1> QED BY <1>1, <1>2, PathStep, PTL DEF PathSpec
=============================================================================
