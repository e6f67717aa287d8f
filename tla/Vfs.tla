--------------------------------- MODULE Vfs ---------------------------------
(***************************************************************************)
(* The file system layer: the mounts and their reference counts of         *)
(* kernel/core/fs.c, and the file descriptors of the tasks,                *)
(* kernel/core/task.c and kernel/syscall_fs.c.                             *)
(*                                                                         *)
(* The mount, open and read operations of a file system read the disk, so  *)
(* the task sleeps inside them and other tasks go on: such a call is two   *)
(* steps.  The rest of a system call is a single step.                     *)
(*                                                                         *)
(* A path is the sequence of its components, what fs_normalize_path()      *)
(* leaves of it; the root has none and can be neither mounted nor opened.  *)
(***************************************************************************)
EXTENDS Integers, Sequences, SequencesExt, FiniteSets

CONSTANTS
    Task,         \* tasks that use files
    Mount,        \* struct fs_mount's; a freed one may be allocated again
    MountPaths,   \* paths mounted and unmounted
    Files,        \* paths opened
    MAX_FD,       \* descriptors of a task (16)
    ZeroedFd,     \* descriptors that calloc() clears, of MAX_FD
    MaxUnmounts,  \* bound on the fs_unmount() calls that find a given mount
    MaxLeaks      \* bound on the handles that are lost

Fd == 0..(MAX_FD - 1)
UNSET == "UNSET"
Garbage == "garbage"    \* what was in the memory before

ASSUME VfsAssumption ==
    /\ MAX_FD \in Nat \ {0} /\ ZeroedFd \in 0..MAX_FD
    /\ IsFiniteSet(Task)
    /\ Mount \cap { UNSET, Garbage } = {}
    /\ \A p \in MountPaths : Len(p) \in Nat
    /\ MaxUnmounts \in Nat /\ MaxLeaks \in Nat
    /\ MountPaths \cap { << >> } = {} /\ Files \cap { << >> } = {}

VARIABLES
    mounts,     \* list of mounts, last mounted first
    path,       \* path of each mount
    ref,        \* ref of each mount
    unmounts,   \* fs_unmount() calls that found each mount
    fds,        \* descriptor table of each task, << >> before it is allocated
    pc,         \* where each task is: "none", "mount", "open", "read" or "dead"
    arg,        \* path being mounted, or mount in use, of a call that sleeps
    leaked,     \* handles of each mount that no descriptor refers to any more
    seen,       \* history: mounts listed since each call under way began to mount
    raced       \* history: mounts listed while the call of each mount was under way

history == << seen, raced >>
vars == << mounts, path, ref, unmounts, fds, pc, arg, leaked, seen, raced >>

Init ==
    /\ mounts = << >>
    /\ path = [ m \in Mount |-> << >> ]
    /\ ref = [ m \in Mount |-> 0 ]
    /\ unmounts = [ m \in Mount |-> 0 ]
    /\ fds = [ t \in Task |-> << >> ]
    /\ pc = [ t \in Task |-> "none" ]
    /\ arg = [ t \in Task |-> << >> ]
    /\ leaked = [ m \in Mount |-> 0 ]
    /\ seen = [ t \in Task |-> {} ]
    /\ raced = [ m \in Mount |-> {} ]

\* The descriptors and the calls under way that refer to the mount |m|.
Handles(m) == { x \in Task \X Fd : x[2] \in DOMAIN fds[x[1]] /\ fds[x[1]][x[2]] = m }
Opening(m) == { t \in Task : pc[t] = "open" /\ arg[t] = m }
Reading(m) == { t \in Task : pc[t] = "read" /\ arg[t] = m }
InUse(m) == leaked[m] > 0 \/ Handles(m) \cup Opening(m) \cup Reading(m) # {}

-----------------------------------------------------------------------------
(* Mounts.                                                                 *)

\* Mutant of Matches: only what is below the mount point.
MatchesBelow(p) == { i \in 1..Len(mounts) : IsStrictPrefix(path[mounts[i]], p) }

\* find_mount(): the positions of the mounts whose path is a prefix of |p|.  The
\* first is taken and its count incremented.
Matches(p) == { i \in 1..Len(mounts) : IsPrefix(path[mounts[i]], p) }
find_mount(p) == mounts[CHOOSE i \in Matches(p) : \A j \in Matches(p) : i <= j]

\* Mutant of put_mount: the reference of the mount itself is not counted.
put_mount_early(m) ==
    /\ ref' = [ref EXCEPT ![m] = @ - 1]
    /\ mounts' = IF ref[m] = 2 THEN RemoveFirst(mounts, m) ELSE mounts

\* put_mount(): the last reference takes the mount off the list and frees it.
put_mount(m) ==
    /\ ref' = [ref EXCEPT ![m] = @ - 1]
    /\ mounts' = IF ref[m] = 1 THEN RemoveFirst(mounts, m) ELSE mounts

\* fs_mount() of a path where nothing is mounted yet: the file system is asked.
MountCall(t, p) ==
    /\ pc[t] = "none"
    /\ Matches(p) = {}
    /\ pc' = [pc EXCEPT ![t] = "mount"]
    /\ arg' = [arg EXCEPT ![t] = p]
    /\ UNCHANGED << mounts, path, ref, unmounts, fds, leaked, history >>

\* ... and the mount is put at the head of the list.
MountDone(t) ==
    /\ pc[t] = "mount"
    /\ \E m \in Mount :
          /\ ~Contains(mounts, m)
          /\ ~InUse(m)
          /\ mounts' = << m >> \o mounts
          /\ path' = [path EXCEPT ![m] = arg[t]]
          /\ ref' = [ref EXCEPT ![m] = 1]
          /\ unmounts' = [unmounts EXCEPT ![m] = 0]
          /\ raced' = [ n \in Mount |-> IF n = m THEN seen[t] ELSE raced[n] \ { m } ]
          /\ seen' = [ u \in Task |-> IF u = t THEN {}
                                      ELSE IF pc[u] = "mount" THEN seen[u] \cup { m }
                                      ELSE seen[u] ]
    /\ pc' = [pc EXCEPT ![t] = "none"]
    /\ arg' = [arg EXCEPT ![t] = << >>]
    /\ UNCHANGED << fds, leaked >>

\* ... or the file system, or an allocation, fails.
MountFails(t) ==
    /\ pc[t] = "mount"
    /\ pc' = [pc EXCEPT ![t] = "none"]
    /\ arg' = [arg EXCEPT ![t] = << >>]
    /\ seen' = [seen EXCEPT ![t] = {}]
    /\ UNCHANGED << mounts, path, ref, unmounts, fds, leaked, raced >>

\* fs_unmount(): the reference of find_mount() and one extra are returned.
Unmount(t, p) ==
    /\ pc[t] = "none"
    /\ Matches(p) # {}
    /\ unmounts[find_mount(p)] < MaxUnmounts
    /\ put_mount(find_mount(p))
    /\ unmounts' = [unmounts EXCEPT ![find_mount(p)] = @ + 1]
    /\ UNCHANGED << path, fds, pc, arg, leaked, history >>

-----------------------------------------------------------------------------
(* Files.                                                                  *)

\* sys_open() finds the mount and asks the file system.  fs_open_dir() and
\* fs_create_file() begin the same way; fs_remove_file(), fs_make_dir() and
\* fs_stat_fs() too, and always end like OpenFails.
Open(t, p) ==
    /\ pc[t] = "none"
    /\ Matches(p) # {}
    /\ ref' = [ref EXCEPT ![find_mount(p)] = @ + 1]
    /\ pc' = [pc EXCEPT ![t] = "open"]
    /\ arg' = [arg EXCEPT ![t] = find_mount(p)]
    /\ UNCHANGED << mounts, path, unmounts, fds, leaked, history >>

\* Mutant of OpenFails: the reference is kept.
OpenFailsKeepsRef(t) ==
    /\ pc[t] = "open"
    /\ pc' = [pc EXCEPT ![t] = "none"]
    /\ arg' = [arg EXCEPT ![t] = << >>]
    /\ UNCHANGED << mounts, path, ref, unmounts, fds, leaked, history >>

\* The file system reports an error: the reference is returned.
OpenFails(t) ==
    /\ pc[t] = "open"
    /\ put_mount(arg[t])
    /\ pc' = [pc EXCEPT ![t] = "none"]
    /\ arg' = [arg EXCEPT ![t] = << >>]
    /\ UNCHANGED << path, unmounts, fds, leaked, history >>

\* fs_close_file() of a handle on |m|: on an error of the file system the handle
\* and its reference stay.
CloseHandle(m) ==
    \/ put_mount(m) /\ UNCHANGED leaked
    \/ /\ leaked[m] < MaxLeaks
       /\ leaked' = [leaked EXCEPT ![m] = @ + 1]
       /\ UNCHANGED << mounts, ref >>

\* The table task_put_desc() works on: the task's, or a new one, of which calloc()
\* clears the beginning only.
NewTable == { f \in [Fd -> { UNSET, Garbage }] :
                 \A i \in 0..(ZeroedFd - 1) : f[i] = UNSET }
Tables(t) == IF fds[t] = << >> THEN NewTable ELSE { fds[t] }

\* task_put_desc(): the first free descriptor, or the handle is closed again.
OpenDone(t) ==
    /\ pc[t] = "open"
    /\ \E table \in Tables(t) :
          LET free == { i \in Fd : table[i] = UNSET }
          IN \/ /\ free # {}
                /\ fds' = [fds EXCEPT ![t] =
                       [table EXCEPT ![CHOOSE i \in free : \A j \in free : i <= j] = arg[t]]]
                /\ UNCHANGED << mounts, ref, leaked >>
             \/ /\ free = {}
                /\ CloseHandle(arg[t])
                /\ fds' = [fds EXCEPT ![t] = table]
    /\ pc' = [pc EXCEPT ![t] = "none"]
    /\ arg' = [arg EXCEPT ![t] = << >>]
    /\ UNCHANGED << path, unmounts, history >>

\* sys_read() and sys_write() of an open descriptor; the task sleeps in the file
\* system.  What the calls do with garbage is undefined and left out.
Read(t, fd) ==
    /\ pc[t] = "none"
    /\ fd \in DOMAIN fds[t] /\ fds[t][fd] \in Mount
    /\ pc' = [pc EXCEPT ![t] = "read"]
    /\ arg' = [arg EXCEPT ![t] = fds[t][fd]]
    /\ UNCHANGED << mounts, path, ref, unmounts, fds, leaked, history >>

ReadDone(t) ==
    /\ pc[t] = "read"
    /\ pc' = [pc EXCEPT ![t] = "none"]
    /\ arg' = [arg EXCEPT ![t] = << >>]
    /\ UNCHANGED << mounts, path, ref, unmounts, fds, leaked, history >>

\* sys_close(): the descriptor is reset whatever fs_close_file() returns.
Close(t, fd) ==
    /\ pc[t] = "none"
    /\ fd \in DOMAIN fds[t] /\ fds[t][fd] \in Mount
    /\ CloseHandle(fds[t][fd])
    /\ fds' = [fds EXCEPT ![t][fd] = UNSET]
    /\ UNCHANGED << path, unmounts, pc, arg, history >>

\* scheduler_exit() closes nothing.
Exit(t) ==
    /\ pc[t] = "none"
    /\ pc' = [pc EXCEPT ![t] = "dead"]
    /\ UNCHANGED << mounts, path, ref, unmounts, fds, arg, leaked, history >>

Next ==
    \E t \in Task :
        \/ \E p \in MountPaths : MountCall(t, p) \/ Unmount(t, p)
        \/ MountDone(t) \/ MountFails(t)
        \/ \E p \in Files : Open(t, p)
        \/ OpenDone(t) \/ OpenFails(t)
        \/ \E fd \in Fd : Read(t, fd) \/ Close(t, fd)
        \/ ReadDone(t) \/ Exit(t)

Spec == Init /\ [][Next]_vars

-----------------------------------------------------------------------------
(* Properties.                                                             *)

\* The shape of the state.
TypeOK ==
    /\ mounts \in Seq(Mount)
    /\ path \in [Mount -> MountPaths \cup { << >> }]
    /\ ref \in [Mount -> Nat]
    /\ unmounts \in [Mount -> 0..MaxUnmounts]
    /\ fds \in [Task -> { << >> } \cup [Fd -> Mount \cup { UNSET, Garbage }]]
    /\ pc \in [Task -> { "none", "mount", "open", "read", "dead" }]
    /\ \A t \in Task : pc[t] \in { "open", "read" } => arg[t] \in Mount
    /\ \A t \in Task : pc[t] = "mount" => arg[t] \in MountPaths
    /\ leaked \in [Mount -> 0..MaxLeaks]
    /\ seen \in [Task -> SUBSET Mount] /\ raced \in [Mount -> SUBSET Mount]

\* The count of a mount on the list is one for the mount itself until it is
\* unmounted, and one for each handle and for each open under way (fs.c:123,
\* fs.c:135): no error path forgets or repeats a reference.
RefExact ==
    TypeOK /\ \A m \in Mount : Contains(mounts, m) =>
        ref[m] = (IF unmounts[m] = 0 THEN 1 ELSE 0)
                 + Cardinality(Handles(m)) + Cardinality(Opening(m)) + leaked[m]

\* "return the ref that find_mount added and one extra" (fs.c:238): a mount in use,
\* through a handle or by a call that sleeps in the file system, is not freed.
MountOutlivesUse ==
    \A m \in Mount : InUse(m) => Contains(mounts, m)

\* "see if there's already something at this path, abort if there is" (fs.c:156):
\* of two mounts, one at the path of the other or below it, the later one is
\* there only if the file system was still asked for it, the test passed, when the
\* other was put on the list.
LaterMountsRaced ==
    \A i, j \in 1..Len(mounts) :
        i < j /\ IsPrefix(path[mounts[j]], path[mounts[i]])
        => mounts[j] \in raced[mounts[i]]
=============================================================================
