--------------------------------- MODULE Ext2 ---------------------------------
(***************************************************************************)
(* The read-only ext2 file system of kernel/drivers/fs/ext2: mounting,     *)
(* finding an inode by its path (dir.c), the blocks of a file behind up to *)
(* three levels of tables, and reading (io.c, file.c).                     *)
(*                                                                         *)
(* Nothing on the disk changes and a mounted file system keeps no state    *)
(* besides its superblock and group descriptors, so a call is one step.    *)
(* Sizes and offsets count units: a block holds BlockSize of them, and a   *)
(* unit of a directory is an entry or the rest of one.  What the disk      *)
(* holds is an image: its superblock, where its inodes and blocks are, and *)
(* what its maker meant by them (tree, content, chain), which only the     *)
(* properties read.                                                        *)
(*                                                                         *)
(* A call meets an environment: blocks that cannot be read, whether malloc *)
(* fails, and what is found in memory that nothing was stored in.          *)
(***************************************************************************)
EXTENDS Integers, Sequences, SequencesExt, FiniteSetsExt

CONSTANTS
    Images,         \* disks
    Paths,          \* paths opened, as sequences of names
    Environments,   \* [bad, nomem, junk, wild]
    Offsets, Lengths,
    Zero,           \* what zeros are, read as the contents of each kind of file
    BlockSize,      \* EXT2_BLOCK_SIZE
    NDIR,           \* EXT2_NDIR_BLOCKS (12)
    APB,            \* EXT2_ADDR_PER_BLOCK
    Word,           \* values of a uint and of a size_t (2^16)
    MaxDirBlocks,   \* blocks of a directory that are looked at (1024)
    InlineLink,     \* longest link kept in the inode (60)
    LinkBuf         \* the buffer a link is read to (512)

ASSUME Ext2Assumption ==
    /\ { BlockSize, NDIR, APB, Word, MaxDirBlocks } \subseteq Nat \ {0}
    /\ InlineLink \in Nat /\ LinkBuf \in Nat

VARIABLES
    fs,      \* the mounted file system, or NoFs
    file,    \* the open file, or NoFile
    out      \* the call that just returned and its result, or Ready

ext2vars == << fs, file, out >>

NoFs == [ mounted |-> FALSE ]
NoFile == [ mode |-> "NONE" ]
ERR == [ mode |-> "ERR" ]     \* what a loader gives when it fails
ROOT_INO == 2
SB_BLOCK == 1                 \* byte 1024
GD_BLOCK == 2                 \* byte 2048

Ready == [ op |-> "none" ]

Ext2Init == fs = NoFs /\ file = NoFile /\ out = Ready

-----------------------------------------------------------------------------
(* Inodes.                                                                 *)

\* Block and offset of an inode.  The offset in the table of its group is a size_t.
get_inode_addr(f, num) ==
    LET n == num - 1
        offset == ((n % f.img.ipg) * f.img.isize) % Word
    IN  << f.img.gd[n \div f.img.ipg] + offset \div BlockSize, offset % BlockSize >>

\* Where the maker of the image put an inode.
InodePlace(d, num) ==
    LET offset == ((num - 1) % d.ipg) * d.isize
    IN  << d.gd[(num - 1) \div d.ipg] + offset \div BlockSize, offset % BlockSize >>

\* ext2_load_inode().  A number beyond the groups reads beyond the descriptors: what
\* comes of it is anything.
ext2_load_inode(f, e, num) ==
    IF num < 1 \/ (num - 1) \div f.img.ipg >= f.groups
    THEN f.img.inode[e.wild]
    ELSE LET addr == get_inode_addr(f, num)
             here == { n \in DOMAIN f.img.inode : InodePlace(f.img, n) = addr }
         IN  IF addr[1] \in e.bad THEN ERR
             ELSE f.img.inode[IF here = {} THEN e.wild ELSE CHOOSE n \in here : TRUE]

-----------------------------------------------------------------------------
(* Blocks of a file.                                                       *)

\* Which pointer of the inode and of each table leads to block |n| of a file.  Beyond
\* the last one it returns an error that is not looked at, and the level stays 0.
ext2_calculate_block_pointer_pos(n) ==
    LET n1 == n - NDIR
        n2 == n1 - APB
        n3 == n2 - APB * APB
    IN  CASE n < NDIR             -> << n >>
          [] n >= NDIR /\ n1 < APB -> << NDIR, n1 >>
          [] n1 >= APB /\ n2 < APB * APB -> << NDIR + 1, n2 \div APB, n2 % APB >>
          [] n2 >= APB * APB /\ n3 < APB * APB * APB ->
                << NDIR + 2, n3 \div (APB * APB), (n3 % (APB * APB)) \div APB,
                   (n3 % (APB * APB)) % APB >>
          [] OTHER -> << n >>

\* ext2_get_block() of the table |bnum|, cut to a uint, and the pointer |k| in it.  A
\* table that is missing, cannot be read or has no memory ends the way down.
TableEntry(f, e, bnum, k) ==
    LET b == bnum % Word
    IN  IF b = 0 \/ b \in e.bad \/ e.nomem THEN 0 ELSE f.img.block[b][k + 1]

\* file_block_to_fs_block(), 0 for a hole.
file_block_to_fs_block(f, e, ino, n) ==
    LET p == ext2_calculate_block_pointer_pos(n)
        down[k \in 1..Len(p)] ==
            IF k = 1 THEN ino.i_block[p[1]] ELSE TableEntry(f, e, down[k - 1], p[k])
    IN  down[Len(p)]

\* What is read from block |b| of the disk: zeros for a hole.  A block that cannot be
\* read is not noticed, and the buffer keeps what it held.
BlockAt(f, e, ino, b) ==
    CASE b = 0 -> [ k \in 1..BlockSize |-> Zero[ino.mode] ]
      [] b # 0 /\ b \in e.bad -> [ k \in 1..BlockSize |-> e.junk ]
      [] OTHER -> f.img.block[b]

\* One block of a file.
FileBlock(f, e, ino, n) == BlockAt(f, e, ino, file_block_to_fs_block(f, e, ino, n))

\* Mutant of FirstWhole: a partial first block counts for a whole one.
FirstWholeSame(offset) == offset \div BlockSize

\* The first block that is read whole.
FirstWhole(offset) == offset \div BlockSize + (IF offset % BlockSize = 0 THEN 0 ELSE 1)

\* ext2_read_inode(): the end of a first block, whole blocks, the beginning of a last.
\* Unit says where each unit comes from; the number of a block in the file is a uint.
ext2_read_inode(f, e, ino, offset, length) ==
    LET len   == IF offset + length >= ino.size THEN ino.size - offset ELSE length
        skip  == offset % BlockSize
        head  == IF skip = 0 THEN 0 ELSE Min({ len, BlockSize - skip })
        whole == FirstWhole(offset)
        Unit(k) ==
            IF k < head THEN << offset \div BlockSize, skip + k >>
            ELSE << whole + (k - head) \div BlockSize, (k - head) % BlockSize >>
    IN  IF offset > ino.size THEN << >>
        ELSE [ k \in 1..len |-> LET u == Unit(k - 1)
                                IN  FileBlock(f, e, ino, u[1] % Word)[u[2] + 1] ]

\* A count returned as a ssize_t.
ssize(n) == IF n < Word \div 2 THEN n ELSE n - Word

-----------------------------------------------------------------------------
(* Paths.                                                                  *)

\* The entries of a block, one after the other, until one matches: its inode, or
\* -1.  A length of zero ends the block.
RECURSIVE FindEntry(_, _, _)
FindEntry(buf, name, pos) ==
    CASE pos >= BlockSize -> -1
      [] pos < BlockSize /\ buf[pos + 1].rec_len = 0 -> -1
      [] pos < BlockSize /\ buf[pos + 1].rec_len # 0 /\ buf[pos + 1].name = name ->
            buf[pos + 1].inode
      [] OTHER -> FindEntry(buf, name, pos + buf[pos + 1].rec_len)

\* ext2_dir_lookup() from block |n| on: the error it returns, 1 when there is a
\* match, and the number it leaves in |inum|: at the end of the directory it returns
\* 0 and leaves it alone.
RECURSIVE ext2_dir_lookup(_, _, _, _, _, _)
ext2_dir_lookup(f, e, dir, name, inum, n) ==
    LET buf == ext2_read_inode(f, e, dir, n * BlockSize, BlockSize)
        hit == FindEntry(buf, name, 0)
    IN  CASE dir.mode # "DIR" -> [ err |-> -20, inum |-> inum ]
          [] dir.mode = "DIR" /\ n > MaxDirBlocks -> [ err |-> -1, inum |-> inum ]
          [] dir.mode = "DIR" /\ n <= MaxDirBlocks /\ buf = << >> -> [ err |-> 0, inum |-> inum ]
          [] dir.mode = "DIR" /\ n <= MaxDirBlocks /\ buf # << >> /\ hit # -1 ->
                [ err |-> 1, inum |-> hit ]
          [] OTHER -> ext2_dir_lookup(f, e, dir, name, inum, n + 1)

\* ext2_read_link(): a path, from the inode or from its blocks, or ERR.
ext2_read_link(f, e, ino) ==
    CASE ino.size + 1 > LinkBuf -> ERR
      [] ino.size + 1 <= LinkBuf /\ ino.size > InlineLink ->
            ext2_read_inode(f, e, ino, 0, ino.size)[1]
      [] OTHER -> ino.target

\* Mutant of ext2_walk_from: every link starts over at the root.
ext2_walk_from_root(f, link, dir) == f.root

\* Where the walk along a link starts.
ext2_walk_from(f, link, dir) == IF link.absolute THEN f.root ELSE dir

RECURSIVE ext2_walk(_, _, _, _, _, _)
RECURSIVE NextComponent(_, _, _, _, _, _)

\* ext2_walk(): looks the first name up and goes on from there.
ext2_walk(f, e, names, dir, inum, recurse) ==
    LET found == ext2_dir_lookup(f, e, dir, names[1], inum, 0)
    IN  IF recurse > 4 THEN [ err |-> -2, inum |-> inum ]
        ELSE IF found.err < 0 THEN found
        ELSE NextComponent(f, e, names, dir, found.inum, recurse)

\* From the label nextcomponent: a link is followed, and what it leads to is looked
\* at again unless it was the last name; a directory is where the next name is
\* looked up.
NextComponent(f, e, names, dir, inum, recurse) ==
    LET ino  == ext2_load_inode(f, e, inum)
        last == Len(names) = 1
        fail == [ err |-> -2, inum |-> inum ]
    IN  CASE ino.mode = "ERR" -> fail
          [] ino.mode = "LNK" ->
                LET link == ext2_read_link(f, e, ino)
                    end  == ext2_walk(f, e, link.names, ext2_walk_from(f, link, dir), inum,
                                      recurse + 1)
                IN  IF link.mode = "ERR" THEN fail
                    ELSE IF end.err < 0 \/ last THEN end
                    ELSE NextComponent(f, e, names, dir, end.inum, recurse)
          [] ino.mode = "DIR" /\ ~last -> ext2_walk(f, e, Tail(names), ino, inum, recurse)
          [] ino.mode = "REG" /\ ~last -> fail
          [] OTHER -> [ err |-> 0, inum |-> inum ]

\* ext2_lookup(), of a number that was never set.
ext2_lookup(f, e, names) == ext2_walk(f, e, names, f.root, e.wild, 1)

-----------------------------------------------------------------------------
(* The calls of the file system layer.                                     *)

\* Group descriptors read: the blocks that do not fill a group count for one.
GroupCount(d) == (d.blocks_count + d.blocks_per_group - 1) \div d.blocks_per_group

\* ext2_mount() that succeeds: every check passed and every read done.
Ext2Mount(d, e) ==
    LET root == ext2_load_inode([ img |-> d, groups |-> GroupCount(d) ], e, ROOT_INO)
    IN  /\ out = Ready /\ fs = NoFs
        /\ ~e.nomem /\ { SB_BLOCK, GD_BLOCK } \cap e.bad = {}
        /\ d.magic /\ d.rev_level <= 1 /\ d.ro_compat \subseteq { "SPARSE_SUPER" }
        /\ root.mode # "ERR"
        /\ fs' = [ mounted |-> TRUE, img |-> d, groups |-> GroupCount(d), root |-> root ]
        /\ out' = [ op |-> "mount", err |-> 0 ]
        /\ UNCHANGED file

\* ... and one that does not: what was allocated is freed.
Ext2MountFails(d, e) ==
    /\ out = Ready /\ fs = NoFs
    /\ \/ e.nomem \/ { SB_BLOCK, GD_BLOCK } \cap e.bad # {}
       \/ ~d.magic \/ d.rev_level > 1 \/ ~(d.ro_compat \subseteq { "SPARSE_SUPER" })
       \/ ext2_load_inode([ img |-> d, groups |-> GroupCount(d) ], e, ROOT_INO).mode = "ERR"
    /\ out' = [ op |-> "mount", err |-> -1 ]
    /\ UNCHANGED << fs, file >>

\* ext2_unmount(), called when the last file is closed.
Ext2Unmount ==
    /\ out = Ready /\ fs # NoFs /\ file = NoFile
    /\ fs' = NoFs
    /\ out' = [ op |-> "unmount", err |-> 0 ]
    /\ UNCHANGED file

\* ext2_open_file(): the lookup, then the inode is read again.
Ext2Open(names, e) ==
    /\ out = Ready /\ fs # NoFs /\ file = NoFile
    /\ LET r == ext2_lookup(fs, e, names)
           ino == ext2_load_inode(fs, e, r.inum)
           ok == r.err >= 0 /\ ~e.nomem /\ ino.mode # "ERR"
       IN  /\ file' = IF ok THEN ino ELSE NoFile
           /\ out' = [ op |-> "open", names |-> names, env |-> e, inum |-> r.inum,
                       err |-> IF ok THEN 0 ELSE -1 ]
    /\ UNCHANGED fs

\* ext2_read_file(): regular files only.
Ext2Read(offset, length, e) ==
    /\ out = Ready /\ file # NoFile
    /\ LET data == ext2_read_inode(fs, e, file, offset, length)
       IN  out' = [ op |-> "read", offset |-> offset, length |-> length, env |-> e,
                    data |-> IF file.mode = "REG" THEN data ELSE << >>,
                    err |-> IF file.mode = "REG" THEN ssize(Len(data)) ELSE -2 ]
    /\ UNCHANGED << fs, file >>

\* ext2_stat_file(), with ext2_file_len().
Ext2Stat ==
    /\ out = Ready /\ file # NoFile
    /\ out' = [ op |-> "stat", size |-> file.size, is_dir |-> file.mode = "DIR" ]
    /\ UNCHANGED << fs, file >>

\* ext2_close_file(); the cache of tables it frees is never filled.
Ext2Close ==
    /\ out = Ready /\ file # NoFile
    /\ file' = NoFile
    /\ out' = [ op |-> "close", err |-> 0 ]
    /\ UNCHANGED fs

\* The caller has looked at the result.
Ext2Return == out # Ready /\ out' = Ready /\ UNCHANGED << fs, file >>

Ext2Next ==
    \/ \E d \in Images, e \in Environments : Ext2Mount(d, e) \/ Ext2MountFails(d, e)
    \/ Ext2Unmount
    \/ \E names \in Paths, e \in Environments : Ext2Open(names, e)
    \/ \E offset \in Offsets, length \in Lengths, e \in Environments :
          Ext2Read(offset, length, e)
    \/ Ext2Stat \/ Ext2Close \/ Ext2Return

Ext2Spec == Ext2Init /\ [][Ext2Next]_ext2vars

-----------------------------------------------------------------------------
(* Properties.                                                             *)

\* The inode that a path names in the tree the image's maker built, 0 for none.
\* Links may be nested three deep (dir.c:79).
RECURSIVE Resolve(_, _, _, _)
Resolve(d, n, names, links) ==
    IF names = << >> THEN n
    ELSE IF d.inode[n].mode # "DIR" \/ names[1] \notin DOMAIN d.tree[n] THEN 0
    ELSE LET m == d.tree[n][names[1]]
         IN  IF d.inode[m].mode # "LNK" THEN Resolve(d, m, Tail(names), links)
             ELSE IF links = 0 THEN 0
             ELSE LET link == d.link[m]
                      t == Resolve(d, IF link.absolute THEN ROOT_INO ELSE n,
                                   link.names, links - 1)
                  IN  IF t = 0 THEN 0 ELSE Resolve(d, t, Tail(names), links)

\* A file is open only on a mounted file system, and only an inode of the disk.
Ext2TypeOK ==
    /\ fs = NoFs \/ (fs.mounted /\ fs.img \in Images /\ fs.groups \in Nat)
    /\ file # NoFile => fs # NoFs /\ \E n \in DOMAIN fs.img.inode : file = fs.img.inode[n]
    /\ out.op \in { "none", "mount", "unmount", "open", "read", "stat", "close" }

\* A path whose names all exist, links on the way included, opens the inode that it
\* names, as long as nothing fails: in either group, in any block of its directory,
\* behind a table too.  The tables of inodes are smaller than a size_t reaches
\* (ext2.c:193).
LookupRight ==
    /\ Ext2TypeOK
    /\ (out.op = "open" /\ out.env.bad = {} /\ ~out.env.nomem) =>
          LET n == Resolve(fs.img, ROOT_INO, out.names, 3)
          IN  n # 0 => out.err = 0 /\ out.inum = n /\ file = fs.img.inode[n]

\* "do a path parse, looking up each component" (dir.c:152): a lookup that succeeds
\* found every component of the path.
EachComponentFound ==
    (out.op = "open" /\ out.err = 0) =>
        out.inum = Resolve(fs.img, ROOT_INO, out.names, 3)

\* What ext2_read_file() returns is the file, from the offset on and up to its end:
\* holes read as zeros, a block that fails spoils what it holds or leads to and
\* nothing else, and the count is right while it fits a ssize_t.
ReadRight ==
    (out.op = "read" /\ file.mode = "REG") =>
        LET d == fs.img
            content == d.content[file.number]
            len == IF out.offset > file.size THEN 0
                   ELSE IF out.offset + out.length > file.size THEN file.size - out.offset
                   ELSE out.length
            Spoilt(i) == \/ ToSet(d.chain[file.number][i \div BlockSize]) \cap out.env.bad # {}
                         \/ out.env.nomem /\ i \div BlockSize >= NDIR
        IN  /\ Len(out.data) = len
            /\ len < Word \div 2 => out.err = len
            /\ \A i \in out.offset..(out.offset + len - 1) :
                  Spoilt(i) \/ out.data[i - out.offset + 1] = content[i + 1]
=============================================================================
