-------------------------------- MODULE MCVfs --------------------------------
(***************************************************************************)
(* The file system: the layer of mounts and descriptors, the normalisation *)
(* of paths and ext2.  The three are checked side by side: a behaviour     *)
(* exercises one of them, the others stay as they start.                   *)
(*                                                                         *)
(*   - two mount points, one inside the other, and a file below each;      *)
(*   - every path of up to seven slashes, dots and letters, longer than    *)
(*     the buffer holds included;                                          *)
(*   - disks in miniature: blocks of two units, two direct pointers and    *)
(*     tables of two, so that a file of 16 blocks needs every level.       *)
(***************************************************************************)
EXTENDS Vfs, Path, Ext2

VARIABLE part

MCMountPaths == { << "a" >>, << "a", "b" >> }
MCFiles == { << "a", "f" >>, << "a", "b", "f" >> }

\* Tasks and mounts are only compared with each other.
MCSymmetry == Permutations(Task) \cup Permutations(Mount)

MCPathArgs == UNION { [ 1..n -> { "/", ".", "a" } ] : n \in 0..7 }
MCMountArgs == { << "/", "a" >>, << "/", "a", "a" >>, << "/", "a", "/", "a" >>,
                 << "/", ".", "a" >> }

-----------------------------------------------------------------------------
(* A disk with two groups of six inodes.                                   *)

Entry(num, len, str) == [ inode |-> num, rec_len |-> len, name |-> str ]
Target(abs, seq) == [ mode |-> "PATH", absolute |-> abs, names |-> seq ]

Pointers(p0, p1, p2, p3, p4) ==
    [ k \in 0..4 |-> << p0, p1, p2, p3, p4 >>[k + 1] ]

Inode(num, kind, len, pointers, link) ==
    [ number |-> num, mode |-> kind, size |-> len, i_block |-> pointers, target |-> link ]
NoLink == Target(FALSE, << >>)
NoPointers == Pointers(0, 0, 0, 0, 0)

MCInodes ==
    << Inode(1, "REG", 0, NoPointers, NoLink),
       Inode(2, "DIR", 8, Pointers(11, 12, 13, 0, 0), NoLink),
       Inode(3, "DIR", 4, Pointers(16, 17, 0, 0, 0), NoLink),
       Inode(4, "REG", 3, Pointers(0, 18, 0, 0, 0), NoLink),
       Inode(5, "REG", 0, NoPointers, NoLink),
       Inode(6, "LNK", 3, NoPointers, Target(FALSE, << "d", "f" >>)),
       Inode(7, "LNK", 5, Pointers(19, 0, 0, 0, 0), NoLink),
       Inode(8, "LNK", 1, NoPointers, Target(FALSE, << "f" >>)),
       Inode(9, "LNK", 3, NoPointers, Target(FALSE, << "m", "f" >>)),
       Inode(10, "REG", 32, Pointers(30, 0, 31, 33, 40), NoLink),
       Inode(11, "LNK", 1, NoPointers, Target(TRUE, << "s" >>)),
       Inode(12, "LNK", 1, NoPointers, Target(FALSE, << "u" >>)) >>

FileUnits(n) == << 100 + 2 * n, 101 + 2 * n >>

MCBlocks ==
    [ b \in 11..46 |->
        CASE b = 11 -> << Entry(3, 1, "d"), Entry(10, 1, "g") >>
          [] b = 12 -> << Entry(6, 1, "l"), Entry(7, 1, "m") >>
          [] b = 13 -> << 14, 15 >>
          [] b = 14 -> << Entry(9, 2, "s"), Entry(0, 0, "") >>
          [] b = 15 -> << Entry(11, 1, "t"), Entry(12, 1, "u") >>
          [] b = 16 -> << Entry(3, 1, "."), Entry(2, 1, "..") >>
          [] b = 17 -> << Entry(4, 1, "f"), Entry(8, 1, "k") >>
          [] b = 18 -> FileUnits(1)
          [] b = 19 -> << Target(TRUE, << "d" >>), Target(TRUE, << "d" >>) >>
          [] b = 30 -> FileUnits(0)
          [] b = 31 -> << 32, 0 >>
          [] b = 32 -> FileUnits(2)
          [] b = 33 -> << 34, 35 >>
          [] b = 34 -> << 0, 36 >>
          [] b = 35 -> << 37, 38 >>
          [] b \in 36..38 -> FileUnits(b - 31)
          [] b = 40 -> << 41, 0 >>
          [] b = 41 -> << 42, 43 >>
          [] b = 42 -> << 44, 45 >>
          [] b = 43 -> << 0, 46 >>
          [] b \in 44..45 -> FileUnits(b - 36)
          [] b = 46 -> FileUnits(11)
          [] OTHER -> << 0, 0 >> ]

\* The blocks, tables first, that each block of a file depends on.
MCChain ==
    [ n \in { 1, 4, 5, 10 } |->
        IF n = 4 THEN [ b \in 0..1 |-> IF b = 0 THEN << >> ELSE << 18 >> ]
        ELSE [ b \in 0..15 |->
                 << << 30 >>, << >>, << 31, 32 >>, << 31 >>, << 33, 34 >>, << 33, 34, 36 >>,
                    << 33, 35, 37 >>, << 33, 35, 38 >>, << 40, 41, 42, 44 >>,
                    << 40, 41, 42, 45 >>, << 40, 41, 43 >>, << 40, 41, 43, 46 >>,
                    << 40 >>, << 40 >>, << 40 >>, << 40 >> >>[b + 1] ] ]

\* The file of inode 10 has holes at blocks 1, 3, 4, 10 and 12 to 15.
MCContent ==
    [ n \in { 1, 4, 5, 10 } |->
        CASE n = 4  -> << 0, 0, 102 >>
          [] n = 10 -> [ i \in 1..32 |-> IF (i - 1) \div 2 \in { 1, 3, 4, 10 } \cup 12..15
                                         THEN 0 ELSE 99 + i ]
          [] OTHER  -> << >> ]

MCDisk ==
    [ magic |-> TRUE, rev_level |-> 1, ro_compat |-> { "SPARSE_SUPER" },
      blocks_count |-> 47, blocks_per_group |-> 32, ipg |-> 6, isize |-> 1,
      gd |-> [ g \in 0..1 |-> IF g = 0 THEN 5 ELSE 25 ],
      inode |-> MCInodes, block |-> MCBlocks,
      tree |-> [ n \in { 2, 3 } |->
                   IF n = 2 THEN [ d |-> 3, g |-> 10, l |-> 6, m |-> 7, s |-> 9, t |-> 11, u |-> 12 ]
                   ELSE [ str \in { ".", "..", "f", "k" } |->
                            CASE str = "." -> 3 [] str = ".." -> 2 [] str = "f" -> 4
                              [] OTHER -> 8 ] ],
      link |-> [ n \in { 6, 7, 8, 9, 11, 12 } |->
                   IF n = 7 THEN Target(TRUE, << "d" >>) ELSE MCInodes[n].target ],
      content |-> MCContent, chain |-> MCChain ]

\* The same disk as one that is refused sees it.
MCImages ==
    { MCDisk, [ MCDisk EXCEPT !.magic = FALSE ], [ MCDisk EXCEPT !.rev_level = 2 ],
      [ MCDisk EXCEPT !.ro_compat = { "SPARSE_SUPER", "LARGE_FILE" } ] }

MCPaths ==
    { << "d" >>, << "g" >>, << "d", "f" >>, << "d", "k" >>, << "l" >>, << "m", "f" >>,
      << "m", "..", "g" >>, << "s" >>, << "t" >>, << "u" >>, << "x" >>, << "d", "x" >>,
      << "d", "x", "f" >>, << "l", "f" >>, << "" >>, << "d", "f", "f" >> }

Junk == [ inode |-> 4, rec_len |-> 0, name |-> "", mode |-> "PATH", absolute |-> TRUE,
          names |-> << "" >> ]

MCEnvironments ==
    { [ bad |-> b, nomem |-> FALSE, junk |-> Junk, wild |-> w ] :
         b \in { {}, { 1 }, { 5 }, { 11 }, { 19 }, { 31 }, { 34 }, { 36 }, { 40 } },
         w \in { 3, 10 } }
    \cup { [ bad |-> {}, nomem |-> TRUE, junk |-> Junk, wild |-> 3 ] }

\* Nothing fails.
MCNoFault == { e \in MCEnvironments : e.bad = {} /\ ~e.nomem }

MCOffsets == { 0, 1, 5, 9, 10, 15, 16, 23, 31, 32, 33 }
MCLengths == { 0, 1, 2, 3, 8, 32 }
MCZero == [ REG |-> 0, DIR |-> Entry(0, 0, ""),
            LNK |-> Target(FALSE, << "" >>) ]

-----------------------------------------------------------------------------
MCInit == Init /\ PathInit /\ Ext2Init /\ part \in { "vfs", "path", "ext2" }

MCNext ==
    \/ part = "vfs"  /\ Next     /\ UNCHANGED << part, pathvars, ext2vars >>
    \/ part = "path" /\ PathNext /\ UNCHANGED << part, vars, ext2vars >>
    \/ part = "ext2" /\ Ext2Next /\ UNCHANGED << part, vars, pathvars >>

MCSpec == MCInit /\ [][MCNext]_<< part, vars, pathvars, ext2vars >>

\* The runs of ext2 alone.
Ext2Only == MCInit /\ part = "ext2" /\ [][MCNext]_<< part, vars, pathvars, ext2vars >>
=============================================================================
