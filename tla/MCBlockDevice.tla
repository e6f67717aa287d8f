--------------------------- MODULE MCBlockDevice -----------------------------
(* Constants of the runs of BlockDevice and Cfi.  Each behaviour is one of *)
(* a single module, which the variable part names.                         *)
(*                                                                         *)
(* BlockDevice: blocks of three bytes; every alignment of the two ends of  *)
(* a call and calls that reach the end of the device; four partitions, one *)
(* of which leaves the disk and one whose end comes round.                 *)
(* Cfi: three sectors of two bytes, the last one in another segment than   *)
(* the first two, calls of one, two and three sectors, two chips, one      *)
(* loss of power.                                                          *)
EXTENDS BlockDevice, Cfi

CONSTANTS t1, t2

VARIABLE part

MCEntries == { [ name |-> "p1", lba_start |-> 1, lba_len |-> 1 ],
               [ name |-> "p2", lba_start |-> 2, lba_len |-> 2 ],
               [ name |-> "p3", lba_start |-> 3, lba_len |-> 2 ],
               [ name |-> "p4", lba_start |-> 2, lba_len |-> 31 ] }
MCOwnPartition == [ t \in Task |-> IF t = t1 THEN { "p1", "p3" } ELSE { "p2", "p4" } ]
MCSameDisk == [ t \in Task |-> { "disk" } ]
MCOffsets == 0..6
MCLengths == { 0, 1, 2, 4, 7 }
MCBounds == 0..2

\* The tasks of the run with partitions of their own share no block, which is what the
\* theorems on block devices suppose.
ASSUME PartitionsApart == Uses = MCOwnPartition => DisjointUse

MCChipIds == { << 1, 2 >>, << 1, 3 >> }
MCConfigId == << 1, 2 >>
MCFlashData == { << 1, 2 >>, << 2, 0, 1, 3 >>, << 0, 3, 1, 2, 3, 1 >> }

MCInit == Init /\ CfiInit /\ part \in { "blkdev", "cfi" }

MCNext ==
    \/ part = "blkdev" /\ Next    /\ UNCHANGED << part, cfivars >>
    \/ part = "cfi"    /\ CfiNext /\ UNCHANGED << part, vars >>

MCSpec == MCInit /\ [][MCNext]_<< part, vars, cfivars >>

\* The runs of the block devices alone.
BlkdevOnly == MCInit /\ part = "blkdev" /\ [][MCNext]_<< part, vars, cfivars >>
=============================================================================
