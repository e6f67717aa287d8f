---------------------------------- MODULE Cfi ----------------------------------
(***************************************************************************)
(* The driver of the parallel flash, kernel/drivers/block/cfi/cfi.c, and   *)
(* the chip it commands.                                                   *)
(*                                                                         *)
(* The driver polls and never sleeps: nothing comes between two of its     *)
(* accesses to the chip except the chip's own progress and the loss of     *)
(* power.  A call is the list of bus accesses it makes, one step each.     *)
(* The chip (external) decodes the writes it is sent, wherever they go: a  *)
(* command that is cut short or sent while it is busy is not the one the   *)
(* driver meant.                                                           *)
(***************************************************************************)
EXTENDS Integers, Sequences, SequencesExt

CONSTANTS
    sector_size, sector_count,
    FarRange,        \* bytes of a segment (2^16)
    Paragraph,       \* bytes between two segments (2^4)
    base_addr,            \* segment of the flash
    Reg0, Reg1,      \* addresses of the command registers, CFI_ADDR0 and CFI_ADDR1
    ChipIds,         \* vendor and device identifiers that the chip may answer
    ConfigId,        \* the ones of the configuration
    FlashData,       \* what is written
    MaxPowerLoss     \* bound on the losses of power

FlashByte == 0..3         \* bit 1 stands for the toggle bit
Erased == 3
Address == 0..(sector_size * sector_count - 1)

ASSUME CfiAssumption ==
    /\ sector_size \in Nat \ {0} /\ sector_count \in Nat \ {0}
    /\ FarRange \in Nat \ {0} /\ Paragraph \in Nat \ {0} /\ base_addr \in Nat
    /\ FarRange % Paragraph = 0 /\ FarRange % sector_size = 0
    /\ Reg0 \in Address /\ Reg1 \in Address /\ Reg0 # Reg1
    /\ FlashData \subseteq Seq(FlashByte)

VARIABLES
    flash,      \* contents of the flash
    chip,       \* state of the chip: command decoded so far, mode and work under way
    todo,       \* bus accesses the call at hand has still to make
    request,    \* the call at hand, or NoRequest
    byte0,      \* first read of cfi_toggle_wait(), or NoByte
    got,        \* what the call has read
    mtd,        \* the device is registered
    losses

cfivars == << flash, chip, todo, request, byte0, got, mtd, losses >>

NoRequest == [ op |-> "none" ]
NoByte == -1
NoWork == [ op |-> "none" ]
ChipReset(c) == [ id |-> c, seq |-> << >>, mode |-> "read", work |-> NoWork, toggle |-> 0 ]

CfiInit ==
    /\ flash = [ a \in Address |-> Erased ]
    /\ chip \in { ChipReset(id) : id \in ChipIds }
    /\ todo = << >> /\ request = NoRequest /\ byte0 = NoByte /\ got = << >>
    /\ mtd = FALSE /\ losses = 0

-----------------------------------------------------------------------------
(* The chip.                                                               *)

\* CFI_BYTE0 and CFI_BYTE1, and the commands that follow them.
Unlocks == << << Reg0, 170 >>, << Reg1, 85 >> >>
CMD_BYTE_PROGRAM == << Reg0, 160 >>
CMD_ERASE == << Reg0, 128 >>
CMD_SOFT_ID_ENTRY == << Reg0, 144 >>
CMD_SOFT_ID_EXIT == << Reg0, 240 >>
CMD_ERASE_SECTOR == 48

EraseCommand == Unlocks \o << CMD_ERASE >> \o Unlocks
ProgramCommand == Unlocks \o << CMD_BYTE_PROGRAM >>

BlockOf(a) == a \div sector_size
BitAnd(x, y) == (x % 2) * (y % 2) + 2 * ((x \div 2) * (y \div 2))

\* A write to the chip.  While it works it sees none.
ChipWrite(a, b) ==
    LET s == Append(chip.seq, << a, b >>)
        Work(kind) == [chip EXCEPT !.seq = << >>, !.work = [ op |-> kind, addr |-> a, byte |-> b ]]
    IN  CASE chip.work # NoWork -> chip
          [] chip.work = NoWork /\ chip.seq = ProgramCommand -> Work("program")
          [] chip.work = NoWork /\ chip.seq = EraseCommand /\ b = CMD_ERASE_SECTOR -> Work("erase")
          [] chip.work = NoWork /\ s = Append(Unlocks, CMD_SOFT_ID_ENTRY) ->
                [chip EXCEPT !.seq = << >>, !.mode = "id"]
          [] chip.work = NoWork /\ s = Append(Unlocks, CMD_SOFT_ID_EXIT) ->
                [chip EXCEPT !.seq = << >>, !.mode = "read"]
          [] OTHER -> [chip EXCEPT !.seq =
                          IF IsPrefix(s, EraseCommand) \/ IsPrefix(s, ProgramCommand)
                          THEN s ELSE << >>]

\* A read: the toggle bit while the chip works, an identifier or a byte otherwise.
ChipRead(a) ==
    CASE chip.work # NoWork -> 2 * chip.toggle
      [] chip.work = NoWork /\ chip.mode = "id" -> chip.id[IF a = 0 THEN 1 ELSE 2]
      [] OTHER -> flash[a]

ChipToggles == IF chip.work = NoWork THEN chip ELSE [chip EXCEPT !.toggle = 1 - @]

\* The work is done: programming can only clear bits.
ChipDone ==
    /\ chip.work # NoWork
    /\ flash' = IF chip.work.op = "program"
                THEN [flash EXCEPT ![chip.work.addr] = BitAnd(@, chip.work.byte)]
                ELSE [ a \in Address |-> IF BlockOf(a) = BlockOf(chip.work.addr)
                                         THEN Erased ELSE flash[a] ]
    /\ chip' = [chip EXCEPT !.work = NoWork]
    /\ UNCHANGED << todo, request, byte0, got, mtd, losses >>

-----------------------------------------------------------------------------
(* The driver.                                                             *)

\* cfi_get_block_addr(), as an address of the chip: the offset in 64K goes to the
\* offset of the far pointer and the rest to its segment, which the bus puts together.
cfi_get_block_addr(b) ==
    LET offset == b * sector_size
        seg == base_addr + (offset \div FarRange) * (FarRange \div Paragraph)
    IN  (seg - base_addr) * Paragraph + (offset % FarRange)

Writes(s) == [ k \in 1..Len(s) |-> << "write", s[k][1], s[k][2] >> ]

cfi_erase_block(a) ==
    Append(Writes(Append(EraseCommand, << a, CMD_ERASE_SECTOR >>)), << "wait", a >>)

cfi_write_byte(a, b) == Append(Writes(Append(ProgramCommand, << a, b >>)), << "wait", a >>)

cfi_read_block(b, count) ==
    FlattenSeq([ i \in 1..count |->
        [ j \in 1..sector_size |-> << "read", cfi_get_block_addr(b + i - 1) + j - 1 >> ] ])

\* Mutant of cfi_write_block: all the blocks are erased before one is written.
cfi_write_block_erase_first(b, count, data) ==
    FlattenSeq([ i \in 1..count |-> cfi_erase_block(cfi_get_block_addr(b + i - 1)) ])
    \o FlattenSeq([ k \in 1..(count * sector_size) |->
           cfi_write_byte(cfi_get_block_addr(b + (k - 1) \div sector_size)
                          + ((k - 1) % sector_size), data[k]) ])

\* Each block is erased and written before the next.
cfi_write_block(b, count, data) ==
    FlattenSeq([ i \in 1..count |->
        cfi_erase_block(cfi_get_block_addr(b + i - 1))
        \o FlattenSeq([ j \in 1..sector_size |->
               cfi_write_byte(cfi_get_block_addr(b + i - 1) + j - 1,
                              data[(i - 1) * sector_size + j]) ]) ])

\* Mutant of cfi_identity: the chip is left giving its identity.
cfi_identity_stay ==
    Writes(Append(Unlocks, CMD_SOFT_ID_ENTRY)) \o << << "read", 0 >>, << "read", 1 >> >>

cfi_identity ==
    Writes(Append(Unlocks, CMD_SOFT_ID_ENTRY)) \o << << "read", 0 >>, << "read", 1 >> >>
    \o Writes(Append(Unlocks, CMD_SOFT_ID_EXIT))

StartRequest(c, accesses) ==
    /\ request = NoRequest
    /\ request' = c /\ todo' = accesses /\ got' = << >>
    /\ UNCHANGED << flash, chip, byte0, mtd, losses >>

\* cfi_probe(): the chip that the board has is known by its answer.
CfiProbe ==
    /\ ~mtd
    /\ StartRequest([ op |-> "probe" ], cfi_identity)

CfiRead(b, count) ==
    /\ mtd
    /\ StartRequest([ op |-> "read", block |-> b, count |-> count ], cfi_read_block(b, count))

CfiWrite(b, count, data) ==
    /\ mtd
    /\ StartRequest([ op |-> "write", block |-> b, count |-> count, data |-> data, before |-> flash ],
             cfi_write_block(b, count, data))

BusWrite ==
    /\ todo # << >> /\ todo[1][1] = "write"
    /\ chip' = ChipWrite(todo[1][2], todo[1][3])
    /\ todo' = Tail(todo)
    /\ UNCHANGED << flash, request, byte0, got, mtd, losses >>

BusRead ==
    /\ todo # << >> /\ todo[1][1] = "read"
    /\ got' = Append(got, ChipRead(todo[1][2]))
    /\ chip' = ChipToggles
    /\ todo' = Tail(todo)
    /\ UNCHANGED << flash, request, byte0, mtd, losses >>

\* cfi_toggle_wait(): two reads, until the bit is the same in both.
ToggleWait ==
    /\ todo # << >> /\ todo[1][1] = "wait"
    /\ chip' = ChipToggles
    /\ LET byte == ChipRead(todo[1][2])
       IN  IF byte0 = NoByte
           THEN byte0' = byte /\ UNCHANGED todo
           ELSE /\ byte0' = NoByte
                /\ todo' = IF byte0 \div 2 = byte \div 2 THEN Tail(todo) ELSE todo
    /\ UNCHANGED << flash, request, got, mtd, losses >>

\* The call returns; the probe registers the device when its identity is the one of
\* the configuration and both allocations succeed.
CfiReturn ==
    /\ request # NoRequest /\ todo = << >>
    /\ request' = NoRequest
    /\ \/ mtd' = (mtd \/ (request.op = "probe" /\ got = ConfigId))
       \/ mtd' = mtd
    /\ UNCHANGED << flash, chip, todo, byte0, got, losses >>

\* The cells that the chip is changing.
Changing ==
    { a \in Address : \/ chip.work.op = "program" /\ a = chip.work.addr
                      \/ chip.work.op = "erase" /\ BlockOf(a) = BlockOf(chip.work.addr) }

\* Power is lost and comes back: the board starts again and so does the chip.  The
\* cells it was changing may hold anything.
PowerLoss ==
    /\ losses < MaxPowerLoss
    /\ losses' = losses + 1
    /\ \E any \in [ Changing -> FlashByte ] :
          flash' = [ a \in Address |-> IF a \in Changing THEN any[a] ELSE flash[a] ]
    /\ chip' = ChipReset(chip.id)
    /\ todo' = << >> /\ request' = NoRequest /\ byte0' = NoByte /\ got' = << >> /\ mtd' = FALSE

CfiNext ==
    \/ CfiProbe
    \/ \E b \in 0..(sector_count - 1), n \in 1..sector_count :
          /\ b + n <= sector_count
          /\ \/ CfiRead(b, n)
             \/ \E data \in FlashData : Len(data) = n * sector_size /\ CfiWrite(b, n, data)
    \/ BusWrite \/ BusRead \/ ToggleWait \/ ChipDone \/ CfiReturn \/ PowerLoss

CfiSpec == CfiInit /\ [][CfiNext]_cfivars

-----------------------------------------------------------------------------
(* Properties.                                                             *)

\* The shape of the state; no access goes outside of the chip.
CfiTypeOK ==
    /\ flash \in [ Address -> FlashByte ]
    /\ byte0 \in FlashByte \cup { NoByte } /\ mtd \in BOOLEAN
    /\ todo = << >> \/ request # NoRequest
    /\ \A k \in 1..Len(todo) : todo[k][2] \in Address
    /\ chip.mode \in { "read", "id" }

\* The flash as a call that writes has it, block by block: what it was before, what
\* is to be written, or the block that is being erased or programmed.
Written(b) == \A a \in Address : BlockOf(a) = b =>
                  flash[a] = request.data[a - request.block * sector_size + 1]
Untouched(b) == \A a \in Address : BlockOf(a) = b => flash[a] = request.before[a]

\* cfi_write_block() puts one block at risk at a time, which is what a loss of power
\* costs: all the blocks before it are written, those after it untouched, and when
\* it returns all its blocks are what was asked for.
OneBlockAtRisk ==
    request.op = "write" =>
        /\ todo = << >> => \A b \in request.block..(request.block + request.count - 1) : Written(b)
        /\ \A b \in 0..(sector_count - 1) \ request.block..(request.block + request.count - 1) : Untouched(b)
        /\ \E risk \in request.block..(request.block + request.count - 1) :
              /\ \A b \in request.block..(risk - 1) : Written(b)
              /\ \A b \in (risk + 1)..(request.block + request.count - 1) : Untouched(b)

\* cfi_toggle_wait() ends only when the chip is done: no command is sent to a chip
\* that works, which would not see it.
NeverWhileBusy == (todo # << >> /\ todo[1][1] \in { "write", "read" }) => chip.work = NoWork

\* cfi_read_block() gets bytes and never a status or an identity: between calls the
\* chip works at nothing, has no command begun and is back to giving its contents, and
\* during one it is accessed only where it is, and not while it works.
ReadsContents ==
    /\ CfiTypeOK /\ NeverWhileBusy
    /\ request = NoRequest => chip.seq = << >> /\ chip.mode = "read" /\ chip.work = NoWork
    /\ (request.op = "read" /\ todo = << >>) =>
          got = [ k \in 1..(request.count * sector_size) |-> flash[request.block * sector_size + k - 1] ]
=============================================================================
