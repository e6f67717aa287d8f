------------------------------ MODULE MCLibrary ------------------------------
(* Constants of the runs of the parts that keep to themselves: the         *)
(* allocator, the ring buffer, the lists, printf and the interrupts.  Each *)
(* behaviour is one of a single part, which the variable part names.       *)
(*                                                                         *)
(* Malloc: pages of 8 units cut down to blocks of 2, a heap that is not    *)
(* aligned on its blocks, room for two pages and a bit, of which the       *)
(* kernel's second one wraps; sizes of every index, a whole page and more, *)
(* and products and sums that leave a size_t.  RingBuffer: an array of 4   *)
(* and calls of up to 5 bytes.  LinkedList: two lists and three nodes.     *)
(* Printf: types of 2, 3, 4 and 6 bits and a conversion buffer of 7, every *)
(* conversion with widths and precisions below, at and above it.           *)
(* Interrupts: two tasks, the lines of the boards.                         *)
EXTENDS Malloc, RingBuffer, LinkedList, Printf, Interrupts

VARIABLE part

\* The heap of these runs is one that the theorem HeapStaysSound is about.
ASSUME HeapFits == BreakFits

MCRequests == { 0, 1, 7, 33, 63 }
MCByte == 0..1

Dir(c, f, w, p, z, a) ==
    [ conv |-> c, flags |-> f, width |-> w, precision |-> p, size |-> z, arg |-> a ]

\* One number.
MCNumbers ==
    { << Dir(c, f, w, p, z, a) >> :
        c \in { "d", "u", "x", "o", "b" },
        f \in { {}, { "0" }, { "-" }, { "+" }, { "0", " " }, { "0", "-" }, { "#" }, { "#", "0" } },
        w \in { -4, 0, 3, 5, 9 }, p \in { NoPrecision, -1, 0, 4, 9 },
        z \in { "", "hh", "l", "ll" }, a \in { 0, 1, 4, 7, 30, 63 } }

\* A number, a letter, a string, a character and a pointer.
MCMixed ==
    { << Dir("d", {}, 0, NoPrecision, "", 3), Dir("a", {}, 0, NoPrecision, "", 0),
         Dir("s", f, w, p, "", << "u", "v" >>), Dir("c", f, w, p, "", c),
         Dir("p", {}, 0, NoPrecision, "", 5) >> :
        f \in { {}, { "-" } }, w \in { -4, 0, 3 }, p \in { NoPrecision, 0, 1, 3 },
        c \in { "k", NUL } }
    \cup { << Dir("X", {}, 2, NoPrecision, "ll", 59) >> }

NoOutput == [ format |-> << >>, sink |-> "null", maxlen |-> 0 ]
MCPrintfCalls ==
    [ format : MCNumbers, sink : { "char" }, maxlen : { 6 } ]
    \cup [ format : MCMixed, sink : { "buffer", "null", "char" }, maxlen : { 0, 1, 4, 6 } ]
    \cup { NoOutput }
MCCells == 0..7

MCIrq == [ clk |-> 0, uart |-> 4, cf20 |-> 5 ]
MCSyscalls == [ v \in { 3, 33, 128 } |-> << "int", v >> ]

allvars == << part, vars, ringvars, listvars, printfvars, irqvars >>

\* The parts that do not move are in one of their initial states.
MCInit ==
    /\ part \in { "malloc", "ring", "list", "printf", "irq" }
    /\ PrintfInit /\ (part = "printf" \/ (given = << >> /\ sink = "null"))
    /\ RingInit /\ (part = "ring" \/ \A k \in DOMAIN buffer : buffer[k] = 0)
    /\ ListInit /\ IrqInit
    /\ Init /\ (part = "malloc" \/ ~shared)

MCNext ==
    \/ part = "malloc" /\ Next       /\ UNCHANGED << part, ringvars, listvars, printfvars, irqvars >>
    \/ part = "ring"   /\ RingNext   /\ UNCHANGED << part, vars, listvars, printfvars, irqvars >>
    \/ part = "list"   /\ ListNext   /\ UNCHANGED << part, vars, ringvars, printfvars, irqvars >>
    \/ part = "printf" /\ PrintfNext /\ UNCHANGED << part, vars, ringvars, listvars, irqvars >>
    \/ part = "irq"    /\ IrqNext    /\ UNCHANGED << part, vars, ringvars, listvars, printfvars >>

MCSpec == MCInit /\ [][MCNext]_allvars

\* The runs of malloc alone.
MallocOnly == MCInit /\ part = "malloc" /\ [][MCNext]_allvars
=============================================================================
