--------------------------------- MODULE Path ---------------------------------
(***************************************************************************)
(* fs_normalize_path() of kernel/core/fs.c: every call of the file system  *)
(* layer copies its path into a buffer and normalises it there, reading    *)
(* and writing the same bytes, before find_mount() compares it with the    *)
(* paths of the mounts.  Vfs takes the result for a sequence of names.     *)
(***************************************************************************)
EXTENDS Integers, Sequences, SequencesExt

CONSTANTS
    Letter,            \* characters that are neither a slash nor a dot
    PathArgs,          \* paths that callers pass
    MountArgs,         \* normalised paths of mounts
    FS_MAX_PATH_LEN    \* size of the buffer (128)

ASSUME PathAssumption ==
    /\ { "/", ".", "nul" } \cap Letter = {}
    /\ PathArgs \subseteq Seq(Letter \cup { "/", "." })
    /\ FS_MAX_PATH_LEN \in Nat \ {0}

Nul == "nul"
Char == Letter \cup { "/", ".", Nul }
States == { "INITIAL", "FIELD_START", "IN_FIELD", "SEP", "SEEN_SEP", "DOT",
            "SEEN_DOT", "DOTDOT", "SEEN_DOTDOT" }

VARIABLES
    arg0,      \* what was copied into the buffer, without its terminator
    buf,       \* the buffer, terminator included
    pos,       \* next character to read
    outpos,    \* next character to write
    pstate     \* state of the machine; WALK_BACK is its inner loop

pathvars == << arg0, buf, pos, outpos, pstate >>

PathInit ==
    /\ arg0 = << >> /\ buf = [ k \in 0..0 |-> Nul ]
    /\ pos = 0 /\ outpos = 0
    /\ pstate = "idle"

\* strlcpy(): a path that does not fit is cut.
Copied(p) == SubSeq(p, 1, IF Len(p) < FS_MAX_PATH_LEN THEN Len(p) ELSE FS_MAX_PATH_LEN - 1)

Normalize(p) ==
    /\ pstate = "idle"
    /\ arg0' = Copied(p)
    /\ buf' = [ k \in 0..Len(arg0') |-> IF k < Len(arg0') THEN arg0'[k + 1] ELSE Nul ]
    /\ pos' = 0 /\ outpos' = 0
    /\ pstate' = "INITIAL"

-----------------------------------------------------------------------------
(* The machine: one action for each state.                                 *)

c == buf[pos]

\* Goes to a state, having read |n| characters and written none.
Goto(s, n) ==
    /\ pstate' = s
    /\ pos' = pos + n
    /\ UNCHANGED << arg0, buf, outpos >>

\* path[outpos++] = x, and |n| characters have been read.
Emit(x, s, n) ==
    /\ buf' = [buf EXCEPT ![outpos] = x]
    /\ outpos' = outpos + 1
    /\ pos' = pos + n
    /\ pstate' = s
    /\ UNCHANGED arg0

Initial ==
    /\ pstate = "INITIAL"
    /\ Goto(CASE c = "/" -> "SEP" [] c = "." -> "DOT" [] OTHER -> "FIELD_START", 0)

FieldStart ==
    /\ pstate = "FIELD_START"
    /\ Goto(CASE c = "." -> "DOT" [] c = Nul -> "done" [] OTHER -> "IN_FIELD", 0)

InField ==
    /\ pstate = "IN_FIELD"
    /\ \/ c = "/" /\ Goto("SEP", 0)
       \/ c = Nul /\ Goto("done", 0)
       \/ c \notin { "/", Nul } /\ Emit(c, "IN_FIELD", 1)

Sep == pstate = "SEP" /\ Emit("/", "SEEN_SEP", 1)

SeenSep ==
    /\ pstate = "SEEN_SEP"
    /\ \/ c = "/" /\ Goto("SEEN_SEP", 1)
       \/ c = Nul /\ Goto("done", 0)
       \/ c \notin { "/", Nul } /\ Goto("FIELD_START", 0)

Dot == pstate = "DOT" /\ Goto("SEEN_DOT", 1)

SeenDot ==
    /\ pstate = "SEEN_DOT"
    /\ \/ c = "." /\ Goto("DOTDOT", 0)
       \/ c = "/" /\ Goto("SEEN_SEP", 1)
       \/ c = Nul /\ Goto("done", 0)
       \/ c \notin { ".", "/", Nul } /\ Emit(".", "IN_FIELD", 0)

DotDot == pstate = "DOTDOT" /\ Goto("SEEN_DOTDOT", 1)

\* Mutant of SeenDotDot: the name is emitted before it is known to be one.
SeenDotDotEager ==
    /\ pstate = "SEEN_DOTDOT"
    /\ buf' = [buf EXCEPT ![outpos] = ".", ![outpos + 1] = ".", ![outpos + 2] = "/"]
    /\ outpos' = outpos + 3
    /\ pstate' = "IN_FIELD"
    /\ UNCHANGED << arg0, pos >>

\* A field that is just .. gives up the separator that was written and goes on
\* backwards; any other emits its two dots.
SeenDotDot ==
    /\ pstate = "SEEN_DOTDOT"
    /\ \/ /\ c \in { "/", Nul }
          /\ outpos' = IF outpos > 0 THEN outpos - 1 ELSE 0
          /\ pstate' = "WALK_BACK"
          /\ UNCHANGED << arg0, buf, pos >>
       \/ /\ c \notin { "/", Nul }
          /\ buf' = [buf EXCEPT ![outpos] = ".", ![outpos + 1] = "."]
          /\ outpos' = outpos + 2
          /\ pstate' = "IN_FIELD"
          /\ UNCHANGED << arg0, pos >>

\* Mutant of WalkBack: the boundary itself is looked at.
WalkBackFar ==
    /\ pstate = "WALK_BACK"
    /\ IF outpos > 0
       THEN outpos' = outpos - 1 /\ UNCHANGED << arg0, buf, pos, pstate >>
       ELSE /\ pos' = pos + 1
            /\ pstate' = IF c = Nul THEN "done" ELSE "SEEN_SEP"
            /\ UNCHANGED << arg0, buf, outpos >>

WalkBack ==
    /\ pstate = "WALK_BACK"
    /\ IF outpos > 0 /\ buf[outpos - 1] # "/"
       THEN outpos' = outpos - 1 /\ UNCHANGED << arg0, buf, pos, pstate >>
       ELSE /\ pos' = pos + 1
            /\ pstate' = IF c = Nul THEN "done" ELSE "SEEN_SEP"
            /\ UNCHANGED << arg0, buf, outpos >>

Terminate ==
    /\ pstate = "done"
    /\ LET end == IF outpos > 0 /\ buf[outpos - 1] = "/" THEN outpos - 1 ELSE outpos
       IN  /\ buf' = [buf EXCEPT ![end] = Nul]
           /\ outpos' = end + 1
    /\ pstate' = "return"
    /\ UNCHANGED << arg0, pos >>

PathNext ==
    \/ \E p \in PathArgs : Normalize(p)
    \/ Initial \/ FieldStart \/ InField \/ Sep \/ SeenSep \/ Dot \/ SeenDot
    \/ DotDot \/ SeenDotDot \/ WalkBack \/ Terminate

PathSpec == PathInit /\ [][PathNext]_pathvars

-----------------------------------------------------------------------------
(* The comparison that follows.                                            *)

\* find_mount(): a mount matches a path that begins with its own and goes on with a
\* slash or ends there.
MatchesMount(m, p) ==
    /\ p # << >> /\ p[1] = "/"
    /\ Len(p) >= Len(m) /\ SubSeq(p, 1, Len(m)) = m
    /\ Len(p) > Len(m) => p[Len(m) + 1] = "/"

-----------------------------------------------------------------------------
(* Properties.                                                             *)

\* The string in the buffer once the function has returned.
Result == [ k \in 1..(outpos - 1) |-> buf[k - 1] ]

\* fs_normalize_path() works in place (fs.c:485, two positions in one string): it
\* reads up to the terminator and no further, what it has not read yet is still
\* what the caller passed, and it writes no more than it has read.
InPlace ==
    /\ outpos <= Len(arg0) + 1
    /\ pstate \in States \cup { "WALK_BACK" } =>
          /\ pos <= Len(arg0) /\ outpos <= pos
          /\ \A k \in pos..Len(arg0) : buf[k] = IF k < Len(arg0) THEN arg0[k + 1] ELSE Nul
    /\ pstate = "done" => outpos <= Len(arg0)

\* The meaning of a path, field by field: empty fields and dots count for nothing,
\* .. takes back a field.  With none left to take back it takes the leading slash,
\* as the tests of fs_normalize_path() say ("/../foo" gives "foo",
\* core/tests/fs_test.cc:83).
Fields(p) ==
    LET Close(f) ==
            CASE f.field \in { << >>, << "." >> } -> f
              [] f.field = << ".", "." >> /\ f.names = << >> -> [f EXCEPT !.lead = FALSE]
              [] f.field = << ".", "." >> /\ f.names # << >> -> [f EXCEPT !.names = Front(@)]
              [] OTHER -> [f EXCEPT !.names = Append(@, f.field)]
        Read(f, x) == IF x = "/" THEN [Close(f) EXCEPT !.field = << >>]
                      ELSE [f EXCEPT !.field = Append(@, x)]
        start == [ field |-> << >>, names |-> << >>,
                   lead |-> p # << >> /\ p[1] = "/" ]
    IN  Close(FoldLeft(Read, start, p))

Normal(p) ==
    LET f == Fields(p)
        all == FlattenSeq([ k \in 1..Len(f.names) |-> << "/" >> \o f.names[k] ])
    IN  IF all = << >> \/ f.lead THEN all ELSE Tail(all)

\* "walks through a path string, removing duplicate path separators, flattening .
\* and .. references" (fs.h:84): what is left names what the path named.
NormalForm == pstate = "return" => Result = Normal(arg0)

\* "This keeps from matching /foo2 with /foo" (fs.c:106): comparing the bytes of
\* normalised paths is comparing their names one by one.
MatchIsPrefix ==
    pstate = "return" =>
        \A m \in MountArgs :
            MatchesMount(m, Result) <=>
                Fields(Result).lead /\ IsPrefix(Fields(m).names, Fields(Result).names)

\* What fs_normalize_path() leaves and find_mount() compares is what the caller's path
\* means: this is what lets Vfs take paths for sequences of names.
PathMeaning == NormalForm /\ MatchIsPrefix
=============================================================================
