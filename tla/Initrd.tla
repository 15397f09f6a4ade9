-------------------------------- MODULE Initrd --------------------------------
(***************************************************************************)
(* The archive of kernel/initrd.cpp: a tar image that may be cut short     *)
(* anywhere, walked from header to header.  initrd_init() counts its       *)
(* files, and the loops of main.cpp ask for each by its number or find one *)
(* by name.  An action is one turn of a loop.                              *)
(***************************************************************************)
EXTENDS Integers, Sequences, FiniteSets, SequencesExt

CONSTANTS block_size,          \* 512 in the code
          Members,             \* what may be packed: [name, file, size]
          MaxMembers, Cuts,    \* how many, and how many bytes may be missing at the end
          Wanted,              \* the names looked for
          Matching             \* {<<stored name, wanted name>>} of name_matches()

ASSUME Bounds == block_size \in Nat \ {0} /\ MaxMembers \in Nat /\ Cuts \subseteq Nat

VARIABLES members, archive_length, file_count,
          call, goal,           \* the loop that runs, and what it looks for
          offset, seen, result  \* its locals, and the offset it returned

image == <<members, archive_length>>
initrd_vars == <<image, file_count, call, goal, offset, seen, result>>

\* The next header is looked for right behind the data.
RoundNot(bytes) == bytes

round_to_block(bytes) == ((bytes + block_size - 1) \div block_size) * block_size

\* Where mkinitrd.sh puts a member's header
Start[k \in 1..(MaxMembers + 1)] ==
    IF k = 1 THEN 0
    ELSE LET m == members[k - 1]
         IN Start[k - 1] + block_size + ((m.size + block_size - 1) \div block_size) * block_size
Whole == Start[Len(members) + 1] + block_size
missing == -1
nothing == [index |-> -1, name |-> ""]

InitrdInit ==
    /\ members \in UNION {[1..n -> Members] : n \in 0..MaxMembers}
    /\ \E c \in Cuts : c <= Whole /\ archive_length = Whole - c
    /\ file_count = 0 /\ call = "init" /\ goal = nothing /\ offset = 0 /\ seen = 0 /\ result = missing

\* What is at an offset, as a header: a member, the zeroes at the end, or bytes
\* of a file that mean nothing
garbage == [name |-> "?", file |-> TRUE, size |-> 0]
zeroes == [name |-> "", file |-> TRUE, size |-> 0]
Header(at) ==
    IF at = Start[Len(members) + 1] THEN zeroes
    ELSE IF \E k \in 1..Len(members) : Start[k] = at
         THEN members[CHOOSE k \in 1..Len(members) : Start[k] = at] ELSE garbage

entry_at(at) ==
    /\ at + block_size <= archive_length /\ Header(at).name # ""
    /\ at + block_size + Header(at).size <= archive_length

Following == offset + block_size + round_to_block(Header(offset).size)
Answers(r) == call' = "idle" /\ result' = r /\ offset' = 0 /\ seen' = 0 /\ UNCHANGED goal

\* initrd_init()
CountFile ==
    /\ call = "init" /\ UNCHANGED image
    /\ IF ~entry_at(offset) THEN Answers(missing) /\ UNCHANGED file_count
       ELSE /\ file_count' = IF Header(offset).file THEN file_count + 1 ELSE file_count
            /\ offset' = Following /\ UNCHANGED <<call, goal, seen, result>>

Ask(c, g) ==
    /\ call = "idle" /\ call' = c /\ goal' = g /\ result' = missing
    /\ UNCHANGED <<image, file_count, offset, seen>>

\* initrd_data_at(), and initrd_name_at() which walks the same way
DataAt ==
    /\ call = "at" /\ UNCHANGED <<image, file_count>>
    /\ IF ~entry_at(offset) THEN Answers(missing)
       ELSE IF Header(offset).file /\ seen = goal.index THEN Answers(offset + block_size)
       ELSE /\ seen' = IF Header(offset).file THEN seen + 1 ELSE seen
            /\ offset' = Following /\ UNCHANGED <<call, goal, result>>

\* initrd_find()
Find ==
    /\ call = "find" /\ UNCHANGED <<image, file_count>>
    /\ IF ~entry_at(offset) THEN Answers(missing)
       ELSE IF Header(offset).file /\ <<Header(offset).name, goal.name>> \in Matching
       THEN Answers(offset + block_size)
       ELSE offset' = Following /\ UNCHANGED <<call, goal, seen, result>>

InitrdNext ==
    \/ CountFile \/ DataAt \/ Find
    \/ \E n \in 0..MaxMembers : n < file_count /\ Ask("at", [nothing EXCEPT !.index = n])
    \/ \E name \in Wanted : Ask("find", [nothing EXCEPT !.name = name])

InitrdSpec == InitrdInit /\ [][InitrdNext]_initrd_vars

----------------------------------------------------------------------------
\* The files that are there to their last byte, up to the first member that is not
Complete ==
    LET cut == {k \in 1..Len(members) : Start[k] + block_size + members[k].size > archive_length}
        last == IF cut = {} THEN Len(members) ELSE Min(cut) - 1
    IN SelectSeq([k \in 1..last |-> k], LAMBDA k : members[k].file)

\* initrd_init() counts the complete files, no directory and no header made of
\* file contents, and each number below the count leads to the file of that number.
EveryCountedFileIsThere ==
    call = "idle" =>
        /\ file_count = Len(Complete)
        /\ goal.index >= 0 => result = Start[Complete[goal.index + 1]] + block_size

\* What the walk returns lies in the archive to its last byte.
InsideArchive ==
    call = "idle" /\ result # missing =>
        \E k \in 1..Len(members) :
            result = Start[k] + block_size /\ result + members[k].size <= archive_length

\* initrd_find() returns the first complete file of that name, wherever it is
\* packed, and nothing only if there is none.
FindsTheName ==
    call = "idle" /\ goal.name # "" =>
        LET hits == {k \in Range(Complete) : <<members[k].name, goal.name>> \in Matching}
        IN result = IF hits = {} THEN missing ELSE Start[Min(hits)] + block_size

\* What was packed is what is found: the walks for the count, for the n-th file and
\* for a name agree with the members that the cut left whole, and stay inside.
ArchiveReadsBack == EveryCountedFileIsThere /\ InsideArchive /\ FindsTheName
===============================================================================
