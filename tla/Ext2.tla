-------------------------------- MODULE Ext2 --------------------------------
(***************************************************************************)
(* Reading an ext2 image: fs/ext2.cpp.  One thread mounts it, opens the    *)
(* root, lists it, looks names up in it and reads from what it finds.      *)
(* Every page the allocator gives may be refused and every block the disk  *)
(* is asked for may fail to come.  A byte is known by its block and its    *)
(* place in it.                                                            *)
(***************************************************************************)
EXTENDS Integers, Sequences, FiniteSets, SequencesExt

CONSTANTS BlockSize, Direct, PerBlock,  \* bytes in a block; 12 and the entries of a table in the code
          max_open_inodes, InodesPerGroup,
          FileSizes, Holes,             \* the sizes of a file and where it may have no block
          Directory,                    \* the root's blocks, each a sequence of <<name, inode>>
          Wanted, Ranges, Listed        \* names looked up; <<offset, length>> read; entries listed

ASSUME Ext2Bounds == Direct \in Nat /\ PerBlock \in Nat /\ BlockSize \in Nat \ {0}

VARIABLES superblock,  \* what the disk holds: its magic and block size, in kilobytes
          kilobytes,   \* the block size that mount() took from it
          file,        \* [inode -> its size and the index of its hole]
          inodes,      \* the inodes opened, in order
          ext2_pc, node, name, position, length, done, got, at,   \* the call in progress
          pages,       \* the pages it holds
          failed       \* whether a page or a block was refused to it

ext2_call == <<ext2_pc, node, name, position, length, done, got, at>>
ext2_vars == <<superblock, kilobytes, file, inodes, ext2_call, pages, failed>>

root_inode == 2
nullptr == 0
Ext2Files == {e[2] : e \in UNION {Range(b) : b \in Range(Directory)}} \ {0}
Size(n) == IF n = root_inode THEN Len(Directory) * BlockSize ELSE file[n].size

Ext2Init ==
    /\ superblock \in [magic : {"ext2", "other"}, kilobytes : {1, 2}] /\ kilobytes = 1
    /\ file \in [Ext2Files -> [size : FileSizes, hole : Holes]]
    /\ inodes = <<>> /\ ext2_pc = "unmounted" /\ node = nullptr /\ name = "" /\ position = 0 /\ length = 0
    /\ done = 0 /\ got = <<>> /\ at = 0 /\ pages = 0 /\ failed = FALSE

\* mount(): a disk that does not answer, or holds something else, is not mounted
mount_ext2(ok) ==
    /\ ext2_pc = "unmounted" /\ ok /\ superblock.magic = "ext2"
    /\ kilobytes' = superblock.kilobytes /\ ext2_pc' = "idle"
    /\ UNCHANGED <<superblock, file, inodes, node, name, position, length, done, got, at, pages, failed>>

\* The number of the block at an index of an inode, 0 at a hole.  Blocks have
\* their inode and index for a name.
no_block == <<0, 0>>
Pointer(n, index) ==
    IF n # root_inode /\ file[n].hole = index THEN no_block ELSE <<n, index + 1>>

\* The last entry of the table is left out.
IndirectShort(index) == index - Direct < PerBlock - 1

Indirect(index) == index - Direct < PerBlock

\* block_for(): direct, or through a table that has to be read
block_for(n, index, ok) ==
    IF index < Direct THEN Pointer(n, index)
    ELSE IF ~Indirect(index) \/ ~ok THEN no_block ELSE Pointer(n, index)

descriptor_block == IF kilobytes = 1 THEN 2 ELSE 1

\* The block after the one that holds byte 1024 has the descriptors; any other
\* gives a table full of zeroes
read_inode(number) ==
    LET group == (number - 1) \div InodesPerGroup
        index == (number - 1) % InodesPerGroup
    IN IF descriptor_block = (1 \div superblock.kilobytes) + 1 THEN group * InodesPerGroup + index + 1 ELSE 0

Cached(number) == number \in Range(inodes)

\* open(): from the table, or read into it if there is room
open(number, ok) ==
    \/ Cached(number) /\ node' = number /\ UNCHANGED <<inodes, failed>>
    \/ /\ ~Cached(number)
       /\ IF Len(inodes) < max_open_inodes /\ ok
          THEN inodes' = Append(inodes, read_inode(number)) /\ node' = read_inode(number) /\ UNCHANGED failed
          ELSE node' = nullptr /\ failed' = TRUE /\ UNCHANGED inodes

----------------------------------------------------------------------------
\* resolve(): the root, then one name
Resolve(n, ok) ==
    /\ ext2_pc = "idle" /\ name' = n /\ at' = 0 /\ got' = <<>> /\ done' = 0
    /\ open(root_inode, ok)
    /\ ext2_pc' = IF node' = nullptr THEN "missing" ELSE "lookup"
    /\ UNCHANGED <<superblock, kilobytes, file, position, length, pages>>

Give(k) == pages' = pages - k

\* lookup() and entry_at(): first a page to read the directory into
DirectoryPage(ok, from, to, none) ==
    /\ ext2_pc = from
    /\ IF ok THEN ext2_pc' = to /\ pages' = pages + 1 /\ UNCHANGED <<node, failed>>
       ELSE ext2_pc' = none /\ node' = nullptr /\ failed' = TRUE /\ UNCHANGED pages
    /\ UNCHANGED <<superblock, kilobytes, file, inodes, name, position, length, done, got, at>>

lookup(ok) == DirectoryPage(ok, "lookup", "scan", "missing")
entry_at(ok) == DirectoryPage(ok, "entry_at", "entries", "unlisted")

\* One block of the directory.  An entry that cannot be opened ends its block, not the search
LookupBlock(ok) ==
    /\ ext2_pc = "scan"
    /\ IF at * BlockSize >= Size(root_inode)
       THEN ext2_pc' = "missing" /\ node' = nullptr /\ Give(1) /\ UNCHANGED <<inodes, at, failed>>
       ELSE IF block_for(root_inode, at, ok) = no_block \/ ~ok
       THEN ext2_pc' = "missing" /\ node' = nullptr /\ Give(1) /\ failed' = TRUE /\ UNCHANGED <<inodes, at>>
       ELSE LET block == Directory[at + 1]
                hits == {e \in 1..Len(block) : block[e][1] = name /\ block[e][2] # 0}
            IN IF hits = {} THEN at' = at + 1 /\ UNCHANGED <<ext2_pc, node, inodes, pages, failed>>
               ELSE /\ \E ok2 \in BOOLEAN : open(block[Min(hits)][2], ok2)
                    /\ IF node' = nullptr THEN at' = at + 1 /\ UNCHANGED <<ext2_pc, pages>>
                       ELSE ext2_pc' = "found" /\ Give(1) /\ UNCHANGED at
    /\ UNCHANGED <<superblock, kilobytes, file, name, position, length, done, got>>

\* list() of the root, which asks it for the entry at an index
List(index, ok) ==
    /\ ext2_pc = "idle" /\ position' = index /\ at' = 0 /\ done' = 0
    /\ open(root_inode, ok)
    /\ ext2_pc' = IF node' = nullptr THEN "unlisted" ELSE "entry_at"
    /\ UNCHANGED <<superblock, kilobytes, file, name, length, got, pages>>

Live(entries) == SelectSeq(entries, LAMBDA e : e[2] # 0)

\* One block of entry_at(), which has seen as many live entries as done says
EntryBlock(ok) ==
    /\ ext2_pc = "entries"
    /\ IF at * BlockSize >= Size(root_inode)
       THEN ext2_pc' = "unlisted" /\ Give(1) /\ UNCHANGED <<name, done, at, failed>>
       ELSE IF block_for(root_inode, at, ok) = no_block \/ ~ok
       THEN ext2_pc' = "unlisted" /\ Give(1) /\ failed' = TRUE /\ UNCHANGED <<name, done, at>>
       ELSE LET live == Live(Directory[at + 1])
            IN IF Len(live) > position - done
               THEN ext2_pc' = "listed" /\ name' = live[position - done + 1][1] /\ Give(1) /\ UNCHANGED <<done, at, failed>>
               ELSE done' = done + Len(live) /\ at' = at + 1 /\ UNCHANGED <<ext2_pc, name, pages, failed>>
    /\ UNCHANGED <<superblock, kilobytes, file, inodes, node, position, length, got>>

\* read(): clipped to the size, with a page to read blocks into
ReadFile(o, l, ok) ==
    /\ ext2_pc = "found" /\ position' = o /\ done' = 0 /\ got' = <<>>
    /\ length' = IF o >= Size(node) THEN 0 ELSE Min({l, Size(node) - o})
    /\ IF o >= Size(node) THEN ext2_pc' = "returned" /\ UNCHANGED <<pages, failed>>
       ELSE IF ok THEN ext2_pc' = "read" /\ pages' = pages + 1 /\ UNCHANGED failed
       ELSE ext2_pc' = "returned" /\ failed' = TRUE /\ UNCHANGED pages
    /\ UNCHANGED <<superblock, kilobytes, file, inodes, node, name, at>>

Chunk(inside) == Min({length - done, BlockSize - inside})

FreedOnBreak == 1

\* One turn of the loop of read()
ReadBlock(ok) ==
    LET index == (position + done) \div BlockSize
        inside == (position + done) % BlockSize
        block == block_for(node, index, ok)
    IN /\ ext2_pc = "read"
       /\ IF done = length THEN ext2_pc' = "returned" /\ Give(1) /\ UNCHANGED <<got, done, failed>>
          ELSE IF block = no_block \/ ~ok
          THEN ext2_pc' = "returned" /\ Give(FreedOnBreak) /\ failed' = (failed \/ ~ok) /\ UNCHANGED <<got, done>>
          ELSE /\ got' = got \o [i \in 1..Chunk(inside) |-> <<block, inside + i - 1>>]
               /\ done' = done + Chunk(inside) /\ UNCHANGED <<ext2_pc, pages, failed>>
       /\ UNCHANGED <<superblock, kilobytes, file, inodes, node, name, position, length, at>>

\* The caller goes on: another read, or another name
Again ==
    /\ ext2_pc \in {"returned", "missing", "listed", "unlisted"}
    /\ ext2_pc' \in (IF ext2_pc = "returned" THEN {"found", "idle"} ELSE {"idle"})
    /\ failed' = FALSE /\ got' = <<>> /\ done' = 0 /\ position' = 0 /\ length' = 0 /\ at' = 0
    /\ name' = IF ext2_pc' = "found" THEN name ELSE ""
    /\ node' = IF ext2_pc' = "found" THEN node ELSE nullptr
    /\ UNCHANGED <<superblock, kilobytes, file, inodes, pages>>

Ext2Next ==
    \/ \E ok \in BOOLEAN :
        \/ mount_ext2(ok) \/ (\E n \in Wanted : Resolve(n, ok)) \/ (\E index \in Listed : List(index, ok))
        \/ lookup(ok) \/ LookupBlock(ok) \/ entry_at(ok) \/ EntryBlock(ok) \/ ReadBlock(ok)
        \/ \E r \in Ranges : ReadFile(r[1], r[2], ok)
    \/ Again

Ext2Spec == Ext2Init /\ [][Ext2Next]_ext2_vars

----------------------------------------------------------------------------
\* The bytes that read() has put in the buffer are those of the file from the
\* offset on, across blocks and through the table of indirect blocks.
ReadsTheFile ==
    ext2_pc \in {"read", "returned"} => got = [i \in 1..done |-> LET k == position + i - 1
                             IN <<<<node, k \div BlockSize + 1>>, k % BlockSize>>]

\* read() stops short of the file only where a page or a block was refused, at
\* a hole, or behind the last block that one table of indirect blocks reaches.
ShortOnlyWithReason ==
    ext2_pc = "returned" /\ done < length =>
             \/ failed
             \/ (position + done) \div BlockSize \in {file[node].hole} \cup {i \in 0..100 : i >= Direct + PerBlock}

\* lookup() finds what the directory has, the entry of that name in whatever
\* block it is, and says that it is missing only if it is, or if it was refused
\* something: a page, a block, or room in the table of open inodes.
LookupIsExact ==
    /\ ext2_pc = "found" => \E b \in Range(Directory) : <<name, node>> \in Range(b)
    /\ ext2_pc = "missing" /\ ~failed => \A b \in Range(Directory), n \in Ext2Files : <<name, n>> \notin Range(b)

\* Two names of one file, and two lookups of one name, share an open inode.
OneInodePerNumber == IsInjective(inodes)

\* entry_at() counts the entries that are in use over all blocks, so that asking for
\* 0, 1, 2... lists each of them once and ends behind the last or at a refusal.
ListsEveryEntry ==
    LET live == Live(FlattenSeq(Directory))
    IN /\ ext2_pc = "listed" => position < Len(live) /\ name = live[position + 1][1]
       /\ ext2_pc = "unlisted" /\ ~failed => position >= Len(live)

\* Between two calls no page is held.
BuffersReturned == ext2_pc \notin {"scan", "entries", "read"} => pages = 0

\* read(), lookup() and entry_at() return what the image holds, stop short only with a
\* reason, open an inode once and give back their pages, whatever page or block is refused.
ReadsAreSound ==
    /\ ReadsTheFile /\ ShortOnlyWithReason /\ LookupIsExact /\ ListsEveryEntry
    /\ OneInodePerNumber /\ BuffersReturned
=============================================================================
