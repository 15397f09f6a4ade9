-------------------------------- MODULE RamFs --------------------------------
(***************************************************************************)
(* The files of fs/ramfs.cpp: a table of slots, each with a buffer from    *)
(* the heap that doubles when a write does not fit.  The calls are made    *)
(* one at a time; a write puts one byte value, repeated.                   *)
(***************************************************************************)
EXTENDS Integers, Sequences, FiniteSets, FiniteSetsExt

CONSTANTS Names,      \* short enough for name_
          max_files,
          Unit,       \* the first capacity, 512 in the code
          Bytes, Offsets, Lengths

ASSUME RamFsBounds == max_files \in Nat \ {0} /\ Unit \in Nat \ {0} /\ 0 \notin Bytes

VARIABLES files   \* [slot -> name_, used_, data_, size_]; the capacity is data_'s length
ramfs_vars == files

FileSlots == 1..max_files
empty == [used_ |-> FALSE, name_ |-> "", data_ |-> <<>>, size_ |-> 0]

RamFsInit == files = [s \in FileSlots |-> empty]

find(name) == {s \in FileSlots : files[s].used_ /\ files[s].name_ = name}

Missing(name) == find(name) = {}

\* An existing file is found, else the first free slot is bound
ramfs_create_file(name) ==
    LET unused == {s \in FileSlots : ~files[s].used_}
    IN /\ Missing(name) /\ unused # {}
       /\ files' = [files EXCEPT ![Min(unused)].used_ = TRUE, ![Min(unused)].name_ = name]

\* release(): the buffer goes back and the fields are cleared, but the name stays
Released(s) == [empty EXCEPT !.name_ = files[s].name_]

ramfs_remove(name) ==
    \E s \in find(name) : files' = [files EXCEPT ![s] = Released(s)]

\* Doubled until it fits
Target(capacity, wanted) ==
    LET first == IF capacity = 0 THEN Unit ELSE capacity
    IN first * 2^Min({k \in 0..wanted : first * 2^k >= wanted})

\* A buffer that was used before, the way kmalloc() gives it.
GrownStale(data, size, target) ==
    [i \in 1..target |-> IF i <= size THEN data[i] ELSE CHOOSE b \in Bytes : TRUE]

\* A zeroed buffer with the size_ bytes of the old one
Grown(data, size, target) == [i \in 1..target |-> IF i <= size THEN data[i] ELSE 0]

SizeAfter(size, end) == IF end > size THEN end ELSE size

\* RamFile::write(); when the heap has no room for the buffer nothing changes
write(s, offset, length, b) ==
    LET f == files[s]
        end == offset + length
        data == IF end > Len(f.data_) THEN Grown(f.data_, f.size_, Target(Len(f.data_), end))
                ELSE f.data_
    IN files' = [files EXCEPT
            ![s].data_ = [i \in 1..Len(data) |-> IF i > offset /\ i <= end THEN b ELSE data[i]],
            ![s].size_ = SizeAfter(f.size_, end)]

RamFsNext ==
    \E name \in Names :
        \/ ramfs_create_file(name) \/ ramfs_remove(name)
        \/ \E s \in find(name), o \in Offsets, l \in Lengths, b \in Bytes : write(s, o, l, b)

RamFsSpec == RamFsInit /\ [][RamFsNext]_ramfs_vars

----------------------------------------------------------------------------
\* read(): what is between the offset and size_
read(s, offset, length) ==
    LET f == files[s]
        available == IF offset >= f.size_ THEN 0 ELSE f.size_ - offset
    IN SubSeq(f.data_, offset + 1, offset + Min({length, available}))

PresentFiles == {name \in Names : find(name) # {}}
Slot(name) == CHOOSE s \in find(name) : TRUE

Promise == INSTANCE FileStore WITH
    store <- [name \in PresentFiles |-> read(Slot(name), 0, files[Slot(name)].size_)]

\* A name has one file, and a file has a buffer as large as its size.
OneFilePerName ==
    /\ \A name \in Names : Cardinality(find(name)) <= 1
    /\ \A s \in FileSlots : files[s].size_ <= Len(files[s].data_)

\* The table of slots, buffers and sizes, one for each name, implements a map from
\* names to bytes: a file created anew is empty, a hole reads as zeroes, a write keeps
\* the rest.
ImplementsStore == []OneFilePerName /\ Promise!Spec
=============================================================================
