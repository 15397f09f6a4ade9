------------------------------ MODULE Process ------------------------------
(***************************************************************************)
(* The life of a program: process_run() of proc/process.cpp with every     *)
(* return, what it takes and gives back on the way, and the handles that   *)
(* the calls of proc/syscall.cpp give the program.  Programs run one after *)
(* another; UserMode.tla has the part in ring 3.  The segments of a        *)
(* program share no page: user/link.ld aligns them.                        *)
(***************************************************************************)
EXTENDS Integers, FiniteSets

CONSTANTS MaxProcesses,   \* max_processes
          MaxOpenFiles,   \* max_open_files
          Files,          \* [path -> size at first]
          Segments,       \* pages of the segments of the program
          StackPages,     \* user_stack_pages
          max_user_string,
          Frames,         \* frames the page allocator has
          MaxRuns         \* how many programs are started

ASSUME Limits ==
    /\ MaxProcesses \in Nat \ {0} /\ MaxOpenFiles \in Nat \ {0}
    /\ Segments \in Nat /\ StackPages \in Nat
    /\ max_user_string \in Nat
    /\ Frames \in Nat /\ MaxRuns \in Nat
ASSUME FilesHaveSizes == Files \in [DOMAIN Files -> Nat]

VARIABLES process_pc,             \* where process_run() is
          process_total, state, page_count,   \* the table, and the newest process
          image,          \* the buffer the program was read into
          owned,          \* frames the newest program's tables are made of or name
          kept,           \* the same of the programs before it
          lost,           \* frames that nothing names any more
          syscall_stack,  \* pages of the syscall stack
          free,           \* frames the page allocator has left
          open_files,     \* [slot -> unused, or path and offset]
          file_size,      \* [path -> size]
          given,          \* handles the program holds, with what it has read of each
          runs

process_vars == <<process_pc, process_total, state, page_count, image, owned, kept, lost, syscall_stack, free,
                  open_files, file_size, given, runs>>

Slots == 0..(MaxOpenFiles - 1)
unused == [path |-> "none", offset |-> 0]

ProcessInit ==
    /\ process_pc = "idle" /\ process_total = 0 /\ state = "Unused" /\ page_count = 0
    /\ image = "none" /\ owned = 0 /\ kept = 0 /\ lost = 0 /\ syscall_stack = 0 /\ free = Frames
    /\ open_files = [i \in Slots |-> unused] /\ given = <<>> /\ runs = 0
    /\ file_size = Files

\* stat() finds the program and kmalloc() and read_file() give its bytes; before
\* that process_run() returns with nothing taken
ReadProgram ==
    /\ process_pc = "idle" /\ runs < MaxRuns
    /\ runs' = runs + 1
    /\ image' = "buffer" /\ process_pc' = "allocate"
    /\ UNCHANGED <<process_total, state, page_count, owned, kept, lost, syscall_stack, free, open_files, file_size, given>>

\* read_file() gives nothing
ReadFails ==
    /\ process_pc = "allocate"
    /\ image' = "none" /\ process_pc' = "idle"
    /\ UNCHANGED <<process_total, state, page_count, owned, kept, lost, syscall_stack, free, open_files, file_size,
                   given, runs>>

\* process_total < max_processes
SlotLeft == process_total < MaxProcesses

\* ProcessTable::allocate()
AllocateSlot ==
    /\ process_pc = "allocate" /\ SlotLeft
    /\ process_total' = process_total + 1
    /\ state' = "Ready" /\ page_count' = 0 /\ kept' = kept + owned /\ owned' = 0
    /\ process_pc' = "load"
    /\ UNCHANGED <<image, lost, syscall_stack, free, open_files, file_size, given, runs>>

\* The image stays when the table is full.
ImageKept == image

\* kfree(image) before an early return
ImageFreed == "none"

TableFull ==
    /\ process_pc = "allocate" /\ ~SlotLeft
    /\ image' = ImageFreed /\ process_pc' = "idle"
    /\ UNCHANGED <<process_total, state, page_count, owned, kept, lost, syscall_stack, free, open_files, file_size,
                   given, runs>>

\* ProcessTable::load(): the root frame first
LoadRoot ==
    /\ process_pc = "load" /\ free > 0
    /\ free' = free - 1 /\ owned' = owned + 1
    /\ process_pc' = "pages"
    /\ UNCHANGED <<process_total, state, page_count, image, kept, lost, syscall_stack, open_files, file_size, given, runs>>

\* A page of a segment or, after the last segment, of the stack: its frame, and in map()
\* the frames of the tables that are missing on the way to its entry
MapPage ==
    /\ process_pc = "pages" /\ page_count < Segments + StackPages
    /\ \E tables \in 0..3 :
        /\ free > tables
        /\ free' = free - 1 - tables /\ owned' = owned + 1 + tables
    /\ page_count' = page_count + 1
    /\ UNCHANGED <<process_pc, process_total, state, image, kept, lost, syscall_stack, open_files, file_size, given, runs>>

\* map() runs out of frames for the tables: those it took are linked, and load() or
\* map_stack() returns without the frame of the page
MapFails ==
    /\ process_pc = "pages" /\ page_count < Segments + StackPages /\ free \in 1..3
    /\ owned' = owned + free - 1 /\ lost' = lost + 1 /\ free' = 0
    /\ image' = ImageFreed /\ process_pc' = "idle"
    /\ UNCHANGED <<process_total, state, page_count, kept, syscall_stack, open_files, file_size, given, runs>>

\* The image is no program, a segment lies below the user base, or alloc_page() gives
\* no frame: the slot and the frames so far stay as they are
LoadFails ==
    /\ \/ process_pc = "load"
       \/ process_pc = "pages" /\ page_count < Segments
       \/ process_pc = "pages" /\ page_count < Segments + StackPages /\ free = 0
    /\ image' = ImageFreed /\ process_pc' = "idle"
    /\ UNCHANGED <<process_total, state, page_count, owned, kept, lost, syscall_stack, free, open_files, file_size,
                   given, runs>>

\* The image is freed and the syscall stack is taken, or process_run() returns
Loaded ==
    /\ process_pc = "pages" /\ page_count = Segments + StackPages
    /\ image' = ImageFreed
    /\ IF free >= 4
       THEN /\ syscall_stack' = 4 /\ free' = free - 4
            /\ state' = "Running" /\ process_pc' = "ring_3"
       ELSE UNCHANGED <<syscall_stack, free, state>> /\ process_pc' = "idle"
    /\ UNCHANGED <<process_total, page_count, owned, kept, lost, open_files, file_size, given, runs>>

----------------------------------------------------------------------------
\* The calls of the program

\* The first slot that is not used
FreeSlot(i) ==
    /\ open_files[i] = unused
    /\ \A j \in 0..(i - 1) : open_files[j] # unused

sys_open(path) ==
    /\ process_pc = "ring_3"
    /\ \E i \in Slots :
        /\ FreeSlot(i)
        /\ open_files' = [open_files EXCEPT ![i] = [path |-> path, offset |-> 0]]
        /\ given' = [h \in DOMAIN given \cup {i + 3} |->
                        IF h = i + 3 THEN [path |-> path, read |-> 0] ELSE given[h]]
    /\ UNCHANGED <<process_pc, process_total, state, page_count, image, owned, kept, lost, syscall_stack, free, file_size, runs>>

ReadLength(i, length) ==
    LET rest == file_size[open_files[i].path] - open_files[i].offset
    IN IF length < rest THEN length ELSE rest

\* open_files[index].offset += read
Advanced(i, n) == open_files[i].offset + n

\* The handle is checked against the table before it is used
sys_read(handle, length) ==
    LET i == handle - 3
        n == ReadLength(i, length)
    IN /\ process_pc = "ring_3" /\ i \in Slots /\ open_files[i] # unused
       /\ length <= max_user_string
       /\ open_files' = [open_files EXCEPT ![i].offset = Advanced(i, n)]
       /\ given' = [given EXCEPT ![handle].read = @ + n]
       /\ UNCHANGED <<process_pc, process_total, state, page_count, image, owned, kept, lost, syscall_stack, free, file_size, runs>>

\* fs::write_file() writes from the start of the file, wherever the handle has read to;
\* handles 1 and 2 are the console, and a length over max_user_string is refused
sys_write(handle, length) ==
    LET path == open_files[handle - 3].path
    IN /\ process_pc = "ring_3" /\ handle - 3 \in Slots /\ open_files[handle - 3] # unused
       /\ length <= max_user_string
       /\ file_size' = [file_size EXCEPT ![path] = IF length > @ THEN length ELSE @]
       /\ UNCHANGED <<process_pc, process_total, state, page_count, image, owned, kept, lost, syscall_stack, free,
                      open_files, given, runs>>

sys_close(handle) ==
    /\ process_pc = "ring_3" /\ handle - 3 \in Slots /\ open_files[handle - 3] # unused
    /\ open_files' = [open_files EXCEPT ![handle - 3] = unused]
    /\ given' = [h \in DOMAIN given \ {handle} |-> given[h]]
    /\ UNCHANGED <<process_pc, process_total, state, page_count, image, owned, kept, lost, syscall_stack, free, file_size, runs>>

\* free_pages(syscall_stack, syscall_stack_pages)
FreedStack == syscall_stack

\* Call::Exit or a fault, and the rest of process_run()
Exit ==
    /\ process_pc = "ring_3"
    /\ state' = "Exited" /\ process_pc' = "idle"
    /\ free' = free + FreedStack /\ syscall_stack' = 0
    /\ given' = <<>>
    /\ UNCHANGED <<process_total, page_count, image, owned, kept, lost, open_files, file_size, runs>>

ProcessNext ==
    \/ ReadProgram \/ ReadFails \/ AllocateSlot \/ TableFull \/ LoadRoot \/ MapPage
    \/ MapFails \/ LoadFails \/ Loaded \/ Exit
    \/ \E path \in DOMAIN Files : sys_open(path)
    \/ \E h \in DOMAIN given : sys_close(h) \/ \E length \in 1..(max_user_string + 1) : sys_read(h, length) \/ sys_write(h, length)

ProcessSpec == ProcessInit /\ [][ProcessNext]_process_vars

----------------------------------------------------------------------------
\* The counts stay within their tables.
ProcessTypeOK ==
    /\ process_total \in 0..MaxProcesses /\ runs \in 0..MaxRuns
    /\ state \in {"Unused", "Ready", "Running", "Exited"}
    /\ free \in 0..Frames /\ page_count \in 0..(Segments + StackPages)

\* Every return of process_run() gives back the buffer of the image and the pages
\* of the syscall stack.
BufferAndStackReturned == process_pc = "idle" => image = "none" /\ syscall_stack = 0

\* Every frame is free, in the tables of one of the programs, in the syscall stack or
\* lost; a call loses one at most, by the map() it fails at, and none if it gets further.
FramesAccounted ==
    /\ free + owned + kept + lost + syscall_stack = Frames
    /\ lost + (IF process_pc = "idle" THEN 0 ELSE 1) <= runs

\* Each handle of the program is a used slot with the path it was opened with and
\* the offset up to which it has read, and two handles are never one slot.
HandlesAreFiles ==
    \A h \in DOMAIN given :
        /\ open_files[h - 3].path = given[h].path
        /\ open_files[h - 3].offset = given[h].read
        /\ given[h].read <= file_size[given[h].path]

\* Whichever step of process_run() fails, the call keeps neither its buffer nor its stack;
\* frames are neither made up nor counted twice, and no more than the one that a failing
\* map() leaves behind is lost; a handle stays with the file and offset it was given for.
\* The frames of the programs are not given back (TornDown does not hold), and the lost
\* one is no program's (NoFrameLost does not hold).
ProgramAccounted == ProcessTypeOK /\ BufferAndStackReturned /\ FramesAccounted /\ HandlesAreFiles

\* A page whose map() fails gives its frame back (process.cpp:144 and :190 do not).
NoFrameLost == lost = 0

\* What a program owned is given back once it has left: its frames and its handles.
TornDown ==
    (process_pc = "ring_3") ~> (process_pc = "idle" /\ owned = 0 /\ \A i \in Slots : open_files[i] = unused)

\* A started program runs to its end, and each process_run() to its return.
ProcessFairSpec ==
    /\ ProcessSpec
    /\ WF_process_vars(ReadFails \/ AllocateSlot \/ TableFull \/ LoadRoot \/ MapPage \/ MapFails \/ Loaded)
    /\ WF_process_vars(Exit)

=============================================================================
