------------------------------ MODULE VirtioBlk ------------------------------
(***************************************************************************)
(* A disk behind a virtqueue: BlockDevice::read_bytes() of block/block.cpp *)
(* and the sector writes of block_selftest(), over Queue::submit() of      *)
(* modules/virtio_blk/virtio_blk.cpp, with the device as an actor of its   *)
(* own.  One thread uses the disk at a time, as kernel_init() does; the    *)
(* module is loaded and unloaded between its calls.                        *)
(***************************************************************************)
EXTENDS Integers, Sequences, FiniteSets

CONSTANTS Frames,       \* frames the allocator can hand out
          size_,        \* entries of the queue
          IndexSpan,    \* 2^16 in the code: where the ring indices wrap
          Sectors,      \* sectors of the disk
          SectorBytes,  \* 512 in the code
          Late,         \* whether the device may answer after the two seconds
          MaxCalls,     \* how many calls the client makes
          MaxLoads      \* how often the module is loaded

ASSUME RingsWrapTogether == size_ \in Nat /\ size_ >= 3 /\ IndexSpan % size_ = 0
ASSUME Sizes == Sectors \in Nat \ {0} /\ SectorBytes \in Nat \ {0} /\ Late \in BOOLEAN

VARIABLES blk_pc, call, offset, left, out, bounce, header,   \* the client, inside its call
          held,               \* the frames it has from the allocator
          data, status,       \* [frame -> contents], [frame -> the status byte]
          headers,            \* [frame -> the request header in it]
          next_descriptor_, last_used_, descriptors_,
          ring, available,    \* the available ring and its index
          used,               \* the index of the used ring
          seen, pending,      \* the device: what it has fetched, what it works on
          disk,
          sent, served,       \* the last request made, the last one answered with success
          calls,              \* how many calls were made
          attached, loads,    \* the module, and how often it was loaded
          frames_,            \* the pages of its rings
          queue_address       \* where the device has been told that they are

client == <<blk_pc, call, offset, left, out, bounce, header, held, sent, calls>>
queue == <<next_descriptor_, last_used_, descriptors_, ring, available>>
device == <<used, seen, pending, disk, served>>
memory == <<data, status, headers>>
driver == <<attached, loads, frames_, queue_address>>
blk_vars == <<client, queue, device, memory, driver>>

none == "none"
nothing == [kind |-> none]
old == <<"old", 0>>
written == <<"written", 0>>
Entries == 0..(size_ - 1)

BlkInit ==
    /\ blk_pc = "idle" /\ call = nothing /\ offset = 0 /\ left = 0 /\ out = <<>>
    /\ bounce = none /\ header = none /\ held = {} /\ calls = 0
    /\ data = [f \in Frames |-> old] /\ status = [f \in Frames |-> 255]
    /\ headers = [f \in Frames |-> [kind |-> none, sector |-> 0, id |-> 0]]
    /\ next_descriptor_ = 0 /\ last_used_ = 0 /\ available = 0 /\ used = 0 /\ seen = 0
    /\ descriptors_ = [d \in Entries |-> none] /\ ring = [d \in Entries |-> 0]
    /\ pending = {} /\ sent = 0 /\ served = 0
    /\ disk = [s \in 0..(Sectors - 1) |-> <<"sector", s>>]
    /\ attached = FALSE /\ loads = 0 /\ frames_ = none /\ queue_address = none

----------------------------------------------------------------------------
\* Writing 0 to the status register: the device forgets what it was doing
ResetDevice == pending' = {} /\ seen' = 0 /\ UNCHANGED <<disk, served>>

\* setup() goes on from where the last queue ended.
LastUsedKept == last_used_

LastUsedCleared == 0

\* Queue::setup() with the pages p: they are cleared and the device is told of them
setup(p) ==
    /\ frames_' = p /\ queue_address' = p
    /\ descriptors_' = [d \in Entries |-> none] /\ ring' = [d \in Entries |-> 0]
    /\ available' = 0 /\ used' = 0 /\ next_descriptor_' = 0 /\ last_used_' = LastUsedCleared

\* virtio_blk_init(): no device of the legacy layout, no pages for the rings, or attached
virtio_blk_init(found, ok) ==
    /\ blk_pc = "idle" /\ ~attached /\ loads < MaxLoads /\ loads' = loads + 1
    /\ \/ ~found /\ UNCHANGED <<queue, device, attached, frames_, queue_address>>
       \/ /\ found /\ ~ok /\ ResetDevice /\ UNCHANGED <<queue, used, attached, frames_, queue_address>>
       \/ found /\ ok /\ ResetDevice /\ setup("rings") /\ attached' = TRUE
    /\ UNCHANGED <<client, memory>>

\* Queue::teardown(): the device forgets the pages, and they go back
teardown == queue_address' = none /\ frames_' = none

\* virtio_blk_exit() resets the device first
virtio_blk_exit ==
    /\ blk_pc = "idle" /\ attached /\ attached' = FALSE
    /\ ResetDevice /\ teardown
    /\ UNCHANGED <<client, memory, queue, used, loads>>

----------------------------------------------------------------------------
\* Which frame the page allocator returns is not this module's matter
Free == Frames \ held

\* read_bytes(), or a write of one sector: first a page to bounce through
Begin(kind, o, length) ==
    /\ blk_pc = "idle" /\ calls < MaxCalls /\ calls' = calls + 1
    /\ call' = [kind |-> kind, offset |-> o, length |-> length]
    /\ offset' = o /\ left' = length /\ out' = <<>>
    /\ \E f \in Free :
        /\ bounce' = f /\ held' = held \cup {f} /\ blk_pc' = "submit"
        /\ data' = IF kind = "write" THEN [data EXCEPT ![f] = written] ELSE data
    /\ UNCHANGED <<header, sent, status, headers, queue, device, driver>>

sector == offset \div SectorBytes
inside == offset % SectorBytes
chunk == IF left < SectorBytes - inside THEN left ELSE SectorBytes - inside

\* Not attached, or no page for the header, which others may have taken at any time
NoHeader ==
    /\ blk_pc = "submit" /\ blk_pc' = "failed"
    /\ UNCHANGED <<call, offset, left, out, bounce, header, held, sent, calls, memory, queue, device, driver>>

\* The descriptors of a request: header, payload, status
Chain(f) ==
    [d \in Entries |->
        CASE d = next_descriptor_ -> [at |-> f, next |-> (d + 1) % size_]
          [] d = (next_descriptor_ + 1) % size_ -> [at |-> bounce, next |-> (d + 1) % size_]
          [] d = (next_descriptor_ + 2) % size_ -> [at |-> f, next |-> 0]
          [] OTHER -> descriptors_[d]]

\* submit() up to the notification
Submit ==
    /\ blk_pc = "submit" /\ attached /\ blk_pc' = "wait" /\ sent' = sent + 1
    /\ \E f \in Free :
        /\ header' = f /\ held' = held \cup {f} /\ status' = [status EXCEPT ![f] = 255]
        /\ headers' = [headers EXCEPT ![f] = [kind |-> call.kind, sector |-> sector, id |-> sent + 1]]
        /\ descriptors_' = Chain(f)
    /\ ring' = [ring EXCEPT ![available % size_] = next_descriptor_]
    /\ available' = (available + 1) % IndexSpan
    /\ next_descriptor_' = (next_descriptor_ + 3) % size_
    /\ UNCHANGED <<call, offset, left, out, bounce, calls, last_used_, data, device, driver>>

\* The device has moved the used index
HandedBack == used # last_used_

\* The status byte is not looked at.
StatusOkAlways == TRUE

StatusOk == status[header] = 0

\* eris_free_pages(header_frame, 1) before the return
Returned == {header}

\* The answer is there: the page of the header goes back and the sector is copied
Answered ==
    /\ blk_pc = "wait" /\ HandedBack
    /\ last_used_' = used
    /\ held' = held \ Returned /\ header' = none
    /\ IF ~StatusOk THEN blk_pc' = "failed" /\ UNCHANGED <<offset, left, out>>
       ELSE /\ out' = out \o [k \in 1..chunk |-> <<data[bounce], inside + k - 1>>]
            /\ offset' = offset + chunk /\ left' = left - chunk
            /\ blk_pc' = IF left = chunk THEN "true" ELSE "submit"
    /\ UNCHANGED <<call, bounce, sent, calls, next_descriptor_, descriptors_, ring, available,
                   memory, device, driver>>

\* Two seconds: a device that answers in time does so before them
Expired == Late \/ (seen = available /\ pending = {})

TimedOut ==
    /\ blk_pc = "wait" /\ ~HandedBack /\ Expired
    /\ held' = held \ {header} /\ header' = none /\ blk_pc' = "failed"
    /\ UNCHANGED <<call, offset, left, out, bounce, sent, calls, memory, queue, device, driver>>

\* read_bytes() frees the bounce page and returns
Return ==
    /\ blk_pc \in {"true", "failed"} /\ blk_pc' = "idle"
    /\ held' = held \ {bounce} /\ bounce' = none
    /\ call' = nothing /\ offset' = 0 /\ left' = 0 /\ out' = <<>>
    /\ UNCHANGED <<header, sent, calls, memory, queue, device, driver>>

----------------------------------------------------------------------------
\* The device takes the next chain, and may never answer it
Fetch ==
    LET first == descriptors_[ring[seen % size_]]
        second == descriptors_[first.next]
        third == descriptors_[second.next]
        request == [header |-> headers[first.at], payload |-> second.at, status |-> third.at]
    IN /\ queue_address # none /\ seen # available /\ seen' = (seen + 1) % IndexSpan
       /\ \/ pending' = pending \cup {request}
          \/ pending' = pending
       /\ UNCHANGED <<client, queue, used, disk, served, memory, driver>>

\* It answers with success, or with an error and no transfer
Serve(r) ==
    /\ pending' = pending \ {r} /\ used' = (used + 1) % IndexSpan
    /\ \/ /\ status' = [status EXCEPT ![r.status] = 0] /\ served' = r.header.id
          /\ \/ /\ r.header.kind = "read" /\ disk' = disk
                /\ data' = [data EXCEPT ![r.payload] = disk[r.header.sector]]
             \/ /\ r.header.kind = "write" /\ data' = data
                /\ disk' = [disk EXCEPT ![r.header.sector] = data[r.payload]]
       \/ status' = [status EXCEPT ![r.status] = 1] /\ UNCHANGED <<data, disk, served>>
    /\ UNCHANGED <<client, queue, seen, headers, driver>>

Step == NoHeader \/ Submit \/ Answered \/ TimedOut \/ Return
Device == Fetch \/ \E r \in pending : Serve(r)

BlkNext ==
    \/ \E o \in 0..(Sectors * SectorBytes - 1) : \E length \in 1..(Sectors * SectorBytes - o) :
            Begin("read", o, length)
    \/ \E s \in 0..(Sectors - 1) : Begin("write", s * SectorBytes, SectorBytes)
    \/ Step \/ Device
    \/ (\E found, ok \in BOOLEAN : virtio_blk_init(found, ok)) \/ virtio_blk_exit

BlkSpec == BlkInit /\ [][BlkNext]_blk_vars

\* The client is a thread that the scheduler runs again after each yield
BlkFairSpec == BlkSpec /\ WF_blk_vars(Step) /\ WF_blk_vars(Device)

----------------------------------------------------------------------------
\* read_bytes() and virtio_blk_write() return true only when it is done: every
\* byte read is the disk's, across sector boundaries, and the sector is written.
TrueMeansDone ==
    blk_pc = "true" =>
            IF call.kind = "read"
            THEN out = [k \in 1..call.length |->
                            <<disk[(call.offset + k - 1) \div SectorBytes], (call.offset + k - 1) % SectorBytes>>]
            ELSE disk[call.offset \div SectorBytes] = written

\* The device works only on pages the driver still holds: submit() and
\* read_bytes() give none back while a chain that names it is out.
DeviceOnHeldPages ==
    \A r \in pending : r.payload \in held /\ r.status \in held

\* The device never has the address of rings that went back.
RingsAreOwned == queue_address # none => queue_address = frames_

\* Between two calls the driver holds no page, whatever failed before.
PagesReturned == blk_pc = "idle" => held = {}

\* submit() reports success only for the request it made: the used index moved
\* and the status byte was written because of this chain.
SuccessIsOfThisRequest ==
    [][blk_pc = "wait" /\ blk_pc' \in {"true", "submit"} => served = sent]_blk_vars

\* A call on a device that has stopped answering still returns: the polling loop
\* of submit() has a deadline.
EveryCallReturns == blk_pc # "idle" ~> blk_pc = "idle"

\* read_bytes() over submit(), whichever loads and unloads of the driver came before:
\* a call returns, says true only when the device has done all of it, takes no other
\* request's answer for its own, and neither the device nor the caller is left with a
\* page that went back.  The device answers within the two seconds or never (Late): one
\* that answers after the call gave up is taken for the next request.
RequestsAreSound ==
    /\ [](TrueMeansDone /\ DeviceOnHeldPages /\ RingsAreOwned /\ PagesReturned)
    /\ SuccessIsOfThisRequest /\ EveryCallReturns
=============================================================================
