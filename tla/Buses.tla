------------------------------- MODULE Buses -------------------------------
(***************************************************************************)
(* From the bus to the file: the enumeration, the size of a base address   *)
(* register and the capabilities of a device (Pci), the match of devices   *)
(* and drivers and the registry of block devices (Devices), the driver of  *)
(* one (VirtioBlk), the two file systems (RamFs and Ext2), and the names   *)
(* in front of them (Vfs).  Each hands the next one finished results, a    *)
(* choice of values here: the nine share no variable, and a behaviour      *)
(* moves one of them, busy.                                                *)
(***************************************************************************)
EXTENDS Pci, Devices, VirtioBlk, Vfs, RamFs, Ext2

\* Three functions on bus 0, one on bus 1 and one on bus 2
MCPlaces == {<<0, 0, 0>>, <<0, 0, 1>>, <<0, 1, 0>>, <<1, 0, 0>>, <<2, 0, 0>>}

\* "/", "/a", "/ab", "/a/b", "/b/", "/a/b/a"
MCMountPaths ==
    {<<"/">>, <<"/", "a">>, <<"/", "a", "b">>, <<"/", "a", "/", "b">>, <<"/", "b", "/">>,
     <<"/", "a", "/", "b", "/", "a">>}

\* Up to six characters with slashes anywhere, the longest below "/a/b"
MCPaths ==
    {p \in UNION {[1..n -> {"/", "a", "b"}] : n \in 1..6} :
        /\ p[1] = "/"
        /\ Len(p) < 6 \/ SubSeq(p, 1, 4) = <<"/", "a", "/", "b">>}

\* Every inode one or two names deep, but one
MCTree ==
    {<<>>, <<<<"a">>>>, <<<<"b">>>>, <<<<"a", "b">>>>, <<<<"a">>, <<"b">>>>, <<<<"b">>, <<"b">>>>}

\* A deleted entry, two files, and a second name of the first in the next block
MCDirectory == << << <<"gone", 0>>, <<"x", 3>> >>, << <<"y", 5>>, <<"z", 3>> >> >>
MCRanges == {<<0, 12>>, <<1, 2>>, <<3, 4>>, <<7, 1>>, <<9, 1>>}

----------------------------------------------------------------------------
CONSTANT Spare   \* a driver that no device matches, one more than the table holds
VARIABLE busy

\* The drivers are alike: of two, only the case where the first matches at
\* least as many devices.  A probe that fails is one of the first device.
FirstDriver == CHOOSE d \in Drivers \ {Spare} : TRUE
MatchesMost(d) ==
    \A e \in Drivers :
        Cardinality({m \in matches : m[1] = e}) <= Cardinality({m \in matches : m[1] = d})

\* Hardware that rests is absent; a device that does not fit into the table is
\* never looked at, so that what it matches is left out.
BusesInit ==
    /\ busy \in {"scan", "bar", "capability", "devices", "registry", "blk", "vfs", "ramfs", "ext2"}
    /\ busy = "scan" \/ (what = [p \in Places |-> absent] /\ many = {})
    /\ PciInit
    /\ BarInit /\ (busy # "bar" => kind = "none" /\ ~decoding)
    /\ busy = "capability" \/ (of_id = {} /\ cap_next = [w \in 1..Words |-> 0])
    /\ CapInit /\ (busy # "capability" => ~status_capabilities /\ cap_first = 0)
    /\ busy = "devices" \/ matches = {}
    /\ DevicesInit /\ \A m \in matches : m[2] <= max_devices /\ m[1] # Spare
    /\ MatchesMost(FirstDriver) /\ \A m \in matches \ accepts : m[2] = 1
    /\ \/ busy = "ext2"
       \/ /\ superblock = [magic |-> "ext2", kilobytes |-> 1]
          /\ file = [n \in Ext2Files |-> [size |-> 3, hole |-> 99]]
    /\ Ext2Init
    /\ BlockInit /\ BlkInit /\ VfsInit /\ RamFsInit

BusesNext ==
    /\ UNCHANGED busy
    /\ \/ /\ busy = "scan" /\ PciNext
          /\ UNCHANGED <<bar_vars, cap_vars, device_vars, block_vars, blk_vars, vfs_vars, ramfs_vars, ext2_vars>>
       \/ /\ busy = "bar" /\ BarNext
          /\ UNCHANGED <<pci_vars, cap_vars, device_vars, block_vars, blk_vars, vfs_vars, ramfs_vars, ext2_vars>>
       \/ /\ busy = "capability" /\ CapNext
          /\ UNCHANGED <<pci_vars, bar_vars, device_vars, block_vars, blk_vars, vfs_vars, ramfs_vars, ext2_vars>>
       \/ /\ busy = "devices" /\ DevicesNext
          /\ UNCHANGED <<pci_vars, bar_vars, cap_vars, block_vars, blk_vars, vfs_vars, ramfs_vars, ext2_vars>>
       \/ /\ busy = "registry" /\ BlockNext
          /\ UNCHANGED <<pci_vars, bar_vars, cap_vars, device_vars, blk_vars, vfs_vars, ramfs_vars, ext2_vars>>
       \/ /\ busy = "blk" /\ BlkNext
          /\ UNCHANGED <<pci_vars, bar_vars, cap_vars, device_vars, block_vars, vfs_vars, ramfs_vars, ext2_vars>>
       \/ /\ busy = "vfs" /\ VfsNext
          /\ UNCHANGED <<pci_vars, bar_vars, cap_vars, device_vars, block_vars, blk_vars, ramfs_vars, ext2_vars>>
       \/ /\ busy = "ramfs" /\ RamFsNext
          /\ UNCHANGED <<pci_vars, bar_vars, cap_vars, device_vars, block_vars, blk_vars, vfs_vars, ext2_vars>>
       \/ /\ busy = "ext2" /\ Ext2Next
          /\ UNCHANGED <<pci_vars, bar_vars, cap_vars, device_vars, block_vars, blk_vars, vfs_vars, ramfs_vars>>

\* The fairness of Pci and VirtioBlk
BusesSpec ==
    /\ BusesInit
    /\ [][BusesNext]_<<pci_vars, bar_vars, cap_vars, device_vars, block_vars, blk_vars, vfs_vars, ramfs_vars, ext2_vars, busy>>
    /\ WF_pci_vars(busy = "scan" /\ PciNext)
    /\ WF_blk_vars(busy = "blk" /\ Step) /\ WF_blk_vars(busy = "blk" /\ Device)
============================================================================
