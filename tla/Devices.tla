------------------------------- MODULE Devices -------------------------------
(***************************************************************************)
(* The device and driver registries of device/device.cpp.  The tables grow *)
(* under registry_lock; the loops that match them run without it.  The bus *)
(* announces its devices on one CPU while modules on others register and   *)
(* unregister their drivers.                                               *)
(***************************************************************************)
EXTENDS Integers, Sequences, FiniteSets, SequencesExt

CONSTANTS Found,   \* how many devices the bus has
          Drivers, max_devices, max_drivers,
          Busy   \* whether a driver may go while a loop over the tables runs

ASSUME DeviceTableSizes == Found \in Nat /\ max_devices \in Nat /\ max_drivers \in Nat /\ Busy \in BOOLEAN

VARIABLES matches,          \* {<<driver, device>> : the driver matches its id}
          accepts,          \* those where probe() gives a device that starts
          devices, drivers, \* the tables
          announced,        \* how many devices were announced
          registered,       \* the drivers that called driver_register()
          loop,             \* [actor -> what its loop does, <<>> when it is idle]
          bound,            \* {<<driver, device>> : bound}
          probed            \* {<<driver, device>> : probe() was called}

device_vars == <<matches, accepts, devices, drivers, announced, registered, loop, bound, probed>>
BusDevices == 1..Found
tables == <<devices, drivers, announced, registered>>

Bus == "bus"
Actors == {Bus} \cup Drivers
idle == [replay |-> 0, driver |-> Bus, device |-> 0, i |-> 0]

DevicesInit ==
    /\ matches \in SUBSET (Drivers \X BusDevices)
    /\ accepts \in SUBSET matches
    /\ devices = <<>> /\ drivers = <<>> /\ announced = 0 /\ registered = {}
    /\ loop = [a \in Actors |-> idle] /\ bound = {} /\ probed = {}

\* device_announce(): the device is recorded, then offered.  pci::init() calls
\* it for the devices in the order in which it found them.
device_announce(device) ==
    /\ loop[Bus] = idle /\ device = announced + 1 /\ announced' = device
    /\ IF Len(devices) >= max_devices THEN UNCHANGED <<devices, loop>>
       ELSE /\ devices' = Append(devices, device)
            /\ loop' = [loop EXCEPT ![Bus] = [idle EXCEPT !.device = device, !.i = 1]]
    /\ UNCHANGED <<matches, accepts, drivers, registered, bound, probed>>

\* The table is not replayed.
ReplayNone(driver) == idle

\* The first step of the loop over the devices found before
Replay(driver) == [idle EXCEPT !.replay = 1, !.driver = driver]

driver_register(driver) ==
    /\ loop[driver] = idle /\ driver \notin registered /\ registered' = registered \cup {driver}
    /\ IF Len(drivers) >= max_drivers THEN UNCHANGED <<drivers, loop>>
       ELSE /\ drivers' = Append(drivers, driver)
            /\ loop' = [loop EXCEPT ![driver] = Replay(driver)]
    /\ UNCHANGED <<matches, accepts, devices, announced, bound, probed>>

\* One turn of the loop of driver_register(), outside device_probe()
ReplayStep(a) ==
    LET l == loop[a]
    IN /\ l.replay > 0 /\ l.i = 0
       /\ loop' = [loop EXCEPT ![a] =
            IF l.replay > Len(devices) THEN idle
            ELSE IF <<l.driver, devices[l.replay]>> \in matches
                 THEN [l EXCEPT !.device = devices[l.replay], !.i = 1]
                 ELSE [l EXCEPT !.replay = @ + 1]]
       /\ UNCHANGED <<matches, accepts, tables, bound, probed>>

\* device_probe() returns at the first driver whose device starts
Stops(driver, device) == <<driver, device>> \in accepts

\* Where the loop of device_probe() leaves its caller
Left(l) == IF l.replay > 0 THEN [l EXCEPT !.i = 0, !.replay = @ + 1, !.device = 0] ELSE idle

\* One turn of the loop of device_probe()
device_probe(a) ==
    LET l == loop[a]
    IN /\ l.i > 0
       /\ IF l.i > Len(drivers)
          THEN loop' = [loop EXCEPT ![a] = Left(l)] /\ UNCHANGED <<bound, probed>>
          ELSE LET d == drivers[l.i]
               IN /\ probed' = IF <<d, l.device>> \in matches THEN probed \cup {<<d, l.device>>} ELSE probed
                  /\ bound' = IF <<d, l.device>> \in accepts THEN bound \cup {<<d, l.device>>} ELSE bound
                  /\ loop' = [loop EXCEPT ![a] =
                        IF Stops(d, l.device) THEN Left(l) ELSE [l EXCEPT !.i = @ + 1]]
       /\ UNCHANGED <<matches, accepts, tables>>

AllIdle == \A a \in Actors : loop[a] = idle

\* The last entry takes the place of the one that goes
driver_unregister(driver) ==
    /\ loop[driver] = idle /\ (Busy \/ AllIdle)
    /\ \E i \in 1..Len(drivers) :
        /\ drivers[i] = driver
        /\ drivers' = SubSeq([drivers EXCEPT ![i] = drivers[Len(drivers)]], 1, Len(drivers) - 1)
    /\ UNCHANGED <<matches, accepts, devices, announced, registered, loop, bound, probed>>

DevicesNext ==
    \/ \E device \in BusDevices : device_announce(device)
    \/ \E driver \in Drivers : driver_register(driver) \/ driver_unregister(driver)
    \/ \E a \in Actors : ReplayStep(a) \/ device_probe(a)

DevicesSpec == DevicesInit /\ [][DevicesNext]_device_vars

----------------------------------------------------------------------------
\* A driver that registers is offered every device it matches, found before it
\* or not, as the comment in driver_register() says.
LateDriverIsOffered ==
    AllIdle => \A driver \in Range(drivers), device \in Range(devices) :
        <<driver, device>> \in matches => <<driver, device>> \in probed

(***************************************************************************)
(* The registry of block/block.cpp and the nodes that fs/devfs.cpp makes   *)
(* of it.  Drivers come and go under registry_lock; devfs_refresh() and    *)
(* the lookups walk the tables without it, one entry at a time.            *)
(***************************************************************************)
CONSTANTS Modules,       \* drivers in modules: each brings one device, named after it
          max_block_devices, max_nodes

ASSUME BlockTableSizes == max_block_devices \in Nat /\ max_nodes \in Nat

VARIABLES block_devices,              \* the registry
          module_device_total,  \* the wrappers handed out, which never come back
          block_nodes,          \* the nodes of devfs
          refresh,              \* where devfs_refresh() is, 0 when it is not running
          mounted               \* devfs_create() has been called

block_vars == <<block_devices, module_device_total, block_nodes, refresh, mounted>>

BlockInit == /\ block_devices = <<>> /\ module_device_total = 0 /\ block_nodes = <<>>
             /\ refresh = 0 /\ mounted = FALSE

\* block_register() looks at the bound before it appends
Room == Len(block_devices) < max_block_devices

\* block_register_module(): a wrapper is taken even when the registry is full
block_register_module(m) ==
    /\ m \notin Range(block_devices) /\ module_device_total < max_block_devices
    /\ module_device_total' = module_device_total + 1
    /\ block_devices' = IF Room THEN Append(block_devices, m) ELSE block_devices
    /\ UNCHANGED <<block_nodes, refresh, mounted>>

\* Nothing in the tree calls it; a device that goes does so between two refreshes
block_unregister(m) ==
    /\ refresh = 0
    /\ \E i \in 1..Len(block_devices) :
        /\ block_devices[i] = m
        /\ block_devices' = SubSeq([block_devices EXCEPT ![i] = block_devices[Len(block_devices)]], 1, Len(block_devices) - 1)
    /\ UNCHANGED <<module_device_total, block_nodes, refresh, mounted>>

\* devfs_create() calls devfs_refresh(), which nothing else does
devfs_create ==
    /\ ~mounted /\ mounted' = TRUE
    /\ refresh' = 1 /\ block_nodes' = <<>>
    /\ UNCHANGED <<block_devices, module_device_total>>

\* The device that registered last gets every node.
NodeLast(i) == block_devices[Len(block_devices)]

\* block_device_at(i)
NodeFor(i) == block_devices[i]

\* One turn of the loop of devfs_refresh()
devfs_refresh ==
    /\ refresh > 0
    /\ IF refresh <= Len(block_devices) /\ Len(block_nodes) < max_nodes
       THEN block_nodes' = Append(block_nodes, NodeFor(refresh)) /\ refresh' = refresh + 1
       ELSE refresh' = 0 /\ UNCHANGED block_nodes
    /\ UNCHANGED <<block_devices, module_device_total, mounted>>

BlockNext == \/ \E m \in Modules : block_register_module(m) \/ block_unregister(m)
             \/ devfs_create \/ devfs_refresh

BlockSpec == BlockInit /\ [][BlockNext]_block_vars /\ WF_block_vars(devfs_create) /\ WF_block_vars(devfs_refresh)

----------------------------------------------------------------------------
\* Whatever the order in which device_announce() and driver_register() run on two CPUs, a
\* device that some driver would take ends up bound; and when devfs_refresh() ends, devfs
\* shows every device of the registry, those that registered while it ran included, as far
\* as its nodes go.
NoDeviceMissed ==
    /\ [](AllIdle => \A device \in Range(devices) :
            (\E driver \in Range(drivers) : <<driver, device>> \in accepts)
                => \E driver \in Drivers : <<driver, device>> \in bound)
    /\ [][refresh > 0 /\ refresh' = 0 =>
            block_nodes = SubSeq(block_devices, 1, Min({Len(block_devices), max_nodes}))]_block_vars

\* Once devfs is mounted and the drivers stop coming and going, a device that
\* stays registered has a node, as the comment above devfs_refresh() says.
EveryDeviceHasANode ==
    \A m \in Modules : <>[](m \in Range(block_devices)) => <>(m \in Range(block_nodes))
=============================================================================
