--------------------------------- MODULE Pci ---------------------------------
(***************************************************************************)
(* The enumeration of device/pci.cpp: scan_bus(), scan_slot() and          *)
(* scan_function(), which call each other through bridges, as a stack of   *)
(* the calls in progress.  The firmware has numbered the buses, so that    *)
(* each is behind one bridge at most; a bridge of bus 0 that it left alone *)
(* still says 0.  PciDevice::bar(), which measures what a device takes,    *)
(* and find_capability(), which walks the list of what it can do, follow   *)
(* with variables of their own.                                            *)
(***************************************************************************)
EXTENDS Integers, Sequences, FiniteSets, SequencesExt

CONSTANTS Places,      \* {<<bus, slot, function>>}: where something may be
          max_pci_devices

ASSUME PlacesAreAddresses == \A p \in Places : p \in Nat \X Nat \X Nat
ASSUME TableSize == max_pci_devices \in Nat \ {0}

VARIABLES what,     \* [place -> "absent", "device", or the bus behind a bridge]
          many,     \* {<<bus, slot>> : function 0 says there are more}
          stack,    \* the calls in progress, the innermost first
          pci_devices   \* the table

pci_vars == <<what, many, stack, pci_devices>>

Buses == {p[1] : p \in Places}
Slots == {p[2] : p \in Places}
Functions == {p[3] : p \in Places}
Bridge(b) == <<"bridge", b>>
absent == <<"absent", 0>>
plain == <<"device", 0>>

\* What the configuration space answers: all ones where nothing is
At(p) == IF p \in Places THEN what[p] ELSE absent

PciInit ==
    /\ what \in [Places -> {absent, plain} \cup {Bridge(b) : b \in Buses}]
    /\ \A p, q \in Places : what[p] = what[q] /\ what[p] \notin {absent, plain, Bridge(0)} => p = q
    /\ \A p \in Places : \A b \in Buses : what[p] = Bridge(b) => p[1] < b \/ p[1] = 0
    /\ many \in SUBSET {<<p[1], p[2]>> : p \in {q \in Places : q[3] > 0}}
    /\ stack = <<[call |-> "bus", bus |-> 0, slot |-> 0, function |-> 0]>>
    /\ pci_devices = <<>>

ScanCall(c, b, s, f) == [call |-> c, bus |-> b, slot |-> s, function |-> f]
Innermost == stack[1]

NextSlot(s) == s + 1

\* scan_bus(): the next of its slots, or the return
scan_bus ==
    /\ stack # <<>> /\ Innermost.call = "bus"
    /\ stack' = IF Innermost.slot \notin Slots THEN Tail(stack)
                ELSE <<ScanCall("slot", Innermost.bus, Innermost.slot, 0), [Innermost EXCEPT !.slot = NextSlot(@)]>> \o Tail(stack)
    /\ UNCHANGED <<what, many, pci_devices>>

\* Only function 0 is looked at.
MoreNever(b, s) == FALSE

\* The header type of function 0 tells whether there are others
More(b, s) == <<b, s>> \in many

\* scan_slot(): function 0, then the others if there may be any
scan_slot ==
    /\ stack # <<>> /\ Innermost.call = "slot"
    /\ stack' = IF \/ Innermost.function = 0 /\ At(<<Innermost.bus, Innermost.slot, 0>>) = absent
                   \/ Innermost.function > 0 /\ (Innermost.function \notin Functions \/ ~More(Innermost.bus, Innermost.slot))
                THEN Tail(stack)
                ELSE <<ScanCall("function", Innermost.bus, Innermost.slot, Innermost.function),
                       [Innermost EXCEPT !.function = @ + 1]>> \o Tail(stack)
    /\ UNCHANGED <<what, many, pci_devices>>

\* A bridge is followed unless it leads back to its own bus
Behind(p) ==
    IF what[p] \in {absent, plain} \/ what[p][2] = p[1] THEN <<>>
    ELSE <<ScanCall("bus", what[p][2], 0, 0)>>

\* scan_function(): records what answers, and goes behind a bridge
scan_function ==
    LET p == <<Innermost.bus, Innermost.slot, Innermost.function>>
    IN /\ stack # <<>> /\ Innermost.call = "function"
       /\ IF At(p) = absent THEN stack' = Tail(stack) /\ UNCHANGED pci_devices
          ELSE /\ pci_devices' = IF Len(pci_devices) < max_pci_devices THEN Append(pci_devices, p) ELSE pci_devices
               /\ stack' = Behind(p) \o Tail(stack)
       /\ UNCHANGED <<what, many>>

PciNext == scan_bus \/ scan_slot \/ scan_function

PciSpec == PciInit /\ [][PciNext]_pci_vars /\ WF_pci_vars(PciNext)

----------------------------------------------------------------------------
\* A function is visible when the one before it on its way is: function 0 of its
\* slot is there, and says so when there are more
Visible(p) ==
    /\ what[p] # absent /\ At(<<p[1], p[2], 0>>) # absent
    /\ (p[3] = 0 \/ <<p[1], p[2]>> \in many)
Reached(n) ==   \* the buses reached through at most n bridges
    LET f[k \in 0..n] ==
            IF k = 0 THEN {0}
            ELSE LET before == f[k - 1]
                 IN before \cup {b \in Buses : \E p \in Places :
                                    what[p] = Bridge(b) /\ Visible(p) /\ p[1] \in before}
    IN f[n]
Present == LET all == Reached(Cardinality(Buses)) IN {p \in Places : Visible(p) /\ p[1] \in all}

\* The scan records a function at most once, and none that is not there.
RecordedOnce == IsInjective(pci_devices) /\ Range(pci_devices) \subseteq Present

\* When the scan is over the table holds every function that can be reached
\* through bridges, and is full if it does not.
AllRecorded ==
    stack = <<>> => \/ Range(pci_devices) = Present
                    \/ Len(pci_devices) = max_pci_devices /\ Cardinality(Present) > max_pci_devices

\* The recursion through bridges comes to an end.
ScanEnds == Len(stack) > 1 ~> stack = <<>>

\* The calls in progress never nest deeper than bus, slot and function for each
\* bus, which bounds the kernel stack that the recursion takes.
DepthBounded == Len(stack) <= 3 * Cardinality(Buses)

\* The recursive scan comes to an end, no deeper than the buses allow, and has then
\* recorded each function that answers once, as far as the table reaches.
ScanIsExact == [](RecordedOnce /\ AllRecorded /\ DepthBounded) /\ ScanEnds

----------------------------------------------------------------------------
(* PciDevice::bar() measures a base address register by writing all ones   *)
(* and reading back what stuck, with the device's decoding off meanwhile.  *)
(* A register has W bits (32 in the code), an I/O address IoBits (16).     *)
CONSTANTS W, IoBits
ASSUME Widths == W \in Nat /\ IoBits \in Nat /\ 4 < W /\ 2 < IoBits /\ IoBits <= W

VARIABLES kind,       \* "io", "memory" (32 bits), "long" (64 bits) or "none"
          size, base, \* what the register really stands for
          narrow,     \* an I/O register without its upper half
          low, high,  \* the register, and the one after it
          decoding,   \* the I/O and memory bits of the command register
          bar_pc, original, command, mask, high_original, high_mask,  \* bar()'s locals
          result

hardware == <<kind, size, base, narrow>>
registers == <<low, high, decoding>>
bar_vars == <<hardware, registers, bar_pc, original, command, mask, high_original, high_mask, result>>

Span == 2^W
Flags == CASE kind = "io" -> 1 [] kind = "long" -> 4 [] OTHER -> 0
FlagSpan == IF kind = "io" THEN 4 ELSE 16

\* What a write leaves in the registers: the bits below the size are fixed
StuckLow(v) ==
    IF kind = "none" THEN 0
    ELSE LET wide == IF narrow THEN v % 2^IoBits ELSE v
         IN IF size >= Span THEN Flags ELSE (wide \div size) * size + Flags
StuckHigh(v) ==
    IF kind # "long" THEN v
    ELSE IF size <= Span THEN v ELSE (v \div (size \div Span)) * (size \div Span)

Placed(k, s, b) ==   \* the firmware has placed the device: naturally aligned, not at 0
    /\ kind = k /\ size = s /\ base = b * s /\ base > 0

BarInit ==
    /\ \/ /\ \E e \in 2..(IoBits - 1) : \E b \in 1..(2^(IoBits - e) - 1) : Placed("io", 2^e, b)
          /\ narrow \in BOOLEAN
       \/ /\ \E e \in 4..(W - 1) : \E b \in 1..(2^(W - e) - 1) : Placed("memory", 2^e, b)
          /\ narrow = FALSE
       \/ /\ \E e \in 4..(2 * W - 1) : \E b \in 1..(2^(2 * W - e) - 1) : Placed("long", 2^e, b)
          /\ narrow = FALSE
       \/ kind = "none" /\ size = 1 /\ base = 0 /\ narrow = FALSE
    /\ low = (base % Span) + Flags
    /\ high = IF kind = "long" THEN base \div Span ELSE 0
    /\ decoding \in BOOLEAN
    /\ bar_pc = "read" /\ original = 0 /\ command = FALSE /\ mask = 0 /\ high_original = 0
    /\ high_mask = 0 /\ result = [address |-> 0, length |-> 0]

Read ==
    /\ bar_pc = "read" /\ original' = low /\ command' = decoding /\ bar_pc' = "off"
    /\ UNCHANGED <<hardware, registers, mask, high_original, high_mask, result>>

\* The device is measured while it decodes.
SilencedNot == decoding

\* The I/O and memory bits are taken out of the command register
Silenced == FALSE

Off ==
    /\ bar_pc = "off" /\ decoding' = Silenced /\ bar_pc' = "ones"
    /\ UNCHANGED <<hardware, low, high, original, command, mask, high_original, high_mask, result>>

Ones ==
    /\ bar_pc = "ones" /\ low' = StuckLow(Span - 1) /\ bar_pc' = "mask"
    /\ UNCHANGED <<hardware, high, decoding, original, command, mask, high_original, high_mask, result>>

Mask ==
    /\ bar_pc = "mask" /\ mask' = low /\ low' = StuckLow(original)
    /\ bar_pc' = IF original % 2 = 0 /\ (original \div 2) % 4 = 2 THEN "high" ELSE "on"
    /\ high_mask' = Span - 1 /\ high_original' = 0
    /\ UNCHANGED <<hardware, high, decoding, original, command, result>>

\* The upper half of a 64 bit register, the same way
High ==
    /\ bar_pc = "high" /\ high_original' = high /\ high' = StuckHigh(Span - 1) /\ bar_pc' = "high mask"
    /\ UNCHANGED <<hardware, low, decoding, original, command, mask, high_mask, result>>

HighMask ==
    /\ bar_pc = "high mask" /\ high_mask' = high /\ high' = StuckHigh(high_original) /\ bar_pc' = "on"
    /\ UNCHANGED <<hardware, low, decoding, original, command, mask, high_original, result>>

\* v & ~(flags - 1)
WithoutFlags(v, flags) == v - (v % flags)

\* ~x + 1 in 2W bits, then cut to the width of a port for an I/O register
Length ==
    IF original % 2 = 1
    THEN (Span - WithoutFlags(mask, 4)) % 2^IoBits
    ELSE (Span * Span - (high_mask * Span + WithoutFlags(mask, 16))) % (Span * Span)

Address == high_original * Span + WithoutFlags(original, IF original % 2 = 1 THEN 4 ELSE 16)

Restored == command

On ==
    /\ bar_pc = "on" /\ bar_pc' = "done" /\ decoding' = Restored
    /\ result' = [address |-> Address, length |-> Length]
    /\ UNCHANGED <<hardware, low, high, original, command, mask, high_original, high_mask>>

BarNext == Read \/ Off \/ Ones \/ Mask \/ High \/ HighMask \/ On

BarSpec == BarInit /\ [][BarNext]_bar_vars

----------------------------------------------------------------------------
\* bar() finds the address and the size of every kind of register, 64 bit ones
\* included whose size does not fit the lower half; one that does not exist
\* shows as address 0.
BarExact ==
    bar_pc = "done" => /\ result.address = base
                       /\ kind # "none" => result.length = size

\* The device never answers at an address that is not its own: it does not
\* decode while a register holds the ones.
NeverDecodesElsewhere ==
    decoding => low = (base % Span) + Flags /\ (kind = "long" => high = base \div Span)

\* bar() leaves the device as it found it: its registers, and whether it decodes.
LeftAsFound ==
    bar_pc = "done" => /\ decoding = command /\ low = (base % Span) + Flags
                       /\ kind = "long" => high = base \div Span

----------------------------------------------------------------------------
(* PciDevice::find_capability() follows the list of capabilities that the  *)
(* device keeps in the words of its configuration space from 0x40 on,      *)
(* numbered from 1 here.  The device wrote the list, which may be a cycle. *)
CONSTANT Words   \* how many there are (48), and the guard of the loop
ASSUME SomeWords == Words \in Nat \ {0}

VARIABLES status_capabilities,  \* the bit of the status register
          cap_first,  \* what offset_capabilities holds; 0 for any offset below 0x40
          cap_next,   \* the word after each word
          of_id,      \* the words whose capability has the id asked for
          cap_pc, cap_offset, cap_guard,  \* the locals, "start", "walk" or "done"
          capability  \* what was returned

list_vars == <<status_capabilities, cap_first, cap_next, of_id>>
cap_vars == <<list_vars, cap_pc, cap_offset, cap_guard, capability>>

CapInit ==
    /\ status_capabilities \in BOOLEAN /\ cap_first \in 0..Words
    /\ cap_next \in [1..Words -> 0..Words] /\ of_id \in SUBSET (1..Words)
    /\ cap_pc = "start" /\ cap_offset = 0 /\ cap_guard = 0 /\ capability = 0

BeginWalk ==
    /\ cap_pc = "start"
    /\ cap_offset' = IF status_capabilities THEN cap_first ELSE 0
    /\ cap_pc' = "walk"
    /\ UNCHANGED <<list_vars, cap_guard, capability>>

\* guard < 48
WithinGuard == cap_guard < Words

\* One turn of the loop, or the return
WalkOn ==
    /\ cap_pc = "walk"
    /\ IF ~WithinGuard \/ cap_offset = 0 \/ cap_offset \in of_id
       THEN /\ cap_pc' = "done"
            /\ capability' = IF WithinGuard /\ cap_offset \in of_id THEN cap_offset ELSE 0
            /\ UNCHANGED <<cap_offset, cap_guard>>
       ELSE /\ cap_offset' = cap_next[cap_offset] /\ cap_guard' = cap_guard + 1
            /\ UNCHANGED <<cap_pc, capability>>
    /\ UNCHANGED list_vars

CapNext == BeginWalk \/ WalkOn

CapSpec == CapInit /\ [][CapNext]_cap_vars

\* The words that the list reaches
Listing ==
    LET reach[n \in 0..Words] ==
            IF n = 0 THEN {cap_first} \ {0}
            ELSE LET before == reach[n - 1] IN before \cup ({cap_next[w] : w \in before} \ {0})
    IN IF status_capabilities THEN reach[Words] ELSE {}

\* find_capability() finds a capability of the id whenever the list has one, a list
\* that takes up every word included; it reads each word once at most, so that a list
\* that is a cycle without the id comes to an end, and 0 is returned.
CapabilityFound ==
    /\ cap_guard <= Words
    /\ cap_pc = "done" => IF of_id \cap Listing = {} THEN capability = 0
                         ELSE capability \in of_id \cap Listing

\* Measuring a base address register gives its address and length, never lets the
\* device decode the probe value, and leaves the registers as they were; and a
\* capability is found, in as many turns as there are words at most, if and only if the
\* device lists it.
DeviceUnderstood == BarExact /\ NeverDecodesElsewhere /\ LeftAsFound /\ CapabilityFound
=============================================================================
