------------------------------ MODULE Firmware ------------------------------
(***************************************************************************)
(* What the kernel makes of the firmware it finds: acpi::init() and        *)
(* parse_madt() (acpi/tables.cpp), the choice of the interrupt controller  *)
(* (cpu/irq.cpp, lapic.cpp, ioapic.cpp, pic.cpp) and of the source of time *)
(* (time/timers.cpp) that follow from it, and the way of a line through    *)
(* what was chosen.  One CPU, in the order of start_kernel().              *)
(*                                                                         *)
(* A table is a record of its signature, whether its checksum holds, and   *)
(* its body; an address is 0 where the firmware gives none.                *)
(***************************************************************************)
EXTENDS Integers, Sequences, FiniteSets, SequencesExt

CONSTANTS Machines,      \* what the firmware left: records of the fields used below
          max_irqs,      \* the lines of the legacy controller
          max_cpus,      \* the local APICs that are recorded
          entry_count    \* the inputs of an IO APIC

ASSUME FirmwareSizes == max_irqs \in Nat /\ max_cpus \in Nat /\ entry_count \in Nat

VARIABLES firmware,      \* the machine
          boot_pc,       \* where start_kernel() is
          madt, cursor,  \* the table parse_madt() was given and the entry it looks at
          acpi,          \* present, lapic_address, hpet_base, cpu_apic_ids, ioapic, irq_to_gsi
          chips,         \* lapic and ioapic mapped, apic_active, lapic_driven, irq_handlers
          pic_masked,    \* the lines that the PIC does not deliver
          redirection,   \* [GSI -> the entry of the IO APIC]
          unacknowledged,    \* controllers that wait for an end of interrupt
          heard          \* {<<line, handler>> : the device on the line was heard by the handler}

firmware_vars ==
    <<firmware, boot_pc, madt, cursor, acpi, chips, pic_masked, redirection, unacknowledged, heard>>

Irqs == 0..(max_irqs - 1)
keyboard_irq == 1
vector_lapic_timer == 64
no_table == [signature |-> "none", ok |-> FALSE, body |-> <<>>]
no_ioapic == [address |-> 0, base |-> 0]
masked == [vector |-> 0, open |-> FALSE, low |-> FALSE, level |-> FALSE]
Identity(irq) == [gsi |-> irq, low |-> FALSE, level |-> FALSE]

FirmwareInit ==
    /\ firmware \in Machines /\ boot_pc = "acpi" /\ madt = no_table /\ cursor = 0
    /\ acpi = [present |-> FALSE, lapic_address |-> 0, hpet_base |-> 0, cpu_apic_ids |-> <<>>,
               ioapic |-> no_ioapic, irq_to_gsi |-> [irq \in Irqs |-> Identity(irq)]]
    /\ chips = [lapic |-> FALSE, ioapic |-> FALSE, apic_active |-> FALSE, lapic_driven |-> FALSE,
                irq_handlers |-> {}]
    /\ pic_masked = firmware.bios_mask /\ redirection = [gsi \in {} |-> masked]
    /\ unacknowledged = {} /\ heard = {}

----------------------------------------------------------------------------
\* acpi/tables.cpp

FirstThat(tables, Fits(_)) ==
    LET fitting == SelectSeq(tables, Fits) IN IF fitting = <<>> THEN no_table ELSE Head(fitting)

\* A paragraph that has the signature and whose checksum holds
scan_for_rsdp(paragraphs) == FirstThat(paragraphs, LAMBDA p : p.signature = "RSD PTR " /\ p.ok)

find_rsdp ==
    LET low == IF firmware.ebda_in_range THEN scan_for_rsdp(firmware.ebda) ELSE no_table
    IN IF low # no_table THEN low ELSE scan_for_rsdp(firmware.bios)

\* The XSDT from revision 2 on when there is one, or else the RSDT; none when its
\* checksum fails
Root(rsdp) == IF rsdp.revision >= 2 /\ rsdp.xsdt # no_table THEN rsdp.xsdt ELSE rsdp.rsdt
root ==
    LET rsdp == find_rsdp
        table == IF rsdp = no_table THEN no_table ELSE Root(rsdp.body)
    IN IF table.ok THEN table ELSE no_table

find_table(signature) == FirstThat(root.body, LAMBDA t : t.signature = signature /\ t.ok)

\* init() up to parse_madt()
acpi_init ==
    /\ boot_pc = "acpi"
    /\ madt' = find_table("APIC")
    /\ boot_pc' = IF root = no_table THEN "irq" ELSE IF madt' = no_table THEN "hpet" ELSE "madt"
    /\ IF boot_pc' = "madt" THEN cursor' = 1 /\ acpi' = [acpi EXCEPT !.lapic_address = madt'.body.lapic]
       ELSE UNCHANGED <<cursor, acpi>>
    /\ UNCHANGED <<firmware, chips, pic_masked, redirection, unacknowledged, heard>>

\* The first word of the firmware on a line is taken.
OverridesFirst(map, e) ==
    IF e.source < max_irqs /\ map[e.source] = Identity(e.source)
    THEN [map EXCEPT ![e.source] = [gsi |-> e.gsi, low |-> e.low, level |-> e.level]] ELSE map

Overridden(map, e) ==
    IF e.source < max_irqs
    THEN [map EXCEPT ![e.source] = [gsi |-> e.gsi, low |-> e.low, level |-> e.level]] ELSE map

\* What an entry adds
Recorded(e) ==
    CASE e.type = "LocalApic" /\ e.enabled /\ Len(acpi.cpu_apic_ids) < max_cpus ->
            [acpi EXCEPT !.cpu_apic_ids = Append(@, e.id)]
      [] e.type = "IoApic" /\ acpi.ioapic.address = 0 ->
            [acpi EXCEPT !.ioapic = [address |-> e.address, base |-> e.base]]
      [] e.type = "Override" -> [acpi EXCEPT !.irq_to_gsi = Overridden(@, e)]
      [] OTHER -> acpi

\* One turn of the loop of parse_madt(); an entry shorter than its own header ends it
parse_madt ==
    LET entries == madt.body.entries
    IN /\ boot_pc = "madt"
       /\ IF cursor > Len(entries) \/ entries[cursor].type = "short"
          THEN boot_pc' = "hpet" /\ UNCHANGED <<cursor, acpi>>
          ELSE cursor' = cursor + 1 /\ acpi' = Recorded(entries[cursor]) /\ UNCHANGED boot_pc
       /\ UNCHANGED <<firmware, madt, chips, pic_masked, redirection, unacknowledged, heard>>

acpi_done ==
    /\ boot_pc = "hpet" /\ boot_pc' = "irq"
    /\ LET hpet == find_table("HPET")
       IN acpi' = [acpi EXCEPT !.present = TRUE, !.hpet_base = IF hpet = no_table THEN 0 ELSE hpet.body]
    /\ UNCHANGED <<firmware, madt, cursor, chips, pic_masked, redirection, unacknowledged, heard>>

----------------------------------------------------------------------------
\* The controllers

\* The inputs of the IO APIC, all masked
ioapic_masked == [gsi \in acpi.ioapic.base..(acpi.ioapic.base + entry_count - 1) |-> masked]

\* The PIC stays open beside the APIC.
pic_kept == pic_masked

pic_disable == Irqs

\* irq_init(): the PIC keeps the masks of the firmware unless lapic_init() and then
\* ioapic_init() succeed; the window of each may fail to map
irq_init ==
    /\ boot_pc = "irq" /\ boot_pc' = "timers"
    /\ \E lapic, ioapic \in BOOLEAN :
        /\ lapic => acpi.present /\ acpi.lapic_address # 0
        /\ ioapic => lapic /\ acpi.ioapic.address # 0
        /\ chips' = [chips EXCEPT !.lapic = lapic, !.ioapic = ioapic, !.apic_active = ioapic]
        /\ redirection' = IF ioapic THEN ioapic_masked ELSE redirection
        /\ pic_masked' = IF ioapic THEN pic_disable ELSE pic_masked
    /\ UNCHANGED <<firmware, madt, cursor, acpi, unacknowledged, heard>>

\* irq_register() and irq_unmask(): pic_unmask(), or ioapic_route() and
\* ioapic_unmask(), which do nothing for an input of another IO APIC
Attach(irq) ==
    LET line == acpi.irq_to_gsi[irq]
        entry == [vector |-> 32 + irq, open |-> TRUE, low |-> line.low, level |-> line.level]
    IN /\ pic_masked' = IF chips.apic_active THEN pic_masked ELSE pic_masked \ {irq}
       /\ redirection' = IF chips.apic_active /\ line.gsi \in DOMAIN redirection
                         THEN [redirection EXCEPT ![line.gsi] = entry] ELSE redirection

\* timers_init(): the local APIC drives the deadlines, or line 0 does
timers_init ==
    /\ boot_pc = "timers" /\ boot_pc' = "keyboard"
    /\ IF chips.lapic THEN chips' = [chips EXCEPT !.lapic_driven = TRUE] /\ UNCHANGED <<pic_masked, redirection>>
       ELSE chips' = [chips EXCEPT !.irq_handlers = @ \cup {0}] /\ Attach(0)
    /\ UNCHANGED <<firmware, madt, cursor, acpi, unacknowledged, heard>>

keyboard_module_init ==
    /\ boot_pc = "keyboard" /\ boot_pc' = "up"
    /\ chips' = [chips EXCEPT !.irq_handlers = @ \cup {keyboard_irq}] /\ Attach(keyboard_irq)
    /\ UNCHANGED <<firmware, madt, cursor, acpi, unacknowledged, heard>>

----------------------------------------------------------------------------
\* The hardware: a line is wired to the input that the tables gave it last

EntriesRead ==
    LET all == IF madt = no_table THEN <<>> ELSE madt.body.entries
        ends == {n \in DOMAIN all : \E k \in 1..n : all[k].type = "short"}
    IN SubSeq(all, 1, Len(all) - Cardinality(ends))

Wire(irq) ==
    LET overrides == SelectSeq(EntriesRead, LAMBDA e : e.type = "Override" /\ e.source = irq)
    IN IF overrides = <<>> THEN Identity(irq)
       ELSE LET e == Last(overrides) IN [gsi |-> e.gsi, low |-> e.low, level |-> e.level]

OpenAtPic(irq) == irq \notin pic_masked
OpenAtApic(irq) == Wire(irq).gsi \in DOMAIN redirection /\ redirection[Wire(irq).gsi].open

\* What irq_eoi() tells
EoiTo == IF chips.apic_active THEN "apic" ELSE "pic"

\* An interrupt that a controller delivers, from isr_dispatch() to its return
\* (interrupts are on from the end of timers_init() on)
Delivered(irq, chip, vector) ==
    /\ chip \notin unacknowledged
    /\ heard' = IF vector - 32 \in chips.irq_handlers THEN heard \cup {<<irq, vector - 32>>} ELSE heard
    /\ unacknowledged' = (unacknowledged \cup {chip}) \ {EoiTo}

LineInterrupt(irq) ==
    /\ boot_pc \in {"keyboard", "up"}
    /\ \/ OpenAtPic(irq) /\ Delivered(irq, "pic", 32 + irq)
       \/ OpenAtApic(irq) /\ Delivered(irq, "apic", redirection[Wire(irq).gsi].vector)
    /\ UNCHANGED <<firmware, boot_pc, madt, cursor, acpi, chips, pic_masked, redirection>>

\* vector_lapic_timer, which is acknowledged with lapic_eoi() whatever irq_eoi() does
TimerInterrupt ==
    /\ boot_pc \in {"keyboard", "up"} /\ chips.lapic_driven /\ "apic" \notin unacknowledged
    /\ heard' = heard \cup {<<vector_lapic_timer, vector_lapic_timer>>}
    /\ UNCHANGED <<firmware, boot_pc, madt, cursor, acpi, chips, pic_masked, redirection, unacknowledged>>

FirmwareNext ==
    \/ acpi_init \/ parse_madt \/ acpi_done \/ irq_init \/ timers_init \/ keyboard_module_init
    \/ \E irq \in Irqs : LineInterrupt(irq)
    \/ TimerInterrupt

FirmwareSpec == FirmwareInit /\ [][FirmwareNext]_firmware_vars

----------------------------------------------------------------------------
\* After init() the processors are the first max_cpus that the table calls enabled,
\* the IO APIC is the first one, and every line has the input and the trigger that
\* the table gave it last; what follows a broken entry counts for nothing, and so
\* does a table whose checksum fails.
TablesRead ==
    boot_pc \notin {"acpi", "madt"} =>
        LET apics == SelectSeq(EntriesRead, LAMBDA e : e.type = "LocalApic" /\ e.enabled)
            ioapics == SelectSeq(EntriesRead, LAMBDA e : e.type = "IoApic")
        IN /\ Len(acpi.cpu_apic_ids) = Min({Len(apics), max_cpus})
           /\ \A n \in DOMAIN acpi.cpu_apic_ids : acpi.cpu_apic_ids[n] = apics[n].id
           /\ acpi.ioapic = IF ioapics = <<>> THEN no_ioapic
                            ELSE [address |-> Head(ioapics).address, base |-> Head(ioapics).base]
           /\ \A irq \in Irqs : acpi.irq_to_gsi[irq] = Wire(irq)

\* No line comes in over both controllers, and each interrupt is acknowledged at the
\* one that delivered it, also when only one of the two APICs answered.
OneController ==
    /\ \A irq \in Irqs : ~(OpenAtPic(irq) /\ OpenAtApic(irq))
    /\ unacknowledged = {}
    /\ \A h \in heard : h[1] = h[2]

\* A line that has a handler is open, with the trigger of its wire, unless it is wired
\* to an IO APIC that the kernel does not use.
HandledLinesAreOpen ==
    \A irq \in chips.irq_handlers :
        IF chips.apic_active
        THEN Wire(irq).gsi \in DOMAIN redirection =>
                redirection[Wire(irq).gsi] = [vector |-> 32 + irq, open |-> TRUE,
                                              low |-> Wire(irq).low, level |-> Wire(irq).level]
        ELSE OpenAtPic(irq)

\* timers_run() has one caller: the local APIC or line 0, never both and never none.
OneTimeSource ==
    boot_pc \in {"keyboard", "up"} => (chips.lapic_driven # (0 \in chips.irq_handlers))

\* Whatever tables the firmware leaves, whole or broken, and whichever of the two APICs
\* answers, the kernel reads what they say and every interrupt finds its handler.
MachineUnderstood == TablesRead /\ OneController /\ HandledLinesAreOpen /\ OneTimeSource
(***************************************************************************)
(* The command line of the boot loader, cut into words once and in place   *)
(* (kernel/cmdline.cpp), and the names that main.cpp looks for in it.      *)
(***************************************************************************)
CONSTANTS Lines,              \* what the boot loader may pass: sequences of characters
          Keys,               \* what is asked for
          cmdline_capacity, max_words

ASSUME CmdlineSizes == cmdline_capacity \in Nat \ {0} /\ max_words \in Nat

VARIABLES passed,             \* the line
          words,              \* the copy that is cut, from 0
          word_table,         \* where its words begin
          split_at            \* i of split(), or one of the two below

cmdline_vars == <<passed, words, word_table, split_at>>

NUL == "\\0"
before_split == -1
split_done == cmdline_capacity
Copied == Min({Len(passed), cmdline_capacity - 1})

CmdlineInit ==
    /\ passed \in Lines /\ split_at = before_split /\ word_table = <<>>
    /\ words = [i \in 0..(cmdline_capacity - 1) |-> NUL]

cmdline_init ==
    /\ split_at = before_split /\ split_at' = 0
    /\ words' = [i \in DOMAIN words |-> IF i < Copied THEN passed[i + 1] ELSE NUL]
    /\ UNCHANGED <<passed, word_table>>

\* Where a loop of split() stops that begins at i and runs while the character is one of these
StopsAt(i, Here(_)) == Min({k \in DOMAIN words : k >= i /\ ~Here(words[k])})

\* The blank after a word stays where it is.
TerminatedNot(end) == words

\* words[i++] = '\0'
Terminated(end) == IF words[end] = " " THEN [words EXCEPT ![end] = NUL] ELSE words

\* One turn of the loop of split()
split ==
    /\ split_at \in DOMAIN words
    /\ LET start == StopsAt(split_at, LAMBDA c : c = " ")
           end == StopsAt(start, LAMBDA c : c \notin {NUL, " "})
       IN IF words[split_at] = NUL \/ Len(word_table) >= max_words \/ words[start] = NUL
          THEN split_at' = split_done /\ UNCHANGED <<words, word_table>>
          ELSE /\ word_table' = Append(word_table, start)
               /\ words' = Terminated(end)
               /\ split_at' = IF words[end] = " " THEN end + 1 ELSE end
    /\ UNCHANGED passed

CmdlineNext == cmdline_init \/ split
CmdlineSpec == CmdlineInit /\ [][CmdlineNext]_cmdline_vars

\* The string that begins at a place
StringAt(i) == [k \in 1..(StopsAt(i, LAMBDA c : c # NUL) - i) |-> words[i + k - 1]]

\* find(): what follows the key in the first word that is the key or key=, or nullptr
nullptr == <<"nullptr">>
find(key) ==
    LET hits == {n \in DOMAIN word_table :
                    LET word == StringAt(word_table[n])
                    IN IsPrefix(key, word) /\ (Len(word) > Len(key) => word[Len(key) + 1] = "=")}
        word == StringAt(word_table[Min(hits)])
    IN IF hits = {} THEN nullptr ELSE SubSeq(word, Len(key) + 1, Len(word))

cmdline_has(key) == find(key) # nullptr
cmdline_value(key) == IF find(key) \in {nullptr, <<>>} THEN nullptr ELSE Tail(find(key))

\* blacklisted() of main.cpp, for the value of a key and a name: from p on, to the
\* comma or the end of the list, and past the comma
blacklisted(key, name) ==
    LET list == cmdline_value(key)
        stop[p \in 1..(Len(list) + 1)] ==
            IF p <= Len(list) /\ list[p] # "," THEN stop[p + 1] ELSE p
        on[start \in 1..(Len(list) + 1)] ==
            LET p == stop[start]
            IN /\ start <= Len(list)
               /\ \/ p - start = Len(name) /\ SubSeq(list, start, p - 1) = name
                  \/ on[IF p <= Len(list) THEN p + 1 ELSE p]
    IN list # nullptr /\ on[1]

----------------------------------------------------------------------------
\* The longest runs of a text without a separator, as their first and last places
Pieces(text, separator) ==
    {r \in (DOMAIN text) \X (DOMAIN text) :
        /\ r[1] <= r[2] /\ \A k \in r[1]..r[2] : text[k] # separator
        /\ r[1] = 1 \/ text[r[1] - 1] = separator
        /\ r[2] = Len(text) \/ text[r[2] + 1] = separator}
Cut(text, r) == SubSeq(text, r[1], r[2])

\* The runs of the line that fit into the copy and into the table
Kept == {r \in Pieces(passed, " ") :
            /\ r[2] < cmdline_capacity
            /\ Cardinality({q \in Pieces(passed, " ") : q[1] < r[1]}) < max_words}

\* A word that is the key, alone or with a value
Gives(word, key) == word = key \/ IsPrefix(Append(key, "="), word)

\* Every word that fits is found, whatever blanks are around it, and nothing is found
\* that does not begin a word of the line; the first word with the key decides.
WordsFound ==
    split_at = split_done => \A key \in Keys :
        /\ (\E r \in Kept : Gives(Cut(passed, r), key)) => cmdline_has(key)
        /\ cmdline_has(key) => \E r \in Pieces(passed, " ") : IsPrefix(key, Cut(passed, r))
        /\ \A r \in Kept :
            Gives(Cut(passed, r), key) /\ (\A q \in Kept : q[1] < r[1] => ~Gives(Cut(passed, q), key))
                => find(key) = SubSeq(passed, r[1] + Len(key), r[2])

\* The loop of blacklisted() finds a name on the list of a key when it is one of the
\* pieces that the commas cut its value into, empty ones before and behind it included.
ListsSplit ==
    split_at = split_done => \A key, name \in Keys :
        LET list == cmdline_value(key)
        IN blacklisted(key, name) =
              (list # nullptr /\ \E r \in Pieces(list, ",") : Cut(list, r) = name)

\* What the firmware and the boot loader leave is what the kernel acts on: the tables,
\* whole or broken, with either APIC missing, and the line, however long and blank.
BootDataUnderstood == MachineUnderstood /\ WordsFound /\ ListsSplit
=============================================================================
