---------------------------- MODULE Peripherals ----------------------------
(***************************************************************************)
(* The board as the kernel meets it: the tables of the firmware and the    *)
(* line of the boot loader (Firmware), the keyboard and its interrupt line *)
(* (Keyboard), the text screen (Vga), the clock of the board and the day   *)
(* count made of what it shows (Rtc).  They share no variable, and a       *)
(* behaviour moves one of them, busy.                                      *)
(***************************************************************************)
EXTENDS Keyboard, Vga, Rtc, Firmware

\* The readings may take any time of a chip that changes at once, and are quick
\* enough for one that does not.
MCChips == { [slow |-> FALSE, prompt |-> FALSE, twelve |-> FALSE],
             [slow |-> TRUE, prompt |-> TRUE, twelve |-> FALSE] }

\* Tables of interrupt controllers: every order of up to three entries, with a disabled
\* processor, two IO APICs, a line given twice, one out of range and a broken entry
Apic(id, on) == [type |-> "LocalApic", id |-> id, enabled |-> on]
IoApic(address, base) == [type |-> "IoApic", address |-> address, base |-> base]
Override(source, gsi, low) == [type |-> "Override", source |-> source, gsi |-> gsi, low |-> low, level |-> low]
MCEntries ==
    { Apic(1, TRUE), Apic(2, TRUE), Apic(3, FALSE), IoApic(10, 0), IoApic(11, 2),
      Override(1, 2, TRUE), Override(1, 1, FALSE), Override(5, 1, TRUE),
      [type |-> "Other"], [type |-> "short"] }
Table(signature, ok, body) == [signature |-> signature, ok |-> ok, body |-> body]
MadtOf(ok, entries) == Table("APIC", ok, [lapic |-> 9, entries |-> entries])
Usual == <<Apic(1, TRUE), IoApic(10, 2), Override(1, 2, TRUE)>>
MCRoots ==
    { Table("ROOT", TRUE, <<>>), Table("ROOT", FALSE, <<MadtOf(TRUE, Usual)>>),
      Table("ROOT", TRUE, <<MadtOf(FALSE, <<Apic(2, TRUE)>>), Table("HPET", TRUE, 7), MadtOf(TRUE, Usual)>>),
      Table("ROOT", TRUE, <<Table("HPET", FALSE, 6), MadtOf(TRUE, <<IoApic(11, 0)>>), MadtOf(TRUE, Usual)>>),
      Table("ROOT", TRUE, <<Table("APIC", TRUE, [lapic |-> 0, entries |-> Usual])>>) }
Rsdp(ok, revision, rsdt, xsdt) ==
    Table("RSD PTR ", ok, [revision |-> revision, rsdt |-> rsdt, xsdt |-> xsdt])
Machine(in_range, ebda, bios, mask) ==
    [ebda_in_range |-> in_range, ebda |-> ebda, bios |-> bios, bios_mask |-> mask]
MCMachines ==
    {Machine(FALSE, <<>>, <<Rsdp(TRUE, 0, Table("ROOT", TRUE, <<MadtOf(TRUE, m)>>), no_table)>>, {}) :
        m \in UNION {[1..n -> MCEntries] : n \in 0..3}}
    \cup UNION {{Machine(in_range, <<Rsdp(ok, 2, old, new)>>, bios, mask) :
                    in_range, ok \in BOOLEAN, mask \in SUBSET {0, 1},
                    bios \in {<<>>, <<no_table, Rsdp(TRUE, 1, new, old)>>,
                              <<Rsdp(FALSE, 2, old, old), Rsdp(TRUE, 2, new, no_table)>>}} :
                 old \in MCRoots, new \in MCRoots}
    \cup {Machine(FALSE, <<>>, <<>>, {})}

\* Every line of up to six characters, and the names looked for in it
MCLines == UNION {[1..n -> {" ", "a", "=", ","}] : n \in 0..6}
MCKeys == {<<"a">>, <<"a", "a">>}

----------------------------------------------------------------------------
VARIABLE busy

\* Only the part that moves is given a choice of initial states.
PeripheralsInit ==
    /\ busy \in {"firmware", "cmdline", "keyboard", "vga", "rtc", "calendar"}
    /\ (busy = "firmware" \/ firmware = Machine(FALSE, <<>>, <<>>, {})) /\ FirmwareInit
    /\ (busy = "cmdline" \/ passed = <<>>) /\ CmdlineInit
    /\ KeyboardInit /\ VgaInit /\ CalendarInit
    /\ (busy = "rtc" \/ (bcd = FALSE /\ now = Day - 1 /\ chip \in {c \in Chips : ~c.slow})) /\ RtcInit

board_vars == <<keyboard_vars, vga_vars, rtc_vars, calendar_vars>>

PeripheralsNext ==
    /\ UNCHANGED busy
    /\ \/ /\ busy = "firmware" /\ FirmwareNext /\ UNCHANGED <<board_vars, cmdline_vars>>
       \/ /\ busy = "cmdline" /\ CmdlineNext /\ UNCHANGED <<board_vars, firmware_vars>>
       \/ /\ UNCHANGED <<firmware_vars, cmdline_vars>>
          /\ \/ busy = "keyboard" /\ KeyboardNext /\ UNCHANGED <<vga_vars, rtc_vars, calendar_vars>>
             \/ busy = "vga" /\ VgaNext /\ UNCHANGED <<keyboard_vars, rtc_vars, calendar_vars>>
             \/ busy = "rtc" /\ RtcNext /\ UNCHANGED <<keyboard_vars, vga_vars, calendar_vars>>
             \/ busy = "calendar" /\ CalendarNext /\ UNCHANGED <<keyboard_vars, vga_vars, rtc_vars>>

\* The fairness of Keyboard: interrupts are taken, and kinit runs.
PeripheralsSpec ==
    /\ PeripheralsInit
    /\ [][PeripheralsNext]_<<board_vars, firmware_vars, cmdline_vars, busy>>
    /\ WF_keyboard_vars(busy = "keyboard" /\ Interrupt)
    /\ WF_keyboard_vars(busy = "keyboard" /\ Thread)
============================================================================
