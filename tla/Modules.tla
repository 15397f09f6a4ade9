------------------------------ MODULE Modules ------------------------------
(***************************************************************************)
(* The archive the boot loader hands over (Initrd) and the table that the  *)
(* images in it are loaded into (ModuleTable).  kernel_init() is done with *)
(* the archive when it loads what it found; the two share no variable, and *)
(* a behaviour moves one of them, busy.                                    *)
(***************************************************************************)
EXTENDS ModuleTable, Initrd

MCNames ==
    {"vga", "keyboard", "desktop", "rtc", "ring1", "ring2", "far", "gone", "mid", "late",
     "panel", "theme"}

\* The modules of the tree: vga and keyboard are linked in, desktop needs both and
\* is loaded, rtc is loaded and exports symbols, and future.ko is the copy of
\* desktop with the wrong stamp that the self test makes.
MCTree == [
    deps |-> [n \in MCNames |-> IF n = "desktop" THEN <<"vga", "keyboard">> ELSE <<>>],
    builtin |-> <<"vga", "keyboard">>,
    descriptors |-> [f \in {"desktop.ko", "rtc.ko", "future.ko"} |->
                        IF f = "rtc.ko" THEN <<"rtc">> ELSE <<"desktop">>],
    exporting |-> {"rtc.ko"}, stale |-> {"future.ko"},
    repeated |-> {"desktop.ko", "future.ko"},
    used |-> {"vga"}, unloaded |-> {"desktop", "rtc", "keyboard"},
    failures |-> 1, max_modules |-> 4, max_tables |-> 2]

\* ring1 and ring2 depend on each other, far needs a module that does not exist and
\* late, which is loaded, names mid twice.
MCRing == [
    deps |-> [n \in MCNames |->
        CASE n = "ring1" -> <<"vga", "ring2">> [] n = "ring2" -> <<"ring1">>
          [] n = "far" -> <<"vga", "gone">> [] n = "mid" -> <<"vga">>
          [] n = "late" -> <<"mid", "vga", "mid">> [] OTHER -> <<>>],
    builtin |-> <<"far", "mid", "ring1", "ring2", "vga">>,
    descriptors |-> [f \in {"late.ko"} |-> <<"late">>],
    exporting |-> {}, stale |-> {}, repeated |-> {},
    used |-> {"mid"}, unloaded |-> {"late"},
    failures |-> 2, max_modules |-> 6, max_tables |-> 1]

\* A table with room for one of rtc, which exports symbols, and theme: rtc is refused when
\* it is loaded again, and when theme is there.
MCExports == [
    deps |-> [n \in MCNames |-> <<>>],
    builtin |-> <<"vga">>,
    descriptors |-> [f \in {"rtc.ko", "theme.ko"} |-> IF f = "rtc.ko" THEN <<"rtc">> ELSE <<"theme">>],
    exporting |-> {"rtc.ko"}, stale |-> {}, repeated |-> {"rtc.ko"},
    used |-> {}, unloaded |-> {"rtc", "theme"},
    failures |-> 0, max_modules |-> 2, max_tables |-> 2]

\* Loaded modules only: panel depends on theme, rtc on nothing.
MCChain == [
    deps |-> [n \in MCNames |-> IF n = "panel" THEN <<"theme">> ELSE <<>>],
    builtin |-> <<"vga">>,
    descriptors |-> [f \in {"rtc.ko", "panel.ko", "theme.ko"} |->
        CASE f = "rtc.ko" -> <<"rtc">> [] f = "panel.ko" -> <<"panel">>
          [] OTHER -> <<"theme">>],
    exporting |-> {}, stale |-> {}, repeated |-> {},
    used |-> {"vga"}, unloaded |-> {"rtc"},
    failures |-> 0, max_modules |-> 4, max_tables |-> 2]

MCTrees == {MCTree, MCRing, MCExports}
MCChains == {MCChain}

\* Those are trees that the theorems of ModuleProofs speak of; the chain is not.
ASSUME TreesAreOrderly == \A t \in MCTrees : Orderly(t)

\* A file of no bytes, of less than a block, of one and of more, and a directory
MCMembers == {[name |-> "modules/a.ko", file |-> TRUE, size |-> s] : s \in {0, 3, 4}}
    \cup { [name |-> "b", file |-> TRUE, size |-> 5],
           [name |-> "modules/", file |-> FALSE, size |-> 0] }
MCMatching == {<<"modules/a.ko", "a">>, <<"b", "b">>}

----------------------------------------------------------------------------
VARIABLE busy

ModulesInit ==
    /\ busy \in {"table", "initrd"}
    /\ Init /\ (busy # "table" => tree = MCTree)
    /\ InitrdInit /\ (busy # "initrd" => members = <<>> /\ archive_length = Whole)

ModulesNext ==
    /\ UNCHANGED busy
    /\ \/ busy = "table" /\ Next /\ UNCHANGED initrd_vars
       \/ busy = "initrd" /\ InitrdNext /\ UNCHANGED vars

\* The fairness of ModuleTable; the walks of Initrd end by their safety
ModulesSpec ==
    /\ ModulesInit /\ [][ModulesNext]_<<vars, initrd_vars, busy>>
    /\ WF_vars(busy = "table" /\ LoaderStep)
    /\ \A u \in Users : WF_vars(busy = "table" /\ CountStep(u))
============================================================================
