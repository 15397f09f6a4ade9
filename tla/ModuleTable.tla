---------------------------- MODULE ModuleTable ----------------------------
(***************************************************************************)
(* kernel/module: the table of modules, their dependencies and references, *)
(* the loader of images and the symbol tables the images bring along.      *)
(* One thread, kernel_init(), loads and unloads; others take and drop      *)
(* references with module_get() and module_put().  A ModuleInfo lives in   *)
(* the image that carries it; what a module's init() does is its result.   *)
(***************************************************************************)
EXTENDS Integers, Sequences, FiniteSets, Functions

CONSTANTS Names,       \* module names
          Trees,       \* sets of modules: records of the fields defined below
          Users,       \* threads that use modules
          Base         \* addresses of images

VARIABLE tree          \* the set of modules of this kernel

deps == tree.deps                \* [Names -> Seq(Names)], ModuleInfo::deps
Builtin == tree.builtin          \* sequence of the modules linked into the kernel
Descriptors == tree.descriptors  \* [Files -> Seq(Names)], .eris_modules
Files == DOMAIN Descriptors      \* images that can be loaded
Exporting == tree.exporting      \* files with an .eris_symtab
Stale == tree.stale              \* files built against another ABI
Repeated == tree.repeated        \* files loaded although their modules are in the table
Used == tree.used                \* names the users give to module_get()
Unloaded == tree.unloaded        \* names given to module_unload()
MaxFailures == tree.failures     \* bound: failing init() calls, relocations, allocations
max_modules == tree.max_modules
max_tables == tree.max_tables

None == "none"
Slots == 0..max_modules - 1
ModuleState == {"Registered", "Loading", "Ready", "Failed"}

ASSUME ModulesAssumption ==
    /\ None \notin Names \cup Base /\ IsFiniteSet(Users)
    /\ \A t \in Trees :
        /\ t.max_modules \in Nat /\ t.max_tables \in Nat /\ t.failures \in Nat
        /\ t.deps \in [Names -> Seq(Names)] /\ t.builtin \in Seq(Names)
        /\ Len(t.builtin) <= t.max_modules
        /\ \A f \in DOMAIN t.descriptors : t.descriptors[f] \in Seq(Names)
        /\ t.exporting \cup t.repeated \cup t.stale \subseteq DOMAIN t.descriptors
        /\ t.used \cup t.unloaded \subseteq Names

VARIABLES modules, registered,
          mapped,   \* bases of the images in memory
          tables,   \* owners of the registered symbol tables
          refused,  \* history: images given back although their symbols were registered
          stranded, \* history: windows that were given back with pages mapped in them
          calls,    \* load_locked() calls under way, outermost first
          ret,      \* what the call that just returned gave, or None
          boot,     \* next slot of the loop in module_init_builtin()
          op,       \* the module_load_image() or module_unload() under way
          user,     \* what each user thread is doing
          got,      \* the module each of them holds a reference to, or None
          failures, panicked

vars == <<tree, modules, registered, mapped, tables, refused, stranded, calls, ret, boot, op,
          user, got, failures, panicked>>
users == <<user, got, panicked>>
left == <<refused, stranded>>

Idle == [at |-> "idle"]
Vacant == [name |-> None, state |-> "Registered", dependents |-> 0, users |-> 0, base |-> None]

\* No slot
nullptr == -1

\* find(): the first slot of that name
find(name) ==
    LET S == {s \in 0..registered - 1 : modules[s].name = name} IN
    IF S = {} THEN nullptr ELSE CHOOSE s \in S : \A r \in S : s <= r

Init ==
    /\ tree \in Trees
    /\ modules = [s \in Slots |->
           IF s < Len(Builtin) THEN [Vacant EXCEPT !.name = Builtin[s + 1]] ELSE Vacant]
    /\ registered = Len(Builtin)
    /\ mapped = {} /\ tables = <<>> /\ refused = {} /\ stranded = 0
    /\ calls = <<>> /\ ret = None /\ boot = 0 /\ op = Idle
    /\ user = [u \in Users |-> Idle] /\ got = [u \in Users |-> None]
    /\ failures = 0 /\ panicked = FALSE

----------------------------------------------------------------------------
(* load_locked(), with its recursion as a stack of calls                    *)

Top == calls[Len(calls)]
SetState(s, st) == [modules EXCEPT ![s].state = st]

\* The switch on the state: what the call returns, or None when it goes on
Switch(s) == CASE modules[s].state = "Ready" -> "ok"
               [] modules[s].state \in {"Loading", "Failed"} -> "fail"
               [] OTHER -> None

Enter(s) ==
    IF Switch(s) # None
    THEN /\ ret' = IF calls = <<>> THEN None ELSE Switch(s)
         /\ UNCHANGED <<modules, calls>>
    ELSE /\ modules' = SetState(s, "Loading")
         /\ calls' = Append(calls, [slot |-> s, dep |-> 1])
         /\ ret' = None

\* The top call returns r with its module in state st.
Return(st, r) ==
    /\ modules' = SetState(Top.slot, st)
    /\ calls' = SubSeq(calls, 1, Len(calls) - 1)
    /\ ret' = IF Len(calls) = 1 THEN None ELSE r

loading == <<registered, mapped, tables, left, boot, op>>

\* load_dependencies(): the next one is looked up and entered
Dependency ==
    /\ calls # <<>> /\ ret = None
    /\ LET names == deps[modules[Top.slot].name] IN
       /\ Top.dep <= Len(names)
       /\ LET d == find(names[Top.dep]) IN
          IF d = nullptr \/ Len(calls) > max_modules THEN Return("Failed", "fail") ELSE Enter(d)
    /\ UNCHANGED <<loading, users, failures>>

\* The loop looks at the same dependency again.
AfterSame(i) == i

After(i) == i + 1

GivesUp == ret # "ok"

Returned ==
    /\ calls # <<>> /\ ret # None
    /\ IF GivesUp
       THEN Return("Failed", "fail")
       ELSE /\ calls' = [calls EXCEPT ![Len(calls)].dep = After(@)]
            /\ ret' = None /\ UNCHANGED modules
    /\ UNCHANGED <<loading, users, failures>>

\* References on the modules in names, one for each time it is named
Referenced(ms, names, by) ==
    [s \in Slots |->
        IF s < registered
        THEN [ms[s] EXCEPT !.dependents =
                 @ + by * Cardinality({i \in DOMAIN names : find(names[i]) = s})]
        ELSE ms[s]]

\* A module that becomes Ready without taking its references.
AcquiredNot(s) == modules

acquire_dependencies(s) == Referenced(modules, deps[modules[s].name], 1)

InitCalled == calls # <<>> /\ ret = None /\ Top.dep > Len(deps[modules[Top.slot].name])

InitSucceeds ==
    /\ InitCalled
    /\ modules' = [acquire_dependencies(Top.slot) EXCEPT ![Top.slot].state = "Ready"]
    /\ calls' = SubSeq(calls, 1, Len(calls) - 1)
    /\ ret' = IF Len(calls) = 1 THEN None ELSE "ok"
    /\ UNCHANGED <<loading, users, failures>>

InitFails ==
    /\ InitCalled /\ failures < MaxFailures
    /\ Return("Failed", "fail")
    /\ failures' = failures + 1
    /\ UNCHANGED <<loading, users>>

Free == calls = <<>> /\ op = Idle

\* The loop of module_init_builtin()
LoadBuiltin ==
    /\ Free /\ boot < Len(Builtin)
    /\ Enter(boot)
    /\ boot' = boot + 1
    /\ UNCHANGED <<registered, mapped, tables, left, op, users, failures>>

Booted == Free /\ boot = Len(Builtin)

\* module_load()
Load(name) ==
    /\ Booted /\ find(name) # nullptr
    /\ Enter(find(name))
    /\ UNCHANGED <<loading, users, failures>>

----------------------------------------------------------------------------
(* module_load_image()                                                      *)

\* allocate_image() runs out of frames: the window goes back, the pages that it mapped
\* stay where they are, with their frames.  Out of memory at the first page, or without
\* a window, nothing happens.
AllocationFails ==
    /\ Booted /\ failures < MaxFailures
    /\ failures' = failures + 1
    /\ stranded' = stranded + 1
    /\ UNCHANGED <<modules, registered, mapped, tables, refused, calls, ret, boot, op, users>>

\* Sections are laid out in a window that no image has; map() replaces what an
\* allocation that failed left there.
LoadImage(f, b) ==
    /\ Booted /\ b \notin mapped
    /\ f \in Repeated \/ \A i \in DOMAIN Descriptors[f] : find(Descriptors[f][i]) = nullptr
    /\ mapped' = mapped \cup {b}
    /\ op' = [at |-> "relocate", file |-> f, base |-> b, entry |-> 1, count |-> 0]
    /\ UNCHANGED <<modules, registered, tables, left, calls, ret, boot, users, failures>>

RelocationFails ==
    /\ op.at = "relocate" /\ failures < MaxFailures
    /\ failures' = failures + 1
    /\ mapped' = mapped \ {op.base}
    /\ op' = Idle
    /\ UNCHANGED <<modules, registered, tables, left, calls, ret, boot, users>>

\* symbol_lookup() walks a table whose image is gone, for a name that neither the kernel
\* nor the tables before it export.
LookupFaults ==
    /\ op.at = "relocate" /\ \E i \in DOMAIN tables : tables[i] \notin mapped
    /\ panicked' = TRUE
    /\ UNCHANGED <<modules, registered, mapped, tables, left, calls, ret, boot, op, user, got,
                   failures>>

\* apply_relocations(), run_constructors() and register_exports()
Relocate ==
    /\ op.at = "relocate"
    /\ tables' = IF op.file \in Exporting /\ Len(tables) < max_tables
                 THEN Append(tables, op.base) ELSE tables
    /\ op' = [op EXCEPT !.at = "register"]
    /\ UNCHANGED <<modules, registered, mapped, left, calls, ret, boot, users, failures>>

TableLocked == \E u \in Users : user[u].at # "idle"

Refused(name, f) == f \in Stale \/ find(name) # nullptr \/ registered >= max_modules

\* module_register_loaded(), which sets every field but the references
RegisterLoaded ==
    LET names == Descriptors[op.file]
        name == names[op.entry]
    IN
    /\ op.at = "register" /\ op.entry <= Len(names) /\ ~TableLocked
    /\ IF Refused(name, op.file)
       THEN /\ op' = [op EXCEPT !.entry = @ + 1]
            /\ UNCHANGED <<modules, registered>>
       ELSE /\ modules' = [modules EXCEPT ![registered] =
                  [@ EXCEPT !.name = name, !.state = "Registered", !.base = op.base]]
            /\ registered' = registered + 1
            /\ op' = [op EXCEPT !.entry = @ + 1, !.count = @ + 1]
    /\ UNCHANGED <<mapped, tables, left, calls, ret, boot, users, failures>>

\* release_image() when the image carried no descriptor; its exports stay
Unwanted == IF op.count = 0 THEN mapped \ {op.base} ELSE mapped

ImageLoaded ==
    /\ op.at = "register" /\ op.entry > Len(Descriptors[op.file])
    /\ mapped' = Unwanted
    /\ refused' = IF op.count = 0 /\ op.file \in Exporting THEN refused \cup {op.base} ELSE refused
    /\ op' = Idle
    /\ UNCHANGED <<modules, registered, tables, stranded, calls, ret, boot, users, failures>>

----------------------------------------------------------------------------
(* module_unload()                                                          *)

InUse(s) == modules[s].dependents > 0 \/ modules[s].users > 0

Unload(name) ==
    LET s == find(name) IN
    /\ Booted /\ s # nullptr
    /\ modules[s].state = "Ready" /\ ~InUse(s)
    /\ op' = [at |-> "exit", slot |-> s]
    /\ UNCHANGED <<modules, registered, mapped, tables, left, calls, ret, boot, users, failures>>

\* exit() returns; release_dependencies(), which panics without a reference
Exit ==
    LET s == op.slot
        names == deps[modules[s].name]
    IN
    /\ op.at = "exit"
    /\ IF \E i \in DOMAIN names : find(names[i]) # nullptr /\ modules[find(names[i])].dependents = 0
       THEN panicked' = TRUE /\ UNCHANGED <<modules, op>>
       ELSE /\ modules' = [Referenced(modules, names, -1) EXCEPT ![s].state = "Registered"]
            /\ op' = IF modules[s].base = None THEN Idle ELSE [op EXCEPT !.at = "remove"]
            /\ UNCHANGED panicked
    /\ UNCHANGED <<registered, mapped, tables, left, calls, ret, boot, user, got, failures>>

\* image_base = 0; modules[i] = modules[--registered]; the last slot keeps its
\* content
Removed(s) ==
    LET ms == [modules EXCEPT ![s].base = None] IN [ms EXCEPT ![s] = ms[registered - 1]]

RemoveSlot ==
    LET s == op.slot IN
    /\ op.at = "remove"
    /\ modules' = Removed(s)
    /\ registered' = registered - 1
    /\ op' = [at |-> "release", base |-> modules[s].base]
    /\ UNCHANGED <<mapped, tables, left, calls, ret, boot, users, failures>>

\* No table of the owner is dropped.
UnregisteredOther(b) == {tables}

\* The tables of the other owners, in any order: the last ones move into the gaps.
symbol_unregister_owner(b) ==
    LET kept == {i \in DOMAIN tables : tables[i] # b} IN
    {[i \in 1..Cardinality(kept) |-> tables[p[i]]] : p \in Bijection(1..Cardinality(kept), kept)}

Release ==
    /\ op.at = "release"
    /\ tables' \in symbol_unregister_owner(op.base)
    /\ mapped' = mapped \ {op.base}
    /\ op' = Idle
    /\ UNCHANGED <<modules, registered, left, calls, ret, boot, users, failures>>

----------------------------------------------------------------------------
(* module_get() and module_put(), under table_lock                          *)

system == <<registered, mapped, tables, left, calls, ret, boot, op, failures>>

Usable(s) == modules[s].state = "Ready"

Get(u, name) ==
    LET s == find(name) IN
    /\ ~TableLocked /\ got[u] = None
    /\ s # nullptr /\ Usable(s)
    /\ user' = [user EXCEPT ![u] = [at |-> "take", slot |-> s]]
    /\ got' = [got EXCEPT ![u] = name]
    /\ UNCHANGED <<system, modules, panicked>>

Put(u) ==
    LET s == find(got[u]) IN
    /\ ~TableLocked /\ got[u] # None
    /\ IF s = nullptr \/ modules[s].users = 0
       THEN panicked' = TRUE /\ UNCHANGED user
       ELSE /\ user' = [user EXCEPT ![u] = [at |-> "drop", slot |-> s]]
            /\ UNCHANGED panicked
    /\ UNCHANGED <<system, modules, got>>

\* The atomic add or subtract, and the end of the guard
Count(u) ==
    /\ user[u].at # "idle"
    /\ modules' = [modules EXCEPT ![user[u].slot].users =
                      IF user[u].at = "take" THEN @ + 1 ELSE @ - 1]
    /\ got' = IF user[u].at = "drop" THEN [got EXCEPT ![u] = None] ELSE got
    /\ user' = [user EXCEPT ![u] = Idle]
    /\ UNCHANGED <<system, panicked>>

Loader ==
    \/ Dependency \/ Returned \/ InitSucceeds \/ InitFails \/ LoadBuiltin
    \/ RelocationFails \/ LookupFaults \/ Relocate \/ RegisterLoaded \/ ImageLoaded
    \/ Exit \/ RemoveSlot \/ Release

Step ==
    \/ Loader
    \/ (\E n \in Names : Load(n)) \/ (\E n \in Unloaded : Unload(n))
    \/ AllocationFails \/ (\E f \in Files, b \in Base : LoadImage(f, b))
    \/ \E u \in Users : (\E n \in Used : Get(u, n)) \/ Put(u) \/ Count(u)

\* panic() ends in a loop of hlt.
Halted == panicked /\ UNCHANGED vars

Next == (~panicked /\ UNCHANGED tree /\ Step) \/ Halted

\* kernel_init() goes on with what it began; a user gets to the end of its guard.
LoaderStep == ~panicked /\ Loader /\ UNCHANGED tree
CountStep(u) == ~panicked /\ Count(u) /\ UNCHANGED tree
Fairness == WF_vars(LoaderStep) /\ \A u \in Users : WF_vars(CountStep(u))

Spec == Init /\ [][Next]_vars /\ Fairness

----------------------------------------------------------------------------
\* Names that images bring, and names that dependencies and users refer to
Described(t) == UNION {Range(t.descriptors[f]) : f \in DOMAIN t.descriptors}
Referred(t) == t.used \cup UNION {Range(t.deps[n]) : n \in Names}

\* The trees that the table serves as it promises, those of this kernel among them: no
\* module is linked in twice; what the users take is not unloaded under them; either
\* nobody refers to a module that came in an image, or none of those is unloaded; and a
\* module that is unloaded has its image to itself.
Orderly(t) ==
    /\ \A i, j \in DOMAIN t.builtin : t.builtin[i] = t.builtin[j] => i = j
    /\ t.used \cap t.unloaded = {}
    /\ Referred(t) \cap Described(t) = {} \/ t.unloaded \cap Described(t) = {}
    /\ \A f \in DOMAIN t.descriptors : \A n \in t.unloaded \cap Range(t.descriptors[f]) :
            Range(t.descriptors[f]) = {n}

InTable == 0..registered - 1

TypeOK ==
    /\ modules \in [Slots -> [name : Names \cup {None}, state : ModuleState, dependents : Nat,
                              users : Nat, base : Base \cup {None}]]
    /\ registered \in 0..max_modules
    /\ mapped \subseteq Base /\ tables \in Seq(Base) /\ Len(tables) <= max_tables
    /\ refused \subseteq Base
    /\ calls \in Seq([slot : Slots, dep : Nat \ {0}])
    /\ ret \in {None, "ok", "fail"} /\ boot \in 0..Len(Builtin)
    /\ got \in [Users -> Names \cup {None}] /\ failures \in 0..MaxFailures
    /\ panicked \in BOOLEAN

\* Ready modules that list the module in slot s, once for each time they do
DependentsOf(s) ==
    Cardinality({e \in UNION {{r} \X DOMAIN deps[modules[r].name] : r \in InTable} :
        /\ modules[e[1]].state = "Ready"
        /\ find(deps[modules[e[1]].name][e[2]]) = s})

\* Module::dependents is what its comment says: the Ready modules that list this
\* one as a dependency.
DependentsExact == \A s \in InTable : modules[s].dependents = DependentsOf(s)

\* A Ready module never sees a dependency that is not Ready: neither a failing
\* init() nor an unload gets in between.
DependenciesReady ==
    \A s \in InTable : modules[s].state = "Ready" =>
        \A i \in DOMAIN deps[modules[s].name] :
            LET d == find(deps[modules[s].name][i]) IN
            d # nullptr /\ modules[d].state = "Ready"

\* Module::users counts the module_get() calls not yet matched by module_put(),
\* so a module in use is still there, and Ready.
UsersExact ==
    \A u \in Users :
        got[u] # None /\ user[u].at # "take" =>
            LET s == find(got[u]) IN
            /\ s # nullptr /\ modules[s].state = "Ready"
            /\ modules[s].users = Cardinality({v \in Users : got[v] = got[u] /\ user[v].at # "take"})

\* The counts that keep a module in place: dependents and users are what the table and
\* the callers say after any loads, failures and unloads, and what a module that is
\* ready depends on is ready.  That is so in the trees that are Orderly, where nothing is
\* unloaded that somebody may be taking.
ReferencesExact == DependentsExact /\ DependenciesReady /\ UsersExact

\* Neither module_put() nor release_dependencies() ever panics; what stops the kernel is
\* a lookup in the symbols of an image that was refused, and nothing else.
NeverPanics == panicked => refused # {} /\ op.at = "relocate"

\* The descriptor of a module in the table is in an image that is mapped, and
\* names are unique, so that find() finds the module it is asked for.
TableIsSound ==
    /\ \A s \in InTable : modules[s].base # None => modules[s].base \in mapped
    /\ \A s, r \in InTable : modules[s].name = modules[r].name => s = r

\* symbol_lookup() walks the tables of images that are in memory and, because nothing
\* takes them back, those of the images that were refused after register_exports().
TablesMapped == \A i \in DOMAIN tables : tables[i] \in mapped \cup refused

\* A whole image is in memory because a module of the table came from it: an unload, or
\* a load that fails once its memory is there, keeps no page.  Pages are kept by
\* allocations that fail halfway and by nothing else.
NoImageLeaked ==
    /\ op = Idle => \A b \in mapped : \E s \in InTable : modules[s].base = b
    /\ stranded \in 0..failures

\* Unload, failed loads and repeated loads leave no entry or image behind that points at
\* memory given back, or memory nobody points at, but for two things: the symbols of an
\* image that is refused, and the pages of an allocation that fails halfway.
NothingDangles == TypeOK /\ NeverPanics /\ TableIsSound /\ TablesMapped /\ NoImageLeaked

\* init() of a module runs when its dependencies are Ready, and a module that
\* failed stays so.
InitAfterDependencies ==
    [][\A s \in InTable :
        /\ modules[s].state = "Loading" /\ modules'[s].state = "Ready" =>
               \A i \in DOMAIN deps[modules[s].name] :
                   modules[find(deps[modules[s].name][i])].state = "Ready"
        /\ modules[s].state = "Failed" => modules'[s].state = "Failed"
           \/ modules'[s].name # modules[s].name]_vars

\* A load comes to an end, whatever cycles the dependencies form.
LoadReturns == calls # <<>> ~> calls = <<>>

\* load_locked() comes back also for modules that depend on each other, and runs an
\* init() only when those of the dependencies are done.
LoadsInOrder == InitAfterDependencies /\ LoadReturns

\* module_load_image() that fails leaves nothing behind: no symbol table, no page.
FailedLoadLeavesNothing ==
    (\A i \in DOMAIN tables : tables[i] \in mapped) /\ stranded = 0

\* No code of an image built against another ABI runs.
AbiBeforeRelocation == op.at = "register" => op.file \notin Stale
====
