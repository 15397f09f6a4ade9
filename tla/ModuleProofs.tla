--------------------------- MODULE ModuleProofs -----------------------------
(***************************************************************************)
(* The rest of the steps of the module table: a module that is registered, *)
(* and one that is removed, where the last module of the table moves into  *)
(* its slot and every reference to a slot must follow it.  Then the        *)
(* theorems: references are exact, nothing dangles, and init() runs after  *)
(* the init() of every dependency.                                         *)
(***************************************************************************)
EXTENDS ModuleInvariant

\* A leaf of a proof is a call of Zenon unless it names another prover.
USE Zenon

----------------------------------------------------------------------------
(* module_register_loaded()                                                 *)

\* The tables ms and ns of reg and up modules: ns has one more.
OneMore(ms, ns, reg, up) ==
    /\ Once(ns, up) /\ FindIn(ns, up, ns[reg].name) = reg
    /\ \A n : n # ns[reg].name => FindIn(ns, up, n) = FindIn(ms, reg, n)

\* find() in a table with one more module
LEMMA FindMore ==
  ASSUME NEW ms, NEW ns, NEW reg \in Nat, NEW up, up = reg + 1, Once(ms, reg),
         SameNames(ms, ns, reg), FindIn(ms, reg, ns[reg].name) = nullptr
  PROVE  OneMore(ms, ns, reg, up)
<1>1. up \in Nat /\ 0..up - 1 = (0..reg - 1) \cup {reg}
  BY SMT
<1>2. \A s \in 0..reg - 1 : ms[s].name # ns[reg].name
  BY SMT, FindSome
<1>3. Once(ns, up)
  <2>1. ASSUME NEW s \in 0..reg - 1
        PROVE  ns[s].name = ms[s].name /\ ns[s].name # ns[reg].name
    BY <1>2 DEF SameNames
  <2>2. \A s, r \in 0..reg - 1 : ns[s].name = ns[r].name => s = r
    BY <2>1 DEF Once
  <2>3. \A s, r \in (0..reg - 1) \cup {reg} : ns[s].name = ns[r].name => s = r
    BY <2>1, <2>2
  <2> QED
    BY <1>1, <2>3 DEF Once
<1>4. FindIn(ns, up, ns[reg].name) = reg
  <2>1. reg \in 0..up - 1
    BY <1>1
  <2> QED
    BY <1>1, <1>3, <2>1, FindOne
<1>5. ASSUME NEW n, n # ns[reg].name
      PROVE  FindIn(ns, up, n) = FindIn(ms, reg, n)
  <2>1. \A s : s \in 0..up - 1 /\ ns[s].name = n <=> s \in 0..reg - 1 /\ ms[s].name = n
    BY <1>1, <1>5 DEF SameNames
  <2>2. Named(ns, up, n) = Named(ms, reg, n)
    BY <2>1 DEF Named
  <2> QED
    BY <2>2 DEF FindIn
<1> QED
  BY <1>3, <1>4, <1>5 DEF OneMore

\* The step adds the module n, whose image is at b, behind the others.
IsNew(n, b) ==
    /\ tree' = tree /\ registered' = registered + 1
    /\ registered \in Slots /\ registered \notin InTable /\ InTable' = InTable \cup {registered}
    /\ modules' \in [Slots -> Entry]
    /\ \A s \in Slots : s # registered => modules'[s] = modules[s]
    /\ modules'[registered].name = n /\ modules'[registered].state = "Registered"
    /\ modules'[registered].base = b
    /\ modules'[registered].dependents = 0 /\ modules'[registered].users = 0

\* module_register_loaded() that does not refuse the module
LEMMA NewModule ==
  ASSUME ModuleInv, tree' = tree, NEW n \in Names, NEW b \in Base, registered < max_modules,
         registered' = registered + 1,
         modules' = [modules EXCEPT ![registered] =
                        [@ EXCEPT !.name = n, !.state = "Registered", !.base = b]]
  PROVE  IsNew(n, b)
<1>1. registered \in Nat /\ modules \in [Slots -> Entry] /\ TableKept /\ max_modules \in Nat
  BY Basics, TreeFacts, WorkTypes
<1>2. /\ registered \in Slots /\ registered \notin InTable /\ registered >= registered
      /\ 0..(registered + 1) - 1 = InTable \cup {registered}
  BY SMT, <1>1 DEF Slots, InTable
<1>3. InTable' = InTable \cup {registered}
  BY <1>2 DEF InTable
<1>4. modules[registered].dependents = 0 /\ modules[registered].users = 0
  BY <1>1, <1>2 DEF TableKept
<1>5. PICK e : e = [modules[registered] EXCEPT !.name = n, !.state = "Registered", !.base = b]
  OBVIOUS
<1>6. modules[registered] \in Entry
  BY <1>1, <1>2
<1>7. e \in Entry /\ e.name = n /\ e.state = "Registered" /\ e.base = b
      /\ e.dependents = modules[registered].dependents /\ e.users = modules[registered].users
  <2>1. PICK o : o = modules[registered]
    OBVIOUS
  <2>2. o \in Entry /\ e = [o EXCEPT !.name = n, !.state = "Registered", !.base = b]
    BY <1>5, <1>6, <2>1
  <2>3. "Registered" \in ModuleState /\ n \in Names \cup {None} /\ b \in Base \cup {None}
    BY DEF ModuleState
  <2>4. e \in Entry
    BY <2>2, <2>3 DEF Entry
  <2>5. e.name = n /\ e.state = "Registered" /\ e.base = b
        /\ e.dependents = o.dependents /\ e.users = o.users
    BY SMT, <2>2 DEF Entry
  <2> QED
    BY <2>1, <2>4, <2>5
<1>8. modules' = [modules EXCEPT ![registered] = e]
  BY <1>5
<1>9. modules' \in [Slots -> Entry] /\ modules'[registered] = e
      /\ \A s \in Slots : s # registered => modules'[s] = modules[s]
  BY <1>1, <1>2, <1>7, <1>8
<1> QED
  BY <1>2, <1>3, <1>4, <1>7, <1>9 DEF IsNew

\* find() then finds it, and the others where they were.
LEMMA NewFind ==
  ASSUME ModuleInv, NEW n, NEW b, IsNew(n, b), FindIn(modules, registered, n) = nullptr
  PROVE  /\ Once(modules', registered') /\ FindIn(modules', registered', n) = registered
         /\ \A m : m # n => FindIn(modules', registered', m) = FindIn(modules, registered, m)
         /\ \A s \in InTable : s # registered /\ s \in Slots /\ modules'[s] = modules[s]
<1>1. \A s \in InTable : s # registered /\ s \in Slots /\ modules'[s] = modules[s]
  BY Basics DEF IsNew
<1>2. SameNames(modules, modules', registered)
  BY <1>1 DEF SameNames, InTable
<1>3. modules'[registered].name = n /\ registered' = registered + 1
  BY DEF IsNew
<1>4. registered \in Nat /\ Once(modules, registered)
  BY Basics
<1>5. PICK ns : ns = modules'
  OBVIOUS
<1>6. PICK up : up = registered'
  OBVIOUS
<1>7. OneMore(modules, ns, registered, up)
  <2>1. up = registered + 1 /\ SameNames(modules, ns, registered)
        /\ FindIn(modules, registered, ns[registered].name) = nullptr
    BY <1>2, <1>3, <1>5, <1>6
  <2> QED
    BY <1>4, <2>1, FindMore
<1> QED
  BY <1>1, <1>3, <1>5, <1>6, <1>7 DEF OneMore

\* A module that was Ready still is.
LEMMA NewReady ==
  ASSUME ModuleInv, NEW n, NEW b, IsNew(n, b), FindIn(modules, registered, n) = nullptr,
         NEW m, ReadyIn(modules, registered, m)
  PROVE  /\ ReadyIn(modules', registered', m) /\ m # n
         /\ FindIn(modules', registered', m) = FindIn(modules, registered, m)
         /\ FindIn(modules, registered, m) \in InTable
<1>1. PICK d : d = FindIn(modules, registered, m)
  OBVIOUS
<1>2. d # nullptr /\ m # n /\ modules[d].state = "Ready"
  BY <1>1 DEF ReadyIn
<1>3. d \in InTable
  BY <1>1, <1>2, FoundAt
<1>4. FindIn(modules', registered', m) = d
  <2>1. \A x : x # n => FindIn(modules', registered', x) = FindIn(modules, registered, x)
    BY NewFind
  <2> QED
    BY <1>1, <1>2, <2>1
<1>5. modules'[d] = modules[d]
  BY <1>3, NewFind
<1> QED
  BY <1>1, <1>2, <1>3, <1>4, <1>5 DEF ReadyIn

\* The table with the new module: its name is new, and when it or one of its image can
\* be unloaded, the image has no other.
LEMMA NewTable ==
  ASSUME ModuleInv, NEW f \in Files, NEW n \in Range(Descriptors[f]), NEW b \in mapped,
         IsNew(n, b), FindIn(modules, registered, n) = nullptr, mapped' = mapped,
         \A s \in InTable : modules[s].base = b => modules[s].name \in Range(Descriptors[f])
  PROVE  TableKept'
<1>1. /\ tree' = tree /\ InTable' = InTable \cup {registered} /\ registered \in Slots
      /\ registered' = registered + 1
      /\ \A s \in Slots : s # registered => modules'[s] = modules[s]
      /\ modules'[registered].name = n /\ modules'[registered].base = b
  BY DEF IsNew
<1>2. /\ TableKept /\ Orderly(tree) /\ registered \in Nat /\ mapped \subseteq Base
      /\ Builtin \in Seq(Names)
  BY Basics, WorkTypes, TreeFacts
<1>3. /\ Builtin' = Builtin /\ Described(tree)' = Described(tree) /\ Slots' = Slots
      /\ Orderly(tree)' /\ Unloaded' = Unloaded /\ tree' \in Trees
  BY <1>1, <1>2, SameTree DEF TableKept
<1>4. \A s \in InTable : s # registered /\ s \in Slots /\ modules'[s] = modules[s]
  BY NewFind
<1>5. b # None /\ n \in Described(tree)
  BY <1>2, NoneIsNoName DEF Described, Descriptors, Files
<1>6. Len(Builtin') <= registered' /\ ~(registered < Len(Builtin'))
  <2>1. Len(Builtin) \in Nat /\ Len(Builtin) <= registered
    BY SMT, <1>2 DEF TableKept
  <2>2. \A x, y \in Nat : x <= y => x <= y + 1 /\ ~(y < x)
    BY SMT
  <2> QED
    BY <1>1, <1>2, <1>3, <2>1, <2>2
<1>7. \A s \in InTable' : modules'[s].name \in Range(Builtin') \cup Described(tree)'
  <2>1. \A s \in InTable : modules'[s].name \in Range(Builtin) \cup Described(tree)
    BY <1>2, <1>4 DEF TableKept
  <2> QED
    BY <1>1, <1>3, <1>5, <2>1
<1>8. \A s \in InTable' : modules'[s].base = None <=> s < Len(Builtin')
  <2>1. \A s \in InTable : modules'[s].base = None <=> s < Len(Builtin)
    BY <1>2, <1>4 DEF TableKept
  <2> QED
    BY <1>1, <1>3, <1>5, <1>6, <2>1
<1>9. \A s \in InTable' : modules'[s].base # None =>
            modules'[s].base \in mapped' /\ modules'[s].name \in Described(tree)'
  <2>1. \A s \in InTable : modules'[s].base # None =>
            modules'[s].base \in mapped /\ modules'[s].name \in Described(tree)
    BY <1>2, <1>4 DEF TableKept
  <2> QED
    BY <1>1, <1>3, <1>5, <2>1
<1>10. \A s, r \in InTable' : modules'[s].name = modules'[r].name => s = r
  <2>1. Once(modules', registered')
    BY NewFind
  <2> QED
    BY <2>1 DEF Once, InTable
<1>11. \A s, r \in InTable' :
            /\ modules'[s].base # None /\ modules'[s].base = modules'[r].base
            /\ modules'[s].name \in Unloaded'
            => s = r
  <2>1. \A s, r \in InTable :
            /\ modules'[s].base # None /\ modules'[s].base = modules'[r].base
            /\ modules'[s].name \in Unloaded
            => s = r
    BY <1>2, <1>4 DEF TableKept
  <2>2. \A m \in Range(Descriptors[f]) : m \in Unloaded => Range(Descriptors[f]) = {m}
    BY <1>2 DEF Orderly, Unloaded, Descriptors, Files
  <2>3. ASSUME NEW s \in InTable, modules'[s].base = b
        PROVE  modules'[s].name \in Range(Descriptors[f]) /\ modules'[s].name # n
    BY <1>4, <2>3, FoundAt
  <2>4. \A s \in InTable : modules'[s].base = b => modules'[s].name \notin Unloaded /\ n \notin Unloaded
    BY <2>2, <2>3
  <2> QED
    BY <1>1, <1>3, <2>1, <2>4
<1>12. \A s \in Slots' : s >= registered' =>
            modules'[s].dependents = 0 /\ modules'[s].users = 0
  <2>1. \A x, y \in Int : x >= y + 1 => x >= y /\ x # y
    BY SMT
  <2>2. \A s \in Slots : s \in Int
    BY SMT DEF Slots
  <2>3. \A s \in Slots : s >= registered + 1 => s >= registered /\ s # registered
    <3>1. registered \in Int
      BY SMT, <1>2
    <3> QED
      BY <2>1, <2>2, <3>1
  <2> QED
    BY <1>1, <1>2, <1>3, <2>3 DEF TableKept
<1> QED
  BY <1>3, <1>6, <1>7, <1>8, <1>9, <1>10, <1>11, <1>12 DEF TableKept

\* Nobody holds the new module, as nobody could find it.
LEMMA NewUsers ==
  ASSUME Counting, ModuleInv, NEW n \in Names, NEW b, IsNew(n, b),
         FindIn(modules, registered, n) = nullptr,
         user' = user, got' = got, \A u \in Users : user[u].at = "idle"
  PROVE  UsersKept'
<1>1. /\ tree' = tree /\ InTable' = InTable \cup {registered}
      /\ modules'[registered].name = n /\ modules'[registered].users = 0
  BY DEF IsNew
<1>2. Used' = Used /\ Slots' = Slots /\ UsersKept
  BY <1>1, SameTree DEF ModuleInv
<1>3. /\ user' \in [Users -> {Idle} \cup [at : {"take", "drop"}, slot : Slots']]
      /\ \A u \in Users : user'[u].at = "idle"
  BY <1>2 DEF UsersKept
<1>4. \A u \in Users : got'[u] # None =>
        got'[u] \in Used' /\ ReadyIn(modules', registered', got'[u])
  BY <1>2, NewReady DEF UsersKept
<1>5. \A s \in InTable' : modules'[s].users = Cardinality(Holders(got', user', modules'[s].name))
  <2>1. \A s \in InTable : modules'[s].users = Cardinality(Holders(got, user, modules'[s].name))
    <3>1. \A s \in InTable : modules'[s] = modules[s]
      BY NewFind
    <3> QED
      BY <1>2, <3>1 DEF UsersKept
  <2>2. Holders(got, user, n) = {}
    <3> SUFFICES ASSUME NEW u \in Users, got[u] = n
                 PROVE  FALSE
      BY DEF Holders
    <3>1. ReadyIn(modules, registered, n)
      BY <1>2, NoneIsNoName DEF UsersKept
    <3> QED
      BY <3>1 DEF ReadyIn
  <2>3. Cardinality(Holders(got, user, n)) = 0
    BY <2>2 DEF Counting, EmptySize
  <2> QED
    BY <1>1, <2>1, <2>3
<1> QED
  BY <1>3, <1>4, <1>5 DEF UsersKept

\* No link leads to the new module, and none from it.
LEMMA NewLinks ==
  ASSUME Counting, ModuleInv, NEW n, NEW b, IsNew(n, b), FindIn(modules, registered, n) = nullptr
  PROVE  LinksKept'
<1>1. /\ tree' = tree /\ InTable' = InTable \cup {registered} /\ registered \notin InTable
      /\ modules'[registered].state = "Registered" /\ modules'[registered].dependents = 0
  BY DEF IsNew
<1>2. /\ deps' = deps /\ LinksKept /\ \A s \in InTable : modules'[s] = modules[s]
  BY <1>1, SameTree, NewFind DEF ModuleInv
<1>3. ASSUME NEW r \in InTable, modules[r].state = "Ready", NEW i \in DOMAIN deps[modules[r].name]
      PROVE  /\ ReadyIn(modules', registered', deps[modules[r].name][i])
             /\ FindIn(modules', registered', deps[modules[r].name][i]) =
                    FindIn(modules, registered, deps[modules[r].name][i])
             /\ FindIn(modules, registered, deps[modules[r].name][i]) \in InTable
  <2>1. ReadyIn(modules, registered, deps[modules[r].name][i])
    BY <1>2, <1>3 DEF LinksKept
  <2> QED
    BY <2>1, NewReady
<1>4. \A r \in InTable' : modules'[r].state = "Ready" =>
        r \in InTable /\ modules[r].state = "Ready" /\ modules'[r] = modules[r]
  BY <1>1, <1>2
<1>5. ASSUME NEW s, NEW e, IsLink(deps, modules', registered', s, e)
      PROVE  IsLink(deps, modules, registered, s, e) /\ s \in InTable
  <2>1. PICK r \in InTable' : \E i \in DOMAIN deps[modules'[r].name] :
            /\ e = <<r, i>> /\ modules'[r].state = "Ready"
            /\ FindIn(modules', registered', deps[modules'[r].name][i]) = s
    BY <1>5 DEF IsLink, InTable
  <2>2. r \in InTable /\ modules[r].state = "Ready" /\ modules'[r] = modules[r]
    BY <1>4, <2>1
  <2>3. PICK i \in DOMAIN deps[modules[r].name] :
            /\ e = <<r, i>> /\ FindIn(modules', registered', deps[modules[r].name][i]) = s
    BY <2>1, <2>2
  <2>4. FindIn(modules, registered, deps[modules[r].name][i]) = s /\ s \in InTable
    BY <1>3, <2>2, <2>3
  <2> QED
    BY <2>2, <2>3, <2>4 DEF IsLink, InTable
<1>6. ASSUME NEW s, NEW e, IsLink(deps, modules, registered, s, e)
      PROVE  IsLink(deps, modules', registered', s, e)
  <2>1. PICK r \in InTable : \E i \in DOMAIN deps[modules[r].name] :
            /\ e = <<r, i>> /\ modules[r].state = "Ready"
            /\ FindIn(modules, registered, deps[modules[r].name][i]) = s
    BY <1>6 DEF IsLink, InTable
  <2>2. PICK i \in DOMAIN deps[modules[r].name] :
            /\ e = <<r, i>> /\ modules[r].state = "Ready"
            /\ FindIn(modules, registered, deps[modules[r].name][i]) = s
    BY <2>1
  <2>3. modules'[r] = modules[r] /\ r \in InTable'
    BY <1>1, <1>2
  <2>4. FindIn(modules', registered', deps[modules[r].name][i]) = s
    BY <1>3, <2>2
  <2> QED
    BY <2>2, <2>3, <2>4 DEF IsLink, InTable
<1>7. ASSUME NEW s
      PROVE  LinksTo(deps', modules', registered', s) = LinksTo(deps, modules, registered, s)
  <2>1. \A e : IsLink(deps, modules', registered', s, e) <=> IsLink(deps, modules, registered, s, e)
    BY <1>5, <1>6
  <2>2. \A e : e \in LinksTo(deps, modules', registered', s) <=>
                e \in LinksTo(deps, modules, registered, s)
    BY <2>1, LinkIs
  <2> QED
    BY <1>2, <2>2
<1>8. Cardinality(LinksTo(deps', modules', registered', registered)) = 0
  <2>1. \A e : ~IsLink(deps, modules', registered', registered, e)
    BY <1>1, <1>5
  <2>2. \A e : e \notin LinksTo(deps, modules', registered', registered)
    BY <2>1, LinkIs
  <2>3. LinksTo(deps', modules', registered', registered) = {}
    BY <1>2, <2>2
  <2> QED
    BY <2>3 DEF Counting, EmptySize
<1>9. \A s \in InTable' :
        modules'[s].dependents = Cardinality(LinksTo(deps', modules', registered', s))
  <2>1. \A s \in InTable :
          modules'[s].dependents = Cardinality(LinksTo(deps', modules', registered', s))
    BY <1>2, <1>7 DEF LinksKept
  <2> QED
    BY <1>1, <1>8, <2>1
<1>10. \A s \in InTable' : modules'[s].state = "Ready" =>
        \A i \in DOMAIN deps'[modules'[s].name] :
            ReadyIn(modules', registered', deps'[modules'[s].name][i])
  BY <1>2, <1>3, <1>4
<1> QED
  BY <1>9, <1>10 DEF LinksKept

\* What module_register_loaded() looks at
LEMMA Registering ==
  ASSUME ModuleInv, op.at = "register", op.entry <= Len(Descriptors[op.file])
  PROVE  /\ op.file \in Files /\ op.entry \in DOMAIN Descriptors[op.file]
         /\ Descriptors[op.file][op.entry] \in Range(Descriptors[op.file])
         /\ Descriptors[op.file][op.entry] \in Names \cap Described(tree)
<1>1. op \in [at : {"relocate", "register"}, file : Files, base : Base,
              entry : Nat \ {0}, count : Nat]
  BY OpIs DEF ImageInHand
<1>2. op.file \in Files /\ op.entry \in Nat \ {0}
  BY SMT, <1>1
<1>3. Descriptors[op.file] \in Seq(Names)
  BY <1>2, Basics, TreeFacts
<1>4. op.entry \in DOMAIN Descriptors[op.file] /\ Descriptors[op.file][op.entry] \in Names
  BY SMT, <1>2, <1>3
<1>5. Descriptors[op.file][op.entry] \in Range(Descriptors[op.file])
  BY <1>4 DEF Range
<1>6. Range(Descriptors[op.file]) \subseteq Described(tree)
  BY <1>2 DEF Described, Descriptors, Files
<1> QED
  BY <1>2, <1>4, <1>5, <1>6

\* A module is refused and the next one is looked at.
LEMMA RefusedInd ==
  ASSUME Counting, ModuleInv, tree' = tree, op.at = "register", op.entry <= Len(Descriptors[op.file]),
         Refused(Descriptors[op.file][op.entry], op.file), op' = [op EXCEPT !.entry = @ + 1],
         modules' = modules, registered' = registered, mapped' = mapped, tables' = tables, refused' = refused,
         calls' = calls, ret' = ret, boot' = boot, user' = user, got' = got,
         panicked' = panicked, failures' = failures
  PROVE  ModuleInv'
<1>1. /\ ImageInHand /\ calls = <<>>
      /\ \A a \in mapped : a # op.base => \E s \in InTable : modules[s].base = a
      /\ \A i \in DOMAIN tables : tables[i] \in mapped \cup refused
  BY InHand
<1>2. op \in [at : {"relocate", "register"}, file : Files, base : Base,
              entry : Nat \ {0}, count : Nat]
  BY <1>1 DEF ImageInHand
<1>3. /\ op' \in [at : {"relocate", "register"}, file : Files, base : Base,
                  entry : Nat \ {0}, count : Nat]
      /\ op'.at = "register" /\ op'.file = op.file /\ op'.base = op.base /\ op'.count = op.count
  BY SMT, <1>2
<1>4. /\ TypeOK' /\ TableKept' /\ CallsKept' /\ UsersKept' /\ LinksKept'
      /\ InTable' = InTable /\ Files' = Files /\ Descriptors' = Descriptors
      /\ Exporting' = Exporting
  BY <1>1, WorkTypes, WorkStep
<1>6. ImageInHand'
  <2>1. \/ op'.at = "register" /\ op'.file \in Exporting'
        \/ op'.base \in refused' \/ \A i \in DOMAIN tables' : tables'[i] # op'.base
    BY <1>1, <1>3, <1>4 DEF ImageInHand
  <2>2. /\ op'.base \in mapped' /\ op'.at # "relocate"
        /\ \A s \in InTable' : modules'[s].base = op'.base =>
              modules'[s].name \in Range(Descriptors'[op'.file])
        /\ op'.count > 0 <=> \E s \in InTable' : modules'[s].base = op'.base
    BY <1>1, <1>3, <1>4 DEF ImageInHand
  <2> QED
    BY <1>3, <1>4, <2>1, <2>2 DEF ImageInHand
<1>7. ImagesKept'
  <2>1. op' # Idle /\ op'.at \notin {"exit", "remove"}
    BY <1>3, NoneIsNot
  <2>2. \A a \in mapped : a # op'.base => \E s \in InTable' : modules'[s].base = a
    BY <1>1, <1>3, <1>4
  <2> QED
    BY <1>1, <2>1, <2>2 DEF ImagesKept
<1> QED
  BY <1>4, <1>6, <1>7 DEF ModuleInv, OpKept

\* A module that is taken in comes behind the others, in the image in hand.
LEMMA TakenInInd ==
  ASSUME Counting, ModuleInv, tree' = tree, op.at = "register", op.entry <= Len(Descriptors[op.file]),
         ~TableLocked, ~Refused(Descriptors[op.file][op.entry], op.file),
         op' = [op EXCEPT !.entry = @ + 1, !.count = @ + 1],
         modules' = [modules EXCEPT ![registered] =
                        [@ EXCEPT !.name = Descriptors[op.file][op.entry],
                                  !.state = "Registered", !.base = op.base]],
         registered' = registered + 1, mapped' = mapped, tables' = tables, refused' = refused, calls' = calls,
         ret' = ret, boot' = boot, user' = user, got' = got, panicked' = panicked,
         failures' = failures
  PROVE  ModuleInv' /\ Forward
<1>1. /\ ImageInHand /\ calls = <<>> /\ op.base \in Base
      /\ \A a \in mapped : a # op.base => \E s \in InTable : modules[s].base = a
      /\ \A i \in DOMAIN tables : tables[i] \in mapped \cup refused
  BY InHand
<1>2. op \in [at : {"relocate", "register"}, file : Files, base : Base,
              entry : Nat \ {0}, count : Nat]
  BY <1>1 DEF ImageInHand
<1>3. /\ op' \in [at : {"relocate", "register"}, file : Files, base : Base,
                  entry : Nat \ {0}, count : Nat]
      /\ op'.at = "register" /\ op'.file = op.file /\ op'.base = op.base /\ op'.count > 0
  <2>1. PICK e, c : e = op.entry + 1 /\ c = op.count + 1
    OBVIOUS
  <2>2. op.entry \in Nat /\ op.count \in Nat
    BY SMT, <1>2
  <2>3. \A x \in Nat : x + 1 \in Nat \ {0} /\ x + 1 \in Nat /\ x + 1 > 0
    BY SMT
  <2>4. e \in Nat \ {0} /\ c \in Nat /\ c > 0
    BY <2>1, <2>2, <2>3
  <2>5. op' = [op EXCEPT !.entry = e, !.count = c]
    BY <2>1
  <2>6. /\ op' \in [at : {"relocate", "register"}, file : Files, base : Base,
                    entry : Nat \ {0}, count : Nat]
        /\ op'.count = c
    BY <1>2, <2>4, <2>5
  <2>7. op'.at = op.at /\ op'.file = op.file /\ op'.base = op.base
    BY <1>2, <2>5
  <2> QED
    BY <2>4, <2>6, <2>7
<1>4. PICK n : n = Descriptors[op.file][op.entry]
  OBVIOUS
<1>5. PICK b : b = op.base
  OBVIOUS
<1>6. /\ n \in Names /\ n \in Described(tree) /\ op.file \in Files
      /\ n \in Range(Descriptors[op.file]) /\ b \in Base /\ b \in mapped
  BY <1>1, <1>4, <1>5, Registering DEF ImageInHand
<1>7. FindIn(modules, registered, n) = nullptr /\ registered < max_modules
  <2>1. find(n) = nullptr /\ ~(registered >= max_modules)
    BY <1>4 DEF Refused
  <2>2. registered \in Nat /\ max_modules \in Nat
    BY Basics, TreeFacts
  <2>3. \A x, y \in Nat : ~(x >= y) => x < y
    BY SMT
  <2> QED
    BY <2>1, <2>2, <2>3, Basics
<1>8. IsNew(n, b)
  <2>1. modules' = [modules EXCEPT ![registered] =
                        [@ EXCEPT !.name = n, !.state = "Registered", !.base = b]]
    BY <1>4, <1>5
  <2> QED
    BY <1>6, <1>7, <2>1, NewModule
<1>9. /\ InTable' = InTable \cup {registered} /\ modules' \in [Slots -> Entry]
      /\ modules'[registered].base = b /\ modules'[registered].name = n
      /\ modules'[registered].state = "Registered"
      /\ \A s \in InTable : modules'[s] = modules[s]
  BY <1>7, <1>8, NewFind DEF IsNew
<1>10. TypeOK'
  <2>1. registered' \in 0..max_modules
    <3>1. registered \in Nat /\ max_modules \in Nat
      BY Basics, TreeFacts
    <3>2. \A x, y \in Nat : x < y => x + 1 \in 0..y
      BY SMT
    <3> QED
      BY <1>7, <3>1, <3>2
  <2> QED
    BY <1>9, <2>1, WorkType, WorkTypes
<1>11. TableKept'
  <2>1. PICK f : f = op.file
    OBVIOUS
  <2>2. \A s \in InTable : modules[s].base = b => modules[s].name \in Range(Descriptors[f])
    BY <1>1, <1>5, <2>1 DEF ImageInHand
  <2>3. f \in Files /\ n \in Range(Descriptors[f]) /\ b \in mapped
    BY <1>6, <2>1
  <2> QED
    BY <1>7, <1>8, <2>2, <2>3, NewTable
<1>12. UsersKept' /\ LinksKept'
  BY <1>6, <1>7, <1>8, AllIdle, NewUsers, NewLinks
<1>13. CallsKept'
  <2>1. ret = None /\ \A s \in InTable : modules[s].state # "Loading"
    BY <1>1, NoneLoading
  <2>2. \A s \in InTable' : modules'[s].state # "Loading"
    BY <1>9, <2>1
  <2> QED
    BY <1>1, <2>1, <2>2, QuietCalls
<1>14. /\ Files' = Files /\ Descriptors' = Descriptors /\ Exporting' = Exporting
  BY SameTree
<1>15. ImageInHand'
  <2>1. \/ op'.at = "register" /\ op'.file \in Exporting'
        \/ op'.base \in refused' \/ \A i \in DOMAIN tables' : tables'[i] # op'.base
    BY <1>1, <1>3, <1>14 DEF ImageInHand
  <2>2. \A s \in InTable' : modules'[s].base = op'.base =>
              modules'[s].name \in Range(Descriptors'[op'.file])
    BY ZenonT(30), <1>1, <1>3, <1>6, <1>9, <1>14 DEF ImageInHand
  <2>3. op'.count > 0 <=> \E s \in InTable' : modules'[s].base = op'.base
    BY <1>3, <1>5, <1>9
  <2>4. op'.base \in mapped' /\ op'.at # "relocate"
    BY <1>3, <1>5, <1>6
  <2> QED
    BY <1>3, <1>14, <2>1, <2>2, <2>3, <2>4 DEF ImageInHand
<1>16. ImagesKept'
  <2>1. op' # Idle /\ op'.at \notin {"exit", "remove"}
    BY <1>3, NoneIsNot
  <2>2. ASSUME NEW a \in mapped, a # op'.base
        PROVE  \E s \in InTable' : modules'[s].base = a
    <3>1. PICK s \in InTable : modules[s].base = a
      BY <1>1, <1>3, <2>2
    <3>2. s \in InTable' /\ modules'[s].base = a
      BY <1>9, <3>1
    <3> QED
      BY <3>2
  <2> QED
    BY <1>1, <2>1, <2>2 DEF ImagesKept
<1>17. Forward
  BY <1>9 DEF Forward
<1> QED
  BY <1>10, <1>11, <1>12, <1>13, <1>15, <1>16, <1>17 DEF ModuleInv, OpKept

\* module_register_loaded()
LEMMA RegisterLoadedInd ==
  ASSUME Counting, ModuleInv, tree' = tree, RegisterLoaded
  PROVE  ModuleInv' /\ Forward
<1>1. /\ op.at = "register" /\ op.entry <= Len(Descriptors[op.file]) /\ ~TableLocked
      /\ mapped' = mapped /\ tables' = tables /\ refused' = refused /\ calls' = calls /\ ret' = ret /\ boot' = boot
      /\ user' = user /\ got' = got /\ panicked' = panicked /\ failures' = failures
  BY DEF RegisterLoaded, users, left
<1>2. CASE Refused(Descriptors[op.file][op.entry], op.file)
  <2>1. op' = [op EXCEPT !.entry = @ + 1] /\ modules' = modules /\ registered' = registered
    BY <1>2 DEF RegisterLoaded, left
  <2>2. Forward
    BY <2>1 DEF Forward
  <2> QED
    BY <1>1, <1>2, <2>1, <2>2, RefusedInd
<1>3. CASE ~Refused(Descriptors[op.file][op.entry], op.file)
  <2>1. /\ op' = [op EXCEPT !.entry = @ + 1, !.count = @ + 1]
        /\ modules' = [modules EXCEPT ![registered] =
                          [@ EXCEPT !.name = Descriptors[op.file][op.entry],
                                    !.state = "Registered", !.base = op.base]]
        /\ registered' = registered + 1
    BY <1>3 DEF RegisterLoaded, left
  <2> QED
    BY <1>1, <1>3, <2>1, TakenInInd
<1> QED
  BY <1>2, <1>3

----------------------------------------------------------------------------
(* module_unload() takes the module out of the table                        *)

\* Nobody refers to a module of an image when one of them can go.
LEMMA Unreferred ==
  ASSUME Counting, ModuleInv, Referred(tree) \cap Described(tree) = {}, NEW s \in InTable,
         modules[s].base # None
  PROVE  modules[s].dependents = 0 /\ modules[s].users = 0
<1>1. modules[s].name \in Described(tree) /\ modules[s].name # None
  BY ZenonT(30), Basics, NoneIsNoName DEF ModuleInv, TableKept
<1>2. modules[s].name \notin Referred(tree)
  BY <1>1
<1>3. modules[s].dependents = 0
  <2>1. \A e : ~IsLink(deps, modules, registered, s, e)
    <3> SUFFICES ASSUME NEW r \in InTable, NEW i \in DOMAIN deps[modules[r].name],
                        FindIn(modules, registered, deps[modules[r].name][i]) = s
                 PROVE  FALSE
      BY DEF IsLink, InTable
    <3>1. s # nullptr
      <4>1. registered \in Nat
        BY Basics
      <4> QED
        BY SMT, <4>1 DEF nullptr, InTable
    <3>2. deps[modules[r].name][i] = modules[s].name
      BY <3>1, FoundAt
    <3>3. deps[modules[r].name][i] \in Range(deps[modules[r].name]) /\ modules[r].name \in Names
      BY Basics DEF Range
    <3>4. deps[modules[r].name][i] \in Referred(tree)
      BY <3>3 DEF Referred, deps
    <3> QED
      BY <1>2, <3>2, <3>4
  <2>2. LinksTo(deps, modules, registered, s) = {}
    BY <2>1, LinkIs
  <2> QED
    BY <2>2 DEF ModuleInv, LinksKept, Counting, EmptySize
<1>4. modules[s].users = 0
  <2>1. \A u \in Users : got[u] # modules[s].name
    BY <1>1, <1>2 DEF ModuleInv, UsersKept, Referred, Used
  <2>2. Holders(got, user, modules[s].name) = {}
    BY <2>1 DEF Holders
  <2> QED
    BY <2>2 DEF ModuleInv, UsersKept, Counting, EmptySize
<1> QED
  BY <1>3, <1>4

\* The module in slot s leaves and the last one comes in its place.
IsGone(s, last) ==
    /\ tree' = tree /\ registered' = last /\ mapped' = mapped
    /\ Referred(tree) \cap Described(tree) = {}
    /\ s \in InTable /\ last \in InTable /\ InTable' = InTable \ {last}
    /\ Len(Builtin) <= last /\ ~(s < Len(Builtin)) /\ ~(last < Len(Builtin))
    /\ modules[s].name \in Unloaded /\ modules[s].base # None
    /\ modules' \in [Slots -> Entry]
    /\ \A r \in InTable' : modules'[r] = IF r = s THEN modules[last] ELSE modules[r]
    /\ \A r \in Slots : r >= last => modules'[r].dependents = 0 /\ modules'[r].users = 0
    /\ \A r \in InTable : r # s => modules'[r] = modules[r]

\* The table after modules[i] = modules[--registered]
LEMMA GoneSlot ==
  ASSUME Counting, ModuleInv, tree' = tree, op.at = "remove", mapped' = mapped,
         modules' = Removed(op.slot), registered' = registered - 1
  PROVE  \E last : IsGone(op.slot, last)
<1>1. PICK s : s = op.slot
  OBVIOUS
<1>2. PICK last : last = registered - 1
  OBVIOUS
<1>3. /\ s \in InTable /\ modules[s].name \in Unloaded /\ modules[s].base # None
  BY <1>1, OpIs DEF ModuleGoes
<1>4. /\ registered \in Nat /\ modules \in [Slots -> Entry] /\ InTable \subseteq Slots /\ TableKept
      /\ Orderly(tree) /\ Builtin \in Seq(Names)
  BY Basics, WorkTypes, TreeFacts
<1>5. /\ last \in InTable /\ 0..last - 1 = InTable \ {last} /\ s <= last
      /\ \A r \in InTable : r \in Nat
      /\ \A r \in Slots : r >= last /\ r # last => r >= registered
  BY SMT, <1>2, <1>3, <1>4 DEF InTable, Slots
<1>6. InTable' = InTable \ {last} /\ registered' = last
  BY <1>2, <1>5 DEF InTable
<1>7. ~(s < Len(Builtin))
  BY <1>3, <1>4 DEF TableKept
<1>8. Len(Builtin) <= last /\ ~(last < Len(Builtin))
  <2>1. Len(Builtin) \in Nat
    BY SMT, <1>4
  <2>2. \A x, y, z \in Nat : ~(x < y) /\ x <= z => y <= z /\ ~(z < y)
    BY SMT
  <2> QED
    BY <1>3, <1>5, <1>7, <2>1, <2>2
<1>9. Referred(tree) \cap Described(tree) = {}
  <2>1. modules[s].name \in Described(tree)
    BY <1>3, <1>4 DEF TableKept
  <2> QED
    BY <1>3, <1>4, <2>1 DEF Orderly, Unloaded
<1>10. modules[last].base # None
  BY <1>4, <1>5, <1>8 DEF TableKept
<1>11. PICK ms : ms = [modules EXCEPT ![s].base = None]
  OBVIOUS
<1>12. s \in Slots /\ last \in Slots /\ modules[s] \in Entry /\ modules[last] \in Entry
  BY <1>3, <1>4, <1>5
<1>13. PICK o : o = [modules[s] EXCEPT !.base = None]
  OBVIOUS
<1>14. o \in Entry /\ o.dependents = modules[s].dependents /\ o.users = modules[s].users
  BY SMT, <1>12, <1>13 DEF Entry
<1>15. /\ ms \in [Slots -> Entry] /\ ms[s] = o
       /\ \A r \in Slots : r # s => ms[r] = modules[r]
  BY <1>4, <1>11, <1>12, <1>13, <1>14
<1>16. modules' = [ms EXCEPT ![s] = ms[last]]
  BY <1>1, <1>2, <1>11 DEF Removed
<1>17. /\ modules' \in [Slots -> Entry] /\ modules'[s] = ms[last]
       /\ \A r \in Slots : r # s => modules'[r] = modules[r]
  BY <1>12, <1>15, <1>16
<1>18. \A r \in InTable' : modules'[r] = IF r = s THEN modules[last] ELSE modules[r]
  BY <1>4, <1>6, <1>12, <1>15, <1>17
<1>19. modules'[last].dependents = 0 /\ modules'[last].users = 0
  <2>1. /\ modules[s].dependents = 0 /\ modules[s].users = 0
        /\ modules[last].dependents = 0 /\ modules[last].users = 0
    BY <1>3, <1>5, <1>9, <1>10, Unreferred
  <2>2. CASE s = last
    BY <1>14, <1>15, <1>17, <2>1, <2>2
  <2>3. CASE s # last
    BY <1>12, <1>17, <2>1, <2>3
  <2> QED
    BY <2>2, <2>3
<1>20. \A r \in Slots : r >= last => modules'[r].dependents = 0 /\ modules'[r].users = 0
  <2> SUFFICES ASSUME NEW r \in Slots, r >= last, r # last
               PROVE  modules'[r].dependents = 0 /\ modules'[r].users = 0
    BY <1>19
  <2>1. r >= registered
    BY <1>5
  <2>2. r # s
    <3>1. s \in Nat /\ last \in Nat /\ s <= last /\ r \in Int
      BY SMT, <1>3, <1>5 DEF Slots
    <3>2. \A x, y, z \in Int : x <= y /\ z >= y /\ z # y => z # x
      BY SMT
    <3> QED
      BY SMT, <3>1, <3>2
  <2>3. modules[r].dependents = 0 /\ modules[r].users = 0
    BY <1>4, <2>1 DEF TableKept
  <2> QED
    BY <1>17, <2>2, <2>3
<1>21. \A r \in InTable : r # s => modules'[r] = modules[r]
  BY <1>4, <1>17
<1>22. IsGone(s, last)
  BY <1>3, <1>5, <1>6, <1>7, <1>8, <1>9, <1>17, <1>18, <1>20, <1>21 DEF IsGone
<1> QED
  BY <1>1, <1>22

\* Where the module in slot r was before
WasIn(s, last, r) == IF r = s THEN last ELSE r

\* The other modules are all there.
OthersStay(s, last) == \A q \in InTable : q # s => \E r \in InTable' : WasIn(s, last, r) = q

\* The modules of the table but the one that leaves, each in one slot
LEMMA GoneTable ==
  ASSUME NEW s, NEW last, IsGone(s, last)
  PROVE  /\ \A r \in InTable' : /\ WasIn(s, last, r) \in InTable /\ WasIn(s, last, r) # s
                                /\ modules'[r] = modules[WasIn(s, last, r)]
         /\ \A r, q \in InTable' : WasIn(s, last, r) = WasIn(s, last, q) => r = q
         /\ OthersStay(s, last)
<1>1. /\ s \in InTable /\ last \in InTable /\ InTable' = InTable \ {last}
      /\ \A r \in InTable' : modules'[r] = IF r = s THEN modules[last] ELSE modules[r]
  BY DEF IsGone
<1>2. \A r \in InTable' : /\ WasIn(s, last, r) \in InTable /\ WasIn(s, last, r) # s
                          /\ modules'[r] = modules[WasIn(s, last, r)]
  BY <1>1 DEF WasIn
<1>3. \A r, q \in InTable' : WasIn(s, last, r) = WasIn(s, last, q) => r = q
  BY <1>1 DEF WasIn
<1>4. ASSUME NEW q \in InTable, q # s
      PROVE  \E r \in InTable' : WasIn(s, last, r) = q
  <2>1. CASE q = last
    <3>1. s \in InTable' /\ WasIn(s, last, s) = q
      BY <1>1, <1>4, <2>1 DEF WasIn
    <3> QED
      BY <3>1
  <2>2. CASE q # last
    <3>1. q \in InTable' /\ WasIn(s, last, q) = q
      BY <1>1, <1>4, <2>2 DEF WasIn
    <3> QED
      BY <3>1
  <2> QED
    BY <2>1, <2>2
<1> QED
  BY <1>2, <1>3, <1>4 DEF OthersStay

\* Its invariant
LEMMA GoneKept ==
  ASSUME ModuleInv, NEW s, NEW last, IsGone(s, last)
  PROVE  TableKept' /\ Once(modules', registered')
<1>1. /\ tree' = tree /\ registered' = last /\ mapped' = mapped /\ s \in InTable
      /\ Len(Builtin) <= last /\ ~(s < Len(Builtin)) /\ ~(last < Len(Builtin))
      /\ \A r \in Slots : r >= last => modules'[r].dependents = 0 /\ modules'[r].users = 0
  BY DEF IsGone
<1> DEFINE was(r) == WasIn(s, last, r)
<1>0. /\ \A r \in InTable' : was(r) \in InTable /\ modules'[r] = modules[was(r)]
      /\ \A r, q \in InTable' : was(r) = was(q) => r = q
      /\ \A r : was(r) < Len(Builtin) <=> r < Len(Builtin)
  <2>1. \A r \in InTable' : /\ was(r) \in InTable /\ was(r) # s
                             /\ modules'[r] = modules[was(r)]
    BY GoneTable
  <2>2. \A r, q \in InTable' : was(r) = was(q) => r = q
    BY GoneTable
  <2>3. \A r : was(r) < Len(Builtin) <=> r < Len(Builtin)
    BY <1>1 DEF WasIn
  <2> QED
    BY <2>1, <2>2, <2>3
<1> HIDE DEF was
<1>2. TableKept
  BY DEF ModuleInv
<1>3. /\ Builtin' = Builtin /\ Described(tree)' = Described(tree) /\ Slots' = Slots
      /\ Orderly(tree)' /\ Unloaded' = Unloaded /\ tree' \in Trees
  BY <1>1, <1>2, SameTree DEF TableKept
<1>4. \A r \in InTable' : modules'[r].name \in Range(Builtin') \cup Described(tree)'
  <2> TAKE r \in InTable'
  <2>1. PICK q \in InTable : modules'[r] = modules[q]
    BY <1>0
  <2>2. modules[q].name \in Range(Builtin) \cup Described(tree)
    BY <1>2 DEF TableKept
  <2> QED
    BY <1>3, <2>1, <2>2
<1>5. \A r \in InTable' : modules'[r].base = None <=> r < Len(Builtin')
  <2> TAKE r \in InTable'
  <2>1. PICK q \in InTable : modules'[r] = modules[q] /\ q = was(r)
    BY <1>0
  <2>2. modules[q].base = None <=> q < Len(Builtin)
    BY <1>2 DEF TableKept
  <2>3. q < Len(Builtin) <=> r < Len(Builtin)
    BY <1>0, <2>1
  <2> QED
    BY <1>3, <2>1, <2>2, <2>3
<1>6. \A r \in InTable' : modules'[r].base # None =>
            modules'[r].base \in mapped' /\ modules'[r].name \in Described(tree)'
  <2> TAKE r \in InTable'
  <2>1. PICK q \in InTable : modules'[r] = modules[q]
    BY <1>0
  <2>2. modules[q].base # None => modules[q].base \in mapped /\ modules[q].name \in Described(tree)
    BY <1>2 DEF TableKept
  <2> QED
    BY <1>1, <1>3, <2>1, <2>2
<1>7. \A r, q \in InTable' : modules'[r].name = modules'[q].name => r = q
  <2> TAKE r, q \in InTable'
  <2>1. PICK a \in InTable : modules'[r] = modules[a] /\ a = was(r)
    BY <1>0
  <2>2. PICK b \in InTable : modules'[q] = modules[b] /\ b = was(q)
    BY <1>0
  <2>3. a = b => r = q
    BY <1>0, <2>1, <2>2
  <2>4. modules[a].name = modules[b].name => a = b
    BY <1>2 DEF TableKept
  <2> QED
    BY <2>1, <2>2, <2>3, <2>4
<1>8. \A r, q \in InTable' :
            /\ modules'[r].base # None /\ modules'[r].base = modules'[q].base
            /\ modules'[r].name \in Unloaded'
            => r = q
  <2> TAKE r, q \in InTable'
  <2>1. PICK a \in InTable : modules'[r] = modules[a] /\ a = was(r)
    BY <1>0
  <2>2. PICK b \in InTable : modules'[q] = modules[b] /\ b = was(q)
    BY <1>0
  <2>3. a = b => r = q
    BY <1>0, <2>1, <2>2
  <2>4. modules[a].base # None /\ modules[a].base = modules[b].base
        /\ modules[a].name \in Unloaded => a = b
    BY <1>2 DEF TableKept
  <2> QED
    BY <1>3, <2>1, <2>2, <2>3, <2>4
<1>9. Once(modules', registered')
  BY <1>7 DEF Once, InTable
<1> QED
  BY <1>1, <1>3, <1>4, <1>5, <1>6, <1>7, <1>8, <1>9 DEF TableKept

\* The modules that somebody refers to are linked in, and stay where they are.
LEMMA GoneFind ==
  ASSUME ModuleInv, NEW s, NEW last, IsGone(s, last), NEW n \in Referred(tree), NEW d,
         d = FindIn(modules, registered, n), d # nullptr
  PROVE  /\ FindIn(modules', registered', n) = d /\ d \in InTable' /\ modules'[d] = modules[d]
         /\ modules[d].base = None
<1>1. d \in InTable /\ modules[d].name = n
  BY FoundAt
<1>2. /\ Referred(tree) \cap Described(tree) = {} /\ InTable' = InTable \ {last}
      /\ ~(s < Len(Builtin)) /\ ~(last < Len(Builtin))
      /\ \A r \in InTable' : modules'[r] = IF r = s THEN modules[last] ELSE modules[r]
      /\ registered' = last /\ last \in InTable
  BY DEF IsGone
<1>3. n \notin Described(tree)
  BY <1>2
<1>4. modules[d].base = None /\ d < Len(Builtin)
  BY <1>1, <1>3 DEF ModuleInv, TableKept
<1>5. d # s /\ d # last
  BY <1>2, <1>4
<1>6. d \in InTable' /\ modules'[d] = modules[d]
  BY <1>1, <1>2, <1>5
<1>7. FindIn(modules', registered', n) = d
  <2>1. Once(modules', registered') /\ registered' \in Nat /\ d \in 0..registered' - 1
    <3>1. registered \in Nat
      BY Basics
    <3>2. \A x \in 0..registered - 1 : x \in Nat
      BY SMT, <3>1
    <3> QED
      BY <1>2, <1>6, <3>2, GoneKept DEF InTable
  <2>2. FindIn(modules', registered', modules'[d].name) = d
    BY <2>1, FindOne
  <2> QED
    BY <1>1, <1>6, <2>2
<1> QED
  BY <1>4, <1>6, <1>7

\* A module that is Ready and that somebody refers to stays so, in its slot.
LEMMA GoneReady ==
  ASSUME ModuleInv, NEW s, NEW last, IsGone(s, last), NEW n \in Referred(tree),
         ReadyIn(modules, registered, n)
  PROVE  /\ ReadyIn(modules', registered', n)
         /\ FindIn(modules', registered', n) = FindIn(modules, registered, n)
         /\ FindIn(modules, registered, n) \in InTable'
         /\ modules'[FindIn(modules, registered, n)].base = None
<1>1. PICK d : d = FindIn(modules, registered, n)
  OBVIOUS
<1>2. d # nullptr /\ modules[d].state = "Ready"
  BY <1>1 DEF ReadyIn
<1>3. /\ FindIn(modules', registered', n) = d /\ d \in InTable' /\ modules'[d] = modules[d]
      /\ modules[d].base = None
  BY <1>1, <1>2, GoneFind
<1> QED
  BY <1>1, <1>2, <1>3 DEF ReadyIn

\* The users keep what they hold.
LEMMA GoneUsers ==
  ASSUME ModuleInv, NEW s, NEW last, IsGone(s, last), user' = user, got' = got
  PROVE  UsersKept'
<1>1. tree' = tree
  BY DEF IsGone
<1>2. Used' = Used /\ Slots' = Slots /\ UsersKept /\ Used \subseteq Referred(tree)
  BY <1>1, SameTree DEF ModuleInv, Referred, Used
<1>3. ASSUME NEW u \in Users, got[u] # None
      PROVE  /\ got[u] \in Used /\ ReadyIn(modules', registered', got[u])
             /\ FindIn(modules', registered', got[u]) = FindIn(modules, registered, got[u])
  <2>1. got[u] \in Used /\ ReadyIn(modules, registered, got[u])
    BY <1>2, <1>3 DEF UsersKept
  <2>2. PICK n : n = got[u]
    OBVIOUS
  <2>3. n \in Referred(tree) /\ ReadyIn(modules, registered, n)
    BY <1>2, <2>1, <2>2
  <2>4. /\ ReadyIn(modules', registered', n)
        /\ FindIn(modules', registered', n) = FindIn(modules, registered, n)
    BY <2>3, GoneReady
  <2> QED
    BY <2>1, <2>2, <2>4
<1>4. \A u \in Users : user'[u].at # "idle" =>
        got'[u] # None /\ user'[u].slot = FindIn(modules', registered', got'[u])
  BY <1>2, <1>3 DEF UsersKept
<1>5. \A r \in InTable' : modules'[r].users = Cardinality(Holders(got', user', modules'[r].name))
  <2> SUFFICES ASSUME NEW r \in InTable'
               PROVE  modules'[r].users = Cardinality(Holders(got, user, modules'[r].name))
    OBVIOUS
  <2>1. \A q \in InTable' : /\ WasIn(s, last, q) \in InTable /\ WasIn(s, last, q) # s
                            /\ modules'[q] = modules[WasIn(s, last, q)]
    BY GoneTable
  <2>2. PICK q \in InTable : modules'[r] = modules[q]
    BY <2>1
  <2>3. modules[q].users = Cardinality(Holders(got, user, modules[q].name))
    BY <1>2 DEF UsersKept
  <2> QED
    BY <2>2, <2>3
<1>6. /\ user' \in [Users -> {Idle} \cup [at : {"take", "drop"}, slot : Slots']]
      /\ \A u, v \in Users : user'[u].at # "idle" /\ user'[v].at # "idle" => u = v
      /\ \A u \in Users : got'[u] # None =>
            got'[u] \in Used' /\ ReadyIn(modules', registered', got'[u])
  BY <1>2, <1>3 DEF UsersKept
<1> QED
  BY <1>4, <1>5, <1>6 DEF UsersKept

\* What a Ready module depends on is found where it was.
LEMMA GoneDeps ==
  ASSUME ModuleInv, NEW s, NEW last, IsGone(s, last), NEW q \in InTable,
         modules[q].state = "Ready", NEW i \in DOMAIN deps[modules[q].name]
  PROVE  /\ ReadyIn(modules', registered', deps[modules[q].name][i])
         /\ FindIn(modules', registered', deps[modules[q].name][i]) =
                FindIn(modules, registered, deps[modules[q].name][i])
         /\ modules'[FindIn(modules, registered, deps[modules[q].name][i])].base = None
<1>1. PICK n : n = deps[modules[q].name][i]
  OBVIOUS
<1>2. ReadyIn(modules, registered, n)
  BY <1>1 DEF ModuleInv, LinksKept
<1>3. n \in Referred(tree)
  <2>1. n \in Range(deps[modules[q].name]) /\ modules[q].name \in Names
    BY <1>1, Basics DEF Range
  <2> QED
    BY <2>1 DEF Referred, deps
<1>4. /\ ReadyIn(modules', registered', n)
      /\ FindIn(modules', registered', n) = FindIn(modules, registered, n)
      /\ modules'[FindIn(modules, registered, n)].base = None
  BY <1>2, <1>3, GoneReady
<1> QED
  BY <1>1, <1>4

\* Pairs whose first parts are renamed one to one are as many as before.
Renamed(A, B, g) ==
    /\ \A e \in A : \E r \in DOMAIN g : \E i : e = <<r, i>> /\ <<g[r], i>> \in B
    /\ \A e \in B : \E r \in DOMAIN g : \E i : e = <<g[r], i>> /\ <<r, i>> \in A
    /\ \A r, q \in DOMAIN g : g[r] = g[q] => r = q

\* Then there are as many of the ones as of the others.
LEMMA RenamedPairs ==
  ASSUME Counting, NEW A, NEW B, NEW g, IsFiniteSet(B), Renamed(A, B, g)
  PROVE  Cardinality(A) = Cardinality(B)
<1> DEFINE f == [e \in A |-> <<g[e[1]], e[2]>>]
<1> /\ \A e \in A : \E r \in DOMAIN g : \E i : e = <<r, i>> /\ <<g[r], i>> \in B
    /\ \A e \in B : \E r \in DOMAIN g : \E i : e = <<g[r], i>> /\ <<r, i>> \in A
    /\ \A r, q \in DOMAIN g : g[r] = g[q] => r = q
  BY DEF Renamed
<1>1. \A r, i : <<r, i>>[1] = r /\ <<r, i>>[2] = i
  BY SMT
<1>2. ASSUME NEW r, NEW i, <<r, i>> \in A
      PROVE  f[<<r, i>>] = <<g[r], i>>
  <2>1. f[<<r, i>>] = <<g[<<r, i>>[1]], <<r, i>>[2]>>
    BY <1>2
  <2> QED
    BY <1>1, <2>1
<1>3. ASSUME NEW e \in A
      PROVE  \E r \in DOMAIN g : \E i : e = <<r, i>> /\ f[e] = <<g[r], i>> /\ f[e] \in B
  <2>1. PICK r \in DOMAIN g : \E i : e = <<r, i>> /\ <<g[r], i>> \in B
    OBVIOUS
  <2>2. PICK i : e = <<r, i>> /\ <<g[r], i>> \in B
    BY <2>1
  <2>3. f[<<r, i>>] = <<g[r], i>>
    BY <1>2, <2>2
  <2> QED
    BY <2>2, <2>3
<1>4. DOMAIN f = A
  OBVIOUS
<1>5. f \in [A -> B]
  BY <1>3
<1>6. \A e, d \in A : f[e] = f[d] => e = d
  <2> SUFFICES ASSUME NEW e \in A, NEW d \in A, f[e] = f[d]
               PROVE  e = d
    OBVIOUS
  <2>1. PICK r \in DOMAIN g : \E i : e = <<r, i>> /\ f[e] = <<g[r], i>> /\ f[e] \in B
    BY <1>3
  <2>2. PICK i : e = <<r, i>> /\ f[e] = <<g[r], i>>
    BY <2>1
  <2>3. PICK q \in DOMAIN g : \E j : d = <<q, j>> /\ f[d] = <<g[q], j>> /\ f[d] \in B
    BY <1>3
  <2>4. PICK j : d = <<q, j>> /\ f[d] = <<g[q], j>>
    BY <2>3
  <2>5. <<g[r], i>> = <<g[q], j>>
    BY <2>2, <2>4
  <2>6. g[r] = g[q] /\ i = j
    BY <2>5
  <2> QED
    BY <2>2, <2>4, <2>6
<1>7. \A y \in B : \E e \in A : f[e] = y
  <2> SUFFICES ASSUME NEW y \in B
               PROVE  \E e \in A : f[e] = y
    OBVIOUS
  <2>1. PICK r \in DOMAIN g : \E i : y = <<g[r], i>> /\ <<r, i>> \in A
    OBVIOUS
  <2>2. PICK i : y = <<g[r], i>> /\ <<r, i>> \in A
    BY <2>1
  <2> QED
    BY <1>2, <2>2
<1> HIDE DEF f
<1>8. f \in Injection(A, B)
  BY <1>4, <1>5, <1>6 DEF Injection, IsInjective
<1>9. f \in Surjection(A, B)
  BY <1>5, <1>7 DEF Surjection
<1>10. IsFiniteSet(A)
  BY <1>8 DEF Counting, InjectionSize
<1>11. ExistsBijection(A, B)
  BY <1>8, <1>9 DEF ExistsBijection, Bijection
<1> QED
  BY <1>10, <1>11 DEF Counting, BijectionSize

LinkAt(D, ms, reg, t, r, i) ==
    /\ i \in DOMAIN D[ms[r].name] /\ ms[r].state = "Ready"
    /\ FindIn(ms, reg, D[ms[r].name][i]) = t

\* A link from one module by one of its dependencies
LEMMA LinkPair ==
  ASSUME NEW D, NEW ms, NEW reg, NEW t, NEW r \in 0..reg - 1, NEW i
  PROVE  IsLink(D, ms, reg, t, <<r, i>>) <=> LinkAt(D, ms, reg, t, r, i)
<1>1. ASSUME IsLink(D, ms, reg, t, <<r, i>>)
      PROVE  /\ i \in DOMAIN D[ms[r].name] /\ ms[r].state = "Ready"
             /\ FindIn(ms, reg, D[ms[r].name][i]) = t
  <2>1. PICK q \in 0..reg - 1 : \E j \in DOMAIN D[ms[q].name] :
            /\ <<r, i>> = <<q, j>> /\ ms[q].state = "Ready"
            /\ FindIn(ms, reg, D[ms[q].name][j]) = t
    BY <1>1 DEF IsLink
  <2>2. PICK j \in DOMAIN D[ms[q].name] :
            /\ <<r, i>> = <<q, j>> /\ ms[q].state = "Ready"
            /\ FindIn(ms, reg, D[ms[q].name][j]) = t
    BY <2>1
  <2>3. q = r /\ j = i
    BY <2>2
  <2> QED
    BY <2>2, <2>3
<1>2. ASSUME i \in DOMAIN D[ms[r].name], ms[r].state = "Ready",
             FindIn(ms, reg, D[ms[r].name][i]) = t
      PROVE  IsLink(D, ms, reg, t, <<r, i>>)
  BY <1>2 DEF IsLink
<1> QED
  BY <1>1, <1>2 DEF LinkAt

\* The references between modules are as many as before.
LEMMA GoneLinks ==
  ASSUME Counting, ModuleInv, NEW s, NEW last, IsGone(s, last), modules[s].state = "Registered"
  PROVE  LinksKept'
<1>1. /\ tree' = tree /\ ~(s < Len(Builtin)) /\ Referred(tree) \cap Described(tree) = {}
  BY DEF IsGone
<1>2. deps' = deps /\ LinksKept
  BY <1>1, SameTree DEF ModuleInv
<1> DEFINE g == [r \in InTable' |-> WasIn(s, last, r)]
<1>3. /\ \A r \in InTable' : g[r] \in InTable /\ modules'[r] = modules[g[r]]
      /\ \A r, q \in InTable' : g[r] = g[q] => r = q
      /\ \A q \in InTable : q # s => \E r \in InTable' : g[r] = q
      /\ \A r \in InTable' : r # s => g[r] = r
  <2>1. \A r \in InTable' : g[r] = WasIn(s, last, r)
    OBVIOUS
  <2>2. \A r \in InTable' : /\ WasIn(s, last, r) \in InTable /\ WasIn(s, last, r) # s
                             /\ modules'[r] = modules[WasIn(s, last, r)]
    BY GoneTable
  <2>3. \A r, q \in InTable' : WasIn(s, last, r) = WasIn(s, last, q) => r = q
    BY GoneTable
  <2>4. OthersStay(s, last)
    BY GoneTable
  <2>5. \A r : r # s => WasIn(s, last, r) = r
    BY DEF WasIn
  <2> HIDE DEF g
  <2>6. \A r \in InTable' : g[r] \in InTable /\ modules'[r] = modules[g[r]]
    BY <2>1, <2>2
  <2>7. \A r, q \in InTable' : g[r] = g[q] => r = q
    BY <2>1, <2>3
  <2>8. \A q \in InTable : q # s => \E r \in InTable' : g[r] = q
    BY <2>1, <2>4 DEF OthersStay
  <2> QED
    BY <2>1, <2>5, <2>6, <2>7, <2>8
<1>4. DOMAIN g = InTable'
  OBVIOUS
<1> HIDE DEF g
<1>5. ASSUME NEW t, NEW r \in InTable', NEW i
      PROVE  IsLink(deps, modules', registered', t, <<r, i>>) <=>
                IsLink(deps, modules, registered, t, <<g[r], i>>)
  <2>1. PICK q \in InTable : q = g[r] /\ modules'[r] = modules[q]
    BY <1>3
  <2>2. r \in 0..registered' - 1 /\ q \in 0..registered - 1
    BY DEF InTable
  <2>3. IsLink(deps, modules', registered', t, <<r, i>>) <=>
            LinkAt(deps, modules', registered', t, r, i)
    BY <2>2, LinkPair
  <2>4. IsLink(deps, modules, registered, t, <<q, i>>) <=>
            LinkAt(deps, modules, registered, t, q, i)
    BY <2>2, LinkPair
  <2>5. i \in DOMAIN deps[modules[q].name] /\ modules[q].state = "Ready" =>
            FindIn(modules', registered', deps[modules[q].name][i]) =
                FindIn(modules, registered, deps[modules[q].name][i])
    BY GoneDeps
  <2>6. LinkAt(deps, modules', registered', t, r, i) <=> LinkAt(deps, modules, registered, t, q, i)
    BY <2>1, <2>5 DEF LinkAt
  <2> QED
    BY <2>1, <2>3, <2>4, <2>6
<1>6. ASSUME NEW t
      PROVE  Cardinality(LinksTo(deps', modules', registered', t)) =
                Cardinality(LinksTo(deps, modules, registered, t))
  <2>1. ASSUME NEW e \in LinksTo(deps, modules', registered', t)
        PROVE  \E r \in DOMAIN g : \E i : e = <<r, i>> /\ <<g[r], i>> \in LinksTo(deps, modules, registered, t)
    <3>1. IsLink(deps, modules', registered', t, e)
      BY <2>1, LinkIs
    <3>2. PICK r, i : r \in InTable' /\ e = <<r, i>>
      BY <3>1 DEF IsLink, InTable
    <3>3. IsLink(deps, modules, registered, t, <<g[r], i>>)
      BY <1>5, <3>1, <3>2
    <3> QED
      BY <1>4, <3>2, <3>3, LinkIs
  <2>2. ASSUME NEW e \in LinksTo(deps, modules, registered, t)
        PROVE  \E r \in DOMAIN g : \E i : e = <<g[r], i>> /\ <<r, i>> \in LinksTo(deps, modules', registered', t)
    <3>1. IsLink(deps, modules, registered, t, e)
      BY <2>2, LinkIs
    <3>2. PICK q, i : q \in InTable /\ e = <<q, i>> /\ modules[q].state = "Ready"
      BY <3>1 DEF IsLink, InTable
    <3>3. q # s
      BY <3>2
    <3>4. PICK r \in InTable' : g[r] = q
      BY <1>3, <3>2, <3>3
    <3>5. IsLink(deps, modules', registered', t, <<r, i>>)
      BY <1>5, <3>1, <3>2, <3>4
    <3> QED
      BY <1>4, <3>2, <3>4, <3>5, LinkIs
  <2>3. IsFiniteSet(LinksTo(deps, modules, registered, t))
    <3>1. \A r \in 0..registered - 1 : modules[r].name \in Names
      BY Basics DEF InTable
    <3>2. deps \in [Names -> Seq(Names)] /\ registered \in Nat
      BY Basics, TreeFacts
    <3> QED
      BY <3>1, <3>2, LinksFinite
  <2>4. PICK A : A = LinksTo(deps, modules', registered', t)
    OBVIOUS
  <2>5. PICK B : B = LinksTo(deps, modules, registered, t)
    OBVIOUS
  <2>6. Cardinality(A) = Cardinality(B)
    <3>1. \A e \in A : \E r \in DOMAIN g : \E i : e = <<r, i>> /\ <<g[r], i>> \in B
      BY <2>1, <2>4, <2>5
    <3>2. \A e \in B : \E r \in DOMAIN g : \E i : e = <<g[r], i>> /\ <<r, i>> \in A
      <4> SUFFICES ASSUME NEW e \in B
                   PROVE  \E r \in DOMAIN g : \E i : e = <<g[r], i>> /\ <<r, i>> \in A
        OBVIOUS
      <4>1. e \in LinksTo(deps, modules, registered, t)
        BY <2>5
      <4>2. \E r \in DOMAIN g : \E i :
                e = <<g[r], i>> /\ <<r, i>> \in LinksTo(deps, modules', registered', t)
        BY <2>2, <4>1
      <4> QED
        BY <2>4, <4>2
    <3>3. IsFiniteSet(B) /\ \A r, q \in DOMAIN g : g[r] = g[q] => r = q
      BY <1>3, <1>4, <2>3, <2>5
    <3>4. Renamed(A, B, g)
      BY <3>1, <3>2, <3>3 DEF Renamed
    <3> QED
      BY <3>3, <3>4, RenamedPairs
  <2> QED
    BY <1>2, <2>4, <2>5, <2>6
<1>7. \A r \in InTable' :
        modules'[r].dependents = Cardinality(LinksTo(deps', modules', registered', r))
  <2> SUFFICES ASSUME NEW r \in InTable'
               PROVE  modules'[r].dependents = Cardinality(LinksTo(deps, modules, registered, r))
    BY <1>6
  <2>1. CASE r # s
    <3>1. r \in InTable /\ modules'[r] = modules[r]
      BY <1>3, <2>1
    <3> QED
      BY <1>2, <3>1 DEF LinksKept
  <2>2. CASE r = s
    <3>1. modules[s].base # None /\ s \in InTable
      BY DEF IsGone
    <3>2. modules[s].dependents = 0
      BY <1>1, <3>1, Unreferred
    <3>3. Cardinality(LinksTo(deps, modules, registered, s)) = 0
      BY <1>2, <3>1, <3>2 DEF LinksKept
    <3>4. PICK q \in InTable : modules'[s] = modules[q] /\ q = last
      BY <2>2 DEF IsGone
    <3>5. modules[q].base # None
      BY <3>4 DEF IsGone, ModuleInv, TableKept
    <3>6. modules[q].dependents = 0
      BY <1>1, <3>5, Unreferred
    <3> QED
      BY <2>2, <3>3, <3>4, <3>6
  <2> QED
    BY <2>1, <2>2
<1>8. \A r \in InTable' : modules'[r].state = "Ready" =>
        \A i \in DOMAIN deps'[modules'[r].name] :
            ReadyIn(modules', registered', deps'[modules'[r].name][i])
  <2> SUFFICES ASSUME NEW r \in InTable', modules'[r].state = "Ready",
                      NEW i \in DOMAIN deps[modules'[r].name]
               PROVE  ReadyIn(modules', registered', deps[modules'[r].name][i])
    BY <1>2
  <2>1. PICK q \in InTable : modules'[r] = modules[q]
    BY <1>3
  <2>2. modules[q].state = "Ready" /\ i \in DOMAIN deps[modules[q].name]
    BY <2>1
  <2>3. ReadyIn(modules', registered', deps[modules[q].name][i])
    BY <2>2, GoneDeps
  <2> QED
    BY <2>1, <2>3
<1> QED
  BY <1>7, <1>8 DEF LinksKept

\* modules[i] = modules[--registered], and the image is next to go
LEMMA RemoveSlotInd ==
  ASSUME Counting, ModuleInv, tree' = tree, RemoveSlot
  PROVE  ModuleInv' /\ Forward
<1>1. /\ op.at = "remove" /\ modules' = Removed(op.slot) /\ registered' = registered - 1
      /\ op' = [at |-> "release", base |-> modules[op.slot].base]
      /\ mapped' = mapped /\ tables' = tables /\ refused' = refused /\ calls' = calls /\ ret' = ret /\ boot' = boot
      /\ user' = user /\ got' = got /\ panicked' = panicked /\ failures' = failures
  BY DEF RemoveSlot, users, left
<1>2. PICK s : s = op.slot
  OBVIOUS
<1>3. PICK last : IsGone(s, last)
  BY <1>1, <1>2, GoneSlot
<1>4. /\ ModuleGoes /\ calls = <<>> /\ ret = None
  BY <1>1, OpIs
<1>5. /\ s \in InTable /\ modules[s].name \in Unloaded /\ modules[s].base # None
      /\ modules[s].state = "Registered"
  BY <1>1, <1>2, <1>4 DEF ModuleGoes
<1>6. /\ \A r \in InTable' : \E q \in InTable : q # s /\ modules'[r] = modules[q]
      /\ \A q \in InTable : q # s => \E r \in InTable' : modules'[r] = modules[q]
  <2>1. \A r \in InTable' : /\ WasIn(s, last, r) \in InTable /\ WasIn(s, last, r) # s
                             /\ modules'[r] = modules[WasIn(s, last, r)]
    BY <1>3, GoneTable
  <2>2. OthersStay(s, last)
    BY <1>3, GoneTable
  <2>3. \A r \in InTable' : \E q \in InTable : q # s /\ modules'[r] = modules[q]
    BY <2>1
  <2>4. \A q \in InTable : q # s => \E r \in InTable' : modules'[r] = modules[q]
    BY <2>1, <2>2 DEF OthersStay
  <2> QED
    BY <2>3, <2>4
<1>7. TypeOK'
  <2>1. registered' \in 0..max_modules
    <3>1. registered \in Nat /\ registered \in 0..max_modules /\ max_modules \in Nat
      BY Basics, TreeFacts DEF ModuleInv, TypeOK
    <3>2. \A x, m \in Nat : x \in 0..m => \A y \in 0..x - 1 : x - 1 \in 0..m
      BY SMT
    <3> QED
      BY <1>1, <1>5, <3>1, <3>2 DEF InTable
  <2>2. modules' \in [Slots -> Entry]
    BY <1>3 DEF IsGone
  <2> QED
    BY <1>1, <2>1, <2>2, WorkType, WorkTypes
<1>8. TableKept'
  BY <1>3, GoneKept
<1>9. UsersKept'
  BY <1>1, <1>3, GoneUsers
<1>10. LinksKept'
  BY <1>3, <1>5, GoneLinks
<1>11. CallsKept'
  <2>1. \A q \in InTable : modules[q].state # "Loading"
    BY <1>4, NoneLoading
  <2>2. \A r \in InTable' : modules'[r].state # "Loading"
    BY <1>6, <2>1
  <2> QED
    BY <1>1, <1>4, <2>2, QuietCalls
<1>12. PICK b : b = modules[s].base
  OBVIOUS
<1>13. b \in Base /\ b \in mapped
  BY <1>5, <1>12, WorkTypes
<1>14. op' \in [at : {"release"}, base : Base] /\ op'.base = b /\ op'.at = "release"
  <2>1. op' = [at |-> "release", base |-> b]
    BY <1>1, <1>2, <1>12
  <2>2. op'.base = b /\ op'.at = "release"
    BY <2>1
  <2>3. op' \in [at : {"release"}, base : Base]
    BY <1>13, <2>1
  <2> QED
    BY <2>2, <2>3
<1>15. ImageGoes'
  <2>1. ASSUME NEW r \in InTable'
        PROVE  modules'[r].base # b
    <3>1. PICK q \in InTable : q # s /\ modules'[r] = modules[q]
      BY <1>6
    <3>2. modules[s].base # modules[q].base
      BY <1>5, <3>1 DEF ModuleInv, TableKept
    <3> QED
      BY <1>12, <3>1, <3>2
  <2> QED
    BY <1>1, <1>13, <1>14, <2>1 DEF ImageGoes
<1>16. ImagesKept'
  <2>1. op' # Idle /\ op'.at \notin {"exit", "remove"}
    BY <1>14, NoneIsNot
  <2>2. ASSUME NEW a \in mapped, a # b
        PROVE  \E r \in InTable' : modules'[r].base = a
    <3>1. PICK q \in InTable : modules[q].base = a
      BY <1>1 DEF ModuleInv, ImagesKept
    <3>2. q # s
      BY <1>12, <2>2, <3>1
    <3>3. PICK r \in InTable' : modules'[r] = modules[q]
      BY <1>6, <3>2
    <3> QED
      BY <3>1, <3>3
  <2>3. \A i \in DOMAIN tables : tables[i] \in mapped \cup refused
    BY DEF ModuleInv, ImagesKept
  <2> QED
    BY <1>1, <1>14, <2>1, <2>2, <2>3 DEF ImagesKept
<1>17. Forward
  <2>1. \A r \in InTable : r # s => modules'[r] = modules[r]
    BY <1>3 DEF IsGone
  <2> QED
    BY <1>5, <2>1 DEF Forward
<1> QED
  BY <1>7, <1>8, <1>9, <1>10, <1>11, <1>15, <1>16, <1>17 DEF ModuleInv, OpKept

----------------------------------------------------------------------------
(* The theorems                                                             *)

\* The table of the modules linked in
LEMMA FirstTable ==
  ASSUME Init
  PROVE  /\ tree \in Trees /\ registered = Len(Builtin) /\ Builtin \in Seq(Names)
         /\ modules \in [Slots -> Entry] /\ Slots = 0..max_modules - 1 /\ InTable \subseteq Slots
         /\ Len(Builtin) \in Nat /\ max_modules \in Nat /\ Len(Builtin) <= max_modules
         /\ \A s \in Slots : /\ modules[s].state = "Registered" /\ modules[s].base = None
                             /\ modules[s].dependents = 0 /\ modules[s].users = 0
         /\ \A s \in InTable : /\ s + 1 \in DOMAIN Builtin /\ modules[s].name = Builtin[s + 1]
                               /\ modules[s].name \in Names /\ s < Len(Builtin)
<1>1. /\ tree \in Trees /\ registered = Len(Builtin)
      /\ modules = [s \in Slots |->
            IF s < Len(Builtin) THEN [Vacant EXCEPT !.name = Builtin[s + 1]] ELSE Vacant]
  BY DEF Init
<1>2. /\ Builtin \in Seq(Names) /\ Len(Builtin) <= max_modules /\ max_modules \in Nat
      /\ Slots = 0..max_modules - 1
  BY <1>1, TreeFacts DEF Slots
<1>3. PICK n : n = Len(Builtin)
  OBVIOUS
<1>4. n \in Nat /\ n <= max_modules /\ DOMAIN Builtin = 1..n
  BY <1>2, <1>3, SeqLen
<1>5. InTable = 0..n - 1
  BY <1>1, <1>3 DEF InTable
<1>6. /\ InTable \subseteq Slots /\ \A s \in InTable : s + 1 \in 1..n /\ s < n
      /\ \A s \in Slots : s < n => s + 1 \in 1..n
  <2>1. \A x, y \in Nat : x <= y => 0..x - 1 \subseteq 0..y - 1
    BY SMT
  <2>2. \A x, y \in Nat : x <= y => \A z \in 0..x - 1 : z + 1 \in 1..x /\ z < x
    BY SMT
  <2>3. \A x, y \in Nat : x <= y => \A z \in 0..y - 1 : z < x => z + 1 \in 1..x
    BY SMT
  <2>4. InTable \subseteq Slots
    BY <1>2, <1>4, <1>5, <2>1
  <2>5. \A s \in InTable : s + 1 \in 1..n /\ s < n
    BY <1>2, <1>4, <1>5, <2>2
  <2>6. \A s \in Slots : s < n => s + 1 \in 1..n
    BY <1>2, <1>4, <2>3
  <2> QED
    BY <2>4, <2>5, <2>6
<1>7. \A i \in 1..n : Builtin[i] \in Names
  <2>1. \A i \in 1..Len(Builtin) : Builtin[i] \in Names
    BY <1>2, SeqItem
  <2> QED
    BY <1>3, <2>1
<1>8. \A s \in InTable : Builtin[s + 1] \in Names
  BY <1>6, <1>7
<1>9. ASSUME NEW m
      PROVE  /\ [Vacant EXCEPT !.name = m].name = m
             /\ [Vacant EXCEPT !.name = m].state = "Registered"
             /\ [Vacant EXCEPT !.name = m].base = None
             /\ [Vacant EXCEPT !.name = m].dependents = 0
             /\ [Vacant EXCEPT !.name = m].users = 0
             /\ m \in Names => [Vacant EXCEPT !.name = m] \in Entry
  BY SMT DEF Vacant, Entry, ModuleState
<1>10. /\ Vacant \in Entry /\ Vacant.state = "Registered" /\ Vacant.base = None
       /\ Vacant.dependents = 0 /\ Vacant.users = 0
  BY SMT DEF Vacant, Entry, ModuleState
<1>11. ASSUME NEW s \in Slots
       PROVE  /\ modules[s] \in Entry /\ modules[s].state = "Registered" /\ modules[s].base = None
              /\ modules[s].dependents = 0 /\ modules[s].users = 0
  <2>1. CASE s < n
    <3>1. modules[s] = [Vacant EXCEPT !.name = Builtin[s + 1]]
      BY <1>1, <1>3, <2>1
    <3>2. Builtin[s + 1] \in Names
      BY <1>6, <1>7, <2>1
    <3> QED
      BY ZenonT(30), <1>9, <3>1, <3>2
  <2>2. CASE ~(s < n)
    BY <1>1, <1>3, <1>10, <2>2
  <2> QED
    BY <2>1, <2>2
<1>12. modules \in [Slots -> Entry]
  BY <1>1, <1>11
<1>13. \A s \in InTable : modules[s].name = Builtin[s + 1]
  BY <1>1, <1>3, <1>6, <1>9
<1> QED
  BY <1>1, <1>2, <1>3, <1>4, <1>6, <1>8, <1>11, <1>12, <1>13

\* The invariant holds when the kernel starts.
LEMMA ModuleStart ==
  ASSUME Counting, Init, Orderly(tree)
  PROVE  ModuleInv
<1>1. /\ mapped = {} /\ tables = <<>> /\ refused = {} /\ calls = <<>> /\ ret = None /\ boot = 0 /\ op = Idle
      /\ user = [u \in Users |-> Idle] /\ got = [u \in Users |-> None]
      /\ failures = 0 /\ panicked = FALSE
  BY DEF Init
<1>2. /\ tree \in Trees /\ registered = Len(Builtin) /\ Builtin \in Seq(Names)
      /\ modules \in [Slots -> Entry] /\ Slots = 0..max_modules - 1 /\ InTable \subseteq Slots
      /\ Len(Builtin) \in Nat /\ max_modules \in Nat /\ Len(Builtin) <= max_modules
  BY FirstTable
<1>3. \A s \in Slots : /\ modules[s].state = "Registered" /\ modules[s].base = None
                       /\ modules[s].dependents = 0 /\ modules[s].users = 0
  BY FirstTable
<1>4. \A s \in InTable : /\ s + 1 \in DOMAIN Builtin /\ modules[s].name = Builtin[s + 1]
                         /\ modules[s].name \in Names /\ s < Len(Builtin)
  BY FirstTable
<1>5. tables \in Seq(Base) /\ DOMAIN tables = {} /\ Len(tables) = 0
      /\ calls \in Seq([slot : Slots, dep : Nat \ {0}])
  BY SMT, <1>1
<1>6. TypeOK
  <2>1. max_tables \in Nat /\ MaxFailures \in Nat
    BY <1>2, TreeFacts
  <2>2. \A x \in Nat : 0 <= x /\ 0 \in 0..x
    BY SMT
  <2>3. \A x, y \in Nat : x <= y => x \in 0..y
    BY SMT
  <2>4. Len(tables) <= max_tables /\ boot \in 0..Len(Builtin) /\ failures \in 0..MaxFailures
    BY <1>1, <1>2, <1>5, <2>1, <2>2
  <2>5. registered \in 0..max_modules
    BY <1>2, <2>3
  <2>6. got \in [Users -> Names \cup {None}] /\ mapped \subseteq Base /\ refused \subseteq Base
    BY <1>1
  <2> QED
    BY <1>1, <1>2, <1>5, <2>4, <2>5, <2>6 DEF TypeOK, Entry
<1>7. \A s, r \in InTable : modules[s].name = modules[r].name => s = r
  <2> SUFFICES ASSUME NEW s \in InTable, NEW r \in InTable, modules[s].name = modules[r].name
               PROVE  s = r
    OBVIOUS
  <2>1. s + 1 = r + 1
    BY <1>4 DEF Orderly, Builtin
  <2>2. s \in Int /\ r \in Int
    <3>1. \A x, y : x \in 0..y => x \in Int
      BY SMT
    <3> QED
      BY <3>1 DEF InTable
  <2>3. \A x, y \in Int : x + 1 = y + 1 => x = y
    BY SMT
  <2> QED
    BY <2>1, <2>2, <2>3
<1>8. TableKept
  <2>1. Len(Builtin) <= registered
    <3>1. \A x \in Nat : x <= x
      BY SMT
    <3> QED
      BY <1>2, <3>1
  <2>2. \A s \in InTable : modules[s].name \in Range(Builtin)
    BY <1>4 DEF Range
  <2>3. \A s \in InTable : modules[s].base = None
    BY <1>2, <1>3
  <2> QED
    BY <1>2, <1>3, <1>4, <1>7, <2>1, <2>2, <2>3 DEF TableKept
<1>9. CallsKept
  <2>1. DOMAIN calls = {}
    <3>1. DOMAIN << >> = {}
      BY SMT
    <3> QED
      BY <1>1, <3>1
  <2>2. \A s \in InTable : modules[s].state # "Loading"
    BY <1>2, <1>3
  <2> QED
    BY <1>1, <2>1, <2>2 DEF CallsKept
<1>10. OpKept /\ ImagesKept
  BY <1>1, <1>5 DEF OpKept, ImagesKept
<1>11. UsersKept
  <2>1. \A u \in Users : got[u] = None /\ user[u] = Idle /\ user[u].at = "idle"
    BY <1>1, NoneIsNot
  <2>2. user \in [Users -> {Idle} \cup [at : {"take", "drop"}, slot : Slots]]
    BY <1>1
  <2>3. ASSUME NEW s \in InTable
        PROVE  modules[s].users = Cardinality(Holders(got, user, modules[s].name))
    <3>1. modules[s].name # None /\ modules[s].users = 0
      BY <1>2, <1>3, <1>4, NoneIsNoName
    <3>2. Holders(got, user, modules[s].name) = {}
      BY <2>1, <3>1 DEF Holders
    <3> QED
      BY <3>1, <3>2 DEF Counting, EmptySize
  <2> QED
    BY <2>1, <2>2, <2>3 DEF UsersKept
<1>12. LinksKept
  <2>1. \A s \in InTable : modules[s].state # "Ready" /\ modules[s].dependents = 0
    BY <1>2, <1>3
  <2>2. ASSUME NEW s
        PROVE  Cardinality(LinksTo(deps, modules, registered, s)) = 0
    <3>1. \A e : ~IsLink(deps, modules, registered, s, e)
      BY <2>1 DEF IsLink, InTable
    <3>2. LinksTo(deps, modules, registered, s) = {}
      BY <3>1, LinkIs
    <3> QED
      BY <3>2 DEF Counting, EmptySize
  <2> QED
    BY <2>1, <2>2 DEF LinksKept
<1> QED
  BY <1>6, <1>8, <1>9, <1>10, <1>11, <1>12 DEF ModuleInv

\* A step that leaves the modules alone
LEMMA NoneMoves ==
  ASSUME modules' = modules
  PROVE  Forward
BY DEF Forward

\* A step that changes nothing of the modules, as the one into panic()
LEMMA Unmoved ==
  ASSUME ModuleInv, tree' = tree, modules' = modules, registered' = registered, mapped' = mapped,
         tables' = tables, refused' = refused, calls' = calls, ret' = ret, boot' = boot, op' = op,
         user' = user, got' = got, failures' = failures, panicked' \in BOOLEAN
  PROVE  ModuleInv' /\ Forward
<1>1. /\ deps' = deps /\ Builtin' = Builtin /\ Descriptors' = Descriptors /\ Files' = Files
      /\ Exporting' = Exporting /\ Used' = Used /\ Unloaded' = Unloaded
      /\ MaxFailures' = MaxFailures /\ max_modules' = max_modules
      /\ max_tables' = max_tables /\ Slots' = Slots /\ Described(tree)' = Described(tree)
      /\ Orderly(tree)' = Orderly(tree) /\ InTable' = InTable
  BY SameTree DEF InTable
<1>2. TypeOK'
  BY <1>1 DEF TypeOK, ModuleInv
<1>3. TableKept'
  <2>1. SameTable
    BY Basics DEF SameTable
  <2> QED
    BY <2>1, TableStays, WorkTypes
<1>4. ImagesKept'
  BY <1>1 DEF ImagesKept, ModuleInv
<1>5. CallsKept'
  BY <1>1 DEF CallsKept, Top, ModuleInv
<1>6. OpKept'
  <2>1. ImageInHand => ImageInHand'
    BY <1>1 DEF ImageInHand
  <2>2. ModuleGoes => ModuleGoes'
    BY <1>1 DEF ModuleGoes
  <2>3. ImageGoes => ImageGoes'
    BY <1>1 DEF ImageGoes
  <2> QED
    BY <2>1, <2>2, <2>3 DEF OpKept, ModuleInv
<1>7. UsersKept' /\ LinksKept'
  BY <1>1 DEF UsersKept, LinksKept, ModuleInv
<1> QED
  BY <1>2, <1>3, <1>4, <1>5, <1>6, <1>7, NoneMoves DEF ModuleInv

\* What ends in panic() is a lookup in the symbols of an image that was refused.
Quiet == panicked' = panicked \/ LookupFaults

\* The steps of kernel_init()
LEMMA LoaderKept ==
  ASSUME Counting, ModuleInv, tree' = tree, Loader
  PROVE  ModuleInv' /\ Forward /\ Quiet
<1>1. CASE Dependency
  BY <1>1, DependencyInd DEF Dependency, users, Quiet
<1>2. CASE Returned
  BY <1>2, ReturnedInd DEF Returned, users, Quiet
<1>3. CASE InitSucceeds
  BY <1>3, InitSucceedsInd DEF InitSucceeds, users, Quiet
<1>4. CASE InitFails
  BY <1>4, InitFailsInd DEF InitFails, users, Quiet
<1>5. CASE LoadBuiltin
  BY <1>5, LoadBuiltinInd DEF LoadBuiltin, users, Quiet
<1>6. CASE RelocationFails
  BY <1>6, RelocationFailsInd, NoneMoves DEF RelocationFails, users, Quiet
<1>7. CASE Relocate
  BY <1>7, RelocateInd, NoneMoves DEF Relocate, users, Quiet
<1>8. CASE RegisterLoaded
  BY <1>8, RegisterLoadedInd DEF RegisterLoaded, users, Quiet
<1>9. CASE ImageLoaded
  BY <1>9, ImageLoadedInd, NoneMoves DEF ImageLoaded, users, Quiet
<1>10. CASE Exit
  BY <1>10, ExitInd DEF Quiet
<1>11. CASE RemoveSlot
  BY <1>11, RemoveSlotInd DEF RemoveSlot, users, Quiet
<1>12. CASE Release
  BY <1>12, ReleaseInd, NoneMoves DEF Release, users, Quiet
<1>13. CASE LookupFaults
  <2>1. /\ modules' = modules /\ registered' = registered /\ mapped' = mapped /\ tables' = tables
        /\ refused' = refused /\ calls' = calls /\ ret' = ret /\ boot' = boot /\ op' = op
        /\ user' = user /\ got' = got /\ failures' = failures /\ panicked' \in BOOLEAN
    BY <1>13 DEF LookupFaults, left
  <2> QED
    BY <1>13, <2>1, Unmoved DEF Quiet
<1> QED
  BY <1>1, <1>2, <1>3, <1>4, <1>5, <1>6, <1>7, <1>8, <1>9, <1>10, <1>11, <1>12, <1>13 DEF Loader

\* The steps of the users
LEMMA UserKept ==
  ASSUME Counting, ModuleInv, tree' = tree, NEW u \in Users,
         (\E n \in Used : Get(u, n)) \/ Put(u) \/ Count(u)
  PROVE  ModuleInv' /\ Forward /\ Quiet
<1>1. ASSUME NEW n \in Used, Get(u, n)
      PROVE  ModuleInv' /\ Forward /\ Quiet
  BY <1>1, GetInd, NoneMoves DEF Get, Quiet
<1>2. CASE Put(u)
  BY <1>2, PutInd, NoneMoves DEF Put, Quiet
<1>3. CASE Count(u)
  BY <1>3, CountInd DEF Count, Quiet
<1> QED
  BY <1>1, <1>2, <1>3

\* Every step keeps the invariant and goes forward.
LEMMA ModuleStep ==
  ASSUME Counting, ModuleInv, [Next]_vars
  PROVE  ModuleInv' /\ Forward /\ ((~panicked /\ Quiet) \/ UNCHANGED vars)
<1>1. CASE UNCHANGED vars
  <2>1. /\ tree' = tree /\ modules' = modules /\ registered' = registered /\ mapped' = mapped
        /\ tables' = tables /\ refused' = refused /\ calls' = calls /\ ret' = ret /\ boot' = boot
        /\ op' = op /\ user' = user /\ got' = got /\ failures' = failures /\ panicked' = panicked
    BY <1>1 DEF vars
  <2>2. panicked \in BOOLEAN
    BY DEF ModuleInv, TypeOK
  <2> QED
    BY <1>1, <2>1, <2>2, Unmoved
<1>2. CASE ~panicked /\ tree' = tree /\ Step
  <2> SUFFICES ModuleInv' /\ Forward /\ Quiet
    BY <1>2
  <2>1. tree' = tree
    BY <1>2
  <2>2. CASE Loader
    BY <2>1, <2>2, LoaderKept
  <2>3. ASSUME NEW n \in Names, Load(n)
        PROVE  ModuleInv' /\ Forward /\ Quiet
    BY <2>1, <2>3, LoadInd DEF Load, users, Quiet
  <2>4. ASSUME NEW n \in Unloaded, Unload(n)
        PROVE  ModuleInv' /\ Forward /\ Quiet
    BY <2>1, <2>4, UnloadInd, NoneMoves DEF Unload, users, Quiet
  <2>5. ASSUME NEW f \in Files, NEW b \in Base, LoadImage(f, b)
        PROVE  ModuleInv' /\ Forward /\ Quiet
    BY <2>1, <2>5, LoadImageInd, NoneMoves DEF LoadImage, users, Quiet
  <2>6. CASE AllocationFails
    BY <2>1, <2>6, AllocationFailsInd, NoneMoves DEF AllocationFails, users, Quiet
  <2>7. ASSUME NEW u \in Users, (\E n \in Used : Get(u, n)) \/ Put(u) \/ Count(u)
        PROVE  ModuleInv' /\ Forward /\ Quiet
    BY <2>1, <2>7, UserKept
  <2> QED
    BY <1>2, <2>2, <2>3, <2>4, <2>5, <2>6, <2>7 DEF Step
<1> QED
  BY <1>1, <1>2 DEF Next, Halted

\* The kernel stops at a lookup in symbols that a refused image left, or goes on.
LEMMA PanicKept ==
  ASSUME ModuleInv, NeverPanics, (~panicked /\ Quiet) \/ UNCHANGED vars
  PROVE  NeverPanics'
<1>1. CASE UNCHANGED vars
  BY <1>1 DEF vars, NeverPanics
<1>2. CASE ~panicked /\ panicked' = panicked
  BY <1>2 DEF NeverPanics
<1>3. CASE LookupFaults
  <2>1. op' = op /\ refused' = refused /\ op.at = "relocate"
    BY <1>3 DEF LookupFaults, left
  <2>2. PICK i \in DOMAIN tables : tables[i] \notin mapped
    BY <1>3 DEF LookupFaults
  <2>3. tables[i] \in mapped \cup refused
    BY DEF ModuleInv, ImagesKept
  <2> QED
    BY <2>1, <2>2, <2>3 DEF NeverPanics
<1> QED
  BY <1>1, <1>2, <1>3 DEF Quiet

----------------------------------------------------------------------------
(* The pages that allocations leave behind                                  *)

\* Every window given back with pages in it is a load that failed.
Stranded == failures \in Nat /\ stranded \in Nat /\ stranded <= failures

\* A step leaves the counts alone, counts a failure, or both
LEMMA StrandedStep ==
  ASSUME Stranded, [Next]_vars
  PROVE  Stranded'
<1>1. \/ stranded' = stranded /\ failures' = failures
      \/ stranded' = stranded /\ failures' = failures + 1
      \/ stranded' = stranded + 1 /\ failures' = failures + 1
  <2>1. CASE UNCHANGED vars
    BY <2>1 DEF vars
  <2>2. CASE Loader
    <3>1. CASE Dependency \/ Returned \/ InitSucceeds \/ InitFails \/ LoadBuiltin
      BY <3>1 DEF Dependency, Returned, InitSucceeds, InitFails, LoadBuiltin, loading, left
    <3>2. CASE RelocationFails \/ LookupFaults \/ Relocate \/ RegisterLoaded \/ ImageLoaded
      BY <3>2 DEF RelocationFails, LookupFaults, Relocate, RegisterLoaded, ImageLoaded, left
    <3>3. CASE Exit \/ RemoveSlot \/ Release
      BY <3>3 DEF Exit, RemoveSlot, Release, left
    <3> QED
      BY <2>2, <3>1, <3>2, <3>3 DEF Loader
  <2>3. CASE \E n \in Names : Load(n)
    BY <2>3 DEF Load, loading, left
  <2>4. CASE \E n \in Unloaded : Unload(n)
    BY <2>4 DEF Unload, left
  <2>5. CASE AllocationFails
    BY <2>5 DEF AllocationFails
  <2>6. CASE \E f \in Files, b \in Base : LoadImage(f, b)
    BY <2>6 DEF LoadImage, left
  <2>7. CASE \E u \in Users : (\E n \in Used : Get(u, n)) \/ Put(u) \/ Count(u)
    BY <2>7 DEF Get, Put, Count, system, left
  <2> QED
    BY <2>1, <2>2, <2>3, <2>4, <2>5, <2>6, <2>7 DEF Next, Step, Halted
<1> QED
  BY SMT, <1>1 DEF Stranded

\* What the invariant says of the references
LEMMA ReferencesFollow ==
  ASSUME ModuleInv
  PROVE  ReferencesExact
<1>1. \A n : find(n) = FindIn(modules, registered, n)
  BY Basics
<1>2. LinksKept /\ UsersKept
  BY DEF ModuleInv
<1>3. DependentsExact
  <2>1. ASSUME NEW s
        PROVE  DependentsOf(s) = Cardinality(LinksTo(deps, modules, registered, s))
    <3>1. \A e : find(deps[modules[e[1]].name][e[2]]) =
                    FindIn(modules, registered, deps[modules[e[1]].name][e[2]])
      BY <1>1
    <3>2. {e \in Pairs(deps, modules, registered) :
                /\ modules[e[1]].state = "Ready"
                /\ find(deps[modules[e[1]].name][e[2]]) = s} = LinksTo(deps, modules, registered, s)
      BY <3>1 DEF LinksTo
    <3> QED
      BY <3>2 DEF DependentsOf, Pairs, InTable
  <2> QED
    BY <1>2, <2>1 DEF DependentsExact, LinksKept
<1>4. DependenciesReady
  <2> SUFFICES ASSUME NEW s \in InTable, modules[s].state = "Ready",
                      NEW i \in DOMAIN deps[modules[s].name]
               PROVE  /\ find(deps[modules[s].name][i]) # nullptr
                      /\ modules[find(deps[modules[s].name][i])].state = "Ready"
    BY DEF DependenciesReady
  <2>1. ReadyIn(modules, registered, deps[modules[s].name][i])
    BY <1>2 DEF LinksKept
  <2> QED
    BY <1>1, <2>1 DEF ReadyIn
<1>5. UsersExact
  <2> SUFFICES ASSUME NEW u \in Users, got[u] # None
               PROVE  /\ find(got[u]) # nullptr /\ modules[find(got[u])].state = "Ready"
                      /\ modules[find(got[u])].users =
                            Cardinality({v \in Users : got[v] = got[u] /\ user[v].at # "take"})
    BY DEF UsersExact
  <2>1. PICK d, n : n = got[u] /\ d = FindIn(modules, registered, n)
    OBVIOUS
  <2>2. d # nullptr /\ modules[d].state = "Ready"
    BY <1>2, <2>1 DEF UsersKept, ReadyIn
  <2>3. d \in InTable /\ modules[d].name = n
    BY <2>1, <2>2, FoundAt
  <2>4. modules[d].users = Cardinality(Holders(got, user, n))
    BY <1>2, <2>3 DEF UsersKept
  <2>5. Holders(got, user, n) = {v \in Users : got[v] = got[u] /\ user[v].at # "take"}
    BY <2>1 DEF Holders
  <2> QED
    BY <1>1, <2>1, <2>2, <2>4, <2>5
<1> QED
  BY <1>3, <1>4, <1>5 DEF ReferencesExact

\* What the invariant says of the images
LEMMA NothingDanglesFollows ==
  ASSUME ModuleInv, NeverPanics, Stranded
  PROVE  NothingDangles
<1>1. TypeOK
  BY DEF ModuleInv
<1>2. TableIsSound
  BY DEF ModuleInv, TableKept, TableIsSound
<1>3. stranded \in 0..failures
  BY SMT DEF Stranded
<1>4. TablesMapped /\ NoImageLeaked
  BY <1>3 DEF ModuleInv, ImagesKept, TablesMapped, NoImageLeaked
<1> QED
  BY <1>1, <1>2, <1>4 DEF NothingDangles

\* What a step forward says of the states
LEMMA ForwardFollows ==
  ASSUME ModuleInv, Forward
  PROVE  \A s \in InTable :
            /\ modules[s].state = "Loading" /\ modules'[s].state = "Ready" =>
                   \A i \in DOMAIN deps[modules[s].name] :
                       modules[find(deps[modules[s].name][i])].state = "Ready"
            /\ modules[s].state = "Failed" => modules'[s].state = "Failed"
               \/ modules'[s].name # modules[s].name
<1>1. \A n : find(n) = FindIn(modules, registered, n)
  BY Basics
<1>2. \A n : ReadyIn(modules, registered, n) => modules[find(n)].state = "Ready"
  BY <1>1 DEF ReadyIn
<1> QED
  BY <1>2 DEF Forward

INSTANCE FiniteSetTheorems

\* The facts about finite sets that the counts of references rest on.
LEMMA CountingHolds == Counting
<1>1. EmptySize /\ SingleSize
  BY FS_EmptySet, FS_Singleton DEF EmptySize, SingleSize
<1>2. SizeIsNat
  BY FS_CardinalityType DEF SizeIsNat
<1>3. PartSize
  BY FS_Subset DEF PartSize
<1>4. RangeSize
  BY FS_Interval DEF RangeSize
<1>5. ProductSize
  BY FS_Product DEF ProductSize
<1>6. ImageFinite
  BY FS_Surjection DEF ImageFinite
<1>7. UnionFinite
  BY FS_UNION DEF UnionFinite
<1>8. JoinSize
  BY FS_Union DEF JoinSize
<1>9. OneInSize
  BY FS_AddElement DEF OneInSize
<1>10. OneOutSize
  BY FS_RemoveElement DEF OneOutSize
<1>11. InjectionSize
  BY FS_Injection DEF InjectionSize
<1>12. BijectionSize
  BY FS_Bijection DEF BijectionSize
<1> QED
  BY <1>1, <1>2, <1>3, <1>4, <1>5, <1>6, <1>7, <1>8, <1>9, <1>10, <1>11, <1>12 DEF Counting

\* The invariant of the table of modules and the stack of load_locked(), for the trees
\* that the table serves.
THEOREM ModuleInvHolds == Spec /\ Orderly(tree) => [](ModuleInv /\ NeverPanics)
<1>1. Init /\ Orderly(tree) => ModuleInv /\ NeverPanics
  BY CountingHolds, ModuleStart DEF Init, NeverPanics
<1>2. ModuleInv /\ NeverPanics /\ [Next]_vars => (ModuleInv /\ NeverPanics)'
  BY CountingHolds, ModuleStep, PanicKept
<1> QED
  BY <1>1, <1>2, PTL DEF Spec

\* Whatever module_load(), module_unload(), module_get() and module_put() do, the counts
\* that keep a module in place are what the table and the callers say, and
\* what a Ready module depends on is Ready: for any set of modules in order, any number
\* of users and images.
THEOREM ModulesAreReferenced == Spec /\ Orderly(tree) => []ReferencesExact
<1>1. ModuleInv => ReferencesExact
  BY ReferencesFollow
<1> QED
  BY <1>1, ModuleInvHolds, PTL

\* Whatever is loaded, refused and unloaded, and wherever memory runs out, no entry points
\* at an image that is gone, and no whole image stays that no module needs; the symbol
\* tables without an image are those of refused images, a lookup in them is the only way
\* into panic(), and pages are kept by allocations that fail halfway and by nothing else.
THEOREM ModulesDoNotDangle == Spec /\ Orderly(tree) => []NothingDangles
<1>1. Init => Stranded
  <2>1. 0 \in Nat /\ 0 <= 0
    BY SMT
  <2> QED
    BY <2>1 DEF Init, Stranded
<1>2. Stranded /\ [Next]_vars => Stranded'
  BY StrandedStep
<1>3. ModuleInv /\ NeverPanics /\ Stranded => NothingDangles
  BY NothingDanglesFollows
<1> QED
  BY <1>1, <1>2, <1>3, ModuleInvHolds, PTL DEF Spec

\* load_locked() runs the init() of a module when its dependencies are Ready, and a
\* failure is final.
THEOREM ModulesInitInOrder == Spec /\ Orderly(tree) => InitAfterDependencies
<1>1. ModuleInv /\ [Next]_vars =>
        [\A s \in InTable :
            /\ modules[s].state = "Loading" /\ modules'[s].state = "Ready" =>
                   \A i \in DOMAIN deps[modules[s].name] :
                       modules[find(deps[modules[s].name][i])].state = "Ready"
            /\ modules[s].state = "Failed" => modules'[s].state = "Failed"
               \/ modules'[s].name # modules[s].name]_vars
  BY CountingHolds, ModuleStep, ForwardFollows
<1> QED
  BY <1>1, ModuleInvHolds, PTL DEF Spec, InitAfterDependencies

=============================================================================
