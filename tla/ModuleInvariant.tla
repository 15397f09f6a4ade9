-------------------------- MODULE ModuleInvariant ---------------------------
(***************************************************************************)
(* The invariant of the module table, for any tree of modules that one     *)
(* module_load() can put in order, and what the steps of the loader, of the*)
(* users and of the images do to it.  load_locked() is a stack of calls:   *)
(* the invariant says of each call which module it is for, which of its    *)
(* dependencies are Ready, and that the module is held by exactly the      *)
(* references counted so far; module_get() and module_put() find a module  *)
(* and count it in two steps, and the lock between them is what makes the  *)
(* count exact.                                                            *)
(***************************************************************************)
EXTENDS ModuleTable, TLAPS

\* A leaf of a proof is a call of Zenon unless it names another prover.
USE Zenon

\* What the table holds: the modules linked in, in their order, then those of images
\* that are mapped, each name once, and behind them slots without references.
TableKept ==
    /\ tree \in Trees /\ Orderly(tree)
    /\ Len(Builtin) <= registered
    /\ \A s \in InTable : modules[s].name \in Range(Builtin) \cup Described(tree)
    /\ \A s \in InTable : modules[s].base = None <=> s < Len(Builtin)
    /\ \A s \in InTable : modules[s].base # None =>
            modules[s].base \in mapped /\ modules[s].name \in Described(tree)
    /\ \A s, r \in InTable : modules[s].name = modules[r].name => s = r
    /\ \A s, r \in InTable :
            /\ modules[s].base # None /\ modules[s].base = modules[r].base
            /\ modules[s].name \in Unloaded
            => s = r
    /\ \A s \in Slots : s >= registered => modules[s].dependents = 0 /\ modules[s].users = 0

\* find() in any table
Least(S) == IF S = {} THEN nullptr ELSE CHOOSE s \in S : \A r \in S : s <= r
Named(ms, reg, n) == {s \in 0..reg - 1 : ms[s].name = n}
FindIn(ms, reg, n) == Least(Named(ms, reg, n))

\* The module of that name is in the table and Ready
ReadyIn(ms, reg, n) ==
    FindIn(ms, reg, n) # nullptr /\ ms[FindIn(ms, reg, n)].state = "Ready"

\* A call of load_locked() that is with its dependency c.dep, those before it Ready
CallKept(D, ms, reg, c) ==
    /\ c.slot \in 0..reg - 1 /\ ms[c.slot].state = "Loading"
    /\ c.dep <= Len(D[ms[c.slot].name]) + 1
    /\ \A i \in 1..c.dep - 1 : ReadyIn(ms, reg, D[ms[c.slot].name][i])

\* It waits for the module in slot s
WaitsFor(D, ms, reg, c, s) ==
    /\ c.dep <= Len(D[ms[c.slot].name])
    /\ s = FindIn(ms, reg, D[ms[c.slot].name][c.dep])

\* What the call that just returned to c gave is true
Answered(D, ms, reg, c, r) ==
    /\ r # None => c.dep <= Len(D[ms[c.slot].name])
    /\ r = "ok" => ReadyIn(ms, reg, D[ms[c.slot].name][c.dep])

\* Where load_locked() is: each call waits for the dependency that the next one loads.
CallsKept ==
    /\ calls # <<>> => op = Idle
    /\ calls = <<>> => ret = None
    /\ \A k \in DOMAIN calls : CallKept(deps, modules, registered, calls[k])
    /\ \A k, l \in DOMAIN calls : calls[k].slot = calls[l].slot => k = l
    /\ \A k \in DOMAIN calls : k < Len(calls) =>
            WaitsFor(deps, modules, registered, calls[k], calls[k + 1].slot)
    /\ \A s \in InTable : modules[s].state = "Loading" =>
            \E k \in DOMAIN calls : calls[k].slot = s
    /\ calls # <<>> => Answered(deps, modules, registered, Top, ret)

\* The loader has an image in hand, whose modules it registers one after the other.
ImageInHand ==
    /\ op \in [at : {"relocate", "register"}, file : Files, base : Base,
               entry : Nat \ {0}, count : Nat]
    /\ op.base \in mapped
    /\ \A s \in InTable : modules[s].base = op.base =>
           modules[s].name \in Range(Descriptors[op.file])
    /\ \/ op.at = "register" /\ op.file \in Exporting
       \/ op.base \in refused \/ \A i \in DOMAIN tables : tables[i] # op.base
    /\ op.at = "relocate" => op.count = 0 /\ op.entry = 1
    /\ op.count > 0 <=> \E s \in InTable : modules[s].base = op.base

\* It unloads a module that nothing refers to.
ModuleGoes ==
    /\ op \in [at : {"exit", "remove"}, slot : Slots]
    /\ op.slot \in InTable /\ modules[op.slot].name \in Unloaded
    /\ modules[op.slot].dependents = 0
    /\ op.at = "exit" => modules[op.slot].state = "Ready"
    /\ op.at = "remove" => modules[op.slot].state = "Registered" /\ modules[op.slot].base # None

\* The module is gone and its image is to go.
ImageGoes ==
    /\ op \in [at : {"release"}, base : Base]
    /\ op.base \in mapped
    /\ \A s \in InTable : modules[s].base # op.base

OpKept == op = Idle \/ ImageInHand \/ ModuleGoes \/ ImageGoes

\* An image stays for a module of the table or for the work in hand
ImagesKept ==
    /\ \A i \in DOMAIN tables : tables[i] \in mapped \cup refused
    /\ \A b \in mapped :
          \/ \E s \in InTable : modules[s].base = b
          \/ op # Idle /\ op.at \notin {"exit", "remove"} /\ op.base = b

\* The users that hold a module, by what they have and what they do
Holders(g, us, n) == {v \in Users : g[v] = n /\ us[v].at # "take"}

\* One user at most is between its look at the table and its step on the count; the
\* module it looks for is in place and counts the users that hold it.
UsersKept ==
    /\ user \in [Users -> {Idle} \cup [at : {"take", "drop"}, slot : Slots]]
    /\ \A u, v \in Users : user[u].at # "idle" /\ user[v].at # "idle" => u = v
    /\ \A u \in Users : got[u] # None =>
        got[u] \in Used /\ ReadyIn(modules, registered, got[u])
    /\ \A u \in Users : user[u].at # "idle" =>
        got[u] # None /\ user[u].slot = FindIn(modules, registered, got[u])
    /\ \A s \in InTable : modules[s].users = Cardinality(Holders(got, user, modules[s].name))

\* Pairs of a module in the table and the place of one of its dependencies, for the
\* modules that are Ready and the dependencies that slot s holds
Pairs(D, ms, reg) == UNION {{r} \X DOMAIN D[ms[r].name] : r \in 0..reg - 1}
LinksTo(D, ms, reg, s) ==
    {e \in Pairs(D, ms, reg) : /\ ms[e[1]].state = "Ready"
                            /\ FindIn(ms, reg, D[ms[e[1]].name][e[2]]) = s}

\* The references between modules: as many as there are links, and none to a module
\* that is not Ready
LinksKept ==
    /\ \A s \in InTable : modules[s].dependents = Cardinality(LinksTo(deps, modules, registered, s))
    /\ \A s \in InTable : modules[s].state = "Ready" =>
        \A i \in DOMAIN deps[modules[s].name] :
            ReadyIn(modules, registered, deps[modules[s].name][i])

ModuleInv ==
    /\ TypeOK
    /\ TableKept /\ CallsKept /\ OpKept /\ ImagesKept /\ UsersKept /\ LinksKept

----------------------------------------------------------------------------
\* The tables that the loader may find, and their trees
Entry == [name : Names \cup {None}, state : ModuleState, dependents : Nat, users : Nat,
          base : Base \cup {None}]

\* Each name of the first reg slots is there once.
Once(ms, reg) == \A s, r \in 0..reg - 1 : ms[s].name = ms[r].name => s = r

----------------------------------------------------------------------------
(* Sequences and finite sets                                                *)

\* What is used of finite sets; ModuleProofs proves it.
EmptySize == Cardinality({}) = 0 /\ \A S : IsFiniteSet(S) => (Cardinality(S) = 0 <=> S = {})
SingleSize == \A x : IsFiniteSet({x}) /\ Cardinality({x}) = 1
SizeIsNat == \A S : IsFiniteSet(S) => Cardinality(S) \in Nat
PartSize == \A S : IsFiniteSet(S) =>
    \A T \in SUBSET S : IsFiniteSet(T) /\ Cardinality(T) <= Cardinality(S)
RangeSize == \A a, b \in Int :
    IsFiniteSet(a..b) /\ Cardinality(a..b) = IF a > b THEN 0 ELSE b - a + 1
ProductSize == \A S, T : IsFiniteSet(S) /\ IsFiniteSet(T) =>
    IsFiniteSet(S \X T) /\ Cardinality(S \X T) = Cardinality(S) * Cardinality(T)
ImageFinite == \A S, T : \A f \in Surjection(S, T) : IsFiniteSet(S) => IsFiniteSet(T)
UnionFinite == \A S : IsFiniteSet(S) /\ (\A T \in S : IsFiniteSet(T)) => IsFiniteSet(UNION S)
JoinSize == \A S, T : IsFiniteSet(S) /\ IsFiniteSet(T) =>
    Cardinality(S \cup T) = Cardinality(S) + Cardinality(T) - Cardinality(S \cap T)
OneInSize == \A S, x : IsFiniteSet(S) =>
    Cardinality(S \cup {x}) = IF x \in S THEN Cardinality(S) ELSE Cardinality(S) + 1
OneOutSize == \A S, x : IsFiniteSet(S) =>
    /\ IsFiniteSet(S \ {x})
    /\ Cardinality(S \ {x}) = IF x \in S THEN Cardinality(S) - 1 ELSE Cardinality(S)
InjectionSize == \A S, T : \A f \in Injection(S, T) : IsFiniteSet(T) =>
    IsFiniteSet(S) /\ Cardinality(S) <= Cardinality(T)
BijectionSize == \A S, T : IsFiniteSet(S) /\ ExistsBijection(S, T) =>
    Cardinality(T) = Cardinality(S)

Counting ==
    /\ EmptySize /\ SingleSize /\ SizeIsNat /\ PartSize /\ RangeSize /\ ProductSize
    /\ ImageFinite /\ UnionFinite /\ JoinSize /\ OneInSize /\ OneOutSize
    /\ InjectionSize /\ BijectionSize

\* A sequence has a length and its places.
LEMMA SeqLen ==
  ASSUME NEW S, NEW q \in Seq(S)
  PROVE  Len(q) \in Nat /\ DOMAIN q = 1..Len(q)
BY SMT

\* What is at a place of a sequence.
LEMMA SeqItem ==
  ASSUME NEW S, NEW q \in Seq(S), NEW n \in 1..Len(q)
  PROVE  q[n] \in S
BY SMT

\* The empty sequence is the one without places.
LEMMA SeqEmpty ==
  /\ Len(<<>>) = 0
  /\ \A S : \A q \in Seq(S) : q # <<>> => Len(q) \in Nat \ {0}
BY SMT

\* What the constants say of a tree.
LEMMA TreeFacts ==
  ASSUME tree \in Trees
  PROVE  /\ max_modules \in Nat /\ max_tables \in Nat /\ MaxFailures \in Nat
         /\ deps \in [Names -> Seq(Names)] /\ Builtin \in Seq(Names)
         /\ Len(Builtin) <= max_modules
         /\ \A f \in Files : Descriptors[f] \in Seq(Names)
         /\ Exporting \subseteq Files /\ Repeated \subseteq Files /\ Stale \subseteq Files
         /\ Used \subseteq Names /\ Unloaded \subseteq Names
BY ModulesAssumption
   DEF max_modules, max_tables, MaxFailures, deps, Builtin, Descriptors, Files, Exporting,
       Repeated, Stale, Used, Unloaded

\* No name is None.
LEMMA NoneIsNoName == None \notin Names /\ None \notin Base
BY ModulesAssumption

\* Nor is it an answer of load_locked().
LEMMA NoneIsNot == None # "ok" /\ None # "fail" /\ Idle.at = "idle"
BY SMT DEF None, Idle

\* find() finds the one slot of a name.
LEMMA FindOne ==
  ASSUME NEW ms, NEW reg \in Nat, Once(ms, reg), NEW s \in 0..reg - 1
  PROVE  FindIn(ms, reg, ms[s].name) = s
<1> DEFINE S == Named(ms, reg, ms[s].name)
<1>1. S = {s}
  BY DEF Once, Named
<1>2. s <= s
  BY SMT
<1>3. (CHOOSE q \in S : \A r \in S : q <= r) = s
  BY <1>1, <1>2
<1> QED
  BY <1>1, <1>3 DEF FindIn, Least

\* What find() returns has the name, and nullptr means that nothing has.
LEMMA FindSome ==
  ASSUME NEW ms, NEW reg \in Nat, Once(ms, reg), NEW n
  PROVE  /\ FindIn(ms, reg, n) # nullptr =>
                FindIn(ms, reg, n) \in 0..reg - 1 /\ ms[FindIn(ms, reg, n)].name = n
         /\ FindIn(ms, reg, n) = nullptr => \A s \in 0..reg - 1 : ms[s].name # n
<1>1. CASE \E s \in 0..reg - 1 : ms[s].name = n
  <2> PICK s \in 0..reg - 1 : ms[s].name = n
    BY <1>1
  <2>1. FindIn(ms, reg, n) = s
    BY FindOne
  <2>2. s # nullptr
    BY SMT DEF nullptr
  <2> QED
    BY <2>1, <2>2
<1>2. CASE ~\E s \in 0..reg - 1 : ms[s].name = n
  <2>1. Named(ms, reg, n) = {}
    BY <1>2 DEF Named
  <2>2. FindIn(ms, reg, n) = nullptr
    BY <2>1 DEF FindIn, Least
  <2> QED
    BY <1>2, <2>2
<1> QED
  BY <1>1, <1>2

----------------------------------------------------------------------------
(* Counting references                                                      *)

IsLink(D, ms, reg, s, e) ==
    \E r \in 0..reg - 1 : \E i \in DOMAIN D[ms[r].name] :
        /\ e = <<r, i>> /\ ms[r].state = "Ready"
        /\ FindIn(ms, reg, D[ms[r].name][i]) = s

\* A link names its module and the place in the list.
LEMMA LinkIs ==
  ASSUME NEW D, NEW ms, NEW reg, NEW s, NEW e
  PROVE  e \in LinksTo(D, ms, reg, s) <=> IsLink(D, ms, reg, s, e)
<1>1. e \in Pairs(D, ms, reg) <=>
        \E r \in 0..reg - 1 : \E i \in DOMAIN D[ms[r].name] : e = <<r, i>>
  <2>1. e \in Pairs(D, ms, reg) <=> \E r \in 0..reg - 1 : e \in {r} \X DOMAIN D[ms[r].name]
    BY DEF Pairs
  <2>2. \A r, S : e \in {r} \X S <=> \E i \in S : e = <<r, i>>
    BY SMT
  <2> QED
    BY ZenonT(30), <2>1, <2>2
<1>2. \A r, i : <<r, i>>[1] = r /\ <<r, i>>[2] = i
  BY SMT
<1>3. ASSUME NEW r \in 0..reg - 1, NEW i \in DOMAIN D[ms[r].name], e = <<r, i>>
      PROVE  e \in LinksTo(D, ms, reg, s) <=>
                ms[r].state = "Ready" /\ FindIn(ms, reg, D[ms[r].name][i]) = s
  <2>1. e[1] = r /\ e[2] = i
    BY <1>2, <1>3
  <2>2. e \in Pairs(D, ms, reg)
    BY <1>1, <1>3
  <2> QED
    BY <2>1, <2>2 DEF LinksTo
<1>4. e \in LinksTo(D, ms, reg, s) => e \in Pairs(D, ms, reg)
  BY DEF LinksTo
<1> QED
  BY <1>1, <1>3, <1>4 DEF IsLink

\* A link stays when its module keeps name and state and its dependency the slot.
LEMMA LinkMoves ==
  ASSUME NEW D, NEW ms, NEW ns, NEW reg, NEW sl, NEW e, IsLink(D, ms, reg, sl, e),
         \A r \in 0..reg - 1 : ns[r].name = ms[r].name /\ (ms[r].state = "Ready" => ns[r].state = "Ready"),
         \A n : FindIn(ns, reg, n) = FindIn(ms, reg, n)
  PROVE  IsLink(D, ns, reg, sl, e)
<1> PICK r \in 0..reg - 1 : \E i \in DOMAIN D[ms[r].name] :
        /\ e = <<r, i>> /\ ms[r].state = "Ready"
        /\ FindIn(ms, reg, D[ms[r].name][i]) = sl
  BY DEF IsLink
<1> PICK i \in DOMAIN D[ms[r].name] :
        /\ e = <<r, i>> /\ ms[r].state = "Ready"
        /\ FindIn(ms, reg, D[ms[r].name][i]) = sl
  OBVIOUS
<1>1. ns[r].name = ms[r].name /\ ns[r].state = "Ready"
  OBVIOUS
<1>2. i \in DOMAIN D[ns[r].name]
  BY <1>1
<1>3. FindIn(ns, reg, D[ns[r].name][i]) = sl
  BY <1>1
<1> QED
  BY <1>1, <1>2, <1>3 DEF IsLink

\* There are finitely many.
LEMMA LinksFinite ==
  ASSUME Counting, NEW D \in [Names -> Seq(Names)], NEW ms, NEW reg \in Nat, NEW s,
         \A r \in 0..reg - 1 : ms[r].name \in Names
  PROVE  IsFiniteSet(LinksTo(D, ms, reg, s))
<1> DEFINE P(r) == {r} \X DOMAIN D[ms[r].name]
           S == {P(r) : r \in 0..reg - 1}
           f == [r \in 0..reg - 1 |-> P(r)]
<1>1. \A r \in 0..reg - 1 : IsFiniteSet(P(r))
  <2> TAKE r \in 0..reg - 1
  <2>1. D[ms[r].name] \in Seq(Names)
    OBVIOUS
  <2>2. DOMAIN D[ms[r].name] = 1..Len(D[ms[r].name]) /\ Len(D[ms[r].name]) \in Int
    BY SMT, <2>1
  <2>4. 1 \in Int
    BY SMT
  <2>3. IsFiniteSet(DOMAIN D[ms[r].name])
    BY <2>2, <2>4 DEF Counting, RangeSize
  <2> QED
    BY <2>3 DEF Counting, ProductSize, SingleSize
<1>2. IsFiniteSet(0..reg - 1)
  <2>1. 0 \in Int /\ reg - 1 \in Int
    BY SMT
  <2> QED
    BY <2>1 DEF Counting, RangeSize
<1>3. f \in Surjection(0..reg - 1, S)
  BY DEF Surjection
<1>4. IsFiniteSet(S)
  <2> HIDE DEF S, f
  <2> QED
    BY <1>2, <1>3 DEF Counting, ImageFinite
<1>7. \A T \in S : IsFiniteSet(T)
  BY <1>1
<1>5. IsFiniteSet(UNION S)
  <2> HIDE DEF S
  <2> QED
    BY <1>4, <1>7 DEF Counting, UnionFinite
<1>6. LinksTo(D, ms, reg, s) \subseteq UNION S
  BY DEF LinksTo, Pairs
<1> QED
  BY <1>5, <1>6 DEF Counting, PartSize

\* Places of a sequence of n
LEMMA Places ==
  ASSUME NEW n \in Nat
  PROVE  /\ \A k \in 1..n + 1 : k < n + 1 => k # n + 1
         /\ \A k \in 1..n : k # n => k < n /\ k + 1 \in 1..n
         /\ \A k \in 1..n : k < n => k + 1 \in 1..n
         /\ \A k \in 1..n : n # 0
         /\ n # 0 => n \in 1..n
         /\ 1..n \subseteq 1..n + 1 /\ n + 1 \in 1..n + 1
         /\ \A k \in 1..n + 1 : k # n + 1 => k \in 1..n
BY SMT

\* The last element of a sequence
LEMMA NonEmpty ==
  ASSUME NEW S, NEW q \in Seq(S), q # <<>>
  PROVE  /\ Len(q) \in Nat \ {0} /\ DOMAIN q = 1..Len(q) /\ Len(q) \in DOMAIN q
         /\ q[Len(q)] \in S
<1>1. Len(q) \in Nat \ {0} /\ DOMAIN q = 1..Len(q)
  BY SeqEmpty, SeqLen
<1>2. Len(q) \in 1..Len(q)
  BY <1>1, Places
<1> QED
  BY <1>1, <1>2, SeqItem

\* p is the sequence q without it
IsPop(S, q, p) ==
    /\ p \in Seq(S) /\ Len(p) = Len(q) - 1 /\ DOMAIN p = 1..Len(q) - 1
    /\ \A k \in DOMAIN p : p[k] = q[k] /\ k \in DOMAIN q /\ k < Len(q)
    /\ \A k \in DOMAIN q : k # Len(q) => k \in DOMAIN p
    /\ \A k \in DOMAIN p : k < Len(p) => k + 1 \in DOMAIN p

\* What SubSeq() makes of a sequence that is not empty
LEMMA Popped ==
  ASSUME NEW S, NEW q \in Seq(S), q # <<>>
  PROVE  IsPop(S, q, SubSeq(q, 1, Len(q) - 1))
<1>0. PICK p : p = SubSeq(q, 1, Len(q) - 1)
  OBVIOUS
<1>1. Len(q) \in Nat \ {0} /\ DOMAIN q = 1..Len(q)
  BY NonEmpty
<1>2. 1 \in Int /\ Len(q) - 1 \in Int /\ 1..Len(q) - 1 \subseteq 1..Len(q)
  BY SMT, <1>1
<1>3. \A i \in 1..Len(q) - 1 : q[i] \in S
  BY <1>2, SeqItem
<1>4. /\ p \in Seq(S)
      /\ Len(p) = IF 1 <= Len(q) - 1 THEN Len(q) - 1 - 1 + 1 ELSE 0
      /\ \A i \in 1..Len(q) - 1 - 1 + 1 : p[i] = q[1 + i - 1]
  <2>1. PICK n, m : n = Len(q) - 1 /\ m = 1
    OBVIOUS
  <2>2. m \in Int /\ n \in Int /\ \A i \in m..n : q[i] \in S
    BY <2>1, <1>2, <1>3
  <2>3. /\ SubSeq(q, m, n) \in Seq(S) /\ Len(SubSeq(q, m, n)) = IF m <= n THEN n - m + 1 ELSE 0
        /\ \A i \in 1..n - m + 1 : SubSeq(q, m, n)[i] = q[m + i - 1]
    BY SMT, <2>2
  <2> QED
    BY <1>0, <2>1, <2>3
<1>5. Len(p) = Len(q) - 1
  <2>1. PICK n : n = Len(q)
    OBVIOUS
  <2>2. n \in Nat \ {0}
    BY <2>1, <1>1
  <2>3. (IF 1 <= n - 1 THEN n - 1 - 1 + 1 ELSE 0) = n - 1
    BY SMT, <2>2
  <2> QED
    BY <2>1, <2>3, <1>4
<1>9. \A i \in 1..Len(q) - 1 : p[i] = q[i]
  <2>1. PICK n : n = Len(q)
    OBVIOUS
  <2>2. n \in Nat \ {0}
    BY <2>1, <1>1
  <2>3. 1..n - 1 - 1 + 1 = 1..n - 1 /\ \A i \in 1..n - 1 : 1 + i - 1 = i
    BY SMT, <2>2
  <2> QED
    BY <2>1, <2>3, <1>4
<1>6. DOMAIN p = 1..Len(q) - 1
  BY <1>4, <1>5, SeqLen
<1>7. /\ \A k \in 1..Len(q) - 1 : k < Len(q) /\ (k < Len(q) - 1 => k + 1 \in 1..Len(q) - 1)
      /\ \A k \in 1..Len(q) : k # Len(q) => k \in 1..Len(q) - 1
  <2>1. PICK n : n = Len(q)
    OBVIOUS
  <2>2. n \in Nat \ {0}
    BY <2>1, <1>1
  <2>3. \A k \in 1..n - 1 : k < n /\ (k < n - 1 => k + 1 \in 1..n - 1)
    BY SMT, <2>2
  <2>4. \A k \in 1..n : k # n => k \in 1..n - 1
    BY SMT, <2>2
  <2> QED
    BY <2>1, <2>3, <2>4
<1> QED
  BY <1>0, <1>1, <1>2, <1>4, <1>5, <1>6, <1>7, <1>9 DEF IsPop

\* p is the sequence q with e at its end.
IsPush(S, q, e, p) ==
    /\ p \in Seq(S) /\ Len(p) = Len(q) + 1 /\ DOMAIN p = 1..Len(q) + 1
    /\ \A k \in DOMAIN q : p[k] = q[k] /\ k \in DOMAIN p
    /\ \A k \in DOMAIN p : k # Len(p) => k \in DOMAIN q
    /\ p[Len(p)] = e /\ p # <<>> /\ Len(p) \in DOMAIN p
    /\ Len(q) \in Nat /\ DOMAIN q = 1..Len(q)
    /\ Len(q) # 0 => q # <<>>

\* What Append() makes of a sequence
LEMMA Pushed ==
  ASSUME NEW S, NEW q \in Seq(S), NEW e \in S
  PROVE  IsPush(S, q, e, Append(q, e))
<1>0. PICK p : p = Append(q, e)
  OBVIOUS
<1>1. Len(q) \in Nat /\ DOMAIN q = 1..Len(q)
  BY SeqLen
<1>2. /\ p \in Seq(S) /\ Len(p) = Len(q) + 1 /\ p # <<>>
      /\ \A k \in 1..Len(q) : p[k] = q[k]
      /\ p[Len(q) + 1] = e
  BY SMT, <1>0
<1>3. DOMAIN p = 1..Len(q) + 1
  BY <1>2, SeqLen
<1>4. /\ 1..Len(q) \subseteq 1..Len(q) + 1 /\ Len(q) + 1 \in 1..Len(q) + 1
      /\ \A k \in 1..Len(q) + 1 : k # Len(q) + 1 => k \in 1..Len(q)
  BY <1>1, Places
<1>5. Len(q) # 0 => q # <<>>
  BY SeqEmpty
<1> QED
  BY <1>0, <1>1, <1>2, <1>3, <1>4, <1>5 DEF IsPush

\* The size of two sets with nothing in common.
LEMMA JoinedCount ==
  ASSUME Counting, NEW A, NEW B, IsFiniteSet(A), IsFiniteSet(B), A \cap B = {}
  PROVE  /\ Cardinality(A) \in Nat /\ Cardinality(B) \in Nat
         /\ Cardinality(A \cup B) = Cardinality(A) + Cardinality(B)
<1>1. Cardinality(A) \in Nat /\ Cardinality(B) \in Nat
  BY DEF Counting, SizeIsNat
<1>2. Cardinality(A \cup B) = Cardinality(A) + Cardinality(B) - Cardinality(A \cap B)
  BY DEF Counting, JoinSize
<1>3. Cardinality(A \cap B) = 0
  BY DEF Counting, EmptySize
<1> QED
  BY SMT, <1>1, <1>2, <1>3

\* The links of one module, counted by their places
LEMMA OwnCount ==
  ASSUME Counting, NEW r, NEW I, IsFiniteSet(I)
  PROVE  /\ IsFiniteSet({r} \X I) /\ Cardinality({r} \X I) = Cardinality(I)
         /\ Cardinality(I) \in Nat
<1>1. IsFiniteSet({r}) /\ Cardinality({r}) = 1
  BY DEF Counting, SingleSize
<1>2. IsFiniteSet({r} \X I) /\ Cardinality({r} \X I) = Cardinality({r}) * Cardinality(I)
  BY <1>1 DEF Counting, ProductSize
<1>3. Cardinality(I) \in Nat
  BY DEF Counting, SizeIsNat
<1> QED
  BY SMT, <1>1, <1>2, <1>3

----------------------------------------------------------------------------
(* What the invariant says of a state                                       *)

\* The type invariant and the facts on the tables, as the proofs use them
LEMMA Basics ==
  ASSUME ModuleInv
  PROVE  /\ registered \in Nat /\ InTable \subseteq Slots /\ modules \in [Slots -> Entry]
         /\ tree \in Trees /\ Once(modules, registered)
         /\ \A s \in InTable : modules[s].name \in Names
         /\ \A s \in InTable : FindIn(modules, registered, modules[s].name) = s
         /\ \A n : find(n) = FindIn(modules, registered, n)
<1>1. tree \in Trees
  BY DEF ModuleInv, TableKept
<1>2. max_modules \in Nat /\ registered \in 0..max_modules
  BY <1>1, TreeFacts DEF ModuleInv, TypeOK
<1>3. registered \in Nat /\ InTable \subseteq Slots
  BY SMT, <1>2 DEF InTable, Slots
<1>4. Once(modules, registered)
  BY DEF ModuleInv, TableKept, Once, InTable
<1>5. \A s \in InTable : modules[s].name \in Names
  <2> TAKE s \in InTable
  <2>1. modules[s].name \in Range(Builtin) \cup Described(tree)
    BY DEF ModuleInv, TableKept
  <2>2. Range(Builtin) \subseteq Names
    BY SMT, <1>1, TreeFacts DEF Range
  <2>3. \A f \in Files : Range(Descriptors[f]) \subseteq Names
    BY SMT, <1>1, TreeFacts DEF Range
  <2>4. Described(tree) \subseteq Names
    BY <2>3 DEF Described, Files, Descriptors
  <2> QED
    BY <2>1, <2>2, <2>4
<1>6. \A n : find(n) = FindIn(modules, registered, n)
  BY DEF find, FindIn, Least, Named
<1>7. modules \in [Slots -> Entry]
  BY DEF ModuleInv, TypeOK, Entry
<1>8. \A s \in InTable : FindIn(modules, registered, modules[s].name) = s
  BY <1>3, <1>4, FindOne DEF InTable
<1> QED
  BY <1>1, <1>3, <1>4, <1>5, <1>6, <1>7, <1>8

\* The module that a name leads to
LEMMA FoundAt ==
  ASSUME ModuleInv, NEW n
  PROVE  /\ FindIn(modules, registered, n) # nullptr =>
               /\ FindIn(modules, registered, n) \in InTable
               /\ modules[FindIn(modules, registered, n)].name = n
         /\ FindIn(modules, registered, n) = nullptr => \A s \in InTable : modules[s].name # n
<1>1. registered \in Nat /\ Once(modules, registered)
  BY Basics
<1> QED
  BY SMT, <1>1, FindSome DEF InTable

\* A step that leaves the names in place leaves find() alone.
LEMMA SameFind ==
  ASSUME registered' = registered, \A s \in InTable : modules'[s].name = modules[s].name
  PROVE  \A n : FindIn(modules', registered', n) = FindIn(modules, registered, n)
<1> TAKE n
<1>1. Named(modules', registered', n) = Named(modules, registered, n)
  BY DEF InTable, Named
<1> QED
  BY <1>1 DEF FindIn

----------------------------------------------------------------------------
(* Steps that leave the names of the table in place                         *)

SameTable ==
    /\ tree' = tree /\ registered' = registered /\ modules' \in [Slots -> Entry]
    /\ \A s \in Slots : modules'[s].name = modules[s].name /\ modules'[s].base = modules[s].base

\* The modules that are Ready are the same.
SameReady == \A s \in InTable : modules'[s].state = "Ready" <=> modules[s].state = "Ready"

\* The tree is what it was.
LEMMA SameTree ==
  ASSUME tree' = tree
  PROVE  /\ deps' = deps /\ Builtin' = Builtin /\ Descriptors' = Descriptors /\ Files' = Files
         /\ Exporting' = Exporting /\ Stale' = Stale /\ Repeated' = Repeated /\ Used' = Used
         /\ Unloaded' = Unloaded /\ MaxFailures' = MaxFailures /\ max_modules' = max_modules
         /\ max_tables' = max_tables /\ Slots' = Slots /\ Described(tree)' = Described(tree)
         /\ Orderly(tree)' = Orderly(tree)
<1>1. /\ deps' = deps /\ Builtin' = Builtin /\ Descriptors' = Descriptors
      /\ Exporting' = Exporting /\ Stale' = Stale /\ Repeated' = Repeated /\ Used' = Used
      /\ Unloaded' = Unloaded /\ MaxFailures' = MaxFailures /\ max_modules' = max_modules
      /\ max_tables' = max_tables
  BY DEF max_modules, max_tables, MaxFailures, deps, Builtin, Descriptors, Exporting,
       Repeated, Stale, Used, Unloaded
<1>2. Files' = Files /\ Slots' = Slots
  BY <1>1 DEF Files, Slots
<1>3. Described(tree)' = Described(tree)
  BY DEF Described
<1>4. Orderly(tree)' = Orderly(tree)
  OBVIOUS
<1> QED
  BY <1>1, <1>2, <1>3, <1>4

\* A step that changes no slot of the table but its state and its counters.
LEMMA TableStays ==
  ASSUME ModuleInv, SameTable,
         \A s \in InTable : modules[s].base # None => modules[s].base \in mapped',
         \A s \in Slots : s >= registered =>
            modules'[s].dependents = modules[s].dependents /\ modules'[s].users = modules[s].users
  PROVE  TableKept'
<1>1. tree' = tree /\ registered' = registered /\ InTable' = InTable /\ InTable \subseteq Slots
  BY Basics DEF SameTable, InTable
<1>2. \A s \in InTable : modules'[s].name = modules[s].name /\ modules'[s].base = modules[s].base
  BY <1>1 DEF SameTable
<1>3. TableKept
  BY DEF ModuleInv
<1>4. /\ Builtin' = Builtin /\ Described(tree)' = Described(tree) /\ Slots' = Slots
      /\ Orderly(tree)' /\ Unloaded' = Unloaded /\ tree' \in Trees
  BY <1>1, <1>3, SameTree DEF TableKept
<1>5. /\ Len(Builtin') <= registered'
      /\ \A s \in InTable : modules'[s].name \in Range(Builtin') \cup Described(tree)'
  BY <1>1, <1>2, <1>3, <1>4 DEF TableKept
<1>6. \A s \in InTable : modules'[s].base = None <=> s < Len(Builtin')
  BY <1>1, <1>2, <1>3, <1>4 DEF TableKept
<1>7. \A s \in InTable : modules'[s].base # None =>
            modules'[s].base \in mapped' /\ modules'[s].name \in Described(tree)'
  <2> TAKE s \in InTable
  <2>1. modules[s].base # None => modules[s].name \in Described(tree)
    BY <1>3 DEF TableKept
  <2>2. modules'[s].name = modules[s].name /\ modules'[s].base = modules[s].base
    BY <1>2
  <2> QED
    BY <2>1, <2>2, <1>4
<1>8. \A s, r \in InTable : modules'[s].name = modules'[r].name => s = r
  <2> TAKE s, r \in InTable
  <2>1. modules[s].name = modules[r].name => s = r
    BY <1>3 DEF TableKept
  <2> QED
    BY <1>2, <2>1
<1>9. \A s, r \in InTable :
            /\ modules'[s].base # None /\ modules'[s].base = modules'[r].base
            /\ modules'[s].name \in Unloaded'
            => s = r
  BY ZenonT(30), <1>1, <1>2, <1>3, <1>4 DEF TableKept
<1>10. \A s \in Slots' : s >= registered' =>
            modules'[s].dependents = 0 /\ modules'[s].users = 0
  BY <1>1, <1>3, <1>4 DEF TableKept
<1> QED
  BY <1>1, <1>4, <1>5, <1>6, <1>7, <1>8, <1>9, <1>10 DEF TableKept

\* find() and what it finds
LEMMA FindStays ==
  ASSUME ModuleInv, SameTable
  PROVE  /\ \A n : FindIn(modules', registered', n) = FindIn(modules, registered, n)
         /\ InTable' = InTable /\ InTable \subseteq Slots
         /\ \A s \in InTable : modules'[s].name = modules[s].name
<1>1. registered' = registered /\ InTable' = InTable /\ InTable \subseteq Slots
  BY Basics DEF SameTable, InTable
<1>2. \A s \in InTable : modules'[s].name = modules[s].name
  BY <1>1 DEF SameTable
<1> QED
  BY <1>1, <1>2, SameFind

\* A module that is Ready and stays so
LEMMA ReadyStays ==
  ASSUME ModuleInv, SameTable, NEW n, ReadyIn(modules, registered, n),
         \A s \in InTable : modules[s].state = "Ready" /\ modules[s].name = n =>
            modules'[s].state = "Ready"
  PROVE  ReadyIn(modules', registered', n)
<1> DEFINE d == FindIn(modules, registered, n)
<1>1. d # nullptr /\ modules[d].state = "Ready"
  BY DEF ReadyIn
<1>2. d \in InTable /\ modules[d].name = n
  BY <1>1, FoundAt
<1>3. FindIn(modules', registered', n) = d
  BY FindStays
<1> QED
  BY <1>1, <1>2, <1>3 DEF ReadyIn

\* A step of no user that keeps the counters of users and the Ready modules in use.
LEMMA UsersStay ==
  ASSUME ModuleInv, SameTable, user' = user, got' = got,
         \A s \in InTable : modules'[s].users = modules[s].users,
         \A s \in InTable : modules[s].state = "Ready" =>
            modules'[s].state = "Ready" \/ modules[s].name \in Unloaded
  PROVE  UsersKept'
<1>1. /\ \A n : FindIn(modules', registered', n) = FindIn(modules, registered, n)
      /\ InTable' = InTable /\ InTable \subseteq Slots
      /\ \A s \in InTable : modules'[s].name = modules[s].name
  BY FindStays
<1>2. Used' = Used /\ Slots' = Slots /\ Used \cap Unloaded = {}
  <2>1. Orderly(tree)
    BY DEF ModuleInv, TableKept
  <2> QED
    BY <2>1, SameTree DEF SameTable, Orderly, Used, Unloaded
<1>3. UsersKept
  BY DEF ModuleInv
<1>4. ASSUME NEW u \in Users, got'[u] # None
      PROVE  got'[u] \in Used' /\ ReadyIn(modules', registered', got'[u])
  <2>1. got[u] \in Used /\ ReadyIn(modules, registered, got[u])
    BY <1>3, <1>4 DEF UsersKept
  <2>2. PICK n : n = got[u]
    OBVIOUS
  <2>3. n \in Used /\ ReadyIn(modules, registered, n)
    BY <2>1, <2>2
  <2>4. ReadyIn(modules', registered', n)
    BY <1>2, <2>3, ReadyStays
  <2> QED
    BY <1>2, <2>2, <2>3, <2>4
<1>6. \A s \in InTable' : modules'[s].users = Cardinality(Holders(got', user', modules'[s].name))
  BY <1>1, <1>3 DEF UsersKept
<1>7. \A u \in Users : user'[u].at # "idle" =>
        got'[u] # None /\ user'[u].slot = FindIn(modules', registered', got'[u])
  BY <1>1, <1>3 DEF UsersKept
<1>8. user' \in [Users -> {Idle} \cup [at : {"take", "drop"}, slot : Slots']]
  BY <1>2, <1>3 DEF UsersKept
<1>9. \A u, v \in Users : user'[u].at # "idle" /\ user'[v].at # "idle" => u = v
  BY <1>3 DEF UsersKept
<1> QED
  BY <1>4, <1>6, <1>7, <1>8, <1>9 DEF UsersKept

\* The links when no module becomes Ready or stops being it
LEMMA LinksStay ==
  ASSUME ModuleInv, SameTable, SameReady,
         \A s \in InTable : modules'[s].dependents = modules[s].dependents
  PROVE  LinksKept'
<1>1. /\ InTable' = InTable /\ deps' = deps
      /\ \A r \in InTable : modules'[r].name = modules[r].name
      /\ registered' = registered
      /\ \A n : FindIn(modules', registered', n) = FindIn(modules, registered, n)
  BY FindStays, SameTree DEF SameTable
<1>2. LinksKept
  BY DEF ModuleInv
<1>3. ASSUME NEW s
      PROVE  LinksTo(deps', modules', registered', s) = LinksTo(deps, modules, registered, s)
  <2>1. ASSUME NEW e
        PROVE  IsLink(deps', modules', registered', s, e) <=> IsLink(deps, modules, registered, s, e)
    <3>1. \A r \in 0..registered - 1 :
            /\ modules'[r].name = modules[r].name
            /\ modules'[r].state = "Ready" <=> modules[r].state = "Ready"
      BY <1>1 DEF InTable, SameReady
    <3>2. IsLink(deps, modules', registered, s, e) <=> IsLink(deps, modules, registered, s, e)
      BY <1>1, <3>1, LinkMoves
    <3> QED
      BY <1>1, <3>2
  <2> QED
    BY <2>1, LinkIs
<1>4. ASSUME NEW s \in InTable
      PROVE  modules'[s].dependents = Cardinality(LinksTo(deps', modules', registered', s))
  BY <1>2, <1>3 DEF LinksKept
<1>5. ASSUME NEW s \in InTable, modules'[s].state = "Ready",
             NEW i \in DOMAIN deps'[modules'[s].name]
      PROVE  ReadyIn(modules', registered', deps'[modules'[s].name][i])
  <2>1. PICK n : n = deps[modules[s].name][i]
    OBVIOUS
  <2>2. ReadyIn(modules, registered, n)
    BY <1>1, <1>2, <1>5, <2>1 DEF LinksKept, SameReady
  <2>3. ReadyIn(modules', registered', n)
    BY <2>2, ReadyStays DEF SameReady
  <2> QED
    BY <1>1, <2>1, <2>3
<1> QED
  BY <1>1, <1>4, <1>5 DEF LinksKept

----------------------------------------------------------------------------
(* load_locked()                                                            *)

\* Ready modules stay Ready.
ReadyGrows == \A s \in InTable : modules[s].state = "Ready" => modules'[s].state = "Ready"

\* init() is run for modules whose dependencies are Ready, and what failed stays so.
Forward ==
    \A s \in InTable :
        /\ modules[s].state = "Loading" /\ modules'[s].state = "Ready" =>
               \A i \in DOMAIN deps[modules[s].name] :
                   ReadyIn(modules, registered, deps[modules[s].name][i])
        /\ modules[s].state = "Failed" => modules'[s].state = "Failed"

\* A call that goes on is where it was.
LEMMA CallStays ==
  ASSUME ModuleInv, SameTable, ReadyGrows, NEW c, CallKept(deps, modules, registered, c),
         modules'[c.slot].state = "Loading"
  PROVE  CallKept(deps', modules', registered', c)
<1>1. /\ InTable' = InTable /\ deps' = deps /\ registered' = registered
      /\ \A s \in InTable : modules'[s].name = modules[s].name
  BY FindStays, SameTree DEF SameTable
<1>2. c.slot \in InTable
  BY DEF CallKept, InTable
<1>3. modules'[c.slot].name = modules[c.slot].name
  BY <1>1, <1>2
<1>4. ASSUME NEW i \in 1..c.dep - 1
      PROVE  ReadyIn(modules', registered', deps[modules[c.slot].name][i])
  <2>1. PICK n : n = deps[modules[c.slot].name][i]
    OBVIOUS
  <2>2. ReadyIn(modules, registered, n)
    BY <2>1 DEF CallKept
  <2>3. ReadyIn(modules', registered', n)
    BY <2>2, ReadyStays DEF ReadyGrows
  <2> QED
    BY <2>1, <2>3
<1> QED
  BY <1>1, <1>3, <1>4 DEF CallKept

\* It waits for the same module.
LEMMA WaitStays ==
  ASSUME ModuleInv, SameTable, NEW c, NEW s, c.slot \in InTable,
         WaitsFor(deps, modules, registered, c, s)
  PROVE  WaitsFor(deps', modules', registered', c, s)
<1>1. /\ deps' = deps /\ modules'[c.slot].name = modules[c.slot].name
      /\ \A n : FindIn(modules', registered', n) = FindIn(modules, registered, n)
  BY FindStays, SameTree DEF SameTable
<1> QED
  BY <1>1 DEF WaitsFor

\* The type of the calls
LEMMA CallsType ==
  ASSUME ModuleInv, calls # <<>>
  PROVE  /\ Len(calls) \in Nat \ {0} /\ DOMAIN calls = 1..Len(calls)
         /\ calls \in Seq([slot : Slots, dep : Nat \ {0}])
         /\ Top \in [slot : Slots, dep : Nat \ {0}] /\ Len(calls) \in DOMAIN calls
         /\ CallKept(deps, modules, registered, Top) /\ Top.slot \in InTable
         /\ op = Idle
<1>1. calls \in Seq([slot : Slots, dep : Nat \ {0}])
  BY DEF ModuleInv, TypeOK
<1>2. /\ Len(calls) \in Nat \ {0} /\ DOMAIN calls = 1..Len(calls)
      /\ Top \in [slot : Slots, dep : Nat \ {0}] /\ Len(calls) \in DOMAIN calls
  BY <1>1, NonEmpty DEF Top
<1>3. CallKept(deps, modules, registered, Top) /\ op = Idle
  BY <1>2 DEF ModuleInv, CallsKept, Top
<1> QED
  BY <1>1, <1>2, <1>3 DEF CallKept, InTable

\* One entry gets another state.
LEMMA StateSet ==
  ASSUME ModuleInv, tree' = tree, registered' = registered, NEW s \in InTable,
         NEW st \in ModuleState, modules' = SetState(s, st)
  PROVE  /\ SameTable /\ modules'[s].state = st
         /\ \A r \in Slots : modules'[r].state = IF r = s THEN st ELSE modules[r].state
         /\ \A r \in Slots : /\ modules'[r].dependents = modules[r].dependents
                             /\ modules'[r].users = modules[r].users
<1>1. InTable \subseteq Slots /\ modules \in [Slots -> Entry]
  BY Basics
<1>2. s \in Slots /\ modules[s] \in Entry
  BY <1>1
<1>3. [modules[s] EXCEPT !.state = st] \in Entry
  BY SMT, <1>2 DEF Entry
<1>4. modules' = [modules EXCEPT ![s] = [modules[s] EXCEPT !.state = st]]
  BY DEF SetState
<1>5. modules' \in [Slots -> Entry]
  BY <1>1, <1>3, <1>4
<1>6. \A r \in Slots : modules'[r] = IF r = s THEN [modules[s] EXCEPT !.state = st] ELSE modules[r]
  BY <1>1, <1>4
<1>7. \A r \in Slots : /\ modules'[r].name = modules[r].name /\ modules'[r].base = modules[r].base
                       /\ modules'[r].dependents = modules[r].dependents
                       /\ modules'[r].users = modules[r].users
                       /\ modules'[r].state = IF r = s THEN st ELSE modules[r].state
  BY SMT, <1>2, <1>6 DEF Entry
<1> QED
  BY <1>2, <1>5, <1>7 DEF SameTable

\* A step of the loader on the states alone, none of them Ready before or after.
LEMMA StateStep ==
  ASSUME ModuleInv, SameTable, SameReady, op = Idle, op' = Idle, mapped' = mapped,
         tables' = tables, refused' = refused, user' = user, got' = got,
         \A r \in Slots : /\ modules'[r].dependents = modules[r].dependents
                          /\ modules'[r].users = modules[r].users
  PROVE  TableKept' /\ OpKept' /\ ImagesKept' /\ UsersKept' /\ LinksKept'
<1>1. /\ InTable' = InTable /\ InTable \subseteq Slots
      /\ \A s \in InTable : modules'[s].name = modules[s].name
  BY FindStays
<1>2. \A s \in InTable : modules'[s].base = modules[s].base
  BY <1>1 DEF SameTable
<1>3. TableKept'
  <2>1. \A s \in InTable : modules[s].base # None => modules[s].base \in mapped'
    BY DEF ModuleInv, TableKept
  <2> QED
    BY <2>1, TableStays
<1>4. OpKept'
  BY DEF OpKept
<1>5. ImagesKept'
  <2>1. \A i \in DOMAIN tables : tables[i] \in mapped \cup refused
    BY DEF ModuleInv, ImagesKept
  <2>2. \A b \in mapped : \E s \in InTable : modules[s].base = b
    BY DEF ModuleInv, ImagesKept
  <2>3. \A b \in mapped : \E s \in InTable : modules'[s].base = b
    BY <1>2, <2>2
  <2> QED
    BY <1>1, <2>1, <2>3 DEF ImagesKept
<1>6. UsersKept'
  <2>1. \A s \in InTable : modules'[s].users = modules[s].users
    BY <1>1
  <2>2. \A s \in InTable : modules[s].state = "Ready" => modules'[s].state = "Ready"
    BY DEF SameReady
  <2> QED
    BY <2>1, <2>2, UsersStay
<1>7. LinksKept'
  <2>1. \A s \in InTable : modules'[s].dependents = modules[s].dependents
    BY <1>1
  <2> QED
    BY <2>1, LinksStay
<1> QED
  BY <1>3, <1>4, <1>5, <1>6, <1>7

\* A module that waits to be loaded begins: one more call, on behalf of the one before.
LEMMA PushKept ==
  ASSUME ModuleInv, tree' = tree, registered' = registered, op' = op, op = Idle,
         NEW s \in InTable, modules[s].state = "Registered", modules' = SetState(s, "Loading"),
         calls' = Append(calls, [slot |-> s, dep |-> 1]), ret' = None,
         calls # <<>> => WaitsFor(deps, modules, registered, Top, s)
  PROVE  CallsKept' /\ calls' \in Seq([slot : Slots, dep : Nat \ {0}]) /\ SameTable /\ SameReady
<1> DEFINE S == [slot : Slots, dep : Nat \ {0}]
           c == [slot |-> s, dep |-> 1]
<1>1. /\ SameTable /\ modules'[s].state = "Loading"
      /\ \A r \in Slots : modules'[r].state = IF r = s THEN "Loading" ELSE modules[r].state
  BY StateSet DEF ModuleState
<1>2. /\ InTable' = InTable /\ InTable \subseteq Slots /\ deps' = deps
      /\ \A r \in InTable : modules'[r].name = modules[r].name
  BY <1>1, FindStays, SameTree
<1>3. SameReady /\ ReadyGrows
  BY <1>1, <1>2 DEF SameReady, ReadyGrows
<1>4. calls \in Seq(S) /\ c \in S /\ c.slot = s /\ c.dep = 1
  <2>1. s \in Slots /\ 1 \in Nat \ {0}
    BY SMT, <1>2
  <2> QED
    BY <2>1 DEF ModuleInv, TypeOK
<1> HIDE DEF S, c
<1>5. /\ calls' \in Seq(S) /\ Len(calls') = Len(calls) + 1 /\ DOMAIN calls' = 1..Len(calls) + 1
      /\ \A k \in DOMAIN calls : calls'[k] = calls[k] /\ k \in DOMAIN calls'
      /\ \A k \in DOMAIN calls' : k # Len(calls') => k \in DOMAIN calls
      /\ calls'[Len(calls')] = c /\ calls' # <<>> /\ Len(calls') \in DOMAIN calls'
      /\ Len(calls) \in Nat /\ DOMAIN calls = 1..Len(calls)
      /\ Len(calls) # 0 => calls # <<>>
  <2>1. IsPush(S, calls, c, Append(calls, c))
    BY <1>4, Pushed
  <2>2. IsPush(S, calls, c, calls')
    BY <2>1 DEF c
  <2> QED
    BY <2>2 DEF IsPush
<1>14. PICK n : n = Len(calls)
  OBVIOUS
<1>15. n \in Nat /\ Len(calls') = n + 1 /\ DOMAIN calls' = 1..n + 1 /\ DOMAIN calls = 1..n
  BY <1>5, <1>14
<1>6. \A k \in DOMAIN calls : /\ CallKept(deps, modules, registered, calls[k])
                              /\ calls[k].slot \in InTable /\ calls[k].slot # s
  BY DEF ModuleInv, CallsKept, CallKept, InTable
<1>7. \A k \in DOMAIN calls : CallKept(deps', modules', registered', calls[k])
  <2> TAKE k \in DOMAIN calls
  <2>1. PICK e : e = calls[k]
    OBVIOUS
  <2>2. CallKept(deps, modules, registered, e) /\ e.slot \in InTable /\ e.slot # s
    BY <1>6, <2>1
  <2>3. modules'[e.slot].state = "Loading"
    BY <1>1, <1>2, <2>2 DEF CallKept
  <2> QED
    BY <1>1, <1>3, <2>1, <2>2, <2>3, CallStays
<1>8. CallKept(deps', modules', registered', c)
  <2>1. modules[s].name \in Names /\ deps \in [Names -> Seq(Names)]
    BY Basics, TreeFacts
  <2>2. Len(deps[modules[s].name]) \in Nat
    BY <2>1, SeqLen
  <2>3. 1 <= Len(deps[modules[s].name]) + 1 /\ 1..1 - 1 = {}
    BY SMT, <2>2
  <2>4. c.slot \in 0..registered' - 1
    BY <1>4 DEF InTable
  <2> QED
    BY <1>1, <1>2, <1>4, <2>3, <2>4 DEF CallKept
<1>9. \A k \in DOMAIN calls' : CallKept(deps', modules', registered', calls'[k])
  BY <1>5, <1>7, <1>8
<1>10. \A k, l \in DOMAIN calls' : calls'[k].slot = calls'[l].slot => k = l
  <2>1. \A k, l \in DOMAIN calls : calls[k].slot = calls[l].slot => k = l
    BY DEF ModuleInv, CallsKept
  <2>2. \A k \in DOMAIN calls' : k # Len(calls') => calls'[k].slot # s /\ calls'[k] = calls[k]
    BY <1>5, <1>6
  <2> TAKE k, l \in DOMAIN calls'
  <2>3. calls'[Len(calls')].slot = s
    BY <1>4, <1>5
  <2>4. CASE k # Len(calls') /\ l # Len(calls')
    <3>1. /\ k \in DOMAIN calls /\ calls'[k] = calls[k]
          /\ l \in DOMAIN calls /\ calls'[l] = calls[l]
      BY <1>5, <2>2, <2>4
    <3> QED
      BY <2>1, <3>1
  <2> QED
    BY <2>2, <2>3, <2>4
<1>11. ASSUME NEW k \in DOMAIN calls', k < Len(calls')
       PROVE  WaitsFor(deps', modules', registered', calls'[k], calls'[k + 1].slot)
  <2>1. k \in DOMAIN calls /\ calls'[k] = calls[k]
    <3>1. k # Len(calls')
      <4>1. k \in 1..n + 1 /\ k < n + 1
        BY <1>15, <1>11
      <4>2. k # n + 1
        BY <1>15, <4>1, Places
      <4> QED
        BY <1>15, <4>2
    <3> QED
      BY <1>5, <3>1
  <2>2. WaitsFor(deps, modules, registered, calls[k], calls'[k + 1].slot)
    <3>1. CASE k = Len(calls)
      <4>1. calls # <<>>
        <5>1. n # 0
          BY <1>15, <2>1, Places
        <5> QED
          BY <1>5, <1>14, <5>1
      <4>2. calls'[k + 1].slot = s /\ calls[k] = Top
        BY <1>4, <1>5, <3>1 DEF Top
      <4> QED
        BY <4>1, <4>2
    <3>2. CASE k # Len(calls)
      <4>1. k < Len(calls) /\ k + 1 \in DOMAIN calls
        BY <1>14, <1>15, <2>1, <3>2, Places
      <4>2. WaitsFor(deps, modules, registered, calls[k], calls[k + 1].slot)
        BY <2>1, <4>1 DEF ModuleInv, CallsKept
      <4> QED
        BY <1>5, <4>1, <4>2
    <3> QED
      BY <3>1, <3>2
  <2>3. PICK e, r : e = calls[k] /\ r = calls'[k + 1].slot
    OBVIOUS
  <2>4. WaitsFor(deps, modules, registered, e, r) /\ e.slot \in InTable
    BY <1>6, <2>1, <2>2, <2>3
  <2>5. WaitsFor(deps', modules', registered', e, r)
    BY <1>1, <2>4, WaitStays
  <2> QED
    BY <2>1, <2>3, <2>5
<1>12. ASSUME NEW r \in InTable', modules'[r].state = "Loading"
       PROVE  \E k \in DOMAIN calls' : calls'[k].slot = r
  <2>1. CASE r = s
    BY <1>4, <1>5, <2>1
  <2>2. CASE r # s
    <3>1. r \in InTable /\ modules[r].state = "Loading"
      BY <1>1, <1>2, <1>12, <2>2
    <3>2. \E k \in DOMAIN calls : calls[k].slot = r
      BY <3>1 DEF ModuleInv, CallsKept
    <3> QED
      BY <1>5, <3>2
  <2> QED
    BY <2>1, <2>2
<1>13. Answered(deps', modules', registered', Top', ret')
  BY SMT DEF Answered, None
<1> QED
  BY <1>1, <1>3, <1>5, <1>9, <1>10, <1>11, <1>12, <1>13 DEF CallsKept, S

\* The calls when nothing moves but the counts, and what the last one answered
LEMMA CallsStay ==
  ASSUME ModuleInv, SameTable, op' = op, calls' = calls,
         \A s \in InTable : modules'[s].state = modules[s].state,
         calls = <<>> => ret' = None,
         calls # <<>> => Answered(deps', modules', registered', Top, ret')
  PROVE  CallsKept'
<1>1. /\ InTable' = InTable /\ InTable \subseteq Slots
  BY FindStays
<1>2. ReadyGrows
  BY DEF ReadyGrows
<1>3. \A k \in DOMAIN calls : /\ CallKept(deps, modules, registered, calls[k])
                              /\ calls[k].slot \in InTable
                              /\ modules[calls[k].slot].state = "Loading"
  BY DEF ModuleInv, CallsKept, CallKept, InTable
<1>4. ASSUME NEW k \in DOMAIN calls
      PROVE  CallKept(deps', modules', registered', calls'[k])
  <2>1. PICK e : e = calls[k]
    OBVIOUS
  <2>2. /\ CallKept(deps, modules, registered, e) /\ e.slot \in InTable
        /\ modules'[e.slot].state = "Loading"
    BY <1>3, <2>1
  <2> QED
    BY <1>2, <2>1, <2>2, CallStays
<1>5. ASSUME NEW k \in DOMAIN calls, k < Len(calls)
      PROVE  WaitsFor(deps', modules', registered', calls'[k], calls'[k + 1].slot)
  <2>1. PICK e, r : e = calls[k] /\ r = calls[k + 1].slot
    OBVIOUS
  <2>2. WaitsFor(deps, modules, registered, e, r) /\ e.slot \in InTable
    BY <1>3, <1>5, <2>1 DEF ModuleInv, CallsKept
  <2>3. WaitsFor(deps', modules', registered', e, r)
    BY <2>2, WaitStays
  <2> QED
    BY <2>1, <2>3
<1>6. \A s \in InTable : modules'[s].state = "Loading" => \E k \in DOMAIN calls : calls[k].slot = s
  BY DEF ModuleInv, CallsKept
<1>7. \A k, l \in DOMAIN calls : calls[k].slot = calls[l].slot => k = l
  BY DEF ModuleInv, CallsKept
<1>8. calls # <<>> => op = Idle
  BY DEF ModuleInv, CallsKept
<1>9. Top' = Top
  BY DEF Top
<1> QED
  BY <1>1, <1>4, <1>5, <1>6, <1>7, <1>8, <1>9 DEF CallsKept

\* Without a call under way
LEMMA QuietCalls ==
  ASSUME calls' = <<>>, ret' = None, \A s \in InTable' : modules'[s].state # "Loading"
  PROVE  CallsKept'
<1>1. DOMAIN calls' = {}
  BY SMT
<1> QED
  BY <1>1 DEF CallsKept

\* Between two calls of module_load() no module is Loading and none returns.
LEMMA NoneLoading ==
  ASSUME ModuleInv, calls = <<>>
  PROVE  ret = None /\ \A s \in InTable : modules[s].state # "Loading"
<1>1. DOMAIN calls = {}
  BY SMT
<1> QED
  BY <1>1 DEF ModuleInv, CallsKept

\* The innermost call returns to the one that waits for its module.
LEMMA PopKept ==
  ASSUME ModuleInv, calls # <<>>, SameTable, ReadyGrows, op' = op,
         NEW r \in {"ok", "fail"}, calls' = SubSeq(calls, 1, Len(calls) - 1),
         ret' = IF Len(calls) = 1 THEN None ELSE r,
         \A s \in InTable : s # Top.slot => modules'[s].state = modules[s].state,
         modules'[Top.slot].state # "Loading",
         r = "ok" => modules'[Top.slot].state = "Ready"
  PROVE  CallsKept' /\ calls' \in Seq([slot : Slots, dep : Nat \ {0}]) /\ ret' \in {None, "ok", "fail"}
<1> DEFINE S == [slot : Slots, dep : Nat \ {0}]
<1>1. /\ Len(calls) \in Nat \ {0} /\ DOMAIN calls = 1..Len(calls) /\ calls \in Seq(S)
      /\ Top.slot \in InTable /\ op = Idle /\ Len(calls) \in DOMAIN calls
  BY CallsType
<1> HIDE DEF S
<1>2. PICK n : n = Len(calls)
  OBVIOUS
<1>3. /\ calls' \in Seq(S) /\ Len(calls') = n - 1 /\ DOMAIN calls' = 1..n - 1
      /\ \A k \in DOMAIN calls' : calls'[k] = calls[k] /\ k \in DOMAIN calls /\ k < n
      /\ \A k \in DOMAIN calls : k # n => k \in DOMAIN calls'
      /\ \A k \in DOMAIN calls' : k < n - 1 => k + 1 \in DOMAIN calls'
      /\ n \in Nat \ {0} /\ DOMAIN calls = 1..n
  <2>1. IsPop(S, calls, SubSeq(calls, 1, Len(calls) - 1))
    BY <1>1, Popped
  <2>2. IsPop(S, calls, calls')
    BY <2>1
  <2> QED
    BY <1>1, <1>2, <2>2 DEF IsPop
<1>4. /\ InTable' = InTable /\ InTable \subseteq Slots /\ deps' = deps
      /\ \A s \in InTable : modules'[s].name = modules[s].name
  BY FindStays, SameTree DEF SameTable
<1>5. \A k \in DOMAIN calls : /\ CallKept(deps, modules, registered, calls[k])
                              /\ calls[k].slot \in InTable
                              /\ modules[calls[k].slot].state = "Loading"
  BY DEF ModuleInv, CallsKept, CallKept, InTable
<1>6. \A k, l \in DOMAIN calls : calls[k].slot = calls[l].slot => k = l
  BY DEF ModuleInv, CallsKept
<1>7. Top = calls[n]
  BY <1>2 DEF Top
<1>8. \A k \in DOMAIN calls' : k # n /\ calls[k].slot # Top.slot
  <2>1. \A k \in DOMAIN calls' : k # n
    BY SMT, <1>3
  <2> QED
    BY <1>1, <1>2, <1>3, <1>6, <1>7, <2>1
<1>9. ASSUME NEW k \in DOMAIN calls'
      PROVE  CallKept(deps', modules', registered', calls'[k])
  <2>1. PICK e : e = calls[k]
    OBVIOUS
  <2>2. /\ CallKept(deps, modules, registered, e) /\ e.slot \in InTable
        /\ modules'[e.slot].state = "Loading"
    BY <1>3, <1>5, <1>8, <2>1
  <2>3. CallKept(deps', modules', registered', e)
    BY <2>2, CallStays
  <2> QED
    BY <1>3, <2>1, <2>3
<1>10. ASSUME NEW k \in DOMAIN calls'
       PROVE  WaitsFor(deps', modules', registered', calls[k], calls[k + 1].slot)
  <2>1. PICK e, s : e = calls[k] /\ s = calls[k + 1].slot
    OBVIOUS
  <2>2. WaitsFor(deps, modules, registered, e, s) /\ e.slot \in InTable
    BY <1>2, <1>3, <1>5, <2>1 DEF ModuleInv, CallsKept
  <2>3. WaitsFor(deps', modules', registered', e, s)
    BY <2>2, WaitStays
  <2> QED
    BY <2>1, <2>3
<1>11. ASSUME NEW k \in DOMAIN calls', k < Len(calls')
       PROVE  WaitsFor(deps', modules', registered', calls'[k], calls'[k + 1].slot)
  BY <1>3, <1>10, <1>11
<1>12. ASSUME NEW s \in InTable', modules'[s].state = "Loading"
       PROVE  \E k \in DOMAIN calls' : calls'[k].slot = s
  <2>1. s \in InTable /\ s # Top.slot
    BY <1>4, <1>12
  <2>2. modules[s].state = "Loading"
    BY <1>12, <2>1
  <2>3. PICK k \in DOMAIN calls : calls[k].slot = s
    BY <2>1, <2>2 DEF ModuleInv, CallsKept
  <2>4. k # n
    BY <1>7, <2>1, <2>3
  <2> QED
    BY <1>3, <2>3, <2>4
<1>13. \A k, l \in DOMAIN calls' : calls'[k].slot = calls'[l].slot => k = l
  BY <1>3, <1>6
<1>14. calls' = <<>> => ret' = None
  <2>1. calls' = <<>> => Len(calls') = 0
    BY SeqEmpty
  <2>2. n - 1 = 0 => n = 1
    BY SMT, <1>3
  <2> QED
    BY <1>2, <1>3, <2>1, <2>2
<1>15. ASSUME calls' # <<>>
       PROVE  Answered(deps', modules', registered', Top', ret')
  <2>1. Len(calls') \in DOMAIN calls' /\ n - 1 \in DOMAIN calls' /\ n - 1 + 1 = n /\ n # 1
    <3>1. Len(calls') \in Nat \ {0}
      BY <1>3, <1>15, SeqEmpty
    <3>2. n - 1 # 0
      BY <1>3, <3>1
    <3>3. n - 1 \in 1..n - 1 /\ n - 1 + 1 = n /\ n # 1
      BY SMT, <1>3, <3>2
    <3> QED
      BY <1>3, <3>3
  <2>2. ret' = r
    BY <1>2, <2>1
  <2>3. Top' = calls[n - 1]
    BY <1>3, <2>1 DEF Top
  <2>4. WaitsFor(deps', modules', registered', calls[n - 1], Top.slot)
    BY <1>7, <1>10, <2>1
  <2>5. PICK c, s : c = Top' /\ s = Top.slot
    OBVIOUS
  <2>6. WaitsFor(deps', modules', registered', c, s)
    BY <2>3, <2>4, <2>5
  <2>7. s # nullptr
    <3>1. registered \in Nat /\ s \in 0..registered - 1
      BY Basics, <1>1, <2>5 DEF InTable
    <3> QED
      BY SMT, <3>1 DEF nullptr
  <2>8. r = "ok" => ReadyIn(modules', registered', deps'[modules'[c.slot].name][c.dep])
    BY <2>5, <2>6, <2>7 DEF WaitsFor, ReadyIn
  <2> QED
    BY <2>2, <2>5, <2>6, <2>8 DEF Answered, WaitsFor
<1> QED
  BY <1>1, <1>3, <1>9, <1>11, <1>12, <1>13, <1>14, <1>15 DEF CallsKept, S

\* A dependency is loaded: the call goes on with the next one.
LEMMA NextKept ==
  ASSUME ModuleInv, calls # <<>>, tree' = tree, registered' = registered, modules' = modules,
         op' = op, ret = "ok", ret' = None, calls' = [calls EXCEPT ![Len(calls)].dep = After(@)]
  PROVE  CallsKept' /\ calls' \in Seq([slot : Slots, dep : Nat \ {0}])
<1> DEFINE S == [slot : Slots, dep : Nat \ {0}]
           c == [Top EXCEPT !.dep = @ + 1]
<1>1. /\ Len(calls) \in Nat \ {0} /\ DOMAIN calls = 1..Len(calls) /\ calls \in Seq(S)
      /\ Top \in S /\ Len(calls) \in DOMAIN calls
      /\ CallKept(deps, modules, registered, Top) /\ Top.slot \in InTable /\ op = Idle
  BY CallsType
<1>2. c \in S /\ c.slot = Top.slot /\ c.dep = Top.dep + 1 /\ Top.dep \in Nat \ {0}
  BY SMT, <1>1
<1> HIDE DEF S
<1>3. PICK n : n = Len(calls)
  OBVIOUS
<1>4. calls' = [calls EXCEPT ![n] = c]
  BY <1>3 DEF After, Top
<1> HIDE DEF c
<1>5. calls' \in Seq(S) /\ Len(calls') = n /\ DOMAIN calls' = DOMAIN calls
  <2>1. [calls EXCEPT ![n] = c] \in Seq(S) /\ Len([calls EXCEPT ![n] = c]) = Len(calls)
    BY SMT, <1>1, <1>2, <1>3
  <2>2. calls' \in Seq(S) /\ Len(calls') = Len(calls)
    BY <1>4, <2>1
  <2> QED
    BY <1>3, <1>4, <2>2
<1>6. \A k \in DOMAIN calls : calls'[k] = IF k = n THEN c ELSE calls[k]
  BY <1>4
<1>7. \A k \in DOMAIN calls : calls'[k].slot = calls[k].slot
  BY <1>2, <1>3, <1>6 DEF Top
<1>8. Top' = c /\ Top = calls[n] /\ n \in DOMAIN calls
  BY <1>1, <1>3, <1>5, <1>6 DEF Top
<1>9. deps' = deps /\ InTable' = InTable
  BY SameTree DEF InTable
<1>10. CallKept(deps, modules, registered, c)
  <2>1. PICK D, t, d : D = deps[modules[Top.slot].name] /\ t = Top.dep /\ d = Len(D)
    OBVIOUS
  <2>2. t \in Nat \ {0} /\ c.dep = t + 1 /\ t <= d /\ ReadyIn(modules, registered, D[t])
    BY <1>2, <2>1, NoneIsNot DEF ModuleInv, CallsKept, Answered
  <2>3. \A i \in 1..t - 1 : ReadyIn(modules, registered, D[i])
    BY <1>1, <2>1 DEF CallKept
  <2>4. modules[Top.slot].name \in Names /\ deps \in [Names -> Seq(Names)]
    BY <1>1, Basics, TreeFacts
  <2>5. d \in Nat
    BY <2>1, <2>4, SeqLen
  <2>6. t + 1 <= d + 1 /\ t + 1 - 1 = t /\ \A i \in 1..t : i # t => i \in 1..t - 1
    BY SMT, <2>2, <2>5
  <2>7. c.dep <= Len(D) + 1 /\ \A i \in 1..c.dep - 1 : ReadyIn(modules, registered, D[i])
    <3>1. c.dep - 1 = t /\ c.dep <= d + 1
      BY SMT, <2>2, <2>5
    <3>2. \A i \in 1..t : ReadyIn(modules, registered, D[i])
      BY <2>2, <2>3, <2>6
    <3> QED
      BY <2>1, <3>1, <3>2
  <2> QED
    BY <1>1, <1>2, <2>1, <2>7 DEF CallKept
<1>11. \A k \in DOMAIN calls' : CallKept(deps', modules', registered', calls'[k])
  BY <1>5, <1>6, <1>9, <1>10 DEF ModuleInv, CallsKept
<1>12. ASSUME NEW k \in DOMAIN calls', k < Len(calls')
       PROVE  WaitsFor(deps', modules', registered', calls'[k], calls'[k + 1].slot)
  <2>1. n \in Nat /\ k \in 1..n /\ k < n
    BY <1>1, <1>3, <1>5, <1>12
  <2>2. k # n /\ k + 1 \in 1..n
    BY SMT, <2>1
  <2>3. WaitsFor(deps, modules, registered, calls[k], calls[k + 1].slot)
    BY <1>3, <1>5, <2>1 DEF ModuleInv, CallsKept
  <2> QED
    BY <1>1, <1>3, <1>5, <1>6, <1>7, <1>9, <2>2, <2>3
<1>13. \A k, l \in DOMAIN calls' : calls'[k].slot = calls'[l].slot => k = l
  <2> TAKE k, l \in DOMAIN calls'
  <2>1. calls[k].slot = calls[l].slot => k = l
    BY <1>5 DEF ModuleInv, CallsKept
  <2> QED
    BY <1>5, <1>7, <2>1
<1>14. \A s \in InTable' : modules'[s].state = "Loading" => \E k \in DOMAIN calls' : calls'[k].slot = s
  BY <1>5, <1>7, <1>9 DEF ModuleInv, CallsKept
<1>15. calls' # <<>>
  <2>1. calls' = <<>> => Len(calls') = 0
    BY SeqEmpty
  <2> QED
    BY <1>1, <1>3, <1>5, <2>1
<1>16. Answered(deps', modules', registered', Top', ret')
  BY NoneIsNot DEF Answered
<1> QED
  BY <1>1, <1>5, <1>11, <1>12, <1>13, <1>14, <1>15, <1>16 DEF CallsKept, S

\* The types after a step of load_locked()
LEMMA LoadType ==
  ASSUME ModuleInv, SameTable, mapped' = mapped, tables' = tables, refused' = refused, got' = got,
         panicked' = panicked, calls' \in Seq([slot : Slots, dep : Nat \ {0}]),
         ret' \in {None, "ok", "fail"}, boot' \in 0..Len(Builtin), failures' \in 0..MaxFailures
  PROVE  TypeOK'
<1>1. /\ Slots' = Slots /\ Builtin' = Builtin /\ MaxFailures' = MaxFailures
      /\ max_modules' = max_modules /\ max_tables' = max_tables
  BY SameTree DEF SameTable
<1>2. modules' \in [Slots -> Entry] /\ registered' = registered
  BY DEF SameTable
<1>3. TypeOK
  BY DEF ModuleInv
<1> QED
  BY <1>1, <1>2, <1>3 DEF TypeOK, Entry

\* Enter() keeps the invariant when the module it enters is the one waited for.
LEMMA EnterKept ==
  ASSUME ModuleInv, tree' = tree, registered' = registered, mapped' = mapped, tables' = tables, refused' = refused,
         op = Idle, op' = op, user' = user, got' = got, panicked' = panicked,
         failures' = failures, boot' \in 0..Len(Builtin), ret = None,
         NEW s \in InTable, Enter(s),
         calls # <<>> => WaitsFor(deps, modules, registered, Top, s)
  PROVE  ModuleInv' /\ Forward
<1>1. /\ InTable \subseteq Slots /\ modules \in [Slots -> Entry] /\ calls \in Seq([slot : Slots, dep : Nat \ {0}])
      /\ failures \in 0..MaxFailures /\ ModuleInv
  BY Basics DEF ModuleInv, TypeOK
<1>2. CASE modules[s].state = "Registered"
  <2>1. Switch(s) = None
    BY SMT, <1>2 DEF Switch
  <2>2. /\ modules' = SetState(s, "Loading")
        /\ calls' = Append(calls, [slot |-> s, dep |-> 1]) /\ ret' = None
    BY <2>1 DEF Enter
  <2>3. CallsKept' /\ calls' \in Seq([slot : Slots, dep : Nat \ {0}]) /\ SameTable /\ SameReady
    BY <1>2, <2>2, PushKept
  <2>4. \A r \in Slots : /\ modules'[r].dependents = modules[r].dependents
                         /\ modules'[r].users = modules[r].users
    BY <2>2, StateSet DEF ModuleState
  <2>5. TableKept' /\ OpKept' /\ ImagesKept' /\ UsersKept' /\ LinksKept'
    BY <2>3, <2>4, StateStep
  <2>6. TypeOK'
    BY <1>1, <2>2, <2>3, LoadType
  <2>7. \A r \in Slots : modules'[r].state = IF r = s THEN "Loading" ELSE modules[r].state
    BY <2>2, StateSet DEF ModuleState
  <2>8. Forward
    BY <1>1, <1>2, <2>7 DEF Forward
  <2> QED
    BY <2>3, <2>5, <2>6, <2>8 DEF ModuleInv
<1>3. CASE modules[s].state # "Registered"
  <2>1. modules[s].state \in {"Loading", "Ready", "Failed"}
    BY SMT, <1>1, <1>3 DEF Entry, ModuleState
  <2>2. Switch(s) \in {"ok", "fail"} /\ (Switch(s) = "ok" => modules[s].state = "Ready")
    BY SMT, <2>1 DEF Switch
  <2>3. modules' = modules /\ calls' = calls /\ ret' = IF calls = <<>> THEN None ELSE Switch(s)
    BY <2>2, NoneIsNot DEF Enter
  <2>4. SameTable /\ SameReady
    BY <1>1, <2>3 DEF SameTable, SameReady
  <2>5. TableKept' /\ OpKept' /\ ImagesKept' /\ UsersKept' /\ LinksKept'
    BY <2>3, <2>4, StateStep
  <2>6. TypeOK'
    BY <1>1, <2>2, <2>3, <2>4, LoadType
  <2>7. calls # <<>> => Answered(deps', modules', registered', Top, ret')
    <3>1. HAVE calls # <<>>
    <3>2. WaitsFor(deps, modules, registered, Top, s) /\ ret' = Switch(s) /\ deps' = deps
      BY <3>1, <2>3, SameTree
    <3>3. s # nullptr
      <4>1. registered \in Nat
        BY Basics
      <4> QED
        BY SMT, <4>1 DEF nullptr, InTable
    <3>4. modules[s].state = "Ready" => ReadyIn(modules, registered, deps[modules[Top.slot].name][Top.dep])
      BY <3>2, <3>3 DEF WaitsFor, ReadyIn
    <3> QED
      BY <2>2, <2>3, <3>2, <3>4 DEF Answered, WaitsFor
  <2>8. CallsKept'
    BY <2>3, <2>4, <2>7, CallsStay
  <2>9. Forward
    BY <2>3 DEF Forward
  <2> QED
    BY <2>5, <2>6, <2>8, <2>9 DEF ModuleInv
<1> QED
  BY <1>2, <1>3

\* Return() keeps it when the call fails.
LEMMA FailKept ==
  ASSUME ModuleInv, calls # <<>>, tree' = tree, registered' = registered, mapped' = mapped,
         tables' = tables, refused' = refused, op' = op, user' = user, got' = got, panicked' = panicked,
         failures' \in 0..MaxFailures, boot' = boot, Return("Failed", "fail")
  PROVE  ModuleInv' /\ Forward
<1>1. /\ Top.slot \in InTable /\ op = Idle /\ CallKept(deps, modules, registered, Top)
  BY CallsType
<1>2. PICK s : s = Top.slot
  OBVIOUS
<1>3. /\ s \in InTable /\ modules' = SetState(s, "Failed") /\ modules[s].state = "Loading"
      /\ calls' = SubSeq(calls, 1, Len(calls) - 1) /\ ret' = IF Len(calls) = 1 THEN None ELSE "fail"
  BY <1>1, <1>2 DEF CallKept, Return
<1>4. /\ SameTable /\ modules'[s].state = "Failed"
      /\ \A r \in Slots : modules'[r].state = IF r = s THEN "Failed" ELSE modules[r].state
      /\ \A r \in Slots : /\ modules'[r].dependents = modules[r].dependents
                          /\ modules'[r].users = modules[r].users
  BY <1>3, StateSet DEF ModuleState
<1>5. InTable \subseteq Slots
  BY Basics
<1>6. SameReady /\ ReadyGrows /\ \A r \in InTable : r # s => modules'[r].state = modules[r].state
  BY <1>3, <1>4, <1>5 DEF SameReady, ReadyGrows
<1>7. CallsKept' /\ calls' \in Seq([slot : Slots, dep : Nat \ {0}]) /\ ret' \in {None, "ok", "fail"}
  BY <1>2, <1>3, <1>4, <1>6, PopKept
<1>8. TableKept' /\ OpKept' /\ ImagesKept' /\ UsersKept' /\ LinksKept'
  BY <1>1, <1>4, <1>6, StateStep
<1>9. boot' \in 0..Len(Builtin)
  BY DEF ModuleInv, TypeOK
<1>10. TypeOK'
  BY <1>4, <1>7, <1>9, LoadType
<1>11. Forward
  BY <1>3, <1>4, <1>5 DEF Forward
<1> QED
  BY <1>7, <1>8, <1>10, <1>11 DEF ModuleInv

\* load_dependencies(), module_init_builtin() and module_load() keep the invariant.
LEMMA DependencyInd ==
  ASSUME ModuleInv, tree' = tree, Dependency
  PROVE  ModuleInv' /\ Forward
<1> DEFINE names == deps[modules[Top.slot].name]
           d == find(names[Top.dep])
<1>1. /\ calls # <<>> /\ ret = None /\ Top.dep <= Len(names)
      /\ registered' = registered /\ mapped' = mapped /\ tables' = tables /\ refused' = refused /\ boot' = boot
      /\ op' = op /\ user' = user /\ got' = got /\ panicked' = panicked /\ failures' = failures
      /\ IF d = nullptr \/ Len(calls) > max_modules THEN Return("Failed", "fail") ELSE Enter(d)
  BY DEF Dependency, loading, left, users
<1>2. op = Idle /\ boot' \in 0..Len(Builtin) /\ failures' \in 0..MaxFailures
  BY <1>1, CallsType DEF ModuleInv, TypeOK
<1>3. CASE d = nullptr \/ Len(calls) > max_modules
  BY <1>1, <1>2, <1>3, FailKept
<1>4. CASE ~(d = nullptr \/ Len(calls) > max_modules)
  <2>1. PICK s : s = d
    OBVIOUS
  <2>2. s = FindIn(modules, registered, names[Top.dep]) /\ s # nullptr
    BY <1>4, <2>1, Basics
  <2>3. s \in InTable
    BY <2>2, FoundAt
  <2>4. WaitsFor(deps, modules, registered, Top, s)
    BY <1>1, <2>2 DEF WaitsFor
  <2>5. Enter(s)
    BY <1>1, <1>4, <2>1
  <2> QED
    BY <1>1, <1>2, <2>3, <2>4, <2>5, EnterKept
<1> QED
  BY <1>3, <1>4

\* Back in load_locked() from a dependency: the next one, or the failure of it all.
LEMMA ReturnedInd ==
  ASSUME ModuleInv, tree' = tree, Returned
  PROVE  ModuleInv' /\ Forward
<1>1. /\ calls # <<>> /\ ret # None
      /\ registered' = registered /\ mapped' = mapped /\ tables' = tables /\ refused' = refused /\ boot' = boot
      /\ op' = op /\ user' = user /\ got' = got /\ panicked' = panicked /\ failures' = failures
      /\ IF ret # "ok" THEN Return("Failed", "fail")
         ELSE /\ calls' = [calls EXCEPT ![Len(calls)].dep = After(@)]
              /\ ret' = None /\ modules' = modules
  BY DEF Returned, GivesUp, loading, left, users
<1>2. /\ op = Idle /\ boot' \in 0..Len(Builtin) /\ failures' \in 0..MaxFailures
      /\ modules \in [Slots -> Entry]
  BY <1>1, CallsType, Basics DEF ModuleInv, TypeOK
<1>3. CASE ret # "ok"
  BY <1>1, <1>2, <1>3, FailKept
<1>4. CASE ret = "ok"
  <2>1. /\ calls' = [calls EXCEPT ![Len(calls)].dep = After(@)] /\ ret' = None
        /\ modules' = modules
    BY <1>1, <1>4
  <2>2. CallsKept' /\ calls' \in Seq([slot : Slots, dep : Nat \ {0}])
    BY <1>1, <1>4, <2>1, NextKept
  <2>3. SameTable /\ SameReady
    BY <1>1, <1>2, <2>1 DEF SameTable, SameReady
  <2>4. TableKept' /\ OpKept' /\ ImagesKept' /\ UsersKept' /\ LinksKept'
    BY <1>1, <1>2, <2>1, <2>3, StateStep
  <2>5. TypeOK'
    BY <1>1, <1>2, <2>1, <2>2, <2>3, LoadType
  <2>6. Forward
    BY <2>1 DEF Forward
  <2> QED
    BY <2>2, <2>4, <2>5, <2>6 DEF ModuleInv
<1> QED
  BY <1>3, <1>4

\* The init() of the innermost module fails: it is Failed and its links are undone.
LEMMA InitFailsInd ==
  ASSUME ModuleInv, tree' = tree, InitFails
  PROVE  ModuleInv' /\ Forward
<1>1. /\ calls # <<>> /\ failures < MaxFailures /\ failures' = failures + 1
      /\ registered' = registered /\ mapped' = mapped /\ tables' = tables /\ refused' = refused /\ boot' = boot
      /\ op' = op /\ user' = user /\ got' = got /\ panicked' = panicked
      /\ Return("Failed", "fail")
  BY DEF InitFails, InitCalled, loading, left, users
<1>2. failures \in 0..MaxFailures /\ MaxFailures \in Nat
  BY Basics, TreeFacts DEF ModuleInv, TypeOK
<1>3. failures' \in 0..MaxFailures
  BY SMT, <1>1, <1>2
<1> QED
  BY <1>1, <1>3, FailKept

\* module_load_all() asks for the next module linked in.
LEMMA LoadBuiltinInd ==
  ASSUME ModuleInv, tree' = tree, LoadBuiltin
  PROVE  ModuleInv' /\ Forward
<1>1. /\ calls = <<>> /\ op = Idle /\ boot < Len(Builtin) /\ boot' = boot + 1 /\ Enter(boot)
      /\ registered' = registered /\ mapped' = mapped /\ tables' = tables /\ refused' = refused
      /\ op' = op /\ user' = user /\ got' = got /\ panicked' = panicked /\ failures' = failures
  BY DEF LoadBuiltin, Free, users, left
<1>2. /\ boot \in 0..Len(Builtin) /\ Builtin \in Seq(Names) /\ Len(Builtin) <= registered
      /\ registered \in Nat /\ ret = None
  BY <1>1, Basics, TreeFacts, NoneLoading DEF ModuleInv, TypeOK, TableKept
<1>3. Len(Builtin) \in Nat
  BY <1>2, SeqLen
<1>4. PICK n : n = Len(Builtin)
  OBVIOUS
<1>5. boot' \in 0..n /\ boot \in InTable
  <2>1. boot \in 0..n /\ boot < n /\ n \in Nat /\ n <= registered /\ boot' = boot + 1
    BY <1>1, <1>2, <1>3, <1>4
  <2> QED
    BY SMT, <2>1, <1>2 DEF InTable
<1>6. PICK s : s = boot
  OBVIOUS
<1> QED
  BY <1>1, <1>2, <1>4, <1>5, <1>6, EnterKept

\* module_load() of a module by its name.
LEMMA LoadInd ==
  ASSUME ModuleInv, tree' = tree, NEW n \in Names, Load(n)
  PROVE  ModuleInv' /\ Forward
<1>1. /\ calls = <<>> /\ op = Idle /\ find(n) # nullptr /\ Enter(find(n)) /\ boot' = boot
      /\ registered' = registered /\ mapped' = mapped /\ tables' = tables /\ refused' = refused
      /\ op' = op /\ user' = user /\ got' = got /\ panicked' = panicked /\ failures' = failures
  BY DEF Load, Booted, Free, loading, left, users
<1>2. PICK s : s = find(n)
  OBVIOUS
<1>3. s \in InTable /\ Enter(s) /\ ret = None /\ boot' \in 0..Len(Builtin)
  <2>1. s = FindIn(modules, registered, n) /\ s # nullptr
    BY <1>1, <1>2, Basics
  <2>2. s \in InTable
    BY <2>1, FoundAt
  <2> QED
    BY <1>1, <1>2, <2>2, NoneLoading DEF ModuleInv, TypeOK
<1> QED
  BY <1>1, <1>3, EnterKept

----------------------------------------------------------------------------
(* acquire_dependencies() and release_dependencies()                        *)

\* The places where the module in slot t lists the one in slot s
Uses(D, ms, reg, t, s) ==
    {i \in DOMAIN D[ms[t].name] : FindIn(ms, reg, D[ms[t].name][i]) = s}

\* The uses of one module by another can be counted.
LEMMA UsesFinite ==
  ASSUME Counting, NEW D \in [Names -> Seq(Names)], NEW ms, NEW reg, NEW t, NEW s, ms[t].name \in Names
  PROVE  IsFiniteSet(Uses(D, ms, reg, t, s)) /\ Cardinality(Uses(D, ms, reg, t, s)) \in Nat
<1>1. D[ms[t].name] \in Seq(Names)
  OBVIOUS
<1>2. DOMAIN D[ms[t].name] = 1..Len(D[ms[t].name]) /\ Len(D[ms[t].name]) \in Int /\ 1 \in Int
  BY SMT, <1>1
<1>3. IsFiniteSet(DOMAIN D[ms[t].name])
  BY <1>2 DEF Counting, RangeSize
<1>4. Uses(D, ms, reg, t, s) \subseteq DOMAIN D[ms[t].name]
  BY DEF Uses
<1>5. IsFiniteSet(Uses(D, ms, reg, t, s))
  BY <1>3, <1>4 DEF Counting, PartSize
<1> QED
  BY <1>5 DEF Counting, SizeIsNat

\* find() sees the names alone.
SameNames(ms, ns, reg) == \A r \in 0..reg - 1 : ns[r].name = ms[r].name
SameFinds(ms, ns, reg) == \A n : FindIn(ns, reg, n) = FindIn(ms, reg, n)

\* find() gives the same slot in two tables with the same names.
LEMMA FindSame ==
  ASSUME NEW ms, NEW ns, NEW reg, SameNames(ms, ns, reg)
  PROVE  SameFinds(ms, ns, reg)
<1>1. \A n : Named(ns, reg, n) = Named(ms, reg, n)
  BY DEF Named, SameNames
<1> QED
  BY <1>1 DEF FindIn, SameFinds

\* The module in slot t is Ready in ns, not in ms, and the others are as they were.
OneReady(ms, ns, reg, t) ==
    /\ \A r \in 0..reg - 1 : ns[r].name = ms[r].name /\ ms[r].name \in Names
    /\ ms[t].state # "Ready" /\ ns[t].state = "Ready"
    /\ \A r \in 0..reg - 1 : r # t => (ns[r].state = "Ready" <=> ms[r].state = "Ready")

\* The links to slot s in ns are those in ms and those of the module in slot t.
Joins(D, ms, ns, reg, t, s) ==
    /\ Cardinality(LinksTo(D, ms, reg, s)) \in Nat
    /\ Cardinality(Uses(D, ms, reg, t, s)) \in Nat
    /\ Cardinality(LinksTo(D, ns, reg, s)) =
           Cardinality(LinksTo(D, ms, reg, s)) + Cardinality(Uses(D, ms, reg, t, s))

\* When one module becomes Ready, its own links join those there were.
LEMMA LinksJoin ==
  ASSUME Counting, NEW D \in [Names -> Seq(Names)], NEW ms, NEW ns, NEW reg \in Nat, NEW t \in 0..reg - 1,
         NEW s, OneReady(ms, ns, reg, t)
  PROVE  Joins(D, ms, ns, reg, t, s)
<1> DEFINE A == LinksTo(D, ms, reg, s)
           I == Uses(D, ms, reg, t, s)
           B == {t} \X I
<1>0. /\ \A r \in 0..reg - 1 : ns[r].name = ms[r].name /\ ms[r].name \in Names
      /\ ms[t].state # "Ready" /\ ns[t].state = "Ready"
      /\ \A r \in 0..reg - 1 : r # t => (ns[r].state = "Ready" <=> ms[r].state = "Ready")
  BY DEF OneReady
<1>9. \A n : FindIn(ns, reg, n) = FindIn(ms, reg, n)
  <2>1. SameNames(ms, ns, reg)
    BY <1>0 DEF SameNames
  <2>2. SameFinds(ms, ns, reg)
    BY <2>1, FindSame
  <2> QED
    BY <2>2 DEF SameFinds
<1>1. IsFiniteSet(A) /\ IsFiniteSet(I)
  BY <1>0, LinksFinite, UsesFinite
<1>2. \A e : e \in B <=> \E i \in I : e = <<t, i>>
  <2>1. \A e, S : e \in {t} \X S <=> \E i \in S : e = <<t, i>>
    BY SMT
  <2> QED
    BY <2>1
<1>3. ASSUME NEW e \in A, e \in B
      PROVE  FALSE
  <2>1. IsLink(D, ms, reg, s, e)
    BY LinkIs
  <2>2. PICK r \in 0..reg - 1 : \E i \in DOMAIN D[ms[r].name] : e = <<r, i>> /\ ms[r].state = "Ready"
    BY <2>1 DEF IsLink
  <2>3. PICK i : e = <<r, i>> /\ ms[r].state = "Ready"
    BY <2>2
  <2>4. PICK j \in I : e = <<t, j>>
    BY <1>2, <1>3
  <2>5. r = t
    BY SMT, <2>3, <2>4
  <2> QED
    BY <1>0, <2>3, <2>5
<1>4. ASSUME NEW e
      PROVE  e \in LinksTo(D, ns, reg, s) <=> e \in A \/ e \in B
  <2>1. ASSUME IsLink(D, ns, reg, s, e)
        PROVE  e \in A \/ e \in B
    <3>1. PICK r \in 0..reg - 1 : \E i \in DOMAIN D[ns[r].name] :
            /\ e = <<r, i>> /\ ns[r].state = "Ready"
            /\ FindIn(ns, reg, D[ns[r].name][i]) = s
      BY <2>1 DEF IsLink
    <3>2. PICK i \in DOMAIN D[ns[r].name] :
            /\ e = <<r, i>> /\ ns[r].state = "Ready"
            /\ FindIn(ns, reg, D[ns[r].name][i]) = s
      BY <3>1
    <3>3. ns[r].name = ms[r].name
      BY <1>0
    <3>4. i \in DOMAIN D[ms[r].name] /\ FindIn(ms, reg, D[ms[r].name][i]) = s
      BY <1>9, <3>2, <3>3
    <3>5. CASE r = t
      <4>1. i \in I
        BY <3>4, <3>5 DEF Uses
      <4> QED
        BY <1>2, <3>2, <3>5, <4>1
    <3>6. CASE r # t
      <4>1. IsLink(D, ms, reg, s, e)
        BY <1>0, <3>2, <3>4, <3>6 DEF IsLink
      <4> QED
        BY <4>1, LinkIs
    <3> QED
      BY <3>5, <3>6
  <2>2. ASSUME e \in A
        PROVE  IsLink(D, ns, reg, s, e)
    <3>1. IsLink(D, ms, reg, s, e)
      BY <2>2, LinkIs
    <3>2. \A r \in 0..reg - 1 : ns[r].name = ms[r].name /\ (ms[r].state = "Ready" => ns[r].state = "Ready")
      BY <1>0
    <3> QED
      BY <1>9, <3>1, <3>2, LinkMoves
  <2>3. ASSUME e \in B
        PROVE  IsLink(D, ns, reg, s, e)
    <3>1. PICK i \in I : e = <<t, i>>
      BY <1>2, <2>3
    <3>2. i \in DOMAIN D[ms[t].name] /\ FindIn(ms, reg, D[ms[t].name][i]) = s /\ ns[t].name = ms[t].name
      BY <1>0, <3>1 DEF Uses
    <3>3. i \in DOMAIN D[ns[t].name] /\ FindIn(ns, reg, D[ns[t].name][i]) = s
      BY <1>9, <3>2
    <3> QED
      BY <1>0, <3>1, <3>3 DEF IsLink
  <2> QED
    BY <2>1, <2>2, <2>3, LinkIs
<1> HIDE DEF A, I
<1>5. LinksTo(D, ns, reg, s) = A \cup B
  BY <1>4
<1>6. A \cap B = {}
  BY <1>3
<1>7. IsFiniteSet(B) /\ Cardinality(B) = Cardinality(I) /\ Cardinality(I) \in Nat
  BY <1>1, OwnCount
<1> HIDE DEF B
<1>8. Cardinality(A) \in Nat /\ Cardinality(A \cup B) = Cardinality(A) + Cardinality(B)
  BY <1>1, <1>6, <1>7, JoinedCount
<1> QED
  BY <1>5, <1>7, <1>8 DEF A, I, Joins

\* One more reference for each time that the module in slot t lists another, or one less
LEMMA Counted ==
  ASSUME ModuleInv, tree' = tree, registered' = registered, NEW t \in InTable,
         NEW st \in ModuleState, NEW by \in {1, -1},
         modules' = [Referenced(modules, deps[modules[t].name], by) EXCEPT ![t].state = st],
         \A s \in InTable : modules[s].dependents
                + by * Cardinality(Uses(deps, modules, registered, t, s)) \in Nat
  PROVE  /\ SameTable
         /\ \A r \in Slots : modules'[r].state = IF r = t THEN st ELSE modules[r].state
         /\ \A r \in Slots : modules'[r].users = modules[r].users
         /\ \A r \in InTable : modules'[r].dependents = modules[r].dependents
                + by * Cardinality(Uses(deps, modules, registered, t, r))
         /\ \A r \in Slots : r >= registered => modules'[r].dependents = modules[r].dependents
<1> DEFINE R == Referenced(modules, deps[modules[t].name], by)
           U(r) == Cardinality(Uses(deps, modules, registered, t, r))
           E(r) == IF r < registered
                   THEN [modules[r] EXCEPT !.dependents = @ + by * U(r)] ELSE modules[r]
<1>1. /\ registered \in Nat /\ InTable \subseteq Slots /\ modules \in [Slots -> Entry]
      /\ \A n : find(n) = FindIn(modules, registered, n)
  BY Basics
<1>2. R = [r \in Slots |-> E(r)]
  BY <1>1 DEF Referenced, Uses
<1> HIDE DEF R
<1>3. modules' = [r \in Slots |-> IF r = t THEN [E(t) EXCEPT !.state = st] ELSE E(r)]
  <2>1. modules' = [R EXCEPT ![t] = [R[t] EXCEPT !.state = st]]
    BY DEF R
  <2> QED
    BY <1>1, <1>2, <2>1
<1>4. ASSUME NEW r \in Slots
      PROVE  /\ E(r) \in Entry /\ E(r).name = modules[r].name /\ E(r).base = modules[r].base
             /\ E(r).users = modules[r].users /\ E(r).state = modules[r].state
             /\ r \in InTable => E(r).dependents = modules[r].dependents + by * U(r)
             /\ r >= registered => E(r).dependents = modules[r].dependents
  <2>1. r < registered <=> r \in InTable
    <3>1. max_modules \in Nat
      BY Basics, TreeFacts
    <3> QED
      BY SMT, <1>1, <3>1 DEF InTable, Slots
  <2>2. r >= registered => r \notin InTable
    BY SMT, <1>1 DEF InTable
  <2>3. modules[r] \in Entry
    BY <1>1
  <2>4. CASE r \in InTable
    <3> DEFINE c == modules[r].dependents + by * U(r)
    <3>1. E(r) = [modules[r] EXCEPT !.dependents = c] /\ c \in Nat
      BY <2>1, <2>4
    <3> HIDE DEF c, E
    <3>2. /\ E(r) \in Entry /\ E(r).name = modules[r].name /\ E(r).base = modules[r].base
          /\ E(r).users = modules[r].users /\ E(r).state = modules[r].state
          /\ E(r).dependents = c
      BY SMT, <2>3, <3>1 DEF Entry
    <3> QED
      BY <2>2, <2>4, <3>2 DEF c
  <2>5. CASE r \notin InTable
    BY <2>1, <2>3, <2>5
  <2> QED
    BY <2>4, <2>5
<1> HIDE DEF E
<1>5. ASSUME NEW r \in Slots
      PROVE  /\ [E(r) EXCEPT !.state = st] \in Entry
             /\ [E(r) EXCEPT !.state = st].name = E(r).name
             /\ [E(r) EXCEPT !.state = st].base = E(r).base
             /\ [E(r) EXCEPT !.state = st].users = E(r).users
             /\ [E(r) EXCEPT !.state = st].dependents = E(r).dependents
             /\ [E(r) EXCEPT !.state = st].state = st
  <2>1. E(r) \in Entry
    BY <1>4
  <2> QED
    BY SMT, <2>1 DEF Entry
<1>6. \A r \in Slots : modules'[r] = IF r = t THEN [E(r) EXCEPT !.state = st] ELSE E(r)
  BY <1>3
<1>7. ASSUME NEW r \in Slots
      PROVE  /\ modules'[r] \in Entry
             /\ modules'[r].name = modules[r].name /\ modules'[r].base = modules[r].base
             /\ modules'[r].users = modules[r].users
             /\ modules'[r].state = IF r = t THEN st ELSE modules[r].state
             /\ r \in InTable => modules'[r].dependents = modules[r].dependents + by * U(r)
             /\ r >= registered => modules'[r].dependents = modules[r].dependents
  <2>1. CASE r = t
    <3>1. modules'[r] = [E(r) EXCEPT !.state = st]
      BY <1>6, <2>1
    <3>2. /\ modules'[r] \in Entry
          /\ modules'[r].name = E(r).name /\ modules'[r].base = E(r).base
          /\ modules'[r].users = E(r).users /\ modules'[r].dependents = E(r).dependents
          /\ modules'[r].state = st
      BY <1>5, <3>1
    <3> QED
      BY <1>4, <2>1, <3>2
  <2>2. CASE r # t
    <3>1. modules'[r] = E(r)
      BY <1>6, <2>2
    <3> QED
      BY <1>4, <2>2, <3>1
  <2> QED
    BY <2>1, <2>2
<1>8. modules' \in [Slots -> Entry]
  <2>1. modules' = [r \in Slots |-> modules'[r]]
    BY <1>3
  <2> QED
    BY <1>7, <2>1
<1>9. SameTable
  BY <1>7, <1>8 DEF SameTable
<1>10. \A r \in InTable : modules'[r].dependents = modules[r].dependents + by * U(r)
  BY <1>1, <1>7
<1> QED
  BY <1>7, <1>9, <1>10

\* init() returned true: the module is Ready and holds a reference on each dependency.
LEMMA InitSucceedsInd ==
  ASSUME Counting, ModuleInv, tree' = tree, InitSucceeds
  PROVE  ModuleInv' /\ Forward
<1>1. /\ calls # <<>> /\ ret = None /\ Top.dep > Len(deps[modules[Top.slot].name])
      /\ modules' = [Referenced(modules, deps[modules[Top.slot].name], 1)
                        EXCEPT ![Top.slot].state = "Ready"]
      /\ calls' = SubSeq(calls, 1, Len(calls) - 1)
      /\ ret' = IF Len(calls) = 1 THEN None ELSE "ok"
      /\ registered' = registered /\ mapped' = mapped /\ tables' = tables /\ refused' = refused /\ boot' = boot
      /\ op' = op /\ user' = user /\ got' = got /\ panicked' = panicked /\ failures' = failures
  BY DEF InitSucceeds, InitCalled, acquire_dependencies, loading, left, users
<1>2. PICK t : t = Top.slot
  OBVIOUS
<1> DEFINE N == deps[modules[t].name]
           U(s) == Uses(deps, modules, registered, t, s)
<1>3. /\ t \in InTable /\ op = Idle /\ modules[t].state = "Loading" /\ t \in Slots
      /\ registered \in Nat /\ InTable \subseteq Slots /\ modules \in [Slots -> Entry]
      /\ deps \in [Names -> Seq(Names)] /\ \A s \in InTable : modules[s].name \in Names
      /\ boot \in 0..Len(Builtin) /\ failures \in 0..MaxFailures
  BY <1>1, <1>2, CallsType, Basics, TreeFacts DEF CallKept, ModuleInv, TypeOK
<1>4. \A i \in DOMAIN N : ReadyIn(modules, registered, N[i])
  <2>1. PICK d, n : d = Top.dep /\ n = Len(N)
    OBVIOUS
  <2>2. d \in Nat \ {0}
    BY <1>1, <2>1, CallsType
  <2>3. DOMAIN N = 1..n /\ n \in Nat
    BY <1>3, <2>1, SeqLen
  <2>4. d > n
    BY <1>1, <1>2, <2>1
  <2>5. 1..n \subseteq 1..d - 1
    BY SMT, <2>2, <2>3, <2>4
  <2>6. \A i \in 1..d - 1 : ReadyIn(modules, registered, N[i])
    BY <1>1, <1>2, <2>1, CallsType DEF CallKept
  <2> QED
    BY <2>3, <2>5, <2>6
<1>5. ASSUME NEW s \in InTable
      PROVE  modules[s].dependents \in Nat /\ Cardinality(U(s)) \in Nat
  <2>1. modules[s] \in Entry
    BY <1>3
  <2>2. modules[s].dependents \in Nat
    BY SMT, <2>1 DEF Entry
  <2> QED
    BY <1>3, <2>2, UsesFinite
<1>6. \A s \in InTable : modules[s].dependents + 1 * Cardinality(U(s)) \in Nat
  <2>1. \A a, b \in Nat : a + 1 * b \in Nat
    BY SMT
  <2> QED
    BY <1>5, <2>1
<1>7. /\ SameTable
      /\ \A r \in Slots : modules'[r].state = IF r = t THEN "Ready" ELSE modules[r].state
      /\ \A r \in Slots : modules'[r].users = modules[r].users
      /\ \A r \in InTable : modules'[r].dependents = modules[r].dependents + 1 * Cardinality(U(r))
      /\ \A r \in Slots : r >= registered => modules'[r].dependents = modules[r].dependents
  BY <1>1, <1>2, <1>3, <1>6, Counted DEF ModuleState
<1>8. ReadyGrows /\ \A s \in InTable : s # t => modules'[s].state = modules[s].state
  BY <1>3, <1>7 DEF ReadyGrows
<1>9. CallsKept' /\ calls' \in Seq([slot : Slots, dep : Nat \ {0}]) /\ ret' \in {None, "ok", "fail"}
  <2>1. modules'[Top.slot].state = "Ready"
    BY <1>2, <1>3, <1>7
  <2> QED
    BY <1>1, <1>2, <1>7, <1>8, <2>1, PopKept
<1>10. TypeOK'
  BY <1>1, <1>3, <1>7, <1>9, LoadType
<1>11. /\ InTable' = InTable /\ deps' = deps /\ \A s \in InTable : modules'[s].name = modules[s].name
       /\ \A n : FindIn(modules', registered', n) = FindIn(modules, registered, n)
       /\ \A s \in InTable : modules'[s].base = modules[s].base
  BY <1>3, <1>7, FindStays, SameTree DEF SameTable
<1>12. TableKept'
  <2>1. \A s \in InTable : modules[s].base # None => modules[s].base \in mapped'
    BY <1>1 DEF ModuleInv, TableKept
  <2> QED
    BY <1>7, <2>1, TableStays
<1>13. OpKept'
  BY <1>1, <1>3 DEF OpKept
<1>14. ImagesKept'
  <2>1. \A i \in DOMAIN tables : tables[i] \in mapped \cup refused
    BY DEF ModuleInv, ImagesKept
  <2>2. \A b \in mapped : \E s \in InTable : modules[s].base = b
    BY <1>3 DEF ModuleInv, ImagesKept
  <2>3. \A b \in mapped : \E s \in InTable : modules'[s].base = b
    BY <1>11, <2>2
  <2> QED
    BY <1>1, <1>11, <2>1, <2>3 DEF ImagesKept
<1>15. UsersKept'
  <2>1. \A s \in InTable : modules'[s].users = modules[s].users
    BY <1>3, <1>7
  <2> QED
    BY <1>1, <1>7, <1>8, <2>1, UsersStay DEF ReadyGrows
<1>16. ASSUME NEW s \in InTable
       PROVE  modules'[s].dependents = Cardinality(LinksTo(deps', modules', registered', s))
  <2>1. /\ Cardinality(LinksTo(deps, modules, registered, s)) \in Nat /\ Cardinality(U(s)) \in Nat
        /\ Cardinality(LinksTo(deps, modules', registered, s)) =
                Cardinality(LinksTo(deps, modules, registered, s)) + Cardinality(U(s))
    <3>1. PICK ns : ns = modules'
      OBVIOUS
    <3>2. OneReady(modules, ns, registered, t)
      <4>1. \A r \in InTable : ns[r].name = modules[r].name /\ modules[r].name \in Names
        BY <1>3, <1>11, <3>1
      <4>3. modules[t].state # "Ready" /\ ns[t].state = "Ready"
        BY <1>3, <1>7, <3>1
      <4>4. \A r \in InTable : r # t => (ns[r].state = "Ready" <=> modules[r].state = "Ready")
        BY <1>8, <3>1
      <4> QED
        BY <4>1, <4>3, <4>4 DEF InTable, OneReady
    <3>3. Joins(deps, modules, ns, registered, t, s)
      BY <1>3, <3>2, LinksJoin DEF InTable
    <3> QED
      BY <3>1, <3>3 DEF Joins
  <2>2. modules[s].dependents = Cardinality(LinksTo(deps, modules, registered, s))
    BY DEF ModuleInv, LinksKept
  <2>3. PICK a, b : a = Cardinality(LinksTo(deps, modules, registered, s)) /\ b = Cardinality(U(s))
    OBVIOUS
  <2>4. a + 1 * b = a + b
    <3>1. \A x, y \in Nat : x + 1 * y = x + y
      BY SMT
    <3> QED
      BY <2>1, <2>3, <3>1
  <2>5. modules'[s].dependents = a + 1 * b
    BY <1>7, <2>2, <2>3
  <2>6. Cardinality(LinksTo(deps', modules', registered', s)) = a + b
    BY <1>1, <1>11, <2>1, <2>3
  <2> QED
    BY <2>4, <2>5, <2>6
<1>17. ASSUME NEW s \in InTable, modules'[s].state = "Ready",
              NEW i \in DOMAIN deps'[modules'[s].name]
       PROVE  ReadyIn(modules', registered', deps'[modules'[s].name][i])
  <2>1. PICK n : n = deps[modules[s].name][i]
    OBVIOUS
  <2>2. i \in DOMAIN deps[modules[s].name]
    BY <1>11
  <2>3. ReadyIn(modules, registered, n)
    <3>1. CASE s = t
      BY <1>4, <2>1, <2>2, <3>1
    <3>2. CASE s # t
      <4>1. modules[s].state = "Ready"
        BY <1>8, <1>17, <3>2
      <4> QED
        BY <2>1, <2>2, <4>1 DEF ModuleInv, LinksKept
    <3> QED
      BY <3>1, <3>2
  <2>4. ReadyIn(modules', registered', n)
    BY <1>7, <1>8, <2>3, ReadyStays DEF ReadyGrows
  <2> QED
    BY <1>11, <2>1, <2>4
<1>18. LinksKept'
  BY <1>11, <1>16, <1>17 DEF LinksKept
<1>19. Forward
  BY <1>3, <1>4, <1>7 DEF Forward
<1> QED
  BY <1>9, <1>10, <1>12, <1>13, <1>14, <1>15, <1>18, <1>19 DEF ModuleInv

\* A module without dependents is listed by no module that is Ready.
LEMMA NoLink ==
  ASSUME Counting, ModuleInv, NEW s \in InTable, modules[s].dependents = 0,
         NEW r \in InTable, modules[r].state = "Ready", NEW i \in DOMAIN deps[modules[r].name]
  PROVE  FindIn(modules, registered, deps[modules[r].name][i]) # s
<1> SUFFICES ASSUME FindIn(modules, registered, deps[modules[r].name][i]) = s
             PROVE  FALSE
  BY SMT
<1> DEFINE L == LinksTo(deps, modules, registered, s)
<1>1. IsLink(deps, modules, registered, s, <<r, i>>)
  BY DEF IsLink, InTable
<1>2. <<r, i>> \in L
  BY <1>1, LinkIs
<1>3. Cardinality(L) = 0
  BY DEF ModuleInv, LinksKept
<1>4. IsFiniteSet(L)
  <2>1. /\ registered \in Nat /\ deps \in [Names -> Seq(Names)]
        /\ \A q \in 0..registered - 1 : modules[q].name \in Names
    BY Basics, TreeFacts DEF InTable
  <2> QED
    BY <2>1, LinksFinite
<1> HIDE DEF L
<1> QED
  BY <1>2, <1>3, <1>4 DEF Counting, EmptySize

\* What a module that goes gives back it had taken.
LEMMA GivesBack ==
  ASSUME Counting, ModuleInv, NEW t \in InTable, NEW s \in InTable,
         NEW ms, OneReady(ms, modules, registered, t)
  PROVE  /\ Cardinality(LinksTo(deps, ms, registered, s)) \in Nat
         /\ Cardinality(Uses(deps, ms, registered, t, s)) \in Nat
         /\ Uses(deps, ms, registered, t, s) = Uses(deps, modules, registered, t, s)
         /\ modules[s].dependents = Cardinality(LinksTo(deps, ms, registered, s))
                + Cardinality(Uses(deps, ms, registered, t, s))
<1>1. registered \in Nat /\ deps \in [Names -> Seq(Names)] /\ t \in 0..registered - 1
  BY Basics, TreeFacts DEF InTable
<1>2. modules[s].dependents = Cardinality(LinksTo(deps, modules, registered, s))
  BY DEF ModuleInv, LinksKept
<1>3. Joins(deps, ms, modules, registered, t, s)
  BY <1>1, LinksJoin
<1>4. SameNames(ms, modules, registered)
  BY DEF SameNames, OneReady
<1>5. SameFinds(ms, modules, registered)
  BY <1>4, FindSame
<1>6. modules[t].name = ms[t].name
  BY <1>1, <1>4 DEF SameNames
<1>7. Uses(deps, ms, registered, t, s) = Uses(deps, modules, registered, t, s)
  BY <1>5, <1>6 DEF Uses, SameFinds
<1> QED
  BY <1>2, <1>3, <1>7 DEF Joins

\* What the loader does, by op.at
LEMMA OpIs ==
  ASSUME ModuleInv
  PROVE  /\ op.at \in {"relocate", "register"} => ImageInHand
         /\ op.at \in {"exit", "remove"} => ModuleGoes
         /\ op.at = "release" => ImageGoes
         /\ op.at # "idle" => calls = <<>> /\ ret = None
<1>1. OpKept
  BY DEF ModuleInv
<1>2. op = Idle => op.at = "idle"
  BY NoneIsNot
<1>3. ImageInHand => op.at \in {"relocate", "register"}
  BY SMT DEF ImageInHand
<1>4. ModuleGoes => op.at \in {"exit", "remove"}
  BY SMT DEF ModuleGoes
<1>5. ImageGoes => op.at = "release"
  BY SMT DEF ImageGoes
<1>6. op.at # "idle" => calls = <<>> /\ ret = None
  BY <1>2 DEF ModuleInv, CallsKept
<1> QED
  BY <1>1, <1>2, <1>3, <1>4, <1>5, <1>6 DEF OpKept

\* The types after a step on a module or an image, with no call under way
LEMMA WorkType ==
  ASSUME ModuleInv, tree' = tree, modules' \in [Slots -> Entry], registered' \in 0..max_modules,
         mapped' \subseteq Base, tables' \in Seq(Base), Len(tables') <= max_tables,
         refused' \subseteq Base, calls' = calls, ret' = ret, boot' = boot, got' = got, panicked' = panicked,
         failures' \in 0..MaxFailures
  PROVE  TypeOK'
<1>1. /\ Slots' = Slots /\ Builtin' = Builtin /\ MaxFailures' = MaxFailures
      /\ max_modules' = max_modules /\ max_tables' = max_tables
  BY SameTree
<1>2. TypeOK
  BY DEF ModuleInv
<1> QED
  BY <1>1, <1>2 DEF TypeOK, Entry

\* exit() returned: the module gives its references back, and every one is there.
LEMMA ExitInd ==
  ASSUME Counting, ModuleInv, tree' = tree, Exit
  PROVE  ModuleInv' /\ Forward /\ panicked' = panicked
<1>1. PICK t : t = op.slot
  OBVIOUS
<1> DEFINE N == deps[modules[t].name]
           U(s) == Uses(deps, modules, registered, t, s)
           M == [modules EXCEPT ![t].state = "Registered"]
<1>2. /\ op.at = "exit" /\ registered' = registered /\ mapped' = mapped /\ tables' = tables /\ refused' = refused
      /\ calls' = calls /\ ret' = ret /\ boot' = boot /\ user' = user /\ got' = got
      /\ failures' = failures
      /\ IF \E i \in DOMAIN N : find(N[i]) # nullptr /\ modules[find(N[i])].dependents = 0
         THEN panicked' = TRUE /\ UNCHANGED <<modules, op>>
         ELSE /\ modules' = [Referenced(modules, N, -1) EXCEPT ![t].state = "Registered"]
              /\ op' = IF modules[t].base = None THEN Idle ELSE [op EXCEPT !.at = "remove"]
              /\ UNCHANGED panicked
  BY <1>1 DEF Exit, left
<1>3. /\ op \in [at : {"exit", "remove"}, slot : Slots] /\ t \in InTable
      /\ modules[t].name \in Unloaded /\ modules[t].dependents = 0 /\ modules[t].state = "Ready"
      /\ calls = <<>> /\ ret = None
  BY <1>1, <1>2, OpIs DEF ModuleGoes
<1>4. /\ registered \in Nat /\ InTable \subseteq Slots /\ modules \in [Slots -> Entry] /\ t \in Slots
      /\ deps \in [Names -> Seq(Names)] /\ \A s \in InTable : modules[s].name \in Names
      /\ \A n : find(n) = FindIn(modules, registered, n)
  BY <1>3, Basics, TreeFacts
<1>5. ~\E i \in DOMAIN N : find(N[i]) # nullptr /\ modules[find(N[i])].dependents = 0
  <2> SUFFICES ASSUME NEW i \in DOMAIN N, find(N[i]) # nullptr, modules[find(N[i])].dependents = 0
               PROVE  FALSE
    OBVIOUS
  <2>1. PICK d : d = FindIn(modules, registered, N[i])
    OBVIOUS
  <2>2. d # nullptr /\ modules[d].dependents = 0
    BY <1>4, <2>1
  <2>3. d \in InTable
    BY <2>1, <2>2, FoundAt
  <2> QED
    BY <1>3, <2>1, <2>2, <2>3, NoLink
<1>6. /\ modules' = [Referenced(modules, N, -1) EXCEPT ![t].state = "Registered"]
      /\ op' = IF modules[t].base = None THEN Idle ELSE [op EXCEPT !.at = "remove"]
      /\ panicked' = panicked
  BY <1>2, <1>5
<1>7. OneReady(M, modules, registered, t)
  <2>1. modules[t] \in Entry
    BY <1>4
  <2>2. M[t] = [modules[t] EXCEPT !.state = "Registered"] /\ \A r \in InTable : r # t => M[r] = modules[r]
    BY <1>3, <1>4
  <2>3. M[t].name = modules[t].name /\ M[t].state = "Registered"
    BY SMT, <2>1, <2>2 DEF Entry
  <2> HIDE DEF M
  <2>4. \A r \in InTable : modules[r].name = M[r].name
    BY <2>2, <2>3
  <2> QED
    BY <1>3, <1>4, <2>2, <2>3, <2>4 DEF OneReady, InTable
<1> HIDE DEF M
<1>8. \A s \in InTable : modules[s].dependents + (-1) * Cardinality(U(s)) \in Nat
  <2> TAKE s \in InTable
  <2>1. PICK a, b : a = Cardinality(LinksTo(deps, M, registered, s)) /\ b = Cardinality(U(s))
    OBVIOUS
  <2>2. a \in Nat /\ b \in Nat /\ modules[s].dependents = a + b
    BY <1>3, <1>7, <2>1, GivesBack
  <2>3. \A x, y \in Nat : x + y + (-1) * y \in Nat
    BY SMT
  <2> QED
    BY <2>1, <2>2, <2>3
<1>9. /\ SameTable
      /\ \A r \in Slots : modules'[r].state = IF r = t THEN "Registered" ELSE modules[r].state
      /\ \A r \in Slots : modules'[r].users = modules[r].users
      /\ \A r \in InTable : modules'[r].dependents = modules[r].dependents + (-1) * Cardinality(U(r))
      /\ \A r \in Slots : r >= registered => modules'[r].dependents = modules[r].dependents
  <2>1. PICK by : by = -1
    OBVIOUS
  <2>2. by \in {1, -1} /\ "Registered" \in ModuleState
    BY <2>1 DEF ModuleState
  <2> QED
    BY <1>2, <1>3, <1>6, <1>8, <2>1, <2>2, Counted
<1>10. /\ InTable' = InTable /\ deps' = deps /\ Slots' = Slots /\ Unloaded' = Unloaded
       /\ \A s \in InTable : modules'[s].name = modules[s].name
       /\ \A n : FindIn(modules', registered', n) = FindIn(modules, registered, n)
       /\ \A s \in InTable : modules'[s].base = modules[s].base
  BY <1>4, <1>9, FindStays, SameTree DEF SameTable
<1>11. OneReady(modules', modules, registered, t)
  <2>1. \A r \in InTable : modules[r].name = modules'[r].name /\ modules'[r].name \in Names
    BY <1>4, <1>10
  <2>2. modules'[t].state # "Ready"
    BY <1>4, <1>9
  <2>3. \A r \in InTable : r # t => (modules[r].state = "Ready" <=> modules'[r].state = "Ready")
    BY <1>4, <1>9
  <2> QED
    BY <1>3, <2>1, <2>2, <2>3 DEF OneReady, InTable
<1>12. ASSUME NEW s \in InTable
       PROVE  modules'[s].dependents = Cardinality(LinksTo(deps', modules', registered', s))
  <2>1. PICK ms : ms = modules'
    OBVIOUS
  <2>2. PICK a, b : a = Cardinality(LinksTo(deps, ms, registered, s)) /\ b = Cardinality(U(s))
    OBVIOUS
  <2>3. a \in Nat /\ b \in Nat /\ modules[s].dependents = a + b
    BY <1>3, <1>11, <2>1, <2>2, GivesBack
  <2>4. a + b + (-1) * b = a
    <3>1. \A x, y \in Nat : x + y + (-1) * y = x
      BY SMT
    <3> QED
      BY <2>3, <3>1
  <2>5. modules'[s].dependents = a + b + (-1) * b
    BY <1>9, <2>2, <2>3
  <2> QED
    BY <1>2, <1>10, <2>1, <2>2, <2>4, <2>5
<1>13. ASSUME NEW s \in InTable, modules'[s].state = "Ready",
              NEW i \in DOMAIN deps'[modules'[s].name]
       PROVE  ReadyIn(modules', registered', deps'[modules'[s].name][i])
  <2>1. PICK n : n = deps[modules[s].name][i]
    OBVIOUS
  <2>2. i \in DOMAIN deps[modules[s].name] /\ modules[s].state = "Ready"
    BY <1>4, <1>9, <1>10, <1>13
  <2>3. ReadyIn(modules, registered, n) /\ FindIn(modules, registered, n) # t
    BY <1>3, <2>1, <2>2, NoLink DEF ModuleInv, LinksKept
  <2>4. FindIn(modules, registered, n) \in InTable
    BY <2>3, FoundAt DEF ReadyIn
  <2>5. ReadyIn(modules', registered', n)
    BY <1>4, <1>9, <1>10, <2>3, <2>4 DEF ReadyIn
  <2> QED
    BY <1>10, <2>1, <2>5
<1>14. LinksKept'
  BY <1>10, <1>12, <1>13 DEF LinksKept
<1>15. UsersKept'
  <2>1. /\ \A s \in InTable : modules'[s].users = modules[s].users
        /\ \A s \in InTable : modules[s].state = "Ready" =>
              modules'[s].state = "Ready" \/ modules[s].name \in Unloaded
    BY <1>3, <1>4, <1>9
  <2> QED
    BY <1>2, <1>9, <2>1, UsersStay
<1>16. TableKept'
  <2>1. \A s \in InTable : modules[s].base # None => modules[s].base \in mapped'
    BY <1>2 DEF ModuleInv, TableKept
  <2> QED
    BY <1>9, <2>1, TableStays
<1>17. CallsKept'
  <2>1. \A s \in InTable' : modules'[s].state # "Loading"
    BY <1>3, <1>4, <1>9, <1>10, NoneLoading
  <2> QED
    BY <1>2, <1>3, <2>1, QuietCalls
<1>18. ImagesKept'
  <2>1. \A i \in DOMAIN tables : tables[i] \in mapped \cup refused
    BY DEF ModuleInv, ImagesKept
  <2>2. \A b \in mapped : \E s \in InTable : modules[s].base = b
    BY <1>2 DEF ModuleInv, ImagesKept
  <2>3. \A b \in mapped : \E s \in InTable : modules'[s].base = b
    BY <1>10, <2>2
  <2> QED
    BY <1>2, <1>10, <2>1, <2>3 DEF ImagesKept
<1>19. OpKept'
  <2>1. CASE modules[t].base = None
    BY <1>6, <2>1 DEF OpKept
  <2>2. CASE modules[t].base # None
    <3>1. op' = [op EXCEPT !.at = "remove"]
      BY <1>6, <2>2
    <3>2. op' \in [at : {"exit", "remove"}, slot : Slots] /\ op'.slot = t /\ op'.at = "remove"
      BY SMT, <1>1, <1>3, <3>1
    <3>3. modules'[t].dependents = 0
      <4>1. PICK b : b = Cardinality(U(t))
        OBVIOUS
      <4>2. b \in Nat /\ 0 + (-1) * b \in Nat /\ modules'[t].dependents = 0 + (-1) * b
        <5>1. b \in Nat
          BY <1>3, <1>4, <4>1, UsesFinite
        <5> QED
          BY <1>3, <1>8, <1>9, <4>1, <5>1
      <4>3. \A y \in Nat : 0 + (-1) * y \in Nat => 0 + (-1) * y = 0
        BY SMT
      <4> QED
        BY <4>2, <4>3
    <3>4. modules'[t].state = "Registered" /\ modules'[t].name \in Unloaded' /\ modules'[t].base # None
      BY <1>3, <1>4, <1>9, <1>10, <2>2
    <3> QED
      BY <1>3, <1>10, <3>2, <3>3, <3>4 DEF OpKept, ModuleGoes
  <2> QED
    BY <2>1, <2>2
<1>20. TypeOK'
  <2>1. /\ modules' \in [Slots -> Entry] /\ registered' \in 0..max_modules /\ mapped' \subseteq Base
        /\ refused' \subseteq Base /\ tables' \in Seq(Base) /\ Len(tables') <= max_tables /\ failures' \in 0..MaxFailures
    BY <1>2, <1>9 DEF ModuleInv, TypeOK, SameTable
  <2> QED
    BY <1>2, <1>6, <2>1, WorkType
<1>21. Forward
  BY <1>3, <1>4, <1>9 DEF Forward
<1> QED
  BY <1>6, <1>14, <1>15, <1>16, <1>17, <1>18, <1>19, <1>20, <1>21 DEF ModuleInv

----------------------------------------------------------------------------
(* module_get() and module_put()                                            *)

\* A step of a user changes its own state and the count of users.
LEMMA UserStep ==
  ASSUME ModuleInv, SameTable, mapped' = mapped, tables' = tables, refused' = refused, calls' = calls, ret' = ret,
         boot' = boot, op' = op, failures' = failures, panicked' = panicked,
         got' \in [Users -> Names \cup {None}],
         \A s \in Slots : /\ modules'[s].state = modules[s].state
                          /\ modules'[s].dependents = modules[s].dependents
                          /\ s >= registered => modules'[s].users = modules[s].users
  PROVE  TypeOK' /\ TableKept' /\ CallsKept' /\ OpKept' /\ ImagesKept' /\ LinksKept'
<1>1. /\ InTable' = InTable /\ InTable \subseteq Slots
      /\ \A s \in InTable : modules'[s].name = modules[s].name
      /\ \A n : FindIn(modules', registered', n) = FindIn(modules, registered, n)
  BY FindStays
<1>2. /\ deps' = deps /\ Slots' = Slots /\ Files' = Files /\ Descriptors' = Descriptors
      /\ Exporting' = Exporting /\ Unloaded' = Unloaded /\ Builtin' = Builtin
      /\ MaxFailures' = MaxFailures /\ max_modules' = max_modules /\ max_tables' = max_tables
      /\ registered' = registered /\ modules' \in [Slots -> Entry]
  BY SameTree DEF SameTable
<1>3. \A s \in InTable : /\ modules'[s].base = modules[s].base
                         /\ modules'[s].state = modules[s].state
                         /\ modules'[s].dependents = modules[s].dependents
  BY <1>1 DEF SameTable
<1>4. TypeOK'
  BY <1>2 DEF ModuleInv, TypeOK, Entry
<1>5. TableKept'
  <2>1. \A s \in InTable : modules[s].base # None => modules[s].base \in mapped'
    BY DEF ModuleInv, TableKept
  <2> QED
    BY <2>1, TableStays
<1>6. SameReady
  BY <1>3 DEF SameReady
<1>7. LinksKept'
  BY <1>3, <1>6, LinksStay
<1>8. CallsKept'
  <2>1. calls = <<>> => ret' = None
    BY DEF ModuleInv, CallsKept
  <2>2. ASSUME calls # <<>>
        PROVE  Answered(deps', modules', registered', Top, ret')
    <3>1. Top.slot \in InTable
      BY <2>2, CallsType
    <3>2. modules'[Top.slot].name = modules[Top.slot].name
      BY <1>1, <3>1
    <3>3. PICK n : n = deps[modules[Top.slot].name][Top.dep]
      OBVIOUS
    <3>4. Answered(deps, modules, registered, Top, ret)
      BY <2>2 DEF ModuleInv, CallsKept
    <3>5. ReadyIn(modules, registered, n) => ReadyIn(modules', registered', n)
      BY <1>3, ReadyStays
    <3> QED
      BY <1>2, <3>2, <3>3, <3>4, <3>5 DEF Answered
  <2> QED
    BY <1>3, <2>1, <2>2, CallsStay
<1>9. ImagesKept'
  <2>1. ImagesKept
    BY DEF ModuleInv
  <2>2. ASSUME NEW b \in mapped, NEW s \in InTable, modules[s].base = b
        PROVE  s \in InTable' /\ modules'[s].base = b
    BY <1>1, <1>3, <2>2
  <2> QED
    BY <2>1, <2>2 DEF ImagesKept
<1>10. ImageInHand => ImageInHand'
  <2>1. HAVE ImageInHand
  <2>2. /\ op' \in [at : {"relocate", "register"}, file : Files', base : Base,
                    entry : Nat \ {0}, count : Nat]
        /\ op'.base \in mapped'
        /\ op'.at = "relocate" => op'.count = 0 /\ op'.entry = 1
        /\ \/ op'.at = "register" /\ op'.file \in Exporting'
           \/ op'.base \in refused' \/ \A i \in DOMAIN tables' : tables'[i] # op'.base
    BY <1>2, <2>1 DEF ImageInHand
  <2>3. /\ \A s \in InTable' : modules'[s].base = op'.base =>
              modules'[s].name \in Range(Descriptors'[op'.file])
        /\ op'.count > 0 <=> \E s \in InTable' : modules'[s].base = op'.base
    BY <1>1, <1>2, <1>3, <2>1 DEF ImageInHand
  <2> QED
    BY <2>2, <2>3 DEF ImageInHand
<1>11. ModuleGoes => ModuleGoes'
  <2>1. HAVE ModuleGoes
  <2>2. PICK s : s = op.slot
    OBVIOUS
  <2>3. s \in InTable
    BY <2>1, <2>2 DEF ModuleGoes
  <2>4. /\ modules'[s].name = modules[s].name /\ modules'[s].base = modules[s].base
        /\ modules'[s].state = modules[s].state /\ modules'[s].dependents = modules[s].dependents
    BY <1>1, <1>3, <2>3
  <2> QED
    BY <1>1, <1>2, <2>1, <2>2, <2>4 DEF ModuleGoes
<1>12. ImageGoes => ImageGoes'
  BY <1>1, <1>3 DEF ImageGoes
<1>13. OpKept'
  BY <1>10, <1>11, <1>12 DEF ModuleInv, OpKept
<1> QED
  BY <1>4, <1>5, <1>7, <1>8, <1>9, <1>13

\* A user that looks at the table
LEMMA AllIdle ==
  ASSUME ModuleInv, ~TableLocked
  PROVE  \A u \in Users : user[u].at = "idle"
BY DEF TableLocked

\* module_get() finds a Ready module, under the lock.
LEMMA GetInd ==
  ASSUME ModuleInv, tree' = tree, NEW u \in Users, NEW n \in Used, Get(u, n)
  PROVE  ModuleInv'
<1>1. PICK s : s = find(n)
  OBVIOUS
<1>2. /\ \A v \in Users : user[v].at = "idle"
      /\ got[u] = None /\ s # nullptr /\ modules[s].state = "Ready"
      /\ user' = [user EXCEPT ![u] = [at |-> "take", slot |-> s]]
      /\ got' = [got EXCEPT ![u] = n]
      /\ registered' = registered /\ mapped' = mapped /\ tables' = tables /\ refused' = refused /\ calls' = calls
      /\ ret' = ret /\ boot' = boot /\ op' = op /\ failures' = failures /\ modules' = modules
      /\ panicked' = panicked
  BY <1>1, AllIdle DEF Get, Usable, system, left
<1>3. s = FindIn(modules, registered, n) /\ s \in InTable /\ s \in Slots
  <2>1. s = FindIn(modules, registered, n) /\ InTable \subseteq Slots
    BY <1>1, Basics
  <2>2. s \in InTable
    BY <1>2, <2>1, FoundAt
  <2> QED
    BY <2>1, <2>2
<1>4. /\ modules \in [Slots -> Entry] /\ got \in [Users -> Names \cup {None}] /\ n \in Names
      /\ user \in [Users -> {Idle} \cup [at : {"take", "drop"}, slot : Slots]] /\ UsersKept
      /\ InTable' = InTable /\ \A r \in InTable : modules[r].name \in Names
  BY <1>2, Basics, TreeFacts DEF ModuleInv, TypeOK, UsersKept, InTable
<1>5. SameTable
  BY <1>2, <1>4 DEF SameTable
<1>6. /\ TypeOK' /\ TableKept' /\ CallsKept' /\ OpKept' /\ ImagesKept' /\ LinksKept'
  <2>1. got' \in [Users -> Names \cup {None}]
    BY <1>2, <1>4
  <2> QED
    BY <1>2, <1>5, <2>1, UserStep
<1>7. /\ user' \in [Users -> {Idle} \cup [at : {"take", "drop"}, slot : Slots]]
      /\ \A v \in Users : user'[v] = IF v = u THEN [at |-> "take", slot |-> s] ELSE user[v]
      /\ \A v \in Users : got'[v] = IF v = u THEN n ELSE got[v]
  <2>1. [at |-> "take", slot |-> s] \in [at : {"take", "drop"}, slot : Slots]
    BY SMT, <1>3
  <2> QED
    BY <1>2, <1>4, <2>1
<1>8. \A v \in Users : user'[v].at # "idle" => v = u
  BY <1>2, <1>7
<1>9. ASSUME NEW v \in Users, got'[v] # None
      PROVE  got'[v] \in Used' /\ ReadyIn(modules', registered', got'[v])
  <2>1. Used' = Used
    BY SameTree
  <2>2. CASE v = u
    <3>1. got'[v] = n /\ n \in Used'
      BY <1>7, <2>1, <2>2
    <3>2. ReadyIn(modules, registered, n)
      BY <1>2, <1>3 DEF ReadyIn
    <3> QED
      BY <1>2, <3>1, <3>2
  <2>3. CASE v # u
    BY <1>2, <1>4, <1>7, <1>9, <2>1, <2>3 DEF UsersKept
  <2> QED
    BY <2>2, <2>3
<1>10. ASSUME NEW v \in Users, user'[v].at # "idle"
       PROVE  got'[v] # None /\ user'[v].slot = FindIn(modules', registered', got'[v])
  <2>1. v = u
    BY <1>8, <1>10
  <2>2. user'[v].slot = s /\ got'[v] = n /\ n # None
    <3>1. [at |-> "take", slot |-> s].slot = s
      BY SMT
    <3>2. user'[v] = [at |-> "take", slot |-> s] /\ got'[v] = n
      BY <1>7, <2>1
    <3>3. n # None
      BY <1>4, NoneIsNoName
    <3> QED
      BY <3>1, <3>2, <3>3
  <2>3. FindIn(modules', registered', got'[v]) = FindIn(modules, registered, n)
    BY <1>2, <2>2
  <2> QED
    BY <1>3, <2>2, <2>3
<1>11. ASSUME NEW r \in InTable
       PROVE  Holders(got', user', modules[r].name) = Holders(got, user, modules[r].name)
  <2>1. PICK m : m = modules[r].name
    OBVIOUS
  <2>2. got[u] # m /\ user'[u].at = "take"
    BY <1>2, <1>4, <1>7, <2>1, NoneIsNoName
  <2>3. \A v \in Users : v # u => got'[v] = got[v] /\ user'[v] = user[v]
    BY <1>7
  <2>4. Holders(got', user', m) = Holders(got, user, m)
    BY <2>2, <2>3 DEF Holders
  <2> QED
    BY <2>1, <2>4
<1>12. \A r \in InTable : modules[r].users = Cardinality(Holders(got', user', modules[r].name))
  BY <1>4, <1>11 DEF UsersKept
<1>13. Slots' = Slots
  BY SameTree
<1>14. UsersKept'
  BY ZenonT(30), <1>2, <1>4, <1>7, <1>8, <1>9, <1>10, <1>12, <1>13 DEF UsersKept
<1> QED
  BY <1>6, <1>14 DEF ModuleInv

\* The holders are finitely many.
LEMMA HoldersFinite ==
  ASSUME Counting, NEW g, NEW us, NEW n
  PROVE  IsFiniteSet(Holders(g, us, n))
<1>1. IsFiniteSet(Users)
  BY ModulesAssumption
<1>2. Holders(g, us, n) \subseteq Users
  BY DEF Holders
<1> QED
  BY <1>1, <1>2 DEF Counting, PartSize

\* module_put() finds its module again, under the lock.
LEMMA PutInd ==
  ASSUME Counting, ModuleInv, tree' = tree, NEW u \in Users, Put(u)
  PROVE  ModuleInv' /\ panicked' = panicked
<1>1. PICK s, n : n = got[u] /\ s = find(got[u])
  OBVIOUS
<1>2. /\ \A v \in Users : user[v].at = "idle"
      /\ got[u] # None
      /\ IF s = nullptr \/ modules[s].users = 0
         THEN panicked' = TRUE /\ UNCHANGED user
         ELSE /\ user' = [user EXCEPT ![u] = [at |-> "drop", slot |-> s]]
              /\ panicked' = panicked
      /\ got' = got
      /\ registered' = registered /\ mapped' = mapped /\ tables' = tables /\ refused' = refused /\ calls' = calls
      /\ ret' = ret /\ boot' = boot /\ op' = op /\ failures' = failures /\ modules' = modules
  BY <1>1, AllIdle DEF Put, system, left
<1>3. /\ modules \in [Slots -> Entry] /\ got \in [Users -> Names \cup {None}]
      /\ user \in [Users -> {Idle} \cup [at : {"take", "drop"}, slot : Slots]] /\ UsersKept
      /\ InTable' = InTable /\ InTable \subseteq Slots /\ registered \in Nat
  BY <1>2, Basics, TreeFacts DEF ModuleInv, TypeOK, UsersKept, InTable
<1>4. s = FindIn(modules, registered, n) /\ ReadyIn(modules, registered, n)
  BY <1>1, <1>2, <1>3, Basics DEF UsersKept
<1>5. s # nullptr /\ s \in InTable /\ modules[s].name = n
  BY <1>4, FoundAt DEF ReadyIn
<1>6. modules[s].users # 0
  <2>1. u \in Holders(got, user, n)
    BY <1>1, <1>2 DEF Holders
  <2>2. modules[s].users = Cardinality(Holders(got, user, n))
    BY <1>3, <1>5 DEF UsersKept
  <2>3. Cardinality(Holders(got, user, n)) # 0
    BY <2>1, HoldersFinite DEF Counting, EmptySize
  <2> QED
    BY <2>2, <2>3
<1>7. user' = [user EXCEPT ![u] = [at |-> "drop", slot |-> s]] /\ panicked' = panicked
  BY <1>2, <1>5, <1>6
<1>8. SameTable
  BY <1>2, <1>3 DEF SameTable
<1>9. TypeOK' /\ TableKept' /\ CallsKept' /\ OpKept' /\ ImagesKept' /\ LinksKept'
  BY <1>2, <1>3, <1>7, <1>8, UserStep
<1>10. /\ user' \in [Users -> {Idle} \cup [at : {"take", "drop"}, slot : Slots]]
       /\ \A v \in Users : user'[v] = IF v = u THEN [at |-> "drop", slot |-> s] ELSE user[v]
  <2>1. [at |-> "drop", slot |-> s] \in [at : {"take", "drop"}, slot : Slots]
    BY SMT, <1>3, <1>5
  <2> QED
    BY <1>3, <1>7, <2>1
<1>11. \A v \in Users : user'[v].at # "idle" => v = u
  BY <1>2, <1>10
<1>12. Used' = Used /\ Slots' = Slots
  BY SameTree
<1>13. \A v \in Users : user'[v].at # "idle" =>
          got'[v] # None /\ user'[v].slot = FindIn(modules', registered', got'[v])
  <2>1. user'[u].slot = s /\ got'[u] = n /\ n # None
    <3>1. [at |-> "drop", slot |-> s].slot = s
      BY SMT
    <3>2. user'[u] = [at |-> "drop", slot |-> s]
      BY <1>10
    <3> QED
      BY <1>1, <1>2, <3>1, <3>2
  <2>2. user'[u].slot = FindIn(modules', registered', got'[u]) /\ got'[u] # None
    BY <1>2, <1>4, <2>1
  <2> QED
    BY <1>11, <2>2
<1>14. \A m : Holders(got', user', m) = Holders(got, user, m)
  <2>1. \A v \in Users : user'[v].at # "take" /\ user[v].at # "take"
    <3> TAKE v \in Users
    <3>1. user[v].at # "take"
      BY <1>2
    <3>2. [at |-> "drop", slot |-> s].at # "take"
      BY SMT
    <3> QED
      BY <1>10, <3>1, <3>2
  <2> QED
    BY <1>2, <2>1 DEF Holders
<1>15. /\ \A v \in Users : got'[v] # None =>
            got'[v] \in Used' /\ ReadyIn(modules', registered', got'[v])
       /\ \A r \in InTable' : modules'[r].users = Cardinality(Holders(got', user', modules'[r].name))
  BY <1>2, <1>3, <1>12, <1>14 DEF UsersKept
<1>16. UsersKept'
  BY <1>10, <1>11, <1>12, <1>13, <1>15 DEF UsersKept
<1> QED
  BY <1>7, <1>9, <1>16 DEF ModuleInv

\* The counter of users is written, and the lock given back.
LEMMA CountInd ==
  ASSUME Counting, ModuleInv, tree' = tree, NEW u \in Users, Count(u)
  PROVE  ModuleInv' /\ Forward
<1>1. PICK s, n, at : n = got[u] /\ s = user[u].slot /\ at = user[u].at
  OBVIOUS
<1> DEFINE k == IF at = "take" THEN modules[s].users + 1 ELSE modules[s].users - 1
<1>2. /\ at # "idle" /\ modules' = [modules EXCEPT ![s].users = k]
      /\ got' = IF at = "drop" THEN [got EXCEPT ![u] = None] ELSE got
      /\ user' = [user EXCEPT ![u] = Idle]
      /\ registered' = registered /\ mapped' = mapped /\ tables' = tables /\ refused' = refused /\ calls' = calls
      /\ ret' = ret /\ boot' = boot /\ op' = op /\ failures' = failures /\ panicked' = panicked
  BY <1>1 DEF Count, system, left
<1>3. /\ modules \in [Slots -> Entry] /\ got \in [Users -> Names \cup {None}]
      /\ user \in [Users -> {Idle} \cup [at : {"take", "drop"}, slot : Slots]] /\ UsersKept
      /\ InTable' = InTable /\ InTable \subseteq Slots /\ registered \in Nat
      /\ \A r \in InTable : modules[r].name \in Names
      /\ \A r, q \in InTable : modules[r].name = modules[q].name => r = q
  BY <1>2, Basics DEF ModuleInv, TypeOK, UsersKept, InTable, TableKept
<1>4. at \in {"take", "drop"}
  <2>1. user[u] \in {Idle} \cup [at : {"take", "drop"}, slot : Slots]
    BY <1>3
  <2>2. user[u] # Idle
    BY <1>1, <1>2, NoneIsNot
  <2> QED
    BY SMT, <1>1, <2>1, <2>2
<1>5. n # None /\ s = FindIn(modules, registered, n) /\ ReadyIn(modules, registered, n)
  BY <1>1, <1>2, <1>3 DEF UsersKept
<1>6. s # nullptr /\ s \in InTable /\ modules[s].name = n /\ s \in Slots
  BY <1>3, <1>5, FoundAt DEF ReadyIn
<1> DEFINE H == Holders(got, user, n)
           G == Holders(got', user', n)
<1>7. IsFiniteSet(H) /\ IsFiniteSet(G) /\ modules[s].users = Cardinality(H)
  BY <1>3, <1>6, HoldersFinite DEF UsersKept
<1>8. /\ \A v \in Users : user'[v] = IF v = u THEN Idle ELSE user[v]
      /\ \A v \in Users : v # u => got'[v] = got[v]
      /\ got'[u] = IF at = "drop" THEN None ELSE n
      /\ got' \in [Users -> Names \cup {None}]
      /\ user' \in [Users -> {Idle} \cup [at : {"take", "drop"}, slot : Slots]]
  BY <1>1, <1>2, <1>3
<1>9. Idle.at # "take" /\ Idle.at = "idle"
  BY NoneIsNot
<1>10. k \in Nat /\ k = Cardinality(G)
  <2>1. CASE at = "take"
    <3>1. u \notin H /\ G = H \cup {u}
      <4>1. u \notin H
        BY <1>1, <2>1 DEF Holders
      <4>2. \A v \in Users : v # u => (v \in G <=> v \in H)
        BY <1>8 DEF Holders
      <4>3. u \in G
        BY <1>8, <1>9, <2>1 DEF Holders
      <4>4. H \subseteq Users /\ G \subseteq Users
        BY DEF Holders
      <4> QED
        BY <4>1, <4>2, <4>3, <4>4
    <3> HIDE DEF G, H
    <3>2. Cardinality(G) = Cardinality(H) + 1
      BY <1>7, <3>1 DEF Counting, OneInSize
    <3>3. Cardinality(H) \in Nat
      BY <1>7 DEF Counting, SizeIsNat
    <3>4. \A x \in Nat : x + 1 \in Nat
      BY SMT
    <3>5. k = Cardinality(H) + 1
      BY <1>7, <2>1
    <3> QED
      BY <3>2, <3>3, <3>4, <3>5
  <2>2. CASE at = "drop"
    <3>1. u \in H /\ G = H \ {u}
      <4>1. u \in H
        BY <1>1, <2>2 DEF Holders
      <4>2. \A v \in Users : v # u => (v \in G <=> v \in H)
        BY <1>8 DEF Holders
      <4>3. u \notin G
        BY <1>5, <1>8, <2>2 DEF Holders
      <4>4. H \subseteq Users /\ G \subseteq Users
        BY DEF Holders
      <4> QED
        BY <4>1, <4>2, <4>3, <4>4
    <3> HIDE DEF G, H
    <3>2. Cardinality(G) = Cardinality(H) - 1
      BY <1>7, <3>1 DEF Counting, OneOutSize
    <3>3. Cardinality(G) \in Nat
      BY <1>7 DEF Counting, SizeIsNat
    <3>5. k = Cardinality(H) - 1
      BY <1>7, <2>2
    <3> QED
      BY <3>2, <3>3, <3>5
  <2> QED
    BY <1>4, <2>1, <2>2
<1> HIDE DEF k, G, H
<1>11. /\ modules'[s] = [modules[s] EXCEPT !.users = k]
       /\ \A r \in Slots : r # s => modules'[r] = modules[r]
  BY <1>2, <1>3, <1>6
<1>12. /\ modules'[s] \in Entry /\ modules'[s].users = k /\ modules'[s].name = modules[s].name
       /\ modules'[s].base = modules[s].base /\ modules'[s].state = modules[s].state
       /\ modules'[s].dependents = modules[s].dependents
  <2>1. modules[s] \in Entry
    BY <1>3, <1>6
  <2> QED
    BY SMT, <1>10, <1>11, <2>1 DEF Entry
<1>13. SameTable
  <2>1. modules' = [modules EXCEPT ![s] = modules'[s]]
    BY <1>2, <1>11
  <2>2. modules' \in [Slots -> Entry]
    BY <1>3, <1>12, <2>1
  <2> QED
    BY <1>2, <1>11, <1>12, <2>2 DEF SameTable
<1>14. \A r \in Slots : /\ modules'[r].state = modules[r].state
                        /\ modules'[r].dependents = modules[r].dependents
                        /\ r >= registered => modules'[r].users = modules[r].users
  <2>1. ~(s >= registered)
    BY SMT, <1>3, <1>6 DEF InTable
  <2> QED
    BY <1>11, <1>12, <2>1
<1>15. TypeOK' /\ TableKept' /\ CallsKept' /\ OpKept' /\ ImagesKept' /\ LinksKept'
  BY <1>2, <1>8, <1>13, <1>14, UserStep
<1>16. /\ Used' = Used /\ Slots' = Slots
       /\ \A r \in InTable : modules'[r].name = modules[r].name
       /\ \A m : FindIn(modules', registered', m) = FindIn(modules, registered, m)
  BY <1>13, SameTree, FindStays DEF SameTable
<1>17. ASSUME NEW v \in Users, got'[v] # None
       PROVE  got'[v] \in Used' /\ ReadyIn(modules', registered', got'[v])
  <2>1. PICK m : m = got[v]
    OBVIOUS
  <2>2. got'[v] = m /\ m # None
    <3>1. CASE v = u
      BY <1>1, <1>8, <1>17, <2>1, <3>1
    <3>2. CASE v # u
      BY <1>8, <1>17, <2>1, <3>2
    <3> QED
      BY <3>1, <3>2
  <2>3. m \in Used /\ ReadyIn(modules, registered, m)
    BY <1>3, <2>1, <2>2 DEF UsersKept
  <2>4. \A r \in InTable : modules'[r].state = modules[r].state
    BY <1>3, <1>14
  <2>5. ReadyIn(modules', registered', m)
    BY <1>13, <2>3, <2>4, ReadyStays
  <2> QED
    BY <1>16, <2>2, <2>3, <2>5
<1>18. \A v \in Users : user'[v].at = "idle"
  <2>1. \A v \in Users : v # u => user[v].at = "idle"
    BY <1>1, <1>2, <1>3 DEF UsersKept
  <2> QED
    BY <1>8, <1>9, <2>1
<1>19. ASSUME NEW r \in InTable
       PROVE  modules'[r].users = Cardinality(Holders(got', user', modules'[r].name))
  <2>1. CASE r = s
    BY <1>6, <1>10, <1>12, <2>1 DEF G
  <2>2. CASE r # s
    <3>1. PICK m : m = modules[r].name
      OBVIOUS
    <3>2. m # n /\ m # None
      BY <1>3, <1>6, <2>2, <3>1, NoneIsNoName
    <3>3. got[u] # m /\ got'[u] # m
      BY <1>1, <1>8, <3>2
    <3>4. Holders(got', user', m) = Holders(got, user, m)
      BY <1>8, <3>3 DEF Holders
    <3>5. modules'[r] = modules[r]
      BY <1>3, <1>11, <2>2
    <3> QED
      BY <1>3, <3>1, <3>4, <3>5 DEF UsersKept
  <2> QED
    BY <2>1, <2>2
<1>20. UsersKept'
  BY <1>3, <1>8, <1>16, <1>17, <1>18, <1>19 DEF UsersKept
<1>21. Forward
  BY <1>3, <1>14 DEF Forward
<1> QED
  BY <1>15, <1>20, <1>21 DEF ModuleInv

----------------------------------------------------------------------------
(* module_load_image() and module_unload(), up to the table                 *)

\* A step that leaves the table alone, with no call under way
LEMMA WorkStep ==
  ASSUME ModuleInv, tree' = tree, modules' = modules, registered' = registered, calls = <<>>,
         calls' = calls, ret' = ret, boot' = boot, user' = user, got' = got,
         panicked' = panicked, failures' \in 0..MaxFailures, mapped' \subseteq Base,
         tables' \in Seq(Base), Len(tables') <= max_tables, refused' \subseteq Base,
         \A s \in InTable : modules[s].base # None => modules[s].base \in mapped'
  PROVE  /\ TypeOK' /\ TableKept' /\ CallsKept' /\ UsersKept' /\ LinksKept'
         /\ InTable' = InTable /\ Files' = Files /\ Descriptors' = Descriptors
         /\ Exporting' = Exporting /\ Slots' = Slots /\ Unloaded' = Unloaded
<1>1. modules \in [Slots -> Entry] /\ registered \in 0..max_modules
  BY Basics DEF ModuleInv, TypeOK
<1>2. SameTable /\ SameReady
  BY <1>1 DEF SameTable, SameReady
<1>3. TypeOK'
  BY <1>1, WorkType
<1>4. TableKept'
  BY <1>2, TableStays
<1>5. LinksKept'
  BY <1>2, LinksStay
<1>6. UsersKept'
  BY <1>2, UsersStay
<1>7. InTable' = InTable
  BY DEF InTable
<1>8. CallsKept'
  <2>1. ret' = None /\ \A s \in InTable' : modules'[s].state # "Loading"
    BY <1>7, NoneLoading
  <2> QED
    BY <2>1, QuietCalls
<1> QED
  BY <1>3, <1>4, <1>5, <1>6, <1>7, <1>8, SameTree

\* The types of what a step leaves alone
LEMMA WorkTypes ==
  ASSUME ModuleInv
  PROVE  /\ failures \in 0..MaxFailures /\ mapped \subseteq Base /\ tables \in Seq(Base)
         /\ refused \subseteq Base /\ Len(tables) <= max_tables /\ MaxFailures \in Nat /\ max_tables \in Nat
         /\ ImagesKept /\ TableKept /\ Orderly(tree)
         /\ \A s \in InTable : modules[s].base \in Base \cup {None}
         /\ \A s \in InTable : modules[s].base # None => modules[s].base \in mapped
<1>1. InTable \subseteq Slots /\ modules \in [Slots -> Entry] /\ tree \in Trees
  BY Basics
<1>2. \A s \in InTable : modules[s].base \in Base \cup {None}
  BY SMT, <1>1 DEF Entry
<1> QED
  BY <1>1, <1>2, TreeFacts DEF ModuleInv, TypeOK, TableKept

\* An image is mapped at a base nothing is mapped at.
LEMMA LoadImageInd ==
  ASSUME ModuleInv, tree' = tree, NEW f \in Files, NEW b \in Base, LoadImage(f, b)
  PROVE  ModuleInv'
<1>1. /\ calls = <<>> /\ op = Idle /\ b \notin mapped
      /\ f \in Repeated \/ \A i \in DOMAIN Descriptors[f] : find(Descriptors[f][i]) = nullptr
      /\ mapped' = mapped \cup {b}
      /\ op' = [at |-> "relocate", file |-> f, base |-> b, entry |-> 1, count |-> 0]
      /\ modules' = modules /\ registered' = registered /\ tables' = tables /\ refused' = refused /\ calls' = calls
      /\ ret' = ret /\ boot' = boot /\ user' = user /\ got' = got /\ panicked' = panicked
      /\ failures' = failures
  BY DEF LoadImage, Booted, Free, users, left
<1>2. /\ mapped' \subseteq Base
      /\ \A s \in InTable : modules[s].base # None => modules[s].base \in mapped'
  BY <1>1, WorkTypes
<1>3. /\ TypeOK' /\ TableKept' /\ CallsKept' /\ UsersKept' /\ LinksKept'
      /\ InTable' = InTable /\ Files' = Files /\ Descriptors' = Descriptors
      /\ Exporting' = Exporting
  BY <1>1, <1>2, WorkTypes, WorkStep
<1>4. \A s \in InTable' : modules'[s].base # b
  BY <1>1, <1>3, WorkTypes, NoneIsNoName
<1>5. b \in refused \/ \A i \in DOMAIN tables : tables[i] # b
  BY <1>1 DEF ModuleInv, ImagesKept
<1>6. /\ op'.at = "relocate" /\ op'.file = f /\ op'.base = b /\ op'.entry = 1 /\ op'.count = 0
      /\ op' \in [at : {"relocate", "register"}, file : Files, base : Base,
                  entry : Nat \ {0}, count : Nat]
  BY SMT, <1>1
<1>8. ImageInHand'
  <2>1. ~(0 > 0)
    BY SMT
  <2>2. /\ op'.base \in mapped'
        /\ \A s \in InTable' : modules'[s].base # op'.base
        /\ op'.base \in refused' \/ \A i \in DOMAIN tables' : tables'[i] # op'.base
        /\ ~(op'.count > 0)
    BY <1>1, <1>3, <1>4, <1>5, <1>6, <2>1
  <2> QED
    BY <1>3, <1>6, <2>2 DEF ImageInHand
<1>9. ImagesKept'
  <2>1. \A i \in DOMAIN tables : tables[i] \in mapped \cup refused
    BY DEF ModuleInv, ImagesKept
  <2>2. \A a \in mapped : \E s \in InTable : modules[s].base = a
    BY <1>1 DEF ModuleInv, ImagesKept
  <2>3. op' # Idle /\ op'.at \notin {"exit", "remove"}
    BY <1>6, NoneIsNot
  <2> QED
    BY <1>1, <1>3, <1>6, <2>1, <2>2, <2>3 DEF ImagesKept
<1> QED
  BY <1>3, <1>8, <1>9 DEF ModuleInv, OpKept

\* The image in hand, as the steps on it find it
LEMMA InHand ==
  ASSUME ModuleInv, op.at \in {"relocate", "register"}
  PROVE  /\ ImageInHand /\ op.base \in Base /\ op.base # None /\ calls = <<>> /\ op # Idle
         /\ \A a \in mapped : a # op.base => \E s \in InTable : modules[s].base = a
         /\ \A i \in DOMAIN tables : tables[i] \in mapped \cup refused
<1>1. ImageInHand
  BY OpIs
<1>2. op.base \in Base
  BY SMT, <1>1 DEF ImageInHand
<1>3. op # Idle /\ calls = <<>>
  BY NoneIsNot, OpIs
<1> QED
  BY <1>1, <1>2, <1>3, NoneIsNoName DEF ModuleInv, ImagesKept

\* A relocation fails and the image is unmapped before anything knows of it.
LEMMA RelocationFailsInd ==
  ASSUME ModuleInv, tree' = tree, RelocationFails
  PROVE  ModuleInv'
<1>1. /\ op.at = "relocate" /\ failures < MaxFailures /\ failures' = failures + 1
      /\ mapped' = mapped \ {op.base} /\ op' = Idle
      /\ modules' = modules /\ registered' = registered /\ tables' = tables /\ refused' = refused /\ calls' = calls
      /\ ret' = ret /\ boot' = boot /\ user' = user /\ got' = got /\ panicked' = panicked
  BY DEF RelocationFails, users, left
<1>2. /\ ImageInHand /\ calls = <<>>
      /\ \A a \in mapped : a # op.base => \E s \in InTable : modules[s].base = a
      /\ \A i \in DOMAIN tables : tables[i] \in mapped \cup refused
  BY <1>1, InHand
<1>3. /\ op.base \in refused \/ \A i \in DOMAIN tables : tables[i] # op.base
      /\ \A s \in InTable : modules[s].base # op.base
  <2>1. ~(0 > 0)
    BY SMT
  <2> QED
    BY <1>1, <1>2, <2>1 DEF ImageInHand
<1>4. failures' \in 0..MaxFailures
  <2>1. failures \in 0..MaxFailures /\ MaxFailures \in Nat
    BY WorkTypes
  <2> QED
    BY SMT, <1>1, <2>1
<1>5. mapped' \subseteq Base /\ \A s \in InTable : modules[s].base # None => modules[s].base \in mapped'
  BY <1>1, <1>3, WorkTypes
<1>6. /\ TypeOK' /\ TableKept' /\ CallsKept' /\ UsersKept' /\ LinksKept'
      /\ InTable' = InTable
  BY <1>1, <1>2, <1>4, <1>5, WorkTypes, WorkStep
<1>7. ImagesKept'
  BY <1>1, <1>2, <1>3, <1>6 DEF ImagesKept
<1> QED
  BY <1>1, <1>6, <1>7 DEF ModuleInv, OpKept

\* The image is relocated and its symbols are exported, if there is a slot for them.
LEMMA RelocateInd ==
  ASSUME ModuleInv, tree' = tree, Relocate
  PROVE  ModuleInv'
<1>1. /\ op.at = "relocate"
      /\ tables' = IF op.file \in Exporting /\ Len(tables) < max_tables
                   THEN Append(tables, op.base) ELSE tables
      /\ op' = [op EXCEPT !.at = "register"] /\ mapped' = mapped
      /\ modules' = modules /\ registered' = registered /\ calls' = calls /\ ret' = ret
      /\ boot' = boot /\ user' = user /\ got' = got /\ panicked' = panicked
      /\ refused' = refused /\ failures' = failures
  BY DEF Relocate, users, left
<1>2. /\ ImageInHand /\ calls = <<>> /\ op.base \in Base
      /\ \A a \in mapped : a # op.base => \E s \in InTable : modules[s].base = a
      /\ \A i \in DOMAIN tables : tables[i] \in mapped \cup refused
  BY <1>1, InHand
<1>3. /\ op \in [at : {"relocate", "register"}, file : Files, base : Base,
                 entry : Nat \ {0}, count : Nat]
      /\ op.base \in mapped
      /\ op.base \in refused \/ \A i \in DOMAIN tables : tables[i] # op.base
  BY <1>1, <1>2 DEF ImageInHand
<1>4. /\ op' \in [at : {"relocate", "register"}, file : Files, base : Base,
                  entry : Nat \ {0}, count : Nat]
      /\ op'.at = "register" /\ op'.file = op.file /\ op'.base = op.base
      /\ op'.entry = op.entry /\ op'.count = op.count
  BY SMT, <1>1, <1>3
<1>5. /\ tables' \in Seq(Base) /\ Len(tables') <= max_tables
      /\ \A i \in DOMAIN tables' : tables'[i] \in mapped \cup refused
      /\ op.file \notin Exporting => tables' = tables
  <2>1. tables \in Seq(Base) /\ Len(tables) <= max_tables /\ max_tables \in Nat
    BY WorkTypes
  <2>2. CASE op.file \in Exporting /\ Len(tables) < max_tables
    <3>1. tables' = Append(tables, op.base)
      BY <1>1, <2>2
    <3>2. IsPush(Base, tables, op.base, tables')
      BY <1>2, <2>1, <3>1, Pushed
    <3>3. Len(tables) \in Nat /\ Len(tables') = Len(tables) + 1 /\ tables' \in Seq(Base)
      BY <3>2 DEF IsPush
    <3>4. \A x, y \in Nat : x < y => x + 1 <= y
      BY SMT
    <3>5. Len(tables') <= max_tables
      BY <2>1, <2>2, <3>3, <3>4
    <3>6. \A i \in DOMAIN tables' : tables'[i] \in mapped \cup refused
      BY <1>2, <1>3, <3>2 DEF IsPush
    <3> QED
      BY <2>2, <3>3, <3>5, <3>6
  <2>3. CASE ~(op.file \in Exporting /\ Len(tables) < max_tables)
    BY <1>1, <1>2, <2>1, <2>3
  <2> QED
    BY <2>2, <2>3
<1>6. /\ mapped' \subseteq Base
      /\ \A s \in InTable : modules[s].base # None => modules[s].base \in mapped'
  BY <1>1, WorkTypes
<1>7. /\ TypeOK' /\ TableKept' /\ CallsKept' /\ UsersKept' /\ LinksKept'
      /\ InTable' = InTable /\ Files' = Files /\ Descriptors' = Descriptors
      /\ Exporting' = Exporting
  BY <1>1, <1>2, <1>5, <1>6, WorkTypes, WorkStep
<1>8. ImageInHand'
  <2>1. \/ op'.at = "register" /\ op'.file \in Exporting'
        \/ op'.base \in refused' \/ \A i \in DOMAIN tables' : tables'[i] # op'.base
    BY <1>1, <1>3, <1>4, <1>5, <1>7
  <2>2. /\ op'.base \in mapped' /\ op'.at # "relocate"
        /\ \A s \in InTable' : modules'[s].base = op'.base =>
              modules'[s].name \in Range(Descriptors'[op'.file])
        /\ op'.count > 0 <=> \E s \in InTable' : modules'[s].base = op'.base
    BY <1>1, <1>2, <1>4, <1>7 DEF ImageInHand
  <2> QED
    BY <1>4, <1>7, <2>1, <2>2 DEF ImageInHand
<1>9. ImagesKept'
  <2>1. op' # Idle /\ op'.at \notin {"exit", "remove"}
    BY <1>4, NoneIsNot
  <2>2. \A a \in mapped : a # op'.base => \E s \in InTable' : modules'[s].base = a
    BY <1>1, <1>2, <1>4, <1>7
  <2> QED
    BY <1>1, <1>5, <2>1, <2>2 DEF ImagesKept
<1> QED
  BY <1>7, <1>8, <1>9 DEF ModuleInv, OpKept

\* All descriptors are registered; an image that brought none is unmapped.
LEMMA ImageLoadedInd ==
  ASSUME ModuleInv, tree' = tree, ImageLoaded
  PROVE  ModuleInv'
<1>1. /\ op.at = "register" /\ op.entry > Len(Descriptors[op.file])
      /\ mapped' = (IF op.count = 0 THEN mapped \ {op.base} ELSE mapped) /\ op' = Idle
      /\ refused' = IF op.count = 0 /\ op.file \in Exporting THEN refused \cup {op.base} ELSE refused
      /\ modules' = modules /\ registered' = registered /\ tables' = tables /\ calls' = calls
      /\ ret' = ret /\ boot' = boot /\ user' = user /\ got' = got /\ panicked' = panicked
      /\ failures' = failures
  BY DEF ImageLoaded, Unwanted, users, left
<1>2. /\ ImageInHand /\ calls = <<>>
      /\ \A a \in mapped : a # op.base => \E s \in InTable : modules[s].base = a
      /\ \A i \in DOMAIN tables : tables[i] \in mapped \cup refused
  BY <1>1, InHand
<1>3. op.base \in Base /\ op.count \in Nat
  BY SMT, <1>2 DEF ImageInHand
<1>4. ASSUME op.count = 0
      PROVE  /\ op.base \in refused' \/ \A i \in DOMAIN tables : tables[i] # op.base
             /\ \A s \in InTable : modules[s].base # op.base
  <2>1. ~(0 > 0)
    BY SMT
  <2> QED
    BY <1>1, <1>2, <1>4, <2>1 DEF ImageInHand
<1>5. op.count # 0 => \E s \in InTable : modules[s].base = op.base
  <2>1. \A n \in Nat : n # 0 => n > 0
    BY SMT
  <2> QED
    BY <1>2, <1>3, <2>1 DEF ImageInHand
<1>6. /\ mapped' \subseteq Base /\ refused' \subseteq Base /\ refused \subseteq refused'
      /\ \A s \in InTable : modules[s].base # None => modules[s].base \in mapped'
  BY <1>1, <1>3, <1>4, WorkTypes
<1>7. /\ TypeOK' /\ TableKept' /\ CallsKept' /\ UsersKept' /\ LinksKept'
      /\ InTable' = InTable
  BY <1>1, <1>2, <1>6, WorkTypes, WorkStep
<1>8. ImagesKept'
  <2>1. \A i \in DOMAIN tables' : tables'[i] \in mapped' \cup refused'
    BY <1>1, <1>2, <1>4, <1>6
  <2>2. \A a \in mapped' : \E s \in InTable : modules[s].base = a
    BY <1>1, <1>2, <1>5
  <2> QED
    BY <1>1, <1>7, <2>1, <2>2 DEF ImagesKept
<1> QED
  BY <1>1, <1>7, <1>8 DEF ModuleInv, OpKept

\* module_unload() passes its checks and calls exit().
LEMMA UnloadInd ==
  ASSUME ModuleInv, tree' = tree, NEW n \in Unloaded, Unload(n)
  PROVE  ModuleInv'
<1>1. PICK s : s = find(n)
  OBVIOUS
<1>2. /\ calls = <<>> /\ op = Idle /\ s # nullptr /\ modules[s].state = "Ready"
      /\ ~(modules[s].dependents > 0) /\ op' = [at |-> "exit", slot |-> s]
      /\ modules' = modules /\ registered' = registered /\ tables' = tables /\ refused' = refused /\ calls' = calls
      /\ mapped' = mapped
      /\ ret' = ret /\ boot' = boot /\ user' = user /\ got' = got /\ panicked' = panicked
      /\ failures' = failures
  BY <1>1 DEF Unload, InUse, Booted, Free, users, left
<1>3. s \in InTable /\ modules[s].name = n /\ s \in Slots
  <2>1. s = FindIn(modules, registered, n) /\ InTable \subseteq Slots
    BY <1>1, Basics
  <2>2. s \in InTable /\ modules[s].name = n
    BY <1>2, <2>1, FoundAt
  <2> QED
    BY <2>1, <2>2
<1>4. modules[s].dependents = 0
  <2>1. modules[s] \in Entry
    BY <1>3, Basics
  <2> QED
    BY SMT, <1>2, <2>1 DEF Entry
<1>5. /\ TypeOK' /\ TableKept' /\ CallsKept' /\ UsersKept' /\ LinksKept'
      /\ InTable' = InTable /\ Slots' = Slots /\ Unloaded' = Unloaded
  BY <1>2, WorkTypes, WorkStep
<1>6. op' \in [at : {"exit", "remove"}, slot : Slots] /\ op'.at = "exit" /\ op'.slot = s
  BY SMT, <1>2, <1>3
<1>7. ModuleGoes'
  BY <1>2, <1>3, <1>4, <1>5, <1>6 DEF ModuleGoes
<1>8. ImagesKept'
  <2>1. \A a \in mapped : \E r \in InTable : modules[r].base = a
    BY <1>2 DEF ModuleInv, ImagesKept
  <2>2. \A i \in DOMAIN tables : tables[i] \in mapped \cup refused
    BY DEF ModuleInv, ImagesKept
  <2> QED
    BY <1>2, <1>5, <2>1, <2>2 DEF ImagesKept
<1> QED
  BY <1>5, <1>7, <1>8 DEF ModuleInv, OpKept

\* allocate_image() gives up: no image, no table and no module has changed.
LEMMA AllocationFailsInd ==
  ASSUME ModuleInv, tree' = tree, AllocationFails
  PROVE  ModuleInv'
<1>1. /\ calls = <<>> /\ op = Idle /\ failures < MaxFailures /\ failures' = failures + 1 /\ op' = op
      /\ mapped' = mapped /\ tables' = tables /\ refused' = refused
      /\ modules' = modules /\ registered' = registered /\ calls' = calls
      /\ ret' = ret /\ boot' = boot /\ user' = user /\ got' = got /\ panicked' = panicked
  BY DEF AllocationFails, Booted, Free, users
<1>2. failures' \in 0..MaxFailures
  <2>1. failures \in 0..MaxFailures /\ MaxFailures \in Nat
    BY WorkTypes
  <2> QED
    BY SMT, <1>1, <2>1
<1>3. /\ TypeOK' /\ TableKept' /\ CallsKept' /\ UsersKept' /\ LinksKept' /\ InTable' = InTable
  BY <1>1, <1>2, WorkTypes, WorkStep
<1>4. ImagesKept'
  BY <1>1, <1>3 DEF ModuleInv, ImagesKept
<1> QED
  BY <1>1, <1>3, <1>4 DEF ModuleInv, OpKept

\* The exports of an unloaded image go, whatever order the others are left in.
LEMMA ReleaseInd ==
  ASSUME Counting, ModuleInv, tree' = tree, Release
  PROVE  ModuleInv'
<1> DEFINE kept == {i \in DOMAIN tables : tables[i] # op.base}
           n == Cardinality(kept)
<1>1. /\ op.at = "release" /\ tables' \in symbol_unregister_owner(op.base)
      /\ mapped' = mapped \ {op.base} /\ op' = Idle /\ refused' = refused
      /\ modules' = modules /\ registered' = registered /\ calls' = calls
      /\ ret' = ret /\ boot' = boot /\ user' = user /\ got' = got /\ panicked' = panicked
      /\ failures' = failures
  BY DEF Release, users, left
<1>2. /\ calls = <<>> /\ ImageGoes /\ op # Idle /\ op.base \in mapped
      /\ \A s \in InTable : modules[s].base # op.base
  BY <1>1, OpIs, NoneIsNot DEF ImageGoes
<1>3. PICK p \in Bijection(1..n, kept) : tables' = [i \in 1..n |-> tables[p[i]]]
  BY <1>1 DEF symbol_unregister_owner
<1>4. p \in [1..n -> kept]
  BY DEF Bijection, Injection
<1>5. \A i \in DOMAIN tables : tables[i] \in mapped \cup refused
  BY DEF ModuleInv, ImagesKept
<1>6. tables \in Seq(Base) /\ Len(tables) <= max_tables /\ max_tables \in Nat /\ mapped \subseteq Base
  BY WorkTypes
<1>7. n \in Nat /\ n <= max_tables
  <2>1. DOMAIN tables = 1..Len(tables) /\ Len(tables) \in Nat
    BY <1>6, SeqLen
  <2>2. IsFiniteSet(1..Len(tables)) /\ Cardinality(1..Len(tables)) = Len(tables)
    <3>1. PICK m : m = Len(tables)
      OBVIOUS
    <3>2. m \in Nat
      BY <2>1, <3>1
    <3>3. 1 \in Int /\ m \in Int /\ (IF 1 > m THEN 0 ELSE m - 1 + 1) = m
      BY SMT, <3>2
    <3>4. IsFiniteSet(1..m) /\ Cardinality(1..m) = IF 1 > m THEN 0 ELSE m - 1 + 1
      BY <3>3 DEF Counting, RangeSize
    <3> QED
      BY <3>1, <3>3, <3>4
  <2>3. kept \subseteq 1..Len(tables)
    BY <2>1
  <2> HIDE DEF kept
  <2>4. IsFiniteSet(kept) /\ n <= Cardinality(1..Len(tables))
    BY <2>2, <2>3 DEF Counting, PartSize
  <2>5. n \in Nat
    BY <2>4 DEF Counting, SizeIsNat
  <2>6. n <= Len(tables)
    BY <2>2, <2>4
  <2>7. \A x, y, z \in Nat : x <= y /\ y <= z => x <= z
    BY SMT
  <2> QED
    BY <1>6, <2>1, <2>5, <2>6, <2>7
<1>8. \A i \in 1..n : tables[p[i]] \in mapped' \cup refused' /\ tables[p[i]] \in Base
  <2>1. refused \subseteq Base
    BY WorkTypes
  <2> QED
    BY <1>1, <1>4, <1>5, <1>6, <2>1
<1> HIDE DEF n, kept
<1>9. tables' \in Seq(Base) /\ Len(tables') = n /\ \A i \in DOMAIN tables' : tables'[i] \in mapped' \cup refused'
  <2>1. \A i \in DOMAIN tables' : tables'[i] \in mapped' \cup refused'
    BY <1>3, <1>8
  <2>2. tables' \in [1..n -> Base]
    BY <1>3, <1>8
  <2>3. tables' \in Seq(Base) /\ Len(tables') = n
    BY SMT, <1>7, <2>2
  <2> QED
    BY <2>1, <2>3
<1>10. /\ mapped' \subseteq Base /\ Len(tables') <= max_tables
       /\ \A s \in InTable : modules[s].base # None => modules[s].base \in mapped'
  BY <1>1, <1>2, <1>7, <1>9, WorkTypes
<1>11. /\ TypeOK' /\ TableKept' /\ CallsKept' /\ UsersKept' /\ LinksKept'
       /\ InTable' = InTable
  BY <1>1, <1>2, <1>9, <1>10, WorkTypes, WorkStep
<1>12. ImagesKept'
  <2>1. \A a \in mapped' : \E s \in InTable : modules[s].base = a
    BY <1>1, <1>2 DEF ModuleInv, ImagesKept
  <2> QED
    BY <1>1, <1>9, <1>11, <2>1 DEF ImagesKept
<1> QED
  BY <1>1, <1>11, <1>12 DEF ModuleInv, OpKept
====
