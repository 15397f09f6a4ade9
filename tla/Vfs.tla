--------------------------------- MODULE Vfs ---------------------------------
(***************************************************************************)
(* The mount table and the path walker of fs/vfs.cpp.  A path is the       *)
(* sequence of its characters, over a small alphabet, because what can go  *)
(* wrong in mount_for() and resolve() is where one name ends.  Every file  *)
(* system holds the same tree, Tree, and its inodes are <<mount, names>>.  *)
(***************************************************************************)
EXTENDS Integers, Sequences, FiniteSets, SequencesExt

CONSTANTS MountPaths,     \* what mount() is called with
          Paths,          \* what resolve() is called with
          Tree,           \* {sequence of names : such an inode exists}
          max_mounts,
          NameLength      \* the characters resolve() copies of a component, 63 in the code

ASSUME VfsBounds == max_mounts \in Nat /\ NameLength \in Nat \ {0} /\ <<>> \in Tree

VARIABLE mounts   \* the table, without its unused part
vfs_vars == mounts

VfsInit == mounts = <<>>

\* The length without trailing slashes
path_length(p) ==
    Max({1} \cup {i \in 1..Len(p) : p[i] # "/"})

Trimmed(p) == SubSeq(p, 1, path_length(p))

\* The character after the prefix is not looked at.
EndsAnywhere(p, n) == TRUE

\* "/mnt" is a prefix of "/mnt/x" and not of "/mntx"
EndsAt(p, n) == n > 1 => Len(p) = n \/ p[n + 1] = "/"

Covers(m, p) ==
    LET n == path_length(m)
    IN n <= Len(p) /\ SubSeq(p, 1, n) = Trimmed(m) /\ EndsAt(p, n)

\* The first of the longest, or 0
mount_for(table, p) ==
    LET fits == {i \in 1..Len(table) : Covers(table[i], p)}
        longest == Max({path_length(table[i]) : i \in fits})
    IN IF fits = {} THEN 0 ELSE Min({i \in fits : path_length(table[i]) = longest})

\* One round of the walk: slashes, one component, the lookup of its name
WalkStep(w) ==
    LET begin == Min({i \in 1..(Len(w.rest) + 1) : i = Len(w.rest) + 1 \/ w.rest[i] # "/"})
        skipped == SubSeq(w.rest, begin, Len(w.rest))
        end == Min({i \in 1..(Len(skipped) + 1) : i = Len(skipped) + 1 \/ skipped[i] = "/"})
        length == Min({end - 1, NameLength})
        node == Append(w.node, SubSeq(skipped, 1, length))
    IN IF skipped = <<>> THEN [w EXCEPT !.rest = <<>>]
       ELSE [found |-> node \in Tree, node |-> node, rest |-> SubSeq(skipped, length + 1, Len(skipped))]

Walk(p) ==
    LET f[n \in 0..Len(p)] ==
            IF n = 0 THEN [found |-> TRUE, node |-> <<>>, rest |-> p]
            ELSE LET w == f[n - 1] IN IF w.found /\ w.rest # <<>> THEN WalkStep(w) ELSE w
    IN f[Len(p)]

no_inode == <<>>

\* The inode, as its mount and the names that lead to it
resolve(table, p) ==
    LET i == mount_for(table, p)
        n == path_length(table[i])
        w == Walk(IF n > 1 THEN SubSeq(p, n + 1, Len(p)) ELSE p)
    IN IF i = 0 THEN no_inode ELSE IF w.found THEN <<table[i], w.node>> ELSE no_inode

----------------------------------------------------------------------------
\* The tree's mounts have different paths; a second mount of one is not modelled
mount(path) ==
    /\ \A i \in 1..Len(mounts) : Trimmed(mounts[i]) # Trimmed(path)
    /\ Len(mounts) < max_mounts
    /\ mounts' = Append(mounts, path)

\* The last entry takes the place of the one that goes
Without(i) == SubSeq([mounts EXCEPT ![i] = mounts[Len(mounts)]], 1, Len(mounts) - 1)

unmount(path) ==
    \E i \in 1..Len(mounts) : mounts[i] = path /\ mounts' = Without(i)

VfsNext == \E path \in MountPaths : mount(path) \/ unmount(path)

VfsSpec == VfsInit /\ [][VfsNext]_vfs_vars

----------------------------------------------------------------------------
\* The names of a path, as a reader of it would say
NamesOf(p) ==
    LET starts == {i \in 1..Len(p) : p[i] # "/" /\ (i = 1 \/ p[i - 1] = "/")}
        End(i) == Min({j \in i..(Len(p) + 1) : j = Len(p) + 1 \/ p[j] = "/"}) - 1
    IN [k \in 1..Cardinality(starts) |->
            LET i == SetToSortSeq(starts, <)[k] IN SubSeq(p, i, End(i))]

\* No slash follows another but at the end
Plain(p) == \A i \in 1..(path_length(p) - 1) : p[i] # "/" \/ p[i + 1] # "/"

\* The mounts above a path: their names begin the path's.  A path that repeats a slash
\* is only below those that it spells as they were mounted.
Above(table, p) ==
    {i \in 1..Len(table) : /\ IsPrefix(NamesOf(table[i]), NamesOf(p))
                           /\ Plain(p) \/ IsPrefix(Trimmed(table[i]), p)}

\* The mount that resolve() should use: the closest
Owner(table, p) ==
    CHOOSE i \in Above(table, p) :
        \A j \in Above(table, p) : Len(NamesOf(table[j])) <= Len(NamesOf(table[i]))

ByNames(table) ==
    \A p \in Paths :
        LET names == NamesOf(p)
            m == table[Owner(table, p)]
            inside == SubSeq(names, Len(NamesOf(m)) + 1, Len(names))
        IN resolve(table, p) =
            IF Above(table, p) # {} /\ \A k \in 1..Len(inside) : SubSeq(inside, 1, k) \in Tree
            THEN <<m, inside>> ELSE no_inode

\* After every mount() and unmount(), resolve() walks the names of a path from
\* the root of the mount closest to it, whatever the order of the table.  The slashes
\* below the mount do not matter; those before it and inside of it do: a path that
\* repeats one there is looked up from the next mount up that it spells out.
ResolvesByNames == mounts' # mounts => ByNames(mounts')

\* unmount() changes nothing for a path that belongs to another mount, though
\* it moves an entry of the table.
UnmountLeavesOthers ==
    \A path \in MountPaths : unmount(path) =>
        \A p \in Paths :
            mount_for(mounts, p) # 0 /\ mounts[mount_for(mounts, p)] # path
                => resolve(mounts', p) = resolve(mounts, p)

\* resolve() goes by whole names through every table of mounts that mount() and
\* unmount() can make, in any order, and unmount() changes no other answer; mount points
\* are found as they are spelled, repeated slashes included.
MountsResolve == [][ResolvesByNames /\ UnmountLeavesOthers]_vfs_vars

\* Two spellings of the same names lead to the same inode.
SpellingDoesNotMatter ==
    [][mounts' # mounts => \A p, q \in Paths :
          NamesOf(p) = NamesOf(q) => resolve(mounts', p) = resolve(mounts', q)]_vfs_vars
=============================================================================
