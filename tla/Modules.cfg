SPECIFICATION ModulesSpec
CONSTANTS
    Names <- MCNames
    Trees <- MCTrees
    Users = {u1, u2}
    Base = {b1, b2, b3}
    block_size = 4
    Members <- MCMembers
    MaxMembers = 3
    Cuts = {0, 4, 5, 9, 13}
    Wanted = {"a", "b"}
    Matching <- MCMatching
INVARIANTS ReferencesExact NothingDangles ArchiveReadsBack
PROPERTY LoadsInOrder
