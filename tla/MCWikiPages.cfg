SPECIFICATION Spec
CONSTANTS
    s1 = s1
    s2 = s2
    Sources = {s1, s2}
    a = a
    b = b
    Slugs = {a, b}
    Variants = {1}
    Budgets <- Some
    Nothing = Nothing
INVARIANTS MirrorReplays SucceededBacked EvidenceKept
SYMMETRY Renamings
CHECK_DEADLOCK FALSE
