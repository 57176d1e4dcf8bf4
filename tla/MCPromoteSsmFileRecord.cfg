CONSTANTS
    r1 = r1
    r2 = r2
    tA = tA
    tB = tB
    v1 = v1
    v2 = v2
    Regions <- MCRegions
    Templates <- MCTemplates
    Versioned <- MCVersioned
    Vals <- MCVals
    Src = Src
    Tgt = Tgt
    Corrupt = Corrupt
SYMMETRY MCSymmetry
SPECIFICATION Spec
INVARIANT FileRecordsStore
