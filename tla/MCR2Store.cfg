CONSTANTS
    Absent = Absent
    Writers = {w1, w2}
    Keys = {k1, k2}
    Contents = {c1, c2}
SPECIFICATION Spec
SYMMETRY Symmetry
INVARIANTS TypeOK DoneMeansStored
PROPERTIES NeverOverwritten ImplementsWriteOnce
