CONSTANTS
    Versions = {v1, v2}
    Requests = {r1, r2}
    Environments = {e1}
    Numbers = {n1, n2}
    Sandboxed = {v1}
    None = None
SPECIFICATION Spec
INVARIANT ReleaseInv
PROPERTY ReviewInOrder
SYMMETRY Symmetry
CHECK_DEADLOCK FALSE
