SPECIFICATION Spec
CONSTANTS
    Ids = {i1, i2}
    Addrs = {x1, x2}
    Rules = {r1, r2}
    Flows = {w1}
    None = None
    Edits = {"add", "delete", "address", "rule", "text", "flow", "newMachine"}
    MaxEdits = 6
SYMMETRY Symm
INVARIANTS UnscopedRestored
PROPERTIES ImportSucceeds NoOverwrite
