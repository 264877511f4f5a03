SPECIFICATION Spec
CONSTANTS
    Calls = {c1, c2}
    Roles = {r1, r2}
    Graphs = {g1, g2}
    Plains = {plain}
    None = None
    Foreign = Foreign
    Reuse = TRUE
    MaxUpdates = 2
INVARIANT CoherentAnswer
CONSTANTS
    c1 = c1
    c2 = c2
    g1 = g1
    g2 = g2
    plain = plain
    r1 = r1
    r2 = r2
