CONSTANTS
    all = all  some = some
    None = None
    Row = {1, 2, 3}
    Filter = {all, some}
    Matching <- MCMatching
    Limit = 1
    Removable = {1}
    Layout = {"grid", "section"}
SPECIFICATION Spec
INVARIANTS TypeOK FreshListAgrees
PROPERTIES NeverStranded
