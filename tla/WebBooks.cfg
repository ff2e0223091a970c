CONSTANTS
    b1 = b1
    q1 = q1  q2 = q2
    None = None
    Book = {b1}
    Req = {q1, q2}
    MaxWrites = 2
SPECIFICATION Spec
SYMMETRY Symmetry
INVARIANTS TypeOK ReadsOwnWrites BookFailureShown
