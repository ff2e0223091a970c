CONSTANTS
    b1 = b1  b2 = b2
    q1 = q1  q2 = q2  q3 = q3
    None = None
    Book = {b1, b2}
    Req = {q1, q2, q3}
SPECIFICATION Spec
SYMMETRY Symmetry
INVARIANTS TypeOK BoxesAgree FreshDetailAgrees
