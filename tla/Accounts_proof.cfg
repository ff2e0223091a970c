CONSTANTS
    u1 = u1
    n1 = n1
    e1 = e1  e2 = e2  e3 = e3
    p1 = p1
    s1 = s1
    t1 = t1  t2 = t2  t3 = t3
    r1 = r1
    None = None
    User = {u1}
    Established = {u1}
    Name = {n1}
    Email = {e1, e2, e3}
    Password = {p1}
    Session = {s1}
    Token = {t1, t2, t3}
    Req = {r1}
    Op = {"login", "me", "verify_email", "resend_verification",
          "change_email", "confirm_email_change", "request_reset",
          "confirm_reset"}
    Event = {"lapse", "crash"}
SPECIFICATION Spec
SYMMETRY Symmetry
INVARIANTS VerifiedIsProven OneLinkPerPurpose LinkConfirmsItsAddress
