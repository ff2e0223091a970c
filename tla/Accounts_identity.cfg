CONSTANTS
    u1 = u1  u2 = u2
    n1 = n1  n2 = n2
    e1 = e1  e2 = e2  e3 = e3
    p1 = p1
    s1 = s1  s2 = s2  s3 = s3
    t1 = t1  t2 = t2
    r1 = r1  r2 = r2
    None = None
    User = {u1, u2}
    Established = {u1}
    Name = {n1, n2}
    Email = {e1, e2, e3}
    Password = {p1}
    Session = {s1, s2, s3}
    Token = {t1, t2}
    Req = {r1, r2}
    Op = {"signup", "login", "change_email", "confirm_email_change",
          "delete_account"}
    Event = {"upgrade"}
SPECIFICATION Spec
SYMMETRY Symmetry
INVARIANTS TypeOK AccountsAreDistinct
