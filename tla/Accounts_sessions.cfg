CONSTANTS
    u1 = u1
    n1 = n1
    e1 = e1
    p1 = p1  p2 = p2
    s1 = s1  s2 = s2  s3 = s3
    t1 = t1
    r1 = r1  r2 = r2
    None = None
    User = {u1}
    Established = {u1}
    Name = {n1}
    Email = {e1}
    Password = {p1, p2}
    Session = {s1, s2, s3}
    Token = {t1}
    Req = {r1, r2}
    Op = {"login", "me", "logout", "logout_everywhere", "change_password",
          "request_reset", "confirm_reset", "delete_account"}
    Event = {"aging"}
SPECIFICATION Spec
SYMMETRY Symmetry
INVARIANTS NothingOutlivesAccount OldSessionsAreRevoked
PROPERTIES RevokedForGood
