CONSTANTS
    u1 = u1  u2 = u2
    srd = srd  b1 = b1
    c1 = c1  c2 = c2
    i1 = i1
    r1 = r1  r2 = r2
    x1 = x1
    None = None
    User = {u1, u2}
    Book = {srd, b1}
    SrdBook = srd
    Campaign = {c1, c2}
    Invite = {i1}
    Content = {x1}
    Req = {r1, r2}
    Op = {"create_book", "update_book", "delete_book", "add_content",
          "remove_content", "create_campaign", "update_campaign",
          "delete_campaign", "enable_book", "disable_book", "invite_member",
          "accept_invite", "delete_account"}
SPECIFICATION Spec
SYMMETRY Symmetry
INVARIANTS TypeOK SharedByOwner NoDanglingRows
PROPERTIES ImplementsPolicy AccessIsGranted ContentsChangeByOwner
