CONSTANTS
    u1 = u1  u2 = u2  u3 = u3
    srd = srd
    c1 = c1  c2 = c2
    i1 = i1  i2 = i2
    r1 = r1  r2 = r2
    None = None
    User = {u1, u2, u3}
    Book = {srd}
    SrdBook = srd
    Campaign = {c1, c2}
    Invite = {i1, i2}
    Content = {}
    Req = {r1, r2}
    Op = {"create_campaign", "invite_member", "revoke_invite", "remove_member",
          "accept_invite", "decline_invite"}
SPECIFICATION Spec
SYMMETRY Symmetry
INVARIANTS MembersWereInvited OwnerIsNoMember OneInvitePerPair
PROPERTIES ImplementsPolicy RemovedByOwnerOrSelf InviteEndsByParty
