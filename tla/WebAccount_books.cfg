CONSTANTS
    alice = alice  bob = bob
    t1 = t1  t2 = t2
    None = None
    Unset = Unset
    Account = {alice, bob}
    Token = {t1, t2}
    Op = {"login", "logout"}
    Query = {"ownedBooks"}
    MaxInFlight = 1
    MaxLinks = 1
SPECIFICATION Spec
INVARIANTS BooksAreTheirs
