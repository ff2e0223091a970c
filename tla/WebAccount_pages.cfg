CONSTANTS
    alice = alice
    t1 = t1  t2 = t2
    None = None
    Unset = Unset
    Account = {alice}
    Token = {t1, t2}
    Op = {"signup", "login", "logout", "verifyEmail", "confirmEmailChange",
          "resetPassword", "resendVerification", "requestPasswordReset",
          "exportAccount", "deleteAccount", "changePassword", "changeEmail"}
    Query = {"ownedBooks"}
    MaxInFlight = 1
    MaxLinks = 1
SPECIFICATION Spec
SYMMETRY Symmetry
INVARIANTS TypeOK FailureShownOnce
PROPERTIES VerdictStands
