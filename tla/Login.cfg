CONSTANTS
    Names = {n1}
    Users = {u1, u2}
    Jobs = {}
    Admins = {t1, t2}
    MaxDomains = 2
    MaxAccounts = 2
    MaxMails = 0
    Clients = {c1}
    Passwords = {p1, p2}
    NoPassword = nopassword
SPECIFICATION Spec
INVARIANTS
    AddressUnique
    GrantWasTrue
    RefusalWasTrue
PROPERTY
    DeletionIsFinal
SYMMETRY Symmetry
