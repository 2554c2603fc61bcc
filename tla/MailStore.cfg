CONSTANTS
    Names = {n1, n2}
    Users = {u1}
    Jobs = {j1}
    Admins = {t1}
    Deliveries = {d1, d2}
    MaxDomains = 2
    MaxAccounts = 2
    MaxMails = 2
    MaxSaves = 2
    MaxCrashes = 1
SPECIFICATION Spec
INVARIANTS
    StoredIsWhole
    MailInOwnersDirectory
    NoSharedFile
    LockIsGivenBack
PROPERTY
    NoMailForTheDead
SYMMETRY Symmetry
