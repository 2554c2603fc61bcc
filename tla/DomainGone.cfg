CONSTANTS
    Names = {n1}
    Users = {u1}
    Jobs = {}
    Admins = {t1, t2}
    MaxDomains = 1
    MaxAccounts = 1
    MaxMails = 0
SPECIFICATION DirSpec
PROPERTY
    GoneStaysGone
