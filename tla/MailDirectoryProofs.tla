------------------------- MODULE MailDirectoryProofs -------------------------
(***************************************************************************)
(* Proofs about the tables of domains, accounts and mails, for any number  *)
(* of names, users, overlapping requests and rows.                         *)
(***************************************************************************)
EXTENDS MailDirectory, TLAPS

\* What a request holds between its two steps.
LEMMA RequestFacts ==
    ASSUME NEW r \in Requests
    PROVE  /\ r.step = "insertDomain" => r.name \in Names
           /\ r.step = "writeDomain" => r.id \in DomainIDs /\ r.active \in BOOLEAN
           /\ r.step = "insertAccount" =>
                 r.id \in DomainIDs /\ r.domain \in Domain /\ r.user \in Users
           /\ r.step = "writeAccount" => r.id \in AccountIDs /\ r.active \in BOOLEAN
  BY DEF Requests, Idle

-----------------------------------------------------------------------------
(* The invariant. *)

\* A table without rows.
LEMMA EmptyTable ==
    ASSUME NEW Ids, NEW Row
    PROVE  IsTable(<< >>, Ids, Row) /\ DOMAIN << >> = {}
<1>1. << >> \in [{} -> Row]
  OBVIOUS
<1>2. DOMAIN << >> = {}
  BY <1>1
<1> QED
  BY <1>1, <1>2 DEF IsTable


\* What the unique indexes promise.
NamesUnique ==
    \A d, e \in DOMAIN domains : domains[d].name = domains[e].name => d = e
AccountsUnique ==
    \A a, b \in DOMAIN accounts :
        accounts[a].user = accounts[b].user /\ accounts[a].dom = accounts[b].dom => a = b

\* What the foreign key promises.
AccountHasDomain == \A a \in DOMAIN accounts : accounts[a].dom \in DOMAIN domains

\* AUTO_INCREMENT: rows, and the domain rows that requests hold, have ids that
\* were given out.
Fresh ==
    /\ \A d \in DOMAIN domains : d < nextDomain
    /\ \A a \in DOMAIN accounts : a < nextAccount
    /\ \A m \in DOMAIN emails : m < nextMail
    /\ \A t \in Admins : adm[t].step = "insertAccount" => adm[t].id < nextDomain

DirInv == DirTypeOK /\ NamesUnique /\ AccountsUnique /\ AccountHasDomain /\ Fresh

\* What no step of the directory does: give an id twice, undelete a row, or
\* change an account's user, its domain, or a domain's name.
Stable ==
    /\ nextAccount <= nextAccount'
    /\ \A a \in DOMAIN accounts' :
          \/ a = nextAccount /\ a < nextAccount'
          \/ /\ a \in DOMAIN accounts
             /\ accounts'[a].user = accounts[a].user
             /\ accounts'[a].dom = accounts[a].dom
             /\ accounts[a].deleted => accounts'[a].deleted
             /\ domains'[accounts[a].dom].name = domains[accounts[a].dom].name
    /\ \A d \in DOMAIN domains \cap DOMAIN domains' : domains[d].deleted => domains'[d].deleted
    /\ DOMAIN emails' = DOMAIN emails
    /\ \A m \in DOMAIN emails : emails'[m].acc = emails[m].acc /\ emails'[m].path = emails[m].path

\* The invariant holds of empty tables.
LEMMA DirectoryInit == DirInit => DirInv
<1> SUFFICES ASSUME DirInit PROVE DirInv
  OBVIOUS
<1>1. DOMAIN domains = {} /\ DOMAIN accounts = {} /\ DOMAIN emails = {}
  BY DEF DirInit
<1>2. DirTypeOK
  <2>1. /\ IsTable(domains, DomainIDs, Domain) /\ IsTable(accounts, AccountIDs, Account)
        /\ IsTable(emails, MailIDs, Email)
    BY EmptyTable DEF DirInit
  <2>2. Idle \in Requests
    BY DEF Requests
  <2>3. /\ nextDomain \in 1..MaxDomains + 1 /\ nextAccount \in 1..MaxAccounts + 1
        /\ nextMail \in 1..MaxMails + 1
    BY DirectoryAssumption DEF DirInit
  <2> QED
    BY <2>1, <2>2, <2>3 DEF DirInit, DirTypeOK
<1> QED
  BY <1>1, <1>2 DEF DirInit, DirInv, NamesUnique, AccountsUnique, AccountHasDomain, Fresh, Idle

-----------------------------------------------------------------------------
(* One lemma per kind of step: each keeps the invariant and is stable. *)

\* The types in the form the steps need them.
LEMMA RowFacts ==
    ASSUME DirInv
    PROVE  /\ domains \in [DOMAIN domains -> Domain] /\ DOMAIN domains \subseteq DomainIDs
           /\ accounts \in [DOMAIN accounts -> Account] /\ DOMAIN accounts \subseteq AccountIDs
           /\ emails \in [DOMAIN emails -> Email] /\ DOMAIN emails \subseteq MailIDs
           /\ nextDomain \in Nat /\ nextAccount \in Nat /\ nextMail \in Nat
           /\ adm \in [Admins -> Requests]
           /\ DomainIDs \subseteq Nat /\ AccountIDs \subseteq Nat /\ MailIDs \subseteq Nat
<1>1. DirTypeOK
  BY DEF DirInv
<1>2. domains \in [DOMAIN domains -> Domain] /\ DOMAIN domains \subseteq DomainIDs
  BY <1>1 DEF DirTypeOK, IsTable
<1>3. accounts \in [DOMAIN accounts -> Account] /\ DOMAIN accounts \subseteq AccountIDs
  BY <1>1 DEF DirTypeOK, IsTable
<1>4. emails \in [DOMAIN emails -> Email] /\ DOMAIN emails \subseteq MailIDs
  BY <1>1 DEF DirTypeOK, IsTable
<1> QED
  BY <1>1, <1>2, <1>3, <1>4, DirectoryAssumption DEF DirTypeOK, DomainIDs, AccountIDs, MailIDs

\* Steps that change what requests hold and no table.
LEMMA RequestsOnly ==
    ASSUME DirInv, UNCHANGED <<domainVars, accountVars, mailVars>>,
           adm' \in [Admins -> Requests],
           \A t \in Admins : adm'[t].step = "insertAccount" => adm'[t].id < nextDomain
    PROVE  DirInv' /\ Stable
<1> USE DEF domainVars, accountVars, mailVars
<1>1. DirTypeOK'
  BY DEF DirInv, DirTypeOK
<1>2. NamesUnique' /\ AccountsUnique' /\ AccountHasDomain' /\ Fresh'
  BY DEF DirInv, NamesUnique, AccountsUnique, AccountHasDomain, Fresh
<1>3. Stable
  <2>1. nextAccount <= nextAccount
    BY RowFacts
  <2> QED
    BY <2>1 DEF Stable
<1> QED
  BY <1>1, <1>2, <1>3 DEF DirInv

\* One request put down or taken up.
LEMMA OneRequest ==
    ASSUME DirInv, NEW t \in Admins, NEW r \in Requests,
           r.step = "insertAccount" => r.id < nextDomain,
           adm' = [adm EXCEPT ![t] = r]
    PROVE  /\ adm' \in [Admins -> Requests]
           /\ \A u \in Admins : adm'[u].step = "insertAccount" => adm'[u].id < nextDomain
<1>1. adm \in [Admins -> Requests]
  BY RowFacts
<1> QED
  BY <1>1 DEF DirInv, Fresh

\* The first steps of the calls that read before they write.
LEMMA ReadStep ==
    ASSUME DirInv, NEW t \in Admins,
           \/ \E n \in Names : CheckDomainName(t, n)
           \/ \E d \in DomainIDs : ReadDomainActive(t, d)
           \/ \E d \in DomainIDs, u \in Users : FindDomainForAccount(t, d, u)
           \/ \E a \in AccountIDs : ReadAccountActive(t, a)
    PROVE  DirInv' /\ Stable
<1>1. UNCHANGED <<domainVars, accountVars, mailVars>>
  BY DEF CheckDomainName, ReadDomainActive, FindDomainForAccount, ReadAccountActive
<1>2. PICK r \in Requests : /\ adm' = [adm EXCEPT ![t] = r]
                            /\ r.step = "insertAccount" => r.id < nextDomain
  <2>1. ASSUME NEW n \in Names, CheckDomainName(t, n)
        PROVE  \E r \in Requests : /\ adm' = [adm EXCEPT ![t] = r]
                                   /\ r.step = "insertAccount" => r.id < nextDomain
    <3>1. [step |-> "insertDomain", name |-> n] \in Requests
      BY DEF Requests
    <3> QED
      BY <2>1, <3>1 DEF CheckDomainName
  <2>2. ASSUME NEW d \in DomainIDs, ReadDomainActive(t, d)
        PROVE  \E r \in Requests : /\ adm' = [adm EXCEPT ![t] = r]
                                   /\ r.step = "insertAccount" => r.id < nextDomain
    <3>1. domains[d].active \in BOOLEAN
      BY <2>2, RowFacts DEF ReadDomainActive, Domain
    <3>2. [step |-> "writeDomain", id |-> d, active |-> domains[d].active] \in Requests
      BY <3>1 DEF Requests
    <3> QED
      BY <2>2, <3>2 DEF ReadDomainActive
  <2>3. ASSUME NEW d \in DomainIDs, NEW u \in Users, FindDomainForAccount(t, d, u)
        PROVE  \E r \in Requests : /\ adm' = [adm EXCEPT ![t] = r]
                                   /\ r.step = "insertAccount" => r.id < nextDomain
    <3>1. domains[d] \in Domain /\ d < nextDomain
      BY <2>3, RowFacts DEF FindDomainForAccount, DirInv, Fresh
    <3>2. [step |-> "insertAccount", id |-> d, domain |-> domains[d], user |-> u] \in Requests
      BY <3>1 DEF Requests
    <3> QED
      BY <2>3, <3>1, <3>2 DEF FindDomainForAccount
  <2>4. ASSUME NEW a \in AccountIDs, ReadAccountActive(t, a)
        PROVE  \E r \in Requests : /\ adm' = [adm EXCEPT ![t] = r]
                                   /\ r.step = "insertAccount" => r.id < nextDomain
    <3>1. accounts[a].active \in BOOLEAN
      BY <2>4, RowFacts DEF ReadAccountActive, Account
    <3>2. [step |-> "writeAccount", id |-> a, active |-> accounts[a].active] \in Requests
      BY <3>1 DEF Requests
    <3> QED
      BY <2>4, <3>2 DEF ReadAccountActive
  <2> QED
    BY <2>1, <2>2, <2>3, <2>4
<1> QED
  BY <1>1, <1>2, OneRequest, RequestsOnly

\* A request that is done holds nothing.
LEMMA RequestDone ==
    ASSUME DirInv, NEW t \in Admins, adm' = [adm EXCEPT ![t] = Idle]
    PROVE  /\ adm' \in [Admins -> Requests]
           /\ \A u \in Admins : adm'[u].step = "insertAccount" => adm'[u].id < nextDomain
<1>1. Idle \in Requests /\ Idle.step # "insertAccount"
  BY DEF Requests, Idle
<1> QED
  BY <1>1, OneRequest

\* CreateDomain's INSERT: the index keeps names unique, the id is new.
LEMMA InsertDomainStep ==
    ASSUME DirInv, NEW t \in Admins, InsertDomain(t)
    PROVE  DirInv' /\ Stable
<1>1. CASE UNCHANGED domainVars
  BY <1>1, RequestDone, RequestsOnly DEF InsertDomain
<1>2. CASE ~ UNCHANGED domainVars
  <2> DEFINE n   == adm[t].name
             row == [name |-> n, active |-> TRUE, deleted |-> FALSE]
  <2>1. /\ adm[t].step = "insertDomain" /\ Named(n) = {} /\ nextDomain \in DomainIDs
        /\ domains' = With(domains, nextDomain, row) /\ nextDomain' = nextDomain + 1
        /\ UNCHANGED <<accounts, nextAccount, emails, nextMail>>
        /\ adm' = [adm EXCEPT ![t] = Idle]
    BY <1>2 DEF InsertDomain, domainVars, accountVars, mailVars
  <2>2. row \in Domain /\ row.name = n
    BY <2>1, RowFacts, RequestFacts DEF Domain
  <2> HIDE DEF row
  <2>3. IsTable(domains, DomainIDs, Domain)
    BY DEF DirInv, DirTypeOK
  <2>4. /\ IsTable(domains', DomainIDs, Domain)
        /\ DOMAIN domains' = DOMAIN domains \cup {nextDomain}
        /\ domains'[nextDomain] = row
        /\ \A d \in DOMAIN domains : d # nextDomain => domains'[d] = domains[d]
    <3> DEFINE w == With(domains, nextDomain, row)
    <3>1. nextDomain \in DomainIDs /\ row \in Domain
      BY <2>1, <2>2
    <3>2. /\ IsTable(w, DomainIDs, Domain) /\ DOMAIN w = DOMAIN domains \cup {nextDomain}
          /\ w[nextDomain] = row
          /\ \A d \in DOMAIN domains : d # nextDomain => w[d] = domains[d]
      BY <3>1, <2>3 DEF With, IsTable
    <3> QED
      BY <2>1, <3>2
  <2>5. nextDomain \notin DOMAIN domains
    BY RowFacts DEF DirInv, Fresh
  <2>6. \A d \in DOMAIN domains : domains[d].name # n
    BY <2>1 DEF Named
  <2>7. DirTypeOK'
    <3>1. nextDomain' \in 1..MaxDomains + 1
      BY <2>1, DirectoryAssumption DEF DomainIDs
    <3> QED
      BY <2>1, <2>4, <3>1, RequestDone DEF DirInv, DirTypeOK
  <2>8. NamesUnique'
    BY <2>2, <2>4, <2>5, <2>6 DEF DirInv, NamesUnique
  <2>9. AccountsUnique' /\ AccountHasDomain'
    BY <2>1, <2>4 DEF DirInv, AccountsUnique, AccountHasDomain
  <2>10. Fresh'
    <3>1. \A u \in Admins : adm'[u].step = "insertAccount" => adm'[u].id < nextDomain
      BY <2>1, RequestDone
    <3>2. \A u \in Admins : adm'[u].step = "insertAccount" => adm'[u].id \in Nat
      BY <2>1, RequestDone, RequestFacts, RowFacts
    <3> QED
      BY <2>1, <2>4, <3>1, <3>2, RowFacts DEF DirInv, Fresh
  <2>11. Stable
    BY <2>1, <2>4, <2>5, RowFacts DEF Stable, DirInv, AccountHasDomain
  <2> QED
    BY <2>7, <2>8, <2>9, <2>10, <2>11 DEF DirInv
<1> QED
  BY <1>1, <1>2

\* A change of flags in the domains table: ToggleDomainActive's UPDATE and
\* DeleteDomain.
LEMMA DomainFlags ==
    ASSUME DirInv, UNCHANGED <<nextDomain, accountVars, mailVars>>,
           domains' \in [DOMAIN domains -> Domain],
           \A d \in DOMAIN domains : /\ domains'[d].name = domains[d].name
                                     /\ domains[d].deleted => domains'[d].deleted,
           adm' \in [Admins -> Requests],
           \A t \in Admins : adm'[t].step = "insertAccount" => adm'[t].id < nextDomain
    PROVE  DirInv' /\ Stable
<1> USE DEF accountVars, mailVars
<1>1. DOMAIN domains' = DOMAIN domains /\ IsTable(domains', DomainIDs, Domain)
  BY RowFacts DEF IsTable
<1>2. DirTypeOK'
  BY <1>1 DEF DirInv, DirTypeOK
<1>3. NamesUnique' /\ AccountsUnique' /\ AccountHasDomain' /\ Fresh'
  BY <1>1 DEF DirInv, NamesUnique, AccountsUnique, AccountHasDomain, Fresh
<1>4. Stable
  BY <1>1, RowFacts DEF Stable, DirInv, AccountHasDomain
<1> QED
  BY <1>2, <1>3, <1>4 DEF DirInv

\* The two of them change flags only.
LEMMA DomainFlagSteps ==
    ASSUME DirInv,
           \/ \E t \in Admins : WriteDomainActive(t)
           \/ \E d \in DomainIDs : DeleteDomain(d)
    PROVE  DirInv' /\ Stable
<1>1. ASSUME NEW t \in Admins, WriteDomainActive(t) PROVE DirInv' /\ Stable
  <2>1. adm[t].active \in BOOLEAN
    BY <1>1, RowFacts, RequestFacts DEF WriteDomainActive
  <2>2. /\ domains' \in [DOMAIN domains -> Domain]
        /\ \A d \in DOMAIN domains : /\ domains'[d].name = domains[d].name
                                     /\ domains[d].deleted => domains'[d].deleted
    BY <1>1, <2>1, RowFacts DEF WriteDomainActive, Domain
  <2> QED
    BY <1>1, <2>2, RequestDone, DomainFlags DEF WriteDomainActive
<1>2. ASSUME NEW d \in DomainIDs, DeleteDomain(d) PROVE DirInv' /\ Stable
  <2>1. /\ domains' \in [DOMAIN domains -> Domain]
        /\ \A e \in DOMAIN domains : /\ domains'[e].name = domains[e].name
                                     /\ domains[e].deleted => domains'[e].deleted
    <3>1. d \in DOMAIN domains /\ \A e \in DOMAIN domains : domains[e] \in Domain
      BY <1>2, RowFacts DEF DeleteDomain
    <3>2. domains' = [domains EXCEPT ![d].deleted = TRUE]
      BY <1>2 DEF DeleteDomain
    <3>3. [domains[d] EXCEPT !.deleted = TRUE] \in Domain
      BY <3>1 DEF Domain
    <3> QED
      BY <3>1, <3>2, <3>3, RowFacts DEF Domain
  <2>2. /\ adm' \in [Admins -> Requests]
        /\ \A t \in Admins : adm'[t].step = "insertAccount" => adm'[t].id < nextDomain
    BY <1>2, RowFacts DEF DeleteDomain, DirInv, Fresh
  <2> QED
    BY <1>2, <2>1, <2>2, DomainFlags DEF DeleteDomain
<1> QED
  BY <1>1, <1>2

\* PhysicalDeleteDomain takes the accounts along, in one transaction.
LEMMA PhysicalDeleteStep ==
    ASSUME DirInv, NEW d \in DomainIDs, PhysicalDeleteDomain(d)
    PROVE  DirInv' /\ Stable
<1> USE DEF PhysicalDeleteDomain, mailVars
<1> DEFINE theirs == {a \in DOMAIN accounts : accounts[a].dom = d}
<1>1. accounts' = Without(accounts, theirs) /\ domains' = Without(domains, {d})
  OBVIOUS
<1>2. IsTable(domains, DomainIDs, Domain) /\ IsTable(accounts, AccountIDs, Account)
  BY DEF DirInv, DirTypeOK
<1>3. \A a \in DOMAIN accounts : a \in theirs <=> accounts[a].dom = d
  OBVIOUS
<1> HIDE DEF theirs, PhysicalDeleteDomain
<1>4. /\ IsTable(domains', DomainIDs, Domain) /\ DOMAIN domains' = DOMAIN domains \ {d}
      /\ \A e \in DOMAIN domains \ {d} : domains'[e] = domains[e]
  <2> DEFINE w == Without(domains, {d})
  <2>1. /\ IsTable(w, DomainIDs, Domain) /\ DOMAIN w = DOMAIN domains \ {d}
        /\ \A e \in DOMAIN domains \ {d} : w[e] = domains[e]
    BY <1>2 DEF Without, IsTable
  <2> QED
    BY <1>1, <2>1
<1>5. /\ IsTable(accounts', AccountIDs, Account) /\ DOMAIN accounts' = DOMAIN accounts \ theirs
      /\ \A a \in DOMAIN accounts \ theirs : accounts'[a] = accounts[a]
  <2> DEFINE w == Without(accounts, theirs)
  <2>1. /\ IsTable(w, AccountIDs, Account) /\ DOMAIN w = DOMAIN accounts \ theirs
        /\ \A a \in DOMAIN accounts \ theirs : w[a] = accounts[a]
    BY <1>2 DEF Without, IsTable
  <2> QED
    BY <1>1, <2>1
<1>6. UNCHANGED <<nextDomain, nextAccount, mailVars, adm>>
  BY DEF PhysicalDeleteDomain
<1>7. DirTypeOK'
  BY <1>6, <1>4, <1>5 DEF DirInv, DirTypeOK
<1>8. NamesUnique' /\ AccountsUnique' /\ AccountHasDomain' /\ Fresh'
  BY <1>3, <1>6, <1>4, <1>5 DEF DirInv, NamesUnique, AccountsUnique, AccountHasDomain, Fresh
<1>9. Stable
  BY <1>3, <1>6, <1>4, <1>5, RowFacts DEF Stable, DirInv, AccountHasDomain
<1> QED
  BY <1>7, <1>8, <1>9 DEF DirInv

\* What CreateAccount's transaction leaves in the domains table: the rows that
\* were there and perhaps the one it read, back under its old id.
LEMMA SavedDomain ==
    ASSUME DirInv, NEW t \in Admins, adm[t].step = "insertAccount"
    PROVE  LET saved == SaveDomainOf(adm[t]) IN
           /\ IsTable(saved, DomainIDs, Domain)
           /\ DOMAIN domains \subseteq DOMAIN saved
           /\ \A d \in DOMAIN domains : saved[d] = domains[d]
           /\ \A d \in DOMAIN saved : d < nextDomain
           /\ \A d, e \in DOMAIN saved : saved[d].name = saved[e].name => d = e
<1> DEFINE id  == adm[t].id
           row == adm[t].domain
<1>1. id \in DomainIDs /\ row \in Domain /\ id < nextDomain
  BY RowFacts, RequestFacts DEF DirInv, Fresh
<1>2. IsTable(domains, DomainIDs, Domain)
  BY DEF DirInv, DirTypeOK
<1>3. SaveDomainOf(adm[t]) = IF id \in DOMAIN domains \/ Named(row.name) # {}
                             THEN domains ELSE With(domains, id, row)
  BY DEF SaveDomainOf
<1> HIDE DEF id, row
<1>4. CASE id \in DOMAIN domains \/ Named(row.name) # {}
  BY <1>2, <1>3, <1>4 DEF DirInv, Fresh, NamesUnique
<1>5. CASE id \notin DOMAIN domains /\ Named(row.name) = {}
  <2> DEFINE w == With(domains, id, row)
  <2>1. /\ IsTable(w, DomainIDs, Domain) /\ DOMAIN w = DOMAIN domains \cup {id}
        /\ w[id] = row
        /\ \A d \in DOMAIN domains : d # id => w[d] = domains[d]
    BY <1>1, <1>2 DEF With, IsTable
  <2> HIDE DEF w
  <2>2. SaveDomainOf(adm[t]) = w
    BY <1>3, <1>5 DEF w
  <2>3. \A d \in DOMAIN domains : domains[d].name # row.name
    BY <1>5 DEF Named
  <2> QED
    BY <1>1, <1>5, <2>1, <2>2, <2>3 DEF DirInv, Fresh, NamesUnique
<1> QED
  BY <1>4, <1>5

\* CreateAccount's transaction: the foreign key keeps the domain, the index
\* keeps user and domain unique, the id is new.
LEMMA InsertAccountStep ==
    ASSUME DirInv, NEW t \in Admins, InsertAccount(t)
    PROVE  DirInv' /\ Stable
<1>1. CASE UNCHANGED <<domains, accountVars>>
  BY <1>1, RequestDone, RequestsOnly DEF InsertAccount, domainVars
<1>2. CASE ~ UNCHANGED <<domains, accountVars>>
  <2> DEFINE req == adm[t]
             row == [user |-> req.user, dom |-> req.id, active |-> TRUE, deleted |-> FALSE]
  <2>1. /\ req.step = "insertAccount" /\ adm' = [adm EXCEPT ![t] = Idle]
        /\ ~ \E a \in DOMAIN accounts : accounts[a].user = req.user /\ accounts[a].dom = req.id
        /\ req.id \in DOMAIN SaveDomainOf(req) /\ nextAccount \in AccountIDs
        /\ domains' = SaveDomainOf(req)
        /\ accounts' = With(accounts, nextAccount, row)
        /\ nextAccount' = nextAccount + 1
        /\ UNCHANGED <<nextDomain, emails, nextMail>>
    BY <1>2 DEF InsertAccount, accountVars, mailVars
  <2>2. row \in Account
    BY <2>1, RowFacts, RequestFacts DEF Account
  <2>3. row.user = req.user /\ row.dom = req.id /\ row.deleted = FALSE
    OBVIOUS
  <2> HIDE DEF row
  <2>4. IsTable(accounts, AccountIDs, Account)
    BY DEF DirInv, DirTypeOK
  <2>5. /\ IsTable(accounts', AccountIDs, Account)
        /\ DOMAIN accounts' = DOMAIN accounts \cup {nextAccount}
        /\ accounts'[nextAccount] = row
        /\ \A a \in DOMAIN accounts : a # nextAccount => accounts'[a] = accounts[a]
    <3> DEFINE w == With(accounts, nextAccount, row)
    <3>1. nextAccount \in AccountIDs /\ row \in Account
      BY <2>1, <2>2
    <3>2. /\ IsTable(w, AccountIDs, Account) /\ DOMAIN w = DOMAIN accounts \cup {nextAccount}
          /\ w[nextAccount] = row
          /\ \A a \in DOMAIN accounts : a # nextAccount => w[a] = accounts[a]
      BY <2>4, <3>1 DEF With, IsTable
    <3> QED
      BY <2>1, <3>2
  <2>6. nextAccount \notin DOMAIN accounts
    BY RowFacts DEF DirInv, Fresh
  <2>7. /\ IsTable(domains', DomainIDs, Domain) /\ DOMAIN domains \subseteq DOMAIN domains'
        /\ \A d \in DOMAIN domains : domains'[d] = domains[d]
        /\ \A d \in DOMAIN domains' : d < nextDomain
        /\ \A d, e \in DOMAIN domains' : domains'[d].name = domains'[e].name => d = e
    BY <2>1, SavedDomain
  <2>8. DirTypeOK'
    <3>1. nextAccount' \in 1..MaxAccounts + 1
      BY <2>1, DirectoryAssumption DEF AccountIDs
    <3> QED
      BY <2>1, <2>5, <2>7, <3>1, RequestDone DEF DirInv, DirTypeOK
  <2>9. NamesUnique'
    BY <2>7 DEF NamesUnique
  <2>10. AccountsUnique'
    BY <2>1, <2>3, <2>5, <2>6 DEF DirInv, AccountsUnique
  <2>11. AccountHasDomain'
    BY <2>1, <2>3, <2>5, <2>6, <2>7 DEF DirInv, AccountHasDomain
  <2>12. Fresh'
    <3>1. /\ \A u \in Admins : adm'[u].step = "insertAccount" => adm'[u].id < nextDomain
          /\ UNCHANGED <<nextDomain, emails, nextMail>>
      BY <2>1, RequestDone
    <3>2. \A a \in DOMAIN accounts' : a < nextAccount'
      BY <2>1, <2>5, RowFacts DEF DirInv, Fresh
    <3> QED
      BY <2>7, <3>1, <3>2 DEF DirInv, Fresh
  <2>13. Stable
    BY <2>1, <2>5, <2>6, <2>7, RowFacts DEF Stable, DirInv, AccountHasDomain
  <2> QED
    BY <2>8, <2>9, <2>10, <2>11, <2>12, <2>13 DEF DirInv
<1> QED
  BY <1>1, <1>2

\* A change of flags in the accounts and emails tables: ToggleAccount's UPDATE,
\* DeleteAccount and DeleteMail.
LEMMA AccountFlags ==
    ASSUME DirInv, UNCHANGED <<domainVars, nextAccount, nextMail>>,
           accounts' \in [DOMAIN accounts -> Account],
           \A a \in DOMAIN accounts : /\ accounts'[a].user = accounts[a].user
                                      /\ accounts'[a].dom = accounts[a].dom
                                      /\ accounts[a].deleted => accounts'[a].deleted,
           emails' \in [DOMAIN emails -> Email],
           \A m \in DOMAIN emails : emails'[m].acc = emails[m].acc /\ emails'[m].path = emails[m].path,
           adm' \in [Admins -> Requests],
           \A t \in Admins : adm'[t].step = "insertAccount" => adm'[t].id < nextDomain
    PROVE  DirInv' /\ Stable
<1> USE DEF domainVars
<1>1. /\ DOMAIN accounts' = DOMAIN accounts /\ IsTable(accounts', AccountIDs, Account)
      /\ DOMAIN emails' = DOMAIN emails /\ IsTable(emails', MailIDs, Email)
  BY RowFacts DEF IsTable
<1>2. DirTypeOK'
  BY <1>1 DEF DirInv, DirTypeOK
<1>3. NamesUnique' /\ AccountsUnique' /\ AccountHasDomain' /\ Fresh'
  BY <1>1 DEF DirInv, NamesUnique, AccountsUnique, AccountHasDomain, Fresh
<1>4. Stable
  BY <1>1, RowFacts DEF Stable, DirInv, AccountHasDomain
<1> QED
  BY <1>2, <1>3, <1>4 DEF DirInv

\* The three of them change flags only.
LEMMA AccountFlagSteps ==
    ASSUME DirInv,
           \/ \E t \in Admins : WriteAccountActive(t)
           \/ \E a \in AccountIDs : DeleteAccount(a) \/ \E m \in MailIDs : DeleteMail(a, m)
    PROVE  DirInv' /\ Stable
<1>1. ASSUME NEW t \in Admins, WriteAccountActive(t) PROVE DirInv' /\ Stable
  <2>1. adm[t].active \in BOOLEAN
    BY <1>1, RowFacts, RequestFacts DEF WriteAccountActive
  <2>2. /\ accounts' \in [DOMAIN accounts -> Account]
        /\ \A a \in DOMAIN accounts : /\ accounts'[a].user = accounts[a].user
                                      /\ accounts'[a].dom = accounts[a].dom
                                      /\ accounts[a].deleted => accounts'[a].deleted
    BY <1>1, <2>1, RowFacts DEF WriteAccountActive, Account
  <2> QED
    BY <1>1, <2>2, RowFacts, RequestDone, AccountFlags DEF WriteAccountActive, mailVars
<1>2. /\ adm \in [Admins -> Requests]
      /\ \A t \in Admins : adm[t].step = "insertAccount" => adm[t].id < nextDomain
  BY RowFacts DEF DirInv, Fresh
<1>3. ASSUME NEW a \in AccountIDs, DeleteAccount(a) PROVE DirInv' /\ Stable
  <2>1. /\ accounts' \in [DOMAIN accounts -> Account]
        /\ \A b \in DOMAIN accounts : /\ accounts'[b].user = accounts[b].user
                                      /\ accounts'[b].dom = accounts[b].dom
                                      /\ accounts[b].deleted => accounts'[b].deleted
    BY <1>3, RowFacts DEF DeleteAccount, Account
  <2>2. /\ emails' \in [DOMAIN emails -> Email]
        /\ \A m \in DOMAIN emails :
              emails'[m].acc = emails[m].acc /\ emails'[m].path = emails[m].path
    BY <1>3, RowFacts DEF DeleteAccount, Email
  <2> QED
    BY <1>2, <1>3, <2>1, <2>2, AccountFlags DEF DeleteAccount
<1>4. ASSUME NEW a \in AccountIDs, NEW m \in MailIDs, DeleteMail(a, m) PROVE DirInv' /\ Stable
  <2>1. /\ emails' \in [DOMAIN emails -> Email]
        /\ \A k \in DOMAIN emails :
              emails'[k].acc = emails[k].acc /\ emails'[k].path = emails[k].path
    <3>1. emails \in [DOMAIN emails -> Email] /\ emails[m] \in Email
      BY <1>4, RowFacts DEF DeleteMail
    <3>2. [emails[m] EXCEPT !.deleted = TRUE] \in Email
      BY <3>1 DEF Email
    <3> QED
      BY <1>4, <3>1, <3>2 DEF DeleteMail, Email
  <2> QED
    BY <1>2, <1>4, <2>1, RowFacts, AccountFlags DEF DeleteMail, accountVars
<1> QED
  BY <1>1, <1>3, <1>4

-----------------------------------------------------------------------------
\* Every call keeps the invariant and is stable.
LEMMA DirectoryStep ==
    ASSUME DirInv, [DirNext]_dirVars
    PROVE  DirInv' /\ Stable
<1>1. CASE \E t \in Admins : \/ \E n \in Names : CheckDomainName(t, n)
                             \/ \E d \in DomainIDs : ReadDomainActive(t, d)
                             \/ \E d \in DomainIDs, u \in Users : FindDomainForAccount(t, d, u)
                             \/ \E a \in AccountIDs : ReadAccountActive(t, a)
  BY <1>1, ReadStep
<1>2. CASE \E t \in Admins : InsertDomain(t)
  BY <1>2, InsertDomainStep
<1>3. CASE \/ \E t \in Admins : WriteDomainActive(t)
           \/ \E d \in DomainIDs : DeleteDomain(d)
  BY <1>3, DomainFlagSteps
<1>4. CASE \E d \in DomainIDs : PhysicalDeleteDomain(d)
  BY <1>4, PhysicalDeleteStep
<1>5. CASE \E t \in Admins : InsertAccount(t)
  BY <1>5, InsertAccountStep
<1>6. CASE \/ \E t \in Admins : WriteAccountActive(t)
           \/ \E a \in AccountIDs : DeleteAccount(a) \/ \E m \in MailIDs : DeleteMail(a, m)
  BY <1>6, AccountFlagSteps
<1>7. CASE UNCHANGED dirVars
  <2>1. /\ UNCHANGED <<domainVars, accountVars, mailVars>>
        /\ adm' \in [Admins -> Requests]
        /\ \A t \in Admins : adm'[t].step = "insertAccount" => adm'[t].id < nextDomain
    BY <1>7, RowFacts DEF dirVars, domainVars, accountVars, mailVars, DirInv, Fresh
  <2> QED
    BY <2>1, RequestsOnly
<1> QED
  BY <1>1, <1>2, <1>3, <1>4, <1>5, <1>6, <1>7 DEF DirNext, DomainCall, AccountCall

\* The invariant holds in every reachable state.
LEMMA DirectoryInvariant == DirSpec => []DirInv
<1>1. DirInv /\ [DirNext]_dirVars => DirInv'
  BY DirectoryStep
<1> QED
  BY <1>1, DirectoryInit, PTL DEF DirSpec

\* What unique names and unique rows come to.
LEMMA UniqueAddresses == DirInv => AddressUnique
  BY DEF DirInv, NamesUnique, AccountsUnique, AddressUnique

\* The types and bounds of the tables and of what requests hold.
THEOREM DirectoryTypes == DirSpec => []DirTypeOK
<1>1. DirInv => DirTypeOK
  BY DEF DirInv
<1> QED
  BY <1>1, DirectoryInvariant, PTL

\* Whatever calls overlap, an address belongs to one account.
THEOREM AddressesAreUnique == DirSpec => []AddressUnique
  BY UniqueAddresses, DirectoryInvariant, PTL

\* No call undeletes an account or a domain whose row exists.
THEOREM DeletionsAreFinal == DirSpec => DeletionIsFinal
<1>1. DirInv /\ [DirNext]_dirVars =>
         [/\ \A a \in DOMAIN accounts \cap DOMAIN accounts' :
                accounts[a].deleted => accounts'[a].deleted
          /\ \A d \in DOMAIN domains \cap DOMAIN domains' :
                domains[d].deleted => domains'[d].deleted]_dirVars
  <2> SUFFICES ASSUME DirInv, [DirNext]_dirVars
               PROVE  /\ \A a \in DOMAIN accounts \cap DOMAIN accounts' :
                            accounts[a].deleted => accounts'[a].deleted
                      /\ \A d \in DOMAIN domains \cap DOMAIN domains' :
                            domains[d].deleted => domains'[d].deleted
    OBVIOUS
  <2>1. Stable
    BY DirectoryStep
  <2>2. nextAccount \notin DOMAIN accounts
    BY RowFacts DEF DirInv, Fresh
  <2> QED
    BY <2>1, <2>2 DEF Stable
<1> QED
  BY <1>1, DirectoryInvariant, PTL DEF DirSpec, DeletionIsFinal
=============================================================================
