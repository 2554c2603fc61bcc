--------------------------- MODULE MailDirectory ---------------------------
(***************************************************************************)
(* The domains, accounts and emails tables of internal/app/domain/model    *)
(* (domain.go, account.go, email.go) and the administration calls that     *)
(* change them.                                                            *)
(*                                                                         *)
(* A call that reads a row, decides and then writes without a transaction  *)
(* (CreateDomain, CreateAccount and both toggles) is two steps, so that    *)
(* other calls come between them; a statement or a transaction is one      *)
(* step.  A table is a function from the ids of its rows to the rows.  A   *)
(* call that ends in an error before it writes leaves everything as it is. *)
(* Names and users are compared as the database compares them; a mail row  *)
(* keeps its account, its file and its deleted flag.                       *)
(***************************************************************************)
EXTENDS Naturals, FiniteSets, Table

CONSTANTS Names,        \* domain names
          Users,        \* account names, without the domain
          Jobs,         \* job ids of messages
          Admins,       \* requests of the administration site under way at once
          MaxDomains,   \* bound on the ids of the domains table
          MaxAccounts,  \* bound on the ids of the accounts table
          MaxMails      \* bound on the ids of the emails table

ASSUME DirectoryAssumption ==
    /\ Names # {} /\ Users # {}
    /\ MaxDomains \in Nat /\ MaxAccounts \in Nat /\ MaxMails \in Nat

DomainIDs  == 1..MaxDomains
AccountIDs == 1..MaxAccounts
MailIDs    == 1..MaxMails
Paths      == Names \X Users \X Jobs

Domain  == [name : Names, active : BOOLEAN, deleted : BOOLEAN]
Account == [user : Users, dom : DomainIDs, active : BOOLEAN, deleted : BOOLEAN]
Email   == [acc : AccountIDs, path : Paths, deleted : BOOLEAN]

VARIABLES
    domains, nextDomain,    \* the table and its next AUTO_INCREMENT value
    accounts, nextAccount,
    emails, nextMail,
    adm                     \* adm[t]: what request t read and has yet to write

domainVars  == <<domains, nextDomain>>
accountVars == <<accounts, nextAccount>>
mailVars    == <<emails, nextMail>>
dirVars     == <<domains, nextDomain, accounts, nextAccount, emails, nextMail, adm>>

Idle == [step |-> "idle"]
Requests ==
    {Idle}
    \cup [step : {"insertDomain"}, name : Names]
    \cup [step : {"writeDomain"}, id : DomainIDs, active : BOOLEAN]
    \cup [step : {"insertAccount"}, id : DomainIDs, domain : Domain, user : Users]
    \cup [step : {"writeAccount"}, id : AccountIDs, active : BOOLEAN]

DirTypeOK ==
    /\ IsTable(domains, DomainIDs, Domain) /\ nextDomain \in 1..MaxDomains + 1
    /\ IsTable(accounts, AccountIDs, Account) /\ nextAccount \in 1..MaxAccounts + 1
    /\ IsTable(emails, MailIDs, Email) /\ nextMail \in 1..MaxMails + 1
    /\ adm \in [Admins -> Requests]

DirInit ==
    /\ domains = <<>> /\ nextDomain = 1
    /\ accounts = <<>> /\ nextAccount = 1
    /\ emails = <<>> /\ nextMail = 1
    /\ adm = [t \in Admins |-> Idle]

Named(n) == {d \in DOMAIN domains : domains[d].name = n}

ValidateDomain(row)  == row.active /\ ~row.deleted
ValidateAccount(row) == row.active /\ ~row.deleted
-----------------------------------------------------------------------------
(* Domains. *)

\* Faulty variants of some definitions stand before them, each with a bug that
\* is easily made in that code; they are no part of the specification.  A
\* property is checked to fail when one of them takes its definition's place.

\* CreateDomain up to FindDomainByName, which sees deleted domains too.
CheckDomainName(t, n) ==
    /\ adm[t] = Idle
    /\ Named(n) = {}
    /\ adm' = [adm EXCEPT ![t] = [step |-> "insertDomain", name |-> n]]
    /\ UNCHANGED <<domainVars, accountVars, mailVars>>

\* The INSERT of CreateDomain; the unique index on the name, or the
\* connection, can make it fail.
InsertDomain(t) ==
    /\ adm[t].step = "insertDomain"
    /\ adm' = [adm EXCEPT ![t] = Idle]
    /\ \/ /\ Named(adm[t].name) = {}
          /\ nextDomain \in DomainIDs
          /\ domains' = With(domains, nextDomain,
                             [name |-> adm[t].name, active |-> TRUE, deleted |-> FALSE])
          /\ nextDomain' = nextDomain + 1
       \/ UNCHANGED domainVars
    /\ UNCHANGED <<accountVars, mailVars>>

\* ToggleDomainActive: First, then Updates with the negation of what it read.
ReadDomainActive(t, d) ==
    /\ adm[t] = Idle
    /\ d \in DOMAIN domains
    /\ adm' = [adm EXCEPT ![t] = [step |-> "writeDomain", id |-> d, active |-> domains[d].active]]
    /\ UNCHANGED <<domainVars, accountVars, mailVars>>

WriteDomainActive(t) ==
    /\ adm[t].step = "writeDomain"
    /\ domains' = [d \in DOMAIN domains |->
                     IF d = adm[t].id THEN [domains[d] EXCEPT !.active = ~adm[t].active]
                                      ELSE domains[d]]
    /\ adm' = [adm EXCEPT ![t] = Idle]
    /\ UNCHANGED <<nextDomain, accountVars, mailVars>>

\* Updates with a struct writes its non-zero fields: Deleted, not Active.
DeleteDomain(d) ==
    /\ d \in DOMAIN domains
    /\ domains' = [domains EXCEPT ![d].deleted = TRUE]
    /\ UNCHANGED <<nextDomain, accountVars, mailVars, adm>>

\* One transaction: the accounts of the domain, then the domain.
PhysicalDeleteDomain(d) ==
    /\ d \in DOMAIN domains
    /\ accounts' = Without(accounts, {a \in DOMAIN accounts : accounts[a].dom = d})
    /\ domains' = Without(domains, {d})
    /\ UNCHANGED <<nextDomain, nextAccount, mailVars, adm>>
-----------------------------------------------------------------------------
(* Accounts. *)

\* CreateAccount up to the INSERT.  Its look-up of req.Name, a name without a
\* domain, never matches emailRegex and never finds an account.
FindDomainForAccount(t, d, u) ==
    /\ adm[t] = Idle
    /\ d \in DOMAIN domains
    /\ adm' = [adm EXCEPT ![t] = [step |-> "insertAccount", id |-> d,
                                  domain |-> domains[d], user |-> u]]
    /\ UNCHANGED <<domainVars, accountVars, mailVars>>

\* Create saves the Domain it was given too: a domain row that is gone is
\* inserted again, unless its id or its name is taken (then it does nothing).
SaveDomainOf(req) ==
    IF req.id \in DOMAIN domains \/ Named(req.domain.name) # {}
    THEN domains ELSE With(domains, req.id, req.domain)

\* Faulty: no unique index on user and domain.
InsertAccountTwice(t) ==
    LET req == adm[t] IN
    /\ req.step = "insertAccount"
    /\ adm' = [adm EXCEPT ![t] = Idle]
    /\ req.id \in DOMAIN SaveDomainOf(req)
    /\ nextAccount \in AccountIDs
    /\ domains' = SaveDomainOf(req)
    /\ accounts' = With(accounts, nextAccount,
                        [user |-> req.user, dom |-> req.id, active |-> TRUE, deleted |-> FALSE])
    /\ nextAccount' = nextAccount + 1
    /\ UNCHANGED <<nextDomain, mailVars>>

\* The transaction of Create.  The unique index on user and domain, the
\* foreign key on the domain or the connection can make it fail as a whole;
\* a password that cannot be hashed ends the call before it, with no error.
InsertAccount(t) ==
    LET req == adm[t] IN
    /\ req.step = "insertAccount"
    /\ adm' = [adm EXCEPT ![t] = Idle]
    /\ \/ /\ ~ \E a \in DOMAIN accounts : accounts[a].user = req.user /\ accounts[a].dom = req.id
          /\ req.id \in DOMAIN SaveDomainOf(req)
          /\ nextAccount \in AccountIDs
          /\ domains' = SaveDomainOf(req)
          /\ accounts' = With(accounts, nextAccount,
                              [user |-> req.user, dom |-> req.id,
                               active |-> TRUE, deleted |-> FALSE])
          /\ nextAccount' = nextAccount + 1
       \/ UNCHANGED <<domains, accountVars>>
    /\ UNCHANGED <<nextDomain, mailVars>>

\* ToggleAccount: First, then Update of the one column.
ReadAccountActive(t, a) ==
    /\ adm[t] = Idle
    /\ a \in DOMAIN accounts
    /\ adm' = [adm EXCEPT ![t] = [step |-> "writeAccount", id |-> a, active |-> accounts[a].active]]
    /\ UNCHANGED <<domainVars, accountVars, mailVars>>

\* Faulty: the whole row is saved as it was read, when it was not deleted.
WriteAccountWhole(t) ==
    /\ adm[t].step = "writeAccount"
    /\ accounts' = [a \in DOMAIN accounts |->
                      IF a = adm[t].id THEN [accounts[a] EXCEPT !.active = ~adm[t].active,
                                                                !.deleted = FALSE]
                                       ELSE accounts[a]]
    /\ adm' = [adm EXCEPT ![t] = Idle]
    /\ UNCHANGED <<domainVars, nextAccount, mailVars>>

WriteAccountActive(t) ==
    /\ adm[t].step = "writeAccount"
    /\ accounts' = [a \in DOMAIN accounts |->
                      IF a = adm[t].id THEN [accounts[a] EXCEPT !.active = ~adm[t].active]
                                       ELSE accounts[a]]
    /\ adm' = [adm EXCEPT ![t] = Idle]
    /\ UNCHANGED <<domainVars, nextAccount, mailVars>>

\* One transaction: the mails of the account, then the account.
DeleteAccount(a) ==
    /\ a \in DOMAIN accounts
    /\ emails' = [m \in DOMAIN emails |->
                    [emails[m] EXCEPT !.deleted = @ \/ emails[m].acc = a]]
    /\ accounts' = [accounts EXCEPT ![a].deleted = TRUE]
    /\ UNCHANGED <<domainVars, nextAccount, nextMail, adm>>

\* DeleteMail, from the webmail of account a.
DeleteMail(a, m) ==
    /\ m \in DOMAIN emails
    /\ emails[m].acc = a
    /\ emails' = [emails EXCEPT ![m].deleted = TRUE]
    /\ UNCHANGED <<domainVars, accountVars, nextMail, adm>>
-----------------------------------------------------------------------------
DomainCall ==
    \/ \E t \in Admins : \/ \E n \in Names : CheckDomainName(t, n)
                         \/ InsertDomain(t)
                         \/ \E d \in DomainIDs : ReadDomainActive(t, d)
                         \/ WriteDomainActive(t)
    \/ \E d \in DomainIDs : DeleteDomain(d) \/ PhysicalDeleteDomain(d)

AccountCall ==
    \/ \E t \in Admins : \/ \E d \in DomainIDs, u \in Users : FindDomainForAccount(t, d, u)
                         \/ InsertAccount(t)
                         \/ \E a \in AccountIDs : ReadAccountActive(t, a)
                         \/ WriteAccountActive(t)
    \/ \E a \in AccountIDs : DeleteAccount(a) \/ \E m \in MailIDs : DeleteMail(a, m)

DirNext == DomainCall \/ AccountCall

DirSpec == DirInit /\ [][DirNext]_dirVars
-----------------------------------------------------------------------------
(* Properties. *)

\* One address, one account: what FindAccountByName looks for exists at most
\* once, whatever calls overlap.  CreateAccount's own look-up does not see to
\* that.
AddressUnique ==
    \A a, b \in DOMAIN accounts :
        (/\ accounts[a].user = accounts[b].user
         /\ {accounts[a].dom, accounts[b].dom} \subseteq DOMAIN domains
         /\ domains[accounts[a].dom].name = domains[accounts[b].dom].name) => a = b

\* A soft deletion is final as long as the row exists: a toggle that read the
\* row before the deletion and writes after it does not bring it back.
DeletionIsFinal ==
    [][/\ \A a \in DOMAIN accounts \cap DOMAIN accounts' :
             accounts[a].deleted => accounts'[a].deleted
       /\ \A d \in DOMAIN domains \cap DOMAIN domains' :
             domains[d].deleted => domains'[d].deleted]_dirVars

\* A physical deletion removes the domain, as its comment says: the row does
\* not come back with the data it had.
GoneStaysGone ==
    [][\A d \in 1..nextDomain - 1 : d \notin DOMAIN domains => d \notin DOMAIN domains']_dirVars
=============================================================================
