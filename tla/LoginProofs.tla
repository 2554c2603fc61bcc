---------------------------- MODULE LoginProofs ----------------------------
(***************************************************************************)
(* Proofs about logins, for any number of clients, passwords, names,       *)
(* users, overlapping requests and rows.                                   *)
(***************************************************************************)
EXTENDS Login, MailDirectoryProofs

(* The invariant. *)

\* The names that the table and the requests know a domain id by.
KnownNames(d) ==
    {n \in Names : \/ d \in DOMAIN domains /\ n = domains[d].name
                   \/ \E t \in Admins : /\ adm[t].step = "insertAccount" /\ adm[t].id = d
                                        /\ n = adm[t].domain.name}

\* A domain that comes back comes back under its own name.
OneName == \A d \in DomainIDs : \A m, n \in KnownNames(d) : m = n

\* What was noted of a login, and what it read, against what it was asked.
LoginPlaced(c) ==
    /\ login[c].step \in UnderWay => Justified(login[c].asked) \subseteq seen[c]
    /\ login[c].step = "account" =>
          /\ login[c].id < nextDomain /\ KnownNames(login[c].id) \subseteq {login[c].asked.name}
          /\ login[c].id \in Named(login[c].asked.name) \/ "refused" \in seen[c]
    /\ login[c].step = "verify" =>
          /\ login[c].hash = login[c].asked.pass => "granted" \in seen[c]
          /\ login[c].hash \notin {login[c].asked.pass, NoPassword} => "refused" \in seen[c]
    /\ login[c].step = "granted" => "granted" \in seen[c]
    /\ login[c].step = "refused" => "refused" \in seen[c]

IInv == TypeOK /\ DirInv /\ OneName /\ \A c \in Clients : LoginPlaced(c)
-----------------------------------------------------------------------------
(* What the directory does to the names of domains. *)

\* Where the request of t for an account comes from.
RequestFrom(t) ==
    adm'[t].step = "insertAccount" =>
        \/ adm'[t] = adm[t]
        \/ /\ UNCHANGED domains /\ adm'[t].id \in DOMAIN domains
           /\ adm'[t].domain = domains[adm'[t].id]

\* Where a row of the domains comes from.
DomainFrom(d) ==
    \/ d \in DOMAIN domains /\ domains'[d].name = domains[d].name
    \/ d = nextDomain
    \/ \E t \in Admins : /\ adm[t].step = "insertAccount" /\ adm[t].id = d
                         /\ domains'[d].name = adm[t].domain.name

\* What becomes of a row of the domains.
DomainTo(d) ==
    \/ d \in DOMAIN domains' /\ domains'[d].name = domains[d].name
    \/ \A e \in DOMAIN domains' : domains'[e].name # domains[d].name

Origins ==
    /\ \A t \in Admins : RequestFrom(t)
    /\ \A d \in DOMAIN domains' : DomainFrom(d)
    /\ \A d \in DOMAIN domains : DomainTo(d)

\* Steps that leave the domains, or their names, as they are.
LEMMA SameNames ==
    ASSUME DOMAIN domains' = DOMAIN domains,
           \A d \in DOMAIN domains : domains'[d].name = domains[d].name
    PROVE  (\A d \in DOMAIN domains' : DomainFrom(d)) /\ (\A d \in DOMAIN domains : DomainTo(d))
  BY DEF DomainFrom, DomainTo

\* Steps after which the requests for accounts are among those before.
LEMMA SameRequests ==
    ASSUME DirInv, \/ UNCHANGED adm
                   \/ \E t \in Admins, r \in Requests :
                         r.step # "insertAccount" /\ adm' = [adm EXCEPT ![t] = r]
    PROVE  \A t \in Admins : RequestFrom(t)
<1>1. adm \in [Admins -> Requests]
  BY RowFacts
<1>2. CASE UNCHANGED adm
  BY <1>2 DEF RequestFrom
<1>3. ASSUME NEW t \in Admins, NEW r \in Requests, r.step # "insertAccount",
             adm' = [adm EXCEPT ![t] = r]
      PROVE  \A u \in Admins : RequestFrom(u)
  <2>1. \A u \in Admins : adm'[u] = IF u = t THEN r ELSE adm[u]
    BY <1>1, <1>3
  <2> QED
    BY <1>3, <2>1 DEF RequestFrom
<1> QED
  BY <1>2, <1>3

LEMMA RequestKinds ==
    /\ Idle \in Requests /\ Idle.step # "insertAccount"
    /\ \A n \in Names : LET r == [step |-> "insertDomain", name |-> n]
                         IN  r \in Requests /\ r.step # "insertAccount"
    /\ \A d \in DomainIDs, b \in BOOLEAN :
          LET r == [step |-> "writeDomain", id |-> d, active |-> b]
          IN  r \in Requests /\ r.step # "insertAccount"
    /\ \A a \in AccountIDs, b \in BOOLEAN :
          LET r == [step |-> "writeAccount", id |-> a, active |-> b]
          IN  r \in Requests /\ r.step # "insertAccount"
  BY DEF Requests, Idle

LEMMA DomainOrigins ==
    ASSUME DirInv, DomainCall
    PROVE  Origins
<1>1. ASSUME NEW t \in Admins, NEW n \in Names, CheckDomainName(t, n) PROVE Origins
  BY <1>1, RequestKinds, SameRequests, SameNames DEF CheckDomainName, domainVars, Origins
<1>2. ASSUME NEW t \in Admins, InsertDomain(t) PROVE Origins
  <2>1. \A u \in Admins : RequestFrom(u)
    BY <1>2, RequestKinds, SameRequests DEF InsertDomain
  <2>2. CASE UNCHANGED domains
    BY <2>1, <2>2, SameNames DEF Origins
  <2>3. CASE domains' = With(domains, nextDomain,
                             [name |-> adm[t].name, active |-> TRUE, deleted |-> FALSE])
    <3>1. nextDomain \notin DOMAIN domains
      BY RowFacts DEF DirInv, Fresh
    <3>2. \A d \in DOMAIN domains : d \in DOMAIN domains' /\ domains'[d] = domains[d]
      BY <2>3, <3>1 DEF With
    <3>3. DOMAIN domains' = DOMAIN domains \cup {nextDomain}
      BY <2>3 DEF With
    <3> QED
      BY <2>1, <3>2, <3>3 DEF Origins, DomainFrom, DomainTo
  <2> QED
    BY <1>2, <2>2, <2>3 DEF InsertDomain, domainVars
<1>3. ASSUME NEW t \in Admins, NEW d \in DomainIDs, ReadDomainActive(t, d) PROVE Origins
  <2>1. domains[d].active \in BOOLEAN
    BY <1>3, RowFacts DEF ReadDomainActive, Domain
  <2> QED
    BY <1>3, <2>1, RequestKinds, SameRequests, SameNames DEF ReadDomainActive, domainVars, Origins
<1>4. ASSUME NEW t \in Admins, WriteDomainActive(t) PROVE Origins
  <2>1. \A u \in Admins : RequestFrom(u)
    BY <1>4, RequestKinds, SameRequests DEF WriteDomainActive
  <2>2. DOMAIN domains' = DOMAIN domains
    BY <1>4 DEF WriteDomainActive
  <2>3. \A d \in DOMAIN domains : domains'[d].name = domains[d].name
    BY <1>4, RowFacts DEF WriteDomainActive, Domain
  <2> QED
    BY <2>1, <2>2, <2>3, SameNames DEF Origins
<1>5. ASSUME NEW d \in DomainIDs, DeleteDomain(d) PROVE Origins
  <2>1. \A u \in Admins : RequestFrom(u)
    BY <1>5, SameRequests DEF DeleteDomain
  <2>2. DOMAIN domains' = DOMAIN domains
    BY <1>5 DEF DeleteDomain
  <2>3. \A e \in DOMAIN domains : domains'[e].name = domains[e].name
    BY <1>5, RowFacts DEF DeleteDomain, Domain
  <2> QED
    BY <2>1, <2>2, <2>3, SameNames DEF Origins
<1>6. ASSUME NEW d \in DomainIDs, PhysicalDeleteDomain(d) PROVE Origins
  <2>1. \A u \in Admins : RequestFrom(u)
    BY <1>6, SameRequests DEF PhysicalDeleteDomain
  <2>2. DOMAIN domains' = DOMAIN domains \ {d} /\ \A e \in DOMAIN domains' : domains'[e] = domains[e]
    BY <1>6 DEF PhysicalDeleteDomain, Without
  <2>3. \A e \in DOMAIN domains : domains[e].name = domains[d].name => e = d
    BY <1>6 DEF DirInv, NamesUnique, PhysicalDeleteDomain
  <2> QED
    BY <2>1, <2>2, <2>3 DEF Origins, DomainFrom, DomainTo
<1> QED
  BY <1>1, <1>2, <1>3, <1>4, <1>5, <1>6 DEF DomainCall

LEMMA AccountOrigins ==
    ASSUME DirInv, AccountCall
    PROVE  Origins
<1>1. ASSUME NEW t \in Admins, NEW d \in DomainIDs, NEW u \in Users, FindDomainForAccount(t, d, u)
      PROVE  Origins
  <2> DEFINE r == [step |-> "insertAccount", id |-> d, domain |-> domains[d], user |-> u]
  <2>1. adm' = [adm EXCEPT ![t] = r] /\ UNCHANGED domains /\ d \in DOMAIN domains
    BY <1>1 DEF FindDomainForAccount, domainVars
  <2>2. \A s \in Admins : adm'[s] = IF s = t THEN r ELSE adm[s]
    BY <2>1, RowFacts
  <2>3. \A s \in Admins : RequestFrom(s)
    BY <2>1, <2>2 DEF RequestFrom
  <2> QED
    BY <2>1, <2>3, SameNames DEF Origins
<1>2. ASSUME NEW t \in Admins, InsertAccount(t) PROVE Origins
  <2>1. \A u \in Admins : RequestFrom(u)
    BY <1>2, RequestKinds, SameRequests DEF InsertAccount
  <2>2. CASE UNCHANGED domains
    BY <2>1, <2>2, SameNames DEF Origins
  <2>3. CASE domains' = With(domains, adm[t].id, adm[t].domain) /\ adm[t].id \notin DOMAIN domains
    <3>1. \A d \in DOMAIN domains : d \in DOMAIN domains' /\ domains'[d] = domains[d]
      BY <2>3 DEF With
    <3>2. DOMAIN domains' = DOMAIN domains \cup {adm[t].id} /\ domains'[adm[t].id] = adm[t].domain
      BY <2>3 DEF With
    <3> QED
      BY <1>2, <2>1, <3>1, <3>2 DEF Origins, DomainFrom, DomainTo, InsertAccount
  <2> QED
    BY <1>2, <2>2, <2>3 DEF InsertAccount, SaveDomainOf
<1>3. ASSUME NEW t \in Admins, NEW a \in AccountIDs, ReadAccountActive(t, a) PROVE Origins
  <2>1. accounts[a].active \in BOOLEAN
    BY <1>3, RowFacts DEF ReadAccountActive, Account
  <2> QED
    BY <1>3, <2>1, RequestKinds, SameRequests, SameNames DEF ReadAccountActive, domainVars, Origins
<1>4. ASSUME NEW t \in Admins, WriteAccountActive(t) PROVE Origins
  BY <1>4, RequestKinds, SameRequests, SameNames DEF WriteAccountActive, domainVars, Origins
<1>5. ASSUME NEW a \in AccountIDs, DeleteAccount(a) PROVE Origins
  BY <1>5, SameRequests, SameNames DEF DeleteAccount, domainVars, Origins
<1>6. ASSUME NEW a \in AccountIDs, NEW m \in MailIDs, DeleteMail(a, m) PROVE Origins
  BY <1>6, SameRequests, SameNames DEF DeleteMail, domainVars, Origins
<1> QED
  BY <1>1, <1>2, <1>3, <1>4, <1>5, <1>6 DEF AccountCall

LEMMA DirOrigins ==
    ASSUME DirInv, DirNext
    PROVE  Origins
  BY DomainOrigins, AccountOrigins DEF DirNext

\* A step adds no name to an id that was given out; an id given out by it gets one.
LEMMA NamesStep ==
    ASSUME DirInv, OneName, Origins
    PROVE  /\ \A d \in DomainIDs : d < nextDomain => KnownNames(d)' \subseteq KnownNames(d)
           /\ OneName'
<1>0. /\ \A t \in Admins : RequestFrom(t)
      /\ \A d \in DOMAIN domains' : DomainFrom(d)
      /\ \A d \in DOMAIN domains : d < nextDomain
      /\ \A t \in Admins : adm[t].step = "insertAccount" => adm[t].id < nextDomain
      /\ nextDomain \in Nat /\ DomainIDs \subseteq Nat
  BY RowFacts DEF Origins, DirInv, Fresh
<1>1. ASSUME NEW d \in DomainIDs, NEW n \in KnownNames(d)', n \notin KnownNames(d)
      PROVE  d = nextDomain /\ d \in DOMAIN domains' /\ n = domains'[d].name
  <2>1. n \in Names
    BY <1>1 DEF KnownNames
  <2>2. CASE d \in DOMAIN domains' /\ n = domains'[d].name
    <3>1. DomainFrom(d)
      BY <1>0, <2>2
    <3> QED
      BY <1>1, <2>1, <2>2, <3>1 DEF DomainFrom, KnownNames
  <2>3. ASSUME NEW t \in Admins, adm'[t].step = "insertAccount", adm'[t].id = d,
               n = adm'[t].domain.name
        PROVE  FALSE
    <3>1. RequestFrom(t)
      BY <1>0
    <3> QED
      BY <1>1, <2>1, <2>3, <3>1 DEF RequestFrom, KnownNames
  <2> QED
    BY <1>1, <2>2, <2>3 DEF KnownNames
<1>2. \A d \in DomainIDs : d < nextDomain => KnownNames(d)' \subseteq KnownNames(d)
  BY <1>0, <1>1
<1>3. KnownNames(nextDomain) = {}
  BY <1>0 DEF KnownNames
<1>4. ASSUME NEW d \in DomainIDs, NEW m \in KnownNames(d)', NEW n \in KnownNames(d)'
      PROVE  m = n
  <2>1. CASE d = nextDomain
    BY <1>1, <1>3, <1>4, <2>1
  <2>2. CASE d # nextDomain
    BY <1>1, <1>4, <2>2 DEF OneName
  <2> QED
    BY <2>1, <2>2
<1> QED
  BY <1>2, <1>4 DEF OneName

-----------------------------------------------------------------------------
(* Logins. *)

LEMMA LoginKinds ==
    ASSUME NEW r \in Logins
    PROVE  /\ r.step \in UnderWay => r.asked \in Credentials
           /\ r.step = "account" => r.id \in DomainIDs
           /\ r.step = "verify" => r.hash \in Passwords \cup {NoPassword}
  BY DEF Logins, NoLogin, UnderWay

\* Whom no domain bears the name of, he is refused with good reason.
LEMMA NoNameNoRight ==
    ASSUME NEW asked \in Credentials, Named(asked.name) = {}
    PROVE  "refused" \in Justified(asked)
  BY DEF Right, Justified

\* What Noted keeps and what it adds.
LEMMA NotedFacts ==
    ASSUME NEW c \in Clients, login' \in [Clients -> Logins],
           seen' = [x \in Clients |-> Noted(x)]
    PROVE  /\ {login[c].step, login'[c].step} \subseteq UnderWay => seen[c] \subseteq seen'[c]
           /\ login'[c].step \in Answers => seen[c] \subseteq seen'[c]
           /\ login'[c].step \in UnderWay => Justified(login[c].asked)' \subseteq seen'[c]
<1>1. seen'[c] = Noted(c)
  OBVIOUS
<1>2. login'[c].step \in UnderWay => Justified(login[c].asked)' \subseteq Noted(c)
  BY DEF Noted
<1>3. {login[c].step, login'[c].step} \subseteq UnderWay => seen[c] \subseteq Noted(c)
  BY DEF Noted
<1>4. login'[c].step \in Answers => seen[c] \subseteq Noted(c)
  BY DEF Noted
<1> QED
  BY <1>1, <1>2, <1>3, <1>4

\* Ids of domains are given out upwards.
LEMMA DomainIdsGrow ==
    ASSUME DirInv, [DirNext]_dirVars
    PROVE  nextDomain <= nextDomain'
<1>1. nextDomain \in Nat
  BY RowFacts
<1>2. ASSUME NEW t \in Admins PROVE InsertDomain(t) => nextDomain' \in {nextDomain, nextDomain + 1}
  BY DEF InsertDomain, domainVars
<1>3. ASSUME NEW t \in Admins, NEW n \in Names PROVE CheckDomainName(t, n) => nextDomain' = nextDomain
  BY DEF CheckDomainName, domainVars
<1>4. ASSUME NEW t \in Admins, NEW d \in DomainIDs
      PROVE  /\ ReadDomainActive(t, d) => nextDomain' = nextDomain
             /\ \A u \in Users : FindDomainForAccount(t, d, u) => nextDomain' = nextDomain
  BY DEF ReadDomainActive, FindDomainForAccount, domainVars
<1>5. ASSUME NEW t \in Admins
      PROVE  WriteDomainActive(t) \/ InsertAccount(t) \/ WriteAccountActive(t)
                => nextDomain' = nextDomain
  BY DEF WriteDomainActive, InsertAccount, WriteAccountActive, domainVars
<1>6. ASSUME NEW d \in DomainIDs
      PROVE  DeleteDomain(d) \/ PhysicalDeleteDomain(d) => nextDomain' = nextDomain
  BY DEF DeleteDomain, PhysicalDeleteDomain
<1>7. ASSUME NEW a \in AccountIDs
      PROVE  /\ \A t \in Admins : ReadAccountActive(t, a) => nextDomain' = nextDomain
             /\ DeleteAccount(a) => nextDomain' = nextDomain
             /\ \A m \in MailIDs : DeleteMail(a, m) => nextDomain' = nextDomain
  BY DEF ReadAccountActive, DeleteAccount, DeleteMail, domainVars
<1>8. CASE DomainCall
  BY <1>1, <1>2, <1>3, <1>4, <1>5, <1>6, <1>8 DEF DomainCall
<1>9. CASE AccountCall
  BY <1>1, <1>4, <1>5, <1>7, <1>9 DEF AccountCall
<1>10. CASE UNCHANGED dirVars
  BY <1>1, <1>10 DEF dirVars
<1> QED
  BY <1>8, <1>9, <1>10 DEF DirNext

\* A step that changes nothing of the directory.
LEMMA NoOrigins ==
    ASSUME DirInv, UNCHANGED dirVars
    PROVE  Origins
  BY SameNames, SameRequests DEF dirVars, Origins

\* A name that a domain id was found under is known to the directory as long as
\* no other one is known.
LEMMA FoundNames ==
    ASSUME DirInv, NEW n \in Names, NEW d \in DomainIDs, KnownNames(d) \subseteq {n}
    PROVE  d \in DOMAIN domains => d \in Named(n) /\ Named(n) = {d}
<1> SUFFICES ASSUME d \in DOMAIN domains PROVE d \in Named(n) /\ Named(n) = {d}
  OBVIOUS
<1>1. domains[d].name \in Names
  BY RowFacts DEF Domain
<1>2. domains[d].name = n
  BY <1>1 DEF KnownNames
<1> QED
  BY <1>2 DEF Named, DirInv, NamesUnique

\* A login that does not go on while the tables change.
LEMMA LoginWaits ==
    ASSUME IInv, NEW c \in Clients, login' \in [Clients -> Logins], login'[c] = login[c],
           seen' = [x \in Clients |-> Noted(x)], Origins, nextDomain <= nextDomain',
           nextDomain' \in Nat
    PROVE  LoginPlaced(c)'
<1> DEFINE l == login[c]
<1>0. LoginPlaced(c) /\ DirInv /\ OneName /\ l \in Logins /\ login'[c].step = l.step
  BY DEF IInv, TypeOK
<1>1. l.step \in UnderWay \cup Answers => seen[c] \subseteq seen'[c]
  BY NotedFacts, <1>0
<1>2. (login[c].step \in UnderWay => Justified(login[c].asked) \subseteq seen[c])'
  BY NotedFacts, <1>0
<1>3. ASSUME l.step = "account"
      PROVE  /\ l.id < nextDomain' /\ KnownNames(l.id)' \subseteq {l.asked.name}
             /\ l.id \in Named(l.asked.name)' \/ "refused" \in seen'[c]
  <2>1. l.id \in DomainIDs /\ l.asked \in Credentials /\ l.asked.name \in Names
    BY <1>0, <1>3, LoginKinds DEF UnderWay, Credentials
  <2>2. l.id < nextDomain /\ KnownNames(l.id) \subseteq {l.asked.name}
    BY <1>0, <1>3 DEF LoginPlaced
  <2>3. KnownNames(l.id)' \subseteq KnownNames(l.id)
    BY <1>0, <2>1, <2>2, NamesStep
  <2>4. l.id < nextDomain'
    BY <2>1, <2>2, RowFacts, <1>0
  <2>5. CASE "refused" \in seen[c]
    BY <1>1, <1>3, <2>2, <2>3, <2>4, <2>5 DEF UnderWay
  <2>6. CASE l.id \in Named(l.asked.name)
    <3>1. l.id \in DOMAIN domains /\ domains[l.id].name = l.asked.name
      BY <2>6 DEF Named
    <3>2. DomainTo(l.id)
      BY <3>1 DEF Origins
    <3>3. CASE l.id \in DOMAIN domains' /\ domains'[l.id].name = domains[l.id].name
      BY <2>2, <2>3, <2>4, <3>1, <3>3 DEF Named
    <3>4. CASE \A e \in DOMAIN domains' : domains'[e].name # domains[l.id].name
      <4>1. "refused" \in Justified(login[c].asked)'
        BY <1>0, <3>1, <3>4 DEF Right, Named, Justified
      <4>2. Justified(login[c].asked)' \subseteq seen'[c]
        BY <1>0, <1>2, <1>3 DEF UnderWay
      <4> QED
        BY <2>2, <2>3, <2>4, <4>1, <4>2
    <3> QED
      BY <3>2, <3>3, <3>4 DEF DomainTo
  <2> QED
    BY <1>0, <1>3, <2>5, <2>6 DEF LoginPlaced
<1>4. l.step = "verify" =>
         /\ l.hash = l.asked.pass => "granted" \in seen'[c]
         /\ l.hash \notin {l.asked.pass, NoPassword} => "refused" \in seen'[c]
  BY <1>0, <1>1 DEF LoginPlaced, UnderWay
<1>5. (l.step = "granted" => "granted" \in seen'[c]) /\ (l.step = "refused" => "refused" \in seen'[c])
  BY <1>0, <1>1 DEF LoginPlaced, Answers
<1> QED
  BY <1>2, <1>3, <1>4, <1>5 DEF LoginPlaced

\* Answers that logins go on to.
LEMMA LoginSteps ==
    /\ \A x \in {"granted", "refused", "failed"} : [step |-> x] \in Logins
    /\ \A x \in Credentials :
          /\ [step |-> "domain", asked |-> x] \in Logins
          /\ \A d \in DomainIDs : [step |-> "account", asked |-> x, id |-> d] \in Logins
          /\ \A h \in Passwords \cup {NoPassword} :
                [step |-> "verify", asked |-> x, hash |-> h] \in Logins
  BY DEF Logins

\* A login that goes on, with what was noted of it.
LEMMA LoginGoes ==
    ASSUME IInv, NEW c \in Clients, NEW r \in Logins, Go(c, r),
           seen' = [x \in Clients |-> Noted(x)],
           login[c].step \in UnderWay \/ r.step = "domain",
           /\ r.step = "account" =>
                 /\ r.id < nextDomain /\ KnownNames(r.id) \subseteq {r.asked.name}
                 /\ r.id \in Named(r.asked.name) \/ "refused" \in seen[c]
           /\ r.step = "verify" =>
                 /\ r.hash = r.asked.pass => "granted" \in seen[c]
                 /\ r.hash \notin {r.asked.pass, NoPassword} => "refused" \in seen[c]
           /\ r.step = "granted" => "granted" \in seen[c]
           /\ r.step = "refused" => "refused" \in seen[c]
    PROVE  login' \in [Clients -> Logins] /\ password' = password
           /\ \A x \in Clients : LoginPlaced(x)'
<1>1. /\ login \in [Clients -> Logins] /\ login' = [login EXCEPT ![c] = r]
      /\ UNCHANGED dirVars /\ UNCHANGED password
  BY DEF IInv, TypeOK, Go
<1>2. login' \in [Clients -> Logins] /\ login'[c] = r
      /\ \A x \in Clients \ {c} : login'[x] = login[x]
  BY <1>1
<1>3. DirInv /\ Origins /\ nextDomain \in Nat /\ nextDomain' = nextDomain
  BY <1>1, NoOrigins, RowFacts DEF IInv, dirVars
<1>4. ASSUME NEW x \in Clients \ {c} PROVE LoginPlaced(x)'
  <2>1. nextDomain <= nextDomain' /\ nextDomain' \in Nat
    BY <1>3
  <2>2. x \in Clients /\ login'[x] = login[x]
    BY <1>2, <1>4
  <2> QED
    BY <1>2, <1>3, <2>1, <2>2, LoginWaits
<1>5. LoginPlaced(c)'
  <2>1. (login[c].step \in UnderWay => Justified(login[c].asked) \subseteq seen[c])'
    BY <1>2, NotedFacts
  <2>2. r.step \in {"account", "verify", "granted", "refused"} => seen[c] \subseteq seen'[c]
    BY <1>2, NotedFacts DEF UnderWay, Answers
  <2>3. \A d \in DomainIDs : KnownNames(d)' = KnownNames(d)
    BY <1>1 DEF KnownNames, dirVars
  <2>4. r.step = "account" => /\ r.id \in DomainIDs
                              /\ KnownNames(r.id)' = KnownNames(r.id)
                              /\ Named(r.asked.name)' = Named(r.asked.name)
    <3>1. Named(r.asked.name)' = Named(r.asked.name)
      BY <1>1, <1>2 DEF Named, dirVars
    <3> QED
      BY <2>3, <3>1, LoginKinds
  <2> QED
    BY <1>2, <1>3, <2>1, <2>2, <2>4 DEF LoginPlaced
<1> QED
  BY <1>1, <1>2, <1>4, <1>5

-----------------------------------------------------------------------------
(* One lemma per kind of step. *)

LEMMA BeginStep ==
    ASSUME IInv, NEW c \in Clients, NEW asked \in Credentials, Begin(c, asked),
           seen' = [x \in Clients |-> Noted(x)]
    PROVE  login' \in [Clients -> Logins] /\ password' = password
           /\ \A x \in Clients : LoginPlaced(x)'
<1> DEFINE r == [step |-> "domain", asked |-> asked]
<1>1. Go(c, r)
  BY DEF Begin
<1>2. r \in Logins /\ r.step = "domain"
  BY LoginSteps
<1> HIDE DEF r
<1> QED
  BY <1>1, <1>2, LoginGoes

LEMMA FindDomainStep ==
    ASSUME IInv, NEW c \in Clients, FindDomain(c), seen' = [x \in Clients |-> Noted(x)]
    PROVE  login' \in [Clients -> Logins] /\ password' = password
           /\ \A x \in Clients : LoginPlaced(x)'
<1> DEFINE asked == login[c].asked
<1>1. login[c].step = "domain" /\ login[c] \in Logins /\ DirInv /\ LoginPlaced(c)
  BY DEF FindDomain, IInv, TypeOK
<1>2. asked \in Credentials /\ asked.name \in Names /\ login[c].step \in UnderWay
  BY <1>1, LoginKinds DEF UnderWay, Credentials
<1>3. Justified(asked) \subseteq seen[c]
  BY <1>1, <1>2 DEF LoginPlaced
<1>4. ASSUME NEW d \in Named(asked.name), Go(c, [step |-> "account", asked |-> asked, id |-> d])
      PROVE  login' \in [Clients -> Logins] /\ password' = password
             /\ \A x \in Clients : LoginPlaced(x)'
  <2> DEFINE r == [step |-> "account", asked |-> asked, id |-> d]
  <2>1. d \in DOMAIN domains /\ domains[d].name = asked.name /\ d \in DomainIDs
    BY <1>1, RowFacts DEF Named
  <2>2. d < nextDomain
    BY <1>1, <2>1 DEF DirInv, Fresh
  <2>3. KnownNames(d) \subseteq {asked.name}
    <3>1. asked.name \in KnownNames(d)
      BY <1>2, <2>1 DEF KnownNames
    <3> QED
      BY <2>1, <3>1 DEF IInv, OneName
  <2>4. r \in Logins /\ r.step = "account" /\ r.id = d /\ r.asked = asked
    BY <1>2, <2>1, LoginSteps
  <2>5. Go(c, r)
    BY <1>4
  <2> HIDE DEF r
  <2> QED
    BY <1>2, <1>4, <2>2, <2>3, <2>4, <2>5, LoginGoes
<1>5. CASE Named(asked.name) = {} /\ Answer(c, "refused")
  <2> DEFINE r == [step |-> "refused"]
  <2>1. "refused" \in seen[c]
    BY <1>2, <1>3, <1>5, NoNameNoRight
  <2>2. r \in Logins /\ r.step = "refused" /\ Go(c, r)
    BY <1>5, LoginSteps DEF Answer
  <2> HIDE DEF r
  <2> QED
    BY <1>2, <2>1, <2>2, LoginGoes
<1>6. CASE Answer(c, "failed")
  <2> DEFINE r == [step |-> "failed"]
  <2>1. r \in Logins /\ r.step = "failed" /\ Go(c, r)
    BY <1>6, LoginSteps DEF Answer
  <2> HIDE DEF r
  <2> QED
    BY <1>2, <2>1, LoginGoes
<1> QED
  BY <1>4, <1>5, <1>6 DEF FindDomain

LEMMA TakeAccountStep ==
    ASSUME IInv, NEW c \in Clients, TakeAccount(c), seen' = [x \in Clients |-> Noted(x)]
    PROVE  login' \in [Clients -> Logins] /\ password' = password
           /\ \A x \in Clients : LoginPlaced(x)'
<1> DEFINE asked == login[c].asked
           id    == login[c].id
           found == {a \in DOMAIN accounts : /\ accounts[a].user = asked.user
                                             /\ accounts[a].dom = id
                                             /\ ValidateAccount(accounts[a])}
<1>1. login[c].step = "account" /\ login[c] \in Logins /\ DirInv /\ LoginPlaced(c)
  BY DEF TakeAccount, IInv, TypeOK
<1>2. /\ asked \in Credentials /\ asked.name \in Names /\ asked.pass \in Passwords
      /\ id \in DomainIDs /\ login[c].step \in UnderWay
  BY <1>1, LoginKinds DEF UnderWay, Credentials
<1>3. /\ Justified(asked) \subseteq seen[c]
      /\ KnownNames(id) \subseteq {asked.name}
      /\ id \in Named(asked.name) \/ "refused" \in seen[c]
  BY <1>1, <1>2 DEF LoginPlaced
<1>4. id \in DOMAIN domains => id \in Named(asked.name) /\ Named(asked.name) = {id}
  BY <1>1, <1>2, <1>3, FoundNames
<1>5. ASSUME NEW a \in found,
             Go(c, [step |-> "verify", asked |-> asked, hash |-> password[a]])
      PROVE  login' \in [Clients -> Logins] /\ password' = password
             /\ \A x \in Clients : LoginPlaced(x)'
  <2> DEFINE r == [step |-> "verify", asked |-> asked, hash |-> password[a]]
  <2>1. id \in Named(asked.name) /\ Named(asked.name) = {id}
    BY <1>1, <1>4 DEF DirInv, AccountHasDomain
  <2>2. password[a] = asked.pass => Right(asked)
    BY <2>1 DEF Right
  <2>3. ASSUME password[a] # asked.pass PROVE ~ Right(asked)
    <3>1. ASSUME NEW b \in DOMAIN accounts, accounts[b].user = asked.user,
                 accounts[b].dom \in Named(asked.name)
          PROVE  b = a
      BY <1>1, <2>1, <3>1 DEF DirInv, AccountsUnique
    <3> QED
      BY <2>3, <3>1 DEF Right
  <2>5. /\ password[a] = asked.pass => "granted" \in seen[c]
        /\ password[a] # asked.pass => "refused" \in seen[c]
    BY <1>3, <2>2, <2>3 DEF Justified
  <2>6. password[a] \in Passwords \cup {NoPassword}
    BY <1>1, RowFacts DEF IInv, TypeOK
  <2>7. r \in Logins /\ r.step = "verify" /\ r.hash = password[a] /\ r.asked = asked
    BY <1>2, <2>6, LoginSteps
  <2>8. Go(c, r)
    BY <1>5
  <2> HIDE DEF r
  <2> QED
    BY <1>2, <2>5, <2>7, <2>8, LoginGoes
<1>6. CASE found = {} /\ Answer(c, "refused")
  <2> DEFINE r == [step |-> "refused"]
  <2>1. "refused" \in seen[c]
    <3>1. ASSUME id \in Named(asked.name) PROVE "refused" \in Justified(asked)
      <4>1. Named(asked.name) = {id}
        BY <1>4, <3>1 DEF Named
      <4> QED
        BY <1>6, <4>1 DEF Right, Justified
    <3> QED
      BY <1>3, <3>1
  <2>2. r \in Logins /\ r.step = "refused" /\ Go(c, r)
    BY <1>6, LoginSteps DEF Answer
  <2> HIDE DEF r
  <2> QED
    BY <1>2, <2>1, <2>2, LoginGoes
<1>7. CASE Go(c, [step |-> "verify", asked |-> asked, hash |-> NoPassword])
  <2> DEFINE r == [step |-> "verify", asked |-> asked, hash |-> NoPassword]
  <2>1. r \in Logins /\ r.step = "verify" /\ r.hash = NoPassword /\ r.asked = asked
    BY <1>2, LoginSteps
  <2>2. Go(c, r) /\ NoPassword # asked.pass
    BY <1>2, <1>7, LoginAssumption
  <2> HIDE DEF r
  <2> QED
    BY <1>2, <2>1, <2>2, LoginGoes
<1> QED
  BY <1>5, <1>6, <1>7 DEF TakeAccount

LEMMA VerifyStep ==
    ASSUME IInv, NEW c \in Clients, Verify(c), seen' = [x \in Clients |-> Noted(x)]
    PROVE  login' \in [Clients -> Logins] /\ password' = password
           /\ \A x \in Clients : LoginPlaced(x)'
<1> DEFINE l == login[c]
<1>1. l.step = "verify" /\ l.step \in UnderWay /\ LoginPlaced(c)
  BY DEF Verify, IInv, UnderWay
<1>2. /\ l.hash = l.asked.pass => "granted" \in seen[c]
      /\ l.hash \notin {l.asked.pass, NoPassword} => "refused" \in seen[c]
  BY <1>1 DEF LoginPlaced
<1>3. ASSUME NEW x \in {"granted", "refused", "failed"}, Answer(c, x),
             x = "granted" => l.hash = l.asked.pass,
             x = "refused" => l.hash \notin {l.asked.pass, NoPassword}
      PROVE  login' \in [Clients -> Logins] /\ password' = password
             /\ \A y \in Clients : LoginPlaced(y)'
  <2> DEFINE r == [step |-> x]
  <2>1. r \in Logins /\ r.step = x /\ Go(c, r)
    BY <1>3, LoginSteps DEF Answer
  <2> HIDE DEF r
  <2> QED
    BY <1>1, <1>2, <1>3, <2>1, LoginGoes
<1>4. CASE l.hash = l.asked.pass
  BY <1>3, <1>4 DEF Verify
<1>5. CASE l.hash # l.asked.pass /\ l.hash = NoPassword
  BY <1>3, <1>5 DEF Verify
<1>6. CASE l.hash \notin {l.asked.pass, NoPassword}
  BY <1>3, <1>6 DEF Verify
<1> QED
  BY <1>4, <1>5, <1>6

\* Steps of the directory and new passwords.
LEMMA TablesStep ==
    ASSUME IInv, seen' = [x \in Clients |-> Noted(x)], UNCHANGED login,
           \/ DirectoryCall
           \/ \E a \in AccountIDs, pass \in Passwords : EditAccount(a, pass)
    PROVE  login' \in [Clients -> Logins] /\ password' \in [AccountIDs -> Passwords \cup {NoPassword}]
           /\ \A x \in Clients : LoginPlaced(x)'
<1>1. login' \in [Clients -> Logins] /\ DirInv /\ [DirNext]_dirVars
  BY DEF IInv, TypeOK, EditAccount, DirectoryCall
<1>2. password' \in [AccountIDs -> Passwords \cup {NoPassword}]
  BY DEF IInv, TypeOK, EditAccount, DirectoryCall
<1>3. Origins
  BY <1>1, DirOrigins, NoOrigins DEF EditAccount, DirectoryCall
<1>4. nextDomain <= nextDomain' /\ nextDomain' \in Nat
  <2>1. DirInv'
    BY <1>1, DirectoryStep
  <2>2. nextDomain' \in Nat
    BY <2>1, DirectoryAssumption DEF DirInv, DirTypeOK
  <2> QED
    BY <1>1, <2>2, DomainIdsGrow
<1>5. ASSUME NEW x \in Clients PROVE LoginPlaced(x)'
  BY <1>1, <1>3, <1>4, LoginWaits
<1> QED
  BY <1>1, <1>2, <1>5

LEMMA LoginInit == Init => IInv
<1> SUFFICES ASSUME Init PROVE IInv
  OBVIOUS
<1>1. DirInv
  BY DirectoryInit DEF Init
<1>2. OneName
  <2>1. DOMAIN domains = {} /\ \A t \in Admins : adm[t].step # "insertAccount"
    BY EmptyTable DEF Init, DirInit, Idle
  <2> QED
    BY <2>1 DEF OneName, KnownNames
<1>3. TypeOK
  <2>1. NoLogin \in Logins
    BY DEF Logins
  <2> QED
    BY <1>1, <2>1 DEF Init, TypeOK, DirInv
<1>4. \A c \in Clients : LoginPlaced(c)
  BY DEF Init, NoLogin, LoginPlaced, UnderWay
<1> QED
  BY <1>1, <1>2, <1>3, <1>4 DEF IInv

LEMMA NextStep ==
    ASSUME IInv, Next
    PROVE  IInv'
<1>1. seen' = [x \in Clients |-> Noted(x)]
  BY DEF Next
<1>2. login' \in [Clients -> Logins] /\ password' \in [AccountIDs -> Passwords \cup {NoPassword}]
      /\ \A x \in Clients : LoginPlaced(x)'
  <2>1. CASE \/ DirectoryCall
             \/ \E a \in AccountIDs, pass \in Passwords : EditAccount(a, pass)
    <3>1. UNCHANGED login
      BY <2>1 DEF EditAccount, DirectoryCall
    <3> QED
      BY <1>1, <2>1, <3>1, TablesStep
  <2>2. ASSUME NEW c \in Clients, LoginStep(c)
        PROVE  login' \in [Clients -> Logins] /\ password' = password
               /\ \A x \in Clients : LoginPlaced(x)'
    <3>1. ASSUME NEW asked \in Credentials, Begin(c, asked)
          PROVE  login' \in [Clients -> Logins] /\ password' = password
                 /\ \A x \in Clients : LoginPlaced(x)'
      BY <1>1, <3>1, BeginStep
    <3> QED
      BY <1>1, <2>2, <3>1, FindDomainStep, TakeAccountStep, VerifyStep DEF LoginStep
  <2>3. password \in [AccountIDs -> Passwords \cup {NoPassword}]
    BY DEF IInv, TypeOK
  <2> QED
    BY <2>1, <2>2, <2>3 DEF Next
<1>3. [DirNext]_dirVars
  BY DEF Next, DirectoryCall, EditAccount, LoginStep, Begin, FindDomain, TakeAccount, Verify, Answer, Go
<1>4. DirInv'
  BY <1>3, DirectoryStep DEF IInv
<1>5. OneName'
  <2>1. Origins
    BY <1>3, DirOrigins, NoOrigins DEF IInv
  <2> QED
    BY <2>1, NamesStep DEF IInv
<1>6. seen' \in [Clients -> SUBSET Answers]
  <2>1. seen \in [Clients -> SUBSET Answers]
    BY DEF IInv, TypeOK
  <2>2. ASSUME NEW c \in Clients PROVE Justified(login[c].asked)' \subseteq Answers
    BY DEF Justified, Answers
  <2>3. ASSUME NEW c \in Clients PROVE Noted(c) \subseteq Answers
    BY <2>1, <2>2 DEF Noted
  <2> QED
    BY <1>1, <2>3
<1> QED
  BY <1>2, <1>4, <1>5, <1>6 DEF IInv, TypeOK, DirInv

LEMMA LoginInvariant == Spec => []IInv
<1>1. IInv /\ [Next]_vars => IInv'
  <2> SUFFICES ASSUME IInv, [Next]_vars PROVE IInv'
    OBVIOUS
  <2>1. CASE UNCHANGED vars
    <3>1. UNCHANGED dirVars /\ UNCHANGED <<domains, accounts, nextDomain, adm, password, login, seen>>
      BY <2>1 DEF vars, dirVars, loginVars
    <3>2. DirInv' /\ OneName'
      BY <3>1, DirectoryStep, NoOrigins, NamesStep DEF IInv
    <3>3. TypeOK'
      BY <3>1, <3>2 DEF IInv, TypeOK, DirInv
    <3>4. ASSUME NEW c \in Clients PROVE LoginPlaced(c)'
      <4>1. KnownNames(login[c].id)' = KnownNames(login[c].id)
        BY <3>1 DEF KnownNames
      <4>2. Named(login[c].asked.name)' = Named(login[c].asked.name)
        BY <3>1 DEF Named
      <4>3. Justified(login[c].asked)' = Justified(login[c].asked)
        BY <3>1 DEF Justified, Right, Named
      <4> QED
        BY <3>1, <4>1, <4>2, <4>3 DEF IInv, LoginPlaced
    <3> QED
      BY <3>2, <3>3, <3>4 DEF IInv
  <2> QED
    BY <2>1, NextStep
<1> QED
  BY <1>1, LoginInit, PTL DEF Spec

-----------------------------------------------------------------------------
(* The theorems. *)

\* The types of what a login holds, and the bounds of the tables, at any time.
THEOREM LoginTypes == Spec => []TypeOK
<1>1. IInv => TypeOK
  BY DEF IInv
<1> QED
  BY <1>1, LoginInvariant, PTL

\* A granted login had a right credential at a time when it was under way,
\* whatever calls came between its steps.
THEOREM GrantsWereTrue == Spec => []GrantWasTrue
<1>1. IInv => GrantWasTrue
  BY DEF IInv, LoginPlaced, GrantWasTrue
<1> QED
  BY <1>1, LoginInvariant, PTL

\* A login that is refused without a failure had a wrong credential, or a domain
\* that was off, at a time when it was under way.
THEOREM RefusalsWereTrue == Spec => []RefusalWasTrue
<1>1. IInv => RefusalWasTrue
  BY DEF IInv, LoginPlaced, RefusalWasTrue
<1> QED
  BY <1>1, LoginInvariant, PTL

\* Logins and new passwords leave the directory alone, so that what is proved of
\* its calls holds while users log in.
THEOREM LoginsKeepDirectory == Spec => DirSpec
<1>1. Init => DirInit
  BY DEF Init
<1>2. [Next]_vars => [DirNext]_dirVars
  BY DEF Next, vars, DirectoryCall, EditAccount, LoginStep, Begin, FindDomain, TakeAccount, Verify, Answer, Go
<1> QED
  BY <1>1, <1>2, PTL DEF Spec, DirSpec
=============================================================================
