--------------------------- MODULE MailStoreProofs ---------------------------
(***************************************************************************)
(* Proofs about Save against the tables, for any number of deliveries,     *)
(* retries, panics, crashes and overlapping administration requests.       *)
(***************************************************************************)
EXTENDS MailStore, MailDirectoryProofs, FiniteSetTheorems

(* The invariants. *)

\* The types of what Save works with; opened is unbounded here.
SaveTypes ==
    /\ disk \in [Paths -> {"none", "part", "whole"}]
    /\ save \in [Deliveries -> Calls \cup {Idle}]
    /\ opened \in [Paths -> Nat]

\* Where a delivery holds the lock.
Critical(d) == save[d].step \in {"create", "copy", "insert"}
Locked == \A d \in Deliveries : lock = d <=> Critical(d)

\* Where a delivery knows its account, and where it knows the domain's name.
HasAccount(d) == save[d].step \in {"domain", "lock", "create", "copy", "insert"}
HasName(d)    == save[d].step \in {"lock", "create", "copy", "insert"}

\* What a delivery knows stays true as long as the account exists.
KnowsOwner ==
    \A d \in Deliveries : HasAccount(d) =>
        /\ save[d].acc \in AccountIDs /\ save[d].acc < nextAccount
        /\ save[d].acc \in DOMAIN accounts =>
              /\ accounts[save[d].acc].user = save[d].user
              /\ accounts[save[d].acc].dom = save[d].dom
              /\ HasName(d) => domains[save[d].dom].name = save[d].name

MailsHaveOwners == \A m \in DOMAIN emails : emails[m].acc < nextAccount

\* Accounts counted as deleted when a call began are deleted for good, and
\* no call under way stores for one of them.
GoneIsGone ==
    /\ \A d \in Deliveries : save[d].step # "idle" => save[d].gone \subseteq Dead
    /\ \A d \in Deliveries : HasAccount(d) => save[d].acc \notin save[d].gone

\* Every row stands for an os.Create of its file, and the one that is filled
\* or waits for its row stands for one more.
Counted ==
    /\ \A p \in Paths : Cardinality(Rows(p)) <= opened[p]
    /\ \A d \in Deliveries : save[d].step \in {"copy", "insert"} =>
          Cardinality(Rows(Path(d))) < opened[Path(d)]
    /\ \A d \in Deliveries : save[d].step = "insert" => disk[Path(d)] = "whole"

Base  == DirInv /\ SaveTypes
Owned == KnowsOwner /\ MailsHaveOwners /\ MailInOwnersDirectory
Whole == Locked /\ Counted /\ StoredIsWhole

StoreInv == Base /\ Owned /\ GoneIsGone /\ Whole

-----------------------------------------------------------------------------
(* Facts about calls and rows. *)

\* A call under way is a full record, with a file name.
LEMMA CallFacts ==
    ASSUME SaveTypes, NEW d \in Deliveries, save[d].step # "idle"
    PROVE  /\ save[d] \in Calls /\ Path(d) \in Paths
           /\ save[d].user \in Users /\ save[d].job \in Jobs /\ save[d].dom \in DomainIDs
           /\ save[d].acc \in AccountIDs \cup {0} /\ save[d].name \in Names
           /\ save[d].gone \subseteq AccountIDs
<1>1. save[d] \in Calls
  BY DEF SaveTypes, Idle
<1> QED
  BY <1>1 DEF Calls, Path, Paths

\* The rows of a path are finitely many.
LEMMA RowsFinite ==
    ASSUME DirInv, NEW p
    PROVE  IsFiniteSet(Rows(p)) /\ Cardinality(Rows(p)) \in Nat
           /\ (Cardinality(Rows(p)) = 0 <=> Rows(p) = {})
<1>1. DOMAIN emails \subseteq 1..MaxMails
  BY RowFacts DEF MailIDs
<1>2. IsFiniteSet(1..MaxMails)
  BY FS_Interval, DirectoryAssumption
<1>3. Rows(p) \subseteq 1..MaxMails
  BY <1>1 DEF Rows
<1>4. IsFiniteSet(Rows(p))
  BY <1>2, <1>3, FS_Subset
<1> QED
  BY <1>4, FS_CardinalityType, FS_EmptySet

\* The invariants hold at the start.
LEMMA StoreInit == Init => StoreInv
<1> SUFFICES ASSUME Init PROVE StoreInv
  OBVIOUS
<1>1. DirInv /\ DOMAIN emails = {}
  BY DirectoryInit DEF Init, DirInit
<1>2. SaveTypes
  BY DEF Init, SaveTypes
<1>3. \A d \in Deliveries : save[d].step = "idle"
  BY DEF Init, Idle
<1>4. Owned /\ GoneIsGone
  BY <1>1, <1>3 DEF Owned, KnowsOwner, MailsHaveOwners, MailInOwnersDirectory, GoneIsGone,
                    HasAccount
<1>5. \A p \in Paths : Rows(p) = {} /\ opened[p] = 0
  BY <1>1 DEF Init, Rows
<1>6. Whole
  BY <1>3, <1>5, FS_EmptySet, StoreAssumption DEF Init, Whole, Locked, Critical, Counted, StoredIsWhole
<1> QED
  BY <1>1, <1>2, <1>4, <1>6 DEF StoreInv, Base

-----------------------------------------------------------------------------
(* The administration's steps. *)

\* They touch no file and no row's path.
LEMMA RowsStay ==
    ASSUME Stable, NEW p
    PROVE  Rows(p)' = Rows(p)
  BY DEF Stable, Rows

\* An account that is dead stays dead.
LEMMA DeadStay ==
    ASSUME DirInv, DirInv', Stable
    PROVE  Dead \subseteq Dead'
<1> SUFFICES ASSUME NEW a \in Dead PROVE a \in Dead'
  OBVIOUS
<1>1. /\ a \in 1..nextAccount - 1
      /\ nextAccount \in Nat /\ nextAccount' \in Nat
      /\ nextAccount <= nextAccount'
  BY RowFacts, DirectoryAssumption DEF Dead, Stable, DirInv, DirTypeOK
<1>2. a \in DOMAIN accounts' => accounts'[a].deleted
  <2> SUFFICES ASSUME a \in DOMAIN accounts' PROVE accounts'[a].deleted
    OBVIOUS
  <2>1. a \in DOMAIN accounts /\ (accounts[a].deleted => accounts'[a].deleted)
    BY <1>1 DEF Stable
  <2> QED
    BY <2>1 DEF Dead
<1>3. a \in 1..nextAccount' - 1
  <2>1. ASSUME NEW m \in Nat, NEW n \in Nat, m <= n PROVE 1..m - 1 \subseteq 1..n - 1
    BY <2>1
  <2> QED
    BY <1>1, <2>1
<1> QED
  BY <1>2, <1>3 DEF Dead

\* Whatever the administration does, what the deliveries know stays true.
LEMMA DirectoryKeeps ==
    ASSUME StoreInv, DirNext, UNCHANGED storeVars
    PROVE  StoreInv'
<1> USE DEF storeVars
<1>1. DirInv /\ DirInv' /\ Stable
  BY DirectoryStep DEF StoreInv, Base
<1>2. Base'
  BY <1>1 DEF StoreInv, Base, SaveTypes
<1>3. nextAccount \in Nat /\ nextAccount' \in Nat /\ nextAccount <= nextAccount'
  BY <1>1, DirectoryAssumption DEF DirInv, DirTypeOK, Stable
<1>4. KnowsOwner'
  <2> SUFFICES ASSUME NEW d \in Deliveries, HasAccount(d)
               PROVE  /\ save[d].acc \in AccountIDs /\ save[d].acc < nextAccount'
                      /\ save[d].acc \in DOMAIN accounts' =>
                            /\ accounts'[save[d].acc].user = save[d].user
                            /\ accounts'[save[d].acc].dom = save[d].dom
                            /\ HasName(d) => domains'[save[d].dom].name = save[d].name
    BY DEF KnowsOwner, HasAccount, HasName
  <2>1. save[d].acc \in Nat
    BY CallFacts DEF StoreInv, Base, HasAccount, AccountIDs
  <2> QED
    BY <1>1, <1>3, <2>1 DEF StoreInv, Owned, KnowsOwner, Stable
<1>5. MailsHaveOwners' /\ MailInOwnersDirectory'
  <2>1. \A m \in DOMAIN emails : emails[m].acc \in Nat
    BY <1>1, RowFacts DEF Email
  <2>2. MailsHaveOwners'
    BY <1>1, <1>3, <2>1 DEF StoreInv, Owned, MailsHaveOwners, Stable
  <2>3. MailInOwnersDirectory'
    BY <1>1, <1>3, <2>1 DEF StoreInv, Owned, MailsHaveOwners, MailInOwnersDirectory, Stable
  <2> QED
    BY <2>2, <2>3
<1>6. GoneIsGone'
  BY <1>1, DeadStay DEF StoreInv, GoneIsGone, HasAccount
<1>7. Whole'
  <2>1. \A p : Rows(p)' = Rows(p)
    BY <1>1, RowsStay
  <2> QED
    BY <2>1 DEF StoreInv, Whole, Locked, Critical, Counted, StoredIsWhole, Path
<1> QED
  BY <1>2, <1>4, <1>5, <1>6, <1>7 DEF StoreInv, Owned

-----------------------------------------------------------------------------
(* The steps of Save. *)

\* A call that returns, with the lock or without having had it.
LEMMA ReturnKeeps ==
    ASSUME StoreInv, NEW d \in Deliveries, Return(d),
           UNCHANGED <<dirVars, disk, opened>>,
           \/ UNCHANGED lock /\ ~Critical(d)
           \/ Unlock /\ Critical(d)
    PROVE  StoreInv'
<1> USE DEF dirVars
<1>1. /\ save' \in [Deliveries -> Calls \cup {Idle}]
      /\ save'[d].step = "idle"
      /\ \A e \in Deliveries : e # d => save'[e] = save[e]
  BY DEF Return, StoreInv, Base, SaveTypes, Idle
<1>2. Base'
  BY <1>1 DEF StoreInv, Base, SaveTypes, DirInv, DirTypeOK, NamesUnique, AccountsUnique,
              AccountHasDomain, Fresh
<1>3. Owned'
  BY <1>1 DEF StoreInv, Owned, KnowsOwner, MailsHaveOwners, MailInOwnersDirectory,
              HasAccount, HasName
<1>4. GoneIsGone'
  BY <1>1 DEF StoreInv, GoneIsGone, HasAccount, Dead
<1>5. Locked'
  <2>1. \A e \in Deliveries : e # d => Critical(e)' = Critical(e)
    BY <1>1 DEF Critical
  <2>2. ~Critical(d)' /\ Locked
    BY <1>1 DEF Critical, StoreInv, Whole
  <2> QED
    BY <2>1, <2>2, StoreAssumption DEF Locked, Unlock
<1>6. Counted' /\ StoredIsWhole'
  BY <1>1 DEF StoreInv, Whole, Counted, StoredIsWhole, Rows, Path
<1> QED
  BY <1>2, <1>3, <1>4, <1>5, <1>6 DEF StoreInv, Whole

\* A step before the critical section that learns something about the call.
LEMMA LearnKeeps ==
    ASSUME StoreInv, NEW d \in Deliveries, NEW r \in Calls,
           save' = [save EXCEPT ![d] = r], r.step \in {"account", "domain", "lock"}, ~Critical(d),
           UNCHANGED <<dirVars, disk, lock, opened>>,
           KnowsOwner', GoneIsGone'
    PROVE  StoreInv'
<1> USE DEF dirVars
<1>1. /\ save' \in [Deliveries -> Calls \cup {Idle}]
      /\ save'[d] = r
      /\ \A e \in Deliveries : e # d => save'[e] = save[e]
  BY DEF StoreInv, Base, SaveTypes
<1>2. Base'
  BY <1>1 DEF StoreInv, Base, SaveTypes, DirInv, DirTypeOK, NamesUnique, AccountsUnique,
              AccountHasDomain, Fresh
<1>3. Owned'
  BY DEF StoreInv, Owned, MailsHaveOwners, MailInOwnersDirectory
<1>4. Locked'
  <2>1. \A e \in Deliveries : Critical(e)' = Critical(e)
    BY <1>1 DEF Critical
  <2> QED
    BY <2>1 DEF StoreInv, Whole, Locked
<1>5. Counted' /\ StoredIsWhole'
  BY <1>1 DEF StoreInv, Whole, Counted, StoredIsWhole, Rows, Path
<1> QED
  BY <1>2, <1>3, <1>4, <1>5 DEF StoreInv, Whole

\* The call and the look-up of the domain's name.
LEMMA BeginSaveStep ==
    ASSUME StoreInv, NEW d \in Deliveries, NEW u \in Users, NEW n \in Names, NEW j \in Jobs,
           BeginSave(d, u, n, j)
    PROVE  StoreInv'
<1>1. PICK i \in Named(n) :
          save' = [save EXCEPT ![d] = [step |-> "account", user |-> u, job |-> j,
                                       dom |-> i, acc |-> 0, name |-> n, gone |-> Dead]]
  BY DEF BeginSave
<1> DEFINE r == [step |-> "account", user |-> u, job |-> j, dom |-> i, acc |-> 0, name |-> n,
                 gone |-> Dead]
<1>2. i \in DomainIDs
  BY RowFacts DEF Named, StoreInv, Base
<1>3. r \in Calls /\ r.step = "account" /\ r.gone = Dead
  <2>1. Dead \in SUBSET AccountIDs
    <3>1. nextAccount \in 1..MaxAccounts + 1
      BY DEF StoreInv, Base, DirInv, DirTypeOK
    <3> QED
      BY <3>1, DirectoryAssumption DEF Dead, AccountIDs
  <2> QED
    BY <1>2, <2>1 DEF Calls, Steps
<1>4. save' = [save EXCEPT ![d] = r]
  BY <1>1
<1> HIDE DEF r
<1>5. UNCHANGED <<dirVars, disk, lock, opened>>
  BY DEF BeginSave
<1>6. save'[d] = r /\ \A e \in Deliveries : e # d => save'[e] = save[e]
  BY <1>4 DEF StoreInv, Base, SaveTypes
<1>7. KnowsOwner'
  BY <1>3, <1>5, <1>6 DEF StoreInv, Owned, KnowsOwner, HasAccount, HasName, dirVars
<1>8. Dead' = Dead
  BY <1>5 DEF Dead, dirVars
<1>9. GoneIsGone'
  BY <1>3, <1>6, <1>8 DEF StoreInv, GoneIsGone, HasAccount
<1> QED
  <2>1. ~Critical(d)
    BY DEF BeginSave, Critical, Idle
  <2> QED
    BY <1>3, <1>4, <1>5, <1>7, <1>9, <2>1, LearnKeeps

\* The look-up of the account finds one that exists and is not deleted.
LEMMA FindAccountStep ==
    ASSUME StoreInv, NEW d \in Deliveries, FindAccount(d)
    PROVE  StoreInv'
<1>1. CASE Return(d)
  BY <1>1, ReturnKeeps DEF FindAccount, At, Critical
<1>2. CASE ~Return(d)
  <2>1. PICK a \in DOMAIN accounts :
            /\ accounts[a].user = save[d].user /\ accounts[a].dom = save[d].dom
            /\ ValidateAccount(accounts[a])
            /\ save' = [save EXCEPT ![d].step = "domain", ![d].acc = a]
    BY <1>2 DEF FindAccount
  <2> DEFINE r == [save[d] EXCEPT !.step = "domain", !.acc = a]
  <2>2. save[d] \in Calls /\ save[d].step = "account"
    BY CallFacts DEF StoreInv, Base, FindAccount, At
  <2>3. a \in AccountIDs /\ a < nextAccount
    BY RowFacts DEF StoreInv, Base, DirInv, Fresh
  <2>4. /\ r \in Calls /\ r.step = "domain" /\ r.acc = a
        /\ r.user = save[d].user /\ r.dom = save[d].dom /\ r.gone = save[d].gone
    BY <2>2, <2>3 DEF Calls, Steps
  <2>5. save' = [save EXCEPT ![d] = r]
    BY <2>1 DEF StoreInv, Base, SaveTypes
  <2> HIDE DEF r
  <2>6. save'[d] = r /\ \A e \in Deliveries : e # d => save'[e] = save[e]
    BY <2>5 DEF StoreInv, Base, SaveTypes
  <2>7. UNCHANGED <<dirVars, disk, lock, opened>>
    BY DEF FindAccount
  <2>8. KnowsOwner'
    <3>1. UNCHANGED <<domains, accounts, nextAccount>>
      BY <2>7 DEF dirVars, domainVars, accountVars
    <3>2. KnowsOwner
      BY DEF StoreInv, Owned
    <3> SUFFICES ASSUME NEW e \in Deliveries, HasAccount(e)'
                 PROVE  /\ save'[e].acc \in AccountIDs /\ save'[e].acc < nextAccount
                        /\ save'[e].acc \in DOMAIN accounts =>
                              /\ accounts[save'[e].acc].user = save'[e].user
                              /\ accounts[save'[e].acc].dom = save'[e].dom
                              /\ HasName(e)' => domains[save'[e].dom].name = save'[e].name
      BY <3>1 DEF KnowsOwner
    <3>3. CASE e = d
      <4>1. save'[e] = r /\ ~HasName(e)'
        BY <2>4, <2>6, <3>3 DEF HasName
      <4> QED
        BY <2>1, <2>3, <2>4, <4>1
    <3>4. CASE e # d
      <4>1. save'[e] = save[e]
        BY <2>6, <3>4
      <4>2. HasAccount(e) /\ (HasName(e)' => HasName(e))
        BY <4>1 DEF HasAccount, HasName
      <4> QED
        BY <3>2, <4>1, <4>2 DEF KnowsOwner
    <3> QED
      BY <3>3, <3>4
  <2>9. GoneIsGone'
    <3>1. a \notin Dead
      BY <2>1 DEF Dead, ValidateAccount
    <3>2. Dead' = Dead
      BY <2>7 DEF Dead, dirVars
    <3>3. save[d].gone \subseteq Dead
      BY <2>2 DEF StoreInv, GoneIsGone
    <3> QED
      BY <2>4, <2>6, <3>1, <3>2, <3>3 DEF StoreInv, GoneIsGone, HasAccount
  <2> QED
    <3>1. ~Critical(d)
      BY <2>2 DEF Critical
    <3> QED
      BY <2>4, <2>5, <2>7, <2>8, <2>9, <3>1, LearnKeeps
<1> QED
  BY <1>1, <1>2

\* A process that dies forgets the calls and keeps tables and files.
LEMMA DieKeeps ==
    ASSUME StoreInv, Die, UNCHANGED <<domainVars, accountVars, mailVars, disk, opened>>
    PROVE  StoreInv'
<1> USE DEF domainVars, accountVars, mailVars
<1>1. /\ save' = [e \in Deliveries |-> Idle] /\ adm' = [t \in Admins |-> Idle]
      /\ UNCHANGED <<domainVars, accountVars, mailVars, disk, opened>>
  BY DEF Die
<1>2. DirInv'
  <2>1. adm' \in [Admins -> Requests] /\ \A t \in Admins : adm'[t].step # "insertAccount"
    BY <1>1 DEF Requests, Idle
  <2> QED
    BY <1>1, <2>1, RequestsOnly DEF StoreInv, Base
<1>3. /\ save' \in [Deliveries -> Calls \cup {Idle}]
      /\ \A e \in Deliveries : save'[e].step = "idle"
  BY <1>1 DEF Idle
<1>4. Base'
  BY <1>1, <1>2, <1>3 DEF StoreInv, Base, SaveTypes
<1>5. Owned'
  BY <1>1, <1>3 DEF StoreInv, Owned, KnowsOwner, MailsHaveOwners, MailInOwnersDirectory,
                    HasAccount
<1>6. GoneIsGone'
  BY <1>1, <1>3 DEF StoreInv, GoneIsGone, HasAccount, Dead
<1>7. Whole'
  <2>1. Locked'
    BY <1>3, StoreAssumption DEF Die, Unlock, Locked, Critical
  <2> QED
    BY <1>1, <1>3, <2>1 DEF StoreInv, Whole, Counted, StoredIsWhole, Rows
<1> QED
  BY <1>4, <1>5, <1>6, <1>7 DEF StoreInv

\* The look-up of the domain finds the name the account's address has.
LEMMA FindDomainStep ==
    ASSUME StoreInv, NEW d \in Deliveries, FindDomain(d)
    PROVE  StoreInv'
<1>1. CASE Return(d) /\ UNCHANGED <<adm, lock, crashes>>
  BY <1>1, ReturnKeeps DEF FindDomain, At, Critical, dirVars, domainVars, accountVars, mailVars
<1>2. CASE Die
  BY <1>2, DieKeeps DEF FindDomain
<1>3. CASE /\ save[d].dom \in DOMAIN domains
           /\ save' = [save EXCEPT ![d].step = "lock", ![d].name = domains[save[d].dom].name]
           /\ UNCHANGED <<adm, lock, crashes>>
  <2> DEFINE n == domains[save[d].dom].name
             r == [save[d] EXCEPT !.step = "lock", !.name = n]
  <2>1. save[d].dom \in DOMAIN domains /\ save' = [save EXCEPT ![d].step = "lock", ![d].name = n]
    BY <1>3
  <2>2. save[d] \in Calls /\ save[d].step = "domain"
    BY CallFacts DEF StoreInv, Base, FindDomain, At
  <2>3. n \in Names
    BY <2>1, RowFacts DEF StoreInv, Base, Domain
  <2> HIDE DEF n
  <2>4. /\ r \in Calls /\ r.step = "lock" /\ r.name = n /\ r.acc = save[d].acc
        /\ r.user = save[d].user /\ r.dom = save[d].dom /\ r.gone = save[d].gone
    BY <2>2, <2>3 DEF Calls, Steps
  <2>5. save' = [save EXCEPT ![d] = r]
    BY <2>1 DEF StoreInv, Base, SaveTypes
  <2> HIDE DEF r
  <2>6. save'[d] = r /\ \A e \in Deliveries : e # d => save'[e] = save[e]
    BY <2>5 DEF StoreInv, Base, SaveTypes
  <2>7. UNCHANGED <<dirVars, disk, lock, opened>>
    BY <1>3 DEF FindDomain, dirVars, domainVars, accountVars, mailVars
  <2>8. KnowsOwner'
    BY <2>2, <2>4, <2>6, <2>7 DEF StoreInv, Owned, KnowsOwner, HasAccount, HasName, dirVars, n
  <2>9. GoneIsGone'
    <3>1. Dead' = Dead
      BY <2>7 DEF Dead, dirVars
    <3> QED
      BY <2>2, <2>4, <2>6, <2>7, <3>1 DEF StoreInv, Base, SaveTypes, GoneIsGone, HasAccount
  <2> QED
    <3>1. ~Critical(d)
      BY <2>2 DEF Critical
    <3> QED
      BY <2>4, <2>5, <2>7, <2>8, <2>9, <3>1, LearnKeeps
<1> QED
  BY <1>1, <1>2, <1>3 DEF FindDomain

\* A step of a delivery that knows everything: only the place changes.
LEMMA PlaceFacts ==
    ASSUME StoreInv, NEW d \in Deliveries, HasName(d), NEW s \in {"create", "copy", "insert"},
           Goto(d, s), UNCHANGED dirVars
    PROVE  /\ save' \in [Deliveries -> Calls \cup {Idle}]
           /\ save'[d].step = s /\ Path(d)' = Path(d) /\ Path(d) \in Paths
           /\ \A e \in Deliveries : e # d => save'[e] = save[e] /\ Path(e)' = Path(e)
           /\ DirInv' /\ Owned' /\ GoneIsGone'
           /\ \A p : Rows(p)' = Rows(p)
<1> DEFINE r == [save[d] EXCEPT !.step = s]
<1>1. save[d] \in Calls /\ Path(d) \in Paths
  BY CallFacts DEF StoreInv, Base, HasName
<1>2. /\ r \in Calls /\ r.step = s /\ r.name = save[d].name /\ r.acc = save[d].acc
      /\ r.user = save[d].user /\ r.dom = save[d].dom /\ r.job = save[d].job
      /\ r.gone = save[d].gone
  BY <1>1 DEF Calls, Steps
<1>3. save' = [save EXCEPT ![d] = r]
  BY DEF Goto, StoreInv, Base, SaveTypes
<1> HIDE DEF r
<1>4. /\ save' \in [Deliveries -> Calls \cup {Idle}] /\ save'[d] = r
      /\ \A e \in Deliveries : e # d => save'[e] = save[e]
  BY <1>2, <1>3 DEF StoreInv, Base, SaveTypes
<1>5. Path(d)' = Path(d) /\ \A e \in Deliveries : e # d => Path(e)' = Path(e)
  BY <1>2, <1>4 DEF Path
<1>6. DirInv'
  BY DEF dirVars, StoreInv, Base, DirInv, DirTypeOK, NamesUnique, AccountsUnique,
         AccountHasDomain, Fresh
<1>7. KnowsOwner'
  BY <1>2, <1>4 DEF StoreInv, Owned, KnowsOwner, HasAccount, HasName, dirVars
<1>8. Owned'
  BY <1>7 DEF StoreInv, Owned, MailsHaveOwners, MailInOwnersDirectory, dirVars
<1>9. GoneIsGone'
  <2>1. Dead' = Dead
    BY DEF Dead, dirVars
  <2> QED
    BY <1>2, <1>4, <2>1 DEF StoreInv, GoneIsGone, HasAccount, HasName
<1>10. \A p : Rows(p)' = Rows(p)
  BY DEF Rows, dirVars
<1> QED
  BY <1>1, <1>2, <1>4, <1>5, <1>6, <1>8, <1>9, <1>10

\* The lock is free, so no other delivery is in the critical section.
LEMMA LockStep ==
    ASSUME StoreInv, NEW d \in Deliveries, Lock(d)
    PROVE  StoreInv'
<1>1. /\ save[d].step = "lock" /\ lock = Nobody /\ lock' = d /\ Goto(d, "create")
      /\ UNCHANGED <<dirVars, disk, opened>>
  BY DEF Lock, At
<1>2. /\ save' \in [Deliveries -> Calls \cup {Idle}]
      /\ save'[d].step = "create" /\ Path(d)' = Path(d)
      /\ \A e \in Deliveries : e # d => save'[e] = save[e] /\ Path(e)' = Path(e)
      /\ DirInv' /\ Owned' /\ GoneIsGone'
      /\ \A p : Rows(p)' = Rows(p)
  BY <1>1, PlaceFacts DEF HasName
<1>3. Base'
  BY <1>1, <1>2 DEF StoreInv, Base, SaveTypes
<1>4. Locked'
  BY <1>1, <1>2, StoreAssumption DEF StoreInv, Whole, Locked, Critical
<1>5. Counted' /\ StoredIsWhole'
  BY <1>1, <1>2 DEF StoreInv, Whole, Counted, StoredIsWhole
<1> QED
  BY <1>2, <1>3, <1>4, <1>5 DEF StoreInv, Whole

\* os.Create opens the file once more than there are rows for it.
LEMMA CreateFileStep ==
    ASSUME StoreInv, NEW d \in Deliveries, CreateFile(d)
    PROVE  StoreInv'
<1>1. save[d].step = "create" /\ UNCHANGED dirVars
  BY DEF CreateFile, At
<1>2. CASE Return(d) /\ Unlock /\ UNCHANGED <<disk, opened>>
  BY <1>1, <1>2, ReturnKeeps DEF Critical
<1>3. CASE /\ disk' = [disk EXCEPT ![Path(d)] = "part"]
           /\ opened' = [opened EXCEPT ![Path(d)] = @ + 1]
           /\ Goto(d, "copy")
           /\ UNCHANGED lock
  <2>1. /\ save' \in [Deliveries -> Calls \cup {Idle}]
        /\ save'[d].step = "copy" /\ Path(d)' = Path(d) /\ Path(d) \in Paths
        /\ \A e \in Deliveries : e # d => save'[e] = save[e] /\ Path(e)' = Path(e)
        /\ DirInv' /\ Owned' /\ GoneIsGone'
        /\ \A p : Rows(p)' = Rows(p)
    BY <1>1, <1>3, PlaceFacts DEF HasName
  <2>2. /\ disk \in [Paths -> {"none", "part", "whole"}] /\ opened \in [Paths -> Nat]
        /\ opened'[Path(d)] = opened[Path(d)] + 1
        /\ \A p \in Paths : p # Path(d) => opened'[p] = opened[p] /\ disk'[p] = disk[p]
    BY <1>3, <2>1 DEF StoreInv, Base, SaveTypes
  <2>3. Base'
    BY <1>1, <1>3, <2>1, <2>2 DEF StoreInv, Base, SaveTypes
  <2>4. Locked'
    BY <1>1, <1>3, <2>1 DEF StoreInv, Whole, Locked, Critical
  <2>5. \A e \in Deliveries : e # d => ~Critical(e)
    BY <1>1 DEF StoreInv, Whole, Locked, Critical
  <2>6. \A p \in Paths : Cardinality(Rows(p)) \in Nat
    BY RowsFinite DEF StoreInv, Base
  <2>7. Cardinality(Rows(Path(d))) < opened'[Path(d)]
    BY <2>1, <2>2, <2>6 DEF StoreInv, Whole, Counted
  <2>8. Counted'
    BY <2>1, <2>2, <2>5, <2>6, <2>7 DEF StoreInv, Whole, Counted, Critical
  <2>9. StoredIsWhole'
    BY <2>1, <2>2, <2>7 DEF StoreInv, Whole, StoredIsWhole
  <2> QED
    BY <2>1, <2>3, <2>4, <2>8, <2>9 DEF StoreInv, Whole
<1> QED
  BY <1>2, <1>3 DEF CreateFile

\* The content is whole before the row is inserted.
LEMMA CopyContentStep ==
    ASSUME StoreInv, NEW d \in Deliveries, CopyContent(d)
    PROVE  StoreInv'
<1>1. save[d].step = "copy" /\ UNCHANGED <<dirVars, opened>>
  BY DEF CopyContent, At
<1>2. CASE Return(d) /\ Unlock /\ UNCHANGED disk
  BY <1>1, <1>2, ReturnKeeps DEF Critical
<1>3. CASE /\ disk' = [disk EXCEPT ![Path(d)] = "whole"]
           /\ Goto(d, "insert")
           /\ UNCHANGED lock
  <2>1. /\ save' \in [Deliveries -> Calls \cup {Idle}]
        /\ save'[d].step = "insert" /\ Path(d)' = Path(d) /\ Path(d) \in Paths
        /\ \A e \in Deliveries : e # d => save'[e] = save[e] /\ Path(e)' = Path(e)
        /\ DirInv' /\ Owned' /\ GoneIsGone'
        /\ \A p : Rows(p)' = Rows(p)
    BY <1>1, <1>3, PlaceFacts DEF HasName
  <2>2. /\ disk \in [Paths -> {"none", "part", "whole"}]
        /\ disk'[Path(d)] = "whole" /\ \A p \in Paths : p # Path(d) => disk'[p] = disk[p]
    BY <1>3, <2>1 DEF StoreInv, Base, SaveTypes
  <2>3. Base'
    BY <1>1, <1>3, <2>1, <2>2 DEF StoreInv, Base, SaveTypes
  <2>4. Locked'
    BY <1>1, <1>3, <2>1 DEF StoreInv, Whole, Locked, Critical
  <2>5. \A e \in Deliveries : e # d => ~Critical(e)
    BY <1>1 DEF StoreInv, Whole, Locked, Critical
  <2>6. Counted'
    BY <1>1, <2>1, <2>2, <2>5 DEF StoreInv, Whole, Counted, Critical
  <2>7. StoredIsWhole'
    BY <1>1, <2>1, <2>2 DEF StoreInv, Whole, StoredIsWhole
  <2> QED
    BY <2>1, <2>3, <2>4, <2>6, <2>7 DEF StoreInv, Whole
<1> QED
  BY <1>2, <1>3 DEF CopyContent

\* The tables after the row of delivery d is inserted.
LEMMA InsertedRow ==
    ASSUME StoreInv, NEW d \in Deliveries, save[d].step = "insert",
           nextMail \in MailIDs, nextMail' = nextMail + 1,
           emails' = With(emails, nextMail, [acc |-> save[d].acc, path |-> Path(d), deleted |-> FALSE]),
           UNCHANGED <<domainVars, accountVars, adm>>
    PROVE  /\ DirInv'
           /\ nextMail \notin DOMAIN emails
           /\ DOMAIN emails' = DOMAIN emails \cup {nextMail}
           /\ emails'[nextMail].acc = save[d].acc /\ emails'[nextMail].path = Path(d)
           /\ \A m \in DOMAIN emails : emails'[m] = emails[m]
<1> DEFINE row == [acc |-> save[d].acc, path |-> Path(d), deleted |-> FALSE]
<1> USE DEF domainVars, accountVars
<1>1. save[d].acc \in AccountIDs /\ Path(d) \in Paths
  <2>1. Path(d) \in Paths
    BY CallFacts DEF StoreInv, Base
  <2> QED
    BY <2>1 DEF StoreInv, Owned, KnowsOwner, HasAccount
<1>2. row \in Email /\ row.acc = save[d].acc /\ row.path = Path(d)
  BY <1>1 DEF Email
<1> HIDE DEF row
<1>3. IsTable(emails, MailIDs, Email) /\ nextMail \in MailIDs /\ row \in Email
  BY <1>2 DEF StoreInv, Base, DirInv, DirTypeOK
<1>4. nextMail \notin DOMAIN emails /\ \A m \in DOMAIN emails : m \in Nat
  BY RowFacts DEF StoreInv, Base, DirInv, Fresh
<1>5. /\ IsTable(emails', MailIDs, Email) /\ DOMAIN emails' = DOMAIN emails \cup {nextMail}
      /\ emails'[nextMail] = row
      /\ \A m \in DOMAIN emails : m # nextMail => emails'[m] = emails[m]
  <2> DEFINE w == With(emails, nextMail, row)
  <2>1. /\ IsTable(w, MailIDs, Email) /\ DOMAIN w = DOMAIN emails \cup {nextMail}
        /\ w[nextMail] = row
        /\ \A m \in DOMAIN emails : m # nextMail => w[m] = emails[m]
    BY <1>3 DEF With, IsTable
  <2> QED
    BY <2>1 DEF row
<1>6. nextMail' \in 1..MaxMails + 1
  BY DirectoryAssumption DEF MailIDs
<1>7. DirTypeOK'
  BY <1>5, <1>6 DEF StoreInv, Base, DirInv, DirTypeOK
<1>8. Fresh'
  <2>1. nextMail \in Nat
    BY RowFacts DEF StoreInv, Base
  <2>2. \A m \in DOMAIN emails' : m < nextMail'
    BY <1>4, <1>5, <2>1 DEF StoreInv, Base, DirInv, Fresh
  <2> QED
    BY <2>2 DEF StoreInv, Base, DirInv, Fresh
<1>9. DirInv'
  BY <1>7, <1>8 DEF StoreInv, Base, DirInv, NamesUnique, AccountsUnique, AccountHasDomain
<1> QED
  BY <1>2, <1>4, <1>5, <1>9

\* The row stands in the directory of its owner, and uses up the extra opening.
LEMMA InsertMailStep ==
    ASSUME StoreInv, NEW d \in Deliveries, InsertMail(d)
    PROVE  StoreInv'
<1>1. /\ save[d].step = "insert" /\ Return(d) /\ Unlock
      /\ UNCHANGED <<domainVars, accountVars, adm, disk, opened>>
  BY DEF InsertMail, At
<1>2. CASE UNCHANGED mailVars
  <2>1. UNCHANGED dirVars
    BY <1>1, <1>2 DEF dirVars, domainVars, accountVars, mailVars
  <2> QED
    BY <1>1, <2>1, ReturnKeeps DEF Critical
<1>3. CASE /\ nextMail \in MailIDs /\ nextMail' = nextMail + 1
           /\ emails' = With(emails, nextMail,
                             [acc |-> save[d].acc, path |-> Path(d), deleted |-> FALSE])
  <2>1. /\ DirInv' /\ nextMail \notin DOMAIN emails
        /\ DOMAIN emails' = DOMAIN emails \cup {nextMail}
        /\ emails'[nextMail].acc = save[d].acc /\ emails'[nextMail].path = Path(d)
        /\ \A m \in DOMAIN emails : emails'[m] = emails[m]
    BY <1>1, <1>3, InsertedRow
  <2>2. UNCHANGED <<domains, accounts, nextAccount>>
    BY <1>1 DEF domainVars, accountVars
  <2>3. /\ save' \in [Deliveries -> Calls \cup {Idle}]
        /\ save'[d].step = "idle"
        /\ \A e \in Deliveries : e # d => save'[e] = save[e] /\ Path(e)' = Path(e)
    BY <1>1 DEF Return, Path, StoreInv, Base, SaveTypes, Idle
  <2>4. Base'
    BY <1>1, <2>1, <2>3 DEF StoreInv, Base, SaveTypes
  <2>5. KnowsOwner'
    BY <2>2, <2>3 DEF StoreInv, Owned, KnowsOwner, HasAccount, HasName
  <2>6. MailsHaveOwners'
    BY <1>1, <2>1, <2>2 DEF StoreInv, Owned, KnowsOwner, MailsHaveOwners, HasAccount
  <2>7. MailInOwnersDirectory'
    <3>1. save[d].acc \in DOMAIN accounts =>
             /\ Path(d)[1] = domains[accounts[save[d].acc].dom].name
             /\ Path(d)[2] = accounts[save[d].acc].user
      BY <1>1 DEF StoreInv, Owned, KnowsOwner, HasAccount, HasName, Path
    <3> QED
      BY <2>1, <2>2, <3>1 DEF StoreInv, Owned, MailInOwnersDirectory
  <2>8. GoneIsGone'
    <3>1. Dead' = Dead
      BY <2>2 DEF Dead
    <3> QED
      BY <1>1, <2>3, <3>1 DEF StoreInv, GoneIsGone, HasAccount
  <2>9. Locked' /\ \A e \in Deliveries : e # d => ~Critical(e)
    <3>1. Critical(d) /\ ~Critical(d)' /\ \A e \in Deliveries : e # d => Critical(e)' = Critical(e)
      BY <1>1, <2>3 DEF Critical
    <3> QED
      BY <1>1, <3>1, StoreAssumption DEF StoreInv, Whole, Locked, Unlock
  <2>10. PICK q \in Paths : q = Path(d)
    BY <1>1, CallFacts DEF StoreInv, Base
  <2>11. /\ \A p \in Paths : p # q => Rows(p)' = Rows(p)
         /\ Rows(q)' = Rows(q) \cup {nextMail} /\ nextMail \notin Rows(q)
    <3>1. \A m \in DOMAIN emails' : m = nextMail \/ m \in DOMAIN emails
      BY <2>1
    <3>2. emails'[nextMail].path = q /\ \A m \in DOMAIN emails : emails'[m].path = emails[m].path
      BY <2>1, <2>10
    <3> QED
      BY <2>1, <3>1, <3>2 DEF Rows
  <2>12. Cardinality(Rows(q))' = Cardinality(Rows(q)) + 1
    <3>1. IsFiniteSet(Rows(q))
      BY RowsFinite DEF StoreInv, Base
    <3> QED
      BY <2>11, <3>1, FS_AddElement
  <2>13. /\ \A p \in Paths : Cardinality(Rows(p)) \in Nat /\ opened[p] \in Nat
         /\ disk[q] = "whole" /\ Cardinality(Rows(q)) < opened[q]
         /\ \A p \in Paths : Cardinality(Rows(p)) <= opened[p]
    BY <1>1, <2>10, RowsFinite DEF StoreInv, Base, SaveTypes, Whole, Counted
  <2>14. Counted'
    <3>1. \A p \in Paths : Cardinality(Rows(p))' <= opened[p]
      <4> SUFFICES ASSUME NEW p \in Paths PROVE Cardinality(Rows(p))' <= opened[p]
        OBVIOUS
      <4>1. CASE p = q
        BY <4>1, <2>12, <2>13
      <4>2. CASE p # q
        BY <4>2, <2>11, <2>13
      <4> QED
        BY <4>1, <4>2
    <3>2. \A e \in Deliveries : save'[e].step \notin {"copy", "insert"}
      BY <2>3, <2>9 DEF Critical
    <3> QED
      BY <1>1, <3>1, <3>2 DEF Counted
  <2>15. StoredIsWhole'
    BY <1>1, <2>11, <2>13 DEF StoreInv, Whole, StoredIsWhole
  <2> QED
    BY <2>4, <2>5, <2>6, <2>7, <2>8, <2>9, <2>14, <2>15 DEF StoreInv, Owned, Whole
<1> QED
  BY <1>2, <1>3 DEF InsertMail

-----------------------------------------------------------------------------
\* Every step keeps the invariants.
LEMMA StoreNext == StoreInv /\ [Next]_vars => StoreInv'
<1> SUFFICES ASSUME StoreInv, [Next]_vars PROVE StoreInv'
  OBVIOUS
<1>1. CASE DirNext /\ UNCHANGED storeVars
  BY <1>1, DirectoryKeeps
<1>2. ASSUME NEW d \in Deliveries,
             \/ \E u \in Users, n \in Names, j \in Jobs : BeginSave(d, u, n, j)
             \/ SaveStep(d)
      PROVE  StoreInv'
  BY <1>2, BeginSaveStep, FindAccountStep, FindDomainStep, LockStep, CreateFileStep,
     CopyContentStep, InsertMailStep DEF SaveStep
<1>3. CASE Crash
  BY <1>3, DieKeeps DEF Crash
<1>4. CASE UNCHANGED vars
  <2>1. Base'
    BY <1>4 DEF vars, StoreInv, Base, SaveTypes, DirInv, DirTypeOK, NamesUnique, AccountsUnique,
                AccountHasDomain, Fresh
  <2>2. Owned'
    BY <1>4 DEF vars, StoreInv, Owned, KnowsOwner, MailsHaveOwners, MailInOwnersDirectory,
                HasAccount, HasName
  <2>3. GoneIsGone'
    BY <1>4 DEF vars, StoreInv, GoneIsGone, Dead, HasAccount
  <2>4. Whole'
    BY <1>4 DEF vars, StoreInv, Whole, Locked, Critical, Counted, StoredIsWhole, Rows, Path
  <2> QED
    BY <2>1, <2>2, <2>3, <2>4 DEF StoreInv
<1> QED
  BY <1>1, <1>2, <1>3, <1>4 DEF Next

\* The invariants hold in every reachable state.
LEMMA StoreInvariant == Spec => []StoreInv
  BY StoreInit, StoreNext, PTL DEF Spec

\* The types of what the invariants leave out, by a small invariant of its own.
CountTypes ==
    /\ lock \in Deliveries \cup {Nobody}
    /\ saves \in 0..MaxSaves /\ crashes \in 0..MaxCrashes

\* The types of Save's state and of the tables under it.
THEOREM StoreTypes == Spec => []StoreTypeOK
<1>1. Init => CountTypes
  BY StoreAssumption DEF Init, CountTypes
<1>2. CountTypes /\ [Next]_vars => CountTypes'
  <2> SUFFICES ASSUME CountTypes, [Next]_vars PROVE CountTypes'
    OBVIOUS
  <2> USE DEF CountTypes
  <2>1. CASE UNCHANGED <<lock, saves, crashes>>
    BY <2>1
  <2>2. ASSUME NEW d \in Deliveries, NEW u \in Users, NEW n \in Names, NEW j \in Jobs,
               BeginSave(d, u, n, j)
        PROVE  CountTypes'
    BY <2>2, StoreAssumption DEF BeginSave
  <2>3. ASSUME NEW d \in Deliveries, SaveStep(d)
        PROVE  CountTypes'
    BY <2>3, StoreAssumption DEF SaveStep, FindAccount, FindDomain, Lock, CreateFile,
                                 CopyContent, InsertMail, Unlock, Die
  <2>4. CASE Crash
    BY <2>4, StoreAssumption DEF Crash, Die, Unlock
  <2> QED
    BY <2>1, <2>2, <2>3, <2>4 DEF Next, storeVars, vars
<1>3. CountTypes /\ StoreInv => StoreTypeOK
  BY DEF CountTypes, StoreInv, Base, DirInv, SaveTypes, StoreTypeOK
<1> QED
  BY <1>1, <1>2, <1>3, StoreInvariant, PTL DEF Spec

\* A stored mail has its whole file, unless Save opened that file once more
\* than it inserted rows for it, however calls, failures and crashes interleave.
THEOREM StoredMailIsWhole == Spec => []StoredIsWhole
<1>1. StoreInv => StoredIsWhole
  BY DEF StoreInv, Whole
<1> QED
  BY <1>1, StoreInvariant, PTL

\* A mail lies where the address of its account says, although Save looks the
\* names up in three steps without a lock.
THEOREM MailsLieWithTheirOwner == Spec => []MailInOwnersDirectory
<1>1. StoreInv => MailInOwnersDirectory
  BY DEF StoreInv, Owned
<1> QED
  BY <1>1, StoreInvariant, PTL

\* Accounts that exist share no file: their addresses differ, and their mails
\* lie where the addresses say.
THEOREM FilesAreNotShared == Spec => []NoSharedFile
<1>1. StoreInv => NoSharedFile
  <2> SUFFICES ASSUME StoreInv, NEW m \in DOMAIN emails, NEW k \in DOMAIN emails,
                      emails[m].path = emails[k].path,
                      emails[m].acc \in DOMAIN accounts, emails[k].acc \in DOMAIN accounts
               PROVE  emails[m].acc = emails[k].acc
    BY DEF NoSharedFile
  <2>1. AddressUnique /\ AccountHasDomain
    BY UniqueAddresses DEF StoreInv, Base, DirInv
  <2>2. /\ domains[accounts[emails[m].acc].dom].name = domains[accounts[emails[k].acc].dom].name
        /\ accounts[emails[m].acc].user = accounts[emails[k].acc].user
    BY DEF StoreInv, Owned, MailInOwnersDirectory
  <2> QED
    BY <2>1, <2>2 DEF AddressUnique, AccountHasDomain
<1> QED
  BY <1>1, StoreInvariant, PTL

\* A call that began after the deletion of an account stores nothing for it.
THEOREM TheDeadGetNoMail == Spec => NoMailForTheDead
<1>1. StoreInv /\ [Next]_vars =>
         [\A m \in DOMAIN emails' \ DOMAIN emails :
             \E d \in Deliveries : At(d, "insert") /\ emails'[m].acc \notin save[d].gone]_vars
  <2> SUFFICES ASSUME StoreInv, Next, NEW m \in DOMAIN emails' \ DOMAIN emails
               PROVE  \E d \in Deliveries : At(d, "insert") /\ emails'[m].acc \notin save[d].gone
    BY DEF vars
  <2>1. CASE DirNext
    BY <2>1, DirectoryStep DEF StoreInv, Base, Stable
  <2>2. ASSUME NEW d \in Deliveries, InsertMail(d)
        PROVE  At(d, "insert") /\ emails'[m].acc \notin save[d].gone
    <3>1. save[d].step = "insert" /\ UNCHANGED <<domainVars, accountVars, adm>> /\ emails' # emails
      BY <2>2 DEF InsertMail, At
    <3>2. emails'[m].acc = save[d].acc
      BY <2>2, <3>1, InsertedRow DEF InsertMail, mailVars
    <3> QED
      BY <3>1, <3>2 DEF At, StoreInv, GoneIsGone, HasAccount
  <2>3. ASSUME NEW d \in Deliveries,
               \/ \E u \in Users, n \in Names, j \in Jobs : BeginSave(d, u, n, j)
               \/ FindAccount(d) \/ FindDomain(d) \/ Lock(d) \/ CreateFile(d) \/ CopyContent(d)
        PROVE  FALSE
    BY <2>3 DEF BeginSave, FindAccount, FindDomain, Lock, CreateFile, CopyContent, dirVars, mailVars
  <2>4. CASE Crash
    BY <2>4 DEF Crash, mailVars
  <2> QED
    BY <2>1, <2>2, <2>3, <2>4 DEF Next, SaveStep
<1> QED
  BY <1>1, StoreInvariant, PTL DEF Spec, NoMailForTheDead

\* Each way out of Save, and a crash, gives the lock back.
THEOREM LockComesBack == Spec => []LockIsGivenBack
<1>1. StoreInv => LockIsGivenBack
  BY DEF StoreInv, Whole, Locked, Critical, LockIsGivenBack
<1> QED
  BY <1>1, StoreInvariant, PTL

\* What is proved of the tables holds while mails are delivered and the process
\* dies: addresses are unique, deletions are final.
THEOREM DirectoryHoldsUnderSave ==
    Spec => []AddressUnique /\ DeletionIsFinal
<1>1. StoreInv => AddressUnique
  BY UniqueAddresses DEF StoreInv, Base, DirInv
<1>2. StoreInv /\ [Next]_vars =>
         [/\ \A a \in DOMAIN accounts \cap DOMAIN accounts' :
                accounts[a].deleted => accounts'[a].deleted
          /\ \A d \in DOMAIN domains \cap DOMAIN domains' :
                domains[d].deleted => domains'[d].deleted]_dirVars
  <2> SUFFICES ASSUME StoreInv, [Next]_vars
               PROVE  /\ \A a \in DOMAIN accounts \cap DOMAIN accounts' :
                            accounts[a].deleted => accounts'[a].deleted
                      /\ \A d \in DOMAIN domains \cap DOMAIN domains' :
                            domains[d].deleted => domains'[d].deleted
    OBVIOUS
  <2>1. CASE DirNext
    <3>1. Stable
      BY <2>1, DirectoryStep DEF StoreInv, Base
    <3>2. nextAccount \notin DOMAIN accounts
      BY RowFacts DEF StoreInv, Base, DirInv, Fresh
    <3> QED
      BY <3>1, <3>2 DEF Stable
  <2>2. CASE UNCHANGED <<domains, accounts>>
    BY <2>2
  <2>3. ASSUME NEW d \in Deliveries,
               \/ \E u \in Users, n \in Names, j \in Jobs : BeginSave(d, u, n, j)
               \/ SaveStep(d)
        PROVE  UNCHANGED <<domains, accounts>>
    BY <2>3 DEF BeginSave, SaveStep, FindAccount, FindDomain, Lock, CreateFile, CopyContent,
                InsertMail, dirVars, domainVars, accountVars
  <2>4. Crash => UNCHANGED <<domains, accounts>>
    BY DEF Crash, domainVars, accountVars
  <2> QED
    BY <2>1, <2>2, <2>3, <2>4 DEF Next, vars
<1> QED
  BY <1>1, <1>2, StoreInvariant, PTL DEF Spec, DeletionIsFinal
=============================================================================
