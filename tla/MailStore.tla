----------------------------- MODULE MailStore -----------------------------
(***************************************************************************)
(* LocalStorage.Save of internal/app/service/storage/local.go against the  *)
(* tables of MailDirectory: the three look-ups before the lock, the file   *)
(* that is created and filled under it, and the row inserted last.         *)
(*                                                                         *)
(* A delivery is one caller of Save.  The delivery server and the milter   *)
(* that call it are outside src/; they may hand the same job in again      *)
(* after an error, or after an answer that got lost.  A file is known by  *)
(* its path (the domain's name, the user and the job; the two hash         *)
(* directories follow from the job), its content by whether it is whole.   *)
(***************************************************************************)
EXTENDS MailDirectory

CONSTANTS Deliveries,  \* callers of Save
          MaxSaves,    \* bound on the calls of Save
          MaxCrashes   \* bound on how often the process dies

Nobody == "nobody"

ASSUME StoreAssumption ==
    /\ Nobody \notin Deliveries
    /\ MaxSaves \in Nat /\ MaxCrashes \in Nat

VARIABLES
    disk,     \* disk[p]: "none", "part" (created or cut short) or "whole"
    lock,     \* the delivery that holds LocalStorage.lock, or Nobody
    save,     \* save[d]: where delivery d is and what it has read
    saves, crashes,  \* calls and crashes so far
    opened    \* history: opened[p] is how often os.Create opened p

storeVars == <<disk, lock, save, saves, crashes, opened>>
vars == <<domains, nextDomain, accounts, nextAccount, emails, nextMail, adm,
          disk, lock, save, saves, crashes, opened>>

Steps == {"idle", "account", "domain", "lock", "create", "copy", "insert"}

\* Names a delivery is given and what it finds: user and job from the call,
\* dom from FindDomainByName, acc from the accounts row, name from
\* FindDomainByID; and, as a history, gone: the accounts deleted before the call.
Calls == [step : Steps, user : Users, job : Jobs, dom : DomainIDs,
          acc : AccountIDs \cup {0}, name : Names, gone : SUBSET AccountIDs]

StoreTypeOK ==
    /\ DirTypeOK
    /\ disk \in [Paths -> {"none", "part", "whole"}]
    /\ lock \in Deliveries \cup {Nobody}
    /\ save \in [Deliveries -> Calls \cup {Idle}]
    /\ saves \in 0..MaxSaves /\ crashes \in 0..MaxCrashes
    /\ opened \in [Paths -> Nat]

Init ==
    /\ DirInit
    /\ disk = [p \in Paths |-> "none"]
    /\ lock = Nobody
    /\ save = [d \in Deliveries |-> Idle]
    /\ saves = 0 /\ crashes = 0
    /\ opened = [p \in Paths |-> 0]

At(d, s) == save[d].step = s
Path(d)  == <<save[d].name, save[d].user, save[d].job>>

Goto(d, s)  == save' = [save EXCEPT ![d].step = s]
Unlock      == lock' = Nobody
Return(d)   == save' = [save EXCEPT ![d] = Idle]

\* The process dies: calls and the lock are gone, tables and files stay.
Die ==
    /\ crashes < MaxCrashes
    /\ crashes' = crashes + 1
    /\ adm' = [t \in Admins |-> Idle]
    /\ save' = [d \in Deliveries |-> Idle]
    /\ Unlock

\* Accounts that were created and are deleted, softly or with their domain.
Dead == {a \in 1..nextAccount - 1 : a \in DOMAIN accounts => accounts[a].deleted}
-----------------------------------------------------------------------------
\* Faulty variants of some definitions stand before them, each with a bug that
\* is easily made in that code; they are no part of the specification.  A
\* property is checked to fail when one of them takes its definition's place.

\* Save is called; FindAccountByName looks the domain up by its name, whatever
\* the domain's status.  An unknown domain ends the call.
BeginSave(d, u, n, j) ==
    /\ save[d] = Idle
    /\ saves < MaxSaves
    /\ saves' = saves + 1
    /\ \E i \in Named(n) :
          save' = [save EXCEPT ![d] = [step |-> "account", user |-> u, job |-> j,
                                       dom |-> i, acc |-> 0, name |-> n, gone |-> Dead]]
    /\ UNCHANGED <<dirVars, disk, lock, crashes, opened>>

\* Faulty: the account's status is not part of the query.
FindAccountAnyStatus(d) ==
    /\ At(d, "account")
    /\ \E a \in DOMAIN accounts :
          /\ accounts[a].user = save[d].user /\ accounts[a].dom = save[d].dom
          /\ save' = [save EXCEPT ![d].step = "domain", ![d].acc = a]
    /\ UNCHANGED <<dirVars, disk, lock, saves, crashes, opened>>

\* The rest of FindAccountByName, and ValidateAccount; the row has the user and
\* the domain that were asked for.  Without one, or when the query fails, Save
\* returns.
FindAccount(d) ==
    /\ At(d, "account")
    /\ \/ \E a \in DOMAIN accounts :
             /\ accounts[a].user = save[d].user /\ accounts[a].dom = save[d].dom
             /\ ValidateAccount(accounts[a])
             /\ save' = [save EXCEPT ![d].step = "domain", ![d].acc = a]
       \/ Return(d)
    /\ UNCHANGED <<dirVars, disk, lock, saves, crashes, opened>>

\* Faulty: the condition on the id is lost, and the first domain that is there
\* gives the path its name.
FindDomainUnconditioned(d) ==
    /\ At(d, "domain")
    /\ \/ \E i \in DOMAIN domains :
             /\ ValidateDomain(domains[i])
             /\ save' = [save EXCEPT ![d].step = "lock", ![d].name = domains[i].name]
          /\ UNCHANGED <<adm, lock, crashes>>
       \/ Return(d) /\ UNCHANGED <<adm, lock, crashes>>
    /\ UNCHANGED <<domainVars, accountVars, mailVars, disk, saves, opened>>

\* FindDomainByID with the account's domain, and ValidateDomain; the path
\* takes the name of this row.  A row that is not there, or a query that fails,
\* gives a nil domain and no error: ValidateDomain(*domain) panics, which ends
\* the process unless the caller of Save recovers.
FindDomain(d) ==
    /\ At(d, "domain")
    /\ \/ /\ save[d].dom \in DOMAIN domains
          /\ ValidateDomain(domains[save[d].dom])
          /\ save' = [save EXCEPT ![d].step = "lock", ![d].name = domains[save[d].dom].name]
          /\ UNCHANGED <<adm, lock, crashes>>
       \/ Return(d) /\ UNCHANGED <<adm, lock, crashes>>
       \/ Die
    /\ UNCHANGED <<domainVars, accountVars, mailVars, disk, saves, opened>>

Lock(d) ==
    /\ At(d, "lock")
    /\ lock = Nobody
    /\ lock' = d
    /\ Goto(d, "create")
    /\ UNCHANGED <<dirVars, disk, saves, crashes, opened>>

\* os.Create truncates a file that exists.
CreateFile(d) ==
    /\ At(d, "create")
    /\ \/ /\ disk' = [disk EXCEPT ![Path(d)] = "part"]
          /\ opened' = [opened EXCEPT ![Path(d)] = @ + 1]
          /\ Goto(d, "copy")
          /\ UNCHANGED lock
       \/ /\ Return(d) /\ Unlock
          /\ UNCHANGED <<disk, opened>>
    /\ UNCHANGED <<dirVars, saves, crashes>>

\* Faulty: the error of io.Copy is not looked at.
CopyIgnoresError(d) ==
    /\ At(d, "copy")
    /\ \/ disk' = [disk EXCEPT ![Path(d)] = "whole"]
       \/ UNCHANGED disk
    /\ Goto(d, "insert")
    /\ UNCHANGED <<dirVars, lock, saves, crashes, opened>>

\* Faulty: the error path returns with the lock.
CopyKeepsLock(d) ==
    /\ At(d, "copy")
    /\ \/ disk' = [disk EXCEPT ![Path(d)] = "whole"] /\ Goto(d, "insert")
       \/ Return(d) /\ UNCHANGED disk
    /\ UNCHANGED <<dirVars, lock, saves, crashes, opened>>

\* io.Copy; an error leaves what was written so far.
CopyContent(d) ==
    /\ At(d, "copy")
    /\ \/ /\ disk' = [disk EXCEPT ![Path(d)] = "whole"]
          /\ Goto(d, "insert")
          /\ UNCHANGED lock
       \/ /\ Return(d) /\ Unlock
          /\ UNCHANGED disk
    /\ UNCHANGED <<dirVars, saves, crashes, opened>>

\* model.SaveEmail; an error leaves the file without a row.
InsertMail(d) ==
    /\ At(d, "insert")
    /\ \/ /\ nextMail \in MailIDs
          /\ emails' = With(emails, nextMail,
                            [acc |-> save[d].acc, path |-> Path(d), deleted |-> FALSE])
          /\ nextMail' = nextMail + 1
       \/ UNCHANGED mailVars
    /\ Return(d) /\ Unlock
    /\ UNCHANGED <<domainVars, accountVars, adm, disk, saves, crashes, opened>>

\* The process is killed, or panics elsewhere.
Crash == Die /\ UNCHANGED <<domainVars, accountVars, mailVars, disk, saves, opened>>
-----------------------------------------------------------------------------
SaveStep(d) == \/ FindAccount(d) \/ FindDomain(d) \/ Lock(d)
               \/ CreateFile(d) \/ CopyContent(d) \/ InsertMail(d)

Next ==
    \/ DirNext /\ UNCHANGED storeVars
    \/ \E d \in Deliveries :
          \/ \E u \in Users, n \in Names, j \in Jobs : BeginSave(d, u, n, j)
          \/ SaveStep(d)
    \/ Crash

Spec == Init /\ [][Next]_vars
-----------------------------------------------------------------------------
(* Properties. *)

Rows(p) == {m \in DOMAIN emails : emails[m].path = p}

\* A mail row points to a whole file, unless Save opened that file once more
\* than it inserted rows for it: only a second Save of the same job to the
\* same account damages a message that was stored.
StoredIsWhole ==
    \A p \in Paths : Rows(p) # {} /\ disk[p] # "whole" => opened[p] > Cardinality(Rows(p))

\* A mail lies in the directory of its account's address, for as long as the
\* account and its domain exist.
MailInOwnersDirectory ==
    \A m \in DOMAIN emails :
        LET a == emails[m].acc IN
        a \in DOMAIN accounts =>
            /\ emails[m].path[1] = domains[accounts[a].dom].name
            /\ emails[m].path[2] = accounts[a].user

\* Two accounts that exist never share a file, although a path is made of
\* names and names are given again after a physical deletion.
NoSharedFile ==
    \A m, k \in DOMAIN emails :
        (emails[m].path = emails[k].path /\ {emails[m].acc, emails[k].acc} \subseteq DOMAIN accounts)
            => emails[m].acc = emails[k].acc

\* A Save that began after the account was deleted, or after its domain was
\* physically deleted, stores no mail for it: only calls under way at the
\* deletion can.
NoMailForTheDead ==
    [][\A m \in DOMAIN emails' \ DOMAIN emails :
          \E d \in Deliveries : At(d, "insert") /\ emails'[m].acc \notin save[d].gone]_vars

\* Whoever holds the lock is creating, filling or recording a file, and nobody
\* else is: each of the ways out of Save, and a crash, gives the lock back, so
\* that no error keeps the other deliveries out for ever.
LockIsGivenBack == \A d \in Deliveries : lock = d <=> save[d].step \in {"create", "copy", "insert"}
=============================================================================
