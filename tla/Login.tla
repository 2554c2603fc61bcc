------------------------------- MODULE Login -------------------------------
(***************************************************************************)
(* Logins of the webmail and of the Dovecot server (auth/service.go,       *)
(* persistence/mysql/account_auth.go, Authorize and FindAccountByName of   *)
(* account.go), while the administration calls of MailDirectory and        *)
(* EditAccount change the tables between their steps.                      *)
(***************************************************************************)
EXTENDS MailDirectory

CONSTANTS Clients,     \* logins under way at once
          Passwords,
          NoPassword   \* the empty hash, which no password matches

ASSUME LoginAssumption == NoPassword \notin Passwords

VARIABLES
    password,   \* password[a]: what the hash of account a was made from
    login,      \* login[c]: where login c stands
    seen        \* history, seen[c]: the answers that the tables justified at one
                \* time or other since login c began

loginVars == <<password, login, seen>>
vars == <<dirVars, loginVars>>

Credentials == [name : Names, user : Users, pass : Passwords]
NoLogin == [step |-> "none"]
Logins ==
    {NoLogin}
    \cup [step : {"granted", "refused", "failed"}]
    \cup [step : {"domain"}, asked : Credentials]
    \cup [step : {"account"}, asked : Credentials, id : DomainIDs]
    \cup [step : {"verify"}, asked : Credentials, hash : Passwords \cup {NoPassword}]

Answers == {"granted", "refused"}

TypeOK ==
    /\ DirTypeOK
    /\ password \in [AccountIDs -> Passwords \cup {NoPassword}]
    /\ login \in [Clients -> Logins]
    /\ seen \in [Clients -> SUBSET Answers]

Init ==
    /\ DirInit
    /\ password = [a \in AccountIDs |-> NoPassword]
    /\ login = [c \in Clients |-> NoLogin]
    /\ seen = [c \in Clients |-> {}]

\* The account of the credential exists with its password, active and not
\* deleted.
Right(asked) ==
    \E a \in DOMAIN accounts :
        /\ accounts[a].user = asked.user /\ accounts[a].dom \in Named(asked.name)
        /\ ValidateAccount(accounts[a])
        /\ password[a] = asked.pass

\* The answers that the tables justify.  Of a right credential whose domain is
\* switched off or deleted both are: the logins do not ask, Save refuses its mail.
Justified(asked) ==
    (IF Right(asked) THEN {"granted"} ELSE {"refused"})
    \cup (IF \A d \in Named(asked.name) : ValidateDomain(domains[d]) THEN {} ELSE {"refused"})

\* The next step of a login.
Go(c, next) == login' = [login EXCEPT ![c] = next] /\ UNCHANGED <<dirVars, password>>
Answer(c, answer) == Go(c, [step |-> answer])
-----------------------------------------------------------------------------
(* Faulty variants of some definitions stand before them, each with a bug  *)
(* easily made in that code; they are no part of the specification.        *)

\* Authenticate, with a user name and a password that are long enough.
Begin(c, asked) ==
    /\ login[c].step \in {"none", "granted", "refused", "failed"}
    /\ Go(c, [step |-> "domain", asked |-> asked])

\* FindAccountByName, first: FindDomainByName, which sees inactive and deleted
\* domains too.
FindDomain(c) ==
    /\ login[c].step = "domain"
    /\ LET asked == login[c].asked IN
       \/ \E d \in Named(asked.name) : Go(c, [step |-> "account", asked |-> asked, id |-> d])
       \/ Named(asked.name) = {} /\ Answer(c, "refused")
       \/ Answer(c, "failed")

\* Faulty: the user name is no part of the query.
TakeAccountOfAnyUser(c) ==
    /\ login[c].step = "account"
    /\ LET asked == login[c].asked
           found == {a \in DOMAIN accounts :
                        accounts[a].dom = login[c].id /\ ValidateAccount(accounts[a])} IN
       \/ \E a \in found : Go(c, [step |-> "verify", asked |-> asked, hash |-> password[a]])
       \/ found = {} /\ Answer(c, "refused")

\* Faulty: the account's status is no part of the query.
TakeAccountAnyStatus(c) ==
    /\ login[c].step = "account"
    /\ LET asked == login[c].asked
           found == {a \in DOMAIN accounts :
                        accounts[a].user = asked.user /\ accounts[a].dom = login[c].id} IN
       \/ \E a \in found : Go(c, [step |-> "verify", asked |-> asked, hash |-> password[a]])
       \/ found = {} /\ Answer(c, "refused")

\* FindAccountByName, then: the account of that user and domain id, active and
\* not deleted.  An error other than that there is none is not looked at: an
\* account without a hash comes back.
TakeAccount(c) ==
    /\ login[c].step = "account"
    /\ LET asked == login[c].asked
           found == {a \in DOMAIN accounts :
                        /\ accounts[a].user = asked.user /\ accounts[a].dom = login[c].id
                        /\ ValidateAccount(accounts[a])} IN
       \/ \E a \in found : Go(c, [step |-> "verify", asked |-> asked, hash |-> password[a]])
       \/ found = {} /\ Answer(c, "refused")
       \/ Go(c, [step |-> "verify", asked |-> asked, hash |-> NoPassword])

\* VerifyPassword, which takes its time, against the hash that was read.
Verify(c) ==
    /\ login[c].step = "verify"
    /\ Answer(c, CASE login[c].hash = login[c].asked.pass -> "granted"
                    [] login[c].hash = NoPassword -> "failed"
                    [] OTHER -> "refused")

\* EditAccount, one transaction; the quota and the expiry, which nothing reads,
\* are left out.
EditAccount(a, pass) ==
    /\ a \in DOMAIN accounts
    /\ password' = [password EXCEPT ![a] = pass]
    /\ UNCHANGED <<dirVars, login>>

LoginStep(c) ==
    \/ \E asked \in Credentials : Begin(c, asked)
    \/ FindDomain(c) \/ TakeAccount(c) \/ Verify(c)

\* What is noted of login c: nothing of before it began, nor after its answer.
UnderWay == {"domain", "account", "verify"}
Noted(c) ==
    (IF login'[c].step \in Answers \/ {login[c].step, login'[c].step} \subseteq UnderWay
     THEN seen[c] ELSE {})
    \cup (IF login'[c].step \in UnderWay THEN Justified(login[c].asked)' ELSE {})

\* A call of the directory; a new account gets a password, and that of one that
\* is gone is gone.
DirectoryCall ==
    /\ DirNext
    /\ password' \in {[a \in AccountIDs |->
                         IF a \notin DOMAIN accounts' THEN NoPassword
                         ELSE IF a \in DOMAIN accounts THEN password[a] ELSE pass]
                      : pass \in Passwords}
    /\ UNCHANGED login

\* Every step is noted in the history of the logins under way.
Next ==
    /\ \/ DirectoryCall
       \/ \E a \in AccountIDs, pass \in Passwords : EditAccount(a, pass)
       \/ \E c \in Clients : LoginStep(c)
    /\ seen' = [c \in Clients |-> Noted(c)]

Spec == Init /\ [][Next]_vars
-----------------------------------------------------------------------------
(* Properties. *)

\* A login is granted only for a credential that was right at a time when it was
\* under way: not with a password changed, or for an account deleted, switched
\* off or physically removed with its domain, before it began.
GrantWasTrue == \A c \in Clients : login[c].step = "granted" => "granted" \in seen[c]

\* A login that meets no failure is refused only when, at a time when it was
\* under way, its credential was wrong or its domain switched off or deleted:
\* calls that come between its steps and leave the account alone do not make a
\* good password a wrong one.  (One that meets a failure is told the same.)
RefusalWasTrue == \A c \in Clients : login[c].step = "refused" => "refused" \in seen[c]
=============================================================================
