--------------------------- MODULE DovecotSession ---------------------------
(***************************************************************************)
(* One connection of the Dovecot authentication server: Server.Handle of   *)
(* internal/app/service/dovecot/server.go and the Session of session.go,   *)
(* with the trace events it reports, for any number of connections at once.*)
(*                                                                         *)
(* The client (Postfix) writes lines and may hang up at any time; every    *)
(* AUTH line it writes carries a fresh id, here the number of the line.    *)
(* The texts of the lines are abstracted to what Handle distinguishes, the *)
(* credentials to whether the account service can accept them; the error   *)
(* texts are left out.                                                     *)
(***************************************************************************)
EXTENDS Naturals, Sequences, FiniteSets

CONSTANTS Conns,    \* connections
          Users,    \* user names in the credentials
          NoUser,   \* no user yet
          MaxLines  \* bound on the lines a client writes after the handshake

ASSUME SessionAssumption == NoUser \notin Users /\ MaxLines \in Nat

\* However long it runs, the server has met finitely many connections.
ASSUME ConnsAssumption == IsFiniteSet(Conns)

\* The answer to the handshake, in the order of step 2 of Handle.
Greeting == <<"VERSION", "MECH", "SPID", "CUID", "COOKIE", "DONE">>

\* A line the client wrote: fewer than three fields ("junk"), a command other
\* than AUTH ("ignored"), an AUTH with an id and too few arguments ("short"),
\* an AUTH refused for its mechanism, its parameters or its response
\* ("malformed"), or an AUTH with credentials.
Kinds == {"junk", "ignored", "short", "malformed", "creds"}
Lines == [kind : Kinds, user : Users \cup {NoUser}, right : BOOLEAN]

\* A line the server wrote.  sendData adds the id of the session and whatever
\* is in data: here the user that an earlier success left there.  History: to
\* is the number of the line it answers, 0 in the greeting.
Tags    == {Greeting[i] : i \in 1..Len(Greeting)} \cup {"OK", "FAIL"}
Replies == [tag : Tags, id : 0..MaxLines, user : Users \cup {NoUser}, to : 0..MaxLines]

Stages == {"connect", "handshake_ok", "handshake_failed", "auth_attempt",
           "auth_ok", "auth_refused", "disconnect"}

\* What the tracer is told; req is the number of the last line read by then.
Events == [stage : Stages, req : 0..MaxLines]

VARIABLES
    count,     \* Server.count
    hpc,       \* where each handler is
    greeted,   \* number of greeting lines sent
    cuid,      \* the connection id sent to the client
    sid,       \* Session.id; 0 is the empty string
    dataUser,  \* data["user"] of the authorization loop
    asked,     \* the lines read in the authorization loop
    out,       \* the lines written
    lost,      \* an answer could not be sent: the client hears nothing more
    span,      \* the events the tracer took
    dropped    \* history: the tracer did not take an event

sessionVars == <<count, hpc, greeted, cuid, sid, dataUser, asked, out, lost, span, dropped>>

SessionTypeOK ==
    /\ count \in 0..Cardinality(Conns)
    /\ hpc \in [Conns -> {"none", "accepted", "handshake", "greet", "auth", "verify",
                          "granted", "refused", "traceOk", "traceRefused", "close", "ended"}]
    /\ greeted \in [Conns -> 0..Len(Greeting)]
    /\ cuid \in [Conns -> 0..Cardinality(Conns)]
    /\ sid \in [Conns -> 0..MaxLines]
    /\ dataUser \in [Conns -> Users \cup {NoUser}]
    /\ asked \in [Conns -> Seq(Lines)]
    /\ out \in [Conns -> Seq(Replies)]
    /\ span \in [Conns -> Seq(Events)]
    /\ lost \in [Conns -> BOOLEAN] /\ dropped \in [Conns -> BOOLEAN]

SessionInit ==
    /\ count = 0
    /\ hpc = [c \in Conns |-> "none"]
    /\ greeted = [c \in Conns |-> 0]
    /\ cuid = [c \in Conns |-> 0]
    /\ sid = [c \in Conns |-> 0]
    /\ dataUser = [c \in Conns |-> NoUser]
    /\ asked = [c \in Conns |-> <<>>]
    /\ out = [c \in Conns |-> <<>>]
    /\ span = [c \in Conns |-> <<>>]
    /\ lost = [c \in Conns |-> FALSE]
    /\ dropped = [c \in Conns |-> FALSE]

Goto(c, s) == hpc' = [hpc EXCEPT ![c] = s]

\* The number of the last line read, and of the next.
This(c) == Len(asked[c])
Following(c) == Len(asked[c]) + 1

\* The tracer takes an event, or drops it: there may be no tracer, the session
\* may have its number of events, the channel may be full.
Report(c, n, e) ==
    \/ /\ span' = [span EXCEPT ![c] = Append(@, [stage |-> e, req |-> n])]
       /\ UNCHANGED dropped
    \/ /\ dropped' = [dropped EXCEPT ![c] = TRUE]
       /\ UNCHANGED span

Write(c, n, t, i, u) ==
    out' = [out EXCEPT ![c] = Append(@, [tag |-> t, id |-> i, user |-> u, to |-> n])]

\* sendData, whose error nobody looks at.  Without a deadline a write fails
\* only when the connection is gone, and then every later one fails.
Send(c, n, t, i, u) ==
    \/ /\ ~lost[c]
       /\ Write(c, n, t, i, u)
       /\ UNCHANGED lost
    \/ /\ lost' = [lost EXCEPT ![c] = TRUE]
       /\ UNCHANGED out

\* The authorization loop reads line l.
Read(c, l) ==
    /\ hpc[c] = "auth"
    /\ Len(asked[c]) < MaxLines
    /\ asked' = [asked EXCEPT ![c] = Append(@, l)]
Uncredited(kind) == [kind |-> kind, user |-> NoUser, right |-> FALSE]
-----------------------------------------------------------------------------
\* Faulty variants of some definitions stand before them, each with a bug that
\* is easily made in that code; they are no part of the specification.  A
\* property is checked to fail when one of them takes its definition's place.

\* Faulty: the accept loop counts the connection too.
ConnectCounts(c) ==
    /\ hpc[c] = "none"
    /\ Goto(c, "accepted")
    /\ count' = count + 1
    /\ UNCHANGED <<greeted, cuid, sid, dataUser, asked, out, lost, span, dropped>>

\* The accept loop gets the connection and starts the goroutine.
Connect(c) ==
    /\ hpc[c] = "none"
    /\ Goto(c, "accepted")
    /\ UNCHANGED <<count, greeted, cuid, sid, dataUser, asked, out, lost, span, dropped>>

\* Handle starts: the counter, then the span.
Handle(c) ==
    /\ hpc[c] = "accepted"
    /\ count' = count + 1
    /\ Report(c, This(c), "connect")
    /\ Goto(c, "handshake")
    /\ UNCHANGED <<greeted, cuid, sid, dataUser, asked, out, lost>>

\* Faulty: the greeting is left out.
HandshakeSilent(c) ==
    /\ hpc[c] = "handshake"
    /\ Report(c, This(c), "handshake_ok")
    /\ Goto(c, "auth")
    /\ UNCHANGED <<count, greeted, cuid, sid, dataUser, asked, out, lost>>

\* CPID is the only line the handshake needs.  A VERSION 1 and unknown commands
\* are read and change nothing.
Handshake(c) ==
    /\ hpc[c] = "handshake"
    /\ Report(c, This(c), "handshake_ok")
    /\ Goto(c, "greet")
    /\ UNCHANGED <<count, greeted, cuid, sid, dataUser, asked, out, lost>>

\* A line without a tab, another version or a read error ends Handle at once;
\* the end of the input is reported first.
HandshakeFails(c) ==
    /\ hpc[c] = "handshake"
    /\ \/ UNCHANGED <<span, dropped>>
       \/ Report(c, This(c), "handshake_failed")
    /\ Goto(c, "close")
    /\ UNCHANGED <<count, greeted, cuid, sid, dataUser, asked, out, lost>>

\* The next line of the greeting; CUID carries what the counter is by then (a
\* plain load of the 64-bit counter that other handlers add to atomically).
Greet(c) ==
    /\ hpc[c] = "greet"
    /\ LET line == Greeting[greeted[c] + 1] IN
       /\ Write(c, 0, line, 0, NoUser)
       /\ cuid' = IF line = "CUID" THEN [cuid EXCEPT ![c] = count] ELSE cuid
       /\ Goto(c, IF line = "DONE" THEN "auth" ELSE "greet")
    /\ greeted' = [greeted EXCEPT ![c] = @ + 1]
    /\ UNCHANGED <<count, sid, dataUser, asked, lost, span, dropped>>

\* A greeting line cannot be sent.
GreetFails(c) ==
    /\ hpc[c] = "greet"
    /\ Goto(c, "close")
    /\ UNCHANGED <<count, greeted, cuid, sid, dataUser, asked, out, lost, span, dropped>>

\* A line with too few fields, or an AUTH with too few arguments, is answered
\* with the id of the AUTH before: the latter has one of its own, but the number
\* of arguments is checked first.
Junk(c, kind) ==
    /\ Read(c, Uncredited(kind))
    /\ Send(c, Following(c), "FAIL", sid[c], dataUser[c])
    /\ UNCHANGED <<count, hpc, greeted, cuid, sid, dataUser, span, dropped>>

\* Any other command is read and gets no answer.
Ignore(c) ==
    /\ Read(c, Uncredited("ignored"))
    /\ UNCHANGED <<count, hpc, greeted, cuid, sid, dataUser, out, lost, span, dropped>>

\* An AUTH line takes over the session's id before anything else is checked.
Malformed(c) ==
    /\ Read(c, Uncredited("malformed"))
    /\ sid' = [sid EXCEPT ![c] = Following(c)]
    /\ Send(c, Following(c), "FAIL", Following(c), dataUser[c])
    /\ UNCHANGED <<count, hpc, greeted, cuid, dataUser, span, dropped>>

\* Faulty: the session keeps the id of the request before.
AttemptOldId(c, u, right) ==
    /\ Read(c, [kind |-> "creds", user |-> u, right |-> right])
    /\ Report(c, Following(c), "auth_attempt")
    /\ Goto(c, "verify")
    /\ UNCHANGED <<count, greeted, cuid, sid, dataUser, out, lost>>

\* An AUTH line with credentials, up to the call of Authenticate.
Attempt(c, u, right) ==
    /\ Read(c, [kind |-> "creds", user |-> u, right |-> right])
    /\ sid' = [sid EXCEPT ![c] = Following(c)]
    /\ Report(c, Following(c), "auth_attempt")
    /\ Goto(c, "verify")
    /\ UNCHANGED <<count, greeted, cuid, dataUser, out, lost>>

Asking(c) == asked[c][Len(asked[c])]

\* Authenticate refuses a name or a password that is too short, an unknown or
\* disabled account, a wrong password, and whatever the database refuses; it
\* accepts only credentials that are right.
Authenticate(c) ==
    /\ hpc[c] = "verify"
    /\ \/ Goto(c, "refused")
       \/ Asking(c).right /\ Goto(c, "granted")
    /\ UNCHANGED <<count, greeted, cuid, sid, dataUser, asked, out, lost, span, dropped>>

\* The user is in data from here on, whether or not the OK can be sent.
AnswerOk(c) ==
    /\ hpc[c] = "granted"
    /\ dataUser' = [dataUser EXCEPT ![c] = Asking(c).user]
    /\ Send(c, This(c), "OK", sid[c], Asking(c).user)
    /\ Goto(c, "traceOk")
    /\ UNCHANGED <<count, greeted, cuid, sid, asked, span, dropped>>

\* Faulty: a refusal ends the loop.
AnswerFailReturns(c) ==
    /\ hpc[c] = "refused"
    /\ Send(c, This(c), "FAIL", sid[c], dataUser[c])
    /\ Goto(c, "close")
    /\ UNCHANGED <<count, greeted, cuid, sid, dataUser, asked, span, dropped>>

AnswerFail(c) ==
    /\ hpc[c] = "refused"
    /\ Send(c, This(c), "FAIL", sid[c], dataUser[c])
    /\ Goto(c, "traceRefused")
    /\ UNCHANGED <<count, greeted, cuid, sid, dataUser, asked, span, dropped>>

\* Faulty: a refused request is tried again after it was answered.
TraceResultRetries(c) ==
    /\ hpc[c] \in {"traceOk", "traceRefused"}
    /\ Report(c, This(c), IF hpc[c] = "traceOk" THEN "auth_ok" ELSE "auth_refused")
    /\ Goto(c, IF hpc[c] = "traceOk" THEN "auth" ELSE "verify")
    /\ UNCHANGED <<count, greeted, cuid, sid, dataUser, asked, out, lost>>

\* Faulty: every result is traced as a success.
TraceResultAlwaysOk(c) ==
    /\ hpc[c] \in {"traceOk", "traceRefused"}
    /\ Report(c, This(c), "auth_ok")
    /\ Goto(c, "auth")
    /\ UNCHANGED <<count, greeted, cuid, sid, dataUser, asked, out, lost>>

\* The result is traced after sendData, whatever became of the answer.
TraceResult(c) ==
    /\ hpc[c] \in {"traceOk", "traceRefused"}
    /\ Report(c, This(c), IF hpc[c] = "traceOk" THEN "auth_ok" ELSE "auth_refused")
    /\ Goto(c, "auth")
    /\ UNCHANGED <<count, greeted, cuid, sid, dataUser, asked, out, lost>>

\* The client hangs up, or reading fails; there is no deadline.
HangUp(c) ==
    /\ hpc[c] = "auth"
    /\ Goto(c, "close")
    /\ UNCHANGED <<count, greeted, cuid, sid, dataUser, asked, out, lost, span, dropped>>

\* The deferred calls: the connection is closed, then the span is ended.
Disconnect(c) ==
    /\ hpc[c] = "close"
    /\ Report(c, This(c), "disconnect")
    /\ Goto(c, "ended")
    /\ UNCHANGED <<count, greeted, cuid, sid, dataUser, asked, out, lost>>
-----------------------------------------------------------------------------
ClientLine(c) == \/ Handshake(c) \/ HandshakeFails(c)
                 \/ \E kind \in {"junk", "short"} : Junk(c, kind)
                 \/ Ignore(c) \/ Malformed(c)
                 \/ \E u \in Users, right \in BOOLEAN : Attempt(c, u, right)
                 \/ HangUp(c)

ServerStep(c) == \/ Handle(c) \/ Greet(c) \/ GreetFails(c)
                 \/ Authenticate(c) \/ AnswerOk(c) \/ AnswerFail(c) \/ TraceResult(c)
                 \/ Disconnect(c)

SessionNext == \E c \in Conns : Connect(c) \/ ClientLine(c) \/ ServerStep(c)

SessionSpec == SessionInit /\ [][SessionNext]_sessionVars

\* A handler goes on unless it waits for a line: Authenticate's queries come
\* back, and so do the writes, which have no deadline and wait for a client
\* that does not read.  That clients read, or their connections break, is
\* assumed; nothing obliges them to write or to hang up.
FairSessionSpec == SessionSpec /\ \A c \in Conns : WF_sessionVars(ServerStep(c))
-----------------------------------------------------------------------------
(* Properties. *)

\* What a client reads begins with the greeting in its order, and no answer to
\* an AUTH comes before DONE ("must keep this order", server.go:206).
GreetingFirst ==
    \A c \in Conns : \A i \in 1..Len(out[c]) :
        IF i <= Len(Greeting) THEN out[c][i].tag = Greeting[i]
                              ELSE out[c][i].tag \in {"OK", "FAIL"}

\* An OK names the request it answers: the request of that id had the right
\* credentials of the user the OK names, although the id and the user live in
\* the session and in a map that earlier requests wrote.
OkIsEarned ==
    \A c \in Conns : \A i \in 1..Len(out[c]) :
        LET r == out[c][i] IN
        r.tag = "OK" => /\ r.id \in 1..Len(asked[c])
                        /\ asked[c][r.id].kind = "creds" /\ asked[c][r.id].right
                        /\ asked[c][r.id].user = r.user

\* The answer that is due while a request is worked on.
Owed(c) == IF hpc[c] \in {"verify", "granted", "refused"} THEN 1 ELSE 0

\* Reply r, sent after p, answers line l, its to-th: a line without an id, or
\* whose id is not read, gets the id of the reply before, every FAIL the user
\* that the reply before named.
IsAnswer(l, p, r) ==
    /\ r.tag \in {"OK", "FAIL"}
    /\ r.id = IF l.kind \in {"junk", "short"} THEN p.id ELSE r.to
    /\ r.user = IF r.tag = "OK" THEN l.user ELSE p.user
    /\ r.tag = "OK" => l.kind = "creds" /\ l.right
    /\ l.kind # "ignored"

\* Reply r answers the first line after that of p, among the lines a, that
\* calls for an answer.
Follows(a, p, r) ==
    /\ r.to \in (p.to + 1)..Len(a)
    /\ \A i \in (p.to + 1)..(r.to - 1) : a[i].kind = "ignored"
    /\ IsAnswer(a[r.to], p, r)

\* Every line but the ignored ones gets one answer and in its turn, whatever
\* came before it, as long as the client can be reached: none is skipped,
\* answered twice or overtaken, none is owed but that to the request being
\* worked on, and nothing else is sent.  After a lost answer there is silence.
AnswersInTurn ==
    \A c \in Conns : LET n == Len(out[c]) IN
        /\ \A i \in (Len(Greeting) + 1)..n : Follows(asked[c], out[c][i - 1], out[c][i])
        /\ ~lost[c] /\ asked[c] # <<>> =>
              \A i \in (out[c][n].to + 1)..(Len(asked[c]) - Owed(c)) : asked[c][i].kind = "ignored"

\* The result e in the trace is what the client was told of that request,
\* unless its answer was lost; then it was told nothing.
Result(e) == e.stage \in {"auth_ok", "auth_refused"}
WasTold(e, a, o, isLost) ==
    /\ e.req \in 1..Len(a) /\ a[e.req].kind = "creds"
    /\ e.stage = "auth_ok" => a[e.req].right
    /\ \A i \in 1..Len(o) : o[i].to = e.req => o[i].tag = (IF e.stage = "auth_ok" THEN "OK" ELSE "FAIL")
    /\ isLost \/ \E i \in 1..Len(o) : o[i].to = e.req

\* The trace of a connection never contradicts what its client was told: a
\* result is that of the request's answer and there is one for a request at
\* most, in the order of the requests; nothing comes after the disconnect.  An
\* OK that was sent is in the trace, or is about to be, unless the tracer
\* dropped something.
TraceTellsTheTruth ==
    \A c \in Conns : LET s == span[c] IN
        /\ \A i \in 1..Len(s) :
              /\ Result(s[i]) => /\ WasTold(s[i], asked[c], out[c], lost[c])
                                /\ \A j \in 1..(i - 1) : Result(s[j]) => s[j].req < s[i].req
              /\ s[i].stage = "disconnect" => i = Len(s)
        /\ ~dropped[c] =>
              \A i \in 1..Len(out[c]) : out[c][i].tag = "OK" =>
                 \/ \E j \in 1..Len(s) : s[j] = [stage |-> "auth_ok", req |-> out[c][i].to]
                 \/ hpc[c] = "traceOk" /\ out[c][i].to = Len(asked[c])

\* Whatever the account service says and whether or not the answer can be
\* sent, the handler is done with the credentials and reads on; a refusal does
\* not end the loop.
RequestIsAnswered == \A c \in Conns : (hpc[c] = "verify") ~> (hpc[c] = "auth")
=============================================================================
