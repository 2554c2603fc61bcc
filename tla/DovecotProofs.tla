---------------------------- MODULE DovecotProofs ----------------------------
(***************************************************************************)
(* Proofs about Start, Stop and the accept loops of the Dovecot server and *)
(* about its connections, for any number of connections, users, lines and  *)
(* calls of Start.                                                         *)
(***************************************************************************)
EXTENDS DovecotServer, FiniteSetTheorems, TLAPS

\* A set whose elements are all equal has at most one.
LEMMA AtMostOneElement ==
    ASSUME NEW S, \A x, y \in S : x = y
    PROVE  IsFiniteSet(S) /\ Cardinality(S) <= 1
<1>1. CASE S = {}
  BY <1>1, FS_EmptySet
<1>2. CASE S # {}
  <2>1. PICK x \in S : TRUE
    BY <1>2
  <2>2. S = {x}
    BY <2>1
  <2>3. IsFiniteSet({x}) /\ Cardinality({x}) = 1
    BY FS_Singleton
  <2> QED
    BY <2>2, <2>3
<1> QED
  BY <1>1, <1>2

\* Runs that wait for clients or are about to.
Serving(r) == rpc[r] \in {"loop", "accept"}

\* What the properties need of the types.
ServerTypes ==
    /\ started \in BOOLEAN /\ stopClosed \in BOOLEAN /\ panicked \in BOOLEAN
    /\ starts \in 0..MaxStarts
    /\ rpc \in [Runs -> {"none", "listen", "loop", "accept", "returned"}]
    /\ bound \in SUBSET Runs

\* A serving run holds the address, and nobody else does.
Holds == \A r \in Runs : Serving(r) => bound = {r}

\* Once stopCh is closed no run goes back to Accept: the late client is the
\* one of the run that was in Accept then, and after it nobody is in Accept.
LateOnce ==
    /\ ~stopClosed => late = {}
    /\ \A r \in Runs : stopClosed /\ rpc[r] = "accept" => late = {}
    /\ \A c, d \in late : c = d

\* stopCh is closed by a Stop, a Stop needs a Start.
StopsNeedStarts ==
    /\ started \/ stopClosed => starts >= 1
    /\ started /\ stopClosed => starts >= 2
    /\ panicked => starts >= 2

ServerInv == ServerTypes /\ Holds /\ LateOnce /\ StopsNeedStarts

\* Two runs never serve at once.
LEMMA OneServes ==
    ASSUME Holds, NEW r \in Runs, NEW q \in Runs, Serving(r), Serving(q)
    PROVE  r = q
  BY DEF Holds

\* The invariant holds for a new server.
LEMMA ServerInit == Init => ServerInv
<1> SUFFICES ASSUME Init PROVE ServerInv
  OBVIOUS
<1>1. ServerTypes
  <2>1. starts \in 0..MaxStarts
    BY ServerAssumption DEF Init
  <2>2. rpc \in [Runs -> {"none", "listen", "loop", "accept", "returned"}]
    BY DEF Init
  <2> QED
    BY <2>1, <2>2 DEF Init, ServerTypes
<1>2. Holds /\ LateOnce /\ StopsNeedStarts
  BY DEF Init, Serving, Holds, LateOnce, StopsNeedStarts
<1> QED
  BY <1>1, <1>2 DEF ServerInv

\* Every step of the server and of its handlers keeps the invariant.
LEMMA ServerNext == ServerInv /\ [Next]_vars => ServerInv'
<1> SUFFICES ASSUME ServerInv, [Next]_vars PROVE ServerInv'
  OBVIOUS
<1> USE ServerAssumption DEF ServerInv, Runs
<1>1. CASE Start
  <2>1. starts + 1 \in Runs /\ starts \in Nat
    BY <1>1 DEF Start, ServerTypes
  <2>2. \A r \in Runs : Serving(r)' => Serving(r) /\ rpc'[r] = rpc[r]
    BY <1>1, <2>1 DEF Start, Serving, ServerTypes
  <2> QED
    BY <1>1, <2>1, <2>2 DEF Start, Serving, ServerTypes, Holds, LateOnce, StopsNeedStarts
<1>2. CASE Stop
  BY <1>2 DEF Stop, Serving, ServerTypes, Holds, LateOnce, StopsNeedStarts
<1>3. ASSUME NEW r \in Runs, Listen(r)
      PROVE  ServerInv'
  <2>1. ServerTypes' /\ StopsNeedStarts'
    BY <1>3 DEF Listen, ServerTypes, StopsNeedStarts
  <2>2. Holds'
    <3> SUFFICES ASSUME NEW q \in Runs, Serving(q)' PROVE bound' = {q}
      BY DEF Holds
    <3>1. CASE bound' = {r} /\ bound = {}
      <4>1. ~Serving(q)
        BY <3>1 DEF Holds
      <4> QED
        BY <1>3, <3>1, <4>1 DEF Listen, Serving, ServerTypes
    <3>2. CASE rpc' = [rpc EXCEPT ![r] = "returned"] /\ bound' = bound
      BY <3>2 DEF Holds, Serving, ServerTypes
    <3> QED
      BY <1>3, <3>1, <3>2 DEF Listen
  <2>3. LateOnce'
    BY <1>3 DEF Listen, LateOnce, ServerTypes
  <2> QED
    BY <2>1, <2>2, <2>3
<1>4. ASSUME NEW r \in Runs, Loop(r)
      PROVE  ServerInv'
  BY <1>4 DEF Loop, Serving, ServerTypes, Holds, LateOnce, StopsNeedStarts
<1>5. ASSUME NEW r \in Runs, NEW c \in Conns, Accept(r, c)
      PROVE  ServerInv'
  <2>1. ServerTypes' /\ StopsNeedStarts'
    BY <1>5 DEF Accept, ServerTypes, StopsNeedStarts
  <2>2. Holds'
    BY <1>5 DEF Accept, Serving, ServerTypes, Holds
  <2>3. \A q \in Runs : rpc'[q] # "accept"
    <3> SUFFICES ASSUME NEW q \in Runs, rpc'[q] = "accept" PROVE FALSE
      OBVIOUS
    <3>1. q # r /\ rpc[q] = "accept"
      BY <1>5 DEF Accept, ServerTypes
    <3> QED
      BY <1>5, <3>1, OneServes DEF Accept, Serving
  <2>4. LateOnce'
    BY <1>5, <2>3 DEF Accept, LateOnce
  <2> QED
    BY <2>1, <2>2, <2>4
<1>6. ASSUME NEW r \in Runs, AcceptFails(r)
      PROVE  ServerInv'
  BY <1>6 DEF AcceptFails, Serving, ServerTypes, Holds, LateOnce, StopsNeedStarts
<1>7. ASSUME NEW r \in Runs, CollectListener(r)
      PROVE  ServerInv'
  BY <1>7 DEF CollectListener, Serving, ServerTypes, Holds, LateOnce, StopsNeedStarts
<1>8. CASE Handlers
  BY <1>8 DEF Handlers, serverVars, Serving, ServerTypes, Holds, LateOnce, StopsNeedStarts
<1>9. CASE UNCHANGED vars
  BY <1>9 DEF vars, Serving, ServerTypes, Holds, LateOnce, StopsNeedStarts
<1> QED
  BY <1>1, <1>2, <1>3, <1>4, <1>5, <1>6, <1>7, <1>8, <1>9 DEF Next

\* The invariant holds in every reachable state.
LEMMA ServerInvariant == Spec => []ServerInv
  BY ServerInit, ServerNext, PTL DEF Spec

-----------------------------------------------------------------------------
\* However often Start and Stop are called, one accept loop at a time serves
\* clients, and its listener is the one that holds the address.
THEOREM OneLoopAccepts == Spec => []OneAcceptor
<1>1. ServerInv => OneAcceptor
  <2> SUFFICES ASSUME ServerInv PROVE OneAcceptor
    OBVIOUS
  <2> DEFINE S == {r \in Runs : rpc[r] \in {"loop", "accept"}}
  <2>1. \A r, q \in S : r = q
    BY OneServes DEF ServerInv, Serving
  <2>2. Cardinality(S) <= 1
    BY <2>1, AtMostOneElement
  <2> QED
    BY <2>2 DEF OneAcceptor, ServerInv, Holds, Serving
<1> QED
  BY <1>1, ServerInvariant, PTL

\* After the first Stop the server serves at most one more client, however
\* often it is started again.
THEOREM StoppedServerServesOne == Spec => []OneClientAfterStop
<1>1. ServerInv => OneClientAfterStop
  BY AtMostOneElement DEF ServerInv, LateOnce, OneClientAfterStop
<1> QED
  BY <1>1, ServerInvariant, PTL

\* Only a Stop after a restart closes the closed channel.
THEOREM PanicIsASecondStop == Spec => []PanicNeedsRestart
<1>1. ServerInv => PanicNeedsRestart
  BY DEF ServerInv, StopsNeedStarts, PanicNeedsRestart
<1> QED
  BY <1>1, ServerInvariant, PTL

-----------------------------------------------------------------------------
(* The connections. *)

\* The greeting is six tags of replies.
LEMMA GreetingFacts ==
    /\ Len(Greeting) = 6
    /\ \A i \in 1..6 : Greeting[i] \in Tags
    /\ \A i \in 1..6 : Greeting[i] # "OK"
    /\ \A i \in 1..6 : Greeting[i] = "DONE" <=> i = 6
    /\ "OK" \in Tags /\ "FAIL" \in Tags
  BY DEF Greeting, Tags

\* The types of what a handler works with.
HandlerTypes ==
    /\ hpc \in [Conns -> {"none", "accepted", "handshake", "greet", "auth", "verify",
                          "granted", "refused", "traceOk", "traceRefused", "close", "ended"}]
    /\ greeted \in [Conns -> 0..6]
    /\ sid \in [Conns -> 0..MaxLines]
    /\ dataUser \in [Conns -> Users \cup {NoUser}]
    /\ asked \in [Conns -> Seq(Lines)]
    /\ out \in [Conns -> Seq(Replies)]
    /\ lost \in [Conns -> BOOLEAN]

\* The lines o a client was sent begin with the greeting; the rest are answers.
Tagged(o) ==
    \A i \in 1..Len(o) : IF i <= 6 THEN o[i].tag = Greeting[i] ELSE o[i].tag \in {"OK", "FAIL"}

\* The reply r is an OK only of a request among a that deserves it.
Deserved(r, a) ==
    r.tag = "OK" => /\ r.id \in 1..Len(a) /\ a[r.id].kind = "creds" /\ a[r.id].right
                    /\ a[r.id].user = r.user
Earned(o, a) == \A i \in 1..Len(o) : Deserved(o[i], a)

\* How much connection c was sent, by the place of its handler.
Place(c) ==
    /\ hpc[c] \in {"none", "accepted", "handshake"} => out[c] = <<>> /\ greeted[c] = 0
    /\ hpc[c] = "greet" => Len(out[c]) = greeted[c] /\ greeted[c] < 6
    /\ hpc[c] \in {"auth", "verify", "granted", "refused", "traceOk", "traceRefused"}
          => Len(out[c]) >= 6
    /\ Len(asked[c]) <= MaxLines

\* The session's id never runs ahead of the requests; while a request is
\* worked on it is that request's.
OwnId(c) ==
    /\ sid[c] <= Len(asked[c])
    /\ hpc[c] \in {"verify", "granted", "refused"} =>
          /\ Len(asked[c]) > 0 /\ sid[c] = Len(asked[c])
          /\ Asking(c).kind = "creds"
    /\ hpc[c] = "granted" => Asking(c).right

Answers(c) == Tagged(out[c]) /\ Earned(out[c], asked[c])

ConnInv(c) == Place(c) /\ OwnId(c) /\ Answers(c)

HandlerInv == HandlerTypes /\ \A c \in Conns : ConnInv(c)

\* A line added to a sequence leaves those before it.
LEMMA AppendFacts ==
    ASSUME NEW S, NEW q \in Seq(S), NEW e \in S
    PROVE  /\ Append(q, e) \in Seq(S)
           /\ Len(q) \in Nat
           /\ Len(Append(q, e)) = Len(q) + 1
           /\ \A i \in 1..Len(q) : Append(q, e)[i] = q[i] /\ q[i] \in S
           /\ Append(q, e)[Len(q) + 1] = e
  OBVIOUS

\* What a reply r must be for the lines o to stay as they should.
LEMMA ReplyKeeps ==
    ASSUME NEW o \in Seq(Replies), NEW a \in Seq(Lines), NEW r \in Replies
    PROVE  /\ /\ Tagged(o)
              /\ IF Len(o) < 6 THEN r.tag = Greeting[Len(o) + 1] ELSE r.tag \in {"OK", "FAIL"}
              => Tagged(Append(o, r))
           /\ Earned(o, a) /\ Deserved(r, a) => Earned(Append(o, r), a)
<1> DEFINE p == Append(o, r)
<1>1. /\ Len(o) \in Nat /\ Len(p) = Len(o) + 1
      /\ \A i \in 1..Len(o) : p[i] = o[i]
      /\ p[Len(o) + 1] = r /\ p \in Seq(Replies)
  BY AppendFacts
<1> HIDE DEF p
<1>2. \A i \in 1..Len(p) : i = Len(o) + 1 \/ i \in 1..Len(o)
  BY <1>1
<1>3. ASSUME Tagged(o),
             IF Len(o) < 6 THEN r.tag = Greeting[Len(o) + 1] ELSE r.tag \in {"OK", "FAIL"}
      PROVE  Tagged(p)
  BY <1>1, <1>2, <1>3 DEF Tagged
<1>4. ASSUME Earned(o, a), Deserved(r, a) PROVE Earned(p, a)
  BY <1>1, <1>2, <1>4 DEF Earned
<1> QED
  BY <1>3, <1>4 DEF p

\* A further request changes nothing about the answers given.
LEMMA RequestKeeps ==
    ASSUME NEW o \in Seq(Replies), NEW a \in Seq(Lines), NEW l \in Lines
    PROVE  Earned(o, a) => Earned(o, Append(a, l))
<1>1. /\ Len(a) \in Nat /\ Len(Append(a, l)) = Len(a) + 1
      /\ \A i \in 1..Len(a) : Append(a, l)[i] = a[i]
  BY AppendFacts
<1> QED
  BY <1>1 DEF Earned, Deserved

-----------------------------------------------------------------------------
\* Nothing of connection c changes that the invariant speaks of.
Alone(c) ==
    /\ hpc'[c] = hpc[c] /\ greeted'[c] = greeted[c] /\ sid'[c] = sid[c]
    /\ asked'[c] = asked[c] /\ out'[c] = out[c] /\ dataUser'[c] = dataUser[c]
    /\ lost'[c] = lost[c]

\* The invariant of a connection survives the steps of the others.
LEMMA AloneKeeps ==
    ASSUME NEW c \in Conns, ConnInv(c), Alone(c)
    PROVE  ConnInv(c)'
  BY DEF ConnInv, Place, OwnId, Answers, Asking, Alone

\* The invariant holds before anybody connects.
LEMMA HandlerInit == SessionInit => HandlerInv
<1> SUFFICES ASSUME SessionInit PROVE HandlerInv
  OBVIOUS
<1>1. HandlerTypes
  <2>1. 0 \in 0..MaxLines /\ 0 \in 0..6
    BY SessionAssumption
  <2>2. asked \in [Conns -> Seq(Lines)] /\ out \in [Conns -> Seq(Replies)]
    BY DEF SessionInit
  <2>3. /\ greeted \in [Conns -> 0..6] /\ sid \in [Conns -> 0..MaxLines]
        /\ dataUser \in [Conns -> Users \cup {NoUser}]
    BY <2>1 DEF SessionInit
  <2>4. lost \in [Conns -> BOOLEAN]
    BY DEF SessionInit
  <2> QED
    BY <2>2, <2>3, <2>4 DEF SessionInit, HandlerTypes
<1>2. ASSUME NEW c \in Conns PROVE ConnInv(c)
  <2>1. hpc[c] = "none" /\ greeted[c] = 0 /\ sid[c] = 0 /\ asked[c] = <<>> /\ out[c] = <<>>
    BY DEF SessionInit
  <2>2. Len(asked[c]) = 0 /\ 0 <= MaxLines
    BY <2>1, SessionAssumption
  <2> QED
    BY <2>1, <2>2 DEF ConnInv, Place, OwnId, Answers, Tagged, Earned
<1> QED
  BY <1>1, <1>2 DEF HandlerInv

\* The steps of connection c that move its handler on without a line.
Quiet(c) ==
    \/ Connect(c) \/ Handle(c) \/ Handshake(c) \/ HandshakeFails(c) \/ GreetFails(c)
    \/ Authenticate(c) \/ TraceResult(c) \/ HangUp(c) \/ Disconnect(c)

\* From where to where they may go.
QuietGoto(c) ==
    \/ hpc[c] \in {"none", "accepted"} /\ hpc'[c] \in {"accepted", "handshake"}
    \/ hpc[c] = "handshake" /\ hpc'[c] = "greet"
    \/ hpc[c] \in {"handshake", "greet", "auth", "close"} /\ hpc'[c] \in {"close", "ended"}
    \/ hpc[c] = "verify" /\ hpc'[c] = "refused"
    \/ hpc[c] = "verify" /\ hpc'[c] = "granted" /\ Asking(c).right
    \/ hpc[c] \in {"traceOk", "traceRefused"} /\ hpc'[c] = "auth"

LEMMA QuietGoes ==
    ASSUME HandlerTypes, NEW c \in Conns, Quiet(c)
    PROVE  QuietGoto(c) /\ hpc' = [hpc EXCEPT ![c] = hpc'[c]]
  BY DEF Quiet, Connect, Handle, Handshake, HandshakeFails, GreetFails, Authenticate,
         TraceResult, HangUp, Disconnect, Goto, QuietGoto, HandlerTypes

\* A step without a line keeps types and the invariant of its connection.
LEMMA QuietStep ==
    ASSUME HandlerTypes, NEW c \in Conns, ConnInv(c), Quiet(c)
    PROVE  HandlerTypes' /\ ConnInv(c)'
<1>1. UNCHANGED <<greeted, sid, dataUser, asked, out, lost>>
  BY DEF Quiet, Connect, Handle, Handshake, HandshakeFails, GreetFails, Authenticate,
         TraceResult, HangUp, Disconnect
<1>2. QuietGoto(c) /\ hpc' = [hpc EXCEPT ![c] = hpc'[c]]
  BY QuietGoes
<1>3. HandlerTypes'
  BY <1>1, <1>2 DEF HandlerTypes, QuietGoto
<1>4. Place(c)'
  <2>1. out[c] = <<>> => Len(out[c]) = 0
    OBVIOUS
  <2> QED
    BY <1>1, <1>2, <2>1 DEF ConnInv, Place, QuietGoto
<1>5. OwnId(c)' /\ Answers(c)'
  BY <1>1, <1>2 DEF ConnInv, OwnId, Answers, QuietGoto, Asking
<1> QED
  BY <1>3, <1>4, <1>5 DEF ConnInv

-----------------------------------------------------------------------------
\* Reply r is sent to connection c, or its answer is lost and c with it.
Sends(c, r) ==
    \/ /\ ~lost[c] /\ ~lost'[c]
       /\ out'[c] = Append(out[c], r) /\ Len(out'[c]) = Len(out[c]) + 1
    \/ lost'[c] /\ out'[c] = out[c]

\* What Write does to the lines of its connection.
LEMMA Written ==
    ASSUME HandlerTypes, NEW c \in Conns, NEW n \in 0..MaxLines, NEW t \in Tags,
           NEW i \in 0..MaxLines, NEW u \in Users \cup {NoUser}, Write(c, n, t, i, u)
    PROVE  /\ [tag |-> t, id |-> i, user |-> u, to |-> n] \in Replies
           /\ out[c] \in Seq(Replies) /\ Len(out[c]) \in Nat
           /\ out'[c] = Append(out[c], [tag |-> t, id |-> i, user |-> u, to |-> n])
           /\ Len(out'[c]) = Len(out[c]) + 1
           /\ out' \in [Conns -> Seq(Replies)]
<1>1. [tag |-> t, id |-> i, user |-> u, to |-> n] \in Replies
  BY DEF Replies
<1>2. out[c] \in Seq(Replies)
  BY DEF HandlerTypes
<1>3. /\ Append(out[c], [tag |-> t, id |-> i, user |-> u, to |-> n]) \in Seq(Replies)
      /\ Len(out[c]) \in Nat
      /\ Len(Append(out[c], [tag |-> t, id |-> i, user |-> u, to |-> n])) = Len(out[c]) + 1
  BY <1>1, <1>2, AppendFacts
<1> QED
  BY <1>1, <1>2, <1>3 DEF Write, HandlerTypes

\* What Send does: it writes, or it fails.
LEMMA Sent ==
    ASSUME HandlerTypes, NEW c \in Conns, NEW n \in 0..MaxLines, NEW t \in Tags,
           NEW i \in 0..MaxLines, NEW u \in Users \cup {NoUser}, Send(c, n, t, i, u)
    PROVE  /\ [tag |-> t, id |-> i, user |-> u, to |-> n] \in Replies
           /\ out[c] \in Seq(Replies) /\ Len(out[c]) \in Nat
           /\ Sends(c, [tag |-> t, id |-> i, user |-> u, to |-> n])
           /\ out' \in [Conns -> Seq(Replies)] /\ lost' \in [Conns -> BOOLEAN]
<1>1. [tag |-> t, id |-> i, user |-> u, to |-> n] \in Replies
  BY DEF Replies
<1>2. out[c] \in Seq(Replies) /\ Len(out[c]) \in Nat
  BY DEF HandlerTypes
<1>3. CASE ~lost[c] /\ Write(c, n, t, i, u) /\ UNCHANGED lost
  BY <1>1, <1>2, <1>3, Written DEF Sends, HandlerTypes
<1>4. CASE lost' = [lost EXCEPT ![c] = TRUE] /\ UNCHANGED out
  BY <1>1, <1>2, <1>4 DEF Sends, HandlerTypes
<1> QED
  BY <1>3, <1>4 DEF Send

\* What the arrival of a line does to the lines read.
LEMMA Arrived ==
    ASSUME HandlerTypes, NEW c \in Conns, NEW l \in Lines, Read(c, l)
    PROVE  /\ hpc[c] = "auth"
           /\ asked[c] \in Seq(Lines) /\ Len(asked[c]) \in Nat
           /\ Len(asked[c]) + 1 \in 0..MaxLines
           /\ asked'[c] = Append(asked[c], l)
           /\ Len(asked'[c]) = Len(asked[c]) + 1
           /\ asked'[c][Len(asked[c]) + 1] = l
           /\ asked'[c] \in Seq(Lines)
           /\ asked' \in [Conns -> Seq(Lines)]
<1>1. asked[c] \in Seq(Lines)
  BY DEF HandlerTypes
<1>2. /\ Append(asked[c], l) \in Seq(Lines) /\ Len(asked[c]) \in Nat
      /\ Len(Append(asked[c], l)) = Len(asked[c]) + 1
      /\ Append(asked[c], l)[Len(asked[c]) + 1] = l
  BY <1>1, AppendFacts
<1>3. asked'[c] = Append(asked[c], l)
  BY DEF HandlerTypes, Read
<1> QED
  BY <1>1, <1>2, <1>3, SessionAssumption DEF HandlerTypes, Read

\* A greeting line: the next one, with the empty id.
LEMMA GreetStep ==
    ASSUME HandlerTypes, NEW c \in Conns, ConnInv(c), Greet(c)
    PROVE  HandlerTypes' /\ ConnInv(c)'
<1> DEFINE line == Greeting[greeted[c] + 1]
           r    == [tag |-> line, id |-> 0, user |-> NoUser, to |-> 0]
<1>1. greeted[c] \in 0..5 /\ Len(out[c]) = greeted[c] /\ hpc[c] = "greet"
  BY DEF Greet, ConnInv, Place, HandlerTypes
<1>2. line \in Tags /\ line # "OK" /\ (line = "DONE" <=> greeted[c] = 5)
  BY <1>1, GreetingFacts
<1>3. Write(c, 0, line, 0, NoUser)
  BY DEF Greet
<1>4. 0 \in 0..MaxLines /\ NoUser \in Users \cup {NoUser}
  BY SessionAssumption
<1>5. /\ r \in Replies /\ out[c] \in Seq(Replies)
      /\ out'[c] = Append(out[c], r) /\ Len(out'[c]) = Len(out[c]) + 1
      /\ out' \in [Conns -> Seq(Replies)]
  BY <1>2, <1>3, <1>4, Written
<1>6. /\ hpc'[c] = IF line = "DONE" THEN "auth" ELSE "greet"
      /\ greeted'[c] = greeted[c] + 1 /\ asked'[c] = asked[c] /\ sid'[c] = sid[c]
  BY DEF Greet, Goto, HandlerTypes
<1>7. asked[c] \in Seq(Lines) /\ Len(asked[c]) \in Nat
  BY DEF HandlerTypes
<1>8. r.tag = line /\ r.id = 0
  OBVIOUS
<1> HIDE DEF r
<1>9. HandlerTypes'
  <2>1. hpc' = [hpc EXCEPT ![c] = IF line = "DONE" THEN "auth" ELSE "greet"]
    BY DEF Greet, Goto
  <2>2. greeted' = [greeted EXCEPT ![c] = greeted[c] + 1] /\ UNCHANGED <<sid, dataUser, asked, lost>>
    BY DEF Greet
  <2> HIDE DEF line
  <2> QED
    BY <1>1, <1>5, <2>1, <2>2 DEF HandlerTypes
<1>10. Place(c)'
  BY <1>1, <1>2, <1>5, <1>6 DEF ConnInv, Place
<1>11. Answers(c)'
  <2>1. Deserved(r, asked[c])
    BY <1>2, <1>8 DEF Deserved
  <2>2. IF Len(out[c]) < 6 THEN r.tag = Greeting[Len(out[c]) + 1] ELSE r.tag \in {"OK", "FAIL"}
    BY <1>1, <1>8
  <2> QED
    BY <1>2, <1>5, <1>6, <1>7, <1>8, <2>1, <2>2, ReplyKeeps DEF ConnInv, Answers
<1>12. OwnId(c)'
  BY <1>6 DEF ConnInv, OwnId
<1> QED
  BY <1>9, <1>10, <1>11, <1>12 DEF ConnInv

-----------------------------------------------------------------------------
\* Line l is refused at once, with id i.
Refuses(c, l, i) ==
    /\ Read(c, l)
    /\ l.kind \in {"junk", "short", "malformed"}
    /\ i = IF l.kind = "malformed" THEN Len(asked[c]) + 1 ELSE sid[c]
    /\ sid' = [sid EXCEPT ![c] = i]
    /\ Send(c, Len(asked[c]) + 1, "FAIL", i, dataUser[c])
    /\ UNCHANGED <<hpc, greeted, dataUser, span, dropped>>

Refusal(c) == (\E kind \in {"junk", "short"} : Junk(c, kind)) \/ Malformed(c)

\* Junk is refused with the session's id, a malformed AUTH with its own.
LEMMA Refused ==
    ASSUME HandlerTypes, NEW c \in Conns, Refusal(c)
    PROVE  \E l \in Lines, i \in 0..MaxLines : Refuses(c, l, i)
<1>1. ASSUME NEW kind \in {"junk", "short"}, Junk(c, kind)
      PROVE  \E l \in Lines, i \in 0..MaxLines : Refuses(c, l, i)
  <2> DEFINE l == [kind |-> kind, user |-> NoUser, right |-> FALSE]
  <2>1. l \in Lines /\ l.kind = kind
    BY DEF Lines, Kinds
  <2>2. /\ Read(c, l) /\ Send(c, Len(asked[c]) + 1, "FAIL", sid[c], dataUser[c])
        /\ UNCHANGED <<hpc, greeted, sid, dataUser, span, dropped>>
    BY <1>1 DEF Junk, Uncredited, Following
  <2>3. sid[c] \in 0..MaxLines /\ sid = [sid EXCEPT ![c] = sid[c]]
    BY DEF HandlerTypes
  <2> HIDE DEF l
  <2>4. Refuses(c, l, sid[c])
    BY <2>1, <2>2, <2>3 DEF Refuses
  <2> QED
    BY <2>1, <2>3, <2>4
<1>2. CASE Malformed(c)
  <2> DEFINE l == [kind |-> "malformed", user |-> NoUser, right |-> FALSE]
             n == Len(asked[c]) + 1
  <2>1. l \in Lines /\ l.kind = "malformed"
    BY DEF Lines, Kinds
  <2>2. /\ Read(c, l) /\ Send(c, n, "FAIL", n, dataUser[c]) /\ sid' = [sid EXCEPT ![c] = n]
        /\ UNCHANGED <<hpc, greeted, dataUser, span, dropped>>
    BY <1>2 DEF Malformed, Uncredited, Following
  <2> HIDE DEF l
  <2>3. n \in 0..MaxLines
    BY <2>1, <2>2, Arrived
  <2>4. Refuses(c, l, n)
    BY <2>1, <2>2 DEF Refuses
  <2> QED
    BY <2>1, <2>3, <2>4
<1> QED
  BY <1>1, <1>2 DEF Refusal

\* What Refuses does to the lines of both sides.
LEMMA RefusesFacts ==
    ASSUME HandlerTypes, NEW c \in Conns, NEW l \in Lines, NEW i \in 0..MaxLines, Refuses(c, l, i)
    PROVE  /\ [tag |-> "FAIL", id |-> i, user |-> dataUser[c], to |-> Len(asked[c]) + 1] \in Replies
           /\ out[c] \in Seq(Replies) /\ Len(out[c]) \in Nat
           /\ Sends(c, [tag |-> "FAIL", id |-> i, user |-> dataUser[c], to |-> Len(asked[c]) + 1])
           /\ out' \in [Conns -> Seq(Replies)] /\ lost' \in [Conns -> BOOLEAN]
<1>1. Len(asked[c]) + 1 \in 0..MaxLines
  BY Arrived DEF Refuses
<1>2. "FAIL" \in Tags /\ dataUser[c] \in Users \cup {NoUser}
  BY GreetingFacts DEF HandlerTypes
<1> QED
  BY <1>1, <1>2, Sent DEF Refuses

\* A line that is refused at once keeps types and invariant.
LEMMA RefusedLine ==
    ASSUME HandlerTypes, NEW c \in Conns, ConnInv(c), Refusal(c)
    PROVE  HandlerTypes' /\ ConnInv(c)'
<1>1. PICK l \in Lines, i \in 0..MaxLines : Refuses(c, l, i)
  BY Refused
<1>2. UNCHANGED <<hpc, greeted, dataUser>> /\ sid' = [sid EXCEPT ![c] = i]
  BY <1>1 DEF Refuses
<1>3. /\ hpc[c] = "auth"
      /\ asked[c] \in Seq(Lines) /\ Len(asked[c]) \in Nat /\ Len(asked[c]) + 1 \in 0..MaxLines
      /\ asked'[c] = Append(asked[c], l) /\ Len(asked'[c]) = Len(asked[c]) + 1
      /\ asked'[c] \in Seq(Lines)
      /\ asked' \in [Conns -> Seq(Lines)]
  BY <1>1, Arrived DEF Refuses
<1> DEFINE r == [tag |-> "FAIL", id |-> i, user |-> dataUser[c], to |-> Len(asked[c]) + 1]
<1>4. /\ r \in Replies /\ out[c] \in Seq(Replies) /\ Len(out[c]) \in Nat /\ Sends(c, r)
      /\ out' \in [Conns -> Seq(Replies)] /\ lost' \in [Conns -> BOOLEAN]
  BY <1>1, RefusesFacts
<1>5. sid' \in [Conns -> 0..MaxLines] /\ sid'[c] <= Len(asked[c]) + 1
  <2>1. sid[c] \in Nat /\ sid[c] <= Len(asked[c])
    BY SessionAssumption DEF HandlerTypes, ConnInv, OwnId
  <2>2. i <= Len(asked[c]) + 1
    BY <1>1, <1>3, <2>1 DEF Refuses
  <2> QED
    BY <1>2, <2>2 DEF HandlerTypes
<1>6. r.tag = "FAIL"
  OBVIOUS
<1> HIDE DEF r
<1>7. HandlerTypes'
  BY <1>2, <1>3, <1>4, <1>5 DEF HandlerTypes
<1>8. Len(out[c]) >= 6
  BY <1>3 DEF ConnInv, Place
<1>9. Place(c)'
  BY <1>2, <1>3, <1>4, <1>8 DEF Place, Sends
<1>10. Answers(c)'
  <2>1. Tagged(out[c]) /\ Earned(out[c], asked'[c])
    BY <1>3, <1>4, RequestKeeps DEF ConnInv, Answers
  <2>2. Deserved(r, asked'[c])
    BY <1>6 DEF Deserved
  <2>3. IF Len(out[c]) < 6 THEN r.tag = Greeting[Len(out[c]) + 1] ELSE r.tag \in {"OK", "FAIL"}
    BY <1>4, <1>6, <1>8
  <2>4. Tagged(Append(out[c], r)) /\ Earned(Append(out[c], r), asked'[c])
    BY <1>3, <1>4, <2>1, <2>2, <2>3, ReplyKeeps
  <2> QED
    BY <1>4, <2>1, <2>4 DEF Sends, Answers
<1>11. OwnId(c)'
  BY <1>2, <1>3, <1>5 DEF OwnId
<1> QED
  BY <1>7, <1>9, <1>10, <1>11 DEF ConnInv

\* An ignored line is a line.
LEMMA IgnoredLine ==
    ASSUME HandlerTypes, NEW c \in Conns, Ignore(c)
    PROVE  \E l \in Lines : l.kind = "ignored" /\ Read(c, l)
<1> DEFINE l == [kind |-> "ignored", user |-> NoUser, right |-> FALSE]
<1>1. l \in Lines /\ l.kind = "ignored"
  BY DEF Lines, Kinds
<1>2. Read(c, l)
  BY DEF Ignore, Uncredited
<1> QED
  BY <1>1, <1>2

\* It is read and that is all.
LEMMA IgnoreStep ==
    ASSUME HandlerTypes, NEW c \in Conns, ConnInv(c), Ignore(c)
    PROVE  HandlerTypes' /\ ConnInv(c)'
<1>1. PICK l \in Lines : Read(c, l)
  BY IgnoredLine
<1>2. UNCHANGED <<hpc, greeted, sid, dataUser, out, lost>>
  BY DEF Ignore
<1>3. /\ hpc[c] = "auth"
      /\ asked[c] \in Seq(Lines) /\ Len(asked[c]) \in Nat /\ Len(asked[c]) + 1 \in 0..MaxLines
      /\ asked'[c] = Append(asked[c], l) /\ Len(asked'[c]) = Len(asked[c]) + 1
      /\ asked' \in [Conns -> Seq(Lines)]
  BY <1>1, Arrived
<1>4. out[c] \in Seq(Replies)
  BY DEF HandlerTypes
<1>5. HandlerTypes'
  BY <1>2, <1>3 DEF HandlerTypes
<1>6. Place(c)'
  BY <1>2, <1>3 DEF ConnInv, Place
<1>7. Answers(c)'
  BY <1>2, <1>3, <1>4, RequestKeeps DEF ConnInv, Answers
<1>8. OwnId(c)'
  <2>1. sid[c] \in Nat /\ sid[c] <= Len(asked[c])
    BY SessionAssumption DEF HandlerTypes, ConnInv, OwnId
  <2> QED
    BY <1>2, <1>3, <2>1 DEF OwnId
<1> QED
  BY <1>5, <1>6, <1>7, <1>8 DEF ConnInv

\* Credentials arrive and become the request the session works on.
LEMMA AttemptStep ==
    ASSUME HandlerTypes, NEW c \in Conns, ConnInv(c),
           NEW u \in Users, NEW right \in BOOLEAN, Attempt(c, u, right)
    PROVE  HandlerTypes' /\ ConnInv(c)'
<1> DEFINE l == [kind |-> "creds", user |-> u, right |-> right]
<1>1. l \in Lines /\ l.kind = "creds"
  BY DEF Lines, Kinds
<1>2. /\ Read(c, l)
      /\ sid' = [sid EXCEPT ![c] = Len(asked[c]) + 1]
      /\ hpc' = [hpc EXCEPT ![c] = "verify"]
      /\ UNCHANGED <<greeted, dataUser, out, lost>>
  BY DEF Attempt, Goto, Following
<1> HIDE DEF l
<1>3. /\ hpc[c] = "auth"
      /\ asked[c] \in Seq(Lines) /\ Len(asked[c]) \in Nat /\ Len(asked[c]) + 1 \in 0..MaxLines
      /\ asked'[c] = Append(asked[c], l) /\ Len(asked'[c]) = Len(asked[c]) + 1
      /\ asked'[c][Len(asked[c]) + 1] = l
      /\ asked' \in [Conns -> Seq(Lines)]
  BY <1>1, <1>2, Arrived
<1>4. out[c] \in Seq(Replies)
  BY DEF HandlerTypes
<1>5. HandlerTypes'
  BY <1>2, <1>3 DEF HandlerTypes
<1>6. Place(c)'
  BY <1>2, <1>3 DEF ConnInv, Place, HandlerTypes
<1>7. Answers(c)'
  BY <1>1, <1>2, <1>3, <1>4, RequestKeeps DEF ConnInv, Answers
<1>8. OwnId(c)'
  <2>1. hpc'[c] = "verify" /\ sid'[c] = Len(asked'[c]) /\ Len(asked'[c]) > 0
    BY <1>2, <1>3 DEF HandlerTypes
  <2>2. Asking(c)'.kind = "creds"
    BY <1>1, <1>3 DEF Asking
  <2> QED
    BY <1>3, <2>1, <2>2 DEF OwnId
<1> QED
  BY <1>5, <1>6, <1>7, <1>8 DEF ConnInv

-----------------------------------------------------------------------------
\* The answer to a request: tag t, which an OK gets by right, with user u.
Replied(c, t, u) ==
    /\ hpc[c] = IF t = "OK" THEN "granted" ELSE "refused"
    /\ hpc' = [hpc EXCEPT ![c] = IF t = "OK" THEN "traceOk" ELSE "traceRefused"]
    /\ u = IF t = "OK" THEN Asking(c).user ELSE dataUser[c]
    /\ t = "OK" => Asking(c).right
    /\ dataUser' = [dataUser EXCEPT ![c] = u]
    /\ Send(c, Len(asked[c]), t, sid[c], u)
    /\ UNCHANGED <<greeted, sid, asked, span, dropped>>

\* While an answer is prepared, the last line is the request it is for.
LEMMA AskingFacts ==
    ASSUME HandlerTypes, NEW c \in Conns, ConnInv(c), hpc[c] \in {"verify", "granted", "refused"}
    PROVE  /\ asked[c] \in Seq(Lines) /\ Len(asked[c]) \in Nat \ {0}
           /\ Len(asked[c]) \in 0..MaxLines /\ sid[c] = Len(asked[c])
           /\ Asking(c) = asked[c][Len(asked[c])] /\ Asking(c) \in Lines
           /\ Asking(c).kind = "creds" /\ Asking(c).user \in Users \cup {NoUser}
           /\ hpc[c] = "granted" => Asking(c).right
<1>1. asked[c] \in Seq(Lines) /\ Len(asked[c]) \in Nat \ {0} /\ sid[c] = Len(asked[c])
  BY DEF HandlerTypes, ConnInv, OwnId
<1>2. Asking(c) = asked[c][Len(asked[c])] /\ Asking(c) \in Lines
  BY <1>1 DEF Asking
<1> QED
  BY <1>1, <1>2, SessionAssumption DEF ConnInv, OwnId, Place, Lines

LEMMA AnswerReplies ==
    ASSUME HandlerTypes, NEW c \in Conns, ConnInv(c), AnswerOk(c) \/ AnswerFail(c)
    PROVE  \E t \in {"OK", "FAIL"}, u \in Users \cup {NoUser} : Replied(c, t, u)
<1>1. dataUser[c] \in Users \cup {NoUser} /\ dataUser = [dataUser EXCEPT ![c] = dataUser[c]]
  BY DEF HandlerTypes
<1>2. CASE AnswerOk(c)
  <2>1. Asking(c).user \in Users \cup {NoUser} /\ Asking(c).right
    BY <1>2, AskingFacts DEF AnswerOk
  <2>2. Replied(c, "OK", Asking(c).user)
    BY <1>2, <2>1 DEF AnswerOk, Replied, Goto, This
  <2> QED
    BY <2>1, <2>2
<1>3. CASE AnswerFail(c)
  <2>1. Replied(c, "FAIL", dataUser[c])
    BY <1>1, <1>3 DEF AnswerFail, Replied, Goto, This
  <2> QED
    BY <1>1, <2>1
<1> QED
  BY <1>2, <1>3

LEMMA RepliedFacts ==
    ASSUME HandlerTypes, NEW c \in Conns, ConnInv(c),
           NEW t \in {"OK", "FAIL"}, NEW u \in Users \cup {NoUser}, Replied(c, t, u)
    PROVE  /\ [tag |-> t, id |-> sid[c], user |-> u, to |-> Len(asked[c])] \in Replies
           /\ out[c] \in Seq(Replies) /\ Len(out[c]) \in Nat
           /\ Sends(c, [tag |-> t, id |-> sid[c], user |-> u, to |-> Len(asked[c])])
           /\ out' \in [Conns -> Seq(Replies)] /\ lost' \in [Conns -> BOOLEAN]
<1>1. t \in Tags /\ sid[c] \in 0..MaxLines
  BY GreetingFacts DEF HandlerTypes
<1>2. Len(asked[c]) \in 0..MaxLines
  BY AskingFacts DEF Replied
<1> QED
  BY <1>1, <1>2, Sent DEF Replied

\* The answer to a request carries its id, and an OK its user.
LEMMA AnswerStep ==
    ASSUME HandlerTypes, NEW c \in Conns, ConnInv(c), AnswerOk(c) \/ AnswerFail(c)
    PROVE  HandlerTypes' /\ ConnInv(c)'
<1>1. PICK t \in {"OK", "FAIL"}, u \in Users \cup {NoUser} : Replied(c, t, u)
  BY AnswerReplies
<1>2. /\ hpc[c] \in {"granted", "refused"}
      /\ UNCHANGED <<greeted, sid, asked>> /\ dataUser' = [dataUser EXCEPT ![c] = u]
      /\ hpc' = [hpc EXCEPT ![c] = IF t = "OK" THEN "traceOk" ELSE "traceRefused"]
  BY <1>1 DEF Replied
<1>3. /\ asked[c] \in Seq(Lines) /\ Len(asked[c]) \in Nat \ {0} /\ sid[c] = Len(asked[c])
      /\ Asking(c) = asked[c][Len(asked[c])] /\ Asking(c).kind = "creds"
  BY <1>2, AskingFacts
<1> DEFINE r == [tag |-> t, id |-> sid[c], user |-> u, to |-> Len(asked[c])]
<1>4. /\ r \in Replies /\ out[c] \in Seq(Replies) /\ Len(out[c]) \in Nat /\ Sends(c, r)
      /\ out' \in [Conns -> Seq(Replies)] /\ lost' \in [Conns -> BOOLEAN]
  BY <1>1, RepliedFacts
<1>5. r.tag = t /\ r.id = Len(asked[c]) /\ r.user = u
  BY <1>3
<1> HIDE DEF r
<1>6. HandlerTypes'
  BY <1>2, <1>4 DEF HandlerTypes
<1>7. hpc'[c] \in {"traceOk", "traceRefused"} /\ Len(out[c]) >= 6
  BY <1>2 DEF HandlerTypes, ConnInv, Place
<1>8. Place(c)'
  BY <1>2, <1>4, <1>7 DEF ConnInv, Place, Sends
<1>9. Answers(c)'
  <2>1. Deserved(r, asked[c])
    BY <1>1, <1>3, <1>5 DEF Deserved, Replied
  <2>2. IF Len(out[c]) < 6 THEN r.tag = Greeting[Len(out[c]) + 1] ELSE r.tag \in {"OK", "FAIL"}
    BY <1>4, <1>5, <1>7
  <2>3. Tagged(out[c]) /\ Earned(out[c], asked[c])
    BY DEF ConnInv, Answers
  <2>4. Tagged(Append(out[c], r)) /\ Earned(Append(out[c], r), asked[c])
    BY <1>3, <1>4, <2>1, <2>2, <2>3, ReplyKeeps
  <2> QED
    BY <1>2, <1>4, <2>3, <2>4 DEF Sends, Answers
<1>10. OwnId(c)'
  BY <1>2, <1>3, <1>7 DEF OwnId
<1> QED
  BY <1>6, <1>8, <1>9, <1>10 DEF ConnInv

-----------------------------------------------------------------------------
\* The kinds of steps of connection c.
LEMMA StepKinds ==
    ASSUME NEW c \in Conns, Connect(c) \/ ClientLine(c) \/ ServerStep(c)
    PROVE  \/ Quiet(c) \/ Greet(c) \/ Refusal(c) \/ Ignore(c)
           \/ \E u \in Users, right \in BOOLEAN : Attempt(c, u, right)
           \/ AnswerOk(c) \/ AnswerFail(c)
  BY DEF ClientLine, ServerStep, Quiet, Refusal

\* A step of connection c leaves every other connection alone.
LEMMA OthersAlone ==
    ASSUME HandlerTypes, NEW c \in Conns, NEW d \in Conns, d # c,
           Connect(c) \/ ClientLine(c) \/ ServerStep(c)
    PROVE  Alone(d)
<1> USE DEF Alone, Goto, Write, Send, Read, HandlerTypes
<1>1. CASE Quiet(c)
  BY <1>1 DEF Quiet, Connect, Handle, Handshake, HandshakeFails, GreetFails, Authenticate,
              TraceResult, HangUp, Disconnect
<1>2. CASE Greet(c)
  BY <1>2 DEF Greet
<1>3. CASE Refusal(c)
  <2>1. ASSUME NEW kind \in {"junk", "short"}, Junk(c, kind) PROVE Alone(d)
    BY <2>1 DEF Junk
  <2>2. CASE Malformed(c)
    BY <2>2 DEF Malformed
  <2> QED
    BY <1>3, <2>1, <2>2 DEF Refusal
<1>4. CASE Ignore(c)
  BY <1>4 DEF Ignore
<1>5. ASSUME NEW u \in Users, NEW right \in BOOLEAN, Attempt(c, u, right) PROVE Alone(d)
  BY <1>5 DEF Attempt
<1>6. CASE AnswerOk(c) \/ AnswerFail(c)
  BY <1>6 DEF AnswerOk, AnswerFail
<1> QED
  BY <1>1, <1>2, <1>3, <1>4, <1>5, <1>6, StepKinds

\* Every step of any connection keeps the invariant.
LEMMA HandlerNext == HandlerInv /\ [SessionNext]_sessionVars => HandlerInv'
<1> SUFFICES ASSUME HandlerInv, [SessionNext]_sessionVars PROVE HandlerInv'
  OBVIOUS
<1>1. ASSUME NEW c \in Conns, Connect(c) \/ ClientLine(c) \/ ServerStep(c)
      PROVE  HandlerInv'
  <2>1. HandlerTypes /\ ConnInv(c)
    BY DEF HandlerInv
  <2>2. HandlerTypes' /\ ConnInv(c)'
    <3>1. CASE Quiet(c)
      BY <2>1, <3>1, QuietStep
    <3>2. CASE Greet(c)
      BY <2>1, <3>2, GreetStep
    <3>3. CASE Refusal(c)
      BY <2>1, <3>3, RefusedLine
    <3>4. CASE Ignore(c)
      BY <2>1, <3>4, IgnoreStep
    <3>5. ASSUME NEW u \in Users, NEW right \in BOOLEAN, Attempt(c, u, right)
          PROVE  HandlerTypes' /\ ConnInv(c)'
      BY <2>1, <3>5, AttemptStep
    <3>6. CASE AnswerOk(c) \/ AnswerFail(c)
      BY <2>1, <3>6, AnswerStep
    <3> QED
      BY <1>1, <3>1, <3>2, <3>3, <3>4, <3>5, <3>6, StepKinds
  <2>3. ASSUME NEW d \in Conns, d # c PROVE ConnInv(d)'
    <3>1. ConnInv(d) /\ Alone(d)
      BY <1>1, <2>1, <2>3, OthersAlone DEF HandlerInv
    <3> QED
      BY <3>1, AloneKeeps
  <2> QED
    BY <2>2, <2>3 DEF HandlerInv
<1>2. CASE UNCHANGED sessionVars
  <2>1. HandlerTypes' /\ \A d \in Conns : Alone(d)
    BY <1>2 DEF HandlerInv, HandlerTypes, Alone, sessionVars
  <2> QED
    BY <2>1, AloneKeeps DEF HandlerInv
<1> QED
  BY <1>1, <1>2 DEF SessionNext

\* The invariant holds in every reachable state.
LEMMA HandlerInvariant == SessionSpec => []HandlerInv
  BY HandlerInit, HandlerNext, PTL DEF SessionSpec

\* Every client reads the whole greeting in its order before any answer.
THEOREM GreetingComesFirst == SessionSpec => []GreetingFirst
<1>1. HandlerInv => GreetingFirst
  BY GreetingFacts DEF HandlerInv, ConnInv, Answers, Tagged, GreetingFirst
<1> QED
  BY <1>1, HandlerInvariant, PTL

\* An OK with id i for user u is sent only if request i carried the right
\* credentials of u.
THEOREM EveryOkIsEarned == SessionSpec => []OkIsEarned
<1>1. HandlerInv => OkIsEarned
  BY DEF HandlerInv, ConnInv, Answers, Earned, Deserved, OkIsEarned
<1> QED
  BY <1>1, HandlerInvariant, PTL

-----------------------------------------------------------------------------
(* The answers, each in its turn. *)

\* Every answer in o is the one that follows the answer before it, given the
\* lines a.
InTurn(a, o) == \A i \in 7..Len(o) : Follows(a, o[i - 1], o[i])

\* The lines after the n-th, up to the m-th, call for no answer.
Silent(a, n, m) == \A i \in (n + 1)..m : a[i].kind = "ignored"

\* A handler that reads no line yet, that reads lines, that works on a request.
Before == {"none", "accepted", "handshake", "greet"}
AtWork == {"auth", "verify", "granted", "refused", "traceOk", "traceRefused"}
Busy   == {"verify", "granted", "refused"}

Last(o) == o[Len(o)]

\* The session's id and user are those of the last reply, but for the id of the
\* request that is worked on, until an answer is lost; before the first line
\* there is neither.
Remembers(c) ==
    /\ hpc[c] \in Before => sid[c] = 0 /\ dataUser[c] = NoUser
    /\ ~lost[c] /\ hpc[c] \in AtWork \ Busy => sid[c] = Last(out[c]).id
    /\ ~lost[c] /\ hpc[c] \in AtWork => dataUser[c] = Last(out[c]).user

\* Connection c has got what it asked for, in its turn.
Turn(c) ==
    /\ hpc[c] \in Before => asked[c] = <<>>
    /\ asked[c] # <<>> => Len(out[c]) >= 6
    /\ InTurn(asked[c], out[c])
    /\ \A i \in 1..Len(out[c]) : out[c][i].to <= Len(asked[c]) - Owed(c)
    /\ ~lost[c] /\ Len(out[c]) >= 6 =>
          Silent(asked[c], Last(out[c]).to, Len(asked[c]) - Owed(c))
    /\ Remembers(c)

TurnInv == \A c \in Conns : Turn(c)

\* The lines that were sent have their type, and so have their numbers.
LEMMA SentFacts ==
    ASSUME NEW o \in Seq(Replies)
    PROVE  /\ Len(o) \in Nat
           /\ \A i \in 1..Len(o) : o[i] \in Replies /\ o[i].to \in Nat
           /\ Len(o) >= 6 => Last(o) \in Replies /\ Last(o).to \in Nat
<1>1. \A r \in Replies : r.to \in Nat
  BY SessionAssumption DEF Replies
<1>2. Len(o) \in Nat /\ \A i \in 1..Len(o) : o[i] \in Replies
  OBVIOUS
<1> QED
  BY <1>1, <1>2 DEF Last

\* A further line disturbs no answer, and neither does the answer that follows.
LEMMA TurnKeeps ==
    ASSUME NEW a \in Seq(Lines), NEW o \in Seq(Replies), InTurn(a, o)
    PROVE  /\ \A l \in Lines : InTurn(Append(a, l), o)
           /\ \A r \in Replies : Len(o) < 6 \/ Follows(a, Last(o), r) => InTurn(a, Append(o, r))
<1>1. Len(a) \in Nat /\ Len(o) \in Nat /\ \A i \in 1..Len(o) : o[i] \in Replies /\ o[i].to \in Nat
  BY SentFacts
<1>2. ASSUME NEW l \in Lines, NEW i \in 7..Len(o) PROVE Follows(Append(a, l), o[i - 1], o[i])
  <2>1. /\ \A j \in 1..Len(a) : Append(a, l)[j] = a[j]
        /\ Len(Append(a, l)) = Len(a) + 1
    BY AppendFacts
  <2> DEFINE p == o[i - 1]
             q == o[i]
  <2>2. Follows(a, p, q) /\ p.to \in Nat /\ q.to \in Nat
    BY <1>1 DEF InTurn
  <2> HIDE DEF p, q
  <2>3. /\ q.to \in (p.to + 1)..Len(a) /\ q.to \in 1..Len(a)
        /\ \A j \in (p.to + 1)..(q.to - 1) : a[j].kind = "ignored" /\ j \in 1..Len(a)
        /\ IsAnswer(a[q.to], p, q)
    BY <1>1, <2>2 DEF Follows
  <2>4. Follows(Append(a, l), p, q)
    BY <1>1, <2>1, <2>2, <2>3 DEF Follows
  <2> QED
    BY <2>4 DEF p, q
<1>3. ASSUME NEW r \in Replies, Len(o) < 6 \/ Follows(a, Last(o), r)
      PROVE  InTurn(a, Append(o, r))
  <2> DEFINE p == Append(o, r)
  <2>1. Len(p) = Len(o) + 1 /\ p[Len(o) + 1] = r /\ \A i \in 1..Len(o) : p[i] = o[i]
    BY AppendFacts
  <2> HIDE DEF p
  <2>2. ASSUME NEW i \in 7..Len(p) PROVE Follows(a, p[i - 1], p[i])
    <3>1. CASE i \in 7..Len(o)
      <4>1. p[i - 1] = o[i - 1] /\ p[i] = o[i]
        BY <1>1, <2>1, <3>1
      <4> QED
        BY <3>1, <4>1 DEF InTurn
    <3>2. CASE i = Len(o) + 1
      <4>1. Len(o) >= 6 /\ p[i - 1] = Last(o) /\ p[i] = r
        BY <1>1, <2>1, <3>2 DEF Last
      <4> QED
        BY <1>3, <4>1
    <3> QED
      BY <1>1, <2>1, <3>1, <3>2
  <2> QED
    BY <2>2 DEF InTurn, p
<1> QED
  BY <1>2, <1>3 DEF InTurn

\* What a new answer to line n must be, if those before it call for none.
LEMMA AnswerFollows ==
    ASSUME NEW a \in Seq(Lines), NEW o \in Seq(Replies), NEW r \in Replies, Len(o) >= 6,
           r.to = Len(a), Last(o).to <= Len(a) - 1,
           Silent(a, Last(o).to, Len(a) - 1), IsAnswer(a[Len(a)], Last(o), r)
    PROVE  Follows(a, Last(o), r)
<1>1. Last(o) \in Replies /\ Last(o).to \in Nat /\ Len(a) \in Nat
  BY SentFacts
<1> DEFINE p == Last(o)
<1> HIDE DEF p
<1>2. p.to \in Nat /\ r.to = Len(a) /\ p.to <= Len(a) - 1 /\ Len(a) \in Nat
  BY <1>1 DEF p
<1>3. r.to \in (p.to + 1)..Len(a)
  BY <1>2
<1>4. \A i \in (p.to + 1)..(r.to - 1) : a[i].kind = "ignored"
  BY <1>2 DEF Silent, p
<1>5. IsAnswer(a[r.to], p, r)
  BY <1>2 DEF p
<1> QED
  BY <1>3, <1>4, <1>5 DEF Follows, p

\* The steps of the others change nothing for connection c.
LEMMA TurnAlone ==
    ASSUME NEW c \in Conns, Turn(c), Alone(c)
    PROVE  Turn(c)'
<1>1. /\ hpc'[c] = hpc[c] /\ sid'[c] = sid[c] /\ dataUser'[c] = dataUser[c]
      /\ asked'[c] = asked[c] /\ out'[c] = out[c] /\ lost'[c] = lost[c]
  BY DEF Alone
<1>2. Owed(c)' = Owed(c)
  BY <1>1 DEF Owed
<1>3. Remembers(c)'
  BY <1>1 DEF Turn, Remembers, Last
<1>4. InTurn(asked[c], out[c])'
  BY <1>1 DEF Turn, InTurn, Follows, IsAnswer
<1>5. ~lost'[c] /\ Len(out'[c]) >= 6 =>
         Silent(asked'[c], Last(out'[c]).to, Len(asked'[c]) - Owed(c)')
  BY <1>1, <1>2 DEF Turn
<1> QED
  BY <1>1, <1>2, <1>3, <1>4, <1>5 DEF Turn, Silent, Last

\* Before anybody connects nothing is asked.
LEMMA TurnInit == SessionInit => TurnInv
<1> SUFFICES ASSUME SessionInit, NEW c \in Conns PROVE Turn(c)
  BY DEF TurnInv
<1>1. /\ hpc[c] = "none" /\ asked[c] = <<>> /\ sid[c] = 0 /\ dataUser[c] = NoUser
      /\ Owed(c) = 0 /\ out[c] = <<>> /\ Len(out[c]) = 0
  BY DEF SessionInit, Owed
<1> QED
  BY <1>1 DEF Turn, Remembers, InTurn, Before, AtWork

\* A step that moves the handler without a line.
LEMMA TurnQuiet ==
    ASSUME HandlerTypes, NEW c \in Conns, ConnInv(c), Turn(c), Quiet(c)
    PROVE  Turn(c)'
<1>1. UNCHANGED <<sid, dataUser, asked, out, lost>>
  BY DEF Quiet, Connect, Handle, Handshake, HandshakeFails, GreetFails, Authenticate,
         TraceResult, HangUp, Disconnect
<1>2. QuietGoto(c)
  BY QuietGoes
<1>3. /\ hpc[c] \in Busy <=> hpc'[c] \in Busy
      /\ hpc'[c] \in Before => hpc[c] \in Before
      /\ hpc'[c] \in AtWork => hpc[c] \in AtWork
  BY <1>2 DEF QuietGoto, Busy, Before, AtWork
<1>4. Owed(c)' = Owed(c)
  BY <1>3 DEF Owed, Busy
<1>5. Remembers(c)'
  BY <1>1, <1>3 DEF Turn, Remembers, Last
<1>6. InTurn(asked[c], out[c])'
  BY <1>1 DEF Turn, InTurn, Follows, IsAnswer
<1>7. ~lost'[c] /\ Len(out'[c]) >= 6 =>
         Silent(asked'[c], Last(out'[c]).to, Len(asked'[c]) - Owed(c)')
  BY <1>1, <1>4 DEF Turn
<1> QED
  BY <1>1, <1>3, <1>4, <1>5, <1>6, <1>7 DEF Turn, Silent, Last

\* The greeting: its lines have the empty id, name nobody and answer no line.
LEMMA TurnGreet ==
    ASSUME HandlerTypes, NEW c \in Conns, ConnInv(c), Turn(c), Greet(c)
    PROVE  Turn(c)'
<1> DEFINE line == Greeting[greeted[c] + 1]
           r    == [tag |-> line, id |-> 0, user |-> NoUser, to |-> 0]
<1>1. greeted[c] \in 0..5 /\ Len(out[c]) = greeted[c] /\ hpc[c] = "greet"
  BY DEF Greet, ConnInv, Place, HandlerTypes
<1>2. line \in Tags /\ (line = "DONE" <=> greeted[c] = 5)
  BY <1>1, GreetingFacts
<1>3. Write(c, 0, line, 0, NoUser)
  BY DEF Greet
<1>4. 0 \in 0..MaxLines /\ NoUser \in Users \cup {NoUser}
  BY SessionAssumption
<1>5. /\ r \in Replies /\ out[c] \in Seq(Replies)
      /\ out'[c] = Append(out[c], r) /\ Len(out'[c]) = Len(out[c]) + 1
  BY <1>2, <1>3, <1>4, Written
<1>6. /\ hpc'[c] = (IF line = "DONE" THEN "auth" ELSE "greet")
      /\ asked'[c] = asked[c] /\ sid'[c] = sid[c] /\ dataUser'[c] = dataUser[c]
  BY DEF Greet, Goto, HandlerTypes
<1>7. asked[c] = <<>> /\ sid[c] = 0 /\ dataUser[c] = NoUser /\ Len(asked[c]) = 0
  BY <1>1 DEF Turn, Remembers, Before
<1>8. r.id = 0 /\ r.user = NoUser /\ r.to = 0
  OBVIOUS
<1>9. /\ Last(out'[c]) = r
      /\ \A i \in 1..Len(out'[c]) : i = Len(out'[c]) \/ i \in 1..Len(out[c])
      /\ \A i \in 1..Len(out[c]) : out'[c][i] = out[c][i]
  BY <1>5, AppendFacts DEF Last
<1> HIDE DEF r, line
<1>10. Owed(c)' = 0 /\ Owed(c) = 0
  BY <1>1, <1>6 DEF Owed
<1>11. Remembers(c)'
  BY <1>6, <1>7, <1>8, <1>9 DEF Remembers, Last, Before, AtWork
<1>12. InTurn(asked[c], out[c])'
  BY <1>1, <1>5, <1>6 DEF InTurn
<1>13. \A i \in 1..Len(out'[c]) : out'[c][i].to <= 0
  <2>1. \A i \in 1..Len(out[c]) : out[c][i].to <= Len(asked[c]) - Owed(c)
    BY DEF Turn
  <2> QED
    BY <1>7, <1>8, <1>9, <1>10, <2>1 DEF Last
<1>14. Silent(asked'[c], Last(out'[c]).to, Len(asked'[c]) - Owed(c)')
  BY <1>6, <1>7, <1>8, <1>9, <1>10 DEF Silent
<1> QED
  BY <1>6, <1>7, <1>10, <1>11, <1>12, <1>13, <1>14 DEF Turn, Silent, Last

\* What is sent to a connection that reads on was sent in its turn.
LEMMA TurnSends ==
    ASSUME NEW c \in Conns, NEW a \in Seq(Lines), NEW r \in Replies, Sends(c, r),
           out[c] \in Seq(Replies), Len(out[c]) >= 6, r.to = Len(a), Len(a) > 0,
           InTurn(a, out[c]), \A i \in 1..Len(out[c]) : out[c][i].to <= Len(a) - 1,
           ~lost[c] => /\ Silent(a, Last(out[c]).to, Len(a) - 1)
                       /\ IsAnswer(a[Len(a)], Last(out[c]), r)
    PROVE  /\ Len(out'[c]) >= 6 /\ InTurn(a, out'[c])
           /\ \A i \in 1..Len(out'[c]) : out'[c][i].to <= Len(a)
           /\ ~lost'[c] => Last(out'[c]) = r /\ Silent(a, r.to, Len(a))
<1>1. Len(a) \in Nat /\ \A i \in 1..Len(out[c]) : out[c][i].to \in Nat
  BY SentFacts
<1>2. CASE lost'[c] /\ out'[c] = out[c]
  BY <1>1, <1>2
<1>3. CASE /\ ~lost[c] /\ out'[c] = Append(out[c], r) /\ Len(out'[c]) = Len(out[c]) + 1
  <2>1. /\ \A i \in 1..Len(out[c]) : out'[c][i] = out[c][i]
        /\ out'[c][Len(out[c]) + 1] = r
    BY <1>3, AppendFacts
  <2>2. Last(out[c]).to <= Len(a) - 1
    BY DEF Last
  <2>3. Follows(a, Last(out[c]), r)
    BY <1>3, <2>2, AnswerFollows
  <2>4. InTurn(a, out'[c])
    BY <1>3, <2>3, TurnKeeps
  <2>5. ASSUME NEW i \in 1..Len(out'[c]) PROVE out'[c][i].to <= Len(a)
    <3>1. CASE i \in 1..Len(out[c])
      <4>1. out[c][i].to \in Nat /\ out[c][i].to <= Len(a) - 1 /\ out'[c][i] = out[c][i]
        BY <1>1, <2>1, <3>1
      <4> QED
        BY <1>1, <4>1
    <3>2. CASE i = Len(out[c]) + 1
      BY <1>1, <2>1, <3>2
    <3> QED
      BY <1>3, <3>1, <3>2
  <2>6. Last(out'[c]) = r /\ Silent(a, r.to, Len(a))
    BY <1>1, <1>3, <2>1 DEF Last, Silent
  <2> QED
    BY <1>3, <2>4, <2>5, <2>6
<1> QED
  BY <1>2, <1>3 DEF Sends

\* What every line that arrives finds.
LEMMA TurnArrived ==
    ASSUME HandlerTypes, NEW c \in Conns, ConnInv(c), Turn(c), NEW l \in Lines, Read(c, l)
    PROVE  /\ Owed(c) = 0 /\ Len(out[c]) >= 6 /\ out[c] \in Seq(Replies)
           /\ InTurn(asked'[c], out[c])
           /\ \A i \in 1..Len(out[c]) : out[c][i].to <= Len(asked[c])
           /\ ~lost[c] => /\ Silent(asked'[c], Last(out[c]).to, Len(asked[c]))
                          /\ sid[c] = Last(out[c]).id /\ dataUser[c] = Last(out[c]).user
<1>1. /\ hpc[c] = "auth" /\ asked[c] \in Seq(Lines) /\ Len(asked[c]) \in Nat
      /\ asked'[c] = Append(asked[c], l)
  BY Arrived
<1>2. Owed(c) = 0 /\ Len(out[c]) >= 6 /\ out[c] \in Seq(Replies)
  BY <1>1 DEF Owed, ConnInv, Place, HandlerTypes
<1>3. InTurn(asked'[c], out[c])
  BY <1>1, <1>2, TurnKeeps DEF Turn
<1>4. ASSUME ~lost[c]
      PROVE  /\ Silent(asked'[c], Last(out[c]).to, Len(asked[c]))
             /\ sid[c] = Last(out[c]).id /\ dataUser[c] = Last(out[c]).user
  <2>1. Silent(asked[c], Last(out[c]).to, Len(asked[c]) - 0)
    BY <1>2, <1>4 DEF Turn
  <2>2. Last(out[c]) \in Replies /\ Last(out[c]).to \in Nat
    BY <1>2, SentFacts
  <2>3. \A i \in 1..Len(asked[c]) : asked'[c][i] = asked[c][i]
    BY <1>1, AppendFacts
  <2>4. Silent(asked'[c], Last(out[c]).to, Len(asked[c]))
    BY <1>1, <2>1, <2>2, <2>3 DEF Silent
  <2> QED
    BY <1>1, <1>4, <2>4 DEF Turn, Remembers, AtWork, Busy
<1>5. \A i \in 1..Len(out[c]) : out[c][i].to <= Len(asked[c])
  <2>1. \A i \in 1..Len(out[c]) : out[c][i].to <= Len(asked[c]) - 0
    BY <1>2 DEF Turn
  <2> QED
    BY <1>1, <2>1
<1> QED
  BY <1>2, <1>3, <1>4, <1>5

\* A line that is refused at once is answered in the same step.
LEMMA TurnRefused ==
    ASSUME HandlerTypes, NEW c \in Conns, ConnInv(c), Turn(c), Refusal(c)
    PROVE  Turn(c)'
<1>1. PICK l \in Lines, i \in 0..MaxLines : Refuses(c, l, i)
  BY Refused
<1>2. /\ Read(c, l) /\ UNCHANGED <<hpc, dataUser>> /\ sid' = [sid EXCEPT ![c] = i]
      /\ l.kind \in {"junk", "short", "malformed"}
      /\ i = IF l.kind = "malformed" THEN Len(asked[c]) + 1 ELSE sid[c]
  BY <1>1 DEF Refuses
<1> DEFINE a == asked'[c]
           r == [tag |-> "FAIL", id |-> i, user |-> dataUser[c], to |-> Len(asked[c]) + 1]
<1>3. /\ hpc[c] = "auth" /\ a \in Seq(Lines) /\ Len(asked[c]) \in Nat
      /\ Len(a) = Len(asked[c]) + 1 /\ a[Len(a)] = l
  BY <1>2, Arrived
<1>4. r \in Replies /\ Sends(c, r)
  BY <1>1, RefusesFacts
<1>5. /\ Len(out[c]) >= 6 /\ out[c] \in Seq(Replies) /\ InTurn(a, out[c])
      /\ \A j \in 1..Len(out[c]) : out[c][j].to <= Len(asked[c])
      /\ ~lost[c] => /\ Silent(a, Last(out[c]).to, Len(asked[c]))
                     /\ sid[c] = Last(out[c]).id /\ dataUser[c] = Last(out[c]).user
  BY <1>2, TurnArrived
<1>6. r.tag = "FAIL" /\ r.id = i /\ r.user = dataUser[c] /\ r.to = Len(a)
  BY <1>3
<1> HIDE DEF r
<1>7. ~lost[c] => IsAnswer(a[Len(a)], Last(out[c]), r)
  BY <1>2, <1>3, <1>5, <1>6 DEF IsAnswer
<1>8. Len(a) - 1 = Len(asked[c]) /\ Len(a) > 0
  BY <1>3
<1> HIDE DEF a
<1>9. /\ Len(out'[c]) >= 6 /\ InTurn(a, out'[c])
      /\ \A j \in 1..Len(out'[c]) : out'[c][j].to <= Len(a)
      /\ ~lost'[c] => Last(out'[c]) = r /\ Silent(a, r.to, Len(a))
  BY <1>3, <1>4, <1>5, <1>6, <1>7, <1>8, TurnSends
<1>10. hpc'[c] = "auth" /\ Owed(c)' = 0 /\ Len(a) - 0 = Len(a)
  BY <1>2, <1>3 DEF Owed
<1>11. Remembers(c)'
  <2>1. dataUser'[c] = r.user /\ sid'[c] = r.id
    BY <1>2, <1>6 DEF HandlerTypes
  <2> QED
    BY <1>9, <1>10, <2>1 DEF Remembers, Last, Before
<1>12. InTurn(asked[c], out[c])'
  BY <1>9 DEF InTurn, Follows, IsAnswer, a
<1>13. ~lost'[c] => Silent(asked'[c], Last(out'[c]).to, Len(asked'[c]) - Owed(c)')
  BY <1>9, <1>10 DEF a
<1> QED
  BY <1>9, <1>10, <1>11, <1>12, <1>13 DEF Turn, Before, a, Silent, Last

\* An ignored line is owed nothing.
LEMMA TurnIgnore ==
    ASSUME HandlerTypes, NEW c \in Conns, ConnInv(c), Turn(c), Ignore(c)
    PROVE  Turn(c)'
<1>1. PICK l \in Lines : l.kind = "ignored" /\ Read(c, l)
  BY IgnoredLine
<1>2. UNCHANGED <<hpc, sid, dataUser, out, lost>>
  BY DEF Ignore
<1> DEFINE a == asked'[c]
<1>3. /\ hpc[c] = "auth" /\ Len(asked[c]) \in Nat
      /\ Len(a) = Len(asked[c]) + 1 /\ a[Len(asked[c]) + 1] = l
  BY <1>1, Arrived
<1>4. /\ Len(out[c]) >= 6 /\ out[c] \in Seq(Replies) /\ InTurn(a, out[c])
      /\ \A j \in 1..Len(out[c]) : out[c][j].to <= Len(asked[c])
      /\ ~lost[c] => Silent(a, Last(out[c]).to, Len(asked[c]))
  BY <1>1, TurnArrived
<1> HIDE DEF a
<1>5. \A j \in 1..Len(out[c]) : out[c][j].to \in Nat /\ out[c][j].to <= Len(a)
  <2>1. \A j \in 1..Len(out[c]) : out[c][j].to \in Nat
    BY <1>4, SentFacts
  <2> QED
    BY <1>3, <1>4, <2>1
<1>6. ~lost[c] => Silent(a, Last(out[c]).to, Len(a))
  <2>1. Last(out[c]).to \in Nat
    BY <1>4, <1>5 DEF Last
  <2>2. \A i \in (Last(out[c]).to + 1)..Len(a) : i = Len(a) \/ i \in (Last(out[c]).to + 1)..Len(asked[c])
    BY <1>3, <2>1
  <2> QED
    BY <1>1, <1>3, <1>4, <2>2 DEF Silent
<1>7. Owed(c)' = 0 /\ hpc'[c] = "auth" /\ Len(a) - 0 = Len(a)
  BY <1>2, <1>3 DEF Owed
<1>8. Remembers(c)'
  BY <1>2 DEF Turn, Remembers, Last
<1>9. InTurn(asked[c], out[c])'
  BY <1>2, <1>4 DEF InTurn, Follows, IsAnswer, a
<1>10. ~lost'[c] => Silent(asked'[c], Last(out'[c]).to, Len(asked'[c]) - Owed(c)')
  BY <1>2, <1>6, <1>7 DEF a
<1>11. \A j \in 1..Len(out'[c]) : out'[c][j].to <= Len(asked'[c]) - Owed(c)'
  BY <1>2, <1>5, <1>7 DEF a
<1> QED
  BY <1>2, <1>4, <1>7, <1>8, <1>9, <1>10, <1>11 DEF Turn, Before, Silent, Last

\* Credentials are owed an answer from the moment they are read.
LEMMA TurnAttempt ==
    ASSUME HandlerTypes, NEW c \in Conns, ConnInv(c), Turn(c),
           NEW u \in Users, NEW right \in BOOLEAN, Attempt(c, u, right)
    PROVE  Turn(c)'
<1> DEFINE l == [kind |-> "creds", user |-> u, right |-> right]
           a == asked'[c]
<1>1. l \in Lines
  BY DEF Lines, Kinds
<1>2. Read(c, l) /\ hpc'[c] = "verify" /\ UNCHANGED <<dataUser, out, lost>>
  BY DEF Attempt, Goto, HandlerTypes
<1> HIDE DEF l
<1>3. Len(asked[c]) \in Nat /\ Len(a) = Len(asked[c]) + 1
  BY <1>1, <1>2, Arrived
<1>4. /\ Len(out[c]) >= 6 /\ out[c] \in Seq(Replies) /\ InTurn(a, out[c])
      /\ \A j \in 1..Len(out[c]) : out[c][j].to <= Len(asked[c])
      /\ ~lost[c] => /\ Silent(a, Last(out[c]).to, Len(asked[c]))
                     /\ dataUser[c] = Last(out[c]).user
  BY <1>1, <1>2, TurnArrived
<1> HIDE DEF a
<1>5. Owed(c)' = 1 /\ Len(a) - 1 = Len(asked[c])
  BY <1>2, <1>3 DEF Owed
<1>6. Remembers(c)'
  BY <1>2, <1>4 DEF Remembers, Last, Before, Busy
<1>7. InTurn(asked[c], out[c])'
  BY <1>2, <1>4 DEF InTurn, Follows, IsAnswer, a
<1>8. ~lost'[c] => Silent(asked'[c], Last(out'[c]).to, Len(asked'[c]) - Owed(c)')
  BY <1>2, <1>4, <1>5 DEF a
<1>9. \A j \in 1..Len(out'[c]) : out'[c][j].to <= Len(asked'[c]) - Owed(c)'
  BY <1>2, <1>4, <1>5 DEF a
<1> QED
  BY <1>2, <1>4, <1>6, <1>7, <1>8, <1>9 DEF Turn, Before, Silent, Last

\* The answer that was owed.
LEMMA TurnAnswer ==
    ASSUME HandlerTypes, NEW c \in Conns, ConnInv(c), Turn(c), AnswerOk(c) \/ AnswerFail(c)
    PROVE  Turn(c)'
<1>1. PICK t \in {"OK", "FAIL"}, u \in Users \cup {NoUser} : Replied(c, t, u)
  BY AnswerReplies
<1>2. /\ hpc[c] \in {"granted", "refused"} /\ hpc'[c] \in {"traceOk", "traceRefused"}
      /\ UNCHANGED <<sid, asked>> /\ dataUser'[c] = u
  BY <1>1 DEF Replied, HandlerTypes
<1> DEFINE a == asked[c]
           r == [tag |-> t, id |-> sid[c], user |-> u, to |-> Len(a)]
<1>3. /\ a \in Seq(Lines) /\ Len(a) \in Nat \ {0} /\ sid[c] = Len(a)
      /\ Asking(c) = a[Len(a)] /\ a[Len(a)].kind = "creds"
  BY <1>2, AskingFacts
<1>4. r \in Replies /\ Sends(c, r)
  BY <1>1, RepliedFacts
<1>5. r.tag = t /\ r.id = Len(a) /\ r.user = u /\ r.to = Len(a)
  BY <1>3
<1> HIDE DEF r
<1>6. /\ Owed(c) = 1 /\ Owed(c)' = 0 /\ Len(out[c]) >= 6 /\ out[c] \in Seq(Replies)
      /\ InTurn(a, out[c]) /\ \A j \in 1..Len(out[c]) : out[c][j].to <= Len(a) - 1
  BY <1>2 DEF Owed, Turn, ConnInv, Place, HandlerTypes
<1>7. ~lost[c] => dataUser[c] = Last(out[c]).user /\ Silent(a, Last(out[c]).to, Len(a) - 1)
  BY <1>2, <1>6 DEF Turn, Remembers, AtWork
<1>8. ~lost[c] => IsAnswer(a[Len(a)], Last(out[c]), r)
  <2>1. IF t = "OK" THEN a[Len(a)].right /\ u = a[Len(a)].user ELSE u = dataUser[c]
    BY <1>1, <1>3 DEF Replied
  <2> QED
    BY <1>3, <1>5, <1>7, <2>1 DEF IsAnswer
<1>9. Len(a) > 0 /\ Len(a) - 0 = Len(a)
  BY <1>3
<1>10. /\ Len(out'[c]) >= 6 /\ InTurn(a, out'[c])
       /\ \A j \in 1..Len(out'[c]) : out'[c][j].to <= Len(a)
       /\ ~lost'[c] => Last(out'[c]) = r /\ Silent(a, r.to, Len(a))
  BY <1>3, <1>4, <1>5, <1>6, <1>7, <1>8, <1>9, TurnSends
<1>11. Remembers(c)'
  BY <1>2, <1>3, <1>5, <1>10 DEF Remembers, Last, Before
<1>12. InTurn(asked[c], out[c])'
  BY <1>2, <1>10 DEF InTurn, Follows, IsAnswer
<1>13. ~lost'[c] => Silent(asked'[c], Last(out'[c]).to, Len(asked'[c]) - Owed(c)')
  BY <1>2, <1>6, <1>9, <1>10
<1>14. \A j \in 1..Len(out'[c]) : out'[c][j].to <= Len(asked'[c]) - Owed(c)'
  BY <1>2, <1>6, <1>9, <1>10
<1> QED
  BY <1>2, <1>10, <1>11, <1>12, <1>13, <1>14 DEF Turn, Before, Silent, Last

\* Every step of any connection keeps the turn of all.
LEMMA TurnNext == HandlerInv /\ TurnInv /\ [SessionNext]_sessionVars => TurnInv'
<1> SUFFICES ASSUME HandlerInv, TurnInv, [SessionNext]_sessionVars, NEW d \in Conns
             PROVE  Turn(d)'
  BY DEF TurnInv
<1>1. HandlerTypes /\ ConnInv(d) /\ Turn(d)
  BY DEF HandlerInv, TurnInv
<1>2. ASSUME NEW c \in Conns, Connect(c) \/ ClientLine(c) \/ ServerStep(c)
      PROVE  Turn(d)'
  <2>1. CASE c # d
    <3>1. Alone(d)
      BY <1>1, <1>2, <2>1, OthersAlone
    <3> QED
      BY <1>1, <3>1, TurnAlone
  <2>2. CASE c = d
    <3>1. CASE Quiet(d)
      BY <1>1, <3>1, TurnQuiet
    <3>2. CASE Greet(d)
      BY <1>1, <3>2, TurnGreet
    <3>3. CASE Refusal(d)
      BY <1>1, <3>3, TurnRefused
    <3>4. CASE Ignore(d)
      BY <1>1, <3>4, TurnIgnore
    <3>5. ASSUME NEW u \in Users, NEW right \in BOOLEAN, Attempt(d, u, right)
          PROVE  Turn(d)'
      BY <1>1, <3>5, TurnAttempt
    <3>6. CASE AnswerOk(d) \/ AnswerFail(d)
      BY <1>1, <3>6, TurnAnswer
    <3> QED
      BY <1>2, <2>2, <3>1, <3>2, <3>3, <3>4, <3>5, <3>6, StepKinds
  <2> QED
    BY <2>1, <2>2
<1>3. CASE UNCHANGED sessionVars
  <2>1. Alone(d)
    BY <1>3 DEF Alone, sessionVars
  <2> QED
    BY <1>1, <2>1, TurnAlone
<1> QED
  BY <1>2, <1>3 DEF SessionNext

LEMMA TurnInvariant == SessionSpec => []TurnInv
  BY HandlerInvariant, TurnInit, TurnNext, PTL DEF SessionSpec

\* Every line a client writes that calls for an answer gets one, in its turn,
\* although id and user live in the session from line to line: with its own id,
\* if the handler read it, with that of the answer before otherwise.  At most
\* the answer to the last line is still owed, until one is lost; then nothing
\* more is sent.
THEOREM EveryLineInItsTurn == SessionSpec => []AnswersInTurn
<1>1. HandlerInv /\ TurnInv => AnswersInTurn
  <2> SUFFICES ASSUME HandlerInv, TurnInv, NEW c \in Conns
               PROVE  /\ \A i \in 7..Len(out[c]) : Follows(asked[c], out[c][i - 1], out[c][i])
                      /\ ~lost[c] /\ asked[c] # <<>> =>
                            Silent(asked[c], out[c][Len(out[c])].to, Len(asked[c]) - Owed(c))
    BY GreetingFacts DEF AnswersInTurn, Silent
  <2>1. Turn(c)
    BY DEF TurnInv
  <2> QED
    BY <2>1 DEF Turn, InTurn, Last
<1> QED
  BY <1>1, TurnInvariant, HandlerInvariant, PTL

-----------------------------------------------------------------------------
(* The trace of a connection. *)

\* Every result in the trace s is what was told, given the lines a, the
\* replies o and whether an answer was lost.
Truth(s, a, o, isLost) == \A i \in 1..Len(s) : Result(s[i]) => WasTold(s[i], a, o, isLost)

\* The results in s are of requests before the n-th.
Below(s, n) == \A i \in 1..Len(s) : Result(s[i]) => s[i].req < n

\* No request has two results in s, and they are in the order of the requests.
Ordered(s) ==
    \A i \in 1..Len(s) : \A j \in 1..(i - 1) :
        Result(s[i]) /\ Result(s[j]) => s[j].req < s[i].req

\* The disconnect is the last of s, or did not happen yet.
EndsOnce(s) == \A i \in 1..Len(s) : s[i].stage = "disconnect" => i = Len(s)
GoesOn(s)   == \A i \in 1..Len(s) : s[i].stage # "disconnect"

\* Every OK in o is in s, but for those to the lines in N.
OkResult(n) == [stage |-> "auth_ok", req |-> n]
OksTraced(s, o, N) ==
    \A i \in 1..Len(o) : o[i].tag = "OK" =>
        (\E j \in 1..Len(s) : s[j] = OkResult(o[i].to)) \/ o[i].to \in N

\* The request whose OK was sent and is not yet reported.
Pending(c) == IF hpc[c] = "traceOk" THEN {Len(asked[c])} ELSE {}

\* A request is worked on or its result is to be reported.
Working == {"verify", "granted", "refused", "traceOk", "traceRefused"}

\* The trace of connection c and where its handler is.
Traced(c) ==
    /\ Truth(span[c], asked[c], out[c], lost[c])
    /\ Ordered(span[c])
    /\ EndsOnce(span[c])
    /\ hpc[c] # "ended" => GoesOn(span[c])
    /\ hpc[c] \in Working => Below(span[c], Len(asked[c]))
    /\ hpc[c] = "traceOk" =>
          WasTold(OkResult(Len(asked[c])), asked[c], out[c], lost[c])
    /\ hpc[c] = "traceRefused" =>
          WasTold([stage |-> "auth_refused", req |-> Len(asked[c])], asked[c], out[c], lost[c])
    /\ ~dropped[c] => OksTraced(span[c], out[c], Pending(c))

TraceTypes == span \in [Conns -> Seq(Events)] /\ dropped \in [Conns -> BOOLEAN]

TraceInv == TraceTypes /\ \A c \in Conns : Traced(c)

\* A further line makes no result untrue.
LEMMA LineTold ==
    ASSUME NEW a \in Seq(Lines), NEW l \in Lines, NEW e, NEW o, NEW b, WasTold(e, a, o, b)
    PROVE  WasTold(e, Append(a, l), o, b)
<1>1. /\ Len(a) \in Nat /\ Len(Append(a, l)) = Len(a) + 1
      /\ \A i \in 1..Len(a) : Append(a, l)[i] = a[i]
  BY AppendFacts
<1> QED
  BY <1>1 DEF WasTold

\* Neither does a reply to another line, nor that an answer is lost.
LEMMA ReplyTold ==
    ASSUME NEW a, NEW o \in Seq(Replies), NEW r \in Replies, NEW e, NEW b \in BOOLEAN,
           WasTold(e, a, o, b)
    PROVE  /\ r.to # e.req => WasTold(e, a, Append(o, r), b)
           /\ WasTold(e, a, o, TRUE)
<1> DEFINE p == Append(o, r)
<1>1. /\ Len(o) \in Nat /\ Len(p) = Len(o) + 1
      /\ \A i \in 1..Len(o) : p[i] = o[i]
      /\ p[Len(o) + 1] = r
  BY AppendFacts
<1> HIDE DEF p
<1>2. \A i \in 1..Len(p) : i = Len(o) + 1 \/ i \in 1..Len(o)
  BY <1>1
<1>3. \A i \in 1..Len(o) : i \in 1..Len(p)
  BY <1>1
<1>4. ASSUME r.to # e.req PROVE WasTold(e, a, p, b)
  <2>1. \A i \in 1..Len(p) :
           p[i].to = e.req => p[i].tag = (IF e.stage = "auth_ok" THEN "OK" ELSE "FAIL")
    BY <1>1, <1>2, <1>4 DEF WasTold
  <2>2. b \/ \E i \in 1..Len(p) : p[i].to = e.req
    BY <1>1, <1>3 DEF WasTold
  <2> QED
    BY <2>1, <2>2 DEF WasTold
<1>5. WasTold(e, a, o, TRUE)
  BY DEF WasTold
<1> QED
  BY <1>4, <1>5 DEF p

\* The results of a trace are of requests that were read.
LEMMA TruthBelow ==
    ASSUME NEW s \in Seq(Events), NEW a \in Seq(Lines), NEW o, NEW b, Truth(s, a, o, b)
    PROVE  Below(s, Len(a) + 1) /\ \A i \in 1..Len(s) : Result(s[i]) => s[i].req \in 1..Len(a)
  BY DEF Truth, Below, WasTold

\* What an event e that the tracer takes must be for the trace s to stay as it
\* should.
LEMMA EventKeeps ==
    ASSUME NEW s \in Seq(Events), NEW e \in Events, NEW a, NEW o, NEW b, NEW N, NEW M,
           Truth(s, a, o, b), Ordered(s), GoesOn(s)
    PROVE  /\ Append(s, e) \in Seq(Events)
           /\ (Result(e) => WasTold(e, a, o, b)) => Truth(Append(s, e), a, o, b)
           /\ (Result(e) => Below(s, e.req)) => Ordered(Append(s, e))
           /\ EndsOnce(Append(s, e))
           /\ e.stage # "disconnect" => GoesOn(Append(s, e))
           /\ \A n : Below(s, n) /\ ~Result(e) => Below(Append(s, e), n)
           /\ OksTraced(s, o, N) /\ (\A n \in N \ M : e = OkResult(n)) => OksTraced(Append(s, e), o, M)
<1> DEFINE t == Append(s, e)
<1>1. /\ Len(s) \in Nat /\ Len(t) = Len(s) + 1 /\ t \in Seq(Events)
      /\ \A i \in 1..Len(s) : t[i] = s[i]
      /\ t[Len(s) + 1] = e
  BY AppendFacts
<1> HIDE DEF t
<1>2. \A i \in 1..Len(t) : i = Len(s) + 1 \/ i \in 1..Len(s)
  BY <1>1
<1>3. ASSUME Result(e) => WasTold(e, a, o, b) PROVE Truth(t, a, o, b)
  BY <1>1, <1>2, <1>3 DEF Truth
<1>4. ASSUME Result(e) => Below(s, e.req) PROVE Ordered(t)
  <2> SUFFICES ASSUME NEW i \in 1..Len(t), NEW j \in 1..(i - 1), Result(t[i]), Result(t[j])
               PROVE  t[j].req < t[i].req
    BY DEF Ordered
  <2>1. j \in 1..Len(s) /\ t[j] = s[j]
    BY <1>1
  <2>2. CASE i = Len(s) + 1
    BY <1>1, <1>4, <2>1, <2>2 DEF Below
  <2>3. CASE i \in 1..Len(s)
    BY <1>1, <2>1, <2>3 DEF Ordered
  <2> QED
    BY <1>2, <2>2, <2>3
<1>5. EndsOnce(t) /\ (e.stage # "disconnect" => GoesOn(t))
  BY <1>1, <1>2 DEF GoesOn, EndsOnce
<1>6. ASSUME NEW n, Below(s, n), ~Result(e) PROVE Below(t, n)
  BY <1>1, <1>2, <1>6 DEF Below
<1>7. ASSUME OksTraced(s, o, N), \A n \in N \ M : e = OkResult(n) PROVE OksTraced(t, o, M)
  <2> SUFFICES ASSUME NEW i \in 1..Len(o), o[i].tag = "OK", o[i].to \notin M
               PROVE  \E j \in 1..Len(t) : t[j] = OkResult(o[i].to)
    BY DEF OksTraced
  <2>1. CASE o[i].to \in N
    <3>1. t[Len(s) + 1] = OkResult(o[i].to) /\ Len(s) + 1 \in 1..Len(t)
      BY <1>1, <1>7, <2>1
    <3> QED
      BY <3>1
  <2>2. CASE o[i].to \notin N
    <3>1. PICK j \in 1..Len(s) : s[j] = OkResult(o[i].to)
      BY <1>7, <2>2 DEF OksTraced
    <3>2. j \in 1..Len(t) /\ t[j] = OkResult(o[i].to)
      BY <1>1, <3>1
    <3> QED
      BY <3>2
  <2> QED
    BY <2>1, <2>2
<1> QED
  BY <1>1, <1>3, <1>4, <1>5, <1>6, <1>7 DEF t

\* An event that is no result.
LEMMA PlainEvent ==
    ASSUME NEW s \in Seq(Events), NEW e \in Events, ~Result(e), NEW a, NEW o, NEW b, NEW N,
           Truth(s, a, o, b), Ordered(s), GoesOn(s)
    PROVE  /\ Truth(Append(s, e), a, o, b) /\ Ordered(Append(s, e)) /\ EndsOnce(Append(s, e))
           /\ e.stage # "disconnect" => GoesOn(Append(s, e))
           /\ \A n : Below(s, n) => Below(Append(s, e), n)
           /\ OksTraced(s, o, N) => OksTraced(Append(s, e), o, N)
<1>1. \A n \in N \ N : e = OkResult(n)
  OBVIOUS
<1>2. OksTraced(s, o, N) => OksTraced(Append(s, e), o, N)
  BY <1>1, EventKeeps
<1> QED
  BY <1>2, EventKeeps

\* An event that is the result of a request, told to the client.
LEMMA ResultEvent ==
    ASSUME NEW s \in Seq(Events), NEW e \in Events, NEW a, NEW o, NEW b, NEW N,
           Truth(s, a, o, b), Ordered(s), GoesOn(s),
           WasTold(e, a, o, b), Below(s, e.req), e.stage # "disconnect",
           \A n \in N : e = OkResult(n)
    PROVE  /\ Truth(Append(s, e), a, o, b) /\ Ordered(Append(s, e))
           /\ EndsOnce(Append(s, e)) /\ GoesOn(Append(s, e))
           /\ OksTraced(s, o, N) => OksTraced(Append(s, e), o, {})
<1>1. \A n \in N \ {} : e = OkResult(n)
  OBVIOUS
<1>2. OksTraced(s, o, N) => OksTraced(Append(s, e), o, {})
  BY <1>1, EventKeeps
<1> QED
  BY <1>2, EventKeeps

\* What a reply r does to a trace none of whose results is of the line of r.
LEMMA ReplyTraced ==
    ASSUME NEW s \in Seq(Events), NEW a \in Seq(Lines), NEW o \in Seq(Replies), NEW r \in Replies,
           NEW b \in BOOLEAN, Truth(s, a, o, b)
    PROVE  /\ (\A i \in 1..Len(s) : Result(s[i]) => s[i].req # r.to) => Truth(s, a, Append(o, r), b)
           /\ Truth(s, a, o, TRUE)
           /\ \A N, M : OksTraced(s, o, N) /\ N \subseteq M /\ (r.tag = "OK" => r.to \in M)
                           => OksTraced(s, Append(o, r), M)
<1>1. ASSUME \A i \in 1..Len(s) : Result(s[i]) => s[i].req # r.to
      PROVE  Truth(s, a, Append(o, r), b)
  BY <1>1, ReplyTold DEF Truth
<1>2. Truth(s, a, o, TRUE)
  BY ReplyTold DEF Truth
<1>3. ASSUME NEW N, NEW M, OksTraced(s, o, N), N \subseteq M, r.tag = "OK" => r.to \in M
      PROVE  OksTraced(s, Append(o, r), M)
  <2> DEFINE p == Append(o, r)
  <2>1. /\ Len(o) \in Nat /\ Len(p) = Len(o) + 1
        /\ \A i \in 1..Len(o) : p[i] = o[i]
        /\ p[Len(o) + 1] = r
    BY AppendFacts
  <2> HIDE DEF p
  <2>2. \A i \in 1..Len(p) : i = Len(o) + 1 \/ i \in 1..Len(o)
    BY <2>1
  <2>3. OksTraced(s, p, M)
    BY <1>3, <2>1, <2>2 DEF OksTraced
  <2> QED
    BY <2>3 DEF p
<1> QED
  BY <1>1, <1>2, <1>3

\* What Sends does to a trace none of whose results is of the line of r.
LEMMA SendsTraced ==
    ASSUME HandlerTypes, HandlerTypes', NEW c \in Conns, NEW r \in Replies, Sends(c, r),
           NEW s \in Seq(Events), NEW a \in Seq(Lines), Truth(s, a, out[c], lost[c]),
           \A i \in 1..Len(s) : Result(s[i]) => s[i].req # r.to
    PROVE  /\ Truth(s, a, out'[c], lost'[c])
           /\ \A N, M : OksTraced(s, out[c], N) /\ N \subseteq M /\ (r.tag = "OK" => r.to \in M)
                           => OksTraced(s, out'[c], M)
<1>1. out[c] \in Seq(Replies) /\ lost[c] \in BOOLEAN /\ lost'[c] \in BOOLEAN
  BY DEF HandlerTypes
<1>2. CASE lost'[c] /\ out'[c] = out[c]
  <2>1. Truth(s, a, out[c], TRUE)
    BY <1>1, ReplyTraced
  <2>2. lost'[c] = TRUE
    BY <1>1, <1>2
  <2> QED
    BY <1>2, <2>1, <2>2 DEF OksTraced
<1>3. CASE ~lost[c] /\ ~lost'[c] /\ out'[c] = Append(out[c], r)
  <2>1. lost'[c] = lost[c]
    BY <1>1, <1>3
  <2> QED
    BY <1>1, <1>3, <2>1, ReplyTraced
<1> QED
  BY <1>2, <1>3 DEF Sends

-----------------------------------------------------------------------------
\* What Report does: the tracer takes the event or drops it.
LEMMA Reported ==
    ASSUME TraceTypes, NEW c \in Conns, NEW n \in 0..MaxLines, NEW g \in Stages, Report(c, n, g)
    PROVE  /\ [stage |-> g, req |-> n] \in Events /\ TraceTypes'
           /\ \/ /\ span'[c] = Append(span[c], [stage |-> g, req |-> n])
                 /\ dropped'[c] = dropped[c]
              \/ span'[c] = span[c] /\ dropped'[c]
<1>1. [stage |-> g, req |-> n] \in Events
  BY DEF Events
<1>2. span[c] \in Seq(Events) /\ Append(span[c], [stage |-> g, req |-> n]) \in Seq(Events)
  BY <1>1, AppendFacts DEF TraceTypes
<1> QED
  BY <1>1, <1>2 DEF Report, TraceTypes

\* The invariant of the trace holds before anybody connects.
LEMMA TraceInit == SessionInit => TraceInv
<1> SUFFICES ASSUME SessionInit PROVE TraceInv
  OBVIOUS
<1>1. TraceTypes
  BY DEF SessionInit, TraceTypes
<1>2. ASSUME NEW c \in Conns PROVE Traced(c)
  <2>1. span[c] = <<>> /\ out[c] = <<>> /\ hpc[c] = "none"
    BY DEF SessionInit
  <2>2. Len(span[c]) = 0 /\ Len(out[c]) = 0
    BY <2>1
  <2> QED
    BY <2>1, <2>2 DEF Traced, Truth, Ordered, EndsOnce, GoesOn, OksTraced, Working
<1> QED
  BY <1>1, <1>2 DEF TraceInv

\* A step of connection c that reports nothing and sends nothing, and neither
\* begins nor ends the work on a request.
LEMMA TraceSilent ==
    ASSUME NEW c \in Conns, Traced(c),
           span'[c] = span[c], dropped'[c] = dropped[c], asked'[c] = asked[c],
           out'[c] = out[c], lost'[c] = lost[c],
           hpc'[c] # hpc[c] =>
              /\ hpc[c] \notin {"traceOk", "ended"}
              /\ hpc'[c] \notin {"traceOk", "traceRefused", "ended"}
              /\ hpc'[c] \in Working => hpc[c] \in Working
    PROVE  Traced(c)'
<1>1. CASE hpc'[c] = hpc[c]
  <2>1. Pending(c)' = Pending(c)
    BY <1>1 DEF Pending
  <2> QED
    BY <1>1, <2>1 DEF Traced
<1>2. CASE hpc'[c] # hpc[c]
  <2>1. Pending(c) = {} /\ Pending(c)' = {}
    BY <1>2 DEF Pending
  <2> QED
    BY <1>2, <2>1 DEF Traced
<1> QED
  BY <1>1, <1>2

\* A step that reports event e, which is no result, and sends nothing.
LEMMA TraceReports ==
    ASSUME HandlerTypes, TraceTypes, NEW c \in Conns, Traced(c), NEW n \in 0..MaxLines,
           NEW g \in Stages \ {"auth_ok", "auth_refused"}, Report(c, n, g),
           asked'[c] = asked[c], out'[c] = out[c], lost'[c] = lost[c],
           hpc[c] \notin Working \cup {"ended"}, hpc'[c] \notin Working,
           hpc'[c] = "ended" \/ g # "disconnect"
    PROVE  TraceTypes' /\ Traced(c)'
<1> DEFINE e == [stage |-> g, req |-> n]
           s == span[c]
<1>1. /\ e \in Events /\ TraceTypes'
      /\ \/ span'[c] = Append(s, e) /\ dropped'[c] = dropped[c]
         \/ span'[c] = s /\ dropped'[c]
  BY Reported
<1>2. e.stage = g /\ ~Result(e)
  BY DEF Result
<1>3. s \in Seq(Events) /\ out[c] \in Seq(Replies)
  BY DEF TraceTypes, HandlerTypes
<1>4. /\ Pending(c) = {} /\ Pending(c)' = {}
      /\ hpc'[c] \notin {"traceOk", "traceRefused"}
  BY DEF Pending, Working
<1>5. /\ Truth(s, asked[c], out[c], lost[c]) /\ Ordered(s) /\ GoesOn(s)
      /\ ~dropped[c] => OksTraced(s, out[c], {})
  BY <1>4 DEF Traced, Working
<1>8. EndsOnce(s) /\ TraceTypes'
  BY <1>1, <1>5 DEF EndsOnce, GoesOn
<1> HIDE DEF e
<1>6. CASE span'[c] = s /\ dropped'[c]
  BY <1>4, <1>5, <1>6, <1>8 DEF Traced
<1>7. CASE span'[c] = Append(s, e) /\ dropped'[c] = dropped[c]
  <2>1. /\ Truth(Append(s, e), asked[c], out[c], lost[c]) /\ Ordered(Append(s, e))
        /\ EndsOnce(Append(s, e))
        /\ e.stage # "disconnect" => GoesOn(Append(s, e))
        /\ ~dropped[c] => OksTraced(Append(s, e), out[c], {})
    BY <1>1, <1>2, <1>3, <1>5, PlainEvent
  <2>2. hpc'[c] # "ended" => GoesOn(Append(s, e))
    BY <1>2, <2>1
  <2> QED
    BY <1>4, <1>7, <1>8, <2>1, <2>2 DEF Traced
<1> QED
  BY <1>1, <1>6, <1>7

\* The greeting answers no line.
LEMMA TraceGreet ==
    ASSUME HandlerTypes, TraceTypes, NEW c \in Conns, ConnInv(c), Traced(c), Greet(c)
    PROVE  TraceTypes' /\ Traced(c)'
<1> DEFINE line == Greeting[greeted[c] + 1]
           r    == [tag |-> line, id |-> 0, user |-> NoUser, to |-> 0]
<1>1. greeted[c] \in 0..5 /\ hpc[c] = "greet" /\ Write(c, 0, line, 0, NoUser)
  BY DEF Greet, ConnInv, Place, HandlerTypes
<1>2. line \in Tags /\ line # "OK"
  BY <1>1, GreetingFacts
<1>3. 0 \in 0..MaxLines /\ NoUser \in Users \cup {NoUser}
  BY SessionAssumption
<1>4. r \in Replies /\ out[c] \in Seq(Replies) /\ out'[c] = Append(out[c], r)
  BY <1>1, <1>2, <1>3, Written
<1>5. /\ UNCHANGED <<span, dropped, asked, lost>> /\ hpc'[c] \in {"auth", "greet"}
      /\ asked[c] \in Seq(Lines) /\ span[c] \in Seq(Events) /\ lost[c] \in BOOLEAN
  BY DEF Greet, Goto, HandlerTypes, TraceTypes
<1>6. r.to = 0 /\ r.tag # "OK"
  BY <1>2
<1> HIDE DEF r
<1>7. /\ Truth(span[c], asked[c], out[c], lost[c]) /\ Ordered(span[c])
      /\ EndsOnce(span[c]) /\ GoesOn(span[c])
      /\ ~dropped[c] => OksTraced(span[c], out[c], {})
  BY <1>1 DEF Traced, Pending
<1>8. \A i \in 1..Len(span[c]) : Result(span[c][i]) => span[c][i].req # r.to
  BY <1>5, <1>6, <1>7, TruthBelow
<1>9. /\ Truth(span[c], asked[c], out'[c], lost[c])
      /\ ~dropped[c] => OksTraced(span[c], out'[c], {})
  <2>1. /\ Truth(span[c], asked[c], Append(out[c], r), lost[c])
        /\ \A N, M : OksTraced(span[c], out[c], N) /\ N \subseteq M /\ (r.tag = "OK" => r.to \in M)
                        => OksTraced(span[c], Append(out[c], r), M)
    BY <1>4, <1>5, <1>7, <1>8, ReplyTraced
  <2>2. OksTraced(span[c], out[c], {}) => OksTraced(span[c], Append(out[c], r), {})
    BY <1>6, <2>1
  <2> QED
    BY <1>4, <1>7, <2>1, <2>2
<1>10. Pending(c)' = {} /\ hpc'[c] \notin Working
  BY <1>5 DEF Pending, Working
<1>11. TraceTypes'
  BY <1>5 DEF TraceTypes
<1> QED
  BY <1>5, <1>7, <1>9, <1>10, <1>11 DEF Traced, Working

\* A line that is read leaves the trace as it was, and so does the answer that
\* it gets at once.
LEMMA TraceRefused ==
    ASSUME HandlerTypes, HandlerTypes', TraceTypes, NEW c \in Conns, Traced(c), Refusal(c)
    PROVE  TraceTypes' /\ Traced(c)'
<1>1. PICK l \in Lines, i \in 0..MaxLines : Refuses(c, l, i)
  BY Refused
<1> DEFINE r == [tag |-> "FAIL", id |-> i, user |-> dataUser[c], to |-> Len(asked[c]) + 1]
           a == asked'[c]
<1>2. r \in Replies /\ Sends(c, r)
  BY <1>1, RefusesFacts
<1>3. /\ hpc[c] = "auth" /\ asked[c] \in Seq(Lines) /\ Len(asked[c]) \in Nat
      /\ a \in Seq(Lines) /\ a = Append(asked[c], l) /\ Len(a) = Len(asked[c]) + 1
  BY <1>1, Arrived DEF Refuses
<1>4. UNCHANGED <<hpc, span, dropped>> /\ span[c] \in Seq(Events)
  BY <1>1 DEF Refuses, TraceTypes
<1>5. r.tag # "OK" /\ r.to = Len(asked[c]) + 1
  OBVIOUS
<1> HIDE DEF r, a
<1>6. Truth(span[c], asked[c], out[c], lost[c])
  BY DEF Traced
<1>7. Truth(span[c], a, out[c], lost[c])
  BY <1>3, <1>6, LineTold DEF Truth
<1>8. \A j \in 1..Len(span[c]) : Result(span[c][j]) => span[c][j].req # r.to
  <2>1. \A j \in 1..Len(span[c]) : Result(span[c][j]) => span[c][j].req \in 1..Len(asked[c])
    BY <1>3, <1>4, <1>6, TruthBelow
  <2> QED
    BY <1>3, <1>5, <2>1
<1>9. /\ Truth(span[c], a, out'[c], lost'[c])
      /\ OksTraced(span[c], out[c], {}) => OksTraced(span[c], out'[c], {})
  <2>1. /\ Truth(span[c], a, out'[c], lost'[c])
        /\ \A N, M : OksTraced(span[c], out[c], N) /\ N \subseteq M /\ (r.tag = "OK" => r.to \in M)
                        => OksTraced(span[c], out'[c], M)
    BY <1>2, <1>3, <1>4, <1>7, <1>8, SendsTraced
  <2> QED
    BY <1>5, <2>1
<1>10. Pending(c) = {} /\ Pending(c)' = {} /\ hpc'[c] \notin Working /\ hpc[c] # "ended"
  BY <1>3, <1>4 DEF Pending, Working
<1>11. TraceTypes'
  BY <1>4 DEF TraceTypes
<1> QED
  BY <1>4, <1>9, <1>10, <1>11 DEF Traced, Working, a

LEMMA TraceIgnore ==
    ASSUME HandlerTypes, TraceTypes, NEW c \in Conns, Traced(c), Ignore(c)
    PROVE  TraceTypes' /\ Traced(c)'
<1>1. PICK l \in Lines : Read(c, l)
  BY IgnoredLine
<1>2. hpc[c] = "auth" /\ asked[c] \in Seq(Lines) /\ asked'[c] = Append(asked[c], l)
  BY <1>1, Arrived
<1>3. UNCHANGED <<hpc, out, lost, span, dropped>>
  BY DEF Ignore
<1>4. Truth(span[c], asked'[c], out[c], lost[c])
  BY <1>2, LineTold DEF Traced, Truth
<1>5. Pending(c) = {} /\ Pending(c)' = {} /\ hpc'[c] \notin Working /\ hpc[c] # "ended"
  BY <1>2, <1>3 DEF Pending, Working
<1>6. TraceTypes'
  BY <1>3 DEF TraceTypes
<1> QED
  BY <1>3, <1>4, <1>5, <1>6 DEF Traced, Working

\* The attempt is reported; the results so far are of earlier requests.
LEMMA TraceAttempt ==
    ASSUME HandlerTypes, TraceTypes, NEW c \in Conns, Traced(c),
           NEW u \in Users, NEW right \in BOOLEAN, Attempt(c, u, right)
    PROVE  TraceTypes' /\ Traced(c)'
<1> DEFINE l == [kind |-> "creds", user |-> u, right |-> right]
           e == [stage |-> "auth_attempt", req |-> Len(asked[c]) + 1]
           s == span[c]
           a == asked'[c]
<1>1. l \in Lines
  BY DEF Lines, Kinds
<1>2. /\ Read(c, l) /\ Report(c, Len(asked[c]) + 1, "auth_attempt")
      /\ hpc'[c] = "verify" /\ UNCHANGED <<out, lost>>
  BY DEF Attempt, Goto, Following, HandlerTypes
<1> HIDE DEF l
<1>3. /\ hpc[c] = "auth" /\ asked[c] \in Seq(Lines) /\ Len(asked[c]) \in Nat
      /\ Len(asked[c]) + 1 \in 0..MaxLines
      /\ a = Append(asked[c], l) /\ a \in Seq(Lines) /\ Len(a) = Len(asked[c]) + 1
  BY <1>1, <1>2, Arrived
<1>4. /\ e \in Events /\ TraceTypes'
      /\ \/ span'[c] = Append(s, e) /\ dropped'[c] = dropped[c]
         \/ span'[c] = s /\ dropped'[c]
  BY <1>2, <1>3, Reported DEF Stages
<1>5. ~Result(e) /\ e.stage # "disconnect"
  BY DEF Result
<1>6. s \in Seq(Events) /\ out[c] \in Seq(Replies)
  BY DEF TraceTypes, HandlerTypes
<1> HIDE DEF e, a
<1>7. /\ Truth(s, asked[c], out[c], lost[c]) /\ Ordered(s) /\ GoesOn(s)
      /\ ~dropped[c] => OksTraced(s, out[c], {})
  BY <1>3 DEF Traced, Pending
<1>8. Truth(s, a, out[c], lost[c])
  BY <1>1, <1>3, <1>7, LineTold DEF Truth
<1>9. Below(s, Len(a))
  BY <1>3, <1>6, <1>7, TruthBelow
<1>10. Pending(c)' = {} /\ hpc'[c] \notin {"traceOk", "traceRefused", "ended"}
  BY <1>2 DEF Pending
<1>13. EndsOnce(s) /\ TraceTypes'
  BY <1>4, <1>7 DEF EndsOnce, GoesOn
<1>11. CASE span'[c] = s /\ dropped'[c]
  BY <1>2, <1>7, <1>8, <1>9, <1>10, <1>11, <1>13 DEF Traced, a
<1>12. CASE span'[c] = Append(s, e) /\ dropped'[c] = dropped[c]
  <2>1. /\ Truth(Append(s, e), a, out[c], lost[c]) /\ Ordered(Append(s, e))
        /\ EndsOnce(Append(s, e)) /\ GoesOn(Append(s, e)) /\ Below(Append(s, e), Len(a))
        /\ ~dropped[c] => OksTraced(Append(s, e), out[c], {})
    BY <1>4, <1>5, <1>6, <1>7, <1>8, <1>9, PlainEvent
  <2> QED
    BY <1>2, <1>10, <1>12, <1>13, <2>1 DEF Traced, a
<1> QED
  BY <1>4, <1>11, <1>12

\* The answer, or its loss, makes the result true that will be reported.
LEMMA TraceAnswer ==
    ASSUME HandlerTypes, HandlerTypes', TraceTypes, NEW c \in Conns, ConnInv(c), Turn(c), Traced(c),
           AnswerOk(c) \/ AnswerFail(c)
    PROVE  TraceTypes' /\ Traced(c)'
<1>1. PICK t \in {"OK", "FAIL"}, u \in Users \cup {NoUser} : Replied(c, t, u)
  BY AnswerReplies
<1> DEFINE a == asked[c]
           s == span[c]
           r == [tag |-> t, id |-> sid[c], user |-> u, to |-> Len(a)]
           g == IF t = "OK" THEN "auth_ok" ELSE "auth_refused"
           e == [stage |-> g, req |-> Len(a)]
<1>2. /\ hpc[c] \in {"granted", "refused"} /\ hpc[c] = (IF t = "OK" THEN "granted" ELSE "refused")
      /\ hpc'[c] = IF t = "OK" THEN "traceOk" ELSE "traceRefused"
      /\ UNCHANGED <<asked, span, dropped>>
  BY <1>1 DEF Replied, HandlerTypes
<1>3. /\ a \in Seq(Lines) /\ Len(a) \in Nat \ {0}
      /\ a[Len(a)].kind = "creds" /\ (t = "OK" => a[Len(a)].right)
  BY <1>2, AskingFacts
<1>4. r \in Replies /\ Sends(c, r) /\ out[c] \in Seq(Replies)
  BY <1>1, RepliedFacts
<1>5. r.tag = t /\ r.to = Len(a)
  OBVIOUS
<1>6. s \in Seq(Events) /\ lost'[c] \in BOOLEAN
  BY DEF TraceTypes, HandlerTypes
<1> HIDE DEF r
<1>7. /\ Truth(s, a, out[c], lost[c]) /\ Ordered(s) /\ EndsOnce(s) /\ GoesOn(s) /\ Below(s, Len(a))
      /\ ~dropped[c] => OksTraced(s, out[c], {})
  BY <1>2 DEF Traced, Working, Pending
<1>8. \A i \in 1..Len(s) : Result(s[i]) => s[i].req # r.to
  <2>1. \A i \in 1..Len(s) : Result(s[i]) => s[i].req \in 1..Len(a) /\ s[i].req < Len(a)
    BY <1>3, <1>6, <1>7, TruthBelow DEF Below
  <2> QED
    BY <1>3, <1>5, <2>1
<1>9. /\ Truth(s, a, out'[c], lost'[c])
      /\ OksTraced(s, out[c], {}) /\ {} \subseteq Pending(c)' /\ (r.tag = "OK" => r.to \in Pending(c)')
            => OksTraced(s, out'[c], Pending(c)')
  <2>1. /\ Truth(s, a, out'[c], lost'[c])
        /\ \A N, M : OksTraced(s, out[c], N) /\ N \subseteq M /\ (r.tag = "OK" => r.to \in M)
                        => OksTraced(s, out'[c], M)
    BY <1>3, <1>4, <1>6, <1>7, <1>8, SendsTraced
  <2> QED
    BY <2>1
<1>10. r.tag = "OK" => r.to \in Pending(c)'
  BY <1>2, <1>5 DEF Pending
<1>11. WasTold(e, a, out'[c], lost'[c])
  <2>1. e.req = Len(a) /\ (e.stage = "auth_ok" <=> t = "OK")
    OBVIOUS
  <2> HIDE DEF e
  <2>2. \A i \in 1..Len(out[c]) : out[c][i].to # Len(a)
    <3>1. Owed(c) = 1
      BY <1>2 DEF Owed
    <3>2. \A i \in 1..Len(out[c]) : out[c][i].to \in Nat /\ out[c][i].to <= Len(a) - 1
      BY <1>4, <3>1, SentFacts DEF Turn
    <3> QED
      BY <1>3, <3>2
  <2>3. /\ \A i \in 1..Len(out'[c]) :
              out'[c][i].to = Len(a) => out'[c][i].tag = (IF e.stage = "auth_ok" THEN "OK" ELSE "FAIL")
        /\ lost'[c] \/ \E i \in 1..Len(out'[c]) : out'[c][i].to = Len(a)
    <3>1. CASE lost'[c] /\ out'[c] = out[c]
      BY <2>2, <3>1
    <3>2. CASE out'[c] = Append(out[c], r)
      <4>1. /\ Len(out[c]) \in Nat /\ Len(out'[c]) = Len(out[c]) + 1
            /\ \A i \in 1..Len(out[c]) : out'[c][i] = out[c][i]
            /\ out'[c][Len(out[c]) + 1] = r
        BY <1>4, <3>2, AppendFacts
      <4>2. \A i \in 1..Len(out'[c]) : i = Len(out[c]) + 1 \/ i \in 1..Len(out[c])
        BY <4>1
      <4>3. Len(out[c]) + 1 \in 1..Len(out'[c])
        BY <4>1
      <4>4. ASSUME NEW i \in 1..Len(out'[c]), out'[c][i].to = Len(a)
            PROVE  out'[c][i].tag = t
        BY <1>5, <2>2, <4>1, <4>2, <4>4
      <4> QED
        BY <1>5, <2>1, <4>1, <4>3, <4>4
    <3> QED
      BY <1>4, <3>1, <3>2 DEF Sends
  <2> QED
    BY <1>3, <2>1, <2>3 DEF WasTold
<1>12. TraceTypes'
  BY <1>2 DEF TraceTypes
<1>13. /\ hpc'[c] = "traceOk" => WasTold(OkResult(Len(a)), a, out'[c], lost'[c])
       /\ hpc'[c] = "traceRefused" =>
             WasTold([stage |-> "auth_refused", req |-> Len(a)], a, out'[c], lost'[c])
  BY <1>2, <1>11 DEF OkResult
<1> HIDE DEF e
<1>14. hpc'[c] # "ended" /\ (~dropped[c] => OksTraced(s, out'[c], Pending(c)'))
  BY <1>2, <1>7, <1>9, <1>10
<1> QED
  BY <1>2, <1>7, <1>9, <1>12, <1>13, <1>14 DEF Traced

\* The result is reported, or dropped.
LEMMA TraceResults ==
    ASSUME HandlerTypes, TraceTypes, NEW c \in Conns, ConnInv(c), Traced(c), TraceResult(c)
    PROVE  TraceTypes' /\ Traced(c)'
<1> DEFINE g == IF hpc[c] = "traceOk" THEN "auth_ok" ELSE "auth_refused"
           e == [stage |-> g, req |-> Len(asked[c])]
           s == span[c]
<1>1. /\ hpc[c] \in {"traceOk", "traceRefused"} /\ hpc'[c] = "auth"
      /\ Report(c, Len(asked[c]), g) /\ UNCHANGED <<asked, out, lost>>
  BY DEF TraceResult, Goto, This, HandlerTypes
<1>2. Len(asked[c]) \in 0..MaxLines
  BY SessionAssumption DEF ConnInv, Place, HandlerTypes
<1>3. /\ e \in Events /\ TraceTypes'
      /\ \/ span'[c] = Append(s, e) /\ dropped'[c] = dropped[c]
         \/ span'[c] = s /\ dropped'[c]
  BY <1>1, <1>2, Reported DEF Stages
<1>4. s \in Seq(Events) /\ out[c] \in Seq(Replies)
  BY DEF TraceTypes, HandlerTypes
<1>5. /\ e.req = Len(asked[c]) /\ e.stage # "disconnect"
      /\ \A n \in Pending(c) : e = OkResult(n)
  BY DEF Pending, OkResult
<1>6. WasTold(e, asked[c], out[c], lost[c])
  BY <1>1 DEF Traced, OkResult
<1> HIDE DEF e
<1>7. /\ Truth(s, asked[c], out[c], lost[c]) /\ Ordered(s) /\ GoesOn(s) /\ Below(s, Len(asked[c]))
      /\ ~dropped[c] => OksTraced(s, out[c], Pending(c))
  BY <1>1 DEF Traced, Working
<1>8. Pending(c)' = {} /\ hpc'[c] \notin Working \cup {"ended"}
  BY <1>1 DEF Pending, Working
<1>11. EndsOnce(s) /\ TraceTypes'
  BY <1>3, <1>7 DEF EndsOnce, GoesOn
<1>9. CASE span'[c] = s /\ dropped'[c]
  BY <1>1, <1>7, <1>8, <1>9, <1>11 DEF Traced, Working
<1>10. CASE span'[c] = Append(s, e) /\ dropped'[c] = dropped[c]
  <2>1. /\ Truth(Append(s, e), asked[c], out[c], lost[c]) /\ Ordered(Append(s, e))
        /\ EndsOnce(Append(s, e)) /\ GoesOn(Append(s, e))
        /\ OksTraced(s, out[c], Pending(c)) => OksTraced(Append(s, e), out[c], {})
    BY <1>3, <1>4, <1>5, <1>6, <1>7, ResultEvent
  <2>2. ~dropped[c] => OksTraced(Append(s, e), out[c], {})
    BY <1>7, <2>1
  <2> QED
    BY <1>1, <1>8, <1>10, <1>11, <2>1, <2>2 DEF Traced, Working
<1> QED
  BY <1>3, <1>9, <1>10

\* Every step of connection c keeps its trace.
LEMMA TraceStep ==
    ASSUME HandlerInv, HandlerTypes', TurnInv, TraceInv, NEW c \in Conns,
           Connect(c) \/ ClientLine(c) \/ ServerStep(c)
    PROVE  TraceTypes' /\ Traced(c)'
<1>1. HandlerTypes /\ ConnInv(c) /\ Turn(c) /\ TraceTypes /\ Traced(c)
  BY DEF HandlerInv, TurnInv, TraceInv
<1>2. CASE \/ Connect(c) \/ GreetFails(c) \/ Authenticate(c) \/ HangUp(c)
           \/ HandshakeFails(c) /\ UNCHANGED <<span, dropped>>
  <2>1. /\ UNCHANGED <<span, dropped, asked, out, lost>>
        /\ hpc[c] \in {"none", "greet", "verify", "auth", "handshake"}
        /\ hpc'[c] \in {"accepted", "close", "refused", "granted"}
        /\ hpc'[c] \in {"refused", "granted"} => hpc[c] = "verify"
    BY <1>1, <1>2 DEF Connect, GreetFails, Authenticate, HangUp, HandshakeFails, Goto, HandlerTypes
  <2>2. TraceTypes'
    BY <1>1, <2>1 DEF TraceTypes
  <2>3. Traced(c)'
    BY <1>1, <2>1, TraceSilent DEF Working
  <2> QED
    BY <2>2, <2>3
<1>3. CASE \/ Handle(c) \/ Handshake(c) \/ Disconnect(c)
           \/ HandshakeFails(c) /\ Report(c, This(c), "handshake_failed")
  <2>1. /\ UNCHANGED <<asked, out, lost>>
        /\ hpc[c] \in {"accepted", "handshake", "close"}
        /\ hpc'[c] \in {"handshake", "greet", "close", "ended"}
        /\ \E g \in Stages \ {"auth_ok", "auth_refused"} :
              Report(c, Len(asked[c]), g) /\ (hpc'[c] = "ended" \/ g # "disconnect")
    <3> USE <1>1 DEF Goto, HandlerTypes, Stages, This
    <3>1. CASE Handle(c)
      BY <3>1 DEF Handle
    <3>2. CASE Handshake(c)
      BY <3>2 DEF Handshake
    <3>3. CASE Disconnect(c)
      BY <3>3 DEF Disconnect
    <3>4. CASE HandshakeFails(c) /\ Report(c, This(c), "handshake_failed")
      BY <3>4 DEF HandshakeFails
    <3> QED
      BY <1>3, <3>1, <3>2, <3>3, <3>4
  <2>2. Len(asked[c]) \in 0..MaxLines
    BY <1>1, SessionAssumption DEF ConnInv, Place, HandlerTypes
  <2> QED
    BY <1>1, <2>1, <2>2, TraceReports DEF Working
<1>4. HandshakeFails(c) => UNCHANGED <<span, dropped>> \/ Report(c, This(c), "handshake_failed")
  BY DEF HandshakeFails
<1>5. CASE TraceResult(c)
  BY <1>1, <1>5, TraceResults
<1>6. CASE Greet(c)
  BY <1>1, <1>6, TraceGreet
<1>7. CASE Refusal(c)
  BY <1>1, <1>7, TraceRefused
<1>8. CASE Ignore(c)
  BY <1>1, <1>8, TraceIgnore
<1>9. ASSUME NEW u \in Users, NEW right \in BOOLEAN, Attempt(c, u, right)
      PROVE  TraceTypes' /\ Traced(c)'
  BY <1>1, <1>9, TraceAttempt
<1>10. CASE AnswerOk(c) \/ AnswerFail(c)
  BY <1>1, <1>10, TraceAnswer
<1> QED
  BY <1>2, <1>3, <1>4, <1>5, <1>6, <1>7, <1>8, <1>9, <1>10, StepKinds DEF Quiet

\* A step of connection c leaves the traces of the others alone.
LEMMA OthersUntraced ==
    ASSUME TraceTypes, NEW c \in Conns, NEW d \in Conns, d # c,
           Connect(c) \/ ClientLine(c) \/ ServerStep(c)
    PROVE  span'[d] = span[d] /\ dropped'[d] = dropped[d]
<1> USE DEF TraceTypes, Report
<1>1. CASE Quiet(c)
  BY <1>1 DEF Quiet, Connect, Handle, Handshake, HandshakeFails, GreetFails, Authenticate,
              TraceResult, HangUp, Disconnect
<1>2. CASE Greet(c) \/ Ignore(c) \/ AnswerOk(c) \/ AnswerFail(c)
  BY <1>2 DEF Greet, Ignore, AnswerOk, AnswerFail
<1>3. CASE Refusal(c)
  BY <1>3 DEF Refusal, Junk, Malformed
<1>4. ASSUME NEW u \in Users, NEW right \in BOOLEAN, Attempt(c, u, right)
      PROVE  span'[d] = span[d] /\ dropped'[d] = dropped[d]
  BY <1>4 DEF Attempt
<1> QED
  BY <1>1, <1>2, <1>3, <1>4, StepKinds

\* Every step of any connection keeps the traces of all.
LEMMA TraceNext ==
    HandlerInv /\ HandlerInv' /\ TurnInv /\ TraceInv /\ [SessionNext]_sessionVars => TraceInv'
<1> SUFFICES ASSUME HandlerInv, HandlerInv', TurnInv, TraceInv, [SessionNext]_sessionVars
             PROVE  TraceInv'
  OBVIOUS
<1>1. ASSUME NEW d \in Conns, Alone(d), span'[d] = span[d], dropped'[d] = dropped[d]
      PROVE  Traced(d)'
  <2>1. Pending(d)' = Pending(d)
    BY <1>1 DEF Alone, Pending
  <2> QED
    BY <1>1, <2>1 DEF Alone, Traced, TraceInv
<1>2. ASSUME NEW c \in Conns, Connect(c) \/ ClientLine(c) \/ ServerStep(c)
      PROVE  TraceInv'
  <2>1. TraceTypes' /\ Traced(c)'
    BY <1>2, TraceStep DEF HandlerInv
  <2>2. ASSUME NEW d \in Conns, d # c PROVE Traced(d)'
    <3>1. Alone(d)
      BY <1>2, <2>2, OthersAlone DEF HandlerInv
    <3>2. span'[d] = span[d] /\ dropped'[d] = dropped[d]
      BY <1>2, <2>2, OthersUntraced DEF TraceInv
    <3> QED
      BY <1>1, <3>1, <3>2
  <2> QED
    BY <2>1, <2>2 DEF TraceInv
<1>3. CASE UNCHANGED sessionVars
  <2>1. TraceTypes' /\ \A d \in Conns : Alone(d) /\ span'[d] = span[d] /\ dropped'[d] = dropped[d]
    BY <1>3 DEF TraceInv, TraceTypes, Alone, sessionVars
  <2> QED
    BY <1>1, <2>1 DEF TraceInv
<1> QED
  BY <1>2, <1>3 DEF SessionNext

LEMMA TraceInvariant == SessionSpec => []TraceInv
  BY HandlerInvariant, TurnInvariant, TraceInit, TraceNext, PTL DEF SessionSpec

\* The trace of every connection agrees with what its client was told, as far
\* as the client could be told: a result is that of the answer that was sent,
\* or of one that was lost; one for a request at most and in their order;
\* nothing after the disconnect; and if nothing was dropped every OK is there.
THEOREM TracesTellTheTruth == SessionSpec => []TraceTellsTheTruth
<1>1. HandlerInv /\ TraceInv => TraceTellsTheTruth
  <2> SUFFICES ASSUME HandlerInv, TraceInv, NEW c \in Conns
        PROVE  LET s == span[c] IN
                 /\ \A i \in 1..Len(s) :
                       /\ Result(s[i]) =>
                             /\ WasTold(s[i], asked[c], out[c], lost[c])
                             /\ \A j \in 1..(i - 1) : Result(s[j]) => s[j].req < s[i].req
                       /\ s[i].stage = "disconnect" => i = Len(s)
                 /\ ~dropped[c] =>
                       \A i \in 1..Len(out[c]) : out[c][i].tag = "OK" =>
                          \/ \E j \in 1..Len(s) : s[j] = [stage |-> "auth_ok", req |-> out[c][i].to]
                          \/ hpc[c] = "traceOk" /\ out[c][i].to = Len(asked[c])
    BY DEF TraceTellsTheTruth
  <2>1. Traced(c)
    BY DEF TraceInv
  <2>2. ~dropped[c] =>
           \A i \in 1..Len(out[c]) : out[c][i].tag = "OK" =>
              \/ \E j \in 1..Len(span[c]) : span[c][j] = [stage |-> "auth_ok", req |-> out[c][i].to]
              \/ hpc[c] = "traceOk" /\ out[c][i].to = Len(asked[c])
    BY <2>1 DEF Traced, OksTraced, OkResult, Pending
  <2> QED
    BY <2>1, <2>2 DEF Traced, Truth, Ordered, EndsOnce
<1> QED
  BY <1>1, HandlerInvariant, TraceInvariant, PTL

-----------------------------------------------------------------------------
(* The types of all variables, with the counter of connections. *)

\* The connections whose handler runs or ran.
Begun == {c \in Conns : hpc[c] \notin {"none", "accepted"}}

\* The counter counts them, and no client is told more.
CountInv ==
    /\ count = Cardinality(Begun)
    /\ cuid \in [Conns -> 0..Cardinality(Conns)]

\* There are finitely many connections, no fewer than have begun.
LEMMA BegunCounted ==
    /\ Cardinality(Conns) \in Nat /\ IsFiniteSet(Begun)
    /\ Cardinality(Begun) \in 0..Cardinality(Conns)
<1>1. Begun \in SUBSET Conns
  BY DEF Begun
<1>2. IsFiniteSet(Begun) /\ Cardinality(Begun) <= Cardinality(Conns)
  BY <1>1, ConnsAssumption, FS_Subset
<1> QED
  BY <1>2, ConnsAssumption, FS_CardinalityType

\* Nothing has begun before anybody connects.
LEMMA CountInit == SessionInit => CountInv
<1> SUFFICES ASSUME SessionInit PROVE CountInv
  OBVIOUS
<1>1. Begun = {}
  BY DEF SessionInit, Begun
<1>2. count = Cardinality(Begun)
  BY <1>1, FS_EmptySet DEF SessionInit
<1>3. 0 \in 0..Cardinality(Conns)
  BY BegunCounted
<1> QED
  BY <1>2, <1>3 DEF SessionInit, CountInv

\* Only the start of a handler counts, and it counts one.
LEMMA CountNext == HandlerTypes /\ CountInv /\ [SessionNext]_sessionVars => CountInv'
<1> SUFFICES ASSUME HandlerTypes, CountInv, [SessionNext]_sessionVars PROVE CountInv'
  OBVIOUS
<1>1. count \in 0..Cardinality(Conns)
  BY BegunCounted DEF CountInv
<1>2. CASE UNCHANGED sessionVars
  BY <1>2 DEF sessionVars, CountInv, Begun
<1>3. ASSUME NEW c \in Conns, Handle(c) PROVE CountInv'
  <2>1. c \notin Begun /\ Begun' = Begun \cup {c}
    BY <1>3 DEF Handle, Goto, Begun, HandlerTypes
  <2>2. Cardinality(Begun') = Cardinality(Begun) + 1
    BY <2>1, BegunCounted, FS_AddElement
  <2> QED
    BY <1>3, <2>2 DEF Handle, CountInv
<1>4. ASSUME NEW c \in Conns, Connect(c) \/ ClientLine(c) \/ ServerStep(c), ~Handle(c)
      PROVE  CountInv'
  <2>1. count' = count
    BY <1>4 DEF ClientLine, ServerStep, Connect, Handshake, HandshakeFails, GreetFails,
       Authenticate, TraceResult, HangUp, Disconnect, Greet, Junk, Ignore, Malformed, Attempt,
       AnswerOk, AnswerFail
  <2>2. cuid' = cuid \/ cuid' = [cuid EXCEPT ![c] = count]
    BY <1>4 DEF ClientLine, ServerStep, Connect, Handshake, HandshakeFails, GreetFails,
       Authenticate, TraceResult, HangUp, Disconnect, Greet, Junk, Ignore, Malformed, Attempt,
       AnswerOk, AnswerFail
  <2>3. \E t : /\ hpc' = [hpc EXCEPT ![c] = t]
               /\ t \in {"none", "accepted"} <=> hpc[c] \in {"none", "accepted"}
    <3>1. CASE Connect(c)
      BY <3>1 DEF Connect, Goto
    <3>2. CASE Greet(c)
      <4>1. /\ hpc[c] = "greet" /\ hpc'[c] \in {"auth", "greet"}
            /\ hpc' = [hpc EXCEPT ![c] = hpc'[c]]
        BY <3>2 DEF Greet, Goto, HandlerTypes
      <4> QED
        BY <4>1
    <3>3. CASE Refusal(c) \/ Ignore(c)
      BY <3>3 DEF Refusal, Junk, Ignore, Malformed, HandlerTypes
    <3>4. CASE Quiet(c) /\ ~Connect(c)
      <4>1. /\ hpc[c] \notin {"none", "accepted"} /\ hpc'[c] \notin {"none", "accepted"}
            /\ hpc' = [hpc EXCEPT ![c] = hpc'[c]]
        BY <1>4, <3>4 DEF Quiet, Handshake, HandshakeFails, GreetFails, Authenticate,
           TraceResult, HangUp, Disconnect, Goto, HandlerTypes
      <4> QED
        BY <4>1
    <3>5. CASE AnswerOk(c) \/ AnswerFail(c)
      BY <3>5 DEF AnswerOk, AnswerFail, Goto
    <3>6. ASSUME NEW u \in Users, NEW right \in BOOLEAN, Attempt(c, u, right)
          PROVE  hpc[c] = "auth" /\ hpc' = [hpc EXCEPT ![c] = "verify"]
      BY <3>6 DEF Attempt, Read, Goto
    <3> QED
      BY <1>4, <3>1, <3>2, <3>3, <3>4, <3>5, <3>6, StepKinds
  <2>4. Begun' = Begun
    BY <2>3 DEF Begun, HandlerTypes
  <2> QED
    BY <1>1, <2>1, <2>2, <2>4 DEF CountInv
<1> QED
  BY <1>2, <1>3, <1>4 DEF SessionNext

\* The variables of the connections keep their types; the counter, which every
\* handler adds to by itself, never passes the number of connections.
THEOREM SessionTypesOK == SessionSpec => []SessionTypeOK
<1>1. HandlerInv /\ TraceInv /\ CountInv => SessionTypeOK
  BY BegunCounted, GreetingFacts DEF HandlerInv, HandlerTypes, TraceInv, TraceTypes, CountInv, SessionTypeOK
<1>2. HandlerInv => HandlerTypes
  BY DEF HandlerInv
<1>3. SessionSpec => [](HandlerInv /\ TraceInv /\ CountInv)
  BY <1>2, HandlerInvariant, TraceInvariant, CountInit, CountNext, PTL DEF SessionSpec
<1> QED
  BY <1>1, <1>3, PTL

-----------------------------------------------------------------------------
(* The server and its connections. *)

\* Under the server, whatever Start and Stop do, the connections behave as the
\* sessions do by themselves: the three theorems above hold of the server.
THEOREM ServerRunsSessions == Spec => SessionSpec
<1>1. Init => SessionInit
  BY DEF Init
<1>2. [Next]_vars => [SessionNext]_sessionVars
  <2> SUFFICES ASSUME [Next]_vars PROVE SessionNext \/ UNCHANGED sessionVars
    OBVIOUS
  <2>1. CASE Start \/ Stop
    BY <2>1 DEF Start, Stop
  <2>2. ASSUME NEW r \in Runs, Listen(r) \/ Loop(r) \/ AcceptFails(r) \/ CollectListener(r)
        PROVE  UNCHANGED sessionVars
    BY <2>2 DEF Listen, Loop, AcceptFails, CollectListener
  <2>3. ASSUME NEW r \in Runs, NEW c \in Conns, Accept(r, c) PROVE SessionNext
    BY <2>3 DEF Accept, SessionNext
  <2>4. CASE Handlers
    BY <2>4 DEF Handlers, SessionNext
  <2>5. CASE UNCHANGED vars
    BY <2>5 DEF vars, sessionVars
  <2> QED
    BY <2>1, <2>2, <2>3, <2>4, <2>5 DEF Next
<1> QED
  BY <1>1, <1>2, PTL DEF Spec, SessionSpec

\* Late clients are connections.
LEMMA LateIsAccepted == Spec => [](late \in SUBSET Conns)
<1>1. Init => late \in SUBSET Conns
  BY DEF Init
<1>2. late \in SUBSET Conns /\ [Next]_vars => (late \in SUBSET Conns)'
  BY DEF Next, vars, serverVars, Start, Stop, Listen, Loop, AcceptFails, CollectListener,
         Accept, Handlers
<1> QED
  BY <1>1, <1>2, PTL DEF Spec

\* Whatever Start, Stop and the clients do, every variable keeps its type: the
\* counter of connections and the ids taken from it stay within the number of
\* connections, the runs within the calls of Start.
THEOREM ServerTypesOK == Spec => []TypeOK
<1>1. SessionTypeOK /\ ServerInv /\ late \in SUBSET Conns => TypeOK
  BY DEF ServerInv, ServerTypes, TypeOK
<1> QED
  BY <1>1, ServerRunsSessions, SessionTypesOK, ServerInvariant, LateIsAccepted, PTL
=============================================================================
