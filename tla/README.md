# A verification project for easymail

TLA+ specifications of the parts of easymail that keep state and meet
concurrency, failure or restarts, and of the algorithms on which its filter
rests; the TLC configurations that check them on small instances; and proofs
that TLAPS checks for every value of the constants.

Paths below are relative to the repository (`src/` is its root).

## 1. The system

easymail puts a mail system around Postfix. Postfix receives and sends; the
program authenticates SMTP users for Postfix over Dovecot's authentication
protocol, stores delivered mail, keeps domains, accounts and mails in MySQL, and
reports what happened in each protocol session to a tracer. The tree holds the
building blocks; several packages `cmd/api/main.go` imports (`bootstrap`, `wire`,
the HTTP handlers, the LMTP and milter servers) are not in it.

| Component | Source (`internal/...`) | State | Operations | Modelled |
|---|---|---|---|---|
| Session tracer | `pkg/tracer/sessiontrace/async.go` | channel, `stopCh`, per session a counter and `ended` | `NewAsync`, `Event`, `Error`, `End`, worker `run`, `Close` | `SessionTrace`, `TraceLog` |
| Program start and stop | `cmd/api/main.go` | the stage `main` is in | start all, wait for a signal, stop all, close the tracer | `App` |
| File sink | `pkg/tracer/sessiontrace/filejsonl/sink.go` | open file, buffered writer, `dayKey` | `New`, `Write` with rotation, `Close` | `FileSink` |
| Database sink, no-op tracer | `dbsink/`, `noop.go`, `util.go` | none of their own | one INSERT per event | no: a sink of `SessionTrace` is any `Write` |
| Dovecot server | `app/service/dovecot/` | `started`, `stopCh`, `count`; per connection the `Session` and the reply map | `Start`, `Stop`, `run`, `Handle` | `DovecotServer`, `DovecotSession` |
| Authentication service | `app/service/auth`, `infrastructure/persistence/mysql` | none | `Authenticate`, `Authorize` | `Login`; one step of `DovecotSession` |
| Mail directory | `app/domain/model/{domain,account,email}.go` | tables `domains`, `accounts`, `emails` | create, toggle, edit, delete, physically delete, find | `MailDirectory`, `Login`; `MoveMail`, `MarkRead` not |
| Mail storage | `app/service/storage/local.go` | files, one mutex | `Save`, `Read`, `Query` | `MailStore` |
| Configuration tree | `app/domain/model/configure.go` | table `configures` | three-level check-then-create, update, save | `Configure` |
| Filter rules, fields and metrics | `app/domain/model/filter.go` | tables of rules, fields, metrics | create, edit, toggle, delete; windows of the counters; conversion of a rule | `FilterMetric`, `MetricKey`; the conversion not |
| Preprocessing | `pkg/utils/preprocessing` | none | three tokenizers, HTML to text | `Tokens`, `HtmlText` |
| Similarity hashes | `app/domain/model/hash.go` | table | find or insert | no |
| SPF, DKIM, ssdeep | `app/service/milter/third_party/` | one evaluation or message | evaluate, verify, sign, hash | no: third-party code |
| Milter types | `app/service/milter/*.go` | none | constants, packet formatting | no |
| Database handle | `pkg/database` | `sync.Once`, a global handle | `Initialize` | no |
| HTTP site | `app/handler`, assets | none | empty files | no |

How they meet: a Dovecot handler owns one tracer session per connection and
calls the authentication service, which reads the directory; `Save` reads the
directory three times without a lock, then writes a file and a row under one;
the administration site changes the directory, the configuration and the
metrics meanwhile; the tracer's worker is the only writer of the sinks; `main`
stops the managers and then closes the tracer, while handlers may still run. A
mail is cut into tokens by way of `Html2Text` and a tokenizer, and the filter
counts it under the keys of the metrics.

What is hard here, and what it asks of the models:

- **Tracer.** Admission and send are two steps of any number of goroutines; a
  full channel drops; the worker's select is random; the drain races late
  senders; sinks are closed while sessions live on; a `Write` that panics takes the
  process with it. Correct means: each admitted event at most once in each sink,
  all sinks alike, given up only while the channel is full, in order for a
  handler's own session, nothing written after a sink's `Close`, and `Close`
  returns unless a `Write` panicked.
- **File sink.** The rotation closes the old file and sets the key before it opens
  the new one; a flush can fail within a line; a killed process leaves a torn line
  that a later opening appends to. Correct means: what is written goes to the file
  of its day or nowhere, nothing is glued to a torn line while its file stays
  open, a panic only where the rotation failed.
- **Dovecot.** `Stop` does not close the listener and `stopCh` is made once; the
  reply's id, user and error survive from earlier requests; the error of sending
  it is ignored, and the tracer drops. Correct means: one loop at a time accepts,
  at most one client after `Stop`, an OK answers exactly the request that earned
  it, a trace never contradicts what the client was told.
- **Directory.** Calls read, decide and write in separate statements; only
  indexes and transactions protect. Correct means: one account per address, a
  deletion is not undone by a toggle.
- **Login.** The domain, the account and its hash are read in separate queries and
  compared a second later. Correct means: a grant and a refusal were each justified
  at some time while the login was under way.
- **Storage.** Checks before the lock, truncating create, file before row,
  names reused in paths, a panic on a domain that is not there. Correct means: a row
  points to a whole file unless a retry cut it, in the directory of its owner,
  shared by no other account, and never for an account deleted before the call
  began.
- **Configuration.** Nodes are looked for and inserted at three levels without a
  transaction, an error counts as "not found", and the unique index does not bind
  roots. Correct means: what was created is found until an older root hides the
  one it is below, and a root that look-ups never reached stays empty.
- **Metrics.** Four requests read a row and write it later, each writing
  different columns, one of them leaving out what is zero. Correct means: a
  definition is what was asked for last but for those zeros, a deletion is undone
  only by a request that read before it, and nothing runs unasked.
- **Algorithms.** Remainders at the ends of hours, months and years; first and
  last pieces of a cut; elements removed while they are visited. Correct means: for
  the intervals and zones whose windows follow one another, a counter is never that
  of a window that is over; tokens are of the text and no pair of words or wide
  character is lost but stop words; the text of a body is what shows in it but for
  a few exceptions that can be named.
- **Program.** Nobody waits for the handlers. Correct means: a signal ends the
  program and what was queued before it is written, unless a sink panics.

`PROJECT.json` lists every hazard at its line.

## 2. Modules

    TraceLog                 what the tracer promises
      ^ implemented by
    SessionTrace             the tracer
      ^ extended by
    App                      main around it              <- SessionTraceProofs
    FileSink                 one sink of the tracer      <- FileSinkProofs
    DovecotSession           the connections
      ^ extended by
    DovecotServer            start, stop, accept loops   <- DovecotProofs

    Table                    tables as functions
      ^ used by
    MailDirectory            domains, accounts, mails    <- MailDirectoryProofs
      ^ extended by
    MailStore                Save against the tables     <- MailStoreProofs
    Login                    logins against the tables   <- LoginProofs

    Configure                the tree (uses Table)       <- ConfigureProofs
    FilterMetric             the metrics (uses Table)    <- FilterProofs
    MetricKey, Tokens, HtmlText
      ^ extended by
    Algorithms               all of them on growing inputs   <- FilterProofs

Each `MC*` module
gives constants and symmetry to TLC. In the modules some definitions are preceded
by a variant marked *Faulty*: the same operation with a bug that is easily made
there. No specification uses them. Putting one in the place of its original must
break the property that guards against it (`mutants` in `PROJECT.json`), which
shows that the property can fail.

**SessionTrace.** `pc[c]` is where goroutine `c` is in `emit`/`End`: `Admit` is the
critical section at async.go:130-136, `Send` the select at 150-154, `MarkEnded` the
second critical section of `End`. `RefuseEnd` and `RefuseEvent` are the early return.
The worker is `wpc`, `draining`, `cur` and `at`: `TakeEvent` is either select's receive,
`SeeStop` the `stopCh` branch (possible whenever the channel is closed, event or
no event), `WriteSink` one iteration of the loop over the sinks, `DrainEmpty` the
`default: return`. `CloseStop` and `CloseSink` are `Close`. An event is its session,
its number and whether `End` emitted it; the error of a `Write` is ignored by the
code, so a sink is the sequence of events handed to it. `WritePanics` is a `Write` that
panics: nothing recovers it, `alive` is false from there on and nothing moves. `Users[s]`
names the goroutines that hold session `s`, because the order of the calls is only promised
to a session with one. `Close` is called once, as `main` does; a second call
panics.

**TraceLog** is the abstract log: accept, record or lose, finish a session, shut. An
event is lost only while as many others as `Capacity` are on their way (`Crowded`).
`SessionTrace` implements it with `log <- sink[1]`, `Capacity <- QueueSize`, `shut` the
worker's exit or the panic, and `onTheWay <- Undecided`, the
events in callers' hands, in the channel or at the worker before the first sink.

**App** is `main`: `StartFails` is `log.Fatal`, which runs no deferred function; `StopAll`
is its return, with which the deferred `Close` begins; `Exit` is the end of the
process, after which no goroutine moves. The managers are in packages that are not
in the tree: a start succeeds or fails, and `StopAll` returns. `due` records what was
queued or at the worker when the signal came.

**FileSink.** `Write` runs under the sink's mutex and has one caller, so it is one
step: `WriteSameDay`, `WriteRotated` or `RotationFails`, with the tail `WriteLine`.
`file` is the open file (or none) and `dayKey` the day that the code compares the clock
with: two variables, as they are in the code, which sets the key first. `Clock` is
midnight or a clock that is set, ahead or back. A line is its day, the number of the
opening it went through, and whether it is whole. `Kill` may cut a line; `Restart` is
`New` in the next run. That no `Write` follows `Close` is `NoWriteAfterClose` of
`SessionTrace`, proved there.

**MailDirectory.** A table is a function from row ids to rows. A statement or a
transaction is one step; a call that reads and then writes is two, with what it
read in `adm[t]`. Every insert may fail as a whole (index, foreign key,
connection). Of gorm and MySQL, which are not in the tree, it takes: the unique
indexes of the struct tags; the foreign key from `accounts` to `domains` that
`AutoMigrate` creates for the `Domain` field; `Updates` with a struct skipping zero
values; `Create` saving a belongs-to association in the same transaction with
"insert or do nothing" (`SaveDomainOf`). `Email` has no such field, hence no
foreign key. CreateAccount's own duplicate check passes a bare user name to
`FindAccountByName`, whose `emailRegex` refuses it, so it never finds anything.

**MailStore** extends it with `Save`: `BeginSave` (the domain by name), `FindAccount`,
`FindDomain` (the domain by id), `Lock`, `CreateFile`, `CopyContent`, `InsertMail`,
each with its error path. `Die` is the end of the process: `Crash`, or the panic of
`FindDomain` on a domain that `FindDomainByID` does not find without saying so
(local.go:81), which is modelled as the end of the process since the caller that might
recover it is not in the tree. `opened` and the `gone` of a call are history for the
properties. The delivery server is not in the tree; that it may hand in the
same job again, after an error or a lost answer, is assumed of it.

**Login** extends the directory with `Authenticate`: `FindDomain`, `TakeAccount` and
`Verify` are its queries and the comparison of the hash, `DirectoryCall` the calls of the
administration, and `EditAccount` changes a password. `FindAccountByName` looks at no
error but "not found", so a failed query hands back an account without a hash.
`password[a]` is what the account's hash was made from. `seen` collects the answers
that the tables justified while a login was under way: a grant where the account is
there, active, with that password; a refusal otherwise. Of a right credential whose
domain is switched off or deleted both are justified (`Justified`): the code grants
it, while `Save` refuses its mail. (The comment at account.go:143-148 speaks of a default
domain for a name without one, where the code returns an error; the models follow
the code, and no run is about the comment.) A login that meets a failed query answers
like a refusal and is told apart in the model as "failed".

**DovecotSession** follows `Handle`: counter and span, handshake, six greeting
lines, then the loop. A client line is junk (fewer than three fields), ignored (another
command, which gets no answer), short (an AUTH whose id is not read because it has too
few arguments), malformed (an AUTH that is refused before the credentials) or
credentials that are right or wrong; a read error and the end of input are `HangUp`.
`sid` and `dataUser` are the variables that survive from request to request. `Send` is
`sendData`, whose error nobody looks at: `lost[c]` says that it has failed. `Report` is the
tracer's `emit`, which may drop (`dropped[c]`). A reply carries the number of the line it
answers as history. A client gives each AUTH a fresh id, as Postfix does: the id is
the number of the line.

**DovecotServer** adds `Start`, `Stop` and a `run` per successful `Start`, each with its
own listener. Nothing in the code closes a listener; `CollectListener` is the
garbage collector doing so after `run` returned. `panicked` is the closed `stopCh`
closed again.

**Configure.** `calls[c]` is where a `CreateConfigure` stands: per level a look
(`FindNode`), an insert and a second look (`FindAgain`). A root's insert is two steps,
`InsertRoot` and `CommitRoot`, because nothing makes two of them wait for each other
and a row with a lower id may be seen later; that of a child is one, because the
unique index does. `ReadForSave` and `Save`, and `UpdateConfigure`, change values.

**FilterMetric.** `adm[t]` is what a request read and has yet to write. What differs
is the write: `UpdateMetric` the non-zero columns, `WriteToggle` one column,
`EditMetric` the whole row, each of them one that may fail; `DeleteMetric` is one step
because rows never go away. `asked` records what the last request wanted each column to
be, zeros included, and what it can `get`: an update leaves out what is zero (`Asked`).

**MetricKey** computes the keys and timeouts of the counters over minutes of UTC and the
calendar: a zone is an offset and, from some instant on, a shift (daylight saving), both
in minutes; `Instant` is what `time.Date` makes of a local time that is skipped or comes
twice; Go's `Date` and `AddDate` overflow months and days; `Truncate` counts from year 1
in UTC whatever the zone. **Tokens** has the three
tokenizers over texts of nine kinds of characters; the segmenter is external. All
three cut a text with `Pieces`, one character after the other, at marks that are left
out and at places where a piece begins; `Drop` leaves elements out.
**HtmlText** has `Parse` over trees of elements, with the replacement of headings in
the text before parsing and what the parser makes of it (external). **Algorithms** lets
a clock, a text or a document grow, so that every bounded input is a state and the
properties are invariants.

## 3. Runs

| Run | Asks | Bounds | Result |
|---|---|---|---|
| `SessionTrace` | at most once, handler order, no write after close, implements `TraceLog` | 2 goroutines, a private and a shared session, 2 sinks, channel of 2, 2 events per session | 888 318 states, holds |
| `App` | a signal ends the program; what was queued is written, in any case by the exit, unless a sink panics | 2 goroutines, a shared session, 2 sinks, 3 events | 323 070 states, holds |
| `FileSink` | right day, torn line last of its opening, panic only after a failed rotation | 2 days, 3 lines per file, 4 openings | 3 288 436 states, holds |
| `Login` | grants and refusals were justified; address unique, deletion final | 1 login, 1 name, 2 domains and 2 accounts in turn, 2 users, 2 passwords, 2 overlapping requests | 2 822 870 states, holds |
| `MailStore` | stored is whole, owner's directory, no shared file, the lock comes back, no mail for the dead | 2 deliveries, 2 saves, 1 user, 2 names, 2 domains, 2 accounts, 1 request, 1 crash or panic | 5 482 706 states, holds |
| `DovecotSession` | greeting first, OK earned, answers in turn, trace true, request answered | 1 connection, 3 lines, 2 users | 1 636 572 states, holds |
| `DovecotServer` | types, one acceptor, one client after stop | 2 connections that write no lines, 2 starts | 893 295 states, holds |
| `Configure` | what was created is found until hidden, spare roots are empty | 2 callers, 2 settings that share a root, 4 rows | 1 492 761 states, holds |
| `FilterMetric` | definitions are what was asked for, only stale requests undelete, only a switch activates | 2 requests, 2 metrics, 2 columns of 2 values | 2 303 391 states, holds |
| `Algorithms` | keys and timeouts, tokens, visible text | texts of 5 characters, documents of 3 elements, the clocks below | 1 589 848 states, holds |
| `RootTwice` | one node of a name below a parent | 2 callers | **violated** |
| `DomainGone` | a physical deletion is final | 1 domain, 2 requests | **violated** |

Why the bounds are enough for what they ask: every hazard above needs at most
two actors and one round of reuse. Two events per session reach the limit, a
channel of two is filled and emptied, two sinks have a first and a last; two
domains, even of one name, allow the name to be given again; two saves are two
deliveries or one and its retry; two starts are the one restart after which
nothing new can happen, since `stopCh` stays closed; three lines let an old id, an
old user and a new answer meet, and an answer get lost before, between or after the
others. What lines do is no matter of the accept loops, so the server's run has none. A
login has three reads and one comparison; two requests of two steps take any place
between them and overlap, as two creations of one address do, and more than two are
left to the theorems. Two openings of one file and two of another have a failed rotation
or a restart between them; two days are one change of the key and, as the clock can be
set back, the way back. Four rows of the tree are two roots
of one name and a chain, or one root with two. A fifth character gives a text that
has a separator at both ends and between two words; three elements nest or stand
beside each other. The clocks run, in zones of -5, 0, 5:30 and 9:30 hours and in zones that
are set back an hour or ahead a half or a whole one on the way, through three hours
for intervals of minutes that divide the hour and others, through three days for
intervals of hours that divide the day and others, and from 20 December 2023 to 5 April
2024 for one and two days, weeks, months and years: both ends of a year,
a week that is in two years, and a leap day. Bounds are constants whose names begin with
`Max` and appear only as guards. `CHECK_DEADLOCK FALSE` stands where the system may
really stop: a program that exited or whose sink panicked, a server that panicked or whose connections are
all over, a sink whose process is gone for the last time, an input that has grown
to its bound.

**Fairness.** `App`: weak fairness of the worker, of a `Close` under way, of a call
under way (the Go scheduler runs what can run), of `StopAll` and the exit, all of
them only while the process lives (an exit, `log.Fatal` and a panic end it); nobody has to call anything, and no signal has to
come. `DovecotSession`: weak fairness of the handler's own steps; no client has to write
or hang up, as the code sets no deadline. As writes have none either, this assumes that
clients read what they are sent, or that their connections break. In the model a session emits finitely
many events; in the program a caller that never stops could keep the drain, and
so `Close` and the exit, busy.

**The two violations.** `RootTwice`: `CreateRoot` inserts a parent that is NULL, and
the unique index on name and parent binds no row with a NULL, so a call that does not
see the root of another inserts a second of its name: it looked before that row was
there, or its query failed, which the code takes for "not found" (configure.go:121).
TLC's trace shows one or the other. `Configure` shows what holds nevertheless. `DomainGone`:
`CreateAccount` reads the domain, hashes the password, and lets gorm save the
association; a physical deletion in between is undone.

**What the models have and no run asks,** because no statement of the repository
says otherwise or nothing depends on it:

- `DeleteDomain` passes a struct with `Active: false` to `Updates`, which writes non-zero
  fields only: a deleted domain stays active (domain.go:187). `ValidateDomain` tests both
  flags; a login tests neither. In the same way `UpdateConfigure` cannot write an empty
  value, and `CreateFilterMetric` with an id no zero (filter.go:353): a request for the unit
  minute, the operation count or the category all is not applied. `DefinitionIsKept`
  names this as the only way a column can differ from what was asked for last.
- The "background" deletion of mails that the comment on `PhysicalDeleteDomain`
  names does not exist: rows and files stay (domain.go:157).
- The connection counter is loaded again when CUID is sent: two connections can be
  given one id (server.go:216). Nothing in the tree uses it.
- `Listen` fails in a goroutine: `started` stays true and nobody is served
  (server.go:119). The panic of a second `Stop` is the theorem `PanicIsASecondStop`.
- A rule whose operator is `hasPrefix`, `hasSuffix`, `notEquals` or `notEqual` loses its
  condition, because the word is compared after `ToLower`, and becomes wider than it
  was written where it has others (filter.go:183). The conversion is one expression
  without state and is not modelled.
- An answer that could not be sent is traced like one that was (server.go:306, 321), and
  a `Write` that panics loses what is queued (async.go:62, sink.go:64).
- `ValidateDomain(*domain)` panics when the domain is not found (local.go:81).
- Nothing validates the interval of a metric, and one of zero panics. Keys go back, and a
  count falls into a window that is over: for 7 minutes where the hour ends, 5 hours where
  the day ends, 3 hours in a zone nine hours and a half off, 2 days or 3 weeks in America,
  2 months or years anywhere, and minutes where daylight saving ends. There an hour of the
  clock lasts two, and a counter of one hour expires inside it. `Even` and `TogetherIn` in
  `Algorithms` say where none of this happens, and the two properties are about that. A
  year takes its remainder from the month; a counter of months or years lives 30 or 365
  days and can expire before a window of 31 or 366 is over. A unit that is none of the
  six has an empty key and a timeout of five minutes.
- A separator of several bytes is keyed by its first byte; the rune 255 is in neither
  alphabet; a fuzzy chain asks for the length of the word it leaves out;
  `CombineToken` makes an empty token of fewer than two words. Words of letters that
  `TokenizeAscii` leaves out and fuzzy tokens are not looked at by any property.
- A heading with attributes never ends, because its end tag is replaced and its start
  tag is not: it takes in what follows, which is removed with it. A size is taken for
  nothing by its first character (html2text.go:124-135): what has `font-size:0.9em` is removed
  although it shows. `display:none !important` is left in tags other than span and div,
  and `display: none !important` in all. `Lost` and `Kept` in `Algorithms` are these
  exceptions, and `TextIsWhatShows` says that there are no others.

## 4. Proofs

TLAPS checks, for every value of the constants that satisfies the assumptions
stated beside them:

`SessionTraceProofs`, about the tracer and the program:

- `TypeCorrect`: `Spec => []TypeOK`. `TypeInv` adds the phases (`Phases`): what each
  control state says about the others, e.g. that `Close` is past its wait only when the
  worker is done.
- `WritesEndBeforeClose`: `Spec => NoWriteAfterClose`, from `TypeInv`.
- `DeliveredAtMostOnce`: `Spec => []AtMostOnce`. The property is not inductive: it
  says nothing of the event the worker holds, or of two places before the sinks. `UniqueInv` says that
  every admitted event is in one place: `AllNumbered` (numbers handed out are at
  most `eventCnt`), `CallerAlone`, `QueuedAlone`, `TakenAlone`, `HandedAlone`. There is
  one lemma per step that moves an event and one for the steps that move none.
- `HandlersAreInOrder`: `Spec => []HandlerOrder`. That a sink is in order says nothing
  of what is still to come to it. `OrderInv` lines up the sinks, the event at the
  worker and the channel (`Lined`) and puts the event a caller holds behind all of
  them (`Behind`): for a session that one goroutine holds, numbers grow along the line
  and `End`'s event is the last, because the flag is set, or about to be, once that
  event is sent (`EndKnown`).
- `SinksAlwaysAgree`: `Spec => []SinksAgree`; the strengthening is that `at = 1`
  outside the loop over the sinks.
- `TracerIsALog`: `Spec => ImplementsTraceLog`, step by step from the two
  invariants above; that an event is given up only in a crowd rests on the events in
  the channel being all different.
- `AppKeepsTracer`: `AppSpec => Spec`, which carries all of these to the program.
- `AppTypes`, `ExitLeavesNone`: `AppSpec => []NoneLeftAtExit`. `AppInv` says that an
  event that was due is, for each sink, there, at the worker before that sink, or
  queued with a worker that lives (`DuePlaced`), and that an exit comes after `Close`
  (`MainPlaced`).

`FileSinkProofs`, about the file sink (`SinkAssumption`): `SinkTypes`,
`LinesStayInTheirDay`, `TornLinesAreLast`, `PanicsComeOfRotation`. `SinkInv` adds what they do not
say of the open file: it is the one of the key, because whatever sets the key first
closes the file (`FileOfKey`); none is open only after a rotation to the day of the key
failed (`NilAfterFailure`); no line is of an opening to come (`OpeningsSoFar`); and where a
line of the last opening was cut short, its writer holds an error or is gone
(`TornIsOver`). The tail of `Write` and the line itself are lemmas that the actions share.

`MailDirectoryProofs`, about the tables (`DirectoryAssumption`: there are names and
users, the bounds are numbers): `DirectoryTypes`, `AddressesAreUnique`,
`DeletionsAreFinal`. `DirInv` adds the unique indexes (`NamesUnique`, `AccountsUnique`), the
foreign key (`AccountHasDomain`) and that ids are not given out again (`Fresh`): a
physically deleted domain that `CreateAccount` saves again must not meet another
row under its id. `Stable`, which every step satisfies, is what the storage and
`DeletionsAreFinal` need: no id given twice, no row undeleted, no user, domain or
name changed.

`LoginProofs`, about logins with any number of overlapping requests
(`LoginAssumption`: the empty hash is no password's): `LoginTypes`, `GrantsWereTrue`,
`RefusalsWereTrue`, and `LoginsKeepDirectory`, which carries the directory's theorems
over. `LoginPlaced` relates what a login read to what was noted: a hash that matches was
that of an active account at that address, one that does not match was not, and a
domain that went away since it was read justified a refusal by its going. It needs `OneName`:
whatever knows a domain id, the table or a `CreateAccount` about to save it again,
knows it by one name. `Origins` says of a directory step where each domain comes from
and what becomes of it.

`MailStoreProofs`, about `Save` together with the directory's steps
(`DirectoryAssumption`, and `StoreAssumption`: `Nobody`, the free lock, is no delivery):
`StoreTypes`, `LockComesBack`, `StoredMailIsWhole`, `MailsLieWithTheirOwner`,
`FilesAreNotShared`, `TheDeadGetNoMail`, and `DirectoryHoldsUnderSave`, the directory's
theorems for tables that `Save`, crashes and panics change too.
`StoreInv` adds that a delivery between `create` and `insert` holds the lock (`Locked`),
that a path has been opened at least as often as it has rows and once more while a
file is filled (`Counted`), that what a call read of its account stays true as long
as that account exists (`KnowsOwner`), and that accounts dead when a call began stay
dead and are not the ones it found (`GoneIsGone`). Steps of the directory keep it by
`Stable`.

`DovecotProofs`. About the server (`ServerAssumption`: `MaxStarts` is a number):
`OneLoopAccepts`, `StoppedServerServesOne`, `PanicIsASecondStop`, from `ServerInv`: a run
that serves holds the address alone (`Holds`), once `stopCh` is closed nobody goes
back to `Accept`, so a run that is still in it has not served its late client
(`LateOnce`), and a `Stop` needs a `Start` (`StopsNeedStarts`). About the connections
(`SessionAssumption`: `NoUser` is no user): `GreetingComesFirst` and
`EveryOkIsEarned`, from `HandlerInv`, which says for each connection where its handler
is in the greeting (`Place`), that the id kept from earlier requests is at most the
number of the line and, while a request is worked on, is that request's (`OwnId`), and
that every answer sent so far was deserved (`Answers`). `EveryLineInItsTurn` adds
`Turn`: each answer follows the one before it (`InTurn`), its line is the next that calls
for one, and between the last answer and the line read last there are only ignored
ones (`Silent`) but for the request worked on, as long as no answer was lost. It is
inductive because id and user of the session are those of the last reply
(`Remembers`), the id but for a request that is worked on, until an answer is lost; after
that nothing is sent. `TracesTellTheTruth` needs `Traced`: a traced result is that of the
answer to its request (`Truth`), results are of lines further and further down (`Below`,
`Ordered`), nothing follows the disconnect (`EndsOnce`), and of each OK that was sent there is
a result or the handler is about to report it (`OksTraced`), unless an event was dropped.
`SessionTypesOK` and `ServerTypesOK` are the types; that the connection counter stays
within the number of connections (`CountInv`) holds because each of them is counted
once, at its beginning (`Begun`), and needs `ConnsAssumption`: they are finitely many.
`ServerRunsSessions` carries the theorems over: the server's specification
implements that of its sessions.

`ConfigureProofs` (`ConfigureAssumption`: settings are paths, the empty value is none of
the others): `TreeTypes`, `CreatedStaysFound`, `SpareRootsStayEmpty`. The two properties
are inductive only together with where every call stands (`Placed`): below the first
root of its name, or below one that was the first until an older root was committed
(`UsableRoot`; such roots are in `hidden`). `Fresh`, `ChildrenUnique` and `ParentsExist` are ids, index and foreign
key; `Keeps` is what no step does to a row.

`FilterProofs`, about the filter.

- The metrics (`MetricAssumption`: the bounds are numbers): `MetricTypes`,
  `DefinitionsAreKept`, `DeletedUnlessStale`, `ActiveBySwitch`, from an invariant that
  says what a request holds against what it read (`Holds`) and each column against what
  was asked for it (`Obeyed`).
- The keys: `KeysMoveOn`, for every zone with any shift, every time and every interval that
  is `Even`: a later time has no earlier key, and a timeout later has another one, where
  the clock is not set back. For minutes and hours it comes from `NextMultiple` (the two
  steps of the rounding and the cut together give the next multiple of the interval) and
  `NextMultiplesMoveOn`; `RoundingMovesOn` and `CutsMoveOn` say what each of the two keeps where
  they disagree; `LocalMovesOn` that local time goes on but for the shift. The longer units
  need the calendar: every day is in a year among those that `YearOf` tries
  (`YearExists`) and in one of its months (`MonthFacts`), a later day in no earlier one, and
  a week that begins in one year and ends in the next has one number (`WeekKeysMoveOn`).
  `NoKeyGoesBack` and `WindowsFitTimeouts` state it for the clocks of `Algorithms`, of which
  `ClocksAssumption` says only that they are stretches of time, with any interval, in a
  zone less than a day off.
- `TextsAreWhatShows`: for documents of any size, what `Parse` returns is what shows but for
  `Lost` and `Kept`. `LeftText` says it in the terms of the code, removed, emptied or taken
  in by an open heading, and `LostAndKept` translates.
  `Around` and `WrittenAround` are recursive functions on the elements. That there are
  such functions (`UpwardExists`), that what an element is written in is around it
  wherever the parser puts it (`WrittenIsAround`), and that nothing else is when no
  heading is open before it (`UntakenIsWritten`), is proved from one fact: of the
  elements for which a statement fails there would be a first (`LeastNumber`,
  `ElementByElement`), which takes the place of an induction rule. `InputOK`
  says that an element is written in an earlier one.
- `BasicCutsAreExact` and `TokensTellTexts`, for texts of any length. `Pieces`, `Drop`
  and the library's `FlattenSeq` are recursive functions along a sequence: `StepByStep`,
  from `NumberByNumber`, shows that there is the sequence of their intermediate results
  (`PieceSteps`, `DropSteps`, `FlattenSteps`), and facts about the results follow step by
  step. The pieces joined are the text without marks (`NothingIsLost`); a wide character
  stays alone when `Cuts` cuts around it (`WideAlone`). For `TokenizeAscii` it is
  `Standing`: every word read so far stands in the text after the bar that ends the word
  before it, so that words next to each other, joined by a blank, read as the text does
  (`WordsInPlace`, `ReadsOn`). What `CombineToken` writes begins with the pair of words
  (`WindowsOfWords`).

The strengthened invariants were model-checked on the small instances before they
were proved. The bounds of the models appear in the theorems as constants of any
size. Type invariants are theorems rather than properties of runs, except those of
`DovecotServer` and `App`, which are both.

Only model-checked: liveness (`SignalEndsProgram`, `QueuedIsWritten`,
`RequestIsAnswered`), because TLAPS has no reasoning about fairness here.

## 5. Not modelled, and what is left

- The database sink and the no-op tracer (a statement per event; nothing), the
  milter types (constants and packet formatting), the database handle (a file read
  and connections opened once; `AutoMigrate`'s schema is part of the modules of the
  tables), the HTTP site (empty Go files and assets), reading the configuration file.
- SPF, DKIM and ssdeep: third-party code kept in the tree, not the program's own
  logic, and mostly parsing, cryptography and hashing.
- The LMTP and milter servers, bootstrap and wire are not in the tree.
- `hash.go`: find or insert of one row under two unique indexes, with no caller in the
  tree; it is the pattern of `InsertNode` in `Configure`.
- `MoveMail` and `MarkRead` change one column that nothing else reads; the listing
  queries change nothing; quota and expiry of accounts are stored and not looked at.
- The counters of the metrics live in a store whose code is not in the tree: the
  models have their keys and timeouts, not their values.
- Of the preprocessing: titles, meta, video and input elements, the segmenter, and the
  constructors behind `sync.Once`, which return nil when they are called a second time.
- The connection pool, in which `EditAccount` leaves a transaction open when hashing
  fails.

Next would be the liveness of `Save`, whose lock `LockComesBack` shows to be given
back.
