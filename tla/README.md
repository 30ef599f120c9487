# Verification of ai.local

ai.local is a gateway in front of AI providers. Clients send requests with an
internal key (`sk-local-...`); the gateway looks the key up, checks the token
budget of the route, replaces the key by the provider's real credential,
forwards the request, and records the tokens of the answer in SQLite, where
the next budget check reads them. An administrator manages keys over gRPC.

This directory holds TLA+ models of that code, the TLC configurations that
check them on small instances, and TLAPS proofs of the main results for every
instance. `PROJECT.json` maps every modelling definition to the source lines it
stands for.

## Inventory

| Component (source) | State | Operations | Hard part |
|---|---|---|---|
| Usage pipeline (`internal/usage/worker.go`) | bounded channel, `done`, `dropped`, one worker goroutine | `EmitNonBlocking`, `StartWorker`, `Stop`, `writeRecord`, `executeTripleWrite` | emissions race the worker and the drain; full channel; failure or crash inside the transaction |
| Usage database (`schema/usage.sql`) | `usage_logs`, `daily_usages`, `monthly_usages` | insert, two upserts | three tables that must agree |
| Quota check (`internal/usage/store.go`) | none; reads the caches | `QuotaCheck`, `queryTokens` | check-then-act against caches that lag; midnight; fail-open |
| Usage reports (`internal/usage/store.go`, `grpc/handler.go`, `cmd/cli/stats.go`) | none; reads the three tables | `stats`, `GetStats`, `GetDailyStats`, `GetMonthlyStats`, `GetVerboseLogs` | three tables read while the worker posts; defaults filled in on both sides of midnight |
| Key store (`internal/keystore/store.go`) | two maps under one lock | `AddKey`, `DeleteKey`, `ListKeys`, `GetKeyByInternal` | two indexes over the same records |
| Reverse proxy (`internal/proxy/proxy.go`) | one goroutine per request, one more per stream | `authInterceptor`, `handleReverseProxy`, `executeMergeOptionsInline` | credential copied early and used late; stream charged after the answer; headers and body rewritten, in map order, from a body that may be cut |
| Response parsers (`internal/usage/parser.go`) | per stream | `ParseStandardJSON`, `ParseStreamReader` | early end of the scanner, hang-ups |
| Control plane (`grpc/`, `cmd/cli/`) | none of its own | key management, listings, statistics, debug switch | client timeout against a server that carries on |
| Lifecycle (`cmd/server/main.go`) | signal channel, deferred calls, three goroutines, backups of the configuration | start, shutdown, `fatalf`, `backupAPMLConfiguration` | shutdown order; exits that skip the drain; a signal or a failing listener half-way |
| APML configuration (`internal/apml/`) | constant after start | `Parse`, `validate`, `ResolveQuota`, the listings | consumers that rely on the validation rules |
| Certificates (`internal/tls/`), logging (`internal/logx/`) | two files; debug flag | generate, check, load; switch | two files written one after the other, by several processes |

How they interact: the proxy calls the key store and the quota check
synchronously and the pipeline through the channel; the quota check reads what
the worker writes; the control plane shares the key store with the proxy; main
starts everything, and on a signal stops the control plane, drains the worker
and exits, while the proxy is never stopped.

What makes each correct:

- pipeline: nothing is lost without trace, charged twice or reordered; the
  caches equal the log through every crash; Stop drains and returns;
- quota: a denial is justified by the log; a budget can be overrun only by
  requests that overlapped in time or were let through by a database error;
- key store: both indexes agree; a deleted key stays deleted;
- proxy: only served requests are charged, with the credential of their key;
- stream: what the client gets is metered, once, as the streaming block says;
  metering never blocks the stream for good, and cuts it short only at a line
  that does not fit the scanner's buffer;
- reports: a report is the audit log of one instant; a later one never shows
  less; `stats` shows the whole of the day on which it is entered;
- configuration: what is accepted can be metered, and what is listed is what is
  enforced, as long as the database answers;
- forwarded request: the real credential in place of the internal key, the other
  headers but for the two that go with a body in memory (`Content-Type` becomes
  `application/json`, `Accept-Encoding` is removed), the client's body with the
  provider's options whatever the order of the merge;
- lifecycle: certificate and key belong together unless a generation was
  disturbed; the worker is drained before its database is closed; a process that
  is started or stopped gets there;
- control plane: a shown key works until it is deleted, a deletion is final, a
  retry makes no second key, every command ends.

## Modules

| Module | Models | Checked by |
|---|---|---|
| `UsageSchema` | the tables, what a record adds to them, the upsert, totals | extended by all usage modules |
| `UsageLedger` | abstract specification: a record is posted at most once, to all three tables at one instant | refined by `UsageBackend` |
| `UsageBackend` | channel, worker, transaction, Stop, exit, crash, restart | `MCUsageBackend` |
| `KeyStore` | the two indexes and the methods on them, as steps for their callers | instantiated by `ControlPlane` and `Gateway` |
| `Gateway` | the request path, composed with `KeyStore` and `UsageLedger` | `MCGateway` |
| `StreamTap` | one streamed answer: copy loop, tee, pipe, parser goroutine | `MCStreamTap` |
| `ControlPlane` | CLI commands and the admin handlers, composed with `KeyStore` | `MCControlPlane`, `MCKeyStore` |
| `UsageReports` | the stats command, its handler and queries, over `UsageLedger` | `MCUsageReports` |
| `ApmlConfig` | operators: decoding, validation and listing of a configuration | extended by `RequestRewrite` |
| `RequestRewrite` | one request through authentication, quota check, rewriting and metering, under any configuration | `MCRequestRewrite` |
| `ServerStart` | server and `-gen-cert` processes over one data directory | `MCServerStart` |
| `UsageSchemaProofs` | lemmas on totals, upserts and postings, used by the other proofs | tlapm |
| `UsageBackendProofs`, `StreamTapProofs`, `ControlPlaneProofs` (with those about `KeyStore`), `GatewayProofs`, `RequestRewriteProofs`, `ServerStartProofs`, `UsageReportsProofs` (with the theorem about `UsageLedger`) | theorems | tlapm |

### UsageSchema

A usage record is an identity; `Usage[r]` holds its key, route and amounts.
Dates are numbers, months model values. A cache table is a total function from
its primary key to a row of counters: a missing row and a row of zeros are the
same to every query. `SumOf` adds by counting (`Cardinality` of a set of
units), which TLC evaluates and TLAPS can reason about without induction.

### UsageBackend

`queue`, `dropped`, `done` are the fields of `UsageBackend`; `pc`, `loop`,
`hand` and `tx` are the worker goroutine (program point, the `select` it returns
to, the record in its hands, the private view of its transaction); `db` is what
is committed and the only thing that survives `Crash` and `Exit`; `main` is the
main goroutine. `Receive`, `SeeDone` and `Drained` are the cases of the two
`select` statements; `TxBegin` to `TxCommit` are the statements of
`executeTripleWrite`, any of which may fail (`TxFail`). `Stop` closes `done`,
`StopReturn` is the end of `wg.Wait()`. The history variables give each record
a ticket in the order of emission and remember where lost records went.
Reaching the channel and taking a ticket is one step: for concurrent callers
the order of emission is the order in which the channel took their records.

### KeyStore

Each method holds the lock throughout and is one step of the handler or request
that calls it; the module has no specification of its own. Random identifiers do
not repeat (`FreshId`, `FreshKey`) and the hash is injective on the keys in use
(`DigestAssumption`). `issued` is history.

### Gateway

One goroutine per request: `Authenticate` (key and route), `StartQuotaCheck`
(the clock is read once), `CheckDaily`, `CheckMonthly` (separate queries, each
may fail open), then one of `UpstreamFails` (502), `UpstreamRefuses` (not 200),
`AnswerOneShot`, `AnswerTruncated`, or `StartStream`, `EndStream`,
`EmitStreamed` for a stream and its parser goroutine. `Emit` may lose the row
(full queue); `Persist` posts it or loses it (failed write). Between these
steps everything else interleaves: other requests, the administrator,
midnight, and `Restart`, which empties the key store and everything in flight.
The pipeline appears at the level of `UsageLedger`, which `UsageBackend` is
proved to implement; its order is not used here, so `pipe` is a set. The size
of the channel is abstracted to "may be full". The requests' amounts, the
estimates of `estimateInputTokens` and the quotas are parameters.

### StreamTap

Refines what `Gateway` does in `StartStream`, `EndStream` and `EmitStreamed`.
The body is a sequence of pieces of lines; a piece says what the parser would
see of its line if that ended there (`Grows`: more of a line shows no less), and
whether the line does end there. How far each party has got is a position in the
body: `arrived` at the copy loop, `taken` into the scanner's buffer, `scanned` as
lines, `sent` to the client. The copy loop (`copier`) reads any number of pieces
and writes them to the pipe (`tee`). The pipe has no buffer, so the tee waits
until the scanner has `taken` all of it (`TeeReturns`) or the parser has closed
its end (`TeeFails`); what is taken may not be scanned yet when the client gets
it. The scanner reads what its buffer has room for (`ScannerReads`), returns the
first line in it (`ScanLine`) or, at EOF, what is left (`ScanRest`), and gives up
when the buffer is full of one line (`ScanChokes`). The stream may end at any
piece: end of body, broken upstream, client gone. `Reference` restates the two
modes of `docs/APML-Spec.md` without a loop.

Sizes are counted in pieces: `BufferSize` of them stand for the 64 KB of
`bufio.MaxScanTokenSize`. The scanner starts with a smaller buffer and doubles
it; the model gives it the full size at once and lets it read less.

### ControlPlane

A call is one run of the CLI. `Invoke` sends its RPC, `Receive`, `TimeOut` (only
`key add` has a deadline) and `ConnectionLost` end it; the handler's actions go on
whether or not anybody waits, because no handler looks at its context.
`AddKey` refuses an unknown route, a blank credential and a duplicate, and may fail
on anything else, because the random UUID or key may not be had.
`ConfigureDebug` is two steps, a store and a load. `Signal` and `Exit` are
`GracefulStop`, which waits for running handlers; `Crash` loses them. Keys and
debug switch die with the process. `boot` numbers the processes, and `overtaken`
is history.

### UsageReports

A report is issued (`Stats` from the CLI, which fills in dates, year and count;
`Call` from another client, which need not), completed by the handler
(`GetStats`) and answered by one query, which sees one committed state; it may
fail, time out or be lost at any point. Meanwhile the ledger is posted to and
the day changes. An SQL order that leaves ties open is a choice among all
orders. `seen` and `issue` are history: the length of the log when the query
ran, and what had been logged and shown when the command was entered.

### ApmlConfig and RequestRewrite

A document is a sequence of top-level entries, which `UnmarshalYAML` folds into a
configuration: later entries overwrite earlier ones, blocks are merged into what
is there, a null empties a block, unknown keys are skipped. `Valid` follows
`validate` rule by rule. `ListRoutes` and `ListQuotas` are the handlers'.
`RequestRewrite` takes a document and a request: `Load` (Parse and
`setupRoutes`), `Authenticate`, `ReadForQuota`, `QuotaCheck` for the daily and for the
monthly window, `Rewrite`, one `Merge` per option in any order, `SetBody`, `Send`,
`Answer`. A JSON body is a function from paths to leaves, which is
what `gjson` and `sjson` make of it; headers are sequences of values. What a quota
window has used is arbitrary here, because `Gateway` computes it, and each of the
two queries may fail, which lets the request through at once. So a failed daily
query skips the monthly check; `checked` is history, and `EnforcedAsListed` names
both failures as the only ways around a limit that is listed. A client's
body may be cut: `Rewrite` then leaves the request alone, but the quota branch
has already put the part it got in the body's place (`damage` is history), and
`ForwardedAsMeant` says that this is the only way a partial body is forwarded.

`Rewrite` works on a copy of the client's headers: a header that its loop skips is
not removed, and one that it adds is there twice. So the internal key goes
because the credential is `Set` over it, in `Authorization` or in the provider's own
header. Where the provider has a header of its own, a client's `Authorization` is
skipped by the loop and is passed on nevertheless, whatever it holds;
`ForwardedAsMeant` treats it as one of the other headers, whose values all arrive.
With a body in memory `SetBody` (the end of `Rewrite`) overwrites `Content-Type` with
`application/json` and removes `Accept-Encoding`, whatever the client sent. A request
without a body on a route without a quota keeps both: its answer may be
compressed, and then the parsers find nothing in it.

The properties name three more exceptions, which the proofs brought out and which
documents of the run meet. `route list` shows `None` for a route without a
quota, and `alphaNameRegex` admits a quota of that name: the listings then seem to
give the route limits that nobody checks. A provider that wants its key in
`Accept-Encoding` or `Content-Type` never gets it with a body, because `Rewrite` writes
these after it has set the credential. The options of a stream are the leaves of one
YAML map, but `sjson` takes a key `a.b` for two steps: options `a` and `a.b` are in each
other's way, and Go does not fix the order in which they are merged.

### ServerStart

A process is a record: where main, the gRPC goroutine, the proxy goroutine and
the backup are, its worker and database, what it has read. A generation
truncates and writes the certificate and then the key; a write to a file that
another process has open or has written in the meantime leaves one of the two or
garbage. A server loads the configuration, checks that both files exist, opens
the database, makes its services, starts its goroutines, and only then listens
for signals; before that a signal kills. The proxy binds its port and reads
certificate and key at different moments. A service that is up may fail at any
later time (`ServiceFails`), which ends the process at once, in the middle of a
shutdown too. `GracefulStop` before `Serve` makes
`Serve` fail, which is a `fatalf` that skips the deferred calls. `good` and
`shared` are history: the pair that was last written undisturbed. The two files
of a backup are written in one step, and stand for one copy.

## Runs

| Run | Bounds | Shows |
|---|---|---|
| `usage_backend` | 3 records, channel of 2, 1 restart, 3 days in 2 months | types, accounting, order, exact drop counter, drain, caches equal to log, refinement of the ledger; a queued record is settled; Stop returns |
| `usage_shutdown` | the same | **violation**: a graceful shutdown can lose records |
| `key_store` | 4 commands (add; add, other credential or route; add or delete; delete), 3 keys, 1 restart | index agreement, no duplicates, revocation is final |
| `gateway_windows` | 2 requests of one key, 3 days in 2 months, daily 1 and monthly 2 | denial is justified, overrun is bounded by overlap, only served requests are charged |
| `gateway_shared` | 3 requests, 2 keys, one pool | overrun is bounded by overlap in mode shared |
| `gateway_live` | 2 requests, 2 routes, daily limit 0 | a served request is settled |
| `stream_tap` | streams of up to 4 pieces of 6 kinds, a buffer of 2, 3 streaming blocks | counts equal the reference, what is delivered is metered, only an overlong line cuts a stream; every stream is charged, once; the tee is never stuck |
| `stream_cut` | the same | **violation**: the parser ends before the stream |
| `control_plane` | 3 commands (any; add or debug off; add or delete), 2 keys, 1 restart | shown keys work, deletion is final, no second key, debug reply explained; every command ends; a graceful stop completes |
| `usage_reports` | 2 reports, 3 records, 3 days in 2 months of 2 years | a report is the audit log of one instant, a later one shows no less, today is complete |
| `request_path` | about 370 documents, 72 requests, 2 keys | accepted configurations meter, listings are enforced but for failing queries, requests are forwarded as meant |
| `server_start` | 2 processes, 2 configuration files, 1 edit, services failing at start or later | certificate and key match, shutdown in order, backups under their plan; every start and stop settles |

Why the bounds are enough to be interesting: with three records and a channel
of two, one record can be in the worker's hands while two fill the channel, or
two fill it and the third is dropped; one restart puts a crash between any two
steps and lets a second process work on the database of the first; three days
in two months make a record cross midnight and the end of a month between
emission, check and write. The amounts of the records differ, so that a cache
cannot be right by accident. In the gateway, request `r` costs `r` tokens:
limits of 1 to 4 are met exactly by some sets of requests and overrun by
others, and three requests allow two that overlap and one that follows. These runs
have one credential, so that a request is charged with the credential of its own key
is shown by `ChargesAreServed` rather than by TLC.
Four pieces of a stream are enough for a count to be set, kept and overwritten,
for two lines that wait in the buffer together, for a line that comes in two
pieces and one that overflows the buffer of two with something before or after it;
three commands for adding, deleting and adding again, or for a retry that meets
a list; two keys are as many as these need. Symmetry is used for identifiers
that are only compared (UUIDs, keys, credentials, calls), and in safety runs
only. Two reports are as many as `LaterReportShowsMore` compares. The documents
of `request_path` contain every streaming block over present and missing fields,
every quota over the modes and limits around zero, and single defects of
everything else, a quota called `None`, providers that want their key in
`Accept-Encoding` or `Content-Type`, and options in each other's way; the bodies set, contradict or stand in the way of the options
that are merged. Two processes meet in every pair of generation and server:
two generations overlap, a generation runs under a start, two servers compete
for the ports; a third would only repeat these. `CHECK_DEADLOCK FALSE` is set where the system may rest: all records
emitted and the process down, all keys issued, all commands ended, a stream over, all reports shown, a
request answered, all processes ended or serving.

Fairness. The Go scheduler runs a goroutine that can run, so the worker, the
stream parser and main during its shutdown get weak fairness. Clients, the
upstream, the administrator, signals, crashes and the clock get none.
`ServedIsSettled` starts when the stream has ended, because nothing makes the
upstream end it. `Persist` is weakly fair in `Gateway` because
`AcceptedSettles` holds of `UsageBackend`. In `StreamTap` reading from the
upstream is not fair; in `ControlPlane` the handlers, main's exit, and the
delivery of a reply or of the news of a lost call are. In `ServerStart` main and
the two serving goroutines are; signals, kills, edits and starts are not.

### Findings

- `usage_shutdown`: `worker.go:43-44` says that a graceful shutdown does not
  silently lose usage data. main stops the gRPC server and the worker, not the
  proxy; a record emitted after the worker has ended is neither written nor
  reported.
- `stream_cut`: `parser.go:25` says that the parser blocks until the stream
  ends. A line of more than 64 KB ends it too, and with it the client's stream.

`docs/APML-Spec.md` calls the daily budget a maximum (line 55) and says that the
next request is limited immediately (line 49). Neither is literally so: the
check sees an estimate of the input only, and the caches lag by the length of the
queue. `OverrunOnlyByOverlap` says what does hold: leaving out the requests that were
in flight together when a check of that budget last passed (or when its period
began), and those a database error let through, the rest stay within the limit.
Line 55 also says that budgets are reset at 00:00:00 UTC. `QuotaCheck`
(`store.go:94`) and the worker (`worker.go:160`) both take the local date of the
server. The models have one clock whose days are numbers, so they show that the
check and the charge agree on the day, not when that day begins.

## Proofs

All theorems hold for every value of the constants that satisfies the named
assumptions, all of which TLC evaluates on its instances:

- calendar and amounts: `CalendarAssumption`, `UsageAssumption`,
  `DayAssumption`, `StampAssumption`, `PeriodAssumption`, `TimeAssumption` (days
  and months are ordered alike), `MonthsAssumption` (a month has no gap);
- sizes: `QueueAssumption` (the channel has room for one), `BootAssumption`,
  `RestartAssumption`, `BoundAssumption`, `CountAssumption`;
- no collision of SHA-256 on the internal keys in use: `DigestAssumption`, where
  the key store is composed with others;
- what the inputs look like: `PiecesAssumption`, `ConfigsAssumption`,
  `ScriptAssumption`, `QuotaAssumption`, `RequestAssumption`, `AskedAssumption`,
  `StartAssumption`, `ClientsAssumption`, `HeadersAssumption`;
- what Go's types say of a decoded configuration (limits are integers, a prefix
  is a text): `DocumentsAssumption`, stated of the result of `Parse`, because what
  the fold of `UnmarshalYAML` computes for every document would take an induction;
- marks differ from data: `NamesAssumption`, `MarkAssumption` (no value is no
  configuration and no exit status), `UnsetAssumption` (a missing date is no
  day), `KeyTableAssumption` and `BodiesAssumption` (no value is no key and no
  body).

Every theorem is `Init => IInv`, `IInv /\ [Next]_vars => IInv'`, `IInv => Inv`, with
one lemma or step per action. Each inductive invariant was checked by TLC on the
instance of its run before it was proved; for `ReportInv`, which is slow to
evaluate, on the first million states.

**Usage pipeline** (`UsageBackendProofs`).

- `TypeCorrect`: types and the capacity of the channel. `TypeOK` is inductive
  because it says that a row never reaches the log without a date and that the
  worker of a dead process is gone.
- `InOrder`: needs `TxInv` (how far the private view of the transaction is from
  the committed database at each statement) and `TicketsIssued` (a record
  without a ticket is nowhere), which make `ChargedInOrder` inductive.
- `Refinement`: a commit is a `Post`, by `TxInv`; the record was not posted
  before, because everything logged is strictly older than what is in hand;
  every other step leaves the committed tables alone (`OnlyCommitWrites`).
- `CachesInBalance`: `PostBalanced` (in `UsageSchemaProofs`) shows that one
  posting keeps every cell of both caches equal to the total of its rows, by
  disjoint unions of finite sets of units; `TxInv` makes a commit a posting.
- `StopHasDrained`: `DrainInv` links `done`, the worker and main, and says that
  what an ended worker left in the channel came in after Stop was called.
- `RecordsAccounted`: `AccountInv` writes the partition out; that the head of
  the queue is not queued twice comes from the order of the tickets.
- `CountIsExact`: `CountInv` bounds the tickets by the number of emissions, so
  that a record lost now cannot have been counted in an earlier process; the
  counter is then the cardinality of a set that grows by one new element.

**Streams** (`StreamTapProofs`). `CountsAreReference`, `DeliveriesAreMetered`,
`OnlyOverlongLinesCut` (and `TypeCorrect`), from `TapInv`: `Positions` keeps the client
behind what the scanner has taken, and that within a buffer's length of what it
has scanned; `PipeInv` says who closes which end of the pipe; `ScanInv` that
a piece counts as a line only where one ends or the input does, and that the
parser stops only at the end of the input or at an overlong line; `Metered` that
the counts are the reference's. `ParseLineReference` shows that one turn of the
scanner's loop computes the reference of one more line; that a set of decisive
lines has a last one comes from the well-foundedness of < (`LastPosition`).
`NoDeadlock` and `TeeIsBounded` are what can be proved here of `TeeNeverStuck` and
`EveryStreamCharged`: neither goroutine waits on the pipe for one that will not
act, because each closes its end with its last step, and every step under a
waiting copy lowers `TeeLeft` (what is to be taken, what is to be scanned, what the
parser has left to do). What is left to TLC is that goroutines that can run do
run.

**Key store and control plane** (`ControlPlaneProofs`). `IndexesAgree`,
`CredentialsAreUnique`, `Revocation`, `ShownKeysWork`, `DeletionsAreFinal`,
`RetriesAreSafe`, `DebugExplained` (and `TypeCorrect`), from `ControlInv`. A handler's
access to the store is one step of `KeyStore`: `AddKeyInv` and `DeleteKeyInv` keep
`StoreInv`, which adds to the promises of the store that what is stored was
issued and that issued records differ in UUID and internal key. `BootInv` dates
the replies of earlier processes, whose keys are gone; `ShownInv` says that what a
reply shows was issued and is stored as long as its process lives and no deletion
of it has succeeded, from the handler's reply on, because the key may be deleted
before it is shown; `DeletedInv` that a deleted UUID was issued, so that no later
key gets it; `DebugInv` that a switch nobody has interfered with between the store
and the load is still as it was set.

**Request path** (`GatewayProofs`). `ChargesAreServed`, `DenialsAreJustified`,
`OverrunsAreOverlaps` (and `TypeCorrect`), from `GateInv`:

- `IndexInv`: a digest finds a record that was issued for the key it is the
  digest of; `ServedInv`: a request beyond authentication is entitled to the
  credential it was given, and answers and stages go together;
- `QueryInv`: what `queryTokens` would read in the caches is, for every request,
  window and day, the total of the audit log in that scope. Posting changes one
  cell, by as much as the log (`SumUpdate`, `SumExtend`). With it a denial is
  justified when it is given, and `Justified` stays true because totals only grow;
- `BudgetInv`: `Dated` (nothing is dated in the future), `ChecksCovered` (a
  request that has passed a check is one that the history of that budget holds,
  or that a database error let through; one before its check dates from this
  period or was in flight when it began), `RowsCovered` (so is a request whose
  row is on its way, in the period of the row) and `WithinBudget` (without these,
  the log is within the limit). `WithinBudget` is not inductive alone: a row may
  be posted long after its check, in another period, after other checks.

**Configuration and rewriting** (`RequestRewriteProofs`). `AcceptedIsMeterable`,
`ListingsAreEnforced`, `ForwardingIsFaithful`, from `PathInv`, for any documents,
requests, header names and keys:

- `ConfigInv`, `ClientInv`, `KeyInv`: the configuration in force was validated, the
  request is one of its routes, and the record is that of the presented key.
  `Valid` is enough for the rest, whatever the decoder has computed
  (`RouteFacts`);
- `QuotaInv`: a request that is let through has each limit kept or skipped for
  being zero, or met a failed query, a daily one with the monthly limit not
  looked at; only a limit above zero denies. Limits are not negative and a limited quota has one
  of the two modes, so that what was compared is what is listed;
- `OutInv`: the headers built by `Rewrite`, with those of the body once `SetBody` has
  run, and the announced length; a value that is copied twice is the
  same set of values (`Doubled`). A prefix of the form `authorization:` is no header
  name, and such a request never leaves;
- `MergeInv`: the body is the client's with just those options merged that are
  not to do any more. `OneMore` is the step: setting one more path on what some
  of the options made of a body is what these options and this one make of it,
  if no option is in the way of another. So the order does not matter.

**Lifecycle** (`ServerStartProofs`). `PairsStayIntact`, `StopsAreOrderly`,
`BackupsAreFaithful`, from `ServerInv`. `PairInv`: a writer that has been alone
has in the files just what it has written so far, and a pair that counts as good
is in both. `ProcInv` ties the program points of main and its goroutines to each
other: a server that is up when the signal arrives has nothing left that can
fail, and a copy that is being made is of the configuration that was loaded.

**Reports** (`UsageReportsProofs`).

- `LedgerCachesMatch`: the abstract ledger keeps both caches equal to the totals
  of its log; it is what the reports rest on.
- `ReportsAreAudits`: `ReportInv` says of each call that its request is as its
  caller left it, that what had been shown when it was issued was made from a log
  no longer than the one it will see, and that an answer is faithful to the
  prefix of the log that its query saw. A posting or midnight changes no prefix
  (`CallKept`). `TableRows`: a cell has a row in the cache just if it has one in
  the log, because each row counts one request; `OrderingExact`: any order that
  SQL picks has each row once; `LastRows`: the verbose rows are a suffix.
- `LaterReportsShowMore`: what a report says of a cell is the total of the cell in
  its prefix (`SaysTotal`); the later prefix is longer, the rows of a day are rows
  of its month (`DayInMonth`), and more rows do not amount to less.
- `TodayIsShown`: the dates that `handleStatsCommand` fills in are those of its
  own clock, and `GetStats` leaves them alone, because they are set.

Every invariant, action property and refinement that a passing run checks is
also proved. Only model-checked is liveness (`AcceptedSettles`, `StopReturns`,
`ServedIsSettled`, `EveryStreamCharged`, `TeeNeverStuck`, `EveryCommandEnds`,
`ShutdownCompletes`, `EveryStartSettles`): it needs fairness, and with it ENABLED,
which the installed provers do not handle. What `UnmarshalYAML` makes of a
document, entry by entry, is only model-checked too: it is a fold, and facts
about it need induction.

## Not modelled

- Generated protobuf code, log output and log rotation, prompts and tables,
  masking of keys, client addresses, the time of the last activity.
- What libraries do beyond what the code relies on: YAML below the top-level
  entries (a value decodes or does not), gin's rules for conflicting routes,
  `gjson` and `sjson` on arrays, wildcards and malformed documents, TLS, HTTP.
- The amounts of `estimateInputTokens` and of an answer are parameters.
- The names built from base URI and plan version (`PlanOf`): two base URIs that
  differ only in punctuation share a database, a log and a snapshot.
- A kill in the middle of a backup, which leaves a file cut short.
- SQLite is taken to be atomic and durable, and a failed commit to have had no
  effect; two servers on one database are not modelled beyond their start.

## Plan

- `Gateway`: the budget of a credential across restarts. `OverrunOnlyByOverlap` is
  about a scope; in mode `per_key` that is an internal key, and a credential that
  is registered again after a restart gets a new one, and with it a new budget.
