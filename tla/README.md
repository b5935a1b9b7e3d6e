# Google Feed Parser: specifications, model checking and proofs

TLA+ models of the feed parser service in `src/`, the TLC configurations that
check them on small instances, and TLAPS proofs about all of its components.
`PROJECT.json` holds the same information in machine-readable form: which lines
each definition models, what each run checks, the mutated definition that each
property refutes, the hazards of the code and the theorems.

## 1. The system

A client sends a command (a shop's feed URL) to a RabbitMQ queue. A replica of
the service takes it, opens a *run* for the shop in Postgres, fetches the feed,
decodes it, stores its products batch by batch, marks what the feed no longer
has as deleted, and closes the run.

| Component | State | Operations | Hard behaviour |
|---|---|---|---|
| Commander (`pkg/v1/commander`) | none | `SendParseCommand`, `Send` | publishing is neither mandatory, persistent nor confirmed |
| RabbitMQ (`internal/platform/rabbitmq`) | channel, deliveries, `isRunning` | `Publish`, `Consume`, `consumeMessages`, `ackMessage`, `nackMessage`, `pushError`, `Done` | acknowledgements lost with a connection, redelivery, shutdown, no prefetch limit |
| Handler (`internal/handler`) | none | `Start`'s callback | any error drops the command |
| main (`cmd/parser`) | context, connections | start, signal, wait, close | main waits for the loop, the loop for main |
| Parser (`internal/parser`) | version, run, batch, counts | `Parse`, `parseProducts`, `filterProducts`, `updateProducts`, `finishParsing` | three goroutines, two unbuffered channels, one errgroup |
| Decoder (`internal/decoder`) | XML position | `Decode` | errors in the middle of a file, cancellation |
| Fetcher (`internal/fetcher`) | HTTP response | `FetchFile` | timeouts while the body is read, bodies left open |
| Storage (`internal/platform/storage`) | tables shop, run, product, shipping | `StartRun`, `FinishRun`, `UpdateProducts`, `DeleteOldProducts` | READ COMMITTED, row locks, work outside the transaction, lost commit replies |
| Schema (`migrations`) | constraints | | `unique_shop_url`, `unique_product_id_shop` |

They interact by calls (handler -> `Parse` -> storage), by channels (the
goroutines of `parseProducts` and of `DeleteOldProducts`), by messages (the
broker) and, between replicas, only through the database.

What makes each correct:

- **Pipeline**: storage gets a prefix of the feed whatever fails; nil means all
  of it; no goroutine is left blocked or storing; the run's status is the real
  cause.
- **Feed**: nothing is deleted as outdated unless the whole document was read,
  was well-formed and gave all its products; an error of `Parse` is an error of
  the run and the other way round; no connection is held for good.
- **Runs**: a shop has one unfinished run at a time; a run is finished once, by
  its own worker; every run is finished.
- **Consumer**: a command is acknowledged only after a success, never forgotten,
  never handled twice at once, settled in the end; a signal ends the process.
- **Catalog**: after a success the live products are those of the feed; versions
  grow and only outdated products are deleted, unless an overlapping import came in
  between; each deleted product is counted once.
- **Service**: an acknowledged command has a successful run; a command is
  imported twice only if something broke.

## 2. The modules

| Module | Models | Checked by | Proved in |
|---|---|---|---|
| `Pipeline` | `parseProducts` and its goroutines | `MCPipeline` | `PipelineProofs` |
| `Import` | what an import promises (abstract) | `MCPipeline`, as a property | `PipelineProofs` |
| `Feed` | `Parse` with `FetchFile` and `Decode`, token by token | `MCFeed` | `FeedProofs` |
| `Runs` | `Parse` around `StartRun` and `FinishRun`, several replicas | `MCRuns` | `RunsProofs` |
| `Consumer` | `Publish`, `consumeMessages`, `main`, the broker | `MCConsumer` | `ConsumerProofs` |
| `Catalog` | `UpdateProducts` and `DeleteOldProducts` on the tables | `MCCatalog` | `CatalogProofs` |
| `Service` | `Consumer` and `Runs` composed, by the handler | `MCService` | `ServiceProofs` |

The modules cut the system where its parts meet in a call that returns:

- `Service` is where `Consumer` and `Runs` meet. Each leaves open what the other
  decides: `Consumer` what the handler returns and when, `Runs` when commands
  come and when a process ends. `Service` instantiates both and joins their
  actions; it is proved to implement each.
- `Runs` takes "fetching, parsing and deleting ended" as one action (`EndWork`);
  `Feed`, `Pipeline` and `Catalog` are what happens inside.
- `Feed` is sequential and has the document; of the goroutines it keeps that a
  batch may fail to be stored (`StoreFails`). `Pipeline` has the goroutines, and
  of the document which items are good and how it ends.
- `Pipeline` takes `UpdateProducts` as one atomic commit or failure; `Catalog`
  opens it up statement by statement. `Pipeline` implements `Import`.
- `Catalog` lets imports of a shop overlap; `Runs` shows when they do.

### Pipeline and Import

A product is the position of its `<item>`. An unbuffered send and its receive
are one action (`SendResult`, `SendBatch`) with a guard on both goroutines; a
closed channel is the sender's pc being past its function (`Returned`). The
deferred `close` comes before the error reaches the group, so returning
(`Return`) and `Exit` are two steps. A Go `select` is a pair of actions that may
both be enabled: with the context done and the receiver ready either may be
taken. `StoreCommitLost` is the commit whose reply never arrived. A feed is a
sequence of good and bad items and the way it ends (`eof`, or `broken`: a syntax
error, a timeout, a lost connection). `counted` grows by any number up to the
batch: `compareProducts` may leave products out.

`Import` has three variables (the feed, what was stored, the result) and three
actions (`Store`, `Succeed`, `Fail`): the catalogue takes the good products in
document order, nothing is stored once the result is there, and a success has
taken all. The refinement mapping forgets goroutines, channels and batches.

### Feed

The server's answer is chosen at the start: status, content type, whether the
bytes are gzip, the tokens, and how the bytes end (`eof`, a broken connection, or
a server that stalls). `Stream` is what the `xml.Decoder` gets to see: an
`application/xml` answer that is compressed is no XML, because the request sets
`Accept-Encoding` itself. `open` is the stack of the strict `xml.Decoder`,
`broken` its sticky error: after one error it returns no more tokens. An
`<item>` within an item belongs to the outer product. `conn` follows the
response's connection: who holds it and when it is free. Which of two errors is
recorded when both the decoder and the store fail is left open (`ParseEnds`);
`Pipeline` says more.

### Runs

Each SQL statement of `StartRun` is an action that sees what is committed, as
READ COMMITTED does. The inserted shop is visible to others only at the commit,
but its unique index makes other inserters wait (`UrlLocked`). A run's row is
named by the number of its transaction, which is also its `created_at` (`now()`
is the start of the transaction); ids are only compared for equality.
`cancelled` is the context of the replica: under it every call fails, `FinishRun`
included.

### Consumer

The broker's queue and the amqp library are external: ready, unacknowledged (with
an owner), acked, dropped (`Nack` without requeue and no dead-letter exchange),
or lost. `loop` is the position in `consumeMessages`, `main` in `main`. A closed
connection makes what it held ready again, at once, while the handler may still
be at work.

### Catalog

Of a product's row the model keeps version, `deleted_at IS NULL` and the import
its shippings came from. A batch is written new products first, each list in the
order of the feed, and locks its rows one at a time in that order, so that
overlapping imports can deadlock; Postgres aborts one of a circle. The two
goroutines of `DeleteOldProducts` use connections of their own (`p.db`), each
UPDATE committing by itself (`UpdateDeleted`, and `UpdateLost` when the reply does
not arrive); its condition is the ids alone. It locks its rows one at a time too,
in whatever order its scan finds them (`WHERE id IN (...)` promises none), so two
deletions can deadlock as well. A page is the outdated rows after the last id seen,
in ascending order, up to the batch size. The shop may have been imported before
(`Earlier`). `newer` (the rows that were not older than the import at its
`StartRun`), `met` (the imports that were active while it was) and `marked` are
history variables that only the properties read.

### Service

`StartHandling` to `ReturnError` are the handler's function: it calls `Parse`
with the shop of the command in hand, and what `Parse` returns decides between
`HandleOk` and `HandleErr`. `Parse`'s context is `main`'s, so `Runs`' `cancelled`
is defined from `main`. A process that crashes takes its `Parse` with it; one
that shuts down does so only between two calls. `breaks` counts crashes, broken
connections and database failures. Which replicas are deployed and what the
commands say (a shop, or no JSON) is chosen at the start.

## 3. What the runs check

All runs set `CHECK_DEADLOCK FALSE`: imports end, commands run out, and the
bounds stop new ones.

| Run | Instance | Distinct states | Shows |
|---|---|---|---|
| `pipeline` | feeds of 0-4 items, batch 2, all faults | 41,118 | `StoredIsPrefix`, `SuccessIsComplete`, `StatusIsRootCause`, `BatchShape`, `NeverOvercounts`, `ImplementsImport`, `Termination` |
| `feed` | documents of 0-4 tokens, one item in every wrapping, all faults | 140,122 | `WholeFeedOnly`, `BadIsLast`, `NilIsRecorded`, `HeldOnlyIfRefused`, `FeedEnds` |
| `runs` | 2 replicas, 2 shops, 3 StartRuns, all faults | 94,016 | `OwnRunIsRunning`, `ShopsHaveRuns`, `FirstStartIsExclusive`, `FinishedIsFinal`, `OrphanIsForever`, `ParseReturns` |
| `consumer` | 2 replicas, 2 commands, all faults | 727,723 | `SettledAsHandled`, `NothingForgotten`, `NoConcurrentHandling`, `SettlesIfServed` |
| `catalog` | 3 products, none or all stored before, 2 imports, batch 2, failing feeds and database | 620,499 | `SyncOnSuccess`, `ShippingsStored`, `VersionsGrow`, `DeletesOnlyOutdated`, `DeletedIsExact`, `ImportsEnd` |
| `service` | 1 or 2 replicas, 2 commands, 2 shops, 1 break, symmetry | 1,257,246 | `AckedHaveRuns`, `DuplicatesNeedBreaks`, `ImplementsRuns`; with one replica `AtMostOneRunning`, `OrphanBlocksShop`, `OrphanedShopRefuses` |

Each also checks its `TypeOK`.

Runs that end in a violation, each of a statement the repository makes:

| Run | Statement | What the code does |
|---|---|---|
| `runs_two_replicas` | README.md:7, no other parsing of the shop at the same time | two `StartRun`s at READ COMMITTED both see a finished last run |
| `runs_shutdown` | main.go:82, graceful shutdown | `FinishRun` gets the cancelled context: the run is orphaned, and the shop blocked for good |
| `pipeline_broken` | parser_test.go:381, the decoded batch is stored | after a decoding error the select may drop the batch |
| `consumer_shutdown` | main.go:93, wait for the consumer to finish | an idle consumer never looks at the context |
| `catalog_select` | postgres.go:148-149, outdated products are marked, or an error is returned | an error without rows is taken for the last page |
| `catalog_shippings` | postgres.go:103, products are upserted with their shippings | old shippings stay when no product of the batch has any |

What the code does besides, where no document says otherwise, stands in the
properties as the case they allow and in the hazards. `VersionsGrow` and
`DeletesOnlyOutdated` are about overlapping imports too: a row is written or marked
by an import with a higher version, or by one that was overtaken, that is, met an
import whose version the row has (`Overtaken`). So versions are lowered and current
products deleted by overlaps alone, and a late import of an older version, by
itself, does neither. An import that waits between its timestamp and `StartRun` may
succeed without updating a row that was written meanwhile: `SyncOnSuccess` leaves
these rows (`newer`) out, and no others. With batch size 0 nothing is deleted
(`LIMIT 0`): `SyncOnSuccess` makes that exception, and `OutdatedAreDeleted` fails in
an instance with `BatchSize = 0` and no faults. Deliveries buffered before a signal
are taken after it, fail and are dropped, as many as a replica was given: `Receive`
has no guard on the context, since `range deliveries` has none, and no property
forbids it (rabbitmq.go:54 says that messages are consumed as long as the context is
not closed). A failing deletion reports 0 whatever it
has marked (`DeletedIsExact` is about success); a process whose connection broke
stays up without a consumer (the exception in `SettlesIfServed`); a published
command may be lost, which counts as settled; a refused body is never closed (the
exception in `HeldOnlyIfRefused`); without an HTTP timeout a stalling server holds a
run for good (`HasTimeout = FALSE` violates `FeedEnds`).

### Bounds

- `Pipeline`: `MaxItems = 4`, `BatchSize = 2`: no batch, a short one, a full one,
  a full and a short one, exactly two; bad items at every place. The theorems
  lift both.
- `Feed`: every document of up to `MaxTokens = 4` tokens, ended in three ways: two
  elements in a row, an element within another of either kind, mismatched and
  missing tags, garbage at every place. Status, content type and encoding are
  varied around one document with one item in another element, since they do not
  look at the tokens.
- `Runs`: `MaxBegins` (`StartRun` transactions): 3 with two replicas gives a
  finished run, an overlap and a later run. `Stamps` are `1 .. MaxBegins`.
- `Consumer`: two replicas and two commands: redelivery, handing over and
  buffering behind a command at work all need no more.
- `Catalog`: `MaxClock = 2`: older, equal and newer versions for two imports. Two
  imports with the feeds of `AllFeeds` together insert, update, leave out, delete
  and revive rows, repeat an id in one batch or in two, page the deletion (three
  outdated rows, pages of two), and lock rows in opposite orders. Two deletions at
  once, which may deadlock, need products stored before: `Earlier` is none or all.
- `Service`: `MaxBreaks = 1`: a redelivery meets the run of the delivery before
  it; two breaks exceed a reasonable run time. `MaxBegins` is derived from the
  commands and the breaks so that it is never reached. The symmetry is sound: the
  run checks no liveness. The theorems lift every bound, and that `MaxBegins` is
  never reached is one of them (`StartsBounded`).

### Fairness

- `Pipeline`: each goroutine that can step does, the Go scheduler being fair; a
  read of the body ends at the latest with `http.Client.Timeout` (main.go:64) and
  a database call returns. Nothing is assumed of the branch a select takes.
- `Feed`: `Parse` goes on when it can, and time passes: the timer fires
  (`WF(Expire)`). Decoding goes on wherever there is a token or an error to
  read. The server need never answer: of fetching only the error after the
  deadline or the cancellation is fair, and a stalled body gives no token.
- `Runs`, `Catalog`: weak fairness of the steps of an import; faults are never
  relied on, except that a call under a done context fails and Postgres resolves
  deadlocks.
- `Consumer`: the broker delivers while there is a consumer, handling ends
  (`ParseReturns` of `Runs` is why), main and the deployment do their part.
  Senders, signals and failures are free. `SettlesIfServed` has as a premise that
  breaks stop at some time: a command may be redelivered for as long as they
  do not.
- `Service` checks safety only and has none.

## 4. What is proved

TLAPS checks these for every value of the constants, under the assumption each
module names (`PipelineAssumption`, ...), which says no more than their types. No
proof rests on an unproved step.

**Pipeline**, for every set of feeds of any length and every batch size, 0
included: `TypeCorrect`, `PrefixStored`, `NilMeansComplete`, `RootCause`,
`BatchesHaveShape`, `CountsAreBacked`, `Refinement`. `SuccessIsComplete` is not
inductive: that the batch in the filter, the one being stored and the stored ones
together are the decoded products is what carries it. `Chain(a, b)` says so with
`Lists(items, s, lo, hi)`: `s` lists the good items between `lo` and `hi` in
order. `stored` lists up to `a`, the batch in the store from `a` to `b`, the
filter's batch from `b` to `pos`. A failure breaks the later links, never the
first, which is why the prefix survives every failure. `NilInv` says what a
goroutine that returned nil has done, `GroupInv` that a failed goroutine's error
is in the group before `Wait` returns, and that a cancelled context has a cause.
The lemmas about `Lists` (nothing, append, skip, concatenation) are proved once
and cited. `NoCircularWait` and `BoundedWork` are the two halves of `Termination`
that are not fairness: somebody can go on until `parseProducts` returns, and it
takes at most three steps for each item and ten more. `Refinement` (the pipeline implements `Import`) follows from the same
invariant: a commit is `Store` up to the new `a`, the return of `Wait` is
`Succeed` or `Fail`, everything else stutters.

**Feed**, for documents of any length: `TypeCorrect`, `ErrorsAreLast`,
`NilMeansRecorded`, `OnlyRefusedHeld`, `DeletesNeedWholeFeeds`. The last is about
what a well-formed document is, in terms that do not mention the decoder
(`Nestings`: every start tag has an end tag of its own, elements nest), while the
decoder only has a stack of names. The invariant that connects them, `NestInv`,
says that there are places `at` in the document where the open elements start,
and end tags `ends` for all others, which nest (`Nested`); and that the results
sent, with the item at work, are the outermost items that have begun (`Begun`).
`ReadStart` and `ReadEnd` say what one token does to a matching, `BegunStart` and
`BegunEnd` to the items, all for plain sequences; `ReadAll` that with nothing left
the matching is the document's. The other parts of the invariant say which status,
stack and connection go with each place in `Parse`.
`NoFalseAlarm` is the converse: every error of `Parse` has its cause, and a feed
that is sent whole, well-formed, as a supported type and in time is imported if
nothing else fails. Here the matching is given, by the document, and it is the
decoder's stack that must fit it (`StackFits`): what it has open is what is open in
every nesting of the document, so a token it rejects leaves no nesting at all.
`NeverStuck` and `BoundedWork` (two steps for each token and nine more) are what
`FeedEnds` rests on; they cover a decoder error after which the loop goes on, and
name the one thing `Parse` may wait for without an end: a silent server when no
timeout is configured.

**Runs**, for any number of replicas, shops, transactions and any faults:
`TypeCorrect`, `OwnRunSafe`, `ShopsAlwaysHaveRuns`, `FirstStartExclusive`,
`FinishedStaysFinal`, `OrphansStay`. The invariant adds that stamps are past and distinct between
workers at work (so `WHERE id` hits no other's run) and that a shop being inserted
is not in the table. For one replica (`Workers = {u}`), `SingleWorkerExclusion`
and `SingleWorkerOrphanBlocks` show that `README.md:7` holds: since the test of
`StartRun` looks at the last run only, the invariant needed is that an unfinished
run is always the last of its shop. `OrphansTakeFaults`: without faults
(`Faults = {}`) no run is orphaned, so runs are lost to faults and never to a race
between replicas. `NeverStuck`: who waits at the unique url waits for a `StartRun`
that goes on itself, and a worker is done after seven steps of its own.

**Consumer**, for any number of replicas and commands and all faults:
`TypeCorrect`, `SettlingIsHonest`, `NobodyForgets`, `HandlingIsExclusive`. The
invariant: unacknowledged commands belong to open connections, a replica with an
open connection holds only its own, and every replica each command once
(`MineInv`), and what is about to be
acknowledged or dropped was imported or refused (`HandInv`). `FatesAreFinal`
says the same of the steps: what is settled stays so, and a delivered command comes
back only with the closing of its connection. `NeverStuck` names everything that
can be waited for: who holds a command goes on with it or gives it back, a command
in the queue waits for nothing but zombies (processes that lost their connection
and did not notice), and a signal is waited out only by a loop in
`range deliveries` with nothing to receive.

**Catalog**, for any products, feeds, earlier catalogues, imports and batch size:
`TypeCorrect`, `VersionsOnlyGrow`, `OnlyOutdatedDeleted`, `ShippingsAreStored`,
`CountIsExact`, `SuccessSyncs`. The first three are about any number of overlapping
imports. What carries them is `RaceInv`: the rows an import is about to write or
mark (`Rows`) are older than it, as they were when it read them, or it has been
overtaken; for whoever wrote such a row since was active at the same time, and so
the two have met (`MetInv`). The others are promised to an import that had the shop
to itself (`Alone` while it is under way, `Sole` when it ends), and `Inv` says what
is kept for it: what `compareProducts` found is still so at the commit (`Store`),
rows to be marked are outdated and in one list only (`Doomed`), rows not lower than
the import's version are its own (`Sync`), the shippings are there (`Shipped`), and
the count is that of the rows marked (`Count`). `AloneSteps` is the argument that
makes this local: while an import is alone no step of another touches what it
depends on, and one that starts ends the being alone; so each part is proved for the
import's own steps, with a frame lemma for the others. `SuccessSyncs` needs besides
that no outdated row is forgotten (`Pending`), and one assumption,
`"select" \notin Faults`: the divergence of `catalog_select`. The other, `LIMIT 0`,
is in the property: with batch size 0 it says nothing of the rows that are not in
the feed.
`NeverStuck` is about imports that do overlap. No row stays locked by an import that
is not in a statement, and some import can always go on: the imports of a deadlock
can, of upserts or of deletions, since Postgres fails one of them.

**Service**, for any replicas, commands, shops and breaks: `ImplementsConsumer`,
`RunsRefinement`, `TypeCorrect`, `AckedCommandsHaveRuns`. `ServiceProofs`
instantiates `ConsumerProofs` and `RunsProofs`: every step of the service is one
of each part or leaves it alone, so what is proved of the parts holds in the
whole. The coupling invariant is that a `Parse` is under way only in a handler,
for the shop of the command in hand. `AckedHaveRuns` is by counting: each first
import of a command adds a successful run of its shop, and acknowledged commands
were imported. `DuplicatesAreBreaks` is by charging: a *job* is a command that may
still be imported, in the queue, with its owner, or in the buffer or the hands of
a replica that lost its connection. Successful runs and jobs of a shop together
never exceed its commands plus one per command and break: importing turns a job
into a run, sending makes one, a break at most one per command sent. With one
replica deployed, `SingleReplicaExclusion`, `SingleReplicaOrphanBlocks` and
`SingleReplicaOrphanRefuses` show that `README.md:7` holds of the service, whose
commands may be delivered again while an earlier run is orphaned: workers that are
not deployed stay idle (`IdleInv`), which makes the only one `Sole`, the case the
lemmas of `RunsProofs` are about. `StartsBounded` counts jobs again: every
`StartRun` uses one up whose `Parse` had not begun, and only sending and breaks
make new ones. So a `StartRun` takes a sending or a break, however the handler
fails, and `MaxBegins` cuts no behaviour off: the other theorems of `Service` are
about the service, not about its first few runs. `NeverStuck` joins those of
`Consumer` and `Runs`: the queue, the loops and the database wait for each other in
no way that the parts do not have already.

Induction. The library's induction theorems cannot be used, since they take an
operator, but well-foundedness is a fact about a set: a statement about all numbers
is proved from its least counterexample (`NatLessThanWellFounded` and `WFMin`). That
a page of the outdated rows always exists, which `NeverStuck` needs, is proved so.

Only model-checked is liveness (`Termination`, `FeedEnds`, `ParseReturns`,
`SettlesIfServed`, `ImportsEnd`), which is beyond the prover, as is `ENABLED`. What
is proved of it is the safety half: that somebody can always go on, with the
guards of the fair actions written out in place of `ENABLED`, and, for `Pipeline`,
`Feed` and `Runs`, that only so many steps are left. Missing is the step from
there to the property by weak fairness. (That the written guards hold in exactly the
states where the actions are enabled was compared with TLC on the instances of the
runs.) Every other property of the passing runs is proved: those of `Runs` and
`Catalog` that hold only of one replica, or of an import that had the shop to
itself, have that as a premise.

## 5. What is not modelled

- Text: the fields of a product, HTML unescaping, JSON, URLs, status messages,
  product columns. Of XML: attributes, namespaces, comments, and the limit of the
  decoder on the depth of elements (10000).
- What an empty feed means: it is a complete feed without products, and all
  products of the shop are deleted; no document says whether that is wanted.
- Order of messages in the queue: a command names only a shop.
- Two rows with the same `now()`; serial ids of rolled-back transactions; clock
  skew other than reading the clock early (`Timestamp` and `StartRun` are apart).
- In `Service`, a restart of the broker and unroutable commands (both are in
  `Consumer`), and more than one failure of the database (`Runs` has any number).
- Start-up errors of `main` (the process ends) and configuration parsing (its
  values are `BatchSize` and `HasTimeout`).
- Generated database models, mocks, test helpers, e2e tests, container files:
  they have no behaviour of the service's own.

## 6. Plan

Done: the six components, their composition, the abstract `Import`, and the
proofs of section 4, progress and its bounds included. What would come next:

1. `Catalog` and `Runs` composed, so that `Sole` becomes a consequence of one
   replica rather than a premise.
2. `Feed` and `Pipeline` composed, so that the recorded error is `Pipeline`'s.
