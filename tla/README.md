# Verification of the Mycelium Spine

TLA+ models of the Underleaf Mycelium Spine, checked with TLC on small
instances; every safety property that holds there is also proved with TLAPS for all
instances.

## The system and its parts

Programs and `mspinectl` call `Publish`; the Spine resolves the targets to
mailboxes and appends the envelope to each of them in MongoDB. A server (agent)
opens one bidirectional gRPC stream through the SDK, says HELLO or RESUME,
subscribes to targets and receives DELIVER frames from the delivery loop of its
session. It answers with cumulative ACKs, which move persisted cursors; flow
control limits what is sent and not yet acknowledged. Operators look at cursors,
mailboxes and sessions, and change them, through an admin socket.

| Part | Source (under `src/`) | Model |
|---|---|---|
| mailbox store, publish service | `internal/repository/mailbox_repository.go`, `internal/service/publish_service.go` | `Mailbox` |
| target resolver | `internal/repository/target_resolver.go`, `internal/types/target.go` | `Routing` |
| delivery loop, flow control, ACKs, cursors, subscriptions | `internal/service/delivery_service.go`, `ack_service.go`, `subscription_service.go`, `internal/types/session.go`, `internal/repository/session_repository.go` | `Delivery` |
| sessions, handshake, kicks, teardown | `internal/service/session_service.go`, `internal/grpc/stream_handler.go` | `Session` |
| SDK client | `sdk/client.go` | `SdkClient` |
| header authentication | `internal/auth/header_auth.go`, `internal/grpc/auth_interceptor.go`, `sdk/header_auth.go` | `HeaderAuth` |
| worker pools | `internal/workers/` | `WorkerPool` |
| certificate bootstrap and renewal | `internal/bootstrap/` | `Certificates` |
| server process, settings, admin life cycle | `cmd/serve/main.go`, `internal/grpc/server.go`, `internal/utils/settings.go`, `internal/admin_server/server.go` | `SpineProcess` |
| admin services and `mspinectl` | `internal/admin_server/`, `cmd/mspinectl/` | `Console`; `sessions disconnect` in `Session` |

`PROJECT.json` lists every part, the lines each definition models, the hazards
of the code with the properties that would catch them, and the theorems.

## Modules

**`Mailbox`**: the counters `mailboxes.next_seq` (`nextSeq`), the envelopes
collection and concurrent `Publish` calls (`pub`). `AppendEnvelope` is two
actions, `AllocSeq` (the `$inc`) and `InsertOne`, each of which may fail.
`KeysFree` stands for the two unique indexes. `ClearDelete`, `ClearReset` and
`ClearFails` are the two writes of `ClearMailbox`, `PurgeExpired` is
`DeleteExpired`, `MailboxCrash` the end of the process. An envelope is its id,
mailbox and position; QoS and expiry belong to the id. `published` and `late`
are history: what was ever inserted, and what was inserted at or below a
position taken before it.

**`Delivery`** (above `Mailbox`): one server. The delivery loop is cut at its
database calls, at every check of a counter, at every increment and at the send:
`Wake`, `ReadCursor`, `Fetch`, `Filter`, `Group`, `Count`, `Send`. The receive
loop handles one ACK at a time: `AckRead`, `AckUpdate`, and `AckDecrement` for
each of the three counters. `upTo` is `deliveredUpTo`, `cursor` the persisted
positions. Frames and ACKs under way are lost with the stream, except an ACK the
old handler has already read (`LingeringAck`). An update of the cursor that is
answered with an error may have been applied (`AckUpdateFails`). `skipped` and
`leaked` are history: what the QoS limits passed over in a batch that was sent in
part, and what a cursor passed without the counters of the connection going
down. The read of the total and
the query that uses it are one step: only the ACK handler changes the counters
in between, and the query does not see them.

**`DurableLog`**: the abstract promise. Entries are appended and removed, seen by
the reader, and a position is committed only when every entry up to it was seen.

**`Session`**: the streams of one server_id. Each is a goroutine in
`StreamHandler.Connect` (`h`), cut at its database calls and at every operation
on a shared map; `registry`, `loops` and `chans` are the maps, `docs` the session
documents, `sess` the session object of each stream. `Handshake` is HELLO or
RESUME with the kicks, `Cleanup` the deferred teardown, `Stop`, `Close`,
`Unregister` and `Erase` the shared steps of kicks, teardown and the operator's
Disconnect. `overlapped`, `takeovers`, `unlisted` and `unwelcomed` are history.

**`SdkClient`**: Connect, the supervisor, the three pumps, the calls of the
application and Close, with the channels between them; a `select` is a choice
between its ready cases. Connect is cut where a Close can overtake it: `Connect`
is `doConnect`, `StartFirst` starts the pumps, `Supervise` the supervisor, or not,
without AutoReconnect. `CallbackReturns` is the return of the application's
OnReconnect. Sending on a channel Close has closed is the state `panicked`.
`overtaken` is history: the pumps were started when Close had already waited for
them. The server is external and answers as `StreamHandler.Connect` does; a
dialling attempt that fails may be due to a session document deleted meanwhile.
`ClientConfig.ResumeToken` is taken to be empty at the start.

**`Certificates`**, **`WorkerPool`**, **`HeaderAuth`** and their composition
**`SpineProcess`**: `main` from the settings to the last `Disconnect`, with the
gRPC server and the admin server beside it, failures of every step, and kills
after which only database, files and socket are left. Time is counted in ticks
of the renewal loop.

**`Routing`** (above `Mailbox`): `ResolveTargets` over a sequence of targets;
`GetOrCreateMailbox` is `FindOne`, `InsertMailbox` and, when that fails on the
unique index, `FindAgain`; the callers are Publish and SUBSCRIBE. The words of the
command line, the types of the wire and those of the store are kept apart, with
the conversions between them as the code has them: `PublisherMeetsSubscriber` is
about callers that reach the resolver through different ones. An iteration over
the mailboxes of a broadcast may break off; the code then returns what it has
read as success.

**`Console`** (above `Routing`): the operator's commands on cursors and mailboxes
and the admin services behind them, one action per database call, with
acknowledgements, publishers and subscribers at work on the same collections.
`OtherOperator` is a reset, deletion or purge of another operator in between.
`pages` is a listing the operator follows page by page; `pages.kept` is history:
the rows that have been there since it began.

`MC…` modules are the instances for TLC, `…Proofs` modules hold the theorems.
Definitions marked *Faulty* are plausible bugs of the definition that follows
them; with one in its place, the property it belongs to is violated.

## Runs

| Run | Instance | Shows |
|---|---|---|
| `delivery_safety` | 1 mailbox, 2 publishers, a COMMAND and an expiring UNSPECIFIED envelope, 2 calls, 2 connections, 2 ACKs under way, total limit 2, QoS limits 1, database errors | `DeliveryTypeOK`, `PositionsDistinct`, `LossExplained` hold |
| `delivery_promise` | 1 publisher, a COMMAND and an expiring CONTROL envelope, 2 connections, total limit 2, QoS limits not below it, database errors | `InflightBounded`, `FramesAscend`, `CountersHonest` and the refinement `KeepsPromise` hold |
| `delivery_liveness` | 1 publisher, 1 connection, total limit 1, database errors, fair | `ReceivedUnlessLeaked` holds |
| `delivery_skip` | 3 envelopes, total limit 3, QoS limits 1, 1 connection | `AtLeastOnce` fails |
| `delivery_leak` | 2 connections, total limit 1, no database errors, fair | `EventuallyReceived` fails |
| `mailbox_fan_out` | 2 mailboxes, 2 publishers, no database errors | `SuccessMeansStored` fails |
| `session_safety` | 3 streams of one server, 2 handshakes, teardowns or commands at once, 1 failing call, crash or command | `SessionTypeOK`, `ClosedOnce`, `OneLoop`, `NewestStopExplained`, `NewestRegistered`, `NothingLeaks`, `NewestCanResume` hold |
| `session_orphan` | the same | `NewestDelivers` fails |
| `client_safety` | 1 calling goroutine, 2 targets, queues of 1, with and without AutoReconnect, 1 break, 1 failing attempt, fair | `ClientTypeOK`, `PumpsAlone`, `ClosedQuietly`, `SubscriptionKept`, `CloseReturns`, `ReconnectsWithToken` hold |
| `client_reconnect` | 1 target, a queue of 3, 2 breaks, fair | `Reconnects` fails |
| `process_safety` | 4 configurations, validity 2, margin 1, 2 attempts, 2 pools of 1 worker, 2 tasks, 1 call, fair | `ProcessTypeOK`, `RenewedInTime`, `FilesServed`, `InOrder`, `SidesAgree`, `ShutdownEnds`, `AcceptedRuns` hold |
| `console_safety` | 2 mailboxes (one clearable), a publisher, a subscriber, 2 envelopes, 2 commands, pages of 1 row, database errors | `ConsoleTypeOK`, `PublisherMeetsSubscriber`, `AddressedExactly`, `InflightCovers`, `PagesCover` hold |

The five failing runs are disagreements between code and documents (quoted in
`PROJECT.json`):

- **fan-out**: every copy of an envelope has the same `envelope_id`, on which
  there is a unique index. The second mailbox's insert fails, is logged, and
  `Publish` reports success.
- **skip**: once one envelope of a batch is sent, `deliveredUpTo` moves over the
  whole batch, filtered envelopes included, and a later ACK covers them. The
  limits of `config.yaml.example` are of this kind: each is below the total.
- **leak**: the counters go down by how far the cursor moved. An ACK of the lost
  stream stored after the new loop has read the cursor makes that distance 0 for
  envelopes that were sent again; the counters stay up and delivery stops.
- **orphan**: the cleanup of a lost stream stops loops by session id, and so the
  loop of the stream that resumed the session meanwhile.
- **reconnect**: on RESUME_OK the client keeps the token it presented, which the
  server has replaced. It reconnects once and never again.

Where a document's claim fails, a weaker property says what remains true:
`LossExplained` for at-least-once (an envelope acknowledged unseen was passed over
by a QoS limit or appended below a position already taken),
`CountersHonest` and `ReceivedUnlessLeaked` for what the leak breaks (no counter
exceeds what is in flight and what is leaked, and what is stored is received
unless something is), `SuccessExplained` for the fan-out (a theorem of
`MailboxProofs`, not part of a run),
`NewestStopExplained` for `NewestDelivers`, `ReconnectsWithToken` for
`Reconnects`. Other properties name their exceptions as well: `OneLoop`
overlapping handshakes, `ClosedQuietly` a Close that overtook Connect,
`CloseReturns` a callback that does not return, `ReconnectsWithToken` also a full
queue, `AddressedExactly` mailboxes a broadcast's iteration did not reach. They do
not claim that the excepted cases are harmless.

**Bounds.** `MaxCalls`, `MaxSeq`, `MaxConnects`, `MaxAcks`, `MaxBusy`,
`MaxFaults`, `MaxBreaks`, `MaxFails`, `MaxCA`, `MaxCommands` and `Positions` bound
runs the code does not bound. Two publishers are what overtaking between `$inc`
and insert needs; two connections what a stale ACK or a lost frame needs; two
positions what a skipped or re-sent envelope needs. UNSPECIFIED, whose QoS limit
is 0, makes a skip possible with two envelopes. Three streams let a third one
meet what the race of two has left behind. Two breaks are what a stale token
needs in `client_reconnect`; in `client_safety` a failing attempt can make it stale,
and no client reconnects twice. Two commands let a deletion, reset, purge or clear fall between two pages
or after a read; with page size 1 and two rows every listing has a second page.
The delivery runs clear no mailbox (the state space grows beyond reach), and in
the console run no request reaches two mailboxes at once; the proofs cover both.
Deadlock is not checked: the bounds stop every run, and so does the end of a
client, a stream or the process.

**Fairness.** `Delivery`: the goroutines of a session run and the transport
delivers while the stream is up (weak); database errors are transient, so a
retried call succeeds in the end, and a client that may repeat old ACKs also
acknowledges its newest envelope (strong). `EventuallyReceived` and
`ReceivedUnlessLeaked` are about a connection that stays up; on the one connection
of `delivery_liveness` it is failing updates that leak. (With two connections the
property holds too, in nine minutes instead of one.) `SdkClient`: goroutines that can go on do; the end of a
connection is a channel that stays ready, so a `select` takes it in the end
(strong fairness of `BeatEnds`); the application reads its deliveries. Nothing is
assumed of OnReconnect: that it returns is a premise of the properties.
`SpineProcess`: main and the workers run, tasks end, and the deadline of a
shutdown passes; nothing is assumed of calls or of server_api.

## Proofs

Every safety property of a passing run has a theorem, for all sets of
mailboxes, publishers, envelopes, targets, streams, callers, tasks and commands
and all limits, under the assumptions named in the modules (`MailboxAssumption`,
`DeliveryAssumption`, `SessionAssumption`, `ClientAssumption`,
`CertificatesAssumption`, `PoolAssumption`, `HeaderAuthAssumption`,
`RoutingAssumption`, `ConsoleAssumption`): types of the constants, positive
capacities, a renewal margin below the validity, and an order of the cursor keys
without repetition, as the unique index on them gives. Most properties are not
inductive; what was added:

**`MailboxProofs`**: types, and `PositionsAreDistinct` with `NumbersBelow` (all
numbers handed out in an uncleared mailbox are below `next_seq`; otherwise a new
number could be an old one). `SuccessIsExplained`: when no database call fails,
a target that is never cleared can only lack the envelope because of a copy
stored before; `SuccessInv` says what each call under way still owes, and uses
`PositionsDistinct` to exclude the other unique index. `OpenStep` widens a step of the store to any set of
targets, so that `Routing` and `Console` use the same lemmas.

**`DeliveryProofs`**: `DeliveryTypeCorrect` with `LoopTidy` (the variables of
`DeliverToSession` are clear until it runs; the ACK handler decrements by a
positive distance only). `InflightIsBounded` with `RoomForBatch` (what was fetched
and is not yet counted still fits: in between the ACK handler only lowers the
total). `FramesAreAscending` with `SentBelow` (all that was sent lies at or below
`deliveredUpTo`, and what is being fetched above it).
`CountersAreHonest` with `SettleInv`: each counter is at most the number of
envelopes it may count (`Owed`): those in flight, those leaked, and those an ACK
has moved the cursor over without having lowered this counter yet. An ACK then
lowers a counter by a distance at least as large as the number of envelopes of
any one QoS it covers: sent envelopes have positions of their own (`Places`,
`SpanBound`), and the handler starts from a position no higher than the cursor
(`PrevBelow`).

**`LossProofs`**: `LossIsExplained`. A position is *covered* when everything stored
up to it is accounted for, and an envelope at least as high was inserted before,
so that whatever is still to come below it will count as late. `LossInv` says
that cursors, ACKs under way or left behind, received and sent envelopes,
`deliveredUpTo`, the start of a fetch and each position of a batch are covered: a
cursor or ACK by what was received, skipped or late, a frame also by the frames
before it, the loop also by all that is on its way. Then `PromiseIsKept`:
every step of `Delivery` is a step of `DurableLog` or a stutter, with
`NothingLost` (nothing is late or skipped). Its hypotheses are those under which
the code keeps the promise at all: no mailbox is cleared (`Clearable = {}`), no
QoS limit is below the total (`AmpleLimits`; otherwise run `delivery_skip`), and
appends to one mailbox do not overlap (`AppendsApart`; otherwise an envelope can
be inserted below one already delivered). `OnePublisherKeepsPromise` discharges
the last for a single Publish call at a time. The server meets neither by itself:
gRPC runs Publish calls concurrently, and the limits of `config.yaml.example` and
`config.e2e.yaml` are not ample. `AckedWasReceived` is `AtLeastOnce` under the
same hypotheses.

**`SessionProofs`**: types with `Tidy` (a handler that stops a loop knows whose);
`ChannelsCloseOnce` and `NothingIsLeaked` with `AllPlaced`, which says for each
point of `Connect` in which maps the stream may be and whether its channel is
closed.

**`LoopProofs`** (above `SessionProofs`): the actions are first reduced to what
they do to the fields in question (`Effect`). `Known` ties a session id to the
stream that made it, `Met` and `Shared` tie overlapping handshakes and shared
sessions to the history variables; `NewestInv` describes the stream opened last
from its handshake on (`NewestStopIsExplained`, `NewestIsRegistered`,
`NewestResumes`); `Single` says that a stream no exception applies to stays in
the registry, and that no handshake of another can have passed it by
(`KickLeavesOneLoop`). The attempt to prove `OneLoop` showed its first statement
to be wrong: it did not except a stream whose registry entry was deleted in place
of another one. The counterexample needs five streams, more than the run has.

**`SdkClientProofs`**: types with `Tidy`; `PumpsAreAlone` and `ClosesQuietly`
together (`Alone`: with the pumps gone when Close has waited, they come back only
through a Connect it overtook); `SubscriptionsAreKept` with `Kept` (from the moment the
supervisor has read the last targets, these or newer ones are under way).

**`ProcessProofs`**: `CertInv` (a pair on disk is the pair in use, a certificate
being stored is new, a renewal under way was due), `PoolInv` (workers of a stopped
pool are gone), `PhaseInv` (where `main` is tells which parts exist).
`TasksAreApart` and `TasksAreKept`, the safety half of `AcceptedRuns`: a task is in
one queue or with one worker, of its own pool, and disappears only when that
worker has executed it or the process ends. That a task is submitted once at a
time is the guard of `Submit`, which stands for the callers.

**`ConsoleProofs`**: `RouteInv` (what each resolver owes to the targets it has
passed) gives `ResolvesExactly` and `PublishersMeetSubscribers`. `ConsoleInv`,
about a command between two of its database calls, gives `InflightIsCovered`;
`PagesInv` (rows that stayed and lie before the offset, or below
the next position, have been shown) gives `PagesAreComplete`. Backlogs and pages
are counts: the lemmas on numbers of rows are proved from `Least`, that a
nonempty set of numbers has a least element, in place of induction. Here too the
proof corrected a statement: the first `PagesCover` excepted only rows absent at
the end of a listing, but an envelope can be purged and, after a clear, be
inserted again under the same id and position while the listing goes on; the
property is now about rows that were there all along. The case needs more
commands than the run has.

**Only model-checked.** Liveness is out of the prover's reach: `ReceivedUnlessLeaked`,
`CloseReturns`, `ReconnectsWithToken`, `ShutdownEnds`, `AcceptedRuns`. What the last
one needs of safety is proved (`TasksAreKept`). The five violations are model-checked
by their nature.

**A caution about tlapm 1.4.5.** Its SMT translation derives a contradiction from
an `EXCEPT` with several updates along nested paths
(`[f EXCEPT ![p].a = x, ![p].b = y]`), and expands an `@` inside a nested
`EXCEPT` wrongly. Steps that do not hold are then reported as proved. The modules
here avoid both forms: one update of the whole record,
`![p] = [f[p] EXCEPT !.a = x, !.b = y]`, without `@`. Each action was also tried
as a hypothesis for `FALSE`, together with the type invariant, and none proved
it. New actions should be treated likewise. tlapm also reads `UNION S \cup T` as
`UNION (S \cup T)`, TLC as `(UNION S) \cup T`; the modules write the parentheses.

## Not modelled

- Commands and services that only read: the lists of mailboxes and sessions,
  `sessions get`, health and workers; the totals shown beside a page, and the
  count `DeleteServerCursors` reads first.
- `EnforceRetention` and `workers/tasks.go`, which nothing calls; metrics, logs,
  generated code, TLS identities, cryptography and encodings.
- Sends on wake-up channels: the delivery loop may poll at any time.
- The slice header race on `session.Subscriptions`.
- `mspinectl ack` connects as the server itself; its HELLO, which kicks the live
  session of the agent, is a stream like any other in `Session`.

Seen while modelling, and not the subject of a property: `mspinectl publish` prints
an envelope id without looking at `resp.Success`; a cursor reset goes unnoticed
by a running delivery loop and is undone by a late ACK; renewal never fetches the
CA again; `log_to_stderr: false` cannot override the default; `main` does not
wait for `GracefulStop`. `resolveBroadcastTarget` does not look at the error its
iteration ended with (`target_resolver.go:95`), so a partial list is published to
as if it were all. The comments at `target_resolver.go:16-18` and `:37` say that a
cluster also resolves to the mailboxes of its servers; the code returns the
cluster's own. Close says that it "stops all background goroutines"
(`client.go:612`): pumps that a concurrent Connect starts after its wait outlive
it and can panic on the closed channels, and a callback OnReconnect that does not
return, or itself calls Close, keeps it from returning.
