# A TLA+ verification of Noctaxris-GCP

Noctaxris-GCP is an emulator of Google Cloud in one Go process. This directory
holds TLA+ modules of its services, TLC configurations that check them, and
TLAPS proofs about Pub/Sub and its eventing, Cloud Storage, Firestore, Secret
Manager, the evaluation of permissions, Cloud Tasks, Cloud Scheduler, Cloud
Build and the requests to the control plane. Paths below are relative to the
repository root unless they start with `tla/`.

## 1. The system

`cmd/noctaxris-gcp/main.go` starts `internal/server`, one listener that speaks
HTTP and gRPC (h2c). A middleware authenticates the request and hands it to the
service that owns the path; every service (`internal/services/<name>`) is a set
of handlers over one store (`internal/store`): a SQLite database plus blob files.
Three facts of the process shape every module.

* **A request is a goroutine.** Nothing above the database serialises requests,
  except a few mutexes named where they matter. In the modules a goroutine is a
  member of `Handler`, and what it has read so far is a record `reg[h]`.
* **A statement is atomic, a handler is not.** The database is opened with one
  connection (`SetMaxOpenConns(1)`), so statements and transactions are
  serialised. A handler that reads, decides and writes in several statements
  can be overtaken between any two. One SQL statement, one transaction, one file
  operation or one mutex section is one step.
* **A restart keeps the tables and loses the goroutines.** Shutdown or a kill
  may come between any two statements.

### Components

The services fall into two kinds. Nine of them carry work of their own: data
planes, goroutines that outlive their request, files beside rows. Each has a
module. The others answer a request by a handful of statements about rows that
clients name; what can go wrong in them is the order of these statements and
what another request does in between, so they share one machine (`Handlers`) and
each handler is a program for it. `PROJECT.json` lists every part with its files.

| component | state | operations | what makes it hard | what makes it correct |
|---|---|---|---|---|
| Pub/Sub message plane (`store/pubsub.go`, `services/pubsub`) | topics, subscriptions, one row per message and subscription with a lease and a counter | publish and fan-out, Pull, StreamingPull, push, ack, deadlines, dead-letter, seek | a Pull is a SELECT and one UPDATE per row; dead-lettering publishes, then deletes; leases lapse at any time | no copy is lost, a settled one stays gone, dead-lettering is earned, a polled subscription drains |
| Cloud Storage (`store/gcs.go`, `services/gcs`) | buckets, object generations, blob files, upload sessions | put, copy, compose, resumable upload, get, delete, retention, lock | a file and a row without a common transaction; the next generation is read before it is used | rows have their bytes, versions appear and go whole, retention and lock hold |
| Firestore (`store/firestore.go`, `services/firestore`) | documents, transaction tokens | commit, batch write, create, update, delete | preconditions and transforms are computed before the transaction that applies them | a token commits once; a commit is the sequence of its writes |
| Secret Manager (`store/secrets.go`, `services/secretmanager`) | secrets, versions | add, rotate, enable, disable, destroy, delete | number and state are read before they are written | payloads are immutable, destruction is unreadable |
| Cloud Scheduler (`services/scheduler`) | jobs, a map of tickers, goroutines | create, patch, pause, resume, delete, tick | the row and the map are changed one after the other, the mutex is given up in between | goroutines follow jobs; strays end |
| Cloud Tasks (`services/cloudtasks`, `store/serverless.go`) | queues, tasks with two counters | create, run, delete, dispatch | the target is called between two counter updates | one creator per task; the counters balance |
| Cloud Build (`services/cloudbuild`, `store/artifact_cloudbuild.go`) | builds with steps and a log | create, trigger, retry, run, cancel | the runner and a cancellation overwrite each other's row | SUCCESS is earned; every build ends |
| Eventing (`store/gcs_notifications.go`, `store/eventarc_triggers.go`) | notification configurations, triggers, goroutines | a write starts a goroutine that publishes, a publish starts one that calls triggers | events run beside each other, targets time out, a restart loses what is under way | what is owed is published, passed over by name or lost to a restart; nothing is delivered twice but by a retry |
| Authorization (`kernel/authz/iam.go`) | folders, policies, custom roles, the clock (of other services) | evaluate a permission | the way up the hierarchy, the policies and the roles are read in statements of their own | a steady grant is found; what was revoked before is not honoured |
| The control plane: Compute, databases, serverless, analytics, networking, security, IAM, resource manager, observability, registry, and the rows of the services above | tables of named rows, containers behind some of them | create, get, list, patch, delete, actions | read, decide, write in separate statements; parents and children; an engine that fails after the row is stored | overlapping requests answer as one after the other; refused ones leave nothing; a stop leaves no orphans |

Interactions: Cloud Scheduler publishes to Pub/Sub topics and calls HTTP targets;
Cloud Storage writes and Pub/Sub publishes start goroutines that deliver
notifications through Pub/Sub and Eventarc (`Eventing` composes them); Cloud
Build reads Secret Manager secrets, IAM identities and worker pools once, before
its first step; every handler asks the authorization kernel for a decision
(`Require` in the programs, `Authorize` for what the kernel does to decide), then
whether the API is enabled and a service perimeter lets it through (`Gates`),
then looks at the body of the request.

## 2. The modules

Definitions keep the names of the functions they stand for; `PROJECT.json`
("map") gives the lines of each. Operators whose comment starts with `Mutant:`
are plausible mistakes placed next to the definition they would replace. No
action uses one; each shows that a property can fail.

### `Steps.tla`, `Handlers.tla`, `HandlersProofs.tla`, the `*Ops.tla` modules, `MCHandlers.tla`

A **program** is the sequence of checks and SQL statements of a handler, in the
order of its source. `Steps` is the vocabulary: checks of the request
(`Require`, `Gates`, `ActAs`, `Body`), reads that end the request when the row
is missing (`Get`) or there (`Lacks`) or do not (`Peek`), inserts that tell a
conflict (`Insert`), do not (`Ensure`) or need a parent (`InsertUnder`),
UPDATEs and DELETEs that tell whether a row matched or ignore it, work of an
engine that may fail and an UPDATE that may find no row, upon which a handler undoes what
it did (`Fallible`, `WriteOr`), transactions (`Atomic`). `Do` is
what each does to the tables, to what the request has read and to its answer.
What a sequence of statements does (`Reversal`, `Transaction`, `Run`) is a function of how
many of them have been made. A row that is not there has no words in it (`Missing`).

A **table** holds the one row the requests name, or none: requests about other
names never meet. A **column** holds the marks of the requests whose words are in
it, or a constant when the code compares with it. So a row tells who wrote what,
and nothing else: bodies and names need no more. An UPDATE that writes back what
was read is `"back"`, one that adds to it is `"merge"`.

A **group** is the operations that share tables, with the parents of each table
and the states its programs compare. The twelve modules hold sixty-four groups:

| module | services |
|---|---|
| `ComputeOps` | Compute Engine |
| `NetworkOps` | Cloud DNS, load balancing, CDN, Cloud Armor, Certificate Manager |
| `DatabaseOps` | Cloud SQL, Managed Kafka, Memorystore, Bigtable, Filestore |
| `ServerlessOps` | Cloud Run with its Knative surface, Cloud Functions, App Engine, GKE |
| `AnalyticsOps` | BigQuery, Datastore, Dataflow, Spanner, Workflows |
| `ArtifactOps` | Artifact Registry over REST and as a Docker registry, Vertex AI |
| `SecurityOps` | KMS, Binary Authorization, Container Analysis, Security Command Center, Access Context Manager, Organization Policy, Service Usage |
| `IamOps` | service accounts, keys, tokens, custom roles, workload identity federation, Firebase Auth |
| `ResourceOps` | projects, folders, tags, Cloud Asset |
| `ObservabilityOps` | Logging, Monitoring |
| `MessagingOps` | the rows of Pub/Sub (gRPC and REST), Cloud Tasks, Scheduler, Cloud Build and Eventarc |
| `StorageOps` | the rows of Secret Manager (gRPC and REST), Cloud Storage and Firestore's REST surface |

`Handlers` runs two programs of a group side by side from tables that finished
requests may have left. `input` says which check, if any, refuses the request.
What the theorems need of the programs is an assumption of `Handlers`, which TLC
evaluates on those of all sixty-four groups: they consist of statements of `Steps`, no
check comes after a statement that stores something (`ChecksFirst`), what is undone is
all that was stored (`UndoesAll`), a program that writes back a row of a table
something is undone in does not also create rows there (`Keeps`), and the mark of a
request is no constant the code compares with (`MarksAssumption`). Three properties
hold of every pair:

* `AsIfSerial`: the answers and the rows are those of one request after the
  other, computed by `Run` from the same start;
* `RefusedUntouched`: what a check refuses, or an engine that fails undoes,
  leaves no mark in any row;
* `StopLeavesConsistent`: at every step at which at most one request has begun to
  work, no row is without the rows it lives under, so a process that stops there
  leaves none.

`AsIfSerial` names what it leaves out, as predicates over the programs, so that a
pair is left out for what its statements are and not by its name:

* `Contended`: a column that both requests write. The last write wins, and it may
  be built from a row read before the other's (lost updates of patches);
* `Outruns`: one deletes a parent between the other's look for it and its insert;
* `Overtakes`: a look for a row and a later insert that replaces it;
* `Uncovers`: a replacement done as a delete and an insert;
* `Supposes`: a step taken or not for a row of another table read before;
* `Redeletes`: a read that finds a row and a DELETE whose count nobody looks at;
* `Overrides`: a refusal of a state that the other request brings about meanwhile;
* an answer of 500 or of a row that went meanwhile (`SameAnswer`), and requests
  cut short by one (`CutShort`).

Each names something the code does: these are the reads that a later statement
does not repeat. Everything else is claimed.

`MCHandlers` makes the sixty-four groups one instance. It takes pairs in one
order, leaves out pairs that only read, keeps tables that neither request touches
empty but for parents, and lets a check go first: a check looks at nothing that
another request stores, so it commutes with all of that one's steps.

The revisions of a Cloud Run service are one row of a group. Two updates that read one
generation choose one name for their revisions, and the second INSERT fails: `Same`
compares the template with the one that was read, which differs just when another update
came first. A service deleted and created anew between the two would take a third request.

`MCFunctions` runs the group of Cloud Functions from empty tables for a finding.

### `Authorize.tla`

One evaluation: `ReadParent` goes up a level, `ReadPolicy` reads the next policy,
`TryBinding` tries a binding and `ReadRole` reads a custom role, each a statement.
`MoveFolder`, `CreateFolder`, `PutIAMPolicyJSON`, `ChangeCustomRole` and `SetClock`
are requests of others. `ever` and `always` are histories of what was there at
some time and all the time since the evaluation began. The two properties relate
the answer to the meaning of policies (`Grants`, over the closure `Above` of the
hierarchy, the least set closed under links) in these two views. Evaluations write
nothing, so one is enough. The policies that can be stored, the resources asked for
and the depth of the walk are constants, given by `MCSecretVersions`. The table of predefined roles is reduced to one that grants the permission; a
condition is a bound on the time, since `request.time` is what changes.

### `Eventing.tla`, `EventingProofs.tla`, `MCEventing.tla`

`PutObject` and `DeleteObject` commit and leave goroutines behind. `notify` reads
the configurations and publishes for each that matches, passing over one whose
topic is gone; a publish leaves an `eventarc` goroutine for the message, a
finalize one for the event; an `eventarc` goroutine reads the triggers and delivers to a
function of the lab, its recorder or a URI, with one retry. Requests create
configurations under `MAX(id) + 1` and delete them; triggers, topics, functions
and grants come and go. `Restart` loses the goroutines. `owed` is what each event
has still to be published for. The bucket holds one object: what is delivered
depends on the event, not on the name. The Pub/Sub side is the topic: what
becomes of a published message is `PubSub`.

### `PubSub.tla`, `Mailbox.tla`, `PubSubProofs.tla`, `MCPubSub.tla`

A copy is a pair of a message id and a subscription; the code's `ack_id` is a
fresh UUID per row, in bijection with it. The columns `delivered` and
`ack_deadline` are one value: `free`, `held`, `expired`, or `none` for no row. A
held lease may expire at any moment, which covers the clock and every deadline a
client asks for.

`Publish` (and the dead-letter publish inside Pull and push) is two steps:
`pc = "list"` reads the subscriptions, `"insert"` is the transaction that stores
the copies under the next id. A Pull is `"select"`, then per row `"lease"`, which
either leases the row and raises the counter from the value read, or starts a
dead-letter publish whose DELETE is the step `"drop"`. After a client's publish,
push subscriptions are served by the same goroutine: `"push"`, `"http"`,
`"record"`, `"count"`. A subscription is created in three statements (`Administer`): the
dead-letter topic is looked up, the topic (`"attach"`), and the row is inserted (`"create"`); a
patch reads the row, looks up another dead-letter topic (`"policy"`) and writes the columns
back (`"patch"`). Topics and subscriptions may go in between. Acknowledge, ModifyAckDeadline and SeekToTime are single
statements of any client. `tries` and `past` are histories: how often a copy
was delivered, and what became of it.

`Mailbox` is what subscriptions promise without handlers, leases or counters:
fan-out under a fresh id; a copy stays until it is settled, or until a message
that carries it to the dead-letter topic exists; it does not come back.
`PubSub!ImplementsMailbox` is the refinement, with `stored`, `settled` and
`forwarded` mapped to expressions over the tables and `past`.

Abstractions: a filter is the set of payloads it accepts. The attribute that a
dead-letter publish adds is kept as the message's origin; that a filter on a
subscription of the dead-letter topic could test that attribute is ignored.
A publish request with several messages is a sequence of requests, which is how
the handler treats it. The over-fetch of Pull is not filled by the instances.
Snapshots and labels are programs of `MessagingOps`; push tokens decide nothing.

### `GcsObjects.tla`, `VersionStore.tla`, `GcsProofs.tla`, `MCGcsObjects.tla`, `GcsRaceProofs.tla`

Rows are keyed by bucket, name and generation; files by bucket, generation and
`sanitizeObjectPath(name)`. Writing is: read the bucket, check conditions and
retention, read the largest generation, write the file, insert the row. Deleting
is the row first, then the file. A hash is the bytes themselves. `Offered` chooses
which requests an instance makes, `Owned` which names the clients of each handler
write. `VersionStore` is a map from versions to bytes: a write adds a version
above those its name has, nothing changes a version, a delete removes it whole.

`MCGcsObjects` holds the module twice: `racing` behaviours have two clients that
write and delete, the others one client that asks for everything. Who races, over which
names, and how many generations there are (`RaceGen`) are constants.

In `StorageOps`: metadata patches, policies and ACLs, HMAC keys, the XML surface. In
`Eventing`: notifications. Left out: a partly written file. Instances use names
with different paths; names that differ only in empty, `.` or `..` segments
share their files, because `sanitizeObjectPath` drops those segments.

### `Firestore.tla`, `FirestoreProofs.tla`, `MCFirestore.tla`

Commit consumes its token, stages each write from a row it reads, and applies all
deletes and then all puts in one transaction. BatchWrite, CreateDocument and
UpdateDocument read a row and put it back. A field is a small integer or absent,
the only transform is an increment by one (others differ in the value
they compute, not in when they read and write). Queries, listing and indexes
only read. `turns` is chosen at the start: in those behaviours clients wait for
each other's replies.

### `SecretVersions.tla`, `SecretProofs.tla`, `MCSecretVersions.tla`

A version is a secret and a number. AddSecretVersion reads the secret, then the
largest number, then inserts under the primary key; the state changes read,
check, and write. Sealing is left out: a payload stands for its ciphertext and
`Empty` for the cleared one. Rotation times are informational.
`destroyed` is the history of the stored versions that were destroyed.
`MCSecretVersions` also holds `Authorize`: a handler has the permission evaluated
before it does anything, so either versions or an evaluation are at work. Its constants are the
folders, what policies may say and how deep a walk reads, so that what is checked on two
folders is proved for any tree.

### `Scheduler.tla`

`jobs` is the table, `tickers` the map under the service's mutex, `run` the
goroutines. A handler writes the row first. `registerTicker` is three steps:
stop the old one (a mutex section), read the schedule, start the new one (a
second mutex section). A goroutine waits in a `select` for a tick or its
cancellation, reads the job again, and fires it if it is still enabled. Cron
expressions are reduced to whether `tickerInterval` finds an interval. `:run` and
the timestamps change nothing the module keeps. `touched` is the set of jobs
registered or stopped since the process started: nothing registers stored jobs
at a start, so the properties speak of those only.

### `CloudTasks.tla`

A dispatch counts itself, calls its target and counts the response, three steps.
The result of the first UPDATE is ignored and a task without a row is called
all the same. `reg[h].of` says whether the dispatch counted on the row stored
now or on an earlier row of the name; `cut`, `strays` and `wins` are histories.
Queue states and limits are stored and returned but decide nothing.

### `CloudBuild.tla`, `MCCloudBuild.tla`, `MCBackground.tla`, `BackgroundProofs.tla`

The handler that creates a build answers and then runs it: read the row, check
that it may run at all (egress, secrets, identity: `admitted`), then per step
read the row, run a container, append to the log, and put the progress, which
reads, checks and writes. Cancel reads and writes in two statements. `engine`
says whether a nested engine is configured; without one the first progress is
`WORKING` for good, as the documentation says. `Disconnect` cancels the context
of the request, under which the steps run. The check of the context and the
read of the row that follows it are one step.

Two things the module makes visible without calling them wrong: a build whose
runner a restart ended stays `WORKING` (`orphans`), and a retry copies the steps
with the statuses of its source.

`MCBackground` composes Cloud Tasks, Cloud Scheduler and Cloud Build, the services
whose goroutines work after the answer. They share nothing but the process, so
`atWork` says which one moves; `BackgroundProofs` carries the theorems about each over
to the composition. Builds share no row, so two handlers are at one build
(`builds`: the runner and a cancellation) or one handler after the other creates and
retries builds (`retries`). `MCCloudBuild` has Cloud Build alone, for the
disagreement below.

## 3. What TLC checks

Every run is exhaustive. "States" are distinct states.

| run | states | bounds | shows |
|---|---|---|---|
| `pubsub_requests` | 1.7 million | 2 topics, 2 subscriptions, 2 handlers (one serves requests and one administers subscriptions, or both serve), 2 messages, 2 deliveries of a copy, policy of 2 attempts | TypeOK, NoLoss, SettledStaysGone, DeadLetterEarned, ImplementsMailbox |
| `pubsub_live` | 7 thousand | a publisher and a polling stream, 2 publications, ids to 5 | WorkerDrains, WorkerReached |
| `pubsub_starve` | - | the same, dead-letter topic deleted | WorkerReached is violated |
| `gcs_requests` | 342 thousand | either every kind of request, one at a time, killed anywhere, 2 generations, 2 chunks, 2 periods; or 2 clients that race, an object of one and an object of both | BlobBacked, RetentionHonoured, LockHolds, ImplementsVersions; RacersBlobBacked, RacersRowsKept |
| `firestore_commit` | 2.2 million | 2 handlers, 2 documents, 2 fields, 1 token | TokenOnce, CreateTimeStable, CommitIsSequential |
| `firestore_precondition` | - | 2 commits that create one document | PreconditionsEnforced is violated |
| `secrets_versions` | 1.1 million | either 2 handlers, 1 secret, 3 numbers, 2 payloads; or an evaluation of 3 principals on 2 folders, 1 policy at the start, 2 changes, times 0 and 1 | TypeOK, DestroyedUnreadable, WellNumbered, PayloadImmutable, DestroyedFinal; SteadyGrantFound, RevokedStaysOut |
| `background_work` | 200 thousand | Cloud Tasks: 3 handlers, 1 task, 3 dispatches; Scheduler: 2 handlers, 1 job, 2 goroutines; Cloud Build: 2 handlers at 1 build, or 2 builds created and retried one at a time, 2 steps | TypeOK, CountsBalance, OneCreator; TickersFollowJobs, KeepsFiring, StrayTickersEnd; SuccessEarned, SettledStays, BuildsEnd |
| `cloudbuild_terminal` | - | Cloud Build alone, 2 handlers, 2 builds, 2 steps | TerminalUnchanged is violated |
| `eventing_events` | 455 thousand | 1 event, 2 notification ids, 2 triggers, 1 topic, 2 handlers; configurations or triggers change | Accounted, DeliveredOnce, ConfigsStay, EventsSettle |
| `handlers_requests` | 575 thousand | 2 requests: every pair of operations of each of the 64 groups, every state of the tables they touch, at most one check failing | AsIfSerial, RefusedUntouched, StopLeavesConsistent |
| `functions_upload` | - | Cloud Functions alone, from empty tables | AcceptedSourceDeploys is violated |

Why the bounds are enough to mean something. A race of this code is between a
read and a write of one handler with another handler in between, so two handlers
reach each of them (three for Cloud Tasks, so that two concurrent dispatches can
be overtaken by a creation). One secret, job, task or row of a table suffices where
rows of different names never meet; Pub/Sub needs two subscriptions for fan-out and
dead-lettering, Firestore two documents for order, Cloud Build two builds for
retry, which reads the other row in one statement; the proofs about Cloud Build leave
handlers and builds unbounded. Two messages are one and its dead-letter copy, or two in a queue. The
policy of 2 attempts stands for 5 to 100: what matters is a delivery before the
last one, and the proofs hold for any number. Events of an object run in
goroutines of their own that share nothing but the tables, so one event beside the
clients that change these meets every order of reads and writes. Two folders make
a chain and a cycle; the limit of the walk (`MaxDepth`, 32 in the code) is their
number, so that it is reached. Two changes are enough to revoke in one place and
grant in another while an evaluation is between the two. Requests that a check
refuses are taken one at a time: two refusals have nothing to do with each other.
Every bound is a constant named in its module: `MaxId`, `MaxTries`, `MaxGen`,
`RaceGen`, `MaxClock`, `MaxSize`, `MaxCount`, `MaxVersion`, `MaxRuns`, `Steps`, `MaxEvents`,
`MaxConfig`, `MaxMeta`, `MaxChanges`, `MaxTime`, `MaxPublish`, and the sets of names.

Symmetry is used for handlers and payloads in runs without liveness properties
whose modules never single one out.

Deadlock is not checked where the system may stop: in the Cloud Storage and the
Eventing instances when the bounds are reached and the clients have nothing left to
ask, and in `handlers_requests` and `functions_upload` when both requests are
answered.

### Properties that hold only one request at a time

Some promises of this code hold only while requests do not overlap, and the
properties say so, either by the antecedent `turns` or by an instance with one
handler: retention, lock and the backing of blobs in Cloud
Storage, sequential commits of Firestore, gap-free numbers and final
destruction in Secret Manager, tickers that follow their jobs. With two handlers
each of them has a short counterexample: the code reads, decides and writes in
separate statements. The hazards of `PROJECT.json` name the line for each. What
is checked under every interleaving is what the code protects by a primary key,
by a guarded statement, by writing in a safe order, or by reading again:
NoLoss, SettledStaysGone, DeadLetterEarned, RacersBlobBacked, RacersRowsKept,
TokenOnce, CreateTimeStable, PayloadImmutable, DestroyedUnreadable,
StrayTickersEnd, OneCreator, CountsBalance, SuccessEarned, SettledStays,
Accounted, DeliveredOnce, ConfigsStay, SteadyGrantFound, RevokedStaysOut,
RefusedUntouched, and AsIfSerial for the pairs it is about.

### Fairness

* `MCPubSub`: the goroutine of a stream polls on a 200 ms timer, handlers run to
  their end, and deadlines pass, each weakly fair; clients may stay silent for
  ever, so no acknowledgement is assumed. The server stays up.
* `Scheduler`: goroutines are scheduled and tickers tick (weak). `Done` is
  strongly fair: a Go `select` with a tick and a cancellation both ready picks
  at random, so a cancelled goroutine is not given the tick for ever.
* `CloudBuild`: `Advance` is weakly fair for each handler; a container that does not
  exit is given up after 30 seconds, and the rest are statements.
* `Eventing`: a step of some goroutine is weakly fair: goroutines run on, and a call
  of a target ends by its timeout. Clients and restarts may do as they please.

No other module states fairness, and none of their properties needs it.

### Disagreements

* `pubsub_starve`: `PullMessages` over-fetches "so dead-lettered messages do not
  starve the pull window" (`internal/store/pubsub.go:523`). If the dead-letter
  topic has been deleted, the oldest exhausted message makes every Pull return
  the error, and younger messages are never delivered.
* `firestore_precondition`: preconditions "are enforced (fail-closed)"
  (`internal/services/firestore/service.go:695`). They are checked before the
  transaction that applies the writes, and a document created in between is
  overwritten.
* `cloudbuild_terminal`: "Terminal rows ... are left unchanged"
  (`internal/store/artifact_cloudbuild.go:692`). The status is checked by a read
  before the UPDATE, and a build cancelled in between runs on to `SUCCESS`.
* `functions_upload`: a create "starts `DEPLOYING` until the generateUploadUrl path
  accepts a source zip, then flips to `ACTIVE`"
  (`docs/services/cloud-functions.md:4`). The create looks for the upload before it
  inserts the row, and the upload activates the rows that are there: one accepted in
  between leaves the function `DEPLOYING` for good.

## 4. What is proved

All theorems hold for every value of the constants that satisfies the module's
`ConstantsAssumption`, so for any number of handlers, names, messages and
attempts. `Scheduler` and `CloudBuild`, which `MCBackground` instantiates, declare no
assumption; their theorems state what they need as a hypothesis (`JobConstants`,
`BuildConstants`). A
theorem that holds of fewer behaviours than the module allows, say of clients that
write different names, has that as a hypothesis too, named where it stands. They are
checked by TLAPS (SMT, Zenon, and LS4 for temporal steps).

### Pub/Sub (`PubSubProofs.tla`)

`TypeOK`, `NoLoss`, `SettledStaysGone` and `DeadLetterEarned` are not inductive:
what a handler will write was read earlier, and other handlers have run since.
The inductive invariant `Inv` says what stays true of registers meanwhile
(`Tracks`): the row read belongs to an existing id, the counter read is at most
the number of deliveries made, a handler about to DELETE a dead-lettered row has
its dead-letter copies stored. All of it is monotone: ids, deliveries and fates
only grow (`Growing`), so a step of another handler cannot spoil it
(`TracksStable`). With that lemma each action needs an argument for the handler
that moves only.

| theorem | statement |
|---|---|
| `Invariance` | `Spec => []Inv` |
| `TypeCorrect` | `Spec => []TypeOK` |
| `NothingLost` | `Spec => []NoLoss` |
| `SettledForGood` | `Spec => []SettledStaysGone` |
| `DeadLetterJustified` | `Spec => []DeadLetterEarned` |
| `Refinement` | `Spec => ImplementsMailbox`: initial states map to initial states, every action to a step of `Mailbox` or a stutter |

Assumptions: the bounds are numbers, the markers for no topic, no subscription,
no message and no work are not members of the sets they are told apart from, and
what clients ask for (`Offered`) is well formed.

### Cloud Storage (`GcsProofs.tla`, `GcsRaceProofs.tla`)

That rows have their files is not inductive: the file is written before the row and
removed after it. `Holds` says what a handler knows of the name it writes: about to
insert, it holds a generation above those stored and has written the file; about to
unlink, the row is gone. Other clients cannot spoil this if the name is `Private`, that
is, if no other client writes it, because two versions never share a file (`PathOfKey`).
With it each step is one of `VersionStore` or changes nothing it sees: the INSERT is its
write and the DELETE its removal, the files come and go unseen (`StoreStays`). That
a row is never replaced needs no such hypothesis, only the primary key.

Retention and the lock are checked statements before the write that relies on them.
`AloneInv` says that what the checks found still holds: the latest version, or the one
to delete, is old enough (`Aged`), and the policy about to be stored does not weaken a
locked one (`KeepsLock`). Time passes meanwhile and makes versions older only, and no
version is stamped later than the clock (`Stamped`).

| theorem | hypotheses | statement |
|---|---|---|
| `Invariance` | `Distinct`, `DropsAlone` | `Spec => []Inv` |
| `TypeCorrect` | `Distinct`, `DropsAlone` | `Spec => []TypeOK` |
| `RowsHaveFiles` | these, and every name is `Private` | `Spec => []BlobBacked` |
| `OwnedRowsHaveFiles` | `Distinct`, `DropsAlone`, a finite set of handlers | `Spec => []OwnedBlobBacked` |
| `RowsAreKept` | none | `Spec => RowsKept` |
| `VersionsImplemented` | those of `RowsHaveFiles` | `Spec => ImplementsVersions`, the refinement of `VersionStore` |
| `AloneInvariance` | `Distinct`, `Alone` | `Spec => [](Inv /\ AloneInv)` |
| `RetentionKept` | `Distinct`, `Alone` | `Spec => RetentionHonoured`, an action property |
| `LockKept` | `Distinct`, `Alone` | `Spec => LockHolds`, an action property |

Assumptions: the bounds are numbers, the periods too, `None` is not a row or a content.
`Distinct`: names have different paths; with `a` and `a/` the second write takes the file
of the first. `Private`: with two writers of a name, one that has lost the race for a
generation removes the file of the other (`InsertConflict`). `DropsAlone`: if buckets are deleted
at all, one client is at work; DeleteBucket counts the objects before it removes
the directory, and an object stored in between would lose its file. `Alone`: one client is at
work, with two the checks are stale (see the hazards).

`RacersBlobBacked` and `RacersRowsKept` state `OwnedBlobBacked` and `RowsKept` of the racing
half of `MCGcsObjects`, an instance of the module. `GcsRaceProofs` takes the lemmas of
`GcsProofs` under the same substitution, shows that the constants of the racers satisfy the
assumptions (`RaceConstants`), that the definitions of the two instances agree
(`SameInit`, `SameNext`), and carries the lemmas over to `MCSpec`:

| theorem of `GcsRaceProofs` | hypotheses | statement |
|---|---|---|
| `RacersRowsHaveFiles` | `DistinctPaths`, a finite set of racers | `MCSpec => []RacersBlobBacked` |
| `RacersRowsAreKept` | none | `MCSpec => RacersRowsKept`, an action property |

Assumptions: those above, and `RaceAssumption`: each racer writes some of the names.

### Secret Manager (`SecretProofs.tla`)

`TypeOK` needs what registers carry from one statement to the next (`Carries`):
a handler about to insert has a payload and a number within the bound. That number is
the largest one stored plus one, and that a largest one exists is a lemma of its own
(`BoundedMax`, from the well-foundedness of the naturals). `DestroyedUnreadable`
is not inductive, because a handler that found the version before it was destroyed
may set its state to `ENABLED` afterwards. `Cleared` is: a destroyed version that
is stored has no ciphertext, and no step gives it one, since the INSERT fails on
a number that is taken and the UPDATE never writes a payload other than the empty one.

| theorem | statement |
|---|---|
| `Invariance` | `Spec => []Inv` |
| `TypeCorrect` | `Spec => []TypeOK` |
| `DestroyedGone` | `Spec => []DestroyedUnreadable` |
| `PayloadsImmutable` | `Spec => PayloadImmutable`, an action property |
| `TurnInvariance` | `Spec => [](Inv /\ InTurn)` |
| `NumberedWithoutGaps` | `Spec => []WellNumbered` |
| `DestroyedStays` | `Spec => DestroyedFinal`, an action property |
| `VersionsBesideWalks` | `MCSpec => Spec`: all of this holds beside evaluations |

`WellNumbered` and `DestroyedFinal` are about clients that take turns. `InTurn` says what
holds in those behaviours: one handler is at work, the numbers of a secret have no
gap (`Gapless`), and what the handler read is still so (`Ready`): every number below the one
it is about to insert is stored, the version it is about to set is not destroyed.

Assumptions: `MaxVersion` is a positive number and `None` is not a row.

### Authorization (`SecretProofs.tla`)

An evaluation reads the tree, the policies and the roles at different times. `Honest`,
the heart of `WalkInv`, ties what it has in its registers to `ever`: each resource on its
chain is in the closure of what was linked, the bindings at hand were bound to the
resource they are read from, and one it reads a role for names the principal and had
an open condition. So what it allows was granted, piece by piece, since it began.

`Steady` ties them to `always`, so that nothing which stays is missed. What stays linked to a
resource on the chain is the next on the chain, or the walk has met it before
(`Connected`), so at the end the chain is closed under what stayed linked, and holds all
that `Above` holds. The walk stops early only at a resource without a parent, one it has met,
or at the limit; it cannot come to the limit, because every read met another folder
(`Climbing`). No binding that stays and would serve is behind the reader (`Unpassed`).

| theorem | statement |
|---|---|
| `RevokedIsOut` | `MCSpec => []RevokedStaysOut` |
| `SteadyIsFound` | `Shallow => (MCSpec => []SteadyGrantFound)` |

Assumptions: folders, the organization, the project and its item are different things,
policies are sequences of bindings, and the custom role is not the predefined one.
`Shallow`: there are at most as many folders as the walk reads levels (32 in the code). A
tree that nests no deeper would not do: while folders move, a chain may meet more of
them than were ever above each other.

### Cloud Tasks (`BackgroundProofs.tla`)

`CountsBalance` says nothing about a name without a row, so it does not tell what a
task created there starts with. `Fresh` adds it: such a name has an empty history
and no dispatch that counts on a row. Each action then changes the counters and
the set of handlers that are calling by one (lemmas of `FiniteSetTheorems`), or moves
them to `cut` (`RestartKeeps`) or out of the way (`ForgetKeeps`).

| theorem | statement |
|---|---|
| `Invariance` | `Spec => []Inv` |
| `TypeCorrect` | `Spec => []TypeOK` |
| `CountersAgree` | `Spec => []CountsBalance` |
| `CreatorUnique` | `Spec => []OneCreator` |

Assumptions: `MaxRuns` is a positive number, `None` is not a row, and the set of
handlers is finite.

### Eventing (`EventingProofs.tla`)

None of the three properties is inductive. That nothing is published or delivered
twice rests on the goroutines that are still to act: there is one for each source,
nothing it has ahead has been done, and no name is ahead twice (`Ahead`, with
`NotifyOK` and `ArcOK` for the two kinds). The exception is the call that is
repeated: its target may have seen the first attempt (`TriedOnce`). A source that is
not committed or not published yet has no goroutine and no delivery (`HistoryOK`).
A goroutine that ends has nothing ahead, so an event it still owed is paid or its
configuration was deleted.

| theorem | statement |
|---|---|
| `Invariance` | `Spec => []Inv` |
| `AccountedHolds` | `Spec => []Accounted` |
| `DeliveredOnceHolds` | `Spec => []DeliveredOnce` |
| `ConfigsStayHolds` | `Spec => ConfigsStay`, an action property |

Assumptions: the bounds are numbers, `Offered` gives each trigger rows it may be
created with, and `None` is not a configuration, row, id or topic.

### Firestore (`FirestoreProofs.tla`)

`TokenOnce` needs that a token once consumed is gone (`Consumed`). `CreateTimeStable`
is about the rows that handlers put back: their times may be stale, but the
statement that writes over a row leaves the creation time alone, and a put after a
delete of the same transaction would not (`StagedApart` says that no commit has both).

`CommitIsSequential` compares one transaction, all deletes and then all puts, with the
writes one after the other (`InOrder`, a recursive function), for commits that name no
document twice. `SeqInv` says that what a commit has staged is what its writes make of
the documents as they still are (`Staged`), which holds while clients take turns, and that
it stages a write only if the document allows it. Because no two writes name one
document, each place of `InOrder` has a closed form: the documents whose write is among the
first `n` are as that write leaves them, the others as they were (`InOrderIs`). The prover has
no induction over the writes, so the proof takes the least `n` for which this
fails (`LeastNumber`) and refutes it by the definition at `n`.

| theorem | statement |
|---|---|
| `TokenOnceHolds` | `Spec => []TokenOnce` |
| `CreateTimeStableHolds` | `OneFate` implies `Spec => CreateTimeStable` |
| `Invariance` | `Spec => []SeqInv` |
| `CommitIsSequentialHolds` | `Spec => CommitIsSequential`, an action property |

Assumptions: the bounds are numbers, `None` is not a token or a row, and what clients send
are sequences of writes to documents, no batch being empty. `OneFate`: no commit
that clients send both deletes and puts the same document. The run has none either: a
document that is deleted and created anew in one transaction rightly gets a new
creation time.

### Cloud Scheduler (`BackgroundProofs.tla`)

`TickersFollowJobs` speaks of moments at which no client is served. `Orderly` says
what holds at the others while clients take turns (`JobInv`): one handler is at work, a goroutine
that goes on is that of its job's entry (`Traced`), and only the job being served may
be between its row and its goroutine (`Followed`, with what the handler relies on in
`Knows`: a job it is about to start is active and has no goroutine, a job it is about to
stop for good is not active any more). `TypeOK` holds whatever requests race, because
two entries never share a goroutine (`Entries`).

| theorem | statement |
|---|---|
| `JobInvariance` | `Jobs!Spec => []JobInv` |
| `JobTypeCorrect` | `Jobs!Spec => []Jobs!TypeOK` |
| `JobTickersFollow` | `Jobs!Spec => []Jobs!TickersFollowJobs` |

`JobConstants`: `None` is not a job, a goroutine, a row or the name of an operation.

### Cloud Build (`BackgroundProofs.tla`)

`SuccessEarned` speaks of rows only. That the SUCCESS about to be written is earned is
a matter of what its runner knows (`RunnerOK`): the output kept so far is that of the
steps before its own, in order, and none has failed. Others cannot spoil it, because
a build has one runner (`Alone`) and a cancellation writes neither output nor another
number of steps. `SettledStays` goes through the actions once more: none comes to a
write of a row that it has seen ended.

| theorem | statement |
|---|---|
| `BuildInvariance` | `Builds!Spec => []BuildInv` |
| `BuildSuccessEarned` | `Builds!Spec => []Builds!SuccessEarned` |
| `BuildSettledStays` | `Builds!Spec => Builds!SettledStays`, an action property |

`BuildConstants`: `Steps` is a positive number and `None` is not a build, a row or what a
register holds to write.

### The background services together (`BackgroundProofs.tla`)

The run checks the composition `MCBackground`, in which each of the three services
moves while the others stand still, and its starts are fewer than those of the services
alone. `StepOfEach` shows that a step of the composition is a step or a stutter of the
scheduler and of the builds, so that the lemmas about their steps carry over.

| theorem | statement, from `JobConstants` and `BuildConstants` |
|---|---|
| `WorkInvariance` | `MCSpec => []WorkInv`, the invariants of both |
| `TickersFollow` | `MCSpec => []TickersFollowJobs` |
| `SuccessIsEarned` | `MCSpec => []SuccessEarned` |
| `EndedStaysSettled` | `MCSpec => SettledStays`, an action property |

### The control plane (`HandlersProofs.tla`)

`RefusedUntouched` is about the mark of a request: no row has it once the request was
refused or undone. A mark travels, since a handler may add its words to what it has
read, or write that back, so the invariant follows it through the tables and through what
every handler holds. `Traced`: a mark is only in a table in which an earlier step of its
own program stores. `Refused`: a request that a check refuses has no such step behind it.
Both hold of any number of requests. `Reverted` is for a request that undid its work: its
mark is in no table, and where another request has read it, the row is missing or that
request does not write it back. It holds of two requests and not of three: the first
creates a row and takes it back, the second has read it in between, the third creates the
row anew, and the second merges what it has read into that. The code has this race
wherever a failed engine takes a row back by its name.

`Tracked` and `Harmless` say this of one mark and one statement. Each of the
statements of `Steps` is one of six things (`OnceCases`): nothing, an answer, a read, a new
row, new words in a row, the end of a row; and each keeps the mark tracked
(`OnceTracked`). So do sequences of them: undoing (`UndoneTracked`), a transaction
(`TransactionTracked`), and so `Do` (`DoTracked`). Programs have any length: that
`Reversal` and `Transaction` are what their equations say (`ReversalIs`, `TransactionIs`)
is shown with the least length for which there is no such function, and what holds after
each statement with the first after which it would not (`Least`).

| theorem | statement |
|---|---|
| `Invariance` | `Spec => []Inv` |
| `RefusedStoreNothing` | `Spec => []RefusedLeaveNothing`, for any number of requests |
| `RefusedStayUntouched` | `AtMostTwo` implies `Spec => []RefusedUntouched` |

Assumptions: those of `Handlers` on the programs (section 2), nothing about which
programs there are. `AtMostTwo`: there are no three different requests.

### What stays with TLC

Liveness under fairness and everything about ENABLED are outside the prover:
WorkerDrains, WorkerReached, KeepsFiring, StrayTickersEnd, BuildsEnd and EventsSettle
are model-checked only. So are two properties of `Handlers`. `AsIfSerial` compares each pair
of programs with both orders of the same two, and what it leaves out is
computed from the statements they consist of: a proof would go through the sixty-four
groups one by one, as TLC does. `StopLeavesConsistent` is about one request at work,
alone: that its program creates parents first is a fact about each program, with nothing
in it that another number of requests could change.
The theorems about Pub/Sub are about `Spec`; the behaviours of
`pubsub_requests` are ends of some of its behaviours, since they start from
topics and subscriptions that were created before.

## 5. What is not modelled

* The engine behind containers is another program; a step of it is one that may fail.
* Authentication, CEL, query and filter languages, JSON, and configuration are pure
  functions of a request, a table and the clock. A handler meets them as a check.
* Cryptography: a signature is valid or not, a sealed payload is the payload.
* The orderly shutdown of the server, only a stop at any point, which includes it;
  that it waits for open streams without a limit is visible in
  `internal/server/server.go` and in no model.
* The audit file: entries are appended under a mutex and passed on outside it, so
  their order beside Cloud Logging is not kept, and nothing promises it.
* Seeds, schema migrations and the service registry run before the first request.
* More than one row of a table in the control plane, where a filter or a cascade
  by prefix is reduced to the row the requests name; and three requests at once.

`PROJECT.json` gives each part's files and reason.

## 6. Plan

Done: the data planes with their abstract specifications, the goroutines behind
answers, eventing, authorization, and the requests of every service.

What would add most next:

1. What holds of a name that several clients write: which versions may then be without
   their file, and that no other name is touched.
2. `ImplementsMailbox` with the worker of a stream, as far as safety goes, and retries
   of events as a refinement of their own.
3. An abstract store of rows that `Handlers` implements, with the contended columns
   as the only ones it leaves open, in place of AsIfSerial.
4. Two evaluations and a request between them, for handlers that ask twice.
