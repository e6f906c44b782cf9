# ai-wallet: a verification project

TLA+ models of the wallet gateway in this repository, checked with TLC, and
theorems about them proved with TLAPS. The gateway is an HTTP service that
authenticates its callers, evaluates a policy on sign intents, has them signed in
process or by a separate worker, prepares and simulates transfers, verifies
signatures, and broadcasts signed transactions to an RPC node from a background
task. It keeps an audit log in memory or Postgres.

Paths below are relative to the repository's root (`src/broadcast.rs`,
`docs/architecture.md`).

## 1. Inventory

| Component | State it keeps | Operations | Talks to |
|---|---|---|---|
| Broadcast service (`src/broadcast.rs`) | `statuses`: `Arc<RwLock<HashMap<Uuid, ..>>>`; an mpsc channel of 128 jobs; one spawned worker | `enqueue`, the worker loop with `submit_transaction`, `get_status` | RPC node, audit repository |
| Broadcast handlers (`src/api.rs`) | none of their own; a request that is under way | `broadcast_transaction_handler`, `broadcast_status_handler` | broadcast service, audit repository |
| Sign-intent handler (`src/service.rs`, `handle_sign_intent`) | the request under way; a spawned audit task | evaluate, sign, spawn, answer | policy, signer, audit repository |
| Policy engine (`src/service.rs`) | none | `evaluate` | |
| Signers (`src/service.rs`) | key material, read at start | `sign` of mock, local-dev, remote-mtls | signer RPC |
| Signer RPC and worker (`src/signer_rpc.rs`, `src/bin/signer-worker.rs`) | calls under way; the worker is a second process with a `LocalDevSigner` | `request_signature`, the worker's handler | gateway |
| Transfer preparation, static simulator (`src/service.rs`) | the request under way | `prepare_transfer`, `simulate_transaction` | audit repository |
| Audit repository (`src/audit.rs`) | a `Vec` behind a `Mutex`, or a Postgres table and a pool of 5 connections | `record`, `list` | Postgres |
| HMAC authentication (`src/auth.rs`) | credentials and skew, read at start | header, freshness and MAC check | router |
| Configuration, start-up (`src/config.rs`, `src/lib.rs`, `src/main.rs`) | configuration, read once | `from_env`, `build_state`, graceful shutdown | everything |
| Message and typed-data verification (`src/service.rs`) | none | recover and compare | |
| Router, info, health, error mapping (`src/api.rs`, `src/error.rs`) | none | | |

What is hard in this code is not the length of it but who waits for whom:

- two tasks share a row: `enqueue` stores it, then sends the job; the worker
  looks the row up after the node has answered, and silently skips a missing one;
- the worker holds the write lock of the map across the await of the audit
  repository, while requests that store or read rows queue up behind it, and
  other requests wait for room in the channel the worker drains;
- a handler can end at any of its awaits, because the server drops it when the
  client disconnects; what it had started elsewhere goes on;
- an answer can be lost after the node has accepted a transaction or the signer
  worker has signed, and neither outgoing request has a timeout or a retry;
- an audit insert can fail before or after it is committed; some callers turn
  that into a 500 after the deed is done, others ignore it;
- an event is stamped before its call waits for the lock or a connection, so the
  order of the stamps, of the events and of the answers are three orders; stamps
  can tie, and the clock can be set back; the memory log lists by one of these
  orders, Postgres by another;
- a request is signed with the client's clock and judged by the gateway's, after
  the whole body was read; the age is computed in 64 bits, where it can wrap; the
  credentials can change over a restart;
- a graceful shutdown waits for every request that was accepted, those whose body
  is still being read included, which then wait for tasks, but not for the tasks
  themselves;
- a restart loses rows, channel, worker, spawned audit tasks and the memory log,
  and leaves the Postgres table, the node and the signer worker as they are;
- one transaction is parsed by four components, each with parsers of its own,
  and gas constants that must fit each other live in different functions.

What makes each part correct: **broadcast**: no outcome lost for want of a row,
no id posted twice, "submitted" only when the node accepted, row, log and chain
tell one story, no request waits for ever but behind a node that hangs.
**Signing**: no signature of what the policy engine did not approve, one per
request id, an approval is backed by a signature, the log says what was answered. **Transfers**: what one endpoint builds the next ones accept.
**Audit**: what was told Ok is kept, and a page tells its order and leaves out
nothing its reader can know of. **Authentication**: only fresh requests with the
right MAC pass, at every value of a 64-bit timestamp, and honest ones always do.
**The process**: a shutdown that was begun ends, unless a peer without a deadline
keeps it waiting. `PROJECT.json` lists the hazards line by line with the
properties that watch them.

## 2. Modules

| Module | Models |
|---|---|
| `BroadcastPromise` | abstract: what a client is promised about one broadcast id |
| `Broadcast` | handlers, channel, worker, lock, node and restarts; `KeepsPromise` refines it to `BroadcastPromise` |
| `Policy` | `PolicyEngine::evaluate` as operators |
| `SigningPromise` | abstract: what a client is promised about one sign intent |
| `SignIntent` | the sign-intent handler, signers, signer RPC, worker, audit tasks; uses `Policy`; `KeepsSigningPromise` refines it to `SigningPromise` |
| `Transfer` | `prepare_transfer`, the simulator, and the parsers of policy and signer |
| `AuditPromise` | abstract: what the audit repository promises |
| `AuditLog` | `record` and `list` of both repositories, clock, pool, database, restarts; `KeepsAuditPromise` refines it to `AuditPromise` |
| `HmacAuth` | `HmacAuthVerifier::verify` as operators, with i64 arithmetic |
| `Startup` | `from_env` and what `build_state` refuses, as operators |
| `Verification` | `verify_message` and `verify_typed_data` as operators |
| `Gateway` | clients, network, restarts, router and middleware over the three modules above |
| `Wallet` | `Broadcast` and `SignIntent` in one process that is shut down, killed and started |
| `Broadcast_proofs`, `SignIntent_proofs`, `Transfer_proofs`, `AuditLog_proofs`, `Gateway_proofs` | the theorems about each |
| `Promises_proofs` | what the three abstract specifications guarantee |
| `Wallet_proofs` | the process implements its components, whose theorems hold of it; a shutdown moves to its end |
| `MCBroadcast`, `MCSignIntent`, `MCTransfer`, `MCAuditLog`, `MCGateway`, `MCWallet` | symmetry sets and the finite inputs TLC uses |

A definition called `Name_Fault` (`Send_AnswersFirst`, `NeedsReview_Fault`, ...)
is `Name` with one plausible programming error. No specification uses it; put in
the place of `Name` it makes the property it is paired with in `PROJECT.json`
fail, which shows that the property notices the code.

### Broadcast

One action is the code between two awaits of one task.

| Variable | Code |
|---|---|
| `handler[j]` | the await at which `broadcast_transaction_handler` for job j stands, then its answer (`ok`, `error`), or `dropped`; `ok_before` is an `ok` given by an earlier process |
| `statuses`, `locked` | the rows of the map; `locked` while the worker's write guard lives across `record(..).await` |
| `queue` | the mpsc channel |
| `phase`, `job`, `outcome` | where the worker loop stands and what it holds |
| `audit` | the `broadcast_transaction` events |
| `rpc_url` | whether this process was started with `AI_WALLET_RPC_URL`; chosen at the start and anew at each restart |
| `posts`, `chain` | external: `eth_sendRawTransaction` calls, and what the node accepted |
| `asked`, `reply` | one status request at a time |

`Post`, `Insert`, `Send`/`SendClosed`, `RecordQueued` are the steps of a POST;
`WorkerStart`/`WorkerPanic`, `Recv`, `RpcReply`, `Publish`, `RecordOutcome`
those of the worker; `Poll`, `PollAnswer` those of a GET. `Insert` takes and
drops its guard within one statement, so it needs the lock free but never leaves
it taken; a read guard never outlives its step either. `Drop` is the server
dropping a handler. `Restart` is a kill at any point and covers the graceful
shutdown, which can only end with fewer requests open. `NodeAccepts` may happen
at any time after the POST has left, also after its answer was given up or the
process restarted; `RpcReply` returns `Ok` only of an accepted transaction and
`Err` in any case.

### SignIntent and Policy

`stage[r]` is the handler of request r and its answer; `call[r]` the RPC to the
worker (`sent`, then what the worker made of it); `signatures[r]` counts
signatures made under the request id in either process; `tasks` are the spawned
audit tasks with the decision each has captured; `signer` is read from the
environment in the initial state and anew at each restart. `Submit` is the handler up to its first await. With an in-process
signer nothing after that awaits, so it cannot be dropped; with remote-mtls
`WorkerSign`, `WorkerReply`, `CallFails` and `Drop` interleave freely.
`WorkerSign` picks whether the worker has a key: it is a process with an
environment of its own. `RunAuditTask` is the spawned task, `Restart` a restart of
the gateway alone.
The signature itself, and the bytes signed, are reduced to the fact that it was
made. A payload is reduced to whether it parses, and for whom: a `policy` defect
is one `evaluate` rejects, a `signer` defect one only `LocalDevSigner` rejects. A
transaction also carries its `value`, which the policy does not look at.
`SignedWithinDeclaredPolicy` therefore speaks of the maximum a client declares,
and `SignedValueIsWithinMaximum` of what the documentation asks for.

`SigningPromise` knows of a request only what it was told, whether the policy
admitted it, how many signatures were made and what the log holds. It says what
the invariants do not: an answer is never taken back, no signature follows a
refusal or an approval, and an event leaves the log only with its process.

### Transfer

A text field is `good` or `bad` for its parser, a missing one is the empty set.
`IsRejected` and `Prepared` are `prepare_transfer`, `Simulate` the static
simulator, and `StartSimulation`, `RecordSimulation`, `Drop` its handler. Gas
numbers are the real ones. `HandMade` transactions keep the simulator honest for
inputs `prepare_transfer` cannot produce; `FailureIsExplained` is stated for
prepared transfers only, because a hand-made transaction with 1813 bytes of
calldata or more can fail with 50000 gas and no warning at all.

### AuditLog

One action is the code of `record` or `list` between two awaits, or a step of the
database or the clock.

| Variable | Code |
|---|---|
| `backend` | which repository `build_state` made, from `DATABASE_URL` |
| `clock`, `set_back` | `Utc::now`; an operator or NTP may set it back, once |
| `record[c]` | where call c of `record` stands: `stamped` waits for the lock or for a connection, `insert` for the database |
| `created_at[c]` | the event's stamp, taken before either wait |
| `sent` | external: inserts the database has been given and not decided |
| `events` | the `Vec`, or the rows in the order they were committed |
| `settled[c]` | history: the calls that were told Ok before call c began |
| `list`, `limit`, `page` | the one client that lists, its page size and its last page |
| `seen` | history: the events this client must know of when it lists |

`Stamp`, `Push` are `record` of the memory log; `Stamp`, `Acquire`,
`AcquireTimeout`, `Reply`, `InsertFails` that of Postgres, with `Commit` and
`Refuse` of the database in between, before or after the caller is gone.
`StartList`, `ListMemory`, `ListAcquire`, `Fetch`, `ListFails` are
`list_audit_events_handler`. `SortedPages` is every answer SQL allows: `order by
created_at desc` orders nothing among equal stamps. `Broadcast`, `SignIntent` and
`Transfer` call the repository at a coarser grain (an event lands, or a failure
says nothing about it), which is what `AuditPromise` leaves of this module.

### HmacAuth, Startup, Verification and Gateway

`Verify` is `HmacAuthVerifier::verify` with its checks in order; `Age` and
`Overflows` are `(now - timestamp).abs()` on integers of `Half`'s width, in a
release build (wrapping) and in a development build (a panic). `ApiAuth(env)` is
what `from_env` and `build_state` make of an environment, `Builds(env)` whether
they end in a gateway at all. In `Gateway`, `ClientSigns` is a client with
credentials and a clock of its own; `Arrive` takes any request that was ever sent
and delivers it whole or with one part lost or changed, as often as it likes;
`Decide` is the middleware and the handler from `to_bytes` on, at the clock of
that moment and not of the arrival; `Restart` starts the process with any
environment of `Envs`. `answer` is the status of the response and, from a
verifying handler, its verdict. Requests share nothing here, so one is looked at
at a time.

### Wallet

The variables of `Broadcast` and `SignIntent`, each with its own kind of audit
event, and the life of the process.

| Variable | Code |
|---|---|
| `server` | `serving`; `draining`, from ctrl-c until `main` returns; `down` |
| `reading` | requests that were accepted and are not past the middleware and the extractor: `to_bytes` and `Json` wait for the client's body, with no timeout |
| `others` | handlers of `simulate-transaction` and `audit-events` that wait for the audit repository |
| `accepted` | requests accepted so far, only to bound them |

`Arrive` accepts a request of any route while the process serves. `Enter` is the
moment its body is there: the handler of its route starts, also when a shutdown has
begun in between. `Leave` is any other end of the reading: the client gives up, the
request is refused, or its handler answers without an await (`verify-*`,
`prepare-transfer`). `OtherEnds` answers one of `others`. Handlers and tasks run
while the process is not down; the node and the signer worker go on regardless.
`Open` is a request `main` waits for, in any of these places. `Shutdown` (ctrl-c)
stops `Arrive`; `Exit` is `main` returning once no request is open, whatever the
tasks are doing; `Kill` ends the process at any point; `Start` loses what all of it
kept in memory, in one step.

## 3. Runs

| Run | What it shows |
|---|---|
| `broadcast_postgres` | all safety of the broadcast service, the action property `SettledForGood` and the refinement `KeepsPromise`, with Postgres, with and without an RPC url, and a restart at any point |
| `broadcast_fair` | memory log, a node of which nothing is assumed: nobody waits in a circle; only a node that hangs holds up a request or leaves an acknowledged job open; status requests, and a gateway without an RPC url, do not depend on it |
| `sign_intent` | all safety of signing and the refinement `KeepsSigningPromise`, over every way through policy and signers, with lost calls and a restart |
| `sign_intent_fair` | every intent ends unless the signer worker was called and keeps silent; every answered decision is audited, or bound to be |
| `sign_intent_unaudited` | *violation*: a signature whose reply is lost, or whose client has gone, never reaches the audit log |
| `sign_intent_duplicate` | *violation*: the same intent sent twice is signed twice |
| `sign_intent_value` | *violation*: a transaction of more than its declared `max_value_wei` is signed |
| `transfer` | a prepared transfer passes every later parser; the default gas limits fit the estimate; answers are audited |
| `audit_log` | pages tell the order of events that did not overlap, leave out nothing their reader can know of unless they are full, and agree with each other, as far as each backend can keep it |
| `audit_log_fair` | the refinement `KeepsAuditPromise` over a restart; every call and list comes back, also when all wait for one connection, with no use of the pool's timeout |
| `gateway` | protected handlers run only for fresh requests a client with this environment's secret made; honest requests in time are never refused; a proof over a text is none over typed data |
| `wallet` | no open request waits for nobody; a graceful shutdown comes to its end whatever is open, read or waiting, unless a client, the node or the signer worker keeps it waiting for ever |

The three violations are disagreements between documentation and code.
`docs/architecture.md:62` ends the request flow with "Gateway records an audit
event", but `src/service.rs:413` leaves the handler before the audit task is spawned
unless `sign(..).await?` has returned `Ok`. `docs/architecture.md:25` and `:113`
promise idempotency checks and duplicate rejection, but `idempotency_key` is never
read. `docs/architecture.md:49-52` has the policy engine check the "max transfer
value", but `evaluate` (`src/service.rs:82`) compares the declared maximum with
10^16 and never reads `value_wei`.

What the audit properties can say differs by backend. The memory log keeps the
order in which calls are answered even when the clock is set back, but its pages
are not sorted by `created_at`. Postgres sorts by `created_at`, so it keeps that
order only as long as the clock runs forward, and two lists may show equal stamps
in either order. `RealTimeOrder`, `NothingKnownIsMissing` and `ListsAgree` name
these limits in their conditions (`Orderly`, the clause about equal stamps).

**Bounds.** Broadcast: three jobs over a channel of one (128 in the code): one job
in the worker's hands, one in the channel, one waiting for room, which is every
relation two handlers and the worker can have. One restart separates "this
process" from "an earlier one", the only distinction the code can make. Two sign
requests: requests share nothing but the log, and two are what
`DuplicateIntentSignedOnce` needs. In `Policy` the threshold is 2 and the largest
u128 is 4, standing for 10^16 and 2^128 - 1: only comparisons are made with them,
and `AllIntents` has a value on both sides of each. `FewIntents` has one intent
for each kind of ending, which is all that liveness tells apart. The one intent whose `value`
exceeds its `max_value` carries 2^128 - 1. `Transfer` has
every gas limit next to a threshold or an estimate, and one order for each field
that can fail.
`audit_log`: three calls (two that are ordered and one that overlaps both), two
connections, so that a list and a call can wait for one; a default page of 1, a
largest page of 2 and a query for 3, so that pages are cut by default and by the
cap; a clock of 0..2, which gives ties, order and room to be set back. It has no
restart; `audit_log_fair` has one, with two calls, one connection, a limit of 0 and
a clock of 0..1: liveness needs no more of time than a tie and a difference.
`gateway`: integers of 4 bits (`Half` = 8), of which the five drifts reach both
ends, a default skew of 2, a clock of 0..2, one request in flight to any of eleven
environments: credentials kept, rotated or missing, skews of 0, 1, -1 and the
default, both builds, and each part that can fail to start.
`wallet`: three jobs over a channel of one, so that a handler can wait for room
behind a job the node holds, one sign request, in-process and remote signer, one
restart, and at most three requests accepted over both lives, in any mixture of
routes. `NewId` gives out ids in a fixed order, since ids are told apart by nothing.
The proofs hold for any number of jobs, requests, calls, connections and restarts
and for integers of any width. Symmetry is used in safety runs only.

`CHECK_DEADLOCK FALSE` is set everywhere because ids are finite and each is used
once: when all are used up and nothing is pending the model stops, as the program
would with no more requests. That no task waits for ever is what the liveness
properties say instead.

**Fairness.** It is assumed of who runs inside the process and of the audit
repository, never of a peer the code sets no timeout for. `TaskFairness` of
`Broadcast`: tokio runs a task that is ready, and the audit repository answers
(`Insert`, `Send`, `RecordQueued`, the worker's steps, a pending status request).
Weak fairness suffices, since with finitely many jobs the lock and a full channel
stop changing. The node is not fair: the POST has no timeout and nothing makes
`RpcReply` happen. `EveryRequestEnds` and `AcknowledgedIsSettled` say instead that
they can fail only of a node that hangs (`NodeHangs`: the worker stays in its POST
for ever), so they say exactly what such a node can stall. A database that hung for
ever would hold up every status request behind the worker's `RecordOutcome`; that
the repository answers is therefore an assumption and not a result. In `SignIntent`
the executor runs handlers and audit tasks, and `WorkerSign` is not fair:
`EveryIntentEnds` says that a call that was sent and never answered is the only
thing a request can wait for in vain. In `AuditLog` the executor polls `Push` and
`ListMemory`, and a statement that was sent is answered or its connection breaks.
The pool hands a free connection to whoever has waited longest, which is strong
fairness of `Acquire` and `ListAcquire`; its `acquire_timeout` is not used, so a
connection that was never given back would show. `Wallet` has the fairness of the
tasks of its two components while the process runs, of `OtherEnds` (the repository
again) and of `Exit`; nobody has to shut down, kill or start it. Clients, their
bodies, disconnects, lost connections, restarts, the clock, the node and the signer
worker are never fair.

**Assumptions of the models.**

- `Drop` is allowed at an await that would complete at once, and a dropped
  Postgres insert may or may not land; both only add behaviours.
- A round trip to the database takes longer than the microsecond a timestamp
  resolves (`Reply`): otherwise a call could begin, with an equal stamp, after
  another was answered.
- The clock runs forward but for `SetBack`; clock plus skew stays below 2^63.
- HMAC-SHA256 has no collisions and nobody guesses a secret; recovery over a
  digest that was not signed fails or gives an address nobody holds.
- Only `AuditLog` keeps the order of log entries; elsewhere `audit` is a set.

**Documentation and code disagree** here too. The source shows it at a glance,
without an interleaving or a failure, and no run is spent on it.

- `README.md:73`, `docs/api.md:27` and `docs/architecture.md:83` say HMAC of
  `/v1/*`; `/v1/info` is outside the layer (`src/api.rs:53`) and answers without it.
- `docs/architecture.md:41` and `:71` say that only an approved transaction is
  broadcast; nothing in `enqueue` or its handler knows of approvals.
- `docs/architecture.md:42` says that the broadcast worker "Manages retries"; it has
  none. `PostedAtMostOnce` and the theorem `NoSecondPost` state what the code does,
  one POST for each id whatever fails, and a retry would make both false: they
  describe this code and are no requirement of the document's.
- `docs/architecture.md:49-57` lists checks of the policy engine that `evaluate` does
  not make: allowed chains (any but 0 passes), allowed wallets (any name passes),
  destination lists, call selectors, a time window. `SignedWithinDeclaredPolicy` says
  that nothing gets round the rules `evaluate` has, and nothing of these.

**Worth knowing, and no finding.** Met while modelling; where a document says
something of them, it is in general terms and named here:

- The query string is not part of the signed text, so the `limit` of a list is
  not authenticated.
- A timestamp exactly 2^63 seconds back passes the freshness check in a release
  build, and one that far back or further panics in the handler in a development
  build (theorems `FreshnessWindow`, `OverflowsFarInThePast`). Only a client with
  the secret can send one. (`docs/architecture.md:47`: "verifies request freshness".)
- `verify_message` names the request's `encoding` in its answer, whatever was
  hashed.
- An unknown `AI_WALLET_AUTH_MODE` falls back to `disabled`.
- A variable that is set to nothing is set: with the empty `DATABASE_URL=` of
  `.env.example` exported as it stands, the gateway tries to connect to it and
  does not start; an empty `AI_WALLET_RPC_URL=` counts as an RPC url.
- With an RPC url the simulator says mode `rpc`, though it simulates statically.
- The events of decisions that were answered are lost when the process ends before
  their tasks have run, after a graceful shutdown too; `sign_intent_unaudited` shows
  without a restart that `docs/architecture.md:62` does not hold.
- A broadcast worker that did not come up (`Client::new` panics) leaves the jobs
  that were in the channel queued for ever.

## 4. Proofs

Assumptions on constants are `BroadcastAssumption`, `RpcUrlsAssumption`,
`PolicyAssumption`, `SignIntentAssumption`, `TransferAssumption`,
`AuditLogAssumption`, `HmacAuthAssumption` and `GatewayAssumption`, and for the
process `WalletAssumption`, which is those of its two components together with a
bound on requests accepted: bounds
are naturals, the channel and the pool hold at least one, switches are Boolean,
`None` and the like are no ordinary value, the threshold lies below the largest
u128, the default page is no larger than the largest, clock and skew fit an i64.
Nothing is assumed of the number of jobs, requests, calls or restarts.

**Broadcast_proofs.** `TypeCorrect` is the type invariant. Types alone do not
give `JobHasQueuedRow`: a job that occurs twice in the channel would find its row
settled the second time. So the inductive invariant `IInv` adds that ids in
the channel are distinct, that the id in the worker's hands is not among them,
that each handler stage says where its row, its job and its posts can be (before
`Send` the job is nowhere, was never posted and has no outcome in the log), that
the lock is held exactly while the worker awaits the audit repository, and that
log, row and chain agree. `InvariantStep` proves it for each action
separately; the two list lemmas `AppendElements` and `TailElements` say what
sending and receiving do to the set of ids in the channel. From `IInv` follow
`RowBeforeOutcome`, `NoSecondPost`, `SubmittedIsTrue`, `NoOrphan`,
`QueuedEventKept`, `OneEnd`, `KnownUntilRestart`, `NoCircularWait`, the action
property `SettledStays`, and `Implements`: `Spec => KeepsPromise`. The refinement
mapping takes the row as the ticket; without a row the ticket is `none` before
`Insert` and `forgotten` afterwards. Under it `Insert` is `Accept`, `Recv` with a
url is `PostToNode`, `Publish` is `Submitted` or `Failed`, a drop before `Insert`
is `Abandon`, `Restart` is `Forget`, and everything else stutters.

`NoCircularWait` is why nobody waits for ever: the lock is held only while the
worker waits for the repository, so while anybody waits there is a task that can go
on, or the node has been asked. `EveryStepIsProgress` is the other half. It counts
the steps that are left for each job, of its handler (`HandlerWork`), of the worker
(`WorkerWork`) and of the node (`NodeWork`): no step adds to any job, and each takes
something away, except a restart and a new status request.

**SignIntent_proofs.** `ApprovedIntent` and `SignOutcomes` say what the policy and
the signers can return; `PolicyIsMonotone` that lowering the value of an approved
intent keeps it approved. `IInv` ties `call`, `signatures`, `stage` and `tasks`
together: a signature exists exactly where a call or an answer says so, only for
an approved intent, a refused request has no call, and a task carries the decision
that was answered. `ConcludeKeepsAnswers` is the shared lemma for the actions that
answer. From it follow `PolicyGuardsSigner`, `OneSignature`, `ApprovalIsBacked`,
`AuditIsTrue` and `Implements`: `Spec => KeepsSigningPromise`. Under that mapping
`Submit` is `Admit` or `Refuse`, `WorkerSign` is `Sign` or a stutter, signing in
process and the worker's reply are `Approve` or `Fail`, a lost call and a drop are
`Fail`, and an audit task is `Log` or, when its insert is lost, a stutter.
`AnswersReachTheLog` is inductive by itself. `RefusalsHaveReasons` says what the
clients of a refusal can rely on: the policy gave that reason, no signer was asked
and no signature exists. `NobodyWaitsInVain` and `EveryStepIsProgress` are for
signing what `NoCircularWait` and `EveryStepIsProgress` are for broadcasting.

**Transfer_proofs.** `GasFits` relates the estimate, the thresholds and the
defaults for every length of calldata. `IInv` says that each transaction is the one
its order was answered with, each result the simulator's for that transaction, and
that answered simulations are in the log; from it follow `PreparedIsAccepted`,
`DefaultsFit`, `FailuresAreExplained` and `AnswersAreAudited`.

**AuditLog_proofs.** The type invariant needs the pool to be a finite set of
users; that is proved along the way, without assuming finitely many calls. The
three properties of pages rest on `IInv`: who was told Ok stays so
(`KnewAnswered`); an event lands once, after its call has sent it (`LandedOnce`);
the memory log is in the order of answers (`PushedInOrder`); stamps are in that
order while the clock has not been set back (`StampedInOrder`); a page shows what
is in the log, in its backend's order (`PageIsOrdered`). `PagesTellTheOrder`
follows directly. `PagesAreComplete` also needs that a page which is not full shows
the whole log, and what a page leaves out when it is full (`ShortLogIsShown`,
`LeftOut`). `NoDisagreement`, an action property, uses that the places of two
events in the memory log never change (`OrderInLogStays`). `Implements` is
`Spec => KeepsAuditPromise`: `Push` is `Confirm`, `Commit` is `Land`, `Reply` is
`Confirm` of what has landed. `EveryStepIsProgress` counts the steps that are left
for a call and for the list; only a new list, the clock and a restart take none.

**Gateway_proofs.** `FreshnessWindow` characterises the timestamps a wrapping build
lets through, `OverflowsFarInThePast` those at which a checking build panics, for
any width of integers. The inductive invariant says that what was sent is well
signed and that whatever happens to a request on its way, its signature stays or is
lost; with it `OnlyAuthenticIsHandled`, `HonestNeverRefused` and `ProofsToldApart`
follow from the decision. `TypeCorrect` adds that the requests sent are finitely
many and that question and answer fit each other (`OutcomeTypes`).

**Promises_proofs.** The abstract specifications are small enough to read, and
these theorems say what a reader may conclude from them: `BroadcastGuarantee`
(submitted was accepted, accepted was posted, a ticket only moves forward),
`SigningGuarantee` (an approval has its one signature, a refusal none, no answer is
taken back, a durable log loses nothing) and `AuditGuarantee` (a durable log has
and keeps what was told Ok, a list shows nothing nobody sent). Through the three
`Implements` they hold of the program.

**Wallet_proofs.** It instantiates the two proof modules next to `Wallet`, proves
from `WalletAssumption` what they assume (`CastConstants`, `SignConstants`), and
proves that a step of the process is a step of one component with the other
standing still, of the requests that neither has, a move of the server, or a start,
which restarts both at once (`ProcessStep`). So `ProcessImplementsComponents`: the process behaves, for each
component, as the component alone; and `BroadcastHolds` and `SigningHolds` carry
every invariant, `SettledForGood` and both refinements over to it.
`DrainIsServed` and `DrainIsProgress` are the two halves of `DrainEnds` that are
not about fairness. The first is `Spec => []OpenRequestsAreServed`, from
`NobodyIsStuck` and `SigningIsUnderWay`: whatever request is open, either somebody
in the process or the audit repository can go on, or a client that is still sending,
the node or the signer worker is awaited. The second says that a shutdown does not
go round in a circle, although requests still enter their handlers during it and
give the components more to do: each step takes one from `reading`; or leaves
`reading` alone and leaves one component, or `others`, less to do and the rest as
much; or ends the process. That order has no endless descent.

Where a `USE` stands at the head of an induction it makes visible, once, what
every case needs. Each invariant was checked with TLC on the instances above
before it was proved; so were the work left (`JobWork`, `RequestWork`, `CallWork`)
and that `TaskIsReady` is true exactly when a fair action of the broadcast service
is enabled, which TLAPS cannot state.

**Only model-checked.** Liveness (`EveryRequestEnds`, `AcknowledgedIsSettled`,
`PollIsAnswered`, `SettledWithoutNode`, `EveryIntentEnds`, `DecisionIsAudited`,
`EveryCallEnds`, `DrainEnds`): fairness, ENABLED and the induction over what is
left to do are beyond TLAPS here. What those properties need besides is proved: a
task can go on, and every step leaves less to do. Every invariant and action
property that a passing run checks is proved. The type invariants of `SignIntent`
and `Transfer` bound nothing; they are proved, and no run has them.

## 5. Not modelled

- TLS: that the remote signer's client needs readable PEM files is part of
  `Startup`; parsing them, and the worker's server configuration, are start-up I/O
  with no state afterwards.
- `healthz` (a constant), CORS, tracing, the wording of errors, and the fields of a
  response no property is about.
- Cryptography at the level of bytes: signatures, digests and MACs are constructors.
- The order of the two audit events of one broadcast: neither code nor documents
  promise one. The status map is never cleaned up; no bound is stated to check.

Left to do, in this order: progress of `Transfer` and `Gateway`, as it is proved of
the others; one shared audit repository under `Wallet`, so that the two components'
events and the list meet in `AuditLog`'s detail; liveness of `Wallet` beyond the
shutdown.
