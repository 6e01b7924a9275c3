# Verification of the portfolio analyst's control logic

TLA+ modules, TLC configurations and TLAPS proofs for the backend under `src/app/`: a
FastAPI process that answers questions about a user's portfolio with a tool-using model,
runs scheduled research jobs, and delivers their results by e-mail, SMS, Discord and push,
with web pages whose scripts ask it for data.
What can go wrong in it is seldom in one function. It is in the awaits: a request reads a
row, waits, and acts on what it read; a dispatcher claims rows and sends them one by one; a
client joins a stream that is about to end; Stripe sends an event twice; a page gets the
answer to a question it no longer asks. These modules say
what must hold through all of that, and check it.

Line numbers are those of `src/app/...`; `PROJECT.json` maps every definition to the lines
it stands for.

## 1. Inventory

| Component | State it keeps | Operations | What is hard |
|---|---|---|---|
| Outbound queue (`delivery/dispatcher.py`, `db/repo.py`) | rows of `outbound_messages`: status, channel, destination, attempts, next attempt | enqueue, claim with lease, send, record result, retry with backoff | crash between provider and record, lease shorter than a batch, ambiguous timeouts, user deleted during a send |
| Delivery resolution (`Repo.enqueue_outbound`, `plans.py`) | `notification_channels`, preferred channel, plan, push devices | resolve channel and destination, SMS to e-mail fallback, push fan-out | the row is a snapshot; registrations, plans and opt-outs go on changing |
| Destination verification (`delivery/verification.py`, `delivery/discord_connect.py`) | `verification_codes`, registrations | issue a code, check a code, OAuth callback, STOP/START | each request has 4-6 awaits, no row is locked, limits are counted before they are used |
| Provider adapters (`delivery/adapters/`) | none | one HTTP call each | only the result matters to the queue |
| Agent loop (`agent/loop.py`, `agent/budget.py`) | the conversation, the budget, an `agent_runs` row | model call, tool dispatch, summary turn, finalize | caps, pauses, tool failures, exceptions at any await, cancellation |
| Progress broker and SSE (`streaming.py`) | per-key subscriber queues, replay buffers, finished marks | open, publish, close, subscribe, drain | bounded queues that drop, eviction, joining a run at any time |
| Chat endpoints (`main.py`) | `active_chats`, detached tasks | `/chat`, `/chat/stream`, `/chat/start`, `/chat/runs/{id}/events` | one turn per user, quota read long before it is used up, detached tasks |
| Deep dive (`agent/deep_dive/pipeline.py`, `main.py`) | report row, run row, progress, `active_deep_dives` | start, weekly fan-out, stages, finalize, tail | two rows and a message written one after the other, restarts, two admission paths |
| Billing (`billing.py`, webhook in `main.py`) | `users.plan`, `stripe_subscription_id`, `stripe_events` | checkout, webhook, fetch, sync, apply, record | duplicated, reordered and failed deliveries, stale fetches |
| Account and authentication (`main.py`, `auth/`, `perf/authcache.py`) | users, two in-process caches, tombstones, the subscription | provision, resolve, delete | caches that outlive a deletion, two transactions, a subscription at another company |
| Snapshot cache (`perf/snapshot.py`) | sections per user, in process or in Redis; rebuild locks | serve, rebuild in the background, invalidate, evict | rebuilds that read before a write, lost commands, expiring locks |
| Scheduled jobs (`scheduler.py`, `jobs.py`) | heartbeats | cron and interval triggers, recorded results, `/health` | two numberings of weekdays, coalesced and dropped fires, lost heartbeats |
| Trial (`trial_notices.py`, `Repo.maybe_start_trial`) | trial columns of the user, notices in the queue | arm, settle, announce | three writers of the same columns, reruns |
| Digest (`agent/digest_pipeline.py`, `tools/digest.py`) | one row per user and day, the run's row | fan-out, forced run, first briefing, fallback | the idempotency key is written long after it was read |
| Macro and anomaly scans (`agent/macro`, `agent/anomaly`) | alerts | synthesis, cooldown, delivery | scans of two processes; three writes per alert |
| Forecast ledger (`agent/forecasts`, `quant/forecastscore.py`) | one row per claim | extract, insert once, settle | missed nights, weekends, bars on the wrong side of a date |
| Model picks (`agent/picks`) | one run row a day | screen, analysts, critic, ranking | a budget shared by concurrent calls |
| Brokerage (`integrations/snaptrade`) | the secret, the positions | register, poll, disconnect, sync, manual write | a secret issued once by another system; writers that prune |
| Memory, news, filings sync (`memory/`, `agent/news_refresh.py`, `integrations/`) | embeddings, upserts | fetch and store | external data |
| Quant, detectors (`quant/`, `detectors/`) | none | floating-point statistics | nothing to interleave |
| Web pages: session and boot cache (`webapp.py`) | the session in the browser's storage, a token per tab, cached payloads | sign in, load, fetch, sign out, delete the account | tabs, and requests that outlive a session |
| Web pages: dashboard views | search box, chart, digest card, chat panel | ask, render, poll, fall back | answers out of order, two ways of waiting for one thing, a question asked twice |
| Web pages: setup | seven panels, a status poll, syncs with retries, the projections | connect, sync, pick a risk, save | requests that each move the panel, retries that overlap |
| Mobile client, landing page, evaluation, advertisement | none on the server | markup, screens, offline tools | outside the scope |

How they interact. The endpoints and the scheduler are tasks of one event loop: an await is
the only place where they interleave inside a process, and the database (one transaction per
repository call) is what processes share. The digest, the deep dive and the alerts call
`enqueue_outbound`; the dispatcher is the only reader of the queue. The deep dive and the
chat publish to a broker; clients subscribe. The billing webhook changes the plan that
delivery resolution and admission read, and that settles a trial. A deletion cancels the
subscription before the rows go. Every write that a dashboard section shows invalidates it.
The pages talk to the server through `api()` only; the dashboard's bootstrap reads the
snapshot cache, and the setup page ends in the first briefing. `PROJECT.json` lists all components with their
status, and under `hazards` every place in this code that a test would hardly reach.

Correct means, component by component:

* queue: no row is lost, duplicated without a reason, or sent after it is settled; retries
  are bounded; every row that can be claimed settles;
* delivery: a row only goes to a destination its user proved and has not opted out;
* verification: verified means proved, guesses are bounded, one live code, rate limits;
* agent loop: well-formed conversation, bounded calls, one honest final status;
* broker: no gap, repetition or reordering at the join; every stream ends;
* admission: one job per user, never over the quota, no slot leaked;
* deep dive: its two rows, its message and its stream tell the same ending;
* billing: the plan ends up as the provider says, whatever the order of events;
* account: a deleted account stays deleted, a new sign-in is let in, no cache names a dead
  id, no subscription outlives its account;
* snapshots: one rebuild at a time, and no open dashboard stays stale for ever;
* jobs: what `/health` says is so; one trial, each notice once and in order;
* digest and alerts: one message a morning and one per event, and no silent failure;
* ledger: nothing published is lost, nothing is settled early or with hindsight;
* picks: spending is bounded, and a run that says "completed" is whole;
* brokerage: a dead secret does not stay, and the book is what its last writer promised;
* pages: nobody sees another user's data; a view ends up with what was chosen last; the first
  briefing shows up; setup never leaves the user with a spinner; no question is run twice
  when a part of its answer was seen.

## 2. Modules

Every constant gets its value in a `.cfg`. A run of one component names its module, or an `MC_*`
module that defines what the `.cfg` cannot say; five of these,
`MC_Contact`, `MC_Requests`, `MC_Reads`, `MC_Jobs` and `MC_UserSide`, put several components
into one run.
The parts of such a run share no variable. A behaviour is of one part, named by the variable
`part`, in which the others stay in their initial state, so that a run explores the sum of
its parts' state spaces and never their product; the fairness of a part is stated for its
own behaviours. Components that do interact are composed by EXTENDS, in one state space:
`Delivery` with `Outbox`, `ChatEvents` and `DeepDiveEvents` with `ProgressBroker`.

**`MessageLifecycle`** is what the queue promises of a message: absent, queued, taken by a
provider, settled once. **`Outbox`** is the queue itself. `row` is the table, with
`next_attempt_at` turned into `wait`, the clock units left. `batch`, `seen`, `sending` and
`outcome` are the local variables of each process's running `tick`. Actions:
`enqueue_outbound` (one transaction: the preferred-channel row and a push row per device),
`claim_due_outbound` (a lease on the oldest due rows), `send` (the provider call, whose
answer and effect are chosen separately: a timeout may hide a success),
`record_send_result`, `record_unconfigured`, `abort` (the process stops or the write of the
result fails), `delete_user_data`, `elapse`. `hist` is history: calls, messages taken,
results lost. `LeaseHolds` says whether ticks finish within their lease.

**`Registration`** holds what the repository does to a `notification_channels` row
(`Upserted`, `MarkedVerified`, `Usable`, `OptedOut`). It is used by **`Verification`**, where
each request handler is a position `pc` with its local variables, one action per await; and
by **`Delivery`**, which EXTENDS `Outbox` and adds registrations, preferred channel, plans
and devices, with `Resolve` as the resolution of `enqueue_outbound`. In `Delivery` a
verification is one step: that a mark is deserved is the subject of `Verification`.

**`AgentLoop`** is one `run_agent` with its `Budget` and `safe_dispatch`. Answers, tool
outcomes, costs and exceptions are chosen by the environment. A message is reduced to its
role, its number of tool blocks and its stop reason; an answer cut off by `max_tokens` may
carry tool blocks, which the loop leaves without results.

**`ProgressBroker`** has one operator per method of the broker and the drain loop of
`sse_response`. **`ChatEvents`** and **`DeepDiveEvents`** EXTEND it, each with the job that
publishes and the endpoint around `subscribe`. The chat endpoint reads the broker and
subscribes without an await, so this is one action; the dive endpoint reads the report row
in an await, so it is two (`get_report`, `deep_dive_events`). `DeepDiveEvents` also has the
set-up of a dive, whose failure comes before the `try` and finalizes nothing, and the
whole of `finalize`, with each of its writes failing.

**`QuotaGate`** is what admission promises: one job at a time, within the quota.
**`ChatAdmission`** implements it; **`DiveAdmission`** has the two paths by which a dive
starts. **`Billing`** has Stripe (`checkout`, `activate`, `cancel`, which are external) and
the webhook handler, a step per await; `moved` holds the handlers whose user another one
changed after their fetch.

**`Account`** is one person's account in one web process. Per request there is a place, the
token it came with, the `iat` it knows of it (none, if the claims came from the cache) and
the id it was bound to. `require_auth` is four steps (cache or verification, id, provisioning,
second cache), `DELETE /me` five (the decision, Stripe, the rows, the tombstone, the
eviction). `blocking` says that the account has a row in a table `delete_user_data` does not
name. A token is the second of its `iat`, so that "issued before the deletion" can be said.

**`SnapshotCache`** has both stores behind one set of actions; `backend` is chosen in `Init`.
Of a section only this is kept: absent, read after the user's last write, or before it. `task`
holds the builds under way, each with what it read; `lock` is the Redis key.

**`Brokerage`** is the SnapTrade identity: the remote user's secret, the stored one, and the
requests that register, poll and disconnect. **`Positions`** is the positions table with its
two kinds of writers; `expected` says what writers one after the other would have left.

**`Digest`** is `run_digest_pipeline` from its three entry points, with the row of the day,
what was queued, and every write failing. **`Alerts`** is the per-user half of both scans:
which events or tickers, the cooldown, then row, message and mark for each alert. **`Trial`**
has the columns of the trial, its two armers and two settlers, and the notices job.
**`JobHealth`** is one job under its trigger: `tick` is time, `due` the fires not dealt with,
`job_health` the rule of `/health`, with `is_cron_fire` as the reference for what the crontab
field means. **`Forecasts`** has days with weekends, the nightly job and the backfill script;
the claims of documents that a model has to read (`Prose`) may be left out by a run that
succeeds.
**`Picks`** is one run of the picks pipeline; a candidate is its rank, money is counted in
units, and `sorted` is what a sort by (demoted, rank) leaves.

The pages' scripts are modelled as they run in a browser: one handler at a time, cut at its
awaits and timers, with the server's answers chosen by what the server may do.
**`BootCache`** is one browser with its tabs: the stored session, the cache under a key per
user, and in each tab the token, the key and the owner of the bootstrap it asked for. A
payload is reduced to the user whose data it is. **`Views`** is the search box and the chart,
two ways of dropping late answers: by number and by value; `view` says which one a behaviour
is of. **`Briefing`** is the dashboard after setup: the digest and its snapshot section on the
server, the boot sequence with its repeated bootstraps, the chains of polls, each started
by a bootstrap without a digest, over one counter, and `own`, the requests that `loadDigest`
sends by itself when the bootstrap brought nothing about the digest. **`Onboarding`** has the panels, the chains
of status polls with the one timer that is kept, the syncs under way (`sync[s]`, with the
chain that awaits its first attempt), and the projections' promise, which the risk picker may
await long after it was made. **`WebChat`** is the chat panel with its stream and its
fallback, against the slot of `POST /chat` and `/chat/stream`.

**`OutboxProofs`**, **`ChatEventsProofs`** and **`DeliveryProofs`** hold the theorems about
the module they are named for; **`RequestsProofs`**, **`UserSideProofs`**, **`ReadsProofs`**,
**`ContactProofs`** and **`JobsProofs`** those about the components of `MC_Requests`, `MC_UserSide`,
`MC_Reads`, `MC_Contact` and `MC_Jobs`.

Operators with a comment "Mutant of ..." are small faults of the definition they precede or
follow (a dropped guard, an off-by-one, a missing reset). No specification uses them; they
are there so that each property can be shown to notice such a fault.

## 3. Runs

| Run | Question | Bounds, and why they are enough |
|---|---|---|
| `UserSide`: queue | Is the queue safe and live when every tick keeps its lease? `WorkersDisjoint`, `SendsExplained`, `SettledIsFinal`, `ImplementsLifecycle`, `ClaimableSettles` | 2 rows, 2 processes, batches of 2, 2 attempts, backoff steps shorter and longer than the lease, 1 abort. Two processes and two rows are what an overlap needs; two attempts give a first, a retry and an exhausted one |
| `UserSide`: boot cache | Does a page ever show, or a browser keep, another user's data? `ShownIsOwn` | 2 users, 2 tabs, 2 sign-ins, 1 repeated bootstrap: two users one after the other, with a tab of the first still open |
| `UserSide`: views | Does a view end up with what was chosen last? `LatestShown` | 3 values, 3 changes, 1 failure: away, elsewhere and back again |
| `UserSide`: first briefing | Is the first briefing shown? `BriefingShown` | 3 polls (24 in the code), 1 repeated bootstrap (3), 1 failure: the counter is used up by several chains and by one, and the failure may be of a bootstrap, a poll or the card's own request |
| `UserSide`: setup | Does setup go on? `SetupGoesOn` | 2 syncs at a time, 1 retry (8 in the code), 1 chain of polls, 2 other requests: two syncs that overlap, each exhausting its retries. More chains only start more syncs, of which there are two already |
| `UserSide`: chat panel | Is a question run twice? `AnsweredOnce` | 2 questions, each with its stream and its fallback: one holds the slot of the other |
| `OutboxPush` | Does every row with an adapter settle? `DeliverableSettles` (violated, see section 6) | 1 process, rows on `email` and `push` |
| `Contact` | Delivery: do queued rows respect registrations that change? `QueuedWasVerified`. Verification: do ownership and limits hold over all interleavings? `OwnershipProven`, `CodeLimits` | Delivery: 1 user, 1 row, 2 addresses, 1 device, `email`, `sms` and `push`; aborts are checked in `UserSide`. Verification: 1 user, 2 destinations, 2 requests, 2 codes, 1 attempt; one channel, Discord, since it alone has both the code and the OAuth flow. Every property speaks of one user or one destination; two requests make every overlap |
| `ChatEvents` | Do replay and live events join, and does every stream end? `StreamIsWhole`, `StreamEnds` | 2 runs, 2 clients, queue of 2, replay of 2, 1 history, 2 events and a last one: each of the three limits is exceeded |
| `Requests`: chat | One turn, within the quota, no leak? `SlotsMatch`, `QuotaHeld`, `ImplementsGate`, `SlotFreed` | a user and the owner, 4 requests, limit 2: one more request than the quota and its overlap |
| `Requests`: agent loop | Is every run well formed, bounded and finished? `RunIsSound`, `RunEnds` | 3 iterations, cost cap 3, calls costing 0 or 1, up to 2 tools, 2 pauses: either cap can be hit first, with and without pauses |
| `Requests`: dives | Are limits passed only where admissions overlap? `DivesLimited` | a user and the owner, 3 requests or fan-out turns, limit 2 |
| `Requests`: billing | Does the plan converge? `PlanConverges` | 2 subscriptions, one after the other, 5 changes, 2 failed handlers, redelivery in any order, 1 handler at a time (`BillingConcurrent` has two). `InTurn` of `MC_Requests` says which behaviours are of this part |
| `Requests`: overlap | Does Pro end only with the subscription that carries it, when webhook requests overlap? `ProLostOnlyByEnd` | 2 handlers at once, 2 subscriptions, which may both be live, 3 changes, 1 failed handler: two handlers and two subscriptions make every overlap. It is checked in the behaviours of `billing` too |
| `Requests`: brokerage | Does a dead secret go? `DeadSecretDropped`. Is the book its last writer's? `BookIsLastWrite` | 2 requests, 3 secrets: one registered again while an old one is held; 2 writers, 1 synced and 1 manual position |
| `Reads` | Dive: do the rows, the message and the stream agree? `OneEnding`, `DiveEnds`. Snapshots: one rebuild, and does a stale section heal? `OneRebuild`, `StaleHeals` | 1 dive (dives share nothing but their admission), 1 client, 2 stages, 1 restart, queue of 3. Snapshots: 2 users over 1 place, so that eviction happens; 2 processes and 2 builds; 1 user with Redis, whose keys are the user's own |
| `Jobs`: account | `IdentitySound`, `NoPayingZombie` | 2 requests, 2 seconds, 2 accounts of the same person: old and new tokens, before and after the deletion. Rows in the way of a deletion are the first account's |
| `Jobs`: digest | `NoSilentFailure`, `NoDoubleDigest` | 2 runs, 2 days, 1 send per run: an overlap and a midnight |
| `Jobs`: alerts | `AlertsOnce` | 2 scans, 1 event, 2 tickers, 3 days, a cooldown of 2 |
| `Jobs`: trial | `TrialRight` | 2 syncs, a trial of 2 days, each stage of the notices a day, and the day after the last |
| `Jobs`: health | `HealthIsTrue` | 16 ticks of half a day, so a whole week of fires and the grace of one tick; three fields (a weekday range, one that wraps past Sunday, a list with a step) and an interval job; 4 failures, past the 3 that degrade |
| `Jobs`: ledger | `MidweekHeals`, `NoHindsight` | Wednesday to Monday, a lookback of 3 and a horizon of 2 days, 1 claim, of a document that a run may leave out: a weekend lies inside both |
| `Jobs`: picks | `PicksHonest` | 4 candidates for 3 picks, 2 analysts at a time, a cap that is passed by the first pair |
| `DiveAdmissionOne` | Is one dive that `POST /deep-dive` started in flight per user? `OneInFlight` (violated) | as `Requests` |
| `BillingConcurrent` | The same with 2 handlers at once: `PlanConverges` (violated) | no failures needed |
| `AccountDelete` | Can an account be deleted? `NothingBlocksDeletion` (violated) | 1 request |
| `FirstBriefing` | Is the first briefing a no-op once a digest exists? `FirstIsNoOp` (violated) | 2 runs, 2 days |
| `LedgerHeals` | Does a missed night heal whichever it is? `MissedNightHeals` (violated) | as `Jobs`, with a claim that no successful run leaves out |

Rows of the form `Requests: chat` are parts of one run. Each module has a type invariant; the
proofs establish those of `Outbox`, `Verification`, `ChatAdmission`, `DiveAdmission`, `Billing`,
`AgentLoop`, `Positions`, `BootCache` and `WebChat`, the others say what the state is, and no run
spends time on them. `Contact` uses the symmetry of destinations and of the verification's requests,
`Jobs` that of requests, runs, scans and syncs, which share two names since a behaviour has only
one of these kinds; neither has a liveness property. `ChatEvents` has one, so `MC_ChatEvents`
breaks the symmetry of runs and of clients by itself: the first has always the same name. Deadlock is
not an error except in the queue (`UserSide`, where the pages may stop, and `OutboxPush`): elsewhere ids are used once, or the days, changes at
Stripe and secrets are bounded, so the model stops when all are used up.

What the conditions in the properties mean. Several properties carry an exception because
the code, as written, needs it; each exception is a history variable and names exactly one
situation.

* `planted`, `spoiled`, `returned`, `outlived` (`Account`): the cached id was written by a
  request older than the deletion; a new token's `iat` was lost, because its first request
  failed after its verification had been cached; the account was provisioned between the
  two transactions of a deletion, or after a crash between them; a checkout or a webhook came after
  the deleting request had read the row. Each is what the code does.
* `late` (`SnapshotCache`): a rebuild that outlived its lock. `StaleHeals` asks for the user
  to stop writing and the workers to stay up.
* `alone`, `solid` (`Positions`): writers that no other overlapped and none cut short.
* `met`, `loud`, `born` (`Digest`), `met`, `lost` (`Alerts`): two runs that overlapped; a run
  whose fallback failed or which a restart cut short; an alert whose scan failed between its
  row and its message.
* `raced`, `settled`, `failed` (`Trial`): two armings, or an arming and a payment, that
  overlapped; a notice that could not be queued.
* `blind` (`JobHealth`): a result that could not be recorded.
* `lacking`, `offered`, `raced` (`Forecasts`): the nights, counted per claim, that failed, did
  not run or left its document out; what the inserts that took its document should have
  covered; both jobs settling rows at once.
* `raced` (`Verification`): a user two of whose requests overlapped or one of whose requests
  was cut off; a destination two of whose code requests overlapped. One cut-off request per
  user is explored, and none after an overlap.
* `raced` (`DiveAdmission`): a user two of whose admissions overlapped.
* `LeaseHolds` (`Outbox`).
* `switched` (`BootCache`): the session changed while a page was booting. `late` (`Views`): a
  failure left something older than the choice. `overtaken` (`Briefing`): `loadDigest`'s own
  request brought no digest after the chain that was started with it had ended.
* `lost`, `evicted`, `via` (broker): a queue that overflowed, a history that was evicted, and
  what the endpoint went by when it called a run known.
* `late`, `handling`, `unprepared` and the job state `"lost"` (`DeepDiveEvents`): a client that
  subscribed when nothing would close the key any more, a dive whose first finalize failed, one
  whose set-up failed, one that a restart took.
* `moved` (`Billing`): another handler changed the user between a handler's fetch and its write.
  One live subscription at a time (`InTurn` in `MC_Requests`, `OneLive` in `BillingConcurrent`),
  under which `PlanConverges` is checked.
* `aborted`, `ambiguous` (`Outbox`), `pauses` (`AgentLoop`).

## 4. Fairness

Fairness is on the steps the program takes by itself; users, providers, crashes, aborts and
deletions are never assumed to act. It is weak, but for two components.

* `Outbox`: `elapse`, and each worker's `tick`. The scheduler starts the delivery job at a
  fixed interval (`scheduler.py`), adapter calls have HTTP timeouts, and the clock advances.
* `AgentLoop`: `run_agent`. The event loop resumes a task whose await is over, and model and
  tool calls have timeouts.
* `ChatEvents`, `DeepDiveEvents`: the job (caps and timeouts), the endpoint's second half,
  and the drain of a connected client's queue.
* `ChatAdmission`: the turn of an admitted request, for the same reason.
* `Billing`: the webhook, where requests come one by one. Stripe redelivers until it gets an answer.
* `Brokerage`: the steps of a request and the queued deletion are weakly fair. The poll of
  the onboarding page, the answer to its remote call and the drop are strongly fair: they are
  enabled and disabled again by other requests and by failures, and the page asks again and
  again; without it a call that always fails would leave any row for ever.
* `SnapshotCache`: a lock expires by itself and a build goes on (weak). An open dashboard
  loads its sections again and again, a lock that is free now and then is taken now and then,
  and of builds tried again and again not every one fails (strong): the
  dashboard polls, and each of these is retried by the next load.

* `Briefing`: the boot sequence and each chain of polls: requests are answered or fail, and
  timers fire. Nothing is assumed of the server's job, nor of `loadDigest`'s own request.
* `Onboarding`: the syncs and the projections, for the same reason; nothing is promised of the
  user, of the brokerage's import, or of the other requests.

`Contact` and `Jobs`, `BootCache`, `Views` and `WebChat` have safety
properties only. A counterexample of `OutboxPush` or
`BillingConcurrent` is one under this fairness.

## 5. Proofs

Checked by TLAPS for all values of the constants that satisfy the ASSUMEs of the modules:
any number of messages, processes, users, requests, any limits. A theorem named in
`PROJECT.json` is about the very property its run checks. `Outbox`, `Delivery`, `ChatAdmission`
and `ChatEvents` are proved about in modules that extend them. The other components are proved about
as the instances of the run's `MC_*` module that they are there: each proof module first proves
the property of `Inst!Spec`, the component's own specification, and its last section proves
`SumImplements`, that every behaviour of the run's `SumSpec` is one of each component
(whose steps are those of the part, or leave its variables alone), and
carries the results over. The names of an instance's definitions have its name in front
(`CodeSafe` in `ContactProofs` is about the codes of `Verification`).

Two assumptions are not ASSUMEs of the modules but hypotheses of theorems:

* `Exclusive` (`OutboxProofs`): every tick ends within its lease, or there is one dispatcher.
  Without it section 6 (`LeaseHolds`) applies.
* `ChannelsAsInCode` (`DeliveryProofs`): e-mail is a channel and push is not one of `CHANNELS`,
  as in `delivery/channels.py`. The fallback needs the first; the push rows, whose destination
  is a device, the second.

**`OutboxProofs`.** `TypeCorrect`: `Spec => []TypeOK`. The rest assumes `Exclusive`.
`WorkersDisjoint` is not inductive: a claim could take a row that is in another batch. What
forbids it is that such a row is still leased, so the invariant is

    IInv == TypeOK /\ Claimed /\ WorkersDisjoint /\ Calling

`Claimed`: a row in a batch is queued (or its user was deleted), and under `LeaseHolds` has
time left on its lease. `Calling`: a row being sent is in its worker's batch. `elapse` preserves
`Claimed` because of `LeaseHolds`; a claim preserves disjointness because due rows have no time
left; a recorded result settles only a row that leaves its only batch. From `IInv` follow
`Disjointness`; `Finality` (`SettledIsFinal`: only rows in a batch change their status, and
those are not settled); and `Refinement`, for which a second invariant says that a sent row
was taken by a provider; each action maps to a step of `MessageLifecycle` or to a stutter.
`Explained` (`SendsExplained`) keeps an account of each row: its calls are its attempts, the
results that aborts lost, and the call in progress; what providers took is one, the lost
results and the unclear answers. `Accounted` says this of every stage of a row, open, held or
gone; that a row has one holder (`OneHolder`, from `IInv`) is what makes "the call in
progress" one.

**`DeliveryProofs`.** `Embedding`: `DSpec => Spec`, the queue among registrations, plans and
devices that change is still the queue, so that all of the above holds of it. `OnlyVerified`
(`QueuedWasVerified`): a mark on a registration is for the destination it has
(`MarksProven`), what `Resolve` reads has a mark, and no later step of a row changes its
address (`AddressStays`); for that, a row that is written to must have been queued once
(`Handled`).

**`ContactProofs`.** `DestinationsOwned` (`OwnershipProven`) and `CodesLimited` (`CodeLimits`),
of users and destinations without overlapping requests (those not in `raced`). The argument
is per user. `CodeSolo`: one request of the user at a time. `CodeSafe` has six parts: a mark is
proven; a request between its lookup and its mark holds a code for the destination of the
registration; a request that has registered a destination and not yet stored its code knows
the codes that it makes stale; a live code is for the registered destination; there is one
such per channel; and attempts count guesses, but for the one being recorded. A step
of one of the user's requests is a step of the only one (`CodeAlone`), in which each of these
is proved action by action; a step of anybody or anything else leaves what `CodeSafe` speaks
of alone, except that codes may die and requests end (`CodeFramed`, `CodeSafeFramed`). None of
the parts is inductive without the others: a code checked after the registration had changed
would mark the wrong destination, which `CodeCurrent` excludes only because the request that
changes it kills the codes before it ends. The limit of a destination is a second induction,
`CodeSpared`: whoever is about to send has room, and is alone.

**`ChatEventsProofs`.** `WholeStreams` (`StreamIsWhole`). What a client has or has in its queue
is a concatenation of frames (`Delivered`), which `FlattenSeq` defines by a recursive function;
the first section proves that this function exists and is unique (`JoinExists`, `JoinUnique`, by
the least number for which it would not), so that a frame put at the end or taken from the
front changes the text by just its events (`TextAppend`, `TextHead`). The invariant `StreamInv`
says that buffers are the last events of their runs (`BuffersAreTails`), which makes the
snapshot join on to what comes after it; that a client that found the history is subscribed
for as long as its run goes on (`Subscribed`), so that it misses no event but by a full
queue; and that a sentinel is the last of its frames and comes with the run's end
(`EndComesLast`), so that nothing is thrown away by ending a stream at it.

**`RequestsProofs`.** Of `ChatAdmission`, which `MC_Requests` extends: `TypeCorrect`; `OneSlot`
(`SlotsMatch`, with: a request in flight has a user); `Quota` (`QuotaHeld`), from `ChatQuota`: a
request that has passed the check and not yet written its row still has room. This is what
makes the late write harmless, and it rests on `SlotsMatch`: nobody else of that user can take
the place in between. `Refinement`: the three endpoints implement `QuotaGate`. `ChatHolds` says
these of `SumSpec`.

`LimitedDives` (`DivesLimited`). The limit holds only for users whose
admissions never overlapped (those not in `raced`), and for them the invariant `DiveAlone` says
why: one request at a time is between the check and its row (`DiveOneAdmitted`); what it was
admitted by still holds when it writes (`DiveRoom`: below the limit, or for the fan-out no dive
this week); and a manual dive has the slot to itself (`DiveSlot`). `DiveOneAdmitted` is what the
code lacks and chat has, whose slot is taken in the same await-free stretch as the check.

`ProKept` (`ProLostOnlyByEnd`), for any number of webhook requests under way at a time and
any number of live subscriptions. A handler's fetch may be old by the time it is applied. The
invariant says what of it cannot have changed: Pro names a subscription that was active once
(`PlanCarried`), what was fetched as active or canceled has been so since (`PlanFetched`), and
a handler that will end Pro, and whose user nobody has changed since its fetch, fetched the end
of the very subscription that carries it (`PlanEnds`). An `incomplete` cannot have been fetched
of that subscription, which was active before. Without `moved` the property is false of the
code, by the overlap that `BillingConcurrent` shows.

`SoundRuns` (`RunIsSound`). The conversation is well formed because each place of the loop
determines its last message (`LoopEnding`): after tool results a user turn, before tool
dispatch an answer with as many blocks as are being run. A cut-off answer may carry blocks too,
but then it is the last message, since only a run of tools or a pause goes on. `LoopCapped` says at each place how many calls may
still follow the caps, a pause being the only way round the check; `LoopHonest` what the row may say.

`LastWrite` (`BookIsLastWrite`). While one writer is alone (`BookLone`), at each of its places
the table is what the last writers promised, with what this one has upserted by then
(`BookMidway`).

**`UserSideProofs`.** `OwnDataShown` (`ShownIsOwn`), from `BootOwn`: as long as the session has
not changed under a booting page, the token, the key and the owner of the request of every
booting page are of the session (`BootBooted`), and each key of the cache holds nothing or its
own user's data. What a late answer stores and paints is then its owner's. `RunOnce`
(`AnsweredOnce`), from `PanelSound`: a second request is sent only for a stream of which
nothing came, a run exists only for a request that was sent, and what was seen came from a
run. `LatestWins` (`LatestShown`): requests are numbered upwards (`ViewNumbered`), and a
view that is at rest shows the choice or has a request for it under way (`ViewCurrent`).

**`ReadsProofs`.** `EndsAgree` (`OneEnding`). `RowsInv` gives for each place of `run_deep_dive`
what the two rows are: the run row is final only from `finalize` on, and then equal to the
report. A failure runs `finalize` once more, which is harmless: once the run row is written
nothing raises any more. A dive without a final report at its end has failed twice or was never
set up (`unprepared`). `ClientsInv` carries this to the streams: a
sentinel on a queue, or a final row read before the subscription, is of a dive whose report
is final, or whose second `finalize` failed too, or which was never set up; `EndedStays` is that no step takes this back.
A publication must be known to put only its own items on the queues (`PutSeq`).

`SingleRebuild` (`OneRebuild`). In the process every rebuild is in the inflight set of the one
worker (`SnapOnePerUser`). With Redis `SnapOnePerLock` ties the tasks to the lock: a rebuild
that has not outlived its lock has it, so a second one cannot take it, and a task that takes
the lock of another away makes that one count as outlived.

**`JobsProofs`.** Ten properties, from eight invariants: the account has two, each other part
one, of which the digest's and the ledger's give two properties each.

`IdentityHolds` (`IdentitySound`) goes by two orders. Ids are given out in order (`IdsGiven`), so
a request that holds the id of a deleted account never holds that of the next one. Times are
ordered (`TimesOrdered`): no tombstone is older than its deletion. `Admitted` says of a token
issued after the deletion what keeps it from being locked out: a request that can still
provision, or else the failure that spoiled it. `NoZombie` (`NoPayingZombie`) needs `ZombieInv`:
nothing can be charged any more when the rows of an account with a subscription are deleted.

`TrialHolds` (`TrialRight`): before the trial nothing of it is there (`TrialFresh`); the notices
are those of a scan of one day (`TrialJobs`), so the order of the list is a matter of which of
them may still come (`TrialChronological`, `TrialFinalLast`).

`AlertsHold` (`AlertsOnce`): each alert in hand is of one scan (`AlertsInHand`), which accounts for
the messages of every stored one (`AlertsCounted`). For the cooldown the distance to the alerts
there are is kept from the check through the narration to the write (`AlertsNarrated`,
`AlertsReady`): another scan can store in between only by running at the same time, and then the
two have met.

`FailuresTold` (`NoSilentFailure`), `OneDigest` (`NoDoubleDigest`): a message about the day its
run was started on comes after the row of that day (`DigestRowFirst`), so of two scheduled runs
that did not overlap the later one found the row, or the earlier one sent nothing (`DigestApart`).

`LedgerHeals` (`MidweekHeals`) goes claim by claim (`LedgerOf`), since a night that succeeds for
one document may have left another out: as long as at most one night, in the middle of a week,
lacked the document of a claim, the claim is in the ledger or is not older than the last run
that took it; three days of lookback reach from a run past one such night to
the run before it, unless a weekend lies between. `LedgerHonest` (`NoHindsight`): that a row is
settled once needs that what a sweep has still to look at is open, as long as one job settles at
a time (`LedgerSwept`).

`HealthHolds` (`HealthIsTrue`): the row tells what happened (`HealthRecorded`), and the fires it
is compared with are cron's (`HealthSameDays`: the translated field names the same weekdays, whatever
its ranges, lists and steps). `next_fire` is the least of a set of fires, which exists by the
well-foundedness of the numbers (`LeastNumber`); two missed fires are two elements of that set.

`PicksHold` (`PicksHonest`): whoever is running was admitted below the cap (`PicksBudget`), so
the overshoot is what a full semaphore costs. A sorted list exists (`PicksSortExists`), and
has every candidate, since an injection of a finite set into itself is onto; the critic has had
its say before it is taken (`PicksListed`).

Only model-checked: all liveness, since TLAPS proves neither liveness under fairness nor
ENABLED here. Every invariant, action property and refinement that a run expects to hold is
proved.

## 6. Where the code and its words differ

Shown by a run:

* `OutboxPush`: `claim_due_outbound` selects channels in `CHANNELS`, which lacks `push`
  (`delivery/channels.py:14`), so the rows of the push fan-out stay queued for ever, although
  an adapter is registered and `docs/MOBILE_APP_PLAN.md:427-429` expects them sent.
* `DiveAdmissionOne`: "one dive in flight per user" (`main.py:2032`): the slot is looked at
  some awaits before it is claimed, so two overlapping `POST /deep-dive` both start a dive.
* `BillingConcurrent`: "ordering and redelivery are both harmless" (`main.py:3065`): of two
  overlapping handlers the one that fetched first may apply last, and nothing corrects it.
* `AccountDelete`: `delete_user_data` is "ordered children-first so plain (non-CASCADE) FKs
  never block" (`db/repo.py:640-645`), but names neither `notable_investor_follows` nor
  `forecasts`. A user who follows an investor, or whose run has a claim in the ledger, cannot
  be deleted; by then the subscription has been cancelled.
* `FirstBriefing`: "a no-op once any digest exists, so it can't be farmed for free runs"
  (`main.py:2312-2313`): only today's row is looked at.
* `LedgerHeals`: "a missed night self-heals on the next run" (`agent/forecasts/jobs.py:6-7`):
  with a lookback of 3 days and runs on weekdays only, what was published on the evening of a
  Thursday or a Friday is lost if the run of the Friday or of the Monday fails.

Met while modelling, and present as the exceptions above:

* `LeaseHolds`: up to 25 sends one after the other under a lease of 120 s. If it runs out, a
  second process claims rows that the first still sends; the row lock of `SKIP LOCKED` is
  gone with the commit of the claim.
* A row queued before a STOP text is sent after it: opt-outs are looked at on enqueue only.
* A code for one destination verifies another, if the registration is replaced between the
  lookup of the code and `mark_channel_verified`. Rate limits and wrong attempts are counted
  in one await and used in another, so overlapping requests pass together.
* Each `pause_turn` goes round the loop past the cap check, so caps hold up to the number of
  pauses.
* A run whose last answer was cut off by `max_tokens` is "completed" like any other
  (`agent/loop.py:366-369`), with a tool block in its conversation that has no result;
  `agent/synthesizer.py:72-76` knows of the case.
* A dive whose set-up raises (`agent/deep_dive/pipeline.py:302-368`, before the `try`) is not
  finalized: report and run go on saying "running", with nothing to correct them, and the stream of a
  manual one ends without its last event.
* A night of the ledger that has no client, no budget left or a document whose extraction
  raises (`agent/forecasts/jobs.py:165-167`, `189-200`) is a success that has left documents out.
* After a bootstrap that brought nothing, the digest card asks by itself
  (`webapp.py:2866-2884`) beside the chain of polls. If that request was answered without a
  digest, or fails, and comes back after the chain has shown one, the card is hidden again and
  nothing asks any more (`overtaken`).
* `close` drops the sentinel when a subscriber's queue is full; that stream goes on with
  heartbeats. A second client of a finished, evicted run is told that it is live, because
  the first client's subscription makes it known.
* A dive that ends between the read of its row and the subscription leaves the stream
  open; so does any stream of a scheduled dive, which publishes and closes nothing.
* Overlapping requests start more dives in a week than the limit.
* With two live subscriptions, the end of the one recorded last ends Pro.
* A request older than a deletion puts the dead id back into the cache, where it stays until
  it is overwritten or the process restarts. Tokens whose first request failed after their
  verification was cached have lost their `iat`, and are refused until they expire.
* A sync prunes the manual rows too (`integrations/snaptrade/sync.py:131`), and a manual
  write that overlaps a sync prunes what the sync has just added.
* An alert whose message could not be queued is not announced by a later scan either, since
  its row is there. A retried `send_digest` sends a second message.
* The comment at `webapp.py:681-682` says that cached page data "must never outlive the
  session it belongs to". The deletion of an account signs out without `clearBootCaches`
  (`webapp.py:5445`), and a bootstrap under way when the user signs out is stored after
  the clearing: both stay in the browser under the user's key. If another user has signed in
  by then, in another tab, a bootstrap whose token is new and whose key is old stores
  the one's data under the other's key (`switched`).
* A query cut down to one character does not number anew, so the search under way opens the
  box again; a search that fails leaves the results of the one before; a chart request that
  was superseded and then fails replaces the newer chart (`webapp.py:775`, `4831`).
* After its polls are used up, by several chains over one counter, the page says that the
  briefing "will appear here shortly" (`webapp.py:3949-3950`), and nothing asks for it any more.
* Setup: the poll, the click and the check at load may each start a sync, and the later answer
  takes the user back to the panels behind; a sync that is retried shows its panel again from
  wherever the user is. The projections' promise may be of an older book.
* The fallback of the chat may run, and bill, a question a second time when nothing of the
  stream arrived, or be refused because the first run still holds the slot; Enter sends while
  the button is disabled (`webapp.py:3525-3526`).
* The fan-out of the anomaly scan picks its cost cap by `user.plan`
  (`agent/anomaly/orchestrator.py:307`), not by the plan in effect during a trial.

## 7. What is abstracted

Bodies, formats, prompts, prices, templates and HTTP. In `AgentLoop` an answer that pauses
carries no tool block of ours. One rate-limit window in
`Verification`. Chat and dive rows leave the rolling window in any order. The monthly
compute cap is a refusal that may happen to anyone but the owner; a change of plan during a
request does not change `Limit`; the monthly window of the Free plan's dives is the same
window. `Billing` has one user, without the repair of the customer link or the case of a
subscription that Stripe no longer knows. Commits whose result is unknown to the caller are
not modelled in the dive's `finalize`. A chat task cancelled at shutdown is not modelled in
`ChatEvents` (its clients go with it). Progress writes of parallel specialists are one
counter. `forget` of the broker is called by no code.

`Account` has one process and one person: with a second process the same caches exist twice
and are evicted once, which only adds exceptions of the kind `planted`. `SnapshotCache` has
one section per user. `Digest` joins planning, research and market context into one stage
that succeeds or fails. `Alerts` takes what the global scans find from the environment.
`Forecasts` has one ticker and one horizon; a document holds one claim, and a run that takes
it takes the claim; the exchange calendar is Monday to Friday.
`Picks` takes scores as the order of the candidates. `JobHealth` takes crontabs that fire
once a day.

Of the pages, what is one request and one answer is left out (forms, holdings, news,
watchlist, settings), with the markup, the tour and the animations. `Onboarding` starts from
the checks at load that ask for the status, not from the return of the Discord connection, and
its delivery panel is the request that ends it. In `Briefing` a poll that finds no digest and one
that fails are the same, and so are the two for `loadDigest`'s own request; `WebChat` reduces the events of a run to "some" and
"the last".

Not modelled: the components whose status is `not_modelled` in `PROJECT.json`, each with its
reason. The quantitative modules and detectors compare floating-point statistics, for which
TLA+ has no arithmetic here; `landing.py` and most lines of `webapp.py` are markup and styles
inside strings; most of the rest of `main.py` and `db/repo.py` are single reads and single
writes without a second actor. What the mobile chat hook makes of a stream depends on how
`react-native-sse` hands over named events, and that library is not in the repository.

## 8. Plan

Done: the queue and its proofs, delivery and verification, chat admission and its proofs,
streams, the agent loop, dive admission, billing, the account, the snapshot cache, brokerage,
digest, alerts, trial, job health, ledger and picks, and the scripts of the pages that have
requests in flight.

Next modules: progress writes of parallel specialists in `DeepDiveEvents`; the news refresh
and the memory of chat turns; a second process in `Account`.
