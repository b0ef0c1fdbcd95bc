# A verification project for the Cogniplane backend

Cogniplane runs AI assistants for organisations. A user posts a message, a backend replica runs a
*turn* (an agent graph that calls models and tools), and one or more browsers follow it. Several
replicas share one PostgreSQL database and, optionally, Redis. This directory models the part of
`src/apps/backend` that keeps a turn correct while replicas crash, leases expire, answers are lost
and users stop, leave, decide and reconnect at any moment, and three protocols beside it: the
rotation of refresh tokens, the scheduler, and the scan of uploads. TLC checks the modules on small
instances; TLAPS proves the safety of every module for every value of its constants, and that the
lease and the approval flow implement what they promise (`SessionLock`, `Consent`), and the
replay of a turn what it promises to those who follow it (`FollowedTurn`).

Paths below are relative to `src/apps/backend/src/` unless they start with `docs/`, `db/` or
another top-level directory.

- [The system](#the-system)
- [The modules](#the-modules)
- [The runs](#the-runs)
- [Fairness](#fairness)
- [What is proved](#what-is-proved)
- [Where the code and its documents differ](#where-the-code-and-its-documents-differ)
- [Known limits](#known-limits)
- [What is not modelled](#what-is-not-modelled)
- [Plan](#plan)

## The system

### How a turn goes through the backend

1. `POST /messages` (`routes/messages.ts`) reserves a local slot in the active-turns registry and
   asks the execution store for the session's **lease**, one row of `session_executions`.
2. A **heartbeat** renews the lease while a local **watchdog** counts down the authority that the
   last renewal confirmed. Losing the lease releases the admission and aborts the runtime.
3. The **stream writer** creates the reply row in `messages`, runs the graph through the runtime
   adapter, checkpoints the growing reply on a timer, and at the end writes the final status,
   releases the lease and the slot, and only then tells the client how the turn ended.
4. Before a model call the **spending callback** records it in a ledger, under the reservation the
   turn holds on the monthly allowance of the tenant.
5. A tool call that a policy (or the runtime) guards asks the user for **approval**: a row in
   `approvals`, a wait in the memory of the replica, a decision that may arrive at any replica, and
   a single claim of the row by the MCP gateway when the call is dispatched.
6. The events of the turn go to a bounded **event log** in memory, and a mirror copies them into a
   bounded Redis stream. A browser that **connects** gets the saved history and then follows the
   log, or the stream when it reached another replica.

### Inventory

| component | state | operations | what is hard | what makes it correct |
|---|---|---|---|---|
| Execution lease, admission, heartbeat (`services/session-execution-store.ts`, `services/execution-heartbeat.ts`, `db/migrations/021_session_executions.sql`) | one row per session; per turn a deadline and a query in flight | acquire, heartbeat, release, stop, sweep, bindRuntime, isCurrent; triggers on membership, roles and sessions | races between replicas, late answers, crashes, permission lost during admission | nobody works past a lease; global caps; no unpermitted holder; abandoned leases end |
| Active turns registry (`services/active-turns-registry.ts`) | a map of sessions with a turn on this replica | mark, clear, stale eviction, counts, event log | eviction of a turn that still runs | one turn per session; slots are freed |
| Turn writer and transcript (`services/sse-stream-writer-agui.ts`, `services/turn-transcript.ts`, `services/sse-writer.ts`) | the reply so far, a checkpoint in flight, an outcome | create, checkpoint, drain, finalize, settle, report | a write that lands late or fails after taking effect | final is final; success is saved; the turn settles |
| Message store and sweeps (`services/message-store.ts`, `services/runtime/stale-message-sweeper.ts`) | rows with a status and a text | updateContent, interrupt, stale sweep | writers that do not know of one another | no row stays mid-turn |
| Approval flow (`services/runtime/approval-coordinator.ts`, `services/auth/approval-store.ts`, `services/mcp/policy-gate.ts`) | approval rows; per replica the waits, timers and polls | request, poll, decide, expire, cancel, sweep, claim | two replicas, two windows, a timer and a trigger on one row | decided once and under its execution; durable before resume; one dispatch |
| Model spending (`services/model-spending-store.ts`, `services/deep-agents/model-spending-callback.ts`) | policy, reservations, call ledger; per turn a queue and flags | reserve, startCall, completeCall, failCall, finish, close, reconcile | lost answers, aborts, month ends, overruns | the budget holds; refunds are exact; the queue drains |
| Replay and live streams (`services/turn-event-log.ts`, `services/turn-coordination-bus.ts`, `routes/session-turn-stream.ts`, `routes/sessions.ts`) | log, mirror queue, Redis stream; per connection a queue | append, mirror, replay, waitForEvents, history read | four copies of one reply read at four moments; windows that drop | shown once; a finished view is whole; streams end |
| Runtime adapter (`services/deep-agents/deep-agents-runtime-adapter.ts`) | per session: runtime, turn, execution, timers | createSession, run, interrupt, abortSession, teardown | late answers of bindRuntime, teardown during start | no runtime works for a lost execution |
| Sandbox backend (`services/deep-agents/deep-agents-e2b-backend.ts`) | provider sandboxes, the id on the lease row | create, bind, replace, kill | a check and a kill with a lease lost in between | no sandbox is killed by a former owner, none leaks |
| Scheduler worker (`services/scheduler-worker.ts`) | job rows, run ledger, local slots | claim, run, watchdog, record, orphan sweep | a job that outlives its watchdog | one outcome per run; slots match work |
| PII protection and scan jobs (`services/pii/`) | a breaker in Redis; claimed job rows | call, open, close; claim, complete, fail, sweep | read-then-write across replicas; lost claims | a late success does not close a breaker; one completion per claim |
| Refresh rotation (`lib/refresh-token-store.ts`, `services/auth/refresh-token-rotation-service.ts`) | token families, claims, grace markers | claim, complete, restore, detect reuse | retries of an answer that was lost | a retry is not a replay; a replay ends the family |
| Accounts, MFA, step-up, login throttle (`services/auth/`) | challenges, counters, security version | issue, verify, consume | double use | single use |
| Policy center (`services/policy/`) | rules; a cache per replica | evaluate, edit, invalidate | a stale cache | a tightened rule is applied in bounded time |
| Skills (`services/skills/`) | revisions with a lifecycle | draft, verify, publish, retire, clean up | cleanup of what a turn still uses | a published revision is verified and present |
| Mail outbox (`services/mail/`) | claimed rows | enqueue, claim, send, retry | a crash after the send | every mail is sent at least once |

`PROJECT.json` lists all 35 components with their files, also the ones that keep no protocol of
their own (routes, catalogues, audit, configuration, frontend), and 40 places in the code that are
hard to test, each with the properties that cover it or the reason why none does.

### Who shares what

The **lease row** is the hub. The stream writer, the approval flow, the runtime and the connect
route all ask it who owns a session, and its end has effects in the other tables: the sweep and the
takeover close the reply row, and triggers close pending approvals. Each module therefore has its
own small image of the lease, with exactly the moments at which it matters there: with a clock and
heartbeats in `ExecutionLease`; as active, expired, stopped, finished in `TurnMessage`; with the
bound runtime and the row lock in `ApprovalFlow`; as live or over in `TurnConnect`.

## The modules

Every action is one handler step between two awaits, or one database transaction. A query whose
answer may be lost is split into its effect and its answer. Actions are named after the methods or,
where a method has several steps, after the step. `PROJECT.json` maps every definition that models
code to its lines.

Where a module has two operators of the same shape next to each other, such as `ConfirmedFromAnswer`
and `ConfirmedUntil`, the specification uses the second. The first is the plausible mistake that
the code avoids there; each property was seen to fail when the mistake takes the place of the code.

### SessionLock and ExecutionLease

`SessionLock` is what the rest of the backend may believe: a session has at most one holder, a turn
holds its session once, and the holders are within `MAX_RUNNING_TURNS_PER_USER` and
`MAX_RUNNING_TURNS_PER_TENANT`. It has no clock, no row and no replica.

`ExecutionLease` is how the code does it.

| variable | code |
|---|---|
| `now` | the database clock, which replicas measure at the same rate with `performance.now()`; a replica's `Date.now()` is up to `Skew` off |
| `members`, `editors`, `open` | `tenant_memberships`; the owner of a private session or the editors of its project; `agent_sessions.status` |
| `exec` | `session_executions`: execution id, status, `expires_at`, whether a runtime is bound |
| `pc`, `deadline` | where `POST /messages` is; the deadline of the local watchdog, 0 once it is stopped |
| `hb`, `hbStart` | the heartbeat query in flight and when it was sent (`services/execution-heartbeat.ts:31`) |
| `gone`, `fenced` | crashed replicas; history: turns that a Stop or a revocation ended |
| `misread` | history: the `expires_at` that a late wall clock put further off, until a renewal is heard |

`AcquireCheck` and `AcquireCommit` are one transaction in two steps, so that every other statement
can run in between unless a lock forbids it: the advisory lock of the tenant (`AdmissionLockFree`),
the share lock on the membership (`MemberUnlocked`), the locks on the project and session
(`SessionUnlocked`). A heartbeat is sent, takes effect and is answered in three steps; the effect
may come after the watchdog has fired, after the process died, or after the next admission, and the
answer may be lost. `Depart`, `RevokeEditor` and `CloseSession` include what the triggers of
migration 021 do.

Two clocks meet in one line. A renewal is counted from the sending of its query on the monotonic
clock (`ConfirmedUntil`), but the first deadline is `expiresAt - Date.now()` (`routes/messages.ts:249`),
the database clock minus the replica's wall clock. `TimeLeft` is every value this difference can have
when the two are at most `Skew` apart; `AcquireCommit` takes one of them, each admission anew, so a
clock may also be set in between. The admission ends with `EndWatch`, which stops watchdog and
heartbeat before anything else (`releaseAdmission`).

Time is an integer, bounded by `Horizon`; a lease that would end later is not granted, so that every
granted lease can be seen to expire.

### TurnMessage

The reply row (`row`), the stream writer of each turn (`pc`, `text`, `outcome`, `saved`), its
checkpoint in flight (`cp`, `cpText`) and the lease as far as messages depend on it. A checkpoint
has no cancellation: it takes effect whatever became of its turn. `FinalWrite` may save, fail, or
take effect and report failure; `FailureWrite` is the second attempt, which never reports success.
`Acquire` and `SweepExpired` close the messages of an expired generation, except the rows made after
its expiry (`uncovered`, the condition on `created_at` in the statement). `ShutdownMark` is the
`preClose` hook, `SweepStale` the sweep of old rows, `Crash` the end of a process at any step. Text
is the number of deltas so far, so a row with an older text is told from one with the whole.

### ApprovalFlow

`request` of the coordinator is followed step by step (`req`): the read of an earlier row, the check
and the insert of `create`, the second read after a failed create, the registration of the wait.
Waits are settled by the poll, the timer, an abort or a decision taken on the same replica. `dec` is
`decide` and the SQL of `resolve`, in two steps, since a statement that waits for a row lock reads
the row again but not the joined execution. `expiring` holds the best-effort expiries that are not
awaited. `call` is the gateway, which reads the row and then claims it. A runtime is named after the
turn that created it, and a later turn of a warm session reuses it, so two turns can ask for the
same policy approval.

Modelled are approvals of turns with an execution (`requiresDurableProof`).

`Consent` is what all of this promises to the user who is asked, without replicas, timers or
statements in flight: a question (`answer`, `asker`) gets one answer for good, a turn hears of a
consent (`heard`) only after it was given, and one call (`ran`) goes ahead with it, of the turn that
asked and has heard. The mapping reads `answer` and `asker` from the row, `heard` from what
`request` returned, `spent` from the mark of the claim and `ran` from the calls that the gateway
dispatched. That the asking turn is the one of the call is not given by the flow: another turn of
the same warm runtime may wait for the same row and hear of the consent too, and only the tool
context in the proof of the row (`Matches`) keeps it from using it.

### ModelSpending

The store's transactions are single steps, because each takes the advisory lock of the tenant:
`Reserve`, `Close`, `Reconcile`, the effects of `startCall`, `completeCall`, `failCall` and `finish`.
The callback of a turn is followed per call (`at`): queued behind its predecessors (`ahead`,
`released`), admitted, its start written, dispatched, its end or failure written. Every write lands
with effect and answer, with effect only, or not at all. `Finish` closes the callback, waits for
writes in progress, fails what is open and settles with `Settlement`. Amounts are integers, months
pass at any moment, and an administrator changes the limit, closes and reconciles. What is charged to
a month, and what a turn's calls cost, are sums over finite sets (`Charged`, `CostOf`).

`TurnIds` declares the set of turns for `TurnMessage` and `ModelSpending`: both are about the records
of the same turns, and their proofs share a module.

### TurnConnect

One turn and its readers. An event is its sequence number; the saved row is the number of pieces it
holds. `Append` gives an event to the log and to every subscribed queue, which may overflow.
`MirrorSends`, `MirrorLands`, `MirrorStops` and `MirrorLost` are the mirror queue and its writes;
`Trim` is the window of the Redis stream; `BusLost` its expiry or loss. A reader goes through
`openTurnSource` (`OpenLocal`, `OpenElsewhere`, `Lookup`, `Replay`), the history read, `CatchUp`, the
decision what to leave out of the history (`Decide`), and then the local loop (`Deliver`,
`EndLocal`) or the remote loop (`Deliver`, `Wait`, `CheckOwner`). `near` says which readers reached
the replica of the turn.

`FollowedTurn` is what this promises to whoever follows the turn, without replicas, windows, mirror or
queues: numbered events, and per reader a view that grows by the next event, in order, until the
stream ends for good. It is one specification for the local and the remote loop. The mapping takes
`seq` for the newest event, `term # 0` for the end, `got` for the views and the connections that are
`done` for the streams that ended; `FollowsTurn` is the implementation. What was in the history that
a connection sent first is not part of it: that is `ShownOnce`.

### TurnRuntime

One session on one replica: the registry of active turns, the map of warm runtimes in the adapter,
and the handler of `POST /messages` between the two. A step is what the event loop does between two
awaits; a query is a step of its own wherever its answer can be late (`BindWarm` and `WarmBound`,
`BindNew` and `NewBound`, `LoseLease` and `LeaseLost`). The runtime that a turn builds has the name
of the turn, and `Warm` is the one that earlier turns left. `entry` and `log` are the registry,
`current` and `bound` the row of the lease, `session`, `execOf`, `aborted`, `disposing`, `armed`,
`pending`, `active` and `invalid` the adapter; `pc` and `adm` are the two halves of a turn, which the
release of a lost lease lets run beside each other.

History variables name what the code gives up: `late` holds the turns that lost their lease while
the answer of their `bindRuntime` was under way, `evicted` the entries that the registry took for
dead. Merged into one step are the acquire and the local note of the execution, the registration of
the cancel signal and the call of `createSession`, and the end of the lease with
`finishTurnAdmission`. `reserveMutation`, the checks of the tool context and the notices about
workspaces are left out.

### RefreshRotation

One family of refresh tokens. A Lua script of `lib/refresh-token-store.ts` is one step; a call may
fail without effect, or take effect and lose its answer, and `ResendRestore` is a command that the
client library sends again. The handlers of `/auth/refresh` are slots that are used again, so any
number of refreshes follow one another. `live`, `family`, `marker` and `unaudited` are the Redis
keys, `cookie` is what the browser holds, `handed` what anybody was ever given. A marker can expire
at any moment. The login time of the family (`lifeOver`) can run out too; an issue that finds it gone
sets it anew, which starts the absolute lifetime of the session again (`IssueJti`). Membership ends
(`routes/tenant.ts:600`) and returns (`services/auth/workos-tenant-provisioning.ts:244`), and `Logout`
runs beside everything.

`recorded` is one flag for the family: when two requests detect a reuse at the same time, the event of
one of them satisfies `ReuseIsRecorded` also for the other, whose note the first may have cleared. The
code knows and logs this (`routes/auth-session.ts:88`).

`faults` names what the code does not repair: `"lost"` when an older copy of the cookie is presented,
an answer of the claim or of the whole request is lost, a restore fails, a marker expires during a
request of its token, or the process dies after the claim; `"resent"` when a restore that was sent
twice takes effect after another claim.

### ScheduledJobs

One job, one run of it step by step, and the process that runs it. Time is relative: a `Clock` step
is one period, `due` says how far the next run is away, `age` how old the pending row is, and a
watchdog that is overdue holds the clock. `tick` follows the ticks of the worker from the sweep and
the list through the reservation of a slot and the claim; `at` follows `executeJob`; `watch` follows
`executeJobWithTimeout`, which gives up the slot of a run that does not settle. Other runs of this
process only hold slots (`others`); they and the runs of other replicas claim the job too
(`ClaimElsewhere`), report their outcome to its counter, or fail to (`CountElsewhere`), and disable it
in a later step that fails or is never taken when their process dies (`DisableElsewhere`). `elsewhere`
says that one of them is between the two steps; one at a time is the bound. `orphan` is a history
variable: the run of the pending row died with its process, or could not write its outcome. `Stop`, `CloseRuntimes` and `Drain` are the shutdown in the order of
`app-bootstrap.ts`; `Crash` and `Restart` leave the rows as they are.

Merged are the read of the security version with its answer, both calls of `admitTurn` before the
start, and the list query with the reservation. Invalid schedules, quotas, deletion of jobs and the
cleanup sweeps are left out. Finished runs are forgotten, except that a pending row stays until it
is swept.

### UploadScan

The scan of one upload. `up` is the request, which scans at once (a block policy, or a type that no
scan reads) or stamps `pending` and queues a job; `art` is the row of the file with its verdict,
`bytes` the stored object, `run` the scan run with its recorded decision, and `job` the queue row.
Two attempts at a time go through `PiiScanJobHandler.execute` and `finishFailedJob` write by write,
each write can fail with or without effect, and a claim can get old while its attempt runs. `lock`
is the row lock that `finishUndecidedFailure` holds over a write on another connection. What a scan
finds, and the policy of that moment, is one choice of passing or blocking; the verdict `transformed`
is folded into passing, since both leave the file readable and go through the same writes. `disputed` marks the one
case the request gives up: it closed a scan whose job exists, or could not close one.

Left out are messages as subjects, further jobs of one subject, audit events, files that are gone
before their scan, and the revision of the policy that a verdict carries.

## The runs

| run | instance | shows |
|---|---|---|
| `lease_contended` | 2 turns of one session on 2 replicas, lease of 1 tick, clock to 2, wall clocks right | `ImplementsLock`; `AbandonedLeaseEnds`; `FencedTurnFreesSlot` |
| `lease_caps` | 2 sessions, one of them in a project, 1 user, caps of 1, 2 replicas, lease of 2 ticks, clock to 3, wall clocks 1 tick off, one withdrawal at a time | `LocalAuthority`, `CapsHold`, `NoUnpermittedHolder` |
| `message_turns` | 1 whole turn, and a second one that takes the session and may crash | `MessageInvariant` (with `SuccessIsSaved`), `FinalIsFinal`, `TurnSettles`, `AbandonedRowSettles` |
| `message_swept` | 1 turn | a swept message is reopened (a divergence, below) |
| `approval_flow` | 2 turns on 1 or 2 replicas, 1 policy or 1 native approval, 1 decision, 2 tool calls | `NoOrphanPrompt`, `DurableBeforeResume`, `OneDispatch`, `ImplementsConsent`, `WaitSettles`, `PromptCloses` |
| `spending_turns` | 1 turn with 2 calls, costs 0, 3 or unknown, hold 2, a second turn that reserves, limits 3 and 4, 2 months | `SpendingInvariant` (with `RefundIsExact`), `BudgetHolds`, `VerifiedStays`, `QueueDrains` |
| `connect_stream` | 1 reader, anywhere, 2 pieces, windows of 2 events | `ViewInvariant` (with `ShownOnce`), `FollowsTurn`, `StreamEnds` |
| `runtime_turns` | 2 turns and a warm runtime, either may be evicted, two disturbances | `RuntimeInvariant` (with `OneStream`, `CreationExcludesTurn`, `TimerIsSafe`, `LogIsLive`), `RunningTurnKept`, `WorkIsFenced`, `IntegrationApplied`; no deadlock |
| `refresh_family` | 2 handlers, 3 tokens, one ending at a time, one kind of fault | `RotationInvariant` (with `OneUsable`), `EndedStaysEnded`, `NoFalseTheft`, `ReuseIsRecorded` |
| `scheduled_jobs` | 2 ticks, 1 slot, 1 other run, a threshold of 2 failures, timeout and grace of 1 period, one exception | `JobsInvariant` (with `SlotsBalance`, `NoTurnAfterAbort`), `OncePerPeriod`, `CompletedRunIsWhole`, `SweptWasGivenUp`, `PoisonStops`, `RunsAreRecorded`; no deadlock |
| `scheduled_swept` | the same | a run is swept while it goes on (below) |
| `upload_scan` | 2 attempts, 3 tries, 3 faults | `ScanInvariant` (with `VerdictsAgree`), `BlockedIsWithheld`, `UploadSettles` |

Each module has a `TypeOK`, checked as a part of the invariant of its run, or proved, or both. Runs
say `CHECK_DEADLOCK FALSE` where a bounded set of turns, tokens or writes ends and nothing is left to
do. The others check deadlock: `runtime_turns`, whose turns all end, and the two of `ScheduledJobs`,
which never ends.

### Why the bounds are enough

- *Two turns, two replicas.* A conflict over a session, a slot or a row needs two. The third turn
  that could matter, the one after the takeover, meets the same row in the same states, and the
  proofs cover any number. They had to: with two turns `TurnRuntime` never showed what a third can
  do after an eviction, and only the attempt to prove it did (see the known limits).
- *Lease of 2 ticks, clock to 3.* A renewal that is sent, takes effect and is answered at three
  different times needs one tick inside the lease; measuring the deadline from the answer instead of
  from the sending is then seen to outlive the row. A skew of 1 tick is half of that lease, on
  either side. `lease_contended` has none: it is about the row, which no wall clock moves, and its
  fairness is about timers that fire at any deadline. With a lease of 1 tick and a clock to 2 the row
  of one turn expires and the other turn takes it over.
- *Caps of 1.* The race is between two counts that each see room for one more.
- *One delta.* A row without the text and a row with it are told apart; a checkpoint of the former
  that lands after the final write of the latter is the case that matters.
- *A second turn that is short.* What a later turn does to the row of an earlier one happens while
  it acquires, sets up its own row or is found dead (`SecondTurnIsShort`); its own life is the life
  of the first turn again.
- *Costs 0 and 3 and a hold of 2.* Nothing, and more than the hold; with limits 3 and 4 one full
  hold fits with something left over, or two fit exactly. The second turn only takes its part of the
  budget (`SecondTurnReserves`), since a reservation is all that turns see of one another, and the
  policy changes in the first month (`PolicyIsEarly`).
- *One withdrawal at a time* (`OneWithdrawal`). A membership, an editor, a session or a replica is
  gone, and may be back before the next one goes. Each is a condition of its own on an admission or
  a row; two that fail together stop no more than one does.
- *Two disturbances* (`TwoDisturbances`). Of the turns stopped or aborted, the runtimes outdated by
  an integration and the entries evicted, two in a behaviour: any pair meets, a stop after an
  eviction or a change during a stop, and `RuntimesCorrect` covers all of them for any number.
- *One ending at a time, one kind of fault* (`OneEnding`, `OneKindOfFault`). A family ends by its
  lifetime, the membership or the logout. The faults `"lost"` and `"resent"` each except a property
  already by themselves; what their exceptions do not cover is checked in the behaviours without.
- *One exception* (`OneException`). A job enabled again, an owner whose security version moved, a turn
  that ignores its abort, a slow abort: each excuses the run from a property of its own.
- *A second turn without a crash* (`SecondTurnIsPlain`). The crash of one turn, before or during the
  other, is the first turn's; a second tool call presents the approval after the first, and needs no
  second turn.
- *One kind of approval at a time.* A native approval has one caller by construction, so it is asked
  for by one turn alone (`NativeIsAlone`). `FirstIsNamedFirst` fixes which of the interchangeable
  turns, replicas and calls acts first, which symmetry cannot do beside liveness.
  `NamedFairness` is the fairness of the module without the timers that `NativeIsAlone` never sets.
- *Three tokens.* The one of the login, its successor, and one more for a rotation that races with
  it or follows it; handlers are used again, so the number of refreshes is not bounded by them.
- *One slot and a timeout of one period.* A second claim at any time is one too many, and a run can
  be overtaken by its timeout, its grace, the sweep and its next period.
- *Three tries.* The default of `max_attempts`; two attempts that overlap and one more after both.
- *Windows of 2 for 4 events.* Both windows drop the start of the turn before its end.
- *One reader.* Readers share no state, except that they read the same log.

The bounds of `lease_caps`, `runtime_turns`, `refresh_family` and `scheduled_jobs` are state
constraints over the whole specification: the states just outside them are still checked, their
successors are not explored. These runs have no liveness property, for which that would not be sound.

Symmetry is used only in runs without liveness properties, and where no definition tells the members
apart.

## Fairness

`LiveSpec` assumes only what the code drives by itself, and never the good will of a user, a
provider or a peer.

| module | assumed | why | not assumed |
|---|---|---|---|
| `ExecutionLease` | time passes; the sweep runs; the timers of a live replica (watchdog, release, slot) fire | `setInterval` in `app-bootstrap.ts` and in `services/execution-heartbeat.ts`; `onLost` releases without waiting for the runtime | heartbeats, admissions, the body of the turn, users |
| `TurnMessage` | a turn past its stream goes on; rows age; the stale sweep runs | the drain has a deadline (`services/sse-stream-writer-agui.ts:214`), each step after it is awaited in one function | the checkpoint in flight, the stream, the lease |
| `ApprovalFlow` | the TTL timer fires; a row's time passes; the sweep runs | `setTimeout` per wait, the sweep of `services/runtime/stale-approval-sweeper.ts` | polls, decisions, the unawaited expiry |
| `ModelSpending` | handlers go on, writes settle, a turn finishes | the queue is a promise chain; the turn has a watchdog | the provider's answer |
| `UploadScan` | the request and each attempt go on, ticks sweep, claim and recover, claims get old | the steps are awaited in one function, with deadlines on the provider; ticks are a timer | that writes succeed: three of them may fail, at any place |
| `TurnConnect` | the loop of a stream goes on | `SseWriter` has a write deadline, XREAD blocks ten seconds at most | the turn, the mirror, the client |

The safety of `TurnRuntime`, `RefreshRotation` and `ScheduledJobs` needs no fairness. All of it is
weak fairness. Clocks stop at their bound, at which every granted lease has expired.

## What is proved

### The execution lease

`ExecutionLeaseProofs` proves, for any number of sessions, users, replicas and turns, any lease
length, any skew of the wall clocks, any caps and any horizon:

| theorem | statement |
|---|---|
| `TypeCorrect` | `Spec => []TypeOK` |
| `LeaseCorrect` | `Spec => []LeaseInvariant` |
| `LocalAuthorityHolds` | `Spec => []LocalAuthority` |
| `PermissionHolds` | `Spec => []NoUnpermittedHolder` |
| `CapsAlwaysHold` | `Spec => []CapsHold` |
| `LeaseImplementsLock` | `Spec => ImplementsLock` |

They rest on `TurnAssumption` (what a turn is), `SessionAssumption` (the set of sessions is finite,
which cardinalities need) and `LimitAssumption` (the limits are numbers, a lease has a length).

**The argument.** None of the safety properties is inductive alone. `LeaseInvariant` adds four parts:

- `RowInv`: a row belongs to an admitted turn of its session, and expires at most one lease from
  now. The second half is why a renewal never shortens a lease, which `WatchInv` needs.
- `LockInv`: what an open admission checked is still true, and only one admission is open. This is
  where the advisory, membership and session locks are used; without any of them the commit could
  create a second holder or an unpermitted one.
- `WatchInv`: a local deadline, and the one that a renewal in flight will set, never lie beyond what
  the database granted, or are over, or someone stopped the turn. This is where it matters that
  `services/execution-heartbeat.ts` counts from the sending of the query. A first deadline that a late
  wall clock set lies less than the skew beyond what was granted, and the first renewal that is heard
  repairs it.
- `RoomInv`: an open admission still has room under both caps. Nothing but an admission adds a live
  row (`LiveStep`, `LiveShrinks`), and admissions exclude one another, so the room found at the check
  is there at the commit, and `CapsHold` follows with the cardinality of a set plus one element.

`LocalAuthority` follows from `WatchInv`. The refinement maps the holder of a session to the turn of
its live row and the used turns to the admitted ones; an `AcquireCommit` is a `Grant`, by `LockInv`
and `RoomInv`, and every other step is a `Drop` of the sessions that stopped being live, possibly
none: a tick drops all the leases that end at that instant.

### The approval flow

`ApprovalFlowProofs` proves, for any sets of turns, replicas, approvals, decisions and tool calls:

| theorem | statement |
|---|---|
| `TypeCorrect` | `Spec => []TypeOK` |
| `FlowCorrect` | `Spec => []FlowInvariant` |
| `NoOrphanPromptHolds` | `Spec => []NoOrphanPrompt` |
| `DurableBeforeResumeHolds` | `Spec => []DurableBeforeResume` |
| `OneDispatchHolds` | `Spec => []OneDispatch` |
| `DecidedOnceHolds` | `Spec => DecidedOnce` |
| `DecidedUnderExecutionHolds` | `Spec => DecidedUnderExecution` |
| `FlowImplementsConsent` | `Spec => ImplementsConsent` |

They rest on `ApprovalAssumption`: the placeholder for "no turn" is not a turn, and no approval is
both of the Policy Center and native.

**The argument.** `RowStep` lists the only four ways in which any step changes a row: expiry of a
pending one, creation under the execution row, decision of a pending one, claim of an approved one.
`DecidedOnce` follows from it alone. The rest needs `FlowInvariant`, which adds to the properties:

- `RuntimeInv`: what is bound, or asks, has a runtime, and the execution of a turn that is not bound
  yet has none. So binding cannot move an execution away from a prompt that belongs to it.
- `CreateInv`: what `create` read under its share lock still holds when it commits. This is where
  the lock against the triggers of migration 021 is used (`LockedExecution`): only a lapse, which
  writes nothing, can come between. A pending row therefore belongs to the execution of its
  runtime, and `Expired(PendingOf(...))` of the next acquire, or of the end, finds it.
- `SettleInv`: a decision that goes on to settle waits has been committed, with the choice that it
  will settle them with. `DurableBeforeResume` follows, since the other reports of an approval read
  it from the row, and a stored status stays.
- `ClaimInv`: only an approved row is claimed, a claim stays, and a call takes it alone.
- `WaitInv`: a request that has not settled has no outcome. Every step settles a request or keeps
  what it answered (`AnswerStep`), so what a turn heard it has heard for good.
- `CallInv`: a call under way is of a turn that heard the approval it presents, and one that is about
  to claim it is of the turn that asked for it. `Matches` read this before the claim; it still holds
  then because a decided row keeps its turn (`AskerStays`) and a turn what it heard.

With these, `FlowImplements` takes the steps one by one. A row that is made is an `Ask`, a decision
that is written a `Decide`; the expiries of the trigger, the sweep and the timers, however many rows
they close, an `Expire`; waits that settle with an approval, those of a decision at once, a `Hear`,
by `SettleInv`; a claim a `Use`, by `CallInv`, whether its call then goes ahead or not. Everything
else, crashes and aborts among it, is nothing to `Consent`: an abort answers only waits that had no
answer. `DecidedOnce`, `DurableBeforeResume` and `OneDispatch` can be read off `Consent`; they are
proved on their own as well.

### The reply row

`TurnRecordsProofs`, for any set of turns and any length of the reply, from `TurnAssumption` (the
placeholder for "no turn" is not a turn) and `TextAssumption` (the length is a number):

| theorem | statement |
|---|---|
| `MessageCorrect` | `Spec => []MessageInv` |
| `FinalIsFinalHolds` | `Spec => []FinalIsFinal` |
| `MessageInvariantHolds` | `Spec => []MessageInvariant` |

`FinalIsFinal` could be broken by a checkpoint that lands after the final write. `CheckpointInv` says
that a turn past its drain has no checkpoint in flight that is not `late`, which is what `Drained`
waits for, and `OutcomeInv` that a turn has one outcome and saves it once. The other writers of the
row (`UntouchedRow`: the takeover, the sweeps, the shutdown) touch a row only in the middle of a turn.

### Model spending

`TurnRecordsProofs`, for any finite sets of turns and of calls, any costs, limits and hold, and any
number of months, from `FiniteAssumption` (the calls of a turn and the turns so far are finitely
many, or there would be nothing to add up), `CostAssumption` (a known cost is a number, an unknown
one is not among them) and `PolicyAssumption` (limits are numbers, there is one, a hold is positive):

| theorem | statement |
|---|---|
| `SpendingCorrect` | `SpendingSpec => []SpendingInv` |
| `BudgetAlwaysHolds` | `SpendingSpec => []BudgetHolds` |
| `SpendingInvariantHolds` | `SpendingSpec => []SpendingInvariant` |
| `VerifiedAlwaysStays` | `SpendingSpec => VerifiedStays` |

**Sums.** `SumFunctionOnSet` of the community modules is a recursive function over the subsets of a
set, whose next element is a `CHOOSE`. Its value is worked out here from the definition: the partial
sums exist (`PartialsUnfold`) and do not depend on the set they were started from (`PartialsAgree`);
by induction over a finite set (`SetInduction`, from the well-foundedness of `<` on the naturals), a
sum is a natural, the order of its elements does not matter (`SumTakesOut`), and it grows with its
summands (`SumMonotone`). The induction theorems of the library take an operator as a parameter,
which the provers cannot instantiate; `SetInduction` takes the set of what holds instead.

**The budget.** `BudgetHolds` counts every turn up to its hold (`WithinHold`), against the highest
limit of the month (`top`). `ReservationSteps` lists what any step does to the reservations: it makes
one, adjusts one that is not settled, or changes the policy. A turn that has not settled is charged
its whole hold or more (`HoldIsCharged`), so adjusting it cannot raise what it counts. Making one adds
a hold, and the check of `Reserve` covers it, since the sum up to the holds is at most what is
charged. A new month starts with no reservations (`PolicyInv`), a new limit only raises `top`.

**The refund.** A turn that gets part of its hold back is over, has nothing pending, unknown or failed
in its ledger, and is charged what its ledger says (`RefundInv`). Nothing moves its ledger from then
on (`FinishedSteps`, `LedgerSteps`): a start that lands late finds the reservation settled, an end
that does finds no pending row. `DispatchIsRecorded` says that the ledger knows of a call before the
provider does, so no call that was sent is missing from that sum.

### The view of a reader

`TurnConnectProofs`, for any number of connections, any length of the reply and any windows of the
log and of the bus, from `WindowAssumption` (they are numbers, and no window is empty):

| theorem | statement |
|---|---|
| `ConnectCorrect` | `Spec => []ConnectInv` |
| `ViewInvariantHolds` | `Spec => []ViewInvariant` |
| `FinishedViewIsWholeHolds` | `Spec => []FinishedViewIsWhole` |
| `ConnectFollowsTurn` | `Spec => FollowsTurn` |

The two windows trim from the front and readers take from the front, so everything is an interval.
`BusInv` says that the Redis stream is an interval that ends where the mirror is; `ReadsInv`, that a
connection holds the first events of the turn without a gap, and a subscribed one holds them all. An
interval from 1 that has the last event has all of them. `ShownInv` says that nothing is delivered
before the row of the turn is left out of the history or is seen to hold nothing.

**The refinement.** Only `Deliver` changes a view: what it is still owed is an interval that starts
after the view (`Beginnings`), so its least event is the next one (`DeliverImplements`), and the event
that ends a remote stream is the newest one. The three steps that append are `Happen`, possible only
before the end (`TurnInv`). Every other step of a connection moves it from an open place, so it closes
one stream or none (`MoveImplements`), and a crash closes all those of its process. The rest, the
mirror and the loss of the Redis stream among it, is nothing to `FollowedTurn`. `FinishedViewIsWhole`, that a stream which
delivers the end of the turn delivered all of it, can be read off `FollowedTurn`; it has a theorem and
no run of its own.

### The runtimes of a session

`TurnRuntimeProofs`, for any number of turns, from `NameAssumption` (the names of runtimes and
placeholders are distinct):

| theorem | statement |
|---|---|
| `RuntimesCorrect` | `Spec => []RuntimesInv` |
| `RuntimeInvariantHolds` | `Spec => []RuntimeInvariant` |
| `RunningTurnKeptHolds` | `Spec => []RunningTurnKept` |
| `WorkIsFencedHolds` | `Spec => []WorkIsFenced` |
| `IntegrationAppliedHolds` | `Spec => []IntegrationApplied` |

`SlotInv`, `RuntimeInv` and `AdmissionInv` hold always: one turn owns the slot, nobody creates beside
it, the runtime of a turn is that of the session unless it is torn down, and an admission ends once.
The rest holds as long as no entry was evicted. `EntryInv` ties the open admission to the entry, so
that one turn at a time is admitted; `FenceInv` says that the runtime of a bound turn names its
execution until the lease is lost, and is torn down from then on, unless the turn is `late`;
`ChangeInv`, that a runtime which a change outdated is torn down, or the change is postponed and a
turn is there to apply it (`Doomed` is the runtime whose own bind is going to fail).

### The rotation of refresh tokens

`RefreshRotationProofs`, for any number of handlers and tokens, from `TokenAssumption` (the first
token is one, the placeholders are not):

| theorem | statement |
|---|---|
| `FamilyCorrect` | `Spec => []FamilyInv` |
| `RotationHolds` | `Spec => []RotationInvariant` |
| `EndedStaysEndedHolds` | `Spec => []EndedStaysEnded` |
| `NoFalseTheftHolds` | `Spec => []NoFalseTheft` |
| `ReuseIsRecordedHolds` | `Spec => []ReuseIsRecorded` |

`RightInv` carries `OneUsable`: the right to rotate a family is in one token that somebody was given,
or with one handler, or nowhere, and a handler that has it is going to give it to a successor nobody
has seen. `KnownInv` says what was given to whom. `EndInv` and `KeptInv` go with the end of a family:
whoever reports it has seen the family revoked, and the note of an unrecorded reuse is cleared only
after its event is written. `TheftInv` is the hard one: without a fault the tokens that the browser
and its requests hold are known to Redis, as live ones or by a marker, so that no handler takes one
for stolen; and a cookie that is not live is being rotated at that moment.

### The scheduler

`ScheduledJobsProofs`, for any finite set of ticks, any number of slots and of other runs, any limit
of failures, any timeout, grace and buffer, from `ScheduleAssumption`:

| theorem | statement |
|---|---|
| `JobsCorrect` | `Spec => []JobInv` |
| `JobsInvariantHolds` | `Spec => []JobsInvariant` |
| `OncePerPeriodHolds` | `Spec => []OncePerPeriod` |
| `CompletedRunIsWholeHolds` | `Spec => []CompletedRunIsWhole` |
| `SweptWasGivenUpHolds` | `Spec => []SweptWasGivenUp` |
| `PoisonStopsHolds` | `Spec => []PoisonStops` |
| `RunsAreRecordedHolds` | `Spec => []RunsAreRecorded` |

`SlotsBalance`, `NoTurnAfterAbort`, `PoisonStops` and `RunsAreRecorded` are inductive together. For
`RunsAreRecorded` it matters that `executeJob` is tracked on its own, beside the wrapper that gives up
its slot (`services/scheduler-worker.ts:627`): the drain of a shutdown waits for it until its row is
written, which a drain that waited for the slots would not.
`FireInv` adds that a job claimed in time is due only in the next period. `OutInv` follows the row,
the message and the outcome through the steps between them. `AgeInv` bounds the age of a pending row
by the timeout and the time that the grace has used, so a row old enough for the cutoff of the sweep
belongs to a run that its watchdog has given up. The cutoff is the sum of the three deadlines, and
the proof uses nothing else about them.

### The scan of an upload

`UploadScanProofs`, for any number of attempts, of tries and of faults, from `ScanAssumption` (the
placeholder is not an attempt or a verdict, the limits are numbers):

| theorem | statement |
|---|---|
| `ScanCorrect` | `Spec => []ScanInv` |
| `BlockedIsWithheldHolds` | `Spec => []BlockedIsWithheld` |
| `ScanInvariantHolds` | `Spec => []ScanInvariant` |

Attempts overlap, so no attempt can trust its own verdict. `DecisionInv` says that an attempt applies
the decision that the run recorded, and only after it is recorded: this is what the reread after
`Record` is for. `LockInv` says that a recovery which withdraws the file holds the row of the run,
and that this run has no decision, so none is recorded until it is sealed. `RequestInv` and `JobInv`
keep the request and the queue apart, and `AgreeInv` says that the file already says what the run is
about to say.

### Only model-checked

Liveness: `AbandonedLeaseEnds`, `FencedTurnFreesSlot`, `TurnSettles`, `AbandonedRowSettles`,
`WaitSettles`, `PromptCloses`, `QueueDrains`, `StreamEnds` and `UploadSettles` are out of the
prover's reach, which has no rules for `ENABLED`. Absence of deadlock is `ENABLED` too. Every safety
property of a passing run is a theorem, for every value of the constants.

## Where the code and its documents differ

Two runs end in a counterexample, each against a sentence of the repository.

- `message_swept`. "Expired leases cannot belong to a live turn"
  (`services/session-execution-store.ts:128`). A turn whose heartbeats fail, or whose process
  stalls, still streams when the sweep closes its message, and `updateContent` has no condition on
  the status it replaces (`services/message-store.ts:655`): the next checkpoint turns the message
  back to `streaming`. `AbandonedRowSettles` shows that it does not stay so.
- `scheduled_swept`. "Anything older has no live `executeJob` left to complete it"
  (`services/scheduler-worker.ts:173-174`), "so live runs are never swept" (`:486-488`). The sweep goes by
  the age of the row. A run that does not settle in its grace loses its slot and goes on
  (`:675-692`), and the abort that comes before the grace has no deadline (`:653`): in both cases the
  row reaches the cutoff with its run alive, which then writes its outcome over the swept row.
  `SweptWasGivenUp` is what remains: the sweep fails no run in the time its watchdog leaves it.

## Known limits

Conditions that a property carries, because the code does not promise more.

- `FinalIsFinal` and `SuccessIsSaved` except a checkpoint that outlived the drain deadline (`late`):
  the code gives it up and logs it, and it may land after the final write.
- `LocalAuthority` excepts turns that were stopped or revoked: the row ends at once and the replica
  learns of it from its next heartbeat. Dispatches check `isCurrent` in between. It also excepts
  a turn admitted by a late wall clock, for less than the skew and until its first renewal: the first
  deadline subtracts the replica's `Date.now()` from the database's `expires_at`
  (`routes/messages.ts:249`). The comments of the heartbeat ("Retry only while the last confirmed lease
  remains valid", `services/execution-heartbeat.ts:1-2`, and line 5) say nothing of wall clocks, and
  the code does not keep them without that exception.
- An approved request can be reported as expired. The timer of a wait settles it before, and whether
  or not, the row moves (`services/runtime/approval-coordinator.ts:307`); when the approval is
  committed on another replica and the poll has not seen it, the turn is told that nobody answered
  and the row stays approved. `OneDispatch` and `DurableBeforeResume` hold with it.
- `WorkIsFenced` and `RunningTurnKept` except a turn that loses its lease while the answer of its
  `bindRuntime` is under way (`late`): the abort finds no execution on the runtime, the answer then
  binds it, and when the next turn shares that runtime the lost one goes on as it
  (`services/deep-agents/deep-agents-runtime-adapter.ts:1334`). Dispatches still check `isCurrent`.
- `WorkIsFenced`, `RunningTurnKept` and `IntegrationApplied` except sessions whose entry was evicted
  as stale (`services/active-turns-registry.ts:194`): the end of an evicted turn may clear the entry
  of the next one. A third turn is then admitted while the second still holds the warm runtime and
  binds it to its own execution, and the second goes on as the third. `RuntimeInvariant` holds also
  then. It takes three turns: two never get there, and TLC finds it with three.
- `NoFalseTheft` and `OneUsable` except the faults above. A lost answer of the issue with a restore
  leaves a token that nobody holds; a crash between the end of a family and its event leaves no
  event (the model merges neither away: `handed` and `recorded` say so).
- `SweptWasGivenUp` excepts a run that its watchdog gave up and an abort that takes as long as a
  period (`slow`); `scheduled_swept`, above, is about both. A failure counted just before a success on
  another replica still disables the job, and a claim whose answer is lost is a due time without a run.
- `RunsAreRecorded` excepts a row whose run died with its process or whose last write failed
  (`orphan`): the sweep closes it later.
- `PoisonStops` excepts a job that its owner saved again, and a write of the counter or of the disable
  that is lost, by this run or another (`excused`). The next failure of the job disables it.
- `VerdictsAgree` and `UploadSettles` except a request that closed a scan whose job exists, or failed
  to close one (`disputed`). `BlockedIsWithheld` has no exception.
- `BudgetHolds` counts each turn up to its hold. The last call of a turn may cost more than is left
  of the hold; the code accepts and records the overrun.
- `RefundIsExact` never returns too much; it does not say that everything is returned. A turn that is
  aborted or finished between the ledger entry of a call and its dispatch records the call as failed,
  and the settlement keeps the whole hold. `docs/MODEL_SPENDING.md:81` says of a call refused before
  dispatch that it "adds no charge and no unknown usage"; lines 107-110 say that a call that ends with
  its turn "is recorded as failed".
- `ShownOnce` excepts a history that ends with a newer prompt (`late`). When a new turn starts
  during the history read of a connection that follows the turn before it over a lagging mirror, the
  reply is in the history and is replayed again. Without the exception TLC finds exactly this.

## What is not modelled

`PROJECT.json` gives the reason for each component. In short: calls of external providers (models,
sandboxes, OAuth, identity, mail) are choices of outcome where a module meets them; stateless checks
(tokens, roles), conversions (events to AG-UI, skill import, PII detection), configuration rows,
audit rows and the frontend have no protocol of their own. Row level security is a declaration.
Inside the modelled components these are left out: the sandbox binding of the lease, prompt edits
and feedback of messages, reasoning, plan and tool parts of a reply, the allow-for-turn memory and
the retry cache of approvals, tenants without a spending limit, and the Stop channel of the bus; the
sections on the modules name the rest.

## Plan

Done, in this order: `SessionLock`, `ExecutionLease` and its proofs, `TurnMessage`, `ApprovalFlow` and
its proofs, `ModelSpending`, `TurnConnect`, `RefreshRotation`, `TurnRuntime`, `ScheduledJobs`,
`UploadScan`, the proofs of all of these, `ModelSpending` last, and `Consent` and `FollowedTurn`
with their refinements.

Next modules, the most important first:

1. `PiiBreaker`: a breaker that replicas read and write in Redis without a lock. Question: can a
   success that was sent before it opened close it again?
2. `SandboxBinding`: create, record, replace and kill under the lease, with the provider as an actor.
3. `MailOutbox`: a claimed queue, close to the one of `UploadScan`, with at-least-once delivery.
4. The progress queue as a second writer in `TurnMessage`; `PolicyCache`; `SkillRevisions`;
   single-use challenges.

Next proofs:

1. `TurnMessage`: an abstract reply (in progress, then one outcome) that it implements, outside what
   `late` and the reopened row of `message_swept` except.
2. `RefreshRotation`: an abstract right that moves from token to token; `OneRight` is most of it.
