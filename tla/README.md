# Nimora: specification and verification

Nimora is a desktop companion whose agent works unattended: *Auto Mode* runs
Provider turns in the background, on real files, under a policy, and promises
that work which left the machine is neither forgotten nor silently repeated.
Around it the user's *automations* react to events, and the pet acts on its own.
This directory holds TLA+ models of the parts of the program where these promises
are kept or lost, the TLC configurations that check them and TLAPS proofs about
them. `PROJECT.json` maps every definition to its lines of source, and lists the
runs, their mutants, the findings, the hazards and the theorems.

## 1. The system

A Rust workspace (about 89 500 lines with tests), a Tauri desktop application,
a command line and a TypeScript front end. The desktop is a single instance; the
command line is another process on the same SQLite database.

| part | state it keeps | operations | what must be true of it |
|---|---|---|---|
| Auto Mode pipeline (`crates/agent-auto-host`) | a continuation in the memory of an *executor* | recover, resume, preflight, begin, call, commit, quarantine, host control | a lost result is never replayed; two executors never own one turn; files the policy was not bound to end the running |
| Auto Mode rows (`crates/persistence-sqlite`, `auto_mode_*`, `workspace_snapshot_store`) | session, checkpoint, turn attempt, workspace snapshot | one transaction per commit, compare-and-swap on timestamp and sequence | the two lifecycles agree; an attempt leaves only with its checkpoint; terminal is final |
| lifecycles and budgets (`crates/agent-runtime`) | `AgentTask`, `AutoModeSession` | transition, account, evaluate, pause, resume, complete | only legal edges; no call over the cycle budget |
| jobs (`auto_mode_jobs.rs`, `auto_mode_runner.rs`) | registry, control cells, runner threads | start, pause, cancel, drain, isolate, report | live jobs are registered; published outcomes are durable and final; told to stop, runners end |
| desktop commands, safe mode (`src-tauri/src/lib.rs`) | safe-mode flag | the callers of the two parts above | nothing starts while draining |
| command line (`apps/cli`) | what it read | `goal auto pause / resume / cancel` | it may lose the desktop's result, never its turn |
| event outbox (`persistence-sqlite/src/lib.rs`) | `event_outbox` rows, leases | publish, claim, acknowledge, fail, purge | leases exclude; no event is lost; retries end |
| Goals, grants, context cache | rows | create, revise, issue, revoke | seen from a turn as bindings that may change |
| event bus (`crates/runtime-app`) | bounded queues, one per subscriber | subscribe, publish, drain, pop, cancel | a slow subscriber is told what it missed, and where |
| pet (`crates/runtime-core/src/pet.rs`, `crates/runtime-app`) | one snapshot, in memory and in the database; feedback timers; the decision of the autonomy thread | touch, care, drag, act, direct, decide, apply, restart | it always loads again; no feedback stays for ever; its budget holds |
| automations (`crates/automation-*`, `automation_*.rs`, `src-tauri/src/lib.rs`) | catalog, run, approval and Agent journals, leases, cost ledger; listening threads; pending confirmations | enable, listen, approve, admit, run, confirm, cancel, reconcile, recover | stops reach every thread; an approval is used once; every call is paid for |
| skills (`crates/skill-*`, `skill_*.rs`, `src-tauri/src/lib.rs`) | package directories, the row of what is authorized, approval journal, history; the host, listening threads, active executions | install, roll back, authorize, enable, run, approve, reject, cancel | a worker runs what was enabled; stops and cancellations reach it; an approval is used once; the two tables agree |
| user code | workers, approvals | run, record | - |
| asset installer, backups | staged directories, copies | install, activate, roll back | a crash leaves the old or the new version |
| sensors, lifeform, windows, authoring, front end | presentation | - | - |

Components interact through the database (desktop, command line, restart), through
shared memory under a mutex (the main thread and the runners), through an atomic
flag that a Provider call polls (cancellation), and through the files of the
workspace. What is hard: several executors and a second process on rows guarded
only by compare-and-swap; crashes between an attempt and its result; a wall clock
used as a version and allowed to go back; runners that are given up and come back;
transactions that fail. The full list, line by line, is `hazards` in `PROJECT.json`.

## 2. Modules

| module | what it is |
|---|---|
| `AttemptLedger` | abstract: attempts are issued one at a time, call at most once, are concluded once |
| `AutoModeTurns` | the durable turn pipeline of one session; implements `AttemptLedger` |
| `AutoModeCli` | composes `AutoModeTurns` with the commands of the second process |
| `AutoModeJobs` | the job registry, the runner threads and the main thread |
| `Outbox` | the transactional event outbox |
| `RuntimeEventBus` | the event bus and its subscribers |
| `ApprovalGate` | abstract: work begins under a grant in force, once |
| `Automations` | live runs of an automation, from the event to the bill; implements `ApprovalGate` |
| `PetRuntime` | the durable pet, its timers and the autonomy thread |
| `Skills` | one skill from its installation to the history of its executions; implements `ApprovalGate` |
| `AutoModeTurns_proofs`, `AutoModeCli_proofs`, `AutoModeJobs_proofs`, `Outbox_proofs`, `RuntimeEventBus_proofs`, `Automations_proofs`, `PetRuntime_proofs`, `Skills_proofs` | theorems |
| `MC*` | small instances for TLC |

### AutoModeTurns

`session`, `ckpt`, `attempt` and `snapshot` are rows: the columns that some guard
compares, and nothing else. `disk` and `goal` are the world outside; `run[e]` is
what executor `e` holds in memory, its `phase` being the place in the code; `calls`
and `settled` are history. Executors are the runner thread of a job and the
synchronous `resume_auto_mode_turn` command, which the job registry does not
exclude, so the model has a set of them.

Every SQLite transaction is one action, and so is every read on a connection of
its own: `recover` is `RecoverSession`, `RecoverAttempt`, `RecoverSnapshot`,
`RecoverCheckpoint`, then `CommitResume`. `execute` is `Preflight`, `BeginAttempt`,
`CallProvider` (or a refusal, or a pause by budget), `ProviderReturns`,
`CommitTurn`, and on failure `Quarantine`. `Crash` empties memory; `RestorePause`
and `RestoreAttempts` are the two steps of the startup. A clock reading is any
member of `Times` and is kept where the code keeps it: the session's version is
the time of its last write, so two writes in one millisecond are one version.

The fingerprint of a workspace snapshot covers its revision and its parent, so the
policy, bound to the first one, matches revision 1 and no other (`PolicyBound`).

Messages are abstracted to the tool-call identities they use, because reusing one
is what makes a commit refuse an outcome; the rest of a message, context
compaction and the response cache change what is sent and not when.

### AutoModeCli

The three commands read the session, decide, and write it back with a
compare-and-swap on its timestamp only. `goal auto resume` compares the files with
the newest snapshot in between, before it looks at the status it read.

### AutoModeJobs

`jobs` and `active` are the registry; `runner[j]` is the thread of a job; `row[s]`
is the durable side, one record per session that every durable write compares and
swaps - the view of `AutoModeTurns` that a runner has. Registry calls are single
steps, as they hold the mutex; each reads the clock first. `main` is the main
thread: Tauri commands that are not async run on it one at a time and block while
it drains. `StopDraining` is both ends of `wait_for_idle`: all runners ended, or
the timeout passed and `mark_active_indeterminate` isolates the rest. `late`
remembers the jobs whose outcome a clock gone back kept out of the registry; two
properties except exactly these.

### Outbox

`row[e]` is the row of an event, `inbox[c][e]` the delivery a consumer has in
memory, `stamp[c]` the time it read for its next call: a call carries `now_ms` and
may reach the database much later, so `stamp` lags behind `clock`. The product has
no outbox consumer yet; consumers are modelled from what the repository offers
them, with one process per consumer name.

### RuntimeEventBus

`events` is the shared buffer, `subscriptions[i]` what the bus keeps for a
subscriber. Every operation holds the one mutex and is one action. `stream[i]`,
`told[i]` and `received[i]` are history: what the subscriber asked for, how much it
has been given or told it lost, and the places at which it believes to be. An event
is its number and its type.

### Automations

One automation; the runs are those of its event sessions, of the user's own
commands and of approvals. `enabled`, `journal`, `lease`, `approval` and `task` are
rows: the catalog, the run journal, the leases, the approval journal, and for each
attempt of a run its Agent journal row and its cost ledger row together with the
calls it made. `thread[p]` is what a thread is doing, `p` a listening thread or the
main thread, `pc` being the place in the code; `registered` is
`automation_event_sessions`, `waiting` is `pending_agent_tools`, `revoked` the
cancelled tokens of Agent tasks. Each transaction is an action of its own, so that a
crash or another thread may come between any two; `Recover*` are the four
repositories a startup settles one after the other, in the order of
`DesktopState::open`. What runs out (approvals, leases, confirmations) may do so at
any reading of the clock. A run at a risk carries one Agent action with retries, one
without a risk carries pet commands. Costs are counted in units of one reservation:
the *bill* of a task is what its calls really cost, `cost` and `actual` are what the
ledger row says. `provider_step` calls the Provider and looks at the usage afterwards,
so a task goes on only while its bill is within the reservation, but one that failed may
have cost more. A row in doubt is settled by the user, at an amount that
`reconcile_indeterminate_cost` compares with nothing (`Reconcile`); `reconciled` marks
such rows, as the table `automation_cost_reconciliation` does.

`ApprovalGate` is what an approval promises. The refinement maps the approval row to
a decision and "the journal knows the run" to *begun*.

### PetRuntime

`pet` is the snapshot with the fields that decide transitions: state, feedback
generation, autonomous intent and its end, the posture to resume, the next due time
and the token bucket. `PetRuntimeService::update` (change a copy, validate it, save it, then
publish it) is `Update`, so a command that validation refuses is disabled.
`DecideTick` and `ApplyTick` are the two holds of the lock in
`tick_autonomy_with_lifeform`; everything may happen between them. `timers` are the
threads of `schedule_pet_feedback_finish`. Which plan the autonomy picks (vitals,
rotation, the desktop) is a choice among `Plans`; the policy is any of `Policies` at
each tick, as the profile and the presence of the user change it. Durations are one
tick of the clock, which may be set back.

### Skills

One skill. `active` and `backups` are directories, `row`, `journal` and `history` the
tables `skill_state`, `skill_approval_journal` and `skill_execution_history`; `host` is
the record of the `SkillHost`, `registered` the thread in `skill_event_sessions`,
`revoked` the cancelled tokens of executions. `thread[p]` is what a listening thread or
the main thread is doing. A rename, a row and a look at a token are steps of their own,
and each write may fail: an install is `Install`, `Place`, `SaveReplaced`, `Rebuild`; a
rollback `Rollback`, `Restore` and the same two; an execution `Begin` (read the
package), `Lease` (wait for the host, compare), `WorkerEnds`, and then either `Insert`,
`Remember` (a plan at a risk is queued) or `Check`, `Act` for each command and the Agent
task, and `Record`. `Approve` carries out a queued plan by the same steps on the main
thread, and ends with `Finish`. The mutex of the host is held while a worker runs
(`HostFree`). `Rebuild` passes a package over that cannot be loaded, and may fail before
the host is replaced, when a row cannot be read: the command returns an error, the row
is saved, and the old host goes on. `behind`, a history variable, says that this
happened since the last rebuild that got through. `step` counts commands; which commands
they are is left out. `acted` is history: the executions that had an effect after they
were queued.

## 3. Runs

| run | instance | shows |
|---|---|---|
| `turns_safety` | 2 executors, 3 times, deadline 2, 2 cycles, 2 call identities, 2 file contents, storage faults, both initial tasks | type invariant, five safety invariants, an action property, the refinement |
| `turns_end` | the same with 3 checkpoints and a `Running` first task, fairness | every turn that was begun ends |
| `cli` | 2 executors and the command line, 2 times | the refinement of the ledger, with a second writer |
| `jobs` | 2 jobs, 2 sessions, 2 times, batches of 2 | registry, control, outcomes |
| `jobs_end` | the same, one time, fairness | controlled runners end |
| `outbox` | 2 events, 2 consumers, lease 2, retry delay 1, 2 attempts, time to 4 | leases, losses, retries |
| `event_bus` | 2 subscriptions, 2 types, capacities 1 and 2, 4 events | type invariant, no silent loss, gaps in place |
| `automations` | 2 runs, 2 listening threads, 2 attempts, 2 actions, a budget of one reservation, amounts to twice that, one refused write, one crash | invariants about threads and costs, the refinement of `ApprovalGate` |
| `pet` | 5 actions, 3 policies, time to 3, set back once, 2 feedbacks, one refused write | loads again, feedback ends, budget |
| `skills` | 2 executions, 2 listening threads, 2 versions, plans of 2 commands and an Agent task, 1 pending plan | invariants about workers, threads, tables and packages, the refinement of `ApprovalGate` |
| two violation runs | see section 6 | disagreements of code and documents |

The properties, in the words of the code:

- `UnsettledIsRecorded`, `OneCallPerCheckpoint`: a Provider call whose result is
  not durable is the one the attempt row records; no checkpoint is offered twice.
- `NoSharedContinuation`: of two racing recoveries one is given the turn.
- `QuarantineIsResolvable`: an attempt of unknown outcome can still be decided by
  the user: its checkpoint is current and neither lifecycle is terminal.
- `LifecyclesAgree`: session and task, written together, are never half-written.
- `DriftedSessionStaysPaused`: a candidate read before a workspace drift is not
  resumed after it - but for a drift in the very millisecond of the candidate,
  since `commit_resume` compares a timestamp and not the snapshot revision.
- `LiveJobsAreRegistered`, `ControlIsPublished`, `OutcomesAreDurable`,
  `EndedRunnersAreReleased`, `OutcomesAreFinal`: what the registry shows is what
  the runner is told, what is durable, and what stays.
- `OneLiveLease`, `NothingLost`, `FailuresAreBounded`, `StaleReportsAreRejected`: the
  outbox delivers at least once and exclusively.
- `NothingLostSilently`, `GapsAreInPlace`: a subscriber can account for its whole
  stream, and knows between which two events the missing ones lie.
- `ListenersAreControlled`: a thread that is not cancelled is the registered one,
  however late its predecessors end.
- `CallsAreCharged`, `CommittedWithinBudget`, `OneTaskPerAction`: no call without its
  journal row; until the user reconciles it, the ledger holds for it exactly its bill,
  when that was within the reservation, or the whole reservation, through retries,
  refused writes, crashes and restarts. What the ledger commits in a day exceeds the
  budget by what users entered above reservations (`Excess`) and by nothing else. One
  task per action reaches the Provider.
- `ImplementsApprovalGate`: no approval is used twice, or after it was refused,
  whenever the process dies and whatever the restart makes of the rows.
- `FeedbackHasItsTimer`, `StartsWithinBudget`: what the pet shows as a reaction ends;
  what it begins on its own is bounded by capacity and refills alone. The `TypeOK` of
  the pet includes the validation that a load at the next start applies.
- `WorkersRunWhatIsEnabled`, `SessionsAreControlled`: a worker runs the version the user
  authorized and enabled, however the package is replaced between its reading and its
  lease, but while a command is between row and host, or after one whose rebuild failed;
  whoever listens is registered and can be stopped.
- `TablesAgree`: journal and history, written one after the other by several threads,
  do not contradict each other, and a late outcome overwrites neither.
- `InstalledIsRecoverable`: the package of an installed skill is in place or in a backup,
  whichever rename failed.

**Bounds.** `MaxSeq`, `MaxRev`, `MaxTime`, `MaxClaims` and `MaxBatch` (outbox) only
bound exploration; `MaxCycles`, `MaxAttempts` and `MaxBatch` (jobs) are parameters of
the code. Two executors are enough for a race, since every guard concerns one executor
and the rows; the proofs lift the number. Three times with a deadline at the second give
readings before, at and after every comparison. `MaxSeq = 5` admits a resume, two turns,
a pause or a drift, and a second recovery. `MaxRev = 2` admits the one successor that
changes what the policy matches; a third revision is to the second as the second is to
itself. Two claims that expire and one that reports need `MaxClaims = 3`. The `cli` run
keeps two times, one cycle and a Goal that is only replanned, not paused, because the
composition is large. `InitialTasks` has both statuses: the product creates `Planning`,
which recovery refuses (section 6), and the crate's own tests start from `Running`; with
`Planning` alone nothing would run. Two listening threads are the stopped one and its
replacement; a third could only start when one of them is gone. Two runs are enough for
every guard that looks at another run (the lease, the budget, the registered approval);
a budget of one makes the second reservation fail. `MaxAmount = 2` has bills and entered
amounts below, at and above a reservation and the budget. One refused write is explored,
before a crash or during the recovery that follows it, and one crash anywhere. Five
actions and two feedbacks give the pet a state of each kind (idle, matching and not
matching an intent, edge, feedback) and a late timer. In `skills` crashes and failed
writes are not bounded at all; two executions, two versions, and executions and installs
together (`MaxWork = 3`) are: an upgrade and its rollback under one execution, or two
executions of one version, one of which waits for its approval while the other runs.
Both together (2.8 million states, plans of one command) were explored once, without a
violation. `MaxPending` and `CrashThreshold` are parameters of the code; with one
pending plan the second is refused. Symmetry is used for executors, call identities,
contents, jobs, sessions, runs, executions, versions and consumers in safety runs only.

`CHECK_DEADLOCK FALSE` is set for turns, cli, jobs, automations and the event bus: a
session that ended, or a set of jobs, runs or identities that are all used up,
legitimately stops. The outbox, pet and skills runs check deadlock.

**Fairness.** `turns_end` assumes only that an executor inside a turn takes its
next step: threads are scheduled, and `ProviderRegistry::complete` caps the timeout
of a call. `jobs_end` assumes that runner threads are scheduled and that the drain
ends, which its two-second timeout guarantees. Users, clocks, restarts and the
other process are never assumed to act.

Each property of a passing run has a mutant: a plausible slip in a mapped
definition (a dropped guard, a missing reset, an off-by-one) kept beside the
definition, which TLC finds to violate the property.

## 4. Proofs

Proved for every value of the constants that satisfies the named assumptions
(times and limits are naturals, the initial task is one of two, the names of
consumers, threads, runs and jobs differ from the ones that stand for nobody and
nothing, durations and capacities are positive, the sets that are counted finite):

- `AutoModeTurns_proofs`. `TypeCorrect`. `LedgerInvariant`: the inductive invariant
  `LedgerInv`. `UnsettledIsRecorded` is not inductive: an executor in `commit` may lose
  its attempt to a resolution, and whether its call is then forgotten depends on who
  else owns which identity. `LedgerInv` adds that identities in memory and in the row
  were issued, that no two owning executors carry the same one, that one that has not
  called is not among the called, and that *settled* is exactly what was issued minus
  the outstanding row. From it follow `CallsAreRecorded` (`UnsettledIsRecorded`),
  `Refinement` (`ImplementsLedger`: each action is a step of the ledger or a stutter)
  and, through the refinement, `AttemptsAreKept`. `SequenceInvariant`: the inductive
  invariant `SequenceInv`. Session versions repeat, so only the checkpoint sequence
  keeps two executors apart: no sequence in memory or in the history is ahead of the
  row, and at the current sequence an attempt stands for every call made or about to be
  made. Without the second half a second `begin` at a called checkpoint could not be
  excluded. From it: `ContinuationsAreExclusive` (`NoSharedContinuation`) and
  `CheckpointsAreCalledOnce` (`OneCallPerCheckpoint`). `QuarantineInvariant`: the
  inductive invariant `QuarantineInv`. Of the transactions that move the checkpoint only
  the commit of the turn and the user's resolution look at the attempt table; that no
  other is made while there is an attempt follows from who could make it: an executor at
  a turn boundary would hold the same continuation, which `SequenceInv` excludes, and a
  recovery that has looked for an attempt and can still resume a paused session would
  have found it, because a session with an attempt is paused by a restart only, and a
  restart empties every memory. From it: `LifecyclesConverge` (`LifecyclesAgree`) and
  `QuarantineStaysOpen` (`QuarantineIsResolvable`). `DriftInvariant`: versions of the
  session are readings of the clock and only grow, so a candidate that saw the first
  snapshot read the session no later than the drift. From it: `DriftIsHeeded`
  (`DriftedSessionStaysPaused`).
- `AutoModeCli_proofs`. A command writes the session row and the snapshot and nothing
  else (`CommandWrites`), so what does not rest on them survives: the ledger's invariant and
  the sequence's. From them, in the composition: `CliRefinement`
  (`ImplementsLedger`), `CliCallsAreRecorded`, `CliContinuationsAreExclusive` and
  `CliCheckpointsAreCalledOnce`. `LifecyclesAgree` and `QuarantineIsResolvable` do rest on
  the session row and are claimed of the pipeline alone: `goal auto cancel` writes one
  lifecycle and asks for no attempt.
- `Outbox_proofs`. `TypeCorrect`; `OutboxInvariant`, whose invariant `OutboxInv`
  relates memory and row (`LiveLeaseIsRecorded`), needs that readings are never in
  the future (`StampsArePast`), since a claim may only take a lease that has run out
  in real time, and counts each failure against a claim (`ClaimsPayForFailures`),
  without which the attempt limit bounds nothing. From it: `LeasesAreExclusive`,
  `EventsAreKept`, `RetriesEnd`. A second invariant, `OwnersHoldTheNewest`, says that
  the owner of a lease holds the newest delivery or nothing; `acknowledge` and `fail`
  compare the owner and not the attempt, so `StaleReportsChangeNothing`
  (`StaleReportsAreRejected`) needs it.
- `RuntimeEventBus_proofs`. `BusInvariant`: `BusInv` joins the type invariant, the two
  properties and the fact that an identity not handed out has no history, without
  which a new subscriber could inherit one. `NoSilentLoss` and `GapsAreLocated` follow
  for any number of subscribers, events, types and capacities; the lemmas
  `OfferedFacts` and `TakenFacts` say what the queue operators do.
- `AutoModeJobs_proofs`. `JobsInvariant`: the inductive invariant `JobsInv`, for any
  number of jobs, sessions and readings of the clock. `LiveJobsAreRegistered` needs its
  converse, that a reservation names a live job of its session (`ReservationsName`), or
  a late runner could release that of its successor. `OutcomesAreDurable` needs the
  rows: an end is reported only by who committed it (`OutcomesAreReached`), and nobody
  reopens it, because no attempt is open on a row that is over (`SettledRowsAreClosed`)
  and a second runner of the session never holds the continuation that is current
  (`HoldersAreApart`). What a runner does in any place of its code is summarised once
  (`RunnerStepMoves`): from it follow types, registry and rows; the steps of the main
  thread have a lemma each. From it: `TypeCorrect`, `Registered`, `Published`,
  `Durable`, `Released`, and the action property `Final` (`OutcomesAreFinal`).
- `Skills_proofs`. `SkillsInvariant`: `SkillsInv` is the types and three parts.
  `FilesInv`: what the main thread moved aside or is about to bring back is there, which
  `InstalledIsRecoverable` needs between two renames. `HostInv`: the host agrees with
  the row except while a command rebuilds it or after a rebuild that failed, a worker
  has the host to itself and nobody listens while it is down; `WorkersRunWhatIsEnabled`
  and `SessionsAreControlled` follow. `TablesInv`: each thread knows what journal and
  history say of the execution it holds (`HolderKnows`), and only who is about to
  remember that it queued a plan shares it, with who decided it (`HoldersAreApart`);
  without these `TablesAgree` does not survive a late `Remember`. A step executes
  (queues, settles, grants, decides, ...), operates on the package or restarts; each
  kind maps to a step of `ApprovalGate` or stutters (`SkillsImplementApprovalGate`).
- `Automations_proofs`. `AutomationsInvariant`: `ListenInv` (`ListenersAreControlled`
  and that nobody listens before the startup is over), `RunInv` (each thread knows what
  the rows say of the run it carries, no two carry one, the lease is one) and `TaskInv`
  (for each attempt what its journal row, its ledger row and the memory agree on, at
  most one of them submitted, the budget). `CallsAreCharged` alone is not inductive: a
  settlement may lower the charge, so it must be known to whom the task belongs and that
  it called nobody since. `CommittedWithinBudget` compares sums of amounts that a user
  may enter at any size. Proved is a bound on the number of attempts that are charged at
  all (`ReservationsFit`): a reservation adds one attempt to a set that is smaller than
  the budget, and every other step keeps the set or makes it smaller. An attempt that is
  charged has one first unit (`FirstUnits`), and what it is charged beyond that a user
  entered (`TaskKnown`), so the sum is at most the budget and `Excess`. From the
  invariant: `CallsArePaid`, `BudgetHolds`, `ActionsCallOnce`, `ListenersCanBeStopped`,
  and the refinement `RunsImplementApprovalGate`.
- `PetRuntime_proofs`. `PetInvariant`. The bound of `StartsWithinBudget` is on starts
  and time, the code keeps tokens and one due time; `BudgetInv` says what joins them:
  there is a due time that passed and a number of refills so that the refills took their
  time up to it, the next is due one refill after it, and starts and tokens together are
  no more than the largest capacity and these refills. `TickKnown` says that a decision
  carries the reading of a clock that was, however late it is applied. From it:
  `TypeCorrect`, `FeedbacksEnd`, `AutonomyIsPaid`. The proof needs that the clock can be
  read at all (`MaxTime` is positive).

Each proof is laid out as a type lemma per kind of step, a lemma per action or
group of actions for the invariant, and a short temporal theorem. The inductive
invariants were checked by TLC on the instances of section 3 before they were proved.

Only model-checked: liveness (`TurnsEnd`, `ControlledRunnersEnd`). Liveness under
fairness, `ENABLED` and induction over data are beyond the provers used here.

## 5. Not modelled

Auto Mode: rows are created whole (a crash inside `start_unattended_auto_mode`, which
writes five of them over five connections, is in the hazards); one session per
pipeline (the unique index of running sessions per Goal appears as a write that may
fail); grants; batches of tools inside a turn; the response cache; usage counters
except cycles; the steps of safe mode other than the drain, the automation sessions
and the confirmations. Two processes under one outbox consumer name would share
leases; names are assumed distinct.

Skills: validation of manifests and inventories, the protocol of a worker, Agent tools,
the contents of plans (several Agent tasks are one), the deletion of history, other
skills beside the one, a package replaced by the same version (versions stand for
contents). The
recovery mode of a process whose database is unavailable works on empty stores in
memory; it is not modelled for any component.

Automations: the matching of events and conditions, permissions and the contents of a
plan (its second validation is a choice to fail), compensations, the deletion of
terminal history, the limits on stored approvals, and more than one confirmation in a
turn. All runs fall into one day of the ledger. Nothing is claimed of the bills
themselves: a call may cost more than its reservation before the usage is refused
(`coordinator.rs:181`), and what a user enters for it may be less than it cost or more
than the budget (the repository's own test settles 135 against a reservation of 80 and a
daily budget of 100, `automation_governance.rs:1055`). The pet: vitals, inventory,
relationship, positions and windows, and the `dragging` flag of the host. Profiles and
the safety snapshot are sequential edits of one value. The other components, and why
they are left out or when they follow, are in `PROJECT.json`.

## 6. Where the code and its documents disagree

| run | what happens |
|---|---|
| `first_recovery` | the only checkpoint production code creates is `Planning`; `recover` cannot pause a `Planning` task, so the job of a fresh unattended session fails |
| `agent_cancel` | cancelling an Agent task leaves its confirmation in memory; confirming it runs the tool of the cancelled task |

Each run states the sentence of the document as a property and TLC shows a
behaviour of the code that violates it; the quotations are in `PROJECT.json`.

Known divergences without a run of their own. The modules define a property for each,
which TLC violates when it is given as the INVARIANT or PROPERTY of the module's MC
configuration:

| definition | what happens |
|---|---|
| `AutoModeTurns.LiveTurnsAreNotQuarantined` | a slow `recover` quarantines the attempt of a turn that is being executed |
| `AutoModeTurns.ActiveAttemptIsOwned` | an outcome `commit` refuses before its transaction leaves an Active attempt behind |
| `AutoModeCli.CallsOnBoundWorkspace` | `goal auto resume` moves the snapshot under a running session, and the next turn is called on files the policy was not bound to |
| `AutoModeJobs.CommittedTurnsAreRecorded` | turns committed in a batch that then fails are missing from the job's counters |
| `AutoModeJobs.CancelAllRejectsAsAWhole` | cancelling all jobs stops half-way when the clock went back |
| `PetRuntime.CareEndsAutonomy` | care is refused while the pet acts on its own from an edge posture |
| `PetRuntime.DragOutlastsAutonomy` | the autonomy thread applies a decision that is older than a drag, and ends the drag |
| `Skills.CommandsAreEnough` (with `AgentTasks = FALSE`) | every execution asks for an Agent identity after its commands; a skill without Agent tasks fails after all its effects |
| `Skills.StoppedSessionsAreRevoked` | an execution that registers after its thread was stopped is not cancelled |
| `Skills.CancelledPlansAreNotRun` | an execution cancelled just before its plan is queued can still be approved and runs |
| `Skills.DisabledSkillsDoNotRun` | a skill is disabled, the rebuild of the host fails before the host is replaced, and the old host leases the disabled skill (EXT-022, docs/FUNCTIONAL_TEST_PLAN.md:548) |
| `Skills.CrashesAreRemembered` | every rebuild of the host forgets its crashes; a skill is never quarantined |

## 7. Plan

Done: the turn pipeline with its abstraction, the command line, the jobs, the outbox, the
event bus, automations and skills with the approval gate, the pet, and theorems for
every safety property the runs check. In order:

1. `SafeMode`: the nine convergence steps, their failures, reversible window
   transitions, and leaving safe mode.
2. `SessionCreation`: the five creates of an unattended start with crashes between.
3. `Grants` composed with batches; user programs and their sessions.
4. `AutoModeJobs` shown to drive `AutoModeTurns` by a refinement of its `row`.
