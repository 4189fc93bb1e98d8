--------------------------- MODULE AutoModeTurns ---------------------------
(***************************************************************************)
(* The durable turn pipeline of Auto Mode, for one session: the SQLite     *)
(* rows it owns (session, checkpoint, turn attempt, workspace snapshot)    *)
(* and the executors of the desktop host that read them, call the Provider *)
(* and write them back.                                                    *)
(*                                                                         *)
(*   crates/agent-auto-host/src/lib.rs        recovery, turn, commit       *)
(*   crates/persistence-sqlite/src/auto_mode_*_store.rs    transactions    *)
(*   crates/agent-runtime/src/{auto_mode,auto_execution,lib}.rs  lifecycle *)
(*                                                                         *)
(* An executor is one thread that holds a continuation in memory: the      *)
(* runner of a desktop job or the synchronous resume_auto_mode_turn call.  *)
(* Nothing here limits them to one at a time; the database has to.         *)
(* Every SQLite transaction is one step.  A clock value is read where the  *)
(* code reads it and carried as the code carries it, and the wall clock is *)
(* not assumed to advance: each reading is any member of Times.            *)
(***************************************************************************)
EXTENDS Integers

CONSTANTS
    Executors,      \* threads that may hold a continuation
    Times,          \* readings of the wall clock, in milliseconds
    Deadline,       \* last instant within the task's max_elapsed_ms
    MaxCycles,      \* policy.max_cycles of the session
    CallIds,        \* tool-call identities a Provider may answer with
    Contents,       \* what the workspace files can be
    GoalStates,     \* what may become of the Goal, for this session
    InitialTasks,   \* task statuses a first checkpoint is created with
    StorageFaults,  \* whether a quarantine or commit write may fail
    MaxSeq,         \* bound: last checkpoint sequence explored
    MaxRev          \* bound: last workspace snapshot revision explored

ASSUME TimesAssumption == Times \subseteq Nat /\ Deadline \in Nat
ASSUME LimitsAssumption ==
    MaxCycles \in Nat /\ MaxSeq \in Nat /\ MaxRev \in Nat
ASSUME InitialTasksAssumption == InitialTasks \subseteq {"Planning", "Running"}
ASSUME GoalStatesAssumption ==
    "active" \in GoalStates /\ GoalStates \subseteq {"active", "paused", "revised"}
ASSUME StorageFaultsAssumption == StorageFaults \in BOOLEAN

VARIABLES
    session,   \* row of auto_mode_session
    ckpt,      \* row of auto_mode_checkpoint, the task included
    attempt,   \* row of auto_mode_turn_attempt, or NoAttempt
    snapshot,  \* newest row of agent_workspace_snapshot
    disk,      \* the workspace files
    goal,      \* the Goal row: active, paused, or its plan revised
    host,      \* the desktop process, and the clock reading of its startup
    run,       \* what each executor holds in memory
    nextId,    \* next fresh attempt identity
    calls,     \* history: Provider invocations, by attempt and checkpoint
    settled    \* history: attempts whose result was committed or resolved

durable == <<session, ckpt, attempt, snapshot>>
world   == <<disk, goal>>
history == <<nextId, calls, settled>>
vars    == <<durable, world, host, run, history>>

SessionStatus == {"Running", "Paused", "Completed", "Cancelled"}
TaskStatus    == {"Planning", "Running", "Paused", "Succeeded", "Cancelled"}
Phases ==
    {"idle",        \* holds nothing
     "attempt",     \* recover: session read, about to look for an attempt
     "snapshot",    \* recover: no attempt seen, about to read the workspace row
     "checkpoint",  \* recover: about to read the checkpoint and the files
     "recovered",   \* a Paused candidate, about to be resumed
     "held",        \* a Running continuation at a turn boundary
     "ready",       \* workspace checked, about to begin an attempt
     "begun",       \* attempt row written, Provider not called yet
     "inflight",    \* Provider or Tool call in progress
     "commit",      \* outcome known, about to be committed
     "quarantine"}  \* failed, about to mark the attempt indeterminate
Outcomes == {"none", "Continue", "Paused", "Completed"}

NoAttempt == [id |-> 0, seq |-> 0, expected |-> 0, status |-> "None", at |-> 0]

IdleTurn ==
    [phase |-> "idle", updated |-> 0, cycles |-> 0, seq |-> 0, used |-> {},
     rev |-> 0, files |-> {}, goal |-> "active", now |-> 0, id |-> 0,
     outcome |-> "none", reply |-> {}]

\* The executor lets go of its continuation; what is durable stays as it is.
Drop(e) == run' = [run EXCEPT ![e] = IdleTurn]
Goto(e, phase) == run' = [run EXCEPT ![e].phase = phase]
At(e, phase) == host.phase = "up" /\ run[e].phase = phase

\* AgentTask::ensure_elapsed: the task's wall-clock budget is spent.
Elapsed(now) == now > Deadline

\* The fingerprint of a snapshot covers its revision and its parent, so the
\* policy, bound to revision 1, matches revision 1 only.
PolicyBound(rev) == rev = 1

Largest(m, n) == IF m >= n THEN m ELSE n

\* The WHERE clauses every executor transaction carries: the session row is
\* in the expected status and has not been rewritten, nor has the checkpoint.
SessionIs(status, updated) == session.status = status /\ session.updated = updated
CheckpointIs(seq) == ckpt.seq = seq

-----------------------------------------------------------------------------
\* start_unattended_auto_mode, before its runner: the session is written
\* Paused one millisecond after the task was created (time 0).

Init ==
    /\ session = [status |-> "Paused", updated |-> 1, cycles |-> 0]
    /\ \E task \in InitialTasks, content \in Contents :
           /\ ckpt = [seq |-> 1, task |-> task, updated |-> 1, used |-> {}, rev |-> 1]
           /\ snapshot = [rev |-> 1, content |-> content, at |-> 0]
           /\ disk = content
    /\ attempt = NoAttempt
    /\ goal = "active"
    /\ host = [phase |-> "up", now |-> 0]
    /\ run = [e \in Executors |-> IdleTurn]
    /\ nextId = 1
    /\ calls = {}
    /\ settled = {}

-----------------------------------------------------------------------------
\* AutoModeRecoveryService::recover reads its rows over as many connections,
\* then scans the files.  (The Goal row, read between the attempt and the
\* snapshot, is read here with the snapshot, the files with the checkpoint.)

RecoverSession(e) ==
    /\ At(e, "idle")
    /\ ckpt.seq < MaxSeq
    /\ session.status = "Paused"
    /\ \E now \in Times :
           run' = [run EXCEPT ![e] =
                     [IdleTurn EXCEPT !.phase = "attempt", !.now = now,
                                      !.updated = session.updated,
                                      !.cycles = session.cycles]]
    /\ UNCHANGED <<durable, world, host, history>>

\* An attempt that is still Active is marked indeterminate, when the clock
\* allows; any attempt at all ends the recovery.
RecoverAttempt(e) ==
    /\ At(e, "attempt")
    /\ IF attempt = NoAttempt
       THEN Goto(e, "snapshot") /\ UNCHANGED attempt
       ELSE /\ Drop(e)
            /\ attempt' =
                 IF attempt.status = "Active" /\ run[e].now >= attempt.at
                 THEN [attempt EXCEPT !.status = "Indeterminate", !.at = run[e].now]
                 ELSE attempt
    /\ UNCHANGED <<session, ckpt, snapshot, world, host, history>>

RecoverSnapshot(e) ==
    /\ At(e, "snapshot")
    /\ IF goal = "revised"
       THEN Drop(e)
       ELSE run' = [run EXCEPT ![e].phase = "checkpoint", ![e].goal = goal,
                               ![e].rev = snapshot.rev, ![e].files = {snapshot.content}]
    /\ UNCHANGED <<durable, world, host, history>>

\* The bindings that must still match, and the task that must be pausable:
\* AgentTask::transition has no edge from Planning to Paused.
Recoverable(e) ==
    /\ disk \in run[e].files
    /\ PolicyBound(run[e].rev) /\ PolicyBound(ckpt.rev)
    /\ \/ ckpt.task = "Paused"
       \/ ckpt.task = "Running" /\ ~Elapsed(Largest(run[e].now, ckpt.updated))

RecoverCheckpoint(e) ==
    /\ At(e, "checkpoint")
    /\ IF Recoverable(e)
       THEN run' = [run EXCEPT ![e].phase = "recovered", ![e].seq = ckpt.seq,
                               ![e].used = ckpt.used, ![e].files = {}]
       ELSE Drop(e)
    /\ UNCHANGED <<durable, world, host, history>>

\* AutoModeRecoveryService::commit_resume, one transaction over both rows.
\* The attempt table is not consulted again.
ResumableUnversioned(e) ==  \* mutant: UPDATE by identity only
    /\ run[e].goal = "active"
    /\ PolicyBound(run[e].rev)
    /\ run[e].now >= run[e].updated
    /\ ~Elapsed(run[e].now)

Resumable(e) ==
    /\ run[e].goal = "active"
    /\ PolicyBound(run[e].rev)
    /\ run[e].now >= run[e].updated
    /\ ~Elapsed(run[e].now)
    /\ SessionIs("Paused", run[e].updated)
    /\ CheckpointIs(run[e].seq)

CommitResume(e) ==
    /\ At(e, "recovered")
    /\ Resumable(e)
    /\ session' = [session EXCEPT !.status = "Running", !.updated = run[e].now,
                                  !.cycles = run[e].cycles]
    /\ ckpt' = [seq |-> run[e].seq + 1, task |-> "Running", updated |-> run[e].now,
                used |-> run[e].used, rev |-> run[e].rev]
    /\ run' = [run EXCEPT ![e].phase = "held", ![e].seq = @ + 1,
                          ![e].updated = run[e].now, ![e].now = 0,
                          ![e].goal = "active"]
    /\ UNCHANGED <<attempt, snapshot, world, host, history>>

\* A stale candidate, or a write that fails (another session of the goal may
\* be running: auto_mode_one_running_per_goal_idx).
ResumeFails(e) ==
    /\ At(e, "recovered")
    /\ ~Resumable(e) \/ StorageFaults
    /\ Drop(e)
    /\ UNCHANGED <<durable, world, host, history>>

\* The thread returns between two turns: the synchronous command after its
\* one turn, a runner whose setup or registry call fails.  The session stays
\* durably Running.
Release(e) ==
    /\ At(e, "held") \/ At(e, "ready")
    /\ Drop(e)
    /\ UNCHANGED <<durable, world, host, history>>

-----------------------------------------------------------------------------
\* preflight_workspace rescans the disk before every turn.

PreflightReady(e, now) ==
    /\ disk = snapshot.content
    /\ run' = [run EXCEPT ![e].phase = "ready", ![e].now = now, ![e].rev = snapshot.rev]
    /\ UNCHANGED <<session, ckpt, snapshot>>

\* commit_workspace_drift: pause, checkpoint and successor snapshot at once.
DriftCommittable(e, now) ==
    /\ snapshot.rev < MaxRev
    /\ now >= run[e].updated /\ ~Elapsed(now)
    /\ SessionIs("Running", run[e].updated) /\ CheckpointIs(run[e].seq)

PreflightDriftKeepsRunning(e, now) ==  \* mutant: the successor without the pause
    /\ disk # snapshot.content
    /\ DriftCommittable(e, now)
    /\ snapshot' = [rev |-> snapshot.rev + 1, content |-> disk, at |-> now]
    /\ Drop(e)
    /\ UNCHANGED <<session, ckpt>>

PreflightDrift(e, now) ==
    /\ disk # snapshot.content
    /\ DriftCommittable(e, now)
    /\ session' = [session EXCEPT !.status = "Paused", !.updated = now,
                                  !.cycles = run[e].cycles]
    /\ ckpt' = [seq |-> run[e].seq + 1, task |-> "Paused", updated |-> now,
                used |-> run[e].used, rev |-> snapshot.rev]
    /\ snapshot' = [rev |-> snapshot.rev + 1, content |-> disk, at |-> now]
    /\ Drop(e)

PreflightFails(e, now) ==
    /\ disk # snapshot.content
    /\ ~DriftCommittable(e, now) \/ StorageFaults
    /\ Drop(e)
    /\ UNCHANGED <<session, ckpt, snapshot>>

Preflight(e) ==
    /\ At(e, "held")
    /\ run[e].seq < MaxSeq
    /\ \E now \in Times :
           PreflightReady(e, now) \/ PreflightDrift(e, now) \/ PreflightFails(e, now)
    /\ UNCHANGED <<attempt, world, host, history>>

-----------------------------------------------------------------------------
\* AutoModeTurnCommitService::begin: the attempt row, before any call.

Beginnable(e) ==
    /\ run[e].now >= run[e].updated
    /\ attempt = NoAttempt
    /\ SessionIs("Running", run[e].updated)
    /\ CheckpointIs(run[e].seq)

BeginAttempt(e) ==
    /\ At(e, "ready")
    /\ IF Beginnable(e)
       THEN /\ attempt' = [id |-> nextId, seq |-> run[e].seq,
                           expected |-> run[e].updated, status |-> "Active",
                           at |-> run[e].now]
            /\ run' = [run EXCEPT ![e].phase = "begun", ![e].id = nextId]
            /\ nextId' = nextId + 1
       ELSE /\ Drop(e)
            /\ UNCHANGED <<attempt, nextId>>
    /\ UNCHANGED <<session, ckpt, snapshot, world, host, calls, settled>>

\* AutoModeTurnSupervisor::advance asks the session first: over the cycle
\* budget, or over the data classification, it pauses without a call.
AdmitPause(e) ==
    /\ At(e, "begun")
    /\ run' = [run EXCEPT ![e].phase = "commit", ![e].outcome = "Paused"]
    /\ UNCHANGED <<durable, world, host, history>>

\* ProviderRegistry::complete refuses before the adapter: cancelled, offline,
\* unknown Provider.
RefuseProvider(e) ==
    /\ At(e, "begun")
    /\ run[e].cycles < MaxCycles
    /\ Goto(e, "quarantine")
    /\ UNCHANGED <<durable, world, host, history>>

CallProviderUnbudgeted(e) ==  \* mutant: the cycle budget is not asked
    /\ At(e, "begun")
    /\ run' = [run EXCEPT ![e].phase = "inflight", ![e].cycles = @ + 1]
    /\ calls' = calls \cup {[id |-> run[e].id, seq |-> run[e].seq]}
    /\ UNCHANGED <<durable, world, host, nextId, settled>>

CallProvider(e) ==
    /\ At(e, "begun")
    /\ run[e].cycles < MaxCycles
    /\ run' = [run EXCEPT ![e].phase = "inflight", ![e].cycles = @ + 1]
    /\ calls' = calls \cup {[id |-> run[e].id, seq |-> run[e].seq]}
    /\ UNCHANGED <<durable, world, host, nextId, settled>>

\* The call, and the Tool batch it asks for, return.  The elapsed budget is
\* charged only now (account_provider_step, reserve_tool_call), against the
\* clock reading of the turn's start.
ProviderReturns(e) ==
    /\ At(e, "inflight")
    /\ \/ Goto(e, "quarantine")
       \/ /\ ~Elapsed(run[e].now)
          /\ \/ \E outcome \in {"Paused", "Completed"} :
                    run' = [run EXCEPT ![e].phase = "commit", ![e].outcome = outcome]
             \/ \E id \in CallIds :
                    run' = [run EXCEPT ![e].phase = "commit", ![e].outcome = "Continue",
                                       ![e].reply = {id}]
    /\ UNCHANGED <<durable, world, host, history>>

-----------------------------------------------------------------------------
\* AutoModeTurnCommitService::commit.  An outcome it finds inconsistent is
\* returned as an error before the transaction, and before the quarantine: a
\* pause the spent task cannot take, a tool-call identity the continuation
\* already holds (validate_checkpoint_messages).
OutcomeInvalid(e) ==
    \/ run[e].outcome = "Paused" /\ Elapsed(run[e].now)
    \/ run[e].outcome = "Continue" /\ run[e].reply \cap run[e].used # {}

RejectOutcome(e) ==
    /\ At(e, "commit")
    /\ OutcomeInvalid(e)
    /\ Drop(e)
    /\ UNCHANGED <<durable, world, host, history>>

Committable(e) ==
    /\ attempt.id = run[e].id /\ attempt.status = "Active"
    /\ PolicyBound(run[e].rev)
    /\ SessionIs("Running", run[e].updated)
    /\ CheckpointIs(run[e].seq)

SessionAfter == [Continue |-> "Running", Paused |-> "Paused", Completed |-> "Completed"]
TaskAfter    == [Continue |-> "Running", Paused |-> "Paused", Completed |-> "Succeeded"]

CommitTurnInPlace(e) ==  \* mutant: the checkpoint keeps its sequence
    /\ At(e, "commit")
    /\ ~OutcomeInvalid(e) /\ Committable(e)
    /\ session' = [session EXCEPT !.updated = run[e].now, !.cycles = run[e].cycles]
    /\ attempt' = NoAttempt
    /\ settled' = settled \cup {run[e].id}
    /\ run' = [run EXCEPT ![e].phase = "held", ![e].updated = run[e].now]
    /\ UNCHANGED <<ckpt, snapshot, world, host, nextId, calls>>

CommitTurnKeepsAttempt(e) ==  \* mutant: the attempt row is not deleted
    /\ At(e, "commit")
    /\ ~OutcomeInvalid(e) /\ Committable(e)
    /\ session' = [session EXCEPT !.updated = run[e].now, !.cycles = run[e].cycles]
    /\ ckpt' = [ckpt EXCEPT !.seq = @ + 1, !.updated = run[e].now]
    /\ Drop(e)
    /\ UNCHANGED <<attempt, snapshot, world, host, history>>

\* One transaction: session, checkpoint, and the attempt consumed.
CommitTurn(e) ==
    /\ At(e, "commit")
    /\ ~OutcomeInvalid(e)
    /\ Committable(e)
    /\ LET turn == run[e] used == turn.used \cup turn.reply
       IN  /\ session' = [session EXCEPT !.status = SessionAfter[turn.outcome],
                                         !.updated = turn.now, !.cycles = turn.cycles]
           /\ ckpt' = [seq |-> turn.seq + 1, task |-> TaskAfter[turn.outcome],
                       updated |-> turn.now, used |-> used, rev |-> turn.rev]
           /\ attempt' = NoAttempt
           /\ settled' = settled \cup {turn.id}
           /\ IF turn.outcome = "Continue"
              THEN run' = [run EXCEPT ![e] =
                             [turn EXCEPT !.phase = "held", !.updated = turn.now,
                                          !.seq = @ + 1, !.used = used, !.now = 0,
                                          !.id = 0, !.outcome = "none", !.reply = {}]]
              ELSE Drop(e)
    /\ UNCHANGED <<snapshot, world, host, nextId, calls>>

CommitFailsOnFaultOnly(e) ==  \* mutant: a conflict is not treated as an error
    /\ At(e, "commit")
    /\ ~OutcomeInvalid(e)
    /\ Committable(e) /\ StorageFaults
    /\ Goto(e, "quarantine")
    /\ UNCHANGED <<durable, world, host, history>>

\* A stale version or a failed write: the transaction rolls back.
CommitFails(e) ==
    /\ At(e, "commit")
    /\ ~OutcomeInvalid(e)
    /\ ~Committable(e) \/ StorageFaults
    /\ Goto(e, "quarantine")
    /\ UNCHANGED <<durable, world, host, history>>

QuarantineByDelete(e) ==  \* mutant: the failed attempt is forgotten
    /\ At(e, "quarantine")
    /\ Drop(e)
    /\ attempt' = IF attempt.id = run[e].id THEN NoAttempt ELSE attempt
    /\ UNCHANGED <<session, ckpt, snapshot, world, host, history>>

\* mark_indeterminate, whose own error nobody acts on.
Quarantine(e) ==
    /\ At(e, "quarantine")
    /\ Drop(e)
    /\ \/ /\ attempt.id = run[e].id /\ attempt.status = "Active"
          /\ attempt' = [attempt EXCEPT !.status = "Indeterminate", !.at = run[e].now]
       \/ /\ attempt.id # run[e].id \/ attempt.status # "Active" \/ StorageFaults
          /\ UNCHANGED attempt
    /\ UNCHANGED <<session, ckpt, snapshot, world, host, history>>

\* AutoModeHostControlService::commit, at a yielded boundary.  No attempt is
\* looked for.
ControlCommittable(e, kind, now) ==
    /\ now >= run[e].updated
    /\ kind = "Paused" => ~Elapsed(now)
    /\ PolicyBound(run[e].rev)
    /\ SessionIs("Running", run[e].updated)
    /\ CheckpointIs(run[e].seq)

HostControl(e, kind) ==
    /\ At(e, "held")
    /\ Drop(e)
    /\ \E now \in Times :
         IF ControlCommittable(e, kind, now)
         THEN /\ session' = [session EXCEPT !.status = kind, !.updated = now,
                                            !.cycles = run[e].cycles]
              /\ ckpt' = [seq |-> run[e].seq + 1, task |-> kind, updated |-> now,
                          used |-> run[e].used, rev |-> run[e].rev]
         ELSE UNCHANGED <<session, ckpt>>
    /\ UNCHANGED <<attempt, snapshot, world, host, history>>

-----------------------------------------------------------------------------
\* SqliteAutoModeAttemptResolutionRepository::resolve, asked by the user for
\* an attempt of an unknown outcome.

Resolvable(now) ==
    /\ attempt.status = "Indeterminate"
    /\ CheckpointIs(attempt.seq)
    /\ now >= attempt.at /\ now >= session.updated /\ now >= ckpt.updated
    /\ PolicyBound(ckpt.rev)

Resolve(status, task, now) ==
    /\ host.phase = "up"
    /\ Resolvable(now)
    /\ session' = [session EXCEPT !.status = status,
                                  !.updated = IF session.status = status THEN @ ELSE now]
    /\ ckpt' = [ckpt EXCEPT !.seq = @ + 1, !.task = task, !.updated = now]
    /\ attempt' = NoAttempt
    /\ settled' = settled \cup {attempt.id}
    /\ UNCHANGED <<snapshot, world, host, run, nextId, calls>>

\* "Confirmed not executed": both lifecycles converge to Paused.
ResolveNotExecuted(now) ==
    /\ session.status \in {"Running", "Paused"}
    /\ \/ ckpt.task = "Paused"
       \/ ckpt.task = "Running" /\ ~Elapsed(now)
    /\ Resolve("Paused", "Paused", now)

ResolveCancelSessionOnly(now) ==  \* mutant: the task is not cancelled
    /\ session.status \in {"Running", "Paused"}
    /\ Resolve("Cancelled", ckpt.task, now)

\* "Accept the external effect and cancel": both become Cancelled.
ResolveAcceptCancel(now) ==
    /\ session.status \in {"Running", "Paused"}
    /\ Resolve("Cancelled", IF ckpt.task = "Succeeded" THEN "Succeeded" ELSE "Cancelled", now)

-----------------------------------------------------------------------------
\* The process dies at any point; memory is lost, rows are not.
Crash ==
    /\ host.phase # "down"
    /\ host' = [phase |-> "down", now |-> 0]
    /\ run' = [e \in Executors |-> IdleTurn]
    /\ UNCHANGED <<durable, world, history>>

\* pause_running_after_restart: a Running session becomes Paused; a clock
\* that went back fails the whole startup.
RestorePause ==
    /\ host.phase = "down"
    /\ \E now \in Times :
         /\ session.status = "Running" => now >= session.updated
         /\ session' = IF session.status = "Running"
                       THEN [session EXCEPT !.status = "Paused", !.updated = now]
                       ELSE session
         /\ host' = [phase |-> "restoring", now |-> now]
    /\ UNCHANGED <<ckpt, attempt, snapshot, world, run, history>>

RestoreByDiscarding ==  \* mutant: leftovers of the crash are cleared
    /\ host.phase = "restoring"
    /\ attempt' = NoAttempt
    /\ host' = [phase |-> "up", now |-> 0]
    /\ UNCHANGED <<session, ckpt, snapshot, world, run, history>>

\* restore_auto_mode_jobs: an attempt left Active becomes indeterminate.
RestoreAttempts ==
    /\ host.phase = "restoring"
    /\ attempt.status = "Active" => host.now >= attempt.at
    /\ attempt' = IF attempt.status = "Active"
                  THEN [attempt EXCEPT !.status = "Indeterminate", !.at = host.now]
                  ELSE attempt
    /\ host' = [phase |-> "up", now |-> 0]
    /\ UNCHANGED <<session, ckpt, snapshot, world, run, history>>

-----------------------------------------------------------------------------
\* Outside the pipeline: the files change, the Goal is paused, resumed, or
\* gets a new plan revision.
DiskChange ==
    /\ disk' \in Contents \ {disk}
    /\ UNCHANGED <<durable, goal, host, run, history>>

GoalChange ==
    /\ goal # "revised"
    /\ goal' \in GoalStates \ {goal}
    /\ UNCHANGED <<durable, disk, host, run, history>>

Execute(e) ==
    \/ RecoverSession(e) \/ RecoverAttempt(e) \/ RecoverSnapshot(e)
    \/ RecoverCheckpoint(e) \/ CommitResume(e) \/ ResumeFails(e)
    \/ Release(e) \/ Preflight(e) \/ BeginAttempt(e) \/ AdmitPause(e)
    \/ RefuseProvider(e) \/ CallProvider(e) \/ ProviderReturns(e)
    \/ RejectOutcome(e) \/ CommitTurn(e) \/ CommitFails(e) \/ Quarantine(e)
    \/ HostControl(e, "Paused") \/ HostControl(e, "Cancelled")

Restart == Crash \/ RestorePause \/ RestoreAttempts

Next ==
    \/ \E e \in Executors : Execute(e)
    \/ \E now \in Times : ResolveNotExecuted(now) \/ ResolveAcceptCancel(now)
    \/ Restart
    \/ DiskChange
    \/ GoalChange

Spec == Init /\ [][Next]_vars

-----------------------------------------------------------------------------
SessionType ==
    [status : SessionStatus, updated : Nat, cycles : 0..MaxCycles]
CheckpointType ==
    [seq : Nat \ {0}, task : TaskStatus, updated : Nat, used : SUBSET CallIds,
     rev : Nat \ {0}]
AttemptType ==
    [id : Nat \ {0}, seq : Nat \ {0}, expected : Nat,
     status : {"Active", "Indeterminate"}, at : Nat]
TurnShape ==
    [phase : Phases, updated : Nat, cycles : 0..MaxCycles, seq : Nat,
     used : SUBSET CallIds, rev : Nat, files : SUBSET Contents,
     goal : {"active", "paused"},
     now : Nat, id : Nat, outcome : Outcomes, reply : SUBSET CallIds]
TurnType == {turn \in TurnShape : turn.phase = "commit" => turn.outcome # "none"}

\* Every row and every continuation has the shape its Rust type gives it.
TypeOK ==
    /\ session \in SessionType
    /\ ckpt \in CheckpointType
    /\ attempt \in AttemptType \cup {NoAttempt}
    /\ snapshot \in [rev : Nat \ {0}, content : Contents, at : Nat]
    /\ disk \in Contents
    /\ goal \in GoalStates
    /\ host \in [phase : {"down", "restoring", "up"}, now : Nat]
    /\ run \in [Executors -> TurnType]
    /\ nextId \in Nat \ {0}
    /\ calls \subseteq [id : Nat, seq : Nat]
    /\ settled \subseteq Nat \ {0}

Holding == {"held", "ready", "begun", "inflight", "commit"}
Owning  == {"begun", "inflight", "commit", "quarantine"}
Called  == {c.id : c \in calls}

\* Provider work whose outcome is not durable is never forgotten: every call
\* not yet committed or resolved is the one the attempt row records, through
\* crashes, failed writes and competing executors.
UnsettledIsRecorded == \A id \in Called \ settled : id = attempt.id

\* A checkpoint is offered to a Provider at most once: a turn whose result
\* was lost is never replayed from the same continuation.
OneCallPerCheckpoint ==
    \A c, d \in calls : c.seq = d.seq => c = d

\* No two executors hold the same Running continuation, and nobody holds one
\* from the future: of two racing recoveries at most one was given the turn.
NoSharedContinuation ==
    \A e \in Executors : run[e].phase \in Holding =>
        /\ run[e].seq <= ckpt.seq
        /\ \A f \in Executors \ {e} : run[f].phase \in Holding => run[f].seq # run[e].seq

\* An attempt of unknown outcome stays open to the user's decision: its
\* checkpoint is the current one and neither lifecycle is terminal.
QuarantineIsResolvable ==
    attempt.status = "Indeterminate" =>
        /\ attempt.seq = ckpt.seq
        /\ session.status \in {"Running", "Paused"}
        /\ ckpt.task \in {"Running", "Paused"}
        /\ PolicyBound(ckpt.rev)

\* The two lifecycles that every commit writes together agree, whichever
\* transactions ran and however the process died between them.
LifecyclesAgree ==
    /\ session.status = "Running" => ckpt.task = "Running"
    /\ session.status = "Completed" <=> ckpt.task = "Succeeded"
    /\ session.status = "Cancelled" <=> ckpt.task = "Cancelled"

\* A session does not run on files the policy was not bound to: the successor
\* snapshot comes with the pause, and a candidate read before it is not
\* resumed afterwards.  The session's version is a time in milliseconds, so
\* there is one way past it: a session that drifted in the millisecond the
\* candidate was read in.
DriftedSessionStaysPaused ==
    [][session'.status = "Running" /\ ~PolicyBound(snapshot'.rev) =>
         /\ ~PolicyBound(snapshot.rev)
         /\ session.status = "Running" \/ session.updated = snapshot.at]_vars

-----------------------------------------------------------------------------
\* The pipeline implements the ledger of attempts: at most one call each, at
\* most one outstanding, each concluded once.
Ledger == INSTANCE AttemptLedger WITH
    row <- [id |-> attempt.id, status |-> attempt.status],
    issued <- nextId - 1,
    called <- Called,
    concluded <- settled

ImplementsLedger == Ledger!Spec

-----------------------------------------------------------------------------
\* The threads keep running: a turn in progress takes its next step, the
\* Provider call because ProviderRegistry::complete caps its timeout.  No
\* fairness is assumed of users, of the clock or of a restart.
Fairness == \A e \in Executors : WF_vars(run[e].phase \in Owning /\ Execute(e))
FairSpec == Spec /\ Fairness

\* Whatever other executors, storage faults and the user do meanwhile, a turn
\* that was begun is brought to an end by its thread.
TurnsEnd ==
    \A e \in Executors : run[e].phase \in Owning ~> run[e].phase \notin Owning

-----------------------------------------------------------------------------
\* What the repository's documents say and the code does not keep; each is
\* the subject of a run that finds it violated.

\* AGT-096: an attempt becomes indeterminate because its commit failed or a
\* crash left it behind, not while its turn is still being executed.
LiveTurnsAreNotQuarantined ==
    [][attempt.status = "Active" /\ attempt'.status = "Indeterminate" =>
         \A e \in Executors :
             run[e].phase \in Owning /\ run[e].id = attempt.id
               => run[e].phase = "quarantine"]_vars

\* AutoModeExecutionService::execute: after an attempt exists every failure
\* is quarantined, so an Active attempt has a turn in progress.
ActiveAttemptIsOwned ==
    attempt.status = "Active" /\ host.phase = "up" =>
        \E e \in Executors : run[e].phase \in Owning /\ run[e].id = attempt.id

\* AutoModeRecoveryService::recover returns a paused task for the session it
\* is asked for; a first checkpoint can be recovered when nothing changed.
FirstRecoverySucceeds ==
    [][\A e \in Executors :
         /\ run[e].phase = "checkpoint" /\ run'[e].phase = "idle" /\ host' = host
         /\ ckpt.seq = 1 /\ goal = "active" /\ disk = snapshot.content
         => Elapsed(run[e].now)]_vars

=============================================================================
