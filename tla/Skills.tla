------------------------------- MODULE Skills -------------------------------
(***************************************************************************)
(* One skill of the desktop: its package on disk, the row that says what   *)
(* the user authorized, the host that leases it to workers, the threads    *)
(* that listen to events for it, and its executions, with the approvals    *)
(* some of them wait for and the history of all.                           *)
(*                                                                         *)
(*   apps/desktop/src-tauri/src/lib.rs      the desktop host               *)
(*   crates/skill-package, skill-runtime, skill-host, asset-installer      *)
(*   crates/persistence-sqlite/src/skill_*.rs                              *)
(*                                                                         *)
(* The commands of the user run one at a time on the main thread; the host *)
(* is behind a mutex, held while a worker runs.  A directory is renamed or *)
(* a row written by one step, and the process may die between two; each    *)
(* such write may fail.                                                    *)
(***************************************************************************)
EXTENDS Integers, FiniteSets

CONSTANTS
    Versions,    \* bound: versions of the package
    Executions,  \* bound: execution identities explored
    Sessions,    \* bound: listening threads alive at once
    Main,        \* the main thread
    None,        \* no version, execution or thread
    AgentTasks,  \* the manifest contributes Agent tasks
    Commands,    \* commands of a plan, before its Agent task
    MaxPending,  \* MAX_PENDING_SKILL_EXECUTIONS
    CrashThreshold, \* CRASH_QUARANTINE_THRESHOLD
    MaxWork      \* bound: executions and installs explored together

ASSUME BoundsAssumption ==
    /\ IsFiniteSet(Versions) /\ IsFiniteSet(Executions) /\ IsFiniteSet(Sessions)
    /\ Main \notin Sessions /\ Main # None
    /\ None \notin Versions \cup Executions \cup Sessions
    /\ AgentTasks \in BOOLEAN /\ Commands \in Nat /\ MaxPending \in Nat
    /\ CrashThreshold \in Nat \ {0}
    /\ MaxWork \in Nat

VARIABLES
    (* files and rows *)
    active,   \* the version in the active directory
    backups,  \* backups[v]: backup directories that hold version v
    row,      \* the skill_state row; its version is None when there is none
    journal,  \* journal[x]: skill_approval_journal
    history,  \* history[x]: skill_execution_history
    (* memory of the process *)
    phase,      \* "down" or "up"
    safe,       \* the mode SafetyService holds
    host,       \* the SkillHost's record of the skill
    thread,     \* thread[p]: what thread p is doing
    cancelled,  \* listening threads whose token is cancelled
    registered, \* skill_event_sessions: the thread of the skill
    revoked,    \* executions whose cancellation token is cancelled
    (* history and bounds *)
    used,    \* execution identities handed out
    acted,   \* executions that had an effect after they had been queued
    behind,  \* the host was not replaced since the row was last saved, as the
             \* rows or their capabilities could not be read
    installs

files == <<active, backups>>
rows == <<row, journal, history>>
ghosts == <<used, acted, behind, installs>>
vars == <<files, rows, phase, safe, host, thread, cancelled, registered, revoked,
          ghosts>>

NoRow == [version |-> None, authorized |-> FALSE, enabled |-> FALSE]
NoHost == [version |-> None, status |-> "none", crashes |-> 0]
Idle == [pc |-> "idle", version |-> None, aside |-> None, exec |-> None, step |-> 0,
         good |-> TRUE]
Unused == [Idle EXCEPT !.pc = "unused"]

Init ==
    /\ active = None
    /\ backups = [v \in Versions |-> 0]
    /\ row = NoRow
    /\ journal = [x \in Executions |-> "none"]
    /\ history = [x \in Executions |-> "none"]
    /\ phase = "down"
    /\ safe = FALSE
    /\ host = NoHost
    /\ thread = [p \in {Main} \cup Sessions |-> IF p = Main THEN Idle ELSE Unused]
    /\ cancelled = {} /\ registered = None /\ revoked = {}
    /\ used = {} /\ acted = {} /\ behind = FALSE /\ installs = 0

WorkIsLeft == installs + Cardinality(used) < MaxWork
Alive(s) == thread[s].pc # "unused"
MainIdle == phase = "up" /\ thread[Main].pc = "idle"
\* mutant: the host is not locked while its worker runs
HostFreeUnlocked == TRUE
\* skill_host: its mutex is held for the whole run of a worker
HostFree == \A p \in DOMAIN thread : thread[p].pc # "worker"

Move(p, t) == thread' = [thread EXCEPT ![p] = t] /\ UNCHANGED revoked
Goto(p, pc) == Move(p, [thread[p] EXCEPT !.pc = pc])
Continue(t) == thread' = [thread EXCEPT ![Main] = t]
Return == Continue(Idle)

\* The guard of the execution is dropped, and its token with it.  A listening
\* thread whose execution failed leaves its loop; the main thread returns the
\* error to the caller of the command.
Leave(p, good) ==
    /\ thread' = [thread EXCEPT ![p] =
          IF good \/ p = Main THEN Idle ELSE [Idle EXCEPT !.pc = "end"]]
    /\ revoked' = revoked \ {thread[p].exec}

\* active_skill_executions: from its registration to the drop of its guard
ActiveExecutions ==
    {thread[p].exec : p \in {q \in DOMAIN thread : thread[q].pc # "register"}} \ {None}

-----------------------------------------------------------------------------
(* The host and the listening threads.                                     *)

\* restore_skill_host: only what was authorized, in exactly that version
Restored ==
    IF row.version # None /\ active = row.version
    THEN [version |-> active, crashes |-> 0,
          status |-> IF row.authorized /\ row.enabled THEN "activated" ELSE "inactive"]
    ELSE NoHost
\* A package that cannot be loaded is passed over.
Rebuilt == {Restored, NoHost}

\* stop_skill_event_sessions: with the registered thread, every execution of
\* the skill is cancelled.
CancelRegistered ==
    IF registered = None THEN UNCHANGED <<cancelled, revoked>>
    ELSE /\ cancelled' = cancelled \cup {registered}
         /\ revoked' = revoked \cup ActiveExecutions
StopListening == registered' = None /\ CancelRegistered

\* start_active_skill_event_sessions
Listening(h, r) == r.authorized /\ r.enabled /\ h.status = "activated"
Listen(t) ==
    \E s \in Sessions :
        /\ t[s].pc = "unused"
        /\ registered' = s
        /\ thread' = [t EXCEPT ![s] = Idle]

\* mutant: an ending thread removes whatever is registered
ForgottenByName(s) == None
\* finish_skill_event_session
Forgotten(s) == IF registered = s THEN None ELSE registered

\* The thread leaves its loop when it sees it is cancelled, or after an error.
EndSession(s) ==
    /\ \/ thread[s].pc = "end"
       \/ thread[s].pc = "idle" /\ s \in cancelled
    /\ thread' = [thread EXCEPT ![s] = Unused]
    /\ cancelled' = cancelled \ {s}
    /\ registered' = Forgotten(s)
    /\ UNCHANGED <<files, rows, phase, safe, host, revoked, ghosts>>

-----------------------------------------------------------------------------
(* One execution, by a listening thread or by the main thread.             *)

ExecutionUnchanged ==
    UNCHANGED <<files, row, phase, safe, cancelled, registered, behind, installs>>

\* execute_skill_inner, up to the package: refused in safe mode, or when the
\* package cannot be loaded.
Begin(p) ==
    /\ phase = "up" /\ thread[p].pc = "idle" /\ p \notin cancelled
    /\ \/ (safe \/ active = None) /\ Leave(p, FALSE) /\ UNCHANGED used
       \/ /\ ~safe /\ active # None /\ WorkIsLeft
          /\ \E x \in Executions \ used :
                /\ used' = used \cup {x}
                /\ Move(p, [Idle EXCEPT !.pc = "register", !.version = active, !.exec = x])
    /\ UNCHANGED <<journal, history, host, acted>>
    /\ ExecutionUnchanged

\* mutant: the worker is started for any version of an active skill
LeasableAnyVersion(v) == host.status = "activated"
\* run_skill_worker: active_manifest, compared with the package
Leasable(v) == host.status = "activated" /\ host.version = v

\* The execution is registered and gets the host: what happens to it while it
\* waits for the lock may as well happen before, or to its worker.
Lease(p) ==
    /\ thread[p].pc = "register" /\ HostFree
    /\ \/ Leasable(thread[p].version) /\ Goto(p, "worker")
       \/ Leave(p, FALSE)
    /\ UNCHANGED <<journal, history, host, used, acted>>
    /\ ExecutionUnchanged

\* record_crash
Crashed(h) ==
    IF h.crashes + 1 >= CrashThreshold
    THEN [h EXCEPT !.crashes = @ + 1, !.status = "quarantined"]
    ELSE [h EXCEPT !.crashes = @ + 1, !.status = "crashed"]

\* ensure_skill_execution_active
Interrupted(p) == thread[p].exec \in revoked

\* With a plan that carries a risk an execution is queued, while there is room
\* (what has run out does not count); any other plan is carried out.
Planned(p) ==
    LET t == [thread[p] EXCEPT !.version = None] IN
    \/ Move(p, [t EXCEPT !.pc = "check"])
    \/ \E pending \in SUBSET {x \in Executions : journal[x] = "pending"} :
          IF Cardinality(pending) < MaxPending THEN Move(p, [t EXCEPT !.pc = "insert"])
          ELSE Leave(p, FALSE)

\* wait_recording_failure: a plan, an error, or a failure of isolation
WorkerEnds(p) ==
    /\ thread[p].pc = "worker"
    /\ \/ ~Interrupted(p) /\ Planned(p) /\ UNCHANGED host
       \/ Leave(p, FALSE) /\ host' \in {host, Crashed(host)}
    /\ UNCHANGED <<journal, history, used, acted>>
    /\ ExecutionUnchanged

\* queue_skill_execution_approval
Insert(p) ==
    /\ thread[p].pc = "insert"
    /\ \/ /\ journal' = [journal EXCEPT ![thread[p].exec] = "pending"]
          /\ Goto(p, "remember")
       \/ UNCHANGED journal /\ Leave(p, FALSE)
    /\ UNCHANGED <<history, host, used, acted>>
    /\ ExecutionUnchanged

\* mutant: the upsert of the history overwrites any status
RememberedAnyway(x, status) == [history EXCEPT ![x] = status]
\* SqliteSkillExecutionHistory::save; a row that is settled stays
Remembered(x, status) ==
    IF history[x] \in {"none", "waiting"} THEN [history EXCEPT ![x] = status] ELSE history

Remember(p) ==
    /\ thread[p].pc = "remember"
    /\ \/ history' = Remembered(thread[p].exec, "waiting") /\ Leave(p, TRUE)
       \/ UNCHANGED history /\ Leave(p, FALSE)
    /\ UNCHANGED <<journal, host, used, acted>>
    /\ ExecutionUnchanged

Ended(p, good) == [thread[p] EXCEPT !.pc = "record", !.good = good]
Ends(p, good) == Move(p, Ended(p, good))

Proceed(p) == Move(p, [thread[p] EXCEPT !.pc = "act", !.step = @ + 1])

\* complete_skill_execution: before each command, and after the last.  The
\* identity for Agent tasks is asked for even if the plan has none.
Check(p) ==
    /\ thread[p].pc = "check"
    /\ IF Interrupted(p) THEN Ends(p, FALSE)
       ELSE IF thread[p].step < Commands THEN Proceed(p)
       ELSE /\ HostFree
            /\ IF host.status = "activated" /\ AgentTasks
               THEN Proceed(p) \/ Ends(p, TRUE)
               ELSE Ends(p, FALSE)
    /\ UNCHANGED <<journal, history, host, used, acted>>
    /\ ExecutionUnchanged

\* A command takes effect or fails, an Agent task calls its Provider.
Act(p) ==
    LET x == thread[p].exec IN
    /\ thread[p].pc = "act"
    /\ \E t \in {Ended(p, FALSE),
                IF thread[p].step > Commands THEN Ended(p, TRUE)
                ELSE [thread[p] EXCEPT !.pc = "check"]} :
          thread' = [thread EXCEPT ![p] = t]
    /\ acted' = IF journal[x] = "none" THEN acted ELSE acted \cup {x}
    /\ UNCHANGED <<journal, history, host, revoked, used>>
    /\ ExecutionUnchanged

\* The outcome enters the history; a refused write is an error of the execution.
Record(p) ==
    LET x == thread[p].exec
        status == IF thread[p].good THEN "completed" ELSE "failed"
        After(good) == IF p = Main /\ journal[x] # "none"
                       THEN Move(p, [thread[p] EXCEPT !.pc = "finish", !.good = good])
                       ELSE Leave(p, good)
    IN
    /\ thread[p].pc = "record"
    /\ \/ history' = Remembered(x, status) /\ After(thread[p].good)
       \/ UNCHANGED history /\ After(FALSE)
    /\ UNCHANGED <<journal, host, used, acted>>
    /\ ExecutionUnchanged

\* SqliteSkillApprovalJournal::finish
Finish ==
    LET x == thread[Main].exec IN
    /\ thread[Main].pc = "finish"
    /\ \/ journal' = [journal EXCEPT ![x] =
                IF thread[Main].good THEN "completed" ELSE "failed"]
       \/ UNCHANGED journal
    /\ Leave(Main, TRUE)
    /\ UNCHANGED <<files, row, history, phase, safe, host, cancelled, registered,
                   ghosts>>

-----------------------------------------------------------------------------
(* Decisions about executions.                                             *)

\* mutant: a plan that was decided or cut off may be claimed again
ClaimableAgain(x) == journal[x] \in {"pending", "rejected", "interrupted"}
\* claim, reject
Claimable(x) == journal[x] = "pending"

\* approve_skill_execution: the claimed plan is registered with a fresh token
\* and completed.
Approve(x) ==
    /\ MainIdle /\ ~safe /\ Claimable(x)
    /\ \/ /\ journal' = [journal EXCEPT ![x] = "executing"]
          /\ thread' = [thread EXCEPT ![Main] = [Idle EXCEPT !.pc = "check", !.exec = x]]
          /\ revoked' = revoked \ {x}
       \/ /\ journal' = [journal EXCEPT ![x] = "expired"]
          /\ UNCHANGED thread /\ UNCHANGED revoked
    /\ UNCHANGED <<history, host, used, acted>>
    /\ ExecutionUnchanged

\* reject_skill_execution: the journal, then the history
Reject(x) ==
    /\ MainIdle /\ ~safe /\ Claimable(x)
    /\ \/ /\ journal' = [journal EXCEPT ![x] = "rejected"]
          /\ Move(Main, [Idle EXCEPT !.pc = "rejected", !.exec = x])
       \/ /\ journal' = [journal EXCEPT ![x] = "expired"]
          /\ UNCHANGED thread /\ UNCHANGED revoked
    /\ UNCHANGED <<history, host, used, acted>>
    /\ ExecutionUnchanged

RememberRejected ==
    /\ thread[Main].pc = "rejected"
    /\ \/ history' = Remembered(thread[Main].exec, "rejected")
       \/ UNCHANGED history
    /\ Leave(Main, TRUE)
    /\ UNCHANGED <<journal, host, used, acted>>
    /\ ExecutionUnchanged

\* cancel_skill_execution
Cancel(x) ==
    /\ MainIdle /\ x \in ActiveExecutions
    /\ revoked' = revoked \cup {x}
    /\ \/ history' = Remembered(x, "cancelled")
       \/ UNCHANGED history
    /\ UNCHANGED <<journal, host, thread, used, acted>>
    /\ ExecutionUnchanged

-----------------------------------------------------------------------------
(* Install, roll back, authorize, enable: directories first, then the row, *)
(* then the host.                                                          *)

OperationUnchanged ==
    UNCHANGED <<journal, history, phase, used, acted>>
FilesOnly == UNCHANGED <<row, safe, host, cancelled, registered, revoked, behind>>

Backup(v) == [backups EXCEPT ![v] = @ + 1]
WithoutBackup(v) == [backups EXCEPT ![v] = @ - 1]

\* install_atomically: the staged package was validated; what is active is
\* moved aside ...
Install(v) ==
    /\ MainIdle /\ ~safe /\ WorkIsLeft
    /\ installs' = installs + 1
    /\ active' = None
    /\ backups' = IF active = None THEN backups ELSE Backup(active)
    /\ Continue([Idle EXCEPT !.pc = "place", !.version = v, !.aside = active])
    /\ FilesOnly /\ OperationUnchanged

\* ... and the staged package takes its place; when that fails the backup is
\* moved back, which may fail too.
Place ==
    LET aside == thread[Main].aside IN
    /\ thread[Main].pc = "place"
    /\ \/ /\ active' = thread[Main].version
          /\ Continue([Idle EXCEPT !.pc = "save"]) /\ UNCHANGED backups
       \/ /\ Return
          /\ \/ UNCHANGED files
             \/ /\ aside # None
                /\ active' = aside /\ backups' = WithoutBackup(aside)
    /\ UNCHANGED installs /\ FilesOnly /\ OperationUnchanged

\* mutant: what is active is moved aside before a backup is looked for
RestorableAlways(v) == TRUE
\* latest_backup: the greatest name carries a reading of the clock, which may
\* have been set back, so that any backup may be the one.
Restorable(v) == backups[v] > 0

\* rollback_latest: what is active is moved aside for good ...
Rollback(v) ==
    /\ MainIdle /\ ~safe /\ Restorable(v)
    /\ active' = None
    /\ Continue([Idle EXCEPT !.pc = "restore", !.version = v, !.aside = active])
    /\ UNCHANGED <<backups, installs>> /\ FilesOnly /\ OperationUnchanged

\* ... and the backup takes its place, or what was moved aside comes back.
Restore ==
    LET v == thread[Main].version IN
    /\ thread[Main].pc = "restore"
    /\ \/ /\ backups[v] > 0 /\ active' = v /\ backups' = WithoutBackup(v)
          /\ Continue([Idle EXCEPT !.pc = "save"])
       \/ /\ active' \in {thread[Main].aside, None} /\ UNCHANGED backups
          /\ Return
    /\ UNCHANGED installs /\ FilesOnly /\ OperationUnchanged

\* SqliteSkillStateRepository::save, and the first step of rebuild_skill_host
SaveRow(r) ==
    /\ \/ row' = r /\ StopListening /\ Continue([Idle EXCEPT !.pc = "rebuild"])
       \/ /\ UNCHANGED <<row, cancelled, registered, revoked>>
          /\ Return
    /\ UNCHANGED <<files, safe, host, behind, installs>> /\ OperationUnchanged

\* what an install or a rollback leaves: nothing is authorized
Replaced(v) == [version |-> v, authorized |-> FALSE, enabled |-> FALSE]

SaveReplaced == thread[Main].pc = "save" /\ SaveRow(Replaced(active))

\* installed_skill_state: the row and the package agree
Healthy == active # None /\ row.version = active

Authorize ==
    /\ MainIdle /\ ~safe /\ Healthy
    /\ SaveRow([row EXCEPT !.authorized = TRUE, !.enabled = FALSE])

SetEnabled(on) ==
    /\ MainIdle /\ ~safe /\ Healthy /\ (on => row.authorized)
    /\ SaveRow([row EXCEPT !.enabled = on])

\* rebuild_skill_host, from the rows to the new threads.  An error on the way
\* leaves the host as it was before the row was saved.
Rebuild ==
    /\ thread[Main].pc = "rebuild"
    /\ \/ /\ HostFree /\ behind' = FALSE
          /\ host' \in Rebuilt
          /\ \/ Listening(host', row) /\ Listen([thread EXCEPT ![Main] = Idle])
             \/ Return /\ UNCHANGED registered \* nothing to start, or an error
       \/ /\ behind' = TRUE
          /\ Return /\ UNCHANGED <<host, registered>>
    /\ UNCHANGED <<files, row, safe, cancelled, revoked, installs>>
    /\ OperationUnchanged

-----------------------------------------------------------------------------
(* Safe mode, crash and startup.                                           *)

EnterSafe ==
    /\ MainIdle /\ ~safe
    /\ safe' = TRUE
    /\ Continue([Idle EXCEPT !.pc = "converge"])
    /\ UNCHANGED <<files, rows, phase, host, cancelled, registered, revoked, ghosts>>

\* converge_safe_mode, the step of the skills
Converge ==
    /\ thread[Main].pc = "converge"
    /\ StopListening /\ Return
    /\ UNCHANGED <<files, rows, phase, safe, host, ghosts>>

\* exit_safe_mode, sync_skill_event_sessions: on the host as it is
ExitSafe ==
    /\ MainIdle /\ safe /\ HostFree
    /\ safe' = FALSE
    /\ CancelRegistered
    /\ IF Listening(host, row) THEN Listen(thread)
       ELSE registered' = None /\ UNCHANGED thread
    /\ UNCHANGED <<files, rows, phase, host, ghosts>>

Crash ==
    /\ phase = "up" /\ phase' = "down" /\ safe' = FALSE
    /\ host' = NoHost
    /\ thread' = [p \in DOMAIN thread |-> IF p = Main THEN Idle ELSE Unused]
    /\ cancelled' = {} /\ registered' = None /\ revoked' = {}
    /\ behind' = FALSE
    /\ UNCHANGED <<files, rows, used, acted, installs>>

\* SqliteSkillApprovalJournal::recover, of what has not run out
Recovered(x) == IF journal[x] = "executing" THEN "interrupted" ELSE journal[x]

\* The host and the journal are restored, then the threads start.
Startup ==
    /\ phase = "down" /\ phase' = "up"
    /\ \E old \in SUBSET {x \in Executions : journal[x] = "pending"} :
          journal' = [x \in Executions |-> IF x \in old THEN "expired" ELSE Recovered(x)]
    /\ host' \in Rebuilt
    /\ IF Listening(host', row) THEN Listen(thread)
       ELSE UNCHANGED <<thread, registered>>
    /\ UNCHANGED <<files, row, history, safe, cancelled, revoked, ghosts>>

-----------------------------------------------------------------------------

Execution(p) ==
    \/ Begin(p)
    \/ Lease(p)
    \/ WorkerEnds(p)
    \/ Insert(p)
    \/ Remember(p)
    \/ Check(p)
    \/ Act(p)
    \/ Record(p)

Operation ==
    \/ \E v \in Versions : Install(v)
    \/ Place
    \/ \E v \in Versions : Rollback(v)
    \/ Restore
    \/ SaveReplaced
    \/ Authorize
    \/ \E on \in BOOLEAN : SetEnabled(on)
    \/ Rebuild

Decide ==
    \/ \E x \in Executions : Approve(x)
    \/ \E x \in Executions : Reject(x)
    \/ RememberRejected
    \/ Finish
    \/ \E x \in Executions : Cancel(x)

Next ==
    \/ \E p \in {Main} \cup Sessions : Execution(p)
    \/ \E s \in Sessions : EndSession(s)
    \/ Operation
    \/ Decide
    \/ EnterSafe
    \/ Converge
    \/ ExitSafe
    \/ Crash
    \/ Startup

Spec == Init /\ [][Next]_vars
-----------------------------------------------------------------------------
(* Correctness.                                                            *)

ThreadState ==
    [pc : {"unused", "idle", "register", "worker", "insert",
           "remember", "check", "act", "record", "finish", "rejected",
           "place", "restore", "save", "rebuild", "converge", "end"},
     version : Versions \cup {None}, aside : Versions \cup {None},
     exec : Executions \cup {None}, step : 0..Commands + 1, good : BOOLEAN]
Row == [version : Versions \cup {None}, authorized : BOOLEAN, enabled : BOOLEAN]

\* Rows satisfy their tables: what is enabled is authorized.  One worker runs
\* at a time, as the host is locked, and directories do not multiply.
TypeOK ==
    /\ active \in Versions \cup {None}
    /\ backups \in [Versions -> 0..MaxWork]
    /\ row \in Row /\ (row.enabled => row.authorized)
    /\ journal \in [Executions -> {"none", "pending", "executing", "completed", "failed",
                                   "rejected", "expired", "interrupted"}]
    /\ history \in [Executions -> {"none", "waiting", "completed", "failed", "rejected",
                                   "cancelled"}]
    /\ phase \in {"down", "up"} /\ safe \in BOOLEAN
    /\ host \in [version : Versions \cup {None}, crashes : 0..CrashThreshold,
                 status : {"none", "inactive", "activated", "crashed", "quarantined"}]
    /\ thread \in [{Main} \cup Sessions -> ThreadState]
    /\ Cardinality({p \in DOMAIN thread : thread[p].pc = "worker"}) <= 1
    /\ cancelled \subseteq Sessions /\ registered \in Sessions \cup {None}
    /\ revoked \subseteq used /\ used \subseteq Executions
    /\ acted \subseteq used /\ behind \in BOOLEAN

\* Whoever listens can be stopped: a thread that is not cancelled is the one
\* registered for the skill, which is authorized and enabled, and there is none
\* when safe mode has been entered; a thread that ends late does not remove its
\* successor (EXT-037).
SessionsAreControlled ==
    \A s \in Sessions : Alive(s) /\ s \notin cancelled =>
        /\ registered = s /\ row.authorized /\ row.enabled
        /\ safe => thread[Main].pc = "converge"

\* A worker runs the version of its host, however the package is replaced or
\* rolled back between the reading of its files and the lease (EXT-019,
\* EXT-028), and that version is the one the user has authorized and enabled.
\* The host may lag behind the row while a command is between the two, and
\* after one whose rebuild could not read the rows, until the next rebuild.
WorkersRunWhatIsEnabled ==
    \A p \in DOMAIN thread : thread[p].pc = "worker" =>
        /\ thread[p].version = host.version
        /\ \/ row = [version |-> host.version, authorized |-> TRUE, enabled |-> TRUE]
           \/ thread[Main].pc = "rebuild"
           \/ behind

\* The two tables agree, although each is written on its own, by several
\* threads, and may fail or die in between: an approval completed is an
\* execution completed, unless that was cancelled before it was queued; and
\* nothing is remembered as rejected, or after a decision as completed, that
\* was not.
TablesAgree ==
    \A x \in Executions :
        /\ journal[x] = "completed" => history[x] \in {"completed", "cancelled"}
        /\ history[x] = "rejected" => journal[x] = "rejected"
        /\ history[x] = "completed" => journal[x] \notin {"pending", "rejected", "expired"}

\* An installed skill can always be brought back: its package is in place, or a
\* backup is there to roll back to, whichever rename fails or is the last
\* before a crash (EXT-017).
InstalledIsRecoverable ==
    row.version # None => active # None \/ \E v \in Versions : backups[v] > 0

\* A plan at a risk takes effect only under an approval in force, once (EXT-034).
DecisionOf ==
    [none |-> "none", pending |-> "pending", executing |-> "granted",
     rejected |-> "refused", expired |-> "refused",
     completed |-> "spent", failed |-> "spent", interrupted |-> "spent"]
Gate == INSTANCE ApprovalGate WITH
    Requests <- Executions,
    decision <- [x \in Executions |-> DecisionOf[journal[x]]],
    begun <- acted
ImplementsApprovalGate == Gate!Spec

\* The remaining definitions state what documents say and the code does not do.

\* "EXT-022: disabling takes the ability to run away at once"
\* (docs/FUNCTIONAL_TEST_PLAN.md:548); false after a rebuild that failed.
DisabledSkillsDoNotRun ==
    \A p \in DOMAIN thread : thread[p].pc = "worker" =>
        row.enabled \/ thread[Main].pc = "rebuild"

\* "SKH-002: after the approval the execution converges to completed"
\* (docs/FUNCTIONAL_TEST_PLAN.md:843); false when the skill has no Agent tasks.
CommandsAreEnough ==
    [][\A p \in DOMAIN thread :
          /\ thread[p].pc = "check" /\ ~Interrupted(p) /\ host.status = "activated"
          /\ thread'[p].pc = "record"
          => thread'[p].good]_vars

\* "EXT-037: a stop cancels the executions in flight"
\* (docs/FUNCTIONAL_TEST_PLAN.md:557); false when one registers after it.
StoppedSessionsAreRevoked ==
    \A s \in cancelled : thread[s].pc = "act" => thread[s].exec \in revoked

\* "SKH-007: a cancellation stops the side effects before the next command"
\* (docs/FUNCTIONAL_TEST_PLAN.md:848); false when the plan is queued after it.
CancelledPlansAreNotRun == thread[Main].pc = "act" => history[thread[Main].exec] # "cancelled"

\* "EXT-005: continuous crashes lead to quarantine"
\* (docs/FUNCTIONAL_TEST_PLAN.md:531); false as every rebuild forgets crashes.
CrashesAreRemembered ==
    [][host.crashes > 0 /\ phase' = "up" => host'.crashes >= host.crashes]_vars

=============================================================================
