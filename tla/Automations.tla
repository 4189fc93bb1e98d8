---------------------------- MODULE Automations ----------------------------
(***************************************************************************)
(* Live runs of an automation: the thread that listens for its events, the *)
(* approvals that risky runs wait for, the lease and the cost ledger that  *)
(* govern them, and the Agent tasks they start.                            *)
(*                                                                         *)
(*   apps/desktop/src-tauri/src/lib.rs      the desktop host               *)
(*   crates/automation-runtime, automation-agent-bridge                    *)
(*   crates/persistence-sqlite/src/automation_*.rs                         *)
(*                                                                         *)
(* The commands of the user run one at a time on the main thread; each     *)
(* listening thread takes events on its own.  A row is written by one      *)
(* transaction, and the process may die between two.  Every write carries  *)
(* a reading of the clock and is refused when that lies before what the    *)
(* row holds, or by the database: a fault.  What has run out (an approval, *)
(* a lease, a confirmation, a cooldown) is left open at every reading.     *)
(***************************************************************************)
EXTENDS Integers, FiniteSets

CONSTANTS
    Runs,        \* bound: run identities explored
    Sessions,    \* bound: listening threads alive at once
    Main,        \* the main thread
    NoRun, Nobody,
    MaxAttempts, \* MAX_ACTION_ATTEMPTS, of a retry-safe action
    Actions,     \* actions of a run that needs no approval
    DailyBudget, \* daily_cost_budget_microunits, in reservations
    MaxAmount,   \* bound: amounts of money explored, in reservations
    MaxFaults,   \* bound: refused writes explored, before a crash or while
                 \* what it left is recovered
    MaxCrashes   \* bound: crashes explored

ASSUME BoundsAssumption ==
    /\ IsFiniteSet(Runs) /\ IsFiniteSet(Sessions)
    /\ Main \notin Sessions /\ Nobody \notin Sessions /\ NoRun \notin Runs
    /\ MaxAttempts \in Nat \ {0} /\ Actions \in Nat \ {0}
    /\ DailyBudget \in Nat /\ MaxAmount \in Nat \ {0} /\ MaxFaults \in Nat /\ MaxCrashes \in Nat

Tries == 1..MaxAttempts
Amounts == 0..MaxAmount

VARIABLES
    (* rows of the database *)
    enabled,  \* the automation_catalog row
    journal,  \* journal[r]: automation_run_journal
    lease,    \* runs with a row in automation_run_lease
    approval, \* approval[r]: automation_approval_journal
    task,     \* task[r][k]: the Agent task attempt k of run r made, its
              \* journal and ledger rows, whether the latter is reconciled,
              \* and the calls it made with what they really cost
    (* memory of the process *)
    phase,      \* how far startup has come
    safe,       \* the mode SafetyService holds
    thread,     \* thread[p]: what thread p is doing
    cancelled,  \* listening threads whose token is cancelled
    registered, \* automation_event_sessions: the thread of the automation
    waiting,    \* pending_agent_tools: tasks with an unanswered confirmation
    revoked,    \* tasks whose cancellation token is cancelled
    (* bounds *)
    faults, crashes

rows == <<enabled, journal, lease, approval, task>>
memory == <<phase, safe, thread, cancelled, registered, waiting, revoked>>
vars == <<rows, memory, faults, crashes>>

NoTask == [status |-> "none", cost |-> "none", actual |-> 0, reconciled |-> FALSE,
           called |-> FALSE, bill |-> 0]
Idle == [pc |-> "idle", run |-> NoRun, step |-> 0, good |-> TRUE, later |-> FALSE]
Unused == [Idle EXCEPT !.pc = "unused"]
Live == {"submitted", "waiting"}

Init ==
    /\ enabled \in BOOLEAN
    /\ journal = [r \in Runs |-> "none"]
    /\ lease = {}
    /\ approval = [r \in Runs |-> "none"]
    /\ task = [r \in Runs |-> [k \in Tries |-> NoTask]]
    /\ phase = "down"
    /\ safe = FALSE
    /\ thread = [p \in {Main} \cup Sessions |-> IF p = Main THEN Idle ELSE Unused]
    /\ cancelled = {}
    /\ registered = Nobody
    /\ waiting = {}
    /\ revoked = {}
    /\ faults = 0 /\ crashes = 0

Alive(s) == thread[s].pc # "unused"
\* The run identities nobody has taken yet.
Fresh == {r \in Runs : /\ approval[r] = "none" /\ journal[r] = "none"
                       /\ \A p \in DOMAIN thread : thread[p].run # r
                       /\ r \notin lease}

Sound == UNCHANGED faults
Fault ==
    /\ faults < MaxFaults /\ (crashes = 0 \/ phase # "up")
    /\ faults' = faults + 1

Goto(p, pc) == thread' = [thread EXCEPT ![p].pc = pc]
MainIdle == phase = "up" /\ thread[Main].pc = "idle"

\* A listening thread that had an error leaves its loop; the main thread
\* returns the error to the caller of the command.
Left(p, good) == IF good \/ p = Main THEN Idle ELSE [Idle EXCEPT !.pc = "end"]
AfterRun(p, r, good) ==
    IF approval[r] = "executing"
    THEN [Idle EXCEPT !.pc = "finish", !.run = r, !.good = good] ELSE Left(p, good)

-----------------------------------------------------------------------------
(* Listening threads: start, stop, and the loop around a run.              *)

Free == {s \in Sessions : ~Alive(s)}
\* mutant: an ending thread removes whatever is registered
ForgottenByName(s) == Nobody
\* finish_automation_event_session
Forgotten(s) == IF registered = s THEN Nobody ELSE registered

\* stop_automation_event_session
Stopped == IF registered = Nobody THEN cancelled ELSE cancelled \cup {registered}

\* The registered thread is cancelled and, when asked for, a new one started.
Relisten(start) ==
    /\ cancelled' = Stopped
    /\ IF start
       THEN \E s \in Free :
               /\ registered' = s
               /\ thread' = [thread EXCEPT ![s] = Idle]
       ELSE registered' = Nobody /\ UNCHANGED thread

\* The thread leaves its loop when it sees it is cancelled, or after an error.
EndSession(s) ==
    /\ \/ thread[s].pc = "end"
       \/ thread[s].pc = "idle" /\ s \in cancelled
    /\ thread' = [thread EXCEPT ![s] = Unused]
    /\ cancelled' = cancelled \ {s}
    /\ registered' = Forgotten(s)
    /\ UNCHANGED <<rows, phase, safe, waiting, revoked, faults, crashes>>

-----------------------------------------------------------------------------
(* One run, by a listening thread or by the main thread.                   *)

\* run_live_automation_event: an event that does not match makes no run; a
\* run at a risk waits for approval.
Triggered(p) ==
    \/ \E good \in {~safe, FALSE} : thread' = [thread EXCEPT ![p] = Left(p, good)]
       /\ UNCHANGED approval
    \/ /\ ~safe /\ UNCHANGED approval
       /\ \E r \in Fresh :
             thread' = [thread EXCEPT ![p].pc = "admit", ![p].run = r]
    \/ /\ ~safe
       /\ \E r \in Fresh : approval' = [approval EXCEPT ![r] = "pending"]
       /\ thread' = [thread EXCEPT ![p] = Left(p, TRUE)]

\* The thread sees it is not cancelled and takes an event.  Nothing it reads
\* in between is written by others but the mode, which may change right after.
TakeEvent(s) ==
    /\ thread[s].pc = "idle" /\ s \notin cancelled
    /\ Triggered(s)
    /\ UNCHANGED <<enabled, journal, lease, task, phase, safe, cancelled,
                   registered, waiting, revoked, faults, crashes>>

\* mutant: the lease is taken without looking at the others
NoRoomNever(others) == FALSE
NoRoom(others) == others # {}

\* SqliteAutomationGovernance::admit_run, max_concurrent_runs = 1
Admit(p) ==
    LET r == thread[p].run IN
    /\ thread[p].pc = "admit"
    /\ \E expired \in SUBSET lease :
          /\ UNCHANGED <<enabled, journal, approval, task, phase, safe, cancelled,
                         registered, waiting, revoked, crashes>>
          /\ \/ /\ ~NoRoom(lease \ expired)
                /\ lease' = (lease \ expired) \cup {r}
                /\ Goto(p, "start")
             \/ /\ thread' = [thread EXCEPT ![p] = AfterRun(p, r, FALSE)]
                /\ UNCHANGED lease
          /\ Sound

\* SqliteAutomationJournal::start
Start(p) ==
    LET r == thread[p].run IN
    /\ thread[p].pc = "start"
    /\ \/ /\ journal' = [journal EXCEPT ![r] = "running"]
          /\ Goto(p, "check") /\ Sound
       \/ /\ thread' = [thread EXCEPT ![p].pc = "release", ![p].good = FALSE]
          /\ UNCHANGED journal /\ Fault
    /\ UNCHANGED <<enabled, lease, approval, task, phase, safe, cancelled,
                   registered, waiting, revoked, crashes>>

NeedsApproval(r) == approval[r] # "none"
Interrupted(p) == p \in cancelled

\* interrupted_status before every action; a run may also time out
Check(p) ==
    LET r == thread[p].run IN
    /\ thread[p].pc = "check"
    /\ \/ Goto(p, "complete")
       \/ /\ ~Interrupted(p)
          /\ thread' = [thread EXCEPT
                ![p].pc = IF NeedsApproval(r) THEN "reserve" ELSE "act",
                ![p].step = @ + 1]
    /\ UNCHANGED <<rows, phase, safe, cancelled, registered, waiting, revoked, faults, crashes>>

\* A command of the pet: it takes effect, or fails and ends the run.
Act(p) ==
    /\ thread[p].pc = "act"
    /\ \/ Goto(p, IF thread[p].step < Actions THEN "check" ELSE "complete")
       \/ Goto(p, "complete")
    /\ UNCHANGED <<rows, phase, safe, cancelled, registered, waiting, revoked, faults, crashes>>

\* SqliteAutomationJournal::complete
Complete(p) ==
    LET r == thread[p].run IN
    /\ thread[p].pc = "complete"
    /\ \/ /\ journal' = [journal EXCEPT ![r] = "completed"]
          /\ Goto(p, "release") /\ Sound
       \/ /\ thread' = [thread EXCEPT ![p].pc = "release", ![p].good = FALSE]
          /\ UNCHANGED journal /\ Fault
    /\ UNCHANGED <<enabled, lease, approval, task, phase, safe, cancelled,
                   registered, waiting, revoked, crashes>>

\* release_run: a lease that is gone is an error too
Release(p) ==
    LET r == thread[p].run IN
    /\ thread[p].pc = "release"
    /\ \/ /\ lease' = lease \ {r} /\ Sound
          /\ thread' = [thread EXCEPT ![p] = AfterRun(p, r, @.good /\ r \in lease)]
       \/ /\ UNCHANGED lease /\ Fault
          /\ thread' = [thread EXCEPT ![p] = AfterRun(p, r, FALSE)]
    /\ UNCHANGED <<enabled, journal, approval, task, phase, safe, cancelled,
                   registered, waiting, revoked, crashes>>

-----------------------------------------------------------------------------
(* The Agent task of a run that was approved; only the main thread gets    *)
(* here, for the run itself or, `later', when a confirmation resumes it.   *)

Agent == thread[Main]
Attempt == task[Agent.run][Agent.step]
SetAttempt(t) == task' = [task EXCEPT ![Agent.run][Agent.step] = t]

\* A transient failure is tried again while attempts remain.
TransientFailure ==
    IF Agent.later THEN Goto(Main, "failed")
    ELSE \/ Agent.step < MaxAttempts
            /\ thread' = [thread EXCEPT ![Main].pc = "reserve", ![Main].step = @ + 1]
         \/ Goto(Main, "complete")

\* mutant: an attempt does not look for the task of an earlier one
PriorIgnored(r) == {}
\* get_by_key
Prior(r) == {k \in Tries : task[r][k].status # "none"}

\* What the ledger holds of an attempt against the day's budget: the whole
\* reservation, until the row is settled.
Charge(t) ==
    CASE t.cost = "none" -> 0
      [] t.cost = "settled" -> t.actual
      [] t.cost \in {"reserved", "indeterminate"} -> 1
\* Their sum, counted one unit <<run, attempt, number of the unit>> at a time.
Units == Runs \X Tries \X (1..MaxAmount)
CommittedUnits == {u \in Units : u[3] <= Charge(task[u[1]][u[2]])}
Committed == Cardinality(CommittedUnits)

\* mutant: what is not settled does not count against the budget
AffordableIfSettled ==
    Cardinality({u \in Units : u[3] <= task[u[1]][u[2]].actual}) < DailyBudget
\* reserve_agent_cost
Affordable == Committed < DailyBudget

AgentUnchanged ==
    UNCHANGED <<enabled, journal, lease, approval, phase, safe, cancelled,
                registered, crashes>>

\* submit, up to the reservation: a task of an earlier attempt is a duplicate.
Reserve ==
    LET r == Agent.run IN
    /\ Agent.pc = "reserve"
    /\ \/ Prior(r) # {} /\ Goto(Main, "complete") /\ UNCHANGED task
       \/ /\ Prior(r) = {} /\ Affordable /\ r \in lease
          /\ SetAttempt([Attempt EXCEPT !.cost = "reserved"])
          /\ Goto(Main, "submit")
       \/ Prior(r) = {} /\ Goto(Main, "complete") /\ UNCHANGED task
    /\ Sound /\ UNCHANGED <<waiting, revoked>> /\ AgentUnchanged

\* The task is journalled; when that is refused its reservation is settled at
\* nothing, unless that is refused as well.
Submit ==
    /\ Agent.pc = "submit"
    /\ \/ /\ SetAttempt([Attempt EXCEPT !.status = "submitted"])
          /\ Goto(Main, "call") /\ Sound
       \/ /\ TransientFailure /\ Fault
          /\ \/ SetAttempt([Attempt EXCEPT !.cost = "settled"])
             \/ UNCHANGED task
    /\ UNCHANGED <<waiting, revoked>> /\ AgentUnchanged

\* advance_provider_agent: the Provider is called unless the token of the task
\* is cancelled; it completes, asks for a tool that needs confirmation, or
\* fails.  What it cost is known afterwards (provider_step): a task goes on only
\* while its bill is within its reservation; one that failed may have cost any
\* amount.
Call ==
    LET t == <<Agent.run, Agent.step>> IN
    /\ Agent.pc = "call"
    /\ \/ /\ t \notin revoked
          /\ \E bill \in Attempt.bill..MaxAmount :
                /\ SetAttempt([Attempt EXCEPT !.called = TRUE, !.bill = bill])
                /\ \/ bill <= 1 /\ Goto(Main, "settle") /\ UNCHANGED waiting
                   \/ bill <= 1 /\ Goto(Main, "suspend") /\ waiting' = waiting \cup {t}
                   \/ /\ Goto(Main, IF Agent.later THEN "failed" ELSE "doubt")
                      /\ UNCHANGED waiting
       \/ /\ Goto(Main, IF Agent.later THEN "failed" ELSE "doubt")
          /\ UNCHANGED <<task, waiting>>
    /\ Sound /\ UNCHANGED revoked /\ AgentUnchanged

\* settle_agent_cost
SettledAt(t, amount) == [t EXCEPT !.cost = "settled", !.actual = amount]

Settle ==
    /\ Agent.pc = "settle"
    /\ \/ /\ Attempt.cost = "reserved" /\ Attempt.bill <= 1
          /\ SetAttempt(SettledAt(Attempt, Attempt.bill))
          /\ Goto(Main, "completed") /\ Sound
       \/ TransientFailure /\ UNCHANGED task /\ Fault
    /\ UNCHANGED <<waiting, revoked>> /\ AgentUnchanged

\* The Agent journal: the legal transitions of an active task.
Transition(status) ==
    /\ Attempt.status \in Live
    /\ SetAttempt([Attempt EXCEPT !.status = status])

Leave == IF Agent.later THEN thread' = [thread EXCEPT ![Main] = Idle]
         ELSE Goto(Main, "complete")

\* record_outcome, record_automation_agent_outcome
Record ==
    /\ \/ Agent.pc = "completed" /\ Transition("completed") /\ Leave /\ Sound
       \/ Agent.pc = "suspend" /\ Transition("waiting") /\ Leave /\ Sound
       \/ Agent.pc \in {"completed", "suspend"} /\ TransientFailure
          /\ UNCHANGED task /\ Fault
    /\ UNCHANGED <<waiting, revoked>> /\ AgentUnchanged

\* mutant: a failed call is settled at nothing
DoubtfulIsFree(t) == [t EXCEPT !.cost = "settled"]
\* mark_agent_cost_indeterminate
Doubtful(t) == [t EXCEPT !.cost = "indeterminate"]

Doubt ==
    /\ Agent.pc = "doubt"
    /\ \/ /\ Attempt.cost = "reserved"
          /\ SetAttempt(Doubtful(Attempt))
          /\ Goto(Main, "failed") /\ Sound
       \/ TransientFailure /\ UNCHANGED task /\ Fault
    /\ UNCHANGED <<waiting, revoked>> /\ AgentUnchanged

\* The task failed: permanently for its run; a task that is no longer active
\* is left as it is.
Failed ==
    /\ Agent.pc = "failed"
    /\ \/ Transition("failed") /\ Leave /\ Sound
       \/ Attempt.status \notin Live /\ Leave /\ UNCHANGED task /\ Sound
       \/ /\ IF Agent.later THEN Leave ELSE TransientFailure
          /\ UNCHANGED task /\ Fault
    /\ UNCHANGED <<waiting, revoked>> /\ AgentUnchanged

-----------------------------------------------------------------------------
(* Commands of the user, on the main thread.                               *)

CommandUnchanged == UNCHANGED <<journal, lease, phase, crashes>>

\* run_automation with a definition of the user's own
RunAdHoc ==
    /\ MainIdle
    /\ Triggered(Main)
    /\ Sound
    /\ UNCHANGED <<enabled, task, safe, cancelled, registered, waiting,
                   revoked>>
    /\ CommandUnchanged

\* set_automation_enabled; when the start fails the automation is disabled
SetEnabled(on) ==
    /\ MainIdle /\ ~safe
    /\ \/ enabled' = on /\ Relisten(on) /\ Sound
       \/ UNCHANGED enabled /\ Relisten(FALSE) /\ Fault
       \/ on /\ enabled' = FALSE /\ Relisten(FALSE) /\ Sound
       \/ on /\ enabled' = TRUE /\ Relisten(FALSE) /\ Fault
    /\ UNCHANGED <<approval, task, safe, waiting, revoked>>
    /\ CommandUnchanged

\* install of a new version, rollback: both leave the automation disabled
ReplaceDefinition ==
    /\ MainIdle
    /\ Relisten(FALSE)
    /\ \/ enabled' = FALSE /\ Sound
       \/ UNCHANGED enabled /\ Fault
    /\ UNCHANGED <<approval, task, safe, waiting, revoked>>
    /\ CommandUnchanged

\* mutant: a plan that ran out or was decided may still be claimed
ClaimableAgain(r) == approval[r] \in {"pending", "rejected", "interrupted"}
\* claim, reject: WHERE status = 'pending'
Claimable(r) == approval[r] = "pending"

\* approve_automation_run: the plan is claimed, looked at again, and run.
Approve(r) ==
    /\ MainIdle /\ ~safe /\ Claimable(r)
    /\ \/ /\ approval' = [approval EXCEPT ![r] = "executing"]
          /\ \/ thread' = [thread EXCEPT ![Main] = [Idle EXCEPT !.pc = "admit", !.run = r]]
             \/ thread' = [thread EXCEPT ![Main] =
                   [Idle EXCEPT !.pc = "finish", !.run = r, !.good = FALSE]]
       \/ /\ approval' = [approval EXCEPT ![r] = "expired"]
          /\ UNCHANGED thread
    /\ Sound
    /\ UNCHANGED <<enabled, task, safe, cancelled, registered, waiting, revoked>>
    /\ CommandUnchanged

Finish ==
    LET r == Agent.run IN
    /\ Agent.pc = "finish"
    /\ \/ approval' = [approval EXCEPT ![r] = IF Agent.good THEN "completed" ELSE "failed"]
          /\ Sound
       \/ UNCHANGED approval /\ Fault
    /\ thread' = [thread EXCEPT ![Main] = Idle]
    /\ UNCHANGED <<enabled, task, safe, cancelled, registered, waiting, revoked>>
    /\ CommandUnchanged

Reject(r) ==
    /\ MainIdle /\ ~safe /\ Claimable(r)
    /\ \E status \in {"rejected", "expired"} :
          approval' = [approval EXCEPT ![r] = status]
    /\ Sound
    /\ UNCHANGED <<enabled, task, safe, thread, cancelled, registered, waiting,
                   revoked>>
    /\ CommandUnchanged

\* cancel_automation_run: the run of a listening thread shares its token, and
\* is in active_automation_runs from its start to its end.
CancelRun(s) ==
    /\ MainIdle
    /\ thread[s].pc \in {"check", "act"}
    /\ cancelled' = cancelled \cup {s}
    /\ UNCHANGED <<enabled, approval, task, safe, thread, registered, waiting,
                   revoked, faults>>
    /\ CommandUnchanged

\* The tokens of the tasks are cancelled and those still active journalled so.
CancelTasks(tasks) ==
    /\ revoked' = revoked \cup tasks
    /\ \/ /\ task' = [r \in Runs |-> [k \in Tries |->
                IF <<r, k>> \in tasks /\ task[r][k].status \in Live
                THEN [task[r][k] EXCEPT !.status = "cancelled"] ELSE task[r][k]]]
          /\ Sound
       \/ UNCHANGED task /\ Fault

\* cancel_agent_task leaves the confirmations of the task in memory.
CancelTask(r, k) ==
    /\ MainIdle /\ task[r][k].status \in Live
    /\ CancelTasks({<<r, k>>})
    /\ UNCHANGED <<enabled, approval, safe, thread, cancelled, registered, waiting>>
    /\ CommandUnchanged

\* reject_agent_tool, or confirm_agent_tool after the confirmation ran out
RefuseTool(t) ==
    /\ MainIdle /\ t \in waiting
    /\ waiting' = waiting \ {t}
    /\ CancelTasks({t})
    /\ UNCHANGED <<enabled, approval, safe, thread, cancelled, registered>>
    /\ CommandUnchanged

\* confirm_agent_tool: the tool runs, then the Provider is called again.
ConfirmTool(t) ==
    /\ MainIdle /\ ~safe /\ t \in waiting
    /\ waiting' = waiting \ {t}
    /\ \E pc \in {"call", "failed"} :
          /\ thread' = [thread EXCEPT ![Main] =
                [Idle EXCEPT !.pc = pc, !.run = t[1], !.step = t[2], !.later = TRUE]]
    /\ Sound
    /\ UNCHANGED <<enabled, approval, task, safe, cancelled, registered, revoked>>
    /\ CommandUnchanged

\* reconcile_indeterminate_cost: the user enters an amount, a statement of the
\* Provider or an estimate; it is compared with nothing.
Reconcile(r, k) ==
    /\ MainIdle /\ task[r][k].cost = "indeterminate"
    /\ \E amount \in Amounts :
          task' = [task EXCEPT ![r][k] = [SettledAt(@, amount) EXCEPT !.reconciled = TRUE]]
    /\ Sound
    /\ UNCHANGED <<enabled, approval, safe, thread, cancelled, registered, waiting,
                   revoked>>
    /\ CommandUnchanged

\* enter_safe_mode and its convergence, as far as automations go
EnterSafe ==
    /\ MainIdle /\ ~safe
    /\ safe' = TRUE
    /\ Relisten(FALSE)
    /\ waiting' = {}
    /\ CancelTasks(waiting)
    /\ UNCHANGED <<enabled, approval>>
    /\ CommandUnchanged

ExitSafe ==
    /\ MainIdle /\ safe
    /\ safe' = FALSE
    /\ Relisten(enabled)
    /\ Sound
    /\ UNCHANGED <<enabled, approval, task, waiting, revoked>>
    /\ CommandUnchanged

-----------------------------------------------------------------------------
(* The process dies; the next one settles the rows it finds, one repository *)
(* after the other, before it listens to events and takes commands.         *)

Crash ==
    /\ phase # "down" /\ crashes < MaxCrashes
    /\ crashes' = crashes + 1
    /\ phase' = "down"
    /\ thread' = [p \in DOMAIN thread |-> IF p = Main THEN Idle ELSE Unused]
    /\ cancelled' = {} /\ registered' = Nobody /\ waiting' = {} /\ revoked' = {}
    /\ safe' = FALSE
    /\ UNCHANGED <<rows, faults>>

RecoveryUnchanged ==
    UNCHANGED <<enabled, cancelled, waiting, revoked, crashes>>

\* recover_running
RecoverRuns ==
    /\ phase = "down" /\ phase' = "agents"
    /\ journal' = [r \in Runs |-> IF journal[r] = "running" THEN "interrupted" ELSE journal[r]]
    /\ Sound
    /\ UNCHANGED <<lease, approval, task, safe, thread, registered>>
    /\ RecoveryUnchanged

Active(t) == t.status \in Live

\* recover_active; a refused write ends the startup.
RecoverTasks ==
    /\ phase = "agents"
    /\ \/ /\ phase' = "governance" /\ Sound
          /\ task' = [r \in Runs |-> [k \in Tries |->
                IF Active(task[r][k]) THEN [task[r][k] EXCEPT !.status = "interrupted"]
                ELSE task[r][k]]]
       \/ phase' = "down" /\ UNCHANGED task /\ Fault
    /\ UNCHANGED <<journal, lease, approval, safe, thread, registered>>
    /\ RecoveryUnchanged

\* SqliteAutomationGovernance::recover; a reservation that carries a later
\* time than the clock shows stays as it is.
RecoverCosts ==
    /\ phase = "governance" /\ phase' = "approvals"
    /\ lease' = {}
    /\ \/ /\ task' = [r \in Runs |-> [k \in Tries |->
                IF task[r][k].cost = "reserved" THEN Doubtful(task[r][k]) ELSE task[r][k]]]
          /\ Sound
       \/ UNCHANGED task /\ Fault
    /\ UNCHANGED <<journal, approval, safe, thread, registered>>
    /\ RecoveryUnchanged

\* SqliteAutomationApprovalJournal::recover; a refused write ends the startup.
RecoverApprovals ==
    /\ phase = "approvals"
    /\ \/ /\ phase' = "listening" /\ Sound
          /\ \E old \in SUBSET {r \in Runs : approval[r] = "pending"} :
                approval' = [r \in Runs |->
                   IF r \in old THEN "expired"
                   ELSE IF approval[r] = "executing" THEN "interrupted"
                   ELSE approval[r]]
       \/ phase' = "down" /\ UNCHANGED approval /\ Fault
    /\ UNCHANGED <<journal, lease, task, safe, thread, registered>>
    /\ RecoveryUnchanged

\* A process starts in normal mode.
StartListening ==
    /\ phase = "listening" /\ phase' = "up"
    /\ IF enabled
       THEN \E s \in Sessions : registered' = s /\ thread' = [thread EXCEPT ![s] = Idle]
       ELSE UNCHANGED <<registered, thread>>
    /\ Sound
    /\ UNCHANGED <<journal, lease, approval, task, safe>>
    /\ RecoveryUnchanged

-----------------------------------------------------------------------------

Step(p) ==
    \/ Admit(p)
    \/ Start(p)
    \/ Check(p)
    \/ Act(p)
    \/ Complete(p)
    \/ Release(p)

SessionStep(s) ==
    \/ TakeEvent(s)
    \/ EndSession(s)
    \/ Step(s)

MainStep ==
    \/ Step(Main)
    \/ Reserve \/ Submit \/ Call \/ Settle \/ Record \/ Doubt \/ Failed
    \/ Finish

Command ==
    \/ RunAdHoc
    \/ \E on \in BOOLEAN : SetEnabled(on)
    \/ ReplaceDefinition
    \/ \E r \in Runs : Approve(r)
    \/ \E r \in Runs : Reject(r)
    \/ \E s \in Sessions : CancelRun(s)
    \/ \E r \in Runs, k \in Tries : CancelTask(r, k)
    \/ \E t \in waiting : RefuseTool(t)
    \/ \E t \in waiting : ConfirmTool(t)
    \/ \E r \in Runs, k \in Tries : Reconcile(r, k)
    \/ EnterSafe
    \/ ExitSafe

Recover ==
    \/ RecoverRuns
    \/ RecoverTasks
    \/ RecoverCosts
    \/ RecoverApprovals
    \/ StartListening

Next ==
    \/ \E s \in Sessions : SessionStep(s)
    \/ MainStep
    \/ Command
    \/ Recover
    \/ Crash

Spec == Init /\ [][Next]_vars

-----------------------------------------------------------------------------
(* Correctness.                                                            *)

TaskStatus == {"none", "submitted", "waiting", "completed", "failed", "cancelled",
               "interrupted"}
Task == [status : TaskStatus, cost : {"none", "reserved", "settled", "indeterminate"},
         actual : Amounts, reconciled : BOOLEAN, called : BOOLEAN, bill : Amounts]
ThreadState ==
    [pc : {"unused", "idle", "admit", "start", "check", "act", "reserve",
           "submit", "call", "settle", "suspend", "completed", "doubt", "failed",
           "complete", "release", "finish", "end"},
     run : Runs \cup {NoRun}, step : Nat, good : BOOLEAN, later : BOOLEAN]

\* Rows satisfy their tables; one run at a time holds a lease (its policy
\* allows one), and only the main thread runs Agent tasks.
TypeOK ==
    /\ enabled \in BOOLEAN /\ safe \in BOOLEAN
    /\ journal \in [Runs -> {"none", "running", "completed", "interrupted"}]
    /\ lease \subseteq Runs /\ Cardinality(lease) <= 1
    /\ approval \in [Runs -> {"none", "pending", "executing", "completed", "failed",
                              "rejected", "expired", "interrupted"}]
    /\ task \in [Runs -> [Tries -> Task]]
    /\ phase \in {"down", "agents", "governance", "approvals", "listening", "up"}
    /\ thread \in [{Main} \cup Sessions -> ThreadState]
    /\ cancelled \subseteq Sessions /\ registered \in Sessions \cup {Nobody}
    /\ waiting \subseteq Runs \X Tries /\ revoked \subseteq Runs \X Tries
    /\ \A s \in Sessions : thread[s].pc \notin {"reserve", "submit", "call", "settle"}

\* Whoever listens can be stopped: a thread that is not cancelled is the one
\* registered for the automation, which is enabled and not in safe mode, so
\* that the next stop reaches it however threads end and commands start others
\* in between.  (A thread that is not registered would run the automation
\* until the process ends.)
ListenersAreControlled ==
    \A s \in Sessions : Alive(s) /\ s \notin cancelled =>
        registered = s /\ enabled /\ ~safe

\* Every Provider call is journalled, and what it cost is never forgotten: until
\* a user has reconciled its row, the ledger holds exactly its bill, when that
\* was within the reservation, or the whole reservation, through failed writes,
\* retries, crashes and restarts (AAG-001).
CallsAreCharged ==
    \A r \in Runs, k \in Tries : LET t == task[r][k] IN t.called =>
        /\ t.status # "none" /\ journal[r] # "none"
        /\ \/ t.cost \in {"reserved", "indeterminate"}
           \/ t.cost = "settled" /\ t.actual = t.bill /\ t.bill <= 1
           \/ t.cost = "settled" /\ t.reconciled

\* What a user entered above the reservations of the attempts.
Excess ==
    Cardinality({u \in CommittedUnits : u[3] > 1 /\ task[u[1]][u[2]].reconciled})

\* What runs reserve, settle, leave in doubt and have reconciled together stays
\* within the budget of the day, however failures and restarts interleave; only
\* what a user entered above a reservation goes beyond it.
CommittedWithinBudget == Committed <= DailyBudget + Excess

\* An action of a run reaches the Provider through one task at most, whatever
\* attempt of it fails where (AAG-008).
OneTaskPerAction ==
    \A r \in Runs : Cardinality({k \in Tries : task[r][k].called}) <= 1

\* A risky run begins only under an approval in force, once.
Decision(r) ==
    CASE approval[r] = "none" -> "none"
      [] approval[r] = "pending" -> "pending"
      [] approval[r] = "executing" -> "granted"
      [] approval[r] \in {"rejected", "expired"} -> "refused"
      [] approval[r] \in {"completed", "failed", "interrupted"} -> "spent"
Gate == INSTANCE ApprovalGate WITH
    Requests <- Runs,
    decision <- [r \in Runs |-> Decision(r)],
    begun <- {r \in Runs : NeedsApproval(r) /\ journal[r] # "none"}
ImplementsApprovalGate == Gate!Spec

\* "After the cancellation there must be no further Provider step and no
\* module side effect" (docs/FUNCTIONAL_TEST_PLAN.md:830).
CancelledTasksHaveNoEffects ==
    Agent.pc = "call" /\ Agent.later => Attempt.status # "cancelled"

=============================================================================
