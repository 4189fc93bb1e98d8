---------------------------- MODULE AutoModeJobs ----------------------------
(***************************************************************************)
(* The desktop's background jobs: the in-memory registry, the runner       *)
(* thread of each job, and the main thread that starts, pauses, cancels    *)
(* and drains them.                                                        *)
(*                                                                         *)
(*   apps/desktop/src-tauri/src/auto_mode_jobs.rs    AutoModeJobSupervisor *)
(*   apps/desktop/src-tauri/src/auto_mode_runner.rs  run, run_inner        *)
(*   apps/desktop/src-tauri/src/lib.rs               commands, safe mode   *)
(*                                                                         *)
(* Every registry call is one step under its mutex and reads the clock     *)
(* just before; the clock may go back.  The commands are not async, so     *)
(* the main thread runs them one at a time and blocks while it drains.     *)
(* The durable turn pipeline is the one of AutoModeTurns, seen from here   *)
(* as one row per session that every write compares before it swaps.       *)
(***************************************************************************)
EXTENDS Integers

CONSTANTS
    Jobs,       \* job identities the process may hand out
    Sessions,   \* persistent Auto Mode sessions
    Times,      \* readings of the wall clock, in milliseconds
    MaxBatch,   \* request.max_turns_per_batch
    MaxSeq,     \* bound: last checkpoint sequence explored
    None        \* no job

ASSUME JobsAssumption == None \notin Jobs
ASSUME BoundsAssumption ==
    Times \subseteq Nat /\ MaxBatch \in Nat \ {0} /\ MaxSeq \in Nat

VARIABLES
    jobs,     \* registry: the snapshot and the control cell of each job
    active,   \* registry: the job that reserves each session
    runner,   \* the thread of each job
    row,      \* the durable session, checkpoint sequence and attempt
    main,     \* the main thread: idle, or draining the runners
    safe,     \* SafetyService is in safe mode
    done,     \* history: turns of each job that were durably committed
    late      \* history: jobs whose outcome a clock gone back kept from the registry

registry == <<jobs, active>>
desktop  == <<main, safe>>
history  == <<done, late>>
vars     == <<registry, runner, row, desktop, history>>

Terminal == {"Paused", "Completed", "Cancelled", "Failed", "Indeterminate"}
Live     == {"Starting", "Running", "Pausing", "Cancelling"}
Controls == {"Continue", "Pause", "Cancel"}
Phases ==
    {"none",      \* no thread
     "spawned",   \* about to look at its control cell
     "mark",      \* no control seen, about to mark_running
     "recover",   \* about to recover and resume the session
     "loop",      \* between two batches
     "turn",      \* in a batch, about to preflight and begin a turn
     "call",      \* attempt begun, about to call the Provider
     "reply",     \* Provider called, its result about to be committed
     "record",    \* batch over, about to record_batch
     "finish",    \* about to publish its outcome
     "fail",      \* an error reached run(), which publishes it
     "ended"}     \* the thread returned

NoAttempt == [owner |-> None, known |-> TRUE]
NoJob == [status |-> "none", session |-> None, control |-> "Continue",
          turns |-> 0, updated |-> 0]
NoThread == [pc |-> "none", seq |-> 0, batch |-> 0, stop |-> "none"]

SessionOf(j) == jobs[j].session
At(j, pc) == runner[j].pc = pc
Goto(j, pc) == runner' = [runner EXCEPT ![j].pc = pc]
End(j) == runner' = [runner EXCEPT ![j] = [NoThread EXCEPT !.pc = "ended"]]
StopWith(j, pc, status) ==
    runner' = [runner EXCEPT ![j].pc = pc, ![j].stop = status]

Init ==
    /\ jobs = [j \in Jobs |-> NoJob]
    /\ active = [s \in Sessions |-> None]
    /\ runner = [j \in Jobs |-> NoThread]
    /\ row = [s \in Sessions |-> [status |-> "Paused", seq |-> 1, attempt |-> NoAttempt]]
    /\ main = "idle" /\ safe = FALSE
    /\ done = [j \in Jobs |-> 0] /\ late = {}

-----------------------------------------------------------------------------
\* AutoModeJobSupervisor: what each call does, given its clock reading.

InTime(j, now) == now >= jobs[j].updated
Running == {"Running", "Pausing", "Cancelling"}

\* finish: refused for a job that already is terminal.
FinishableAnyStatus(j, now) == InTime(j, now)   \* mutant: a late runner may finish
Finishable(j, now) == jobs[j].status \in Live /\ InTime(j, now)

Publish(j, status, now) ==
    /\ jobs' = [jobs EXCEPT ![j].status = status, ![j].updated = now]
    /\ active' = [active EXCEPT ![SessionOf(j)] = None]

\* record_batch
RecordableAnyStatus(j, now) == InTime(j, now)   \* mutant: whatever the status
Recordable(j, now) == jobs[j].status \in Running /\ InTime(j, now)

\* mark_running
MarkableAnyStatus(j, now) == InTime(j, now)   \* mutant: the control cell is not raced
Markable(j, now) == jobs[j].status = "Starting" /\ InTime(j, now)

\* request_pause, request_cancel: Cancel overrides Pause and nothing else.
Controllable(j, now) ==
    jobs[j].status \in {"Starting", "Running", "Pausing"} /\ InTime(j, now)

RequestStatus == [Pause |-> "Pausing", Cancel |-> "Cancelling"]

-----------------------------------------------------------------------------
\* start_auto_mode_job

Free(j, s) == jobs[j].status = "none" /\ active[s] = None

Started(s, now) == [NoJob EXCEPT !.status = "Starting", !.session = s, !.updated = now]

Start(j, s) ==
    /\ main = "idle" /\ ~safe
    /\ Free(j, s)
    /\ \E now \in Times : jobs' = [jobs EXCEPT ![j] = Started(s, now)]
    /\ active' = [active EXCEPT ![s] = j]
    /\ Goto(j, "spawned")
    /\ UNCHANGED <<row, desktop, history>>

\* The thread cannot be spawned: the job is finished at once, unless the
\* clock went back, which nobody notices.
StartFails(j, s) ==
    /\ main = "idle" /\ ~safe
    /\ Free(j, s)
    /\ \E now, then \in Times :
         IF then >= now
         THEN /\ jobs' = [jobs EXCEPT ![j] = [Started(s, then) EXCEPT !.status = "Failed"]]
              /\ UNCHANGED <<active, late>>
         ELSE /\ jobs' = [jobs EXCEPT ![j] = Started(s, now)]
              /\ active' = [active EXCEPT ![s] = j]
              /\ late' = late \cup {j}
    /\ End(j)
    /\ UNCHANGED <<row, desktop, done>>

\* pause_auto_mode_job, cancel_auto_mode_job: the control cell, and the flag
\* the Provider call polls, are set with the status.
Request(j, control) ==
    /\ main = "idle" /\ ~safe
    /\ \E now \in Times :
         /\ Controllable(j, now)
         /\ jobs' = [jobs EXCEPT ![j].control = control,
                                 ![j].status = RequestStatus[control],
                                 ![j].updated = now]
    /\ UNCHANGED <<active, runner, row, desktop, history>>

-----------------------------------------------------------------------------
\* quiesce_auto_mode_jobs, on entering safe mode and on exit.

LiveJobs == {active[s] : s \in Sessions} \ {None}
TooLate(now) == {j \in LiveJobs : ~InTime(j, now)}

\* request_cancel_all visits the jobs in hash order and stops at the first
\* whose timestamp is in the future; the ones before it stay cancelled.
Cancelled(some, now) ==
    jobs' = [j \in Jobs |->
               IF j \in some
               THEN [jobs[j] EXCEPT !.control = "Cancel", !.status = "Cancelling",
                                    !.updated = now]
               ELSE jobs[j]]

EnterSafeMode ==
    /\ main = "idle" /\ ~safe
    /\ safe' = TRUE
    /\ \E now \in Times :
         \/ TooLate(now) = {} /\ Cancelled(LiveJobs, now) /\ main' = "draining"
         \/ /\ TooLate(now) # {}
            /\ \E some \in SUBSET (LiveJobs \ TooLate(now)) : Cancelled(some, now)
            /\ UNCHANGED main
    /\ UNCHANGED <<active, runner, row, history>>

\* wait_for_idle returns: everything ended, or the timeout passed and
\* mark_active_indeterminate isolates what is left, the same way.
Isolated(some, now) ==
    jobs' = [j \in Jobs |->
               IF j \in some THEN [jobs[j] EXCEPT !.status = "Indeterminate", !.updated = now]
               ELSE jobs[j]]

StopDraining ==
    /\ main = "draining"
    /\ main' = "idle"
    /\ \E now \in Times :
         \/ /\ TooLate(now) = {}
            /\ Isolated(LiveJobs, now)
            /\ active' = [s \in Sessions |-> None]
            /\ UNCHANGED late
         \/ /\ TooLate(now) # {}
            /\ \E some \in SUBSET (LiveJobs \ TooLate(now)) : Isolated(some, now)
            /\ late' = late \cup LiveJobs
            /\ UNCHANGED active
    /\ UNCHANGED <<runner, row, safe, done>>

ExitSafeMode ==
    /\ main = "idle" /\ safe
    /\ safe' = FALSE
    /\ UNCHANGED <<registry, runner, row, main, history>>

\* resolve_auto_mode_attempt: the user decides an attempt of unknown outcome.
Resolve(s) ==
    /\ main = "idle"
    /\ ~row[s].attempt.known
    /\ \E status \in {"Paused", "Cancelled"} :
         row' = [row EXCEPT ![s] = [status |-> status, seq |-> @.seq + 1,
                                    attempt |-> NoAttempt]]
    /\ UNCHANGED <<registry, runner, desktop, history>>

-----------------------------------------------------------------------------
\* The runner of job j.

CheckControl(j) ==
    /\ At(j, "spawned")
    /\ Goto(j, IF jobs[j].control = "Continue" THEN "mark" ELSE "recover")
    /\ UNCHANGED <<registry, row, desktop, history>>

\* A pause that arrives after the check makes mark_running fail, and the job
\* with it.
MarkRunning(j) ==
    /\ At(j, "mark")
    /\ \E now \in Times :
         IF Markable(j, now)
         THEN /\ jobs' = [jobs EXCEPT ![j].status = "Running", ![j].updated = now]
              /\ Goto(j, "recover")
         ELSE StopWith(j, "fail", "Failed") /\ UNCHANGED jobs
    /\ UNCHANGED <<active, row, desktop, history>>

\* recover_turn.  An attempt left by somebody else is marked unknown; any
\* other reason to fail (files, Goal, a race) leaves the row alone.
Recover(j) ==
    LET s == SessionOf(j) IN
    /\ At(j, "recover")
    /\ \/ /\ row[s].status = "Paused" /\ row[s].attempt = NoAttempt
          /\ row[s].seq < MaxSeq
          /\ row' = [row EXCEPT ![s].status = "Running", ![s].seq = @ + 1]
          /\ runner' = [runner EXCEPT ![j].pc = "loop", ![j].seq = row[s].seq + 1]
       \/ /\ row' = IF row[s].status = "Paused" /\ row[s].attempt.owner # None
                    THEN [row EXCEPT ![s].attempt.known = FALSE] ELSE row
          /\ StopWith(j, "fail", "Failed")
    /\ UNCHANGED <<registry, desktop, history>>

BeginBatchKeepsCount(j) ==  \* mutant: the batch counter is not reset
    /\ At(j, "loop")
    /\ jobs[j].control = "Continue"
    /\ Goto(j, "turn")
    /\ UNCHANGED <<registry, row, desktop, history>>

\* Between two batches the control cell decides.
BeginBatch(j) ==
    /\ At(j, "loop")
    /\ jobs[j].control = "Continue"
    /\ runner' = [runner EXCEPT ![j].pc = "turn", ![j].batch = 0]
    /\ UNCHANGED <<registry, row, desktop, history>>

\* What every durable write of a turn compares.
Current(j) ==
    row[SessionOf(j)].status = "Running" /\ row[SessionOf(j)].seq = runner[j].seq

ControlOutcome == [Pause |-> "Paused", Cancel |-> "Cancelled"]

CommitControlBlind(j) ==  \* mutant: publishes although the commit conflicted
    /\ At(j, "loop")
    /\ jobs[j].control # "Continue"
    /\ UNCHANGED row
    /\ runner' = [runner EXCEPT ![j].pc = "record", ![j].batch = 0,
                                ![j].stop = ControlOutcome[jobs[j].control]]
    /\ UNCHANGED <<registry, desktop, history>>

\* commit_requested_control: the session first, then the snapshot.
CommitControl(j) ==
    LET s == SessionOf(j)
        status == ControlOutcome[jobs[j].control]
    IN
    /\ At(j, "loop")
    /\ jobs[j].control # "Continue"
    /\ \/ /\ Current(j)
          /\ row' = [row EXCEPT ![s].status = status, ![s].seq = @ + 1]
          /\ runner' = [runner EXCEPT ![j].pc = "record", ![j].batch = 0,
                                      ![j].stop = status]
       \/ UNCHANGED row /\ StopWith(j, "fail", "Failed")
    /\ UNCHANGED <<registry, desktop, history>>

-----------------------------------------------------------------------------
\* One turn of a batch: preflight, begin, call, commit.

TurnCommitted(j, status) ==
    /\ row' = [row EXCEPT ![SessionOf(j)] =
                 [status |-> status, seq |-> @.seq + 1, attempt |-> NoAttempt]]
    /\ done' = [done EXCEPT ![j] = @ + 1]

BeginTurn(j) ==
    /\ At(j, "turn")
    /\ Current(j) /\ row[SessionOf(j)].attempt = NoAttempt
    /\ runner[j].seq < MaxSeq
    /\ row' = [row EXCEPT ![SessionOf(j)].attempt = [owner |-> j, known |-> TRUE]]
    /\ Goto(j, "call")
    /\ UNCHANGED <<registry, desktop, history>>

\* Changed files end the batch with a durable pause, counted as a turn.
TurnDrifts(j) ==
    /\ At(j, "turn")
    /\ Current(j)
    /\ row[SessionOf(j)].attempt = NoAttempt
    /\ TurnCommitted(j, "Paused")
    /\ runner' = [runner EXCEPT ![j].pc = "record", ![j].batch = @ + 1,
                                ![j].stop = "Paused"]
    /\ UNCHANGED <<registry, desktop, late>>

\* Preflight, context preparation or begin fail: an error, nothing written.
TurnRefused(j) ==
    /\ At(j, "turn")
    /\ StopWith(j, "fail", "Failed")
    /\ UNCHANGED <<registry, row, desktop, history>>

\* Quarantine of the attempt, when it is this runner's and still open.
MarkUnknown(j) ==
    row' = IF row[SessionOf(j)].attempt.owner = j
           THEN [row EXCEPT ![SessionOf(j)].attempt.known = FALSE] ELSE row

\* A Provider call is refused once the job's cancellation flag is set.
Call(j) ==
    /\ At(j, "call")
    /\ jobs[j].control = "Continue"
    /\ Goto(j, "reply")
    /\ UNCHANGED <<registry, row, desktop, history>>

\* Refused, or failed in flight: ExecutionIndeterminate.
CallFails(j) ==
    /\ At(j, "call") \/ At(j, "reply")
    /\ MarkUnknown(j) \/ UNCHANGED row
    /\ StopWith(j, "fail", "Indeterminate")
    /\ UNCHANGED <<registry, desktop, history>>

Mine(j) == row[SessionOf(j)].attempt = [owner |-> j, known |-> TRUE]

\* A pause decided before the call (budget) or after it (confirmation).
TurnPauses(j) ==
    /\ At(j, "call") \/ At(j, "reply")
    /\ Current(j) /\ Mine(j)
    /\ TurnCommitted(j, "Paused")
    /\ runner' = [runner EXCEPT ![j].pc = "record", ![j].batch = @ + 1,
                                ![j].stop = "Paused"]
    /\ UNCHANGED <<registry, desktop, late>>

TurnCompletes(j) ==
    /\ At(j, "reply")
    /\ Current(j) /\ Mine(j)
    /\ TurnCommitted(j, "Completed")
    /\ runner' = [runner EXCEPT ![j].pc = "record", ![j].batch = @ + 1,
                                ![j].stop = "Completed"]
    /\ UNCHANGED <<registry, desktop, late>>

\* The batch goes on, without a look at the control cell, or yields.
TurnContinues(j) ==
    /\ At(j, "reply")
    /\ Current(j) /\ Mine(j)
    /\ TurnCommitted(j, "Running")
    /\ runner' = [runner EXCEPT ![j] =
         [pc |-> IF @.batch + 1 < MaxBatch THEN "turn" ELSE "record",
          seq |-> @.seq + 1, batch |-> @.batch + 1, stop |-> "none"]]
    /\ UNCHANGED <<registry, desktop, late>>

\* The commit conflicts or is refused; loop_failure calls this Failed.
CommitFails(j) ==
    /\ At(j, "call") \/ At(j, "reply")
    /\ MarkUnknown(j) \/ UNCHANGED row
    /\ StopWith(j, "fail", "Failed")
    /\ UNCHANGED <<registry, desktop, history>>

-----------------------------------------------------------------------------
\* record_batch after a batch, and after a committed control.
RecordBatch(j) ==
    /\ At(j, "record")
    /\ \E now \in Times :
         IF Recordable(j, now)
         THEN /\ jobs' = [jobs EXCEPT ![j].turns = @ + runner[j].batch, ![j].updated = now]
              /\ Goto(j, IF runner[j].stop = "none" THEN "loop" ELSE "finish")
         ELSE StopWith(j, "fail", "Failed") /\ UNCHANGED jobs
    /\ UNCHANGED <<active, row, desktop, history>>

FinishSpins(j) ==  \* mutant: a rejected outcome is published again and again
    /\ At(j, "finish")
    /\ \E now \in Times :
         IF Finishable(j, now)
         THEN Publish(j, runner[j].stop, now) /\ End(j)
         ELSE UNCHANGED <<registry, runner>>
    /\ UNCHANGED <<row, desktop, history>>

Finish(j) ==
    /\ At(j, "finish")
    /\ \E now \in Times :
         IF Finishable(j, now)
         THEN Publish(j, runner[j].stop, now) /\ End(j)
         ELSE StopWith(j, "fail", "Failed") /\ UNCHANGED registry
    /\ UNCHANGED <<row, desktop, history>>

FailSilently(j) ==  \* mutant: run() returns without publishing the error
    /\ At(j, "fail")
    /\ End(j)
    /\ UNCHANGED <<registry, row, desktop, history>>

\* run(): the error is published; whether that worked is not looked at.
Fail(j) ==
    /\ At(j, "fail")
    /\ \E now \in Times :
         IF Finishable(j, now)
         THEN Publish(j, runner[j].stop, now) /\ UNCHANGED late
         ELSE UNCHANGED registry /\ late' = IF InTime(j, now) THEN late ELSE late \cup {j}
    /\ End(j)
    /\ UNCHANGED <<row, desktop, done>>

RunnerStep(j) ==
    \/ CheckControl(j) \/ MarkRunning(j) \/ Recover(j) \/ BeginBatch(j)
    \/ CommitControl(j) \/ BeginTurn(j) \/ TurnDrifts(j) \/ TurnRefused(j)
    \/ Call(j) \/ CallFails(j) \/ TurnPauses(j) \/ TurnCompletes(j)
    \/ TurnContinues(j) \/ CommitFails(j) \/ RecordBatch(j) \/ Finish(j) \/ Fail(j)

MainStep ==
    \/ \E j \in Jobs, s \in Sessions : Start(j, s) \/ StartFails(j, s)
    \/ \E j \in Jobs, control \in {"Pause", "Cancel"} : Request(j, control)
    \/ EnterSafeMode \/ StopDraining \/ ExitSafeMode
    \/ \E s \in Sessions : Resolve(s)

Next == MainStep \/ \E j \in Jobs : RunnerStep(j)

Spec == Init /\ [][Next]_vars

\* The threads run; the drain is bounded by its timeout.  Users need not act.
Fairness ==
    /\ \A j \in Jobs : WF_vars(RunnerStep(j))
    /\ WF_vars(StopDraining)

FairSpec == Spec /\ Fairness

-----------------------------------------------------------------------------
\* Every part of the registry and every thread has its type.
TypeOK ==
    /\ jobs \in [Jobs -> [status : Live \cup Terminal \cup {"none"},
                          session : Sessions \cup {None}, control : Controls,
                          turns : Nat, updated : Times \cup {0}]]
    /\ active \in [Sessions -> Jobs \cup {None}]
    /\ runner \in [Jobs -> [pc : Phases, seq : 0..MaxSeq, batch : 0..MaxBatch,
                            stop : Terminal \cup {"none"}]]
    /\ row \in [Sessions -> [status : {"Running", "Paused", "Completed", "Cancelled"},
                             seq : Nat,
                             attempt : [owner : Jobs \cup {None}, known : BOOLEAN]]]
    /\ main \in {"idle", "draining"} /\ safe \in BOOLEAN
    /\ done \in [Jobs -> Nat] /\ late \subseteq Jobs

\* A job that is not terminal reserves its session, so that the next drain
\* sees it and no second job is started beside it.  The runner of a job that
\* was given up must not release the reservation of its successor.
LiveJobsAreRegistered ==
    \A j \in Jobs : jobs[j].status \in Live => active[SessionOf(j)] = j

\* What the user sees is what the runner is told: a published pause or
\* cancellation is in the control cell, and nothing publishes Running over it.
ControlIsPublished ==
    \A j \in Jobs :
        /\ jobs[j].status \in {"Starting", "Running"} => jobs[j].control = "Continue"
        /\ jobs[j].status = "Pausing" => jobs[j].control = "Pause"
        /\ jobs[j].status = "Cancelling" => jobs[j].control = "Cancel"

\* A job that reports completion or cancellation reports what is durable.
OutcomesAreDurable ==
    \A j \in Jobs : jobs[j].status \in {"Completed", "Cancelled"} =>
        row[SessionOf(j)].status = jobs[j].status

\* A thread that returned has released its session, unless the clock went
\* back under its last call.
EndedRunnersAreReleased ==
    \A j \in Jobs : At(j, "ended") /\ j \notin late => jobs[j].status \in Terminal

\* The published outcome of a job is final: a runner that comes late, after
\* the drain gave it up, changes neither status nor counters.  A drain that
\* the clock stopped half-way is the exception: what it isolated is still
\* registered, and the next drain turns it back into a cancellation.
OutcomesAreFinal ==
    [][\A j \in Jobs \ late : jobs[j].status \in Terminal => jobs'[j] = jobs[j]]_vars

\* A runner that was told to stop returns.
ControlledRunnersEnd ==
    \A j \in Jobs : jobs[j].control # "Continue" ~> At(j, "ended")

-----------------------------------------------------------------------------
\* What the repository's documents say and the code does not keep.

\* AGT-116: turns committed in a batch during which a pause or a cancellation
\* was requested are in the snapshot when the job converges.
CommittedTurnsAreRecorded ==
    [][\A j \in Jobs :
         /\ jobs[j].control # "Continue" /\ jobs[j].status \in Live
         /\ At(j, "finish") \/ At(j, "fail")
         /\ jobs'[j].status \in Terminal
         => jobs'[j].turns = done[j]]_vars

\* AGT-113: a cancellation of all jobs that meets a clock gone backwards is
\* rejected as a whole.
CancelAllRejectsAsAWhole ==
    [][main = "idle" /\ main' = "idle" /\ safe' /\ ~safe => jobs' = jobs]_vars

=============================================================================
