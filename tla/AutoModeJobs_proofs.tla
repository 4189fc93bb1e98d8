------------------------- MODULE AutoModeJobs_proofs -------------------------
(***************************************************************************)
(* The safety of the background jobs for any jobs, sessions and readings   *)
(* of the clock.  TypeOK comes with the bounds of the runners.  JobsInv    *)
(* then strengthens the checked invariants with what a step must know: who *)
(* may still own a session and its row, and what a runner that is about to *)
(* publish an outcome has committed.                                       *)
(***************************************************************************)
EXTENDS AutoModeJobs, TLAPS

USE DEF vars, registry, desktop, history, Live, Terminal

-----------------------------------------------------------------------------
\* What is inductive on top of the types.

\* A thread belongs to a job that was started on a session, and a job that
\* was started has, or had, its thread.
JobsAreStarted ==
    \A j \in Jobs :
        /\ jobs[j].status = "none" => runner[j].pc = "none"
        /\ jobs[j].status # "none" => jobs[j].session \in Sessions /\ runner[j].pc # "none"

\* A reservation names a job of that session; one that is over is kept only
\* when the clock went back.
ReservationsName ==
    \A s \in Sessions : active[s] # None =>
        /\ jobs[active[s]].session = s
        /\ jobs[active[s]].status # "none"
        /\ active[s] \notin late => jobs[active[s]].status \in Live

\* A batch has room for the turn under way, and the row for its successor; a
\* runner that leaves knows its outcome.
HasRoom(r) ==
    /\ r.pc \in {"turn", "call", "reply"} => r.batch < MaxBatch
    /\ r.pc \in {"call", "reply"} => r.seq < MaxSeq
    /\ r.pc = "finish" => r.stop # "none"
    /\ r.pc = "fail" => r.stop \in {"Failed", "Indeterminate"}

RunnersHaveRoom == \A j \in Jobs : HasRoom(runner[j])

\* A runner about to report a completion or a cancellation has committed it.
OutcomesAreReached ==
    \A j \in Jobs :
        /\ runner[j].pc \in {"record", "finish"}
        /\ runner[j].stop \in {"Completed", "Cancelled"}
        => row[SessionOf(j)].status = runner[j].stop

\* No attempt is open on a row that is over.
SettledRowsAreClosed ==
    \A s \in Sessions :
        row[s].status \in {"Completed", "Cancelled"} => row[s].attempt = NoAttempt

\* Runners that hold a continuation, and those of them between two turns.
Between(r) == r.pc \in {"loop", "turn"} \/ (r.pc = "record" /\ r.stop = "none")
Holds(r) == Between(r) \/ r.pc \in {"call", "reply"}

\* No continuation is ahead of its row, no two of one session are the same,
\* and one that is current between two turns finds no attempt open.
HoldersAreApart ==
    \A j \in Jobs : Holds(runner[j]) =>
        /\ runner[j].seq <= row[SessionOf(j)].seq
        /\ \A k \in Jobs \ {j} : Holds(runner[k]) /\ SessionOf(k) = SessionOf(j)
              => runner[k].seq # runner[j].seq
        /\ Between(runner[j]) /\ Current(j) => row[SessionOf(j)].attempt = NoAttempt

JobsInv ==
    /\ TypeOK
    /\ JobsAreStarted
    /\ RunnersHaveRoom
    /\ ReservationsName
    /\ LiveJobsAreRegistered
    /\ ControlIsPublished
    /\ EndedRunnersAreReleased
    /\ SettledRowsAreClosed
    /\ HoldersAreApart
    /\ OutcomesAreReached
    /\ OutcomesAreDurable

-----------------------------------------------------------------------------
\* Types by name, and what the updates of the model do to them.

Job == [status : Live \cup Terminal \cup {"none"}, session : Sessions \cup {None},
        control : Controls, turns : Nat, updated : Times \cup {0}]
Runner == [pc : Phases, seq : 0..MaxSeq, batch : 0..MaxBatch, stop : Terminal \cup {"none"}]
Attempt == [owner : Jobs \cup {None}, known : BOOLEAN]
Row == [status : {"Running", "Paused", "Completed", "Cancelled"}, seq : Nat,
        attempt : Attempt]

Types ==
    /\ jobs \in [Jobs -> Job]
    /\ active \in [Sessions -> Jobs \cup {None}]
    /\ runner \in [Jobs -> Runner]
    /\ row \in [Sessions -> Row]
    /\ main \in {"idle", "draining"} /\ safe \in BOOLEAN
    /\ done \in [Jobs -> Nat] /\ late \subseteq Jobs

LEMMA TypesAreTypeOK == TypeOK = Types
  BY DEF TypeOK, Types, Job, Runner, Attempt, Row

Typed == Types /\ JobsAreStarted /\ RunnersHaveRoom

JobIs(j, status) ==
    /\ jobs' \in [Jobs -> Job]
    /\ \A k \in Jobs \ {j} : jobs'[k] = jobs[k]
    /\ jobs'[j].session = jobs[j].session /\ jobs'[j].status = status

RunnerIs(j, pc, seq, batch, stop) ==
    /\ runner' \in [Jobs -> Runner]
    /\ \A k \in Jobs \ {j} : runner'[k] = runner[k]
    /\ runner'[j].pc = pc /\ runner'[j].seq = seq
    /\ runner'[j].batch = batch /\ runner'[j].stop = stop

RowIs(s, status, seq) ==
    /\ row' \in [Sessions -> Row]
    /\ \A t \in Sessions \ {s} : row'[t] = row[t]
    /\ row'[s].status = status /\ row'[s].seq = seq

LEMMA GotoIs ==
  ASSUME NEW j \in Jobs, NEW pc \in Phases, runner \in [Jobs -> Runner], Goto(j, pc)
  PROVE  RunnerIs(j, pc, runner[j].seq, runner[j].batch, runner[j].stop)
  BY DEF Goto, Runner, RunnerIs

LEMMA StopWithIs ==
  ASSUME NEW j \in Jobs, NEW pc \in Phases, NEW stop \in Terminal,
         runner \in [Jobs -> Runner], StopWith(j, pc, stop)
  PROVE  RunnerIs(j, pc, runner[j].seq, runner[j].batch, stop)
  BY DEF StopWith, Runner, RunnerIs

LEMMA EndIs ==
  ASSUME NEW j \in Jobs, runner \in [Jobs -> Runner], End(j)
  PROVE  RunnerIs(j, "ended", 0, 0, "none")
  BY BoundsAssumption DEF End, NoThread, Runner, RunnerIs, Phases

LEMMA TakesIs ==
  ASSUME NEW j \in Jobs, NEW seq \in 0..MaxSeq, runner \in [Jobs -> Runner],
         runner' = [runner EXCEPT ![j].pc = "loop", ![j].seq = seq]
  PROVE  RunnerIs(j, "loop", seq, runner[j].batch, runner[j].stop)
  BY DEF Runner, RunnerIs, Phases

LEMMA BatchIs ==
  ASSUME NEW j \in Jobs, NEW pc \in Phases, NEW batch \in 0..MaxBatch, runner \in [Jobs -> Runner],
         runner' = [runner EXCEPT ![j].pc = pc, ![j].batch = batch]
  PROVE  RunnerIs(j, pc, runner[j].seq, batch, runner[j].stop)
  BY DEF Runner, RunnerIs

LEMMA BatchStopIs ==
  ASSUME NEW j \in Jobs, NEW pc \in Phases, NEW batch \in 0..MaxBatch,
         NEW stop \in Terminal, runner \in [Jobs -> Runner],
         runner' = [runner EXCEPT ![j].pc = pc, ![j].batch = batch, ![j].stop = stop]
  PROVE  RunnerIs(j, pc, runner[j].seq, batch, stop)
  BY DEF Runner, RunnerIs

LEMMA TurnIs ==
  ASSUME NEW j \in Jobs, NEW pc \in Phases, NEW batch \in 0..MaxBatch,
         NEW seq \in 0..MaxSeq, runner \in [Jobs -> Runner],
         runner' = [runner EXCEPT ![j] = [pc |-> pc, seq |-> seq, batch |-> batch,
                                          stop |-> "none"]]
  PROVE  RunnerIs(j, pc, seq, batch, "none")
  BY DEF Runner, RunnerIs

LEMMA StatusIs ==
  ASSUME NEW j \in Jobs, NEW status \in Live \cup Terminal, NEW now \in Times,
         jobs \in [Jobs -> Job],
         jobs' = [jobs EXCEPT ![j].status = status, ![j].updated = now]
  PROVE  JobIs(j, status) /\ jobs'[j].control = jobs[j].control
  BY DEF Job, JobIs

LEMMA RequestIs ==
  ASSUME NEW j \in Jobs, NEW status \in Live, NEW control \in Controls, NEW now \in Times,
         jobs \in [Jobs -> Job],
         jobs' = [jobs EXCEPT ![j].control = control, ![j].status = status,
                              ![j].updated = now]
  PROVE  JobIs(j, status) /\ jobs'[j].control = control
  <1>1. jobs[j] \in Job
    OBVIOUS
  <1>2. jobs'[j] = [jobs[j] EXCEPT !.control = control, !.status = status, !.updated = now]
    BY DEF Job
  <1>3. /\ jobs'[j].status = status /\ jobs'[j].session = jobs[j].session
        /\ jobs'[j].control = control
    BY <1>1, <1>2 DEF Job
  <1>4. jobs'[j] \in Job
    BY ONLY <1>1, <1>2, status \in Live, control \in Controls, now \in Times DEF Job, Live
  <1>5. DOMAIN jobs' = Jobs /\ \A k \in Jobs \ {j} : jobs'[k] = jobs[k]
    BY DEF Job
  <1>6. jobs' \in [Jobs -> Job]
    BY <1>4, <1>5
  <1> QED BY <1>3, <1>5, <1>6 DEF JobIs

LEMMA TurnsAre ==
  ASSUME NEW j \in Jobs, NEW turns \in Nat, NEW now \in Times, jobs \in [Jobs -> Job],
         jobs' = [jobs EXCEPT ![j].turns = turns, ![j].updated = now]
  PROVE  JobIs(j, jobs[j].status) /\ jobs'[j].control = jobs[j].control
  <1>1. jobs' \in [Jobs -> Job]
    BY DEF Job
  <1>2. \A k \in Jobs \ {j} : jobs'[k] = jobs[k]
    BY DEF Job
  <1>3. /\ jobs'[j].status = jobs[j].status /\ jobs'[j].session = jobs[j].session
        /\ jobs'[j].control = jobs[j].control
    BY DEF Job
  <1> QED BY <1>1, <1>2, <1>3 DEF JobIs

LEMMA AttemptIs ==
  ASSUME NEW s \in Sessions, NEW attempt \in Attempt, row \in [Sessions -> Row],
         row' = [row EXCEPT ![s].attempt = attempt]
  PROVE  RowIs(s, row[s].status, row[s].seq) /\ row'[s].attempt = attempt
  BY DEF Row, RowIs

LEMMA UnknownIs ==
  ASSUME NEW s \in Sessions, row \in [Sessions -> Row],
         row' = [row EXCEPT ![s].attempt.known = FALSE]
  PROVE  RowIs(s, row[s].status, row[s].seq)
  <1>1. row[s].attempt \in Attempt
    BY DEF Row
  <1> DEFINE attempt == [row[s].attempt EXCEPT !.known = FALSE]
  <1>2. attempt \in Attempt
    BY <1>1 DEF Attempt
  <1>3. row' = [row EXCEPT ![s].attempt = attempt]
    OBVIOUS
  <1> HIDE DEF attempt
  <1> QED BY <1>2, <1>3, AttemptIs

LEMMA AdvanceIs ==
  ASSUME NEW s \in Sessions, NEW status \in {"Running", "Paused", "Completed", "Cancelled"},
         row \in [Sessions -> Row],
         row' = [row EXCEPT ![s].status = status, ![s].seq = @ + 1]
  PROVE  RowIs(s, status, row[s].seq + 1) /\ row'[s].attempt = row[s].attempt
  BY DEF Row, RowIs

LEMMA SettleIs ==
  ASSUME NEW s \in Sessions, NEW status \in {"Running", "Paused", "Completed", "Cancelled"},
         row \in [Sessions -> Row],
         row' = [row EXCEPT ![s] = [status |-> status, seq |-> @.seq + 1,
                                    attempt |-> NoAttempt]]
  PROVE  RowIs(s, status, row[s].seq + 1) /\ row'[s].attempt = NoAttempt
  BY DEF Row, RowIs, NoAttempt, Attempt

LEMMA TurnCommittedIs ==
  ASSUME NEW j \in Jobs, SessionOf(j) \in Sessions, row \in [Sessions -> Row],
         NEW status \in {"Running", "Paused", "Completed", "Cancelled"},
         done \in [Jobs -> Nat], TurnCommitted(j, status)
  PROVE  /\ RowIs(SessionOf(j), status, row[SessionOf(j)].seq + 1)
         /\ row'[SessionOf(j)].attempt = NoAttempt
         /\ done' \in [Jobs -> Nat]
  <1>1. /\ RowIs(SessionOf(j), status, row[SessionOf(j)].seq + 1)
        /\ row'[SessionOf(j)].attempt = NoAttempt
    BY SettleIs DEF TurnCommitted
  <1>2. done' \in [Jobs -> Nat]
    BY DEF TurnCommitted
  <1> QED BY <1>1, <1>2

LEMMA MarkUnknownIs ==
  ASSUME NEW j \in Jobs, SessionOf(j) \in Sessions, row \in [Sessions -> Row],
         MarkUnknown(j)
  PROVE  \/ row' = row
         \/ /\ RowIs(SessionOf(j), row[SessionOf(j)].status, row[SessionOf(j)].seq)
            /\ row[SessionOf(j)].attempt.owner # None
  BY UnknownIs, JobsAssumption DEF MarkUnknown

-----------------------------------------------------------------------------
\* A step of a runner, as far as the invariants can tell.

Frame(j) ==
    /\ SessionOf(j) \in Sessions /\ jobs[j].status # "none"
    /\ Types'
    /\ \A k \in Jobs \ {j} : jobs'[k] = jobs[k] /\ runner'[k] = runner[k]
    /\ \A t \in Sessions \ {SessionOf(j)} : row'[t] = row[t]
    /\ jobs'[j].session = SessionOf(j) /\ jobs'[j].control = jobs[j].control
    /\ jobs'[j].status # "none" /\ runner'[j].pc # "none"
    /\ HasRoom(runner'[j])
    /\ late \subseteq late'

\* The registry: nothing visible, a start that became a run, or an outcome.
Shows(j) ==
    \/ active' = active /\ jobs'[j].status = jobs[j].status
    \/ /\ active' = active
       /\ jobs[j].status = "Starting" /\ jobs'[j].status = "Running"
    \/ /\ jobs[j].status \in Live
       /\ runner[j].pc \in {"finish", "fail"} /\ runner[j].stop # "none"
       /\ jobs'[j].status = runner[j].stop
       /\ active' = [active EXCEPT ![SessionOf(j)] = None]

\* The row: not written, taken over, quarantined, advanced, or given an attempt.
Leaves(j) ==
    /\ row' = row
    /\ Holds(runner'[j]) => Holds(runner[j]) /\ runner'[j].seq = runner[j].seq
    /\ Between(runner'[j]) => Between(runner[j])
    /\ runner'[j].pc \in {"record", "finish"} =>
         runner[j].pc \in {"record", "finish"} /\ runner'[j].stop = runner[j].stop

Takes(j) ==
    LET s == SessionOf(j) IN
    /\ row[s].status = "Paused" /\ row[s].attempt = NoAttempt
    /\ row'[s].status = "Running" /\ row'[s].seq = row[s].seq + 1
    /\ row'[s].attempt = NoAttempt
    /\ runner'[j].pc = "loop" /\ runner'[j].seq = row'[s].seq

Quarantines(j) ==
    LET s == SessionOf(j) IN
    /\ row[s].attempt.owner # None
    /\ row'[s].status = row[s].status /\ row'[s].seq = row[s].seq
    /\ runner'[j].pc = "fail"

Advances(j) ==
    LET s == SessionOf(j) IN
    /\ Holds(runner[j]) /\ Current(j)
    /\ row'[s].seq = row[s].seq + 1
    /\ \/ row'[s].attempt = NoAttempt
       \/ Between(runner[j]) /\ row'[s].attempt = row[s].attempt
    /\ \/ /\ runner'[j].pc = "record" /\ runner'[j].stop \in Terminal
          /\ row'[s].status = runner'[j].stop
       \/ /\ row'[s].status = "Running"
          /\ runner'[j].pc \in {"turn", "record"} /\ runner'[j].stop = "none"
          /\ runner'[j].seq = row'[s].seq

Begins(j) ==
    LET s == SessionOf(j) IN
    /\ Between(runner[j]) /\ Current(j)
    /\ row'[s].status = row[s].status /\ row'[s].seq = row[s].seq
    /\ runner'[j].pc = "call" /\ runner'[j].seq = runner[j].seq

Moves(j) ==
    /\ Frame(j)
    /\ Shows(j)
    /\ jobs'[j] = jobs[j] \/ row' = row
    /\ jobs[j].status \in Terminal => jobs'[j] = jobs[j]
    /\ runner'[j].pc = "ended" => jobs'[j].status \in Terminal \/ j \in late'
    /\ Leaves(j) \/ Takes(j) \/ Quarantines(j) \/ Advances(j) \/ Begins(j)

\* One step per action.  j has a thread, so it was started, on a session.
LEMMA RunnerStepMoves ==
  ASSUME Typed, NEW j \in Jobs, RunnerStep(j)
  PROVE  Moves(j)
  <1> USE DEF Between, Holds, HasRoom, At
  <1>0. Types /\ HasRoom(runner[j])
    BY DEF Typed, RunnersHaveRoom
  <1>1. /\ runner[j].pc # "none"
        /\ runner[j].seq \in 0..MaxSeq /\ runner[j].batch \in 0..MaxBatch
        /\ runner[j].stop \in Terminal \cup {"none"}
    BY <1>0 DEF Types, Runner, RunnerStep, CheckControl, MarkRunning, Recover, BeginBatch,
         CommitControl, BeginTurn, TurnDrifts, TurnRefused, Call, CallFails, TurnPauses,
         TurnCompletes, TurnContinues, CommitFails, RecordBatch, Finish, Fail
  <1>2. jobs[j].status # "none" /\ SessionOf(j) \in Sessions
    BY <1>1 DEF Typed, JobsAreStarted, SessionOf
  <1>3. /\ row[SessionOf(j)].seq \in Nat /\ row[SessionOf(j)].attempt \in Attempt
        /\ jobs[j].status \in Live \cup Terminal /\ jobs[j].control \in Controls
    BY <1>0, <1>2 DEF Types, Row, Job
  <1>4. CASE CheckControl(j)
    <2> DEFINE pc == IF jobs[j].control = "Continue" THEN "mark" ELSE "recover"
    <2>1. RunnerIs(j, pc, runner[j].seq, runner[j].batch, runner[j].stop)
      BY <1>0, <1>4, GotoIs DEF CheckControl, Phases, Types
    <2>2. pc \in {"mark", "recover"}
      OBVIOUS
    <2> HIDE DEF pc
    <2>3. UNCHANGED <<jobs, active, row, main, safe, done, late>>
      BY <1>4 DEF CheckControl
    <2> QED BY <1>0, <1>2, <2>1, <2>2, <2>3
          DEF Moves, Frame, Shows, Leaves, Types, RunnerIs, SessionOf
  <1>5. CASE MarkRunning(j)
    <2>0. UNCHANGED <<active, row, main, safe, done, late>> /\ runner[j].pc = "mark"
      BY <1>5 DEF MarkRunning
    <2>1. PICK now \in Times :
            IF Markable(j, now)
            THEN /\ jobs' = [jobs EXCEPT ![j].status = "Running", ![j].updated = now]
                 /\ Goto(j, "recover")
            ELSE StopWith(j, "fail", "Failed") /\ UNCHANGED jobs
      BY <1>5 DEF MarkRunning
    <2>2. CASE Markable(j, now)
      <3>1. JobIs(j, "Running") /\ jobs'[j].control = jobs[j].control
        BY <1>0, <2>1, <2>2, StatusIs DEF Types
      <3>2. RunnerIs(j, "recover", runner[j].seq, runner[j].batch, runner[j].stop)
        BY <1>0, <2>1, <2>2, GotoIs DEF Types, Phases
      <3>3. jobs[j].status = "Starting"
        BY <2>2 DEF Markable
      <3> QED BY <1>0, <1>2, <2>0, <3>1, <3>2, <3>3
            DEF Moves, Frame, Shows, Leaves, Types, RunnerIs, JobIs, SessionOf
    <2>3. CASE ~Markable(j, now)
      <3>1. RunnerIs(j, "fail", runner[j].seq, runner[j].batch, "Failed") /\ jobs' = jobs
        BY <1>0, <2>1, <2>3, StopWithIs DEF Types, Phases
      <3> QED BY <1>0, <1>2, <2>0, <3>1
            DEF Moves, Frame, Shows, Leaves, Types, RunnerIs, SessionOf
    <2> QED BY <2>2, <2>3
  <1>6. CASE Recover(j)
    <2> DEFINE s == SessionOf(j)
    <2>0. UNCHANGED <<jobs, active, main, safe, done, late>>
      BY <1>6 DEF Recover
    <2>1. CASE /\ row[s].status = "Paused" /\ row[s].attempt = NoAttempt
               /\ row[s].seq < MaxSeq
               /\ row' = [row EXCEPT ![s].status = "Running", ![s].seq = @ + 1]
               /\ runner' = [runner EXCEPT ![j].pc = "loop", ![j].seq = row[s].seq + 1]
      <3>1. RowIs(s, "Running", row[s].seq + 1) /\ row'[s].attempt = row[s].attempt
        BY <1>0, <1>2, <2>1, AdvanceIs DEF Types
      <3>2. RunnerIs(j, "loop", row[s].seq + 1, runner[j].batch, runner[j].stop)
        <4>1. row[s].seq + 1 \in 0..MaxSeq
          BY <1>3, <2>1, BoundsAssumption
        <4> QED BY <1>0, <2>1, <4>1, TakesIs DEF Types
      <3> QED BY <1>0, <1>2, <2>0, <2>1, <3>1, <3>2
            DEF Moves, Frame, Shows, Takes, Types, RunnerIs, RowIs, SessionOf
    <2>2. CASE /\ row' = IF row[s].status = "Paused" /\ row[s].attempt.owner # None
                         THEN [row EXCEPT ![s].attempt.known = FALSE] ELSE row
               /\ StopWith(j, "fail", "Failed")
      <3>1. RunnerIs(j, "fail", runner[j].seq, runner[j].batch, "Failed")
        BY <1>0, <2>2, StopWithIs DEF Types, Phases
      <3>2. CASE row' = row
        BY <1>0, <1>2, <2>0, <3>1, <3>2
        DEF Moves, Frame, Shows, Leaves, Types, RunnerIs, SessionOf
      <3>3. CASE row' # row
        <4>1. RowIs(s, row[s].status, row[s].seq) /\ row[s].attempt.owner # None
          BY <1>0, <1>2, <2>2, <3>3, UnknownIs DEF Types
        <4> QED BY <1>0, <1>2, <2>0, <3>1, <4>1
              DEF Moves, Frame, Shows, Quarantines, Types, RunnerIs, RowIs, SessionOf
      <3> QED BY <3>2, <3>3
    <2> QED BY <1>6, <2>1, <2>2 DEF Recover
  <1>7. CASE BeginBatch(j)
    <2>1. RunnerIs(j, "turn", runner[j].seq, 0, runner[j].stop)
      <3>1. runner' = [runner EXCEPT ![j].pc = "turn", ![j].batch = 0]
        BY <1>7 DEF BeginBatch
      <3>2. 0 \in 0..MaxBatch /\ "turn" \in Phases
        BY BoundsAssumption DEF Phases
      <3> QED BY <1>0, <3>1, <3>2, BatchIs DEF Types
    <2>2. UNCHANGED <<jobs, active, row, main, safe, done, late>> /\ runner[j].pc = "loop"
      BY <1>7 DEF BeginBatch
    <2> QED BY <1>0, <1>2, <2>1, <2>2, BoundsAssumption
          DEF Moves, Frame, Shows, Leaves, Types, RunnerIs, SessionOf
  <1>8. CASE CommitControl(j)
    <2> DEFINE s == SessionOf(j)
               status == ControlOutcome[jobs[j].control]
    <2>0. UNCHANGED <<jobs, active, main, safe, done, late>> /\ runner[j].pc = "loop"
      BY <1>8 DEF CommitControl
    <2>1. status \in {"Paused", "Cancelled"}
      BY <1>3, <1>8 DEF CommitControl, ControlOutcome, Controls
    <2> HIDE DEF status
    <2>2. CASE /\ Current(j)
               /\ row' = [row EXCEPT ![s].status = status, ![s].seq = @ + 1]
               /\ runner' = [runner EXCEPT ![j].pc = "record", ![j].batch = 0,
                                           ![j].stop = status]
      <3>1. RowIs(s, status, row[s].seq + 1) /\ row'[s].attempt = row[s].attempt
        BY <1>0, <1>2, <2>1, <2>2, AdvanceIs DEF Types
      <3>2. RunnerIs(j, "record", runner[j].seq, 0, status)
        <4>1. 0 \in 0..MaxBatch /\ "record" \in Phases /\ status \in Terminal
          BY <2>1, BoundsAssumption DEF Phases
        <4> QED BY <1>0, <2>2, <4>1, BatchStopIs DEF Types
      <3> QED BY <1>0, <1>2, <2>0, <2>1, <2>2, <3>1, <3>2
            DEF Moves, Frame, Shows, Advances, Types, RunnerIs, RowIs, SessionOf
    <2>3. CASE UNCHANGED row /\ StopWith(j, "fail", "Failed")
      <3>1. RunnerIs(j, "fail", runner[j].seq, runner[j].batch, "Failed")
        BY <1>0, <2>3, StopWithIs DEF Types, Phases
      <3> QED BY <1>0, <1>2, <2>0, <2>3, <3>1
            DEF Moves, Frame, Shows, Leaves, Types, RunnerIs, SessionOf
    <2> QED BY <1>8, <2>2, <2>3 DEF CommitControl, status
  <1>9. CASE BeginTurn(j)
    <2> DEFINE attempt == [owner |-> j, known |-> TRUE]
    <2>0. UNCHANGED <<jobs, active, main, safe, done, late>>
      BY <1>9 DEF BeginTurn
    <2>1. /\ runner[j].pc = "turn" /\ Current(j) /\ runner[j].seq < MaxSeq
          /\ row' = [row EXCEPT ![SessionOf(j)].attempt = attempt]
      BY <1>9 DEF BeginTurn
    <2>2. attempt \in Attempt
      BY DEF Attempt
    <2> HIDE DEF attempt
    <2>3. RowIs(SessionOf(j), row[SessionOf(j)].status, row[SessionOf(j)].seq)
      BY <1>0, <1>2, <2>1, <2>2, AttemptIs DEF Types
    <2>4. RunnerIs(j, "call", runner[j].seq, runner[j].batch, runner[j].stop)
      BY <1>0, <1>9, GotoIs DEF BeginTurn, Types, Phases
    <2> QED BY <1>0, <1>2, <2>0, <2>1, <2>3, <2>4
          DEF Moves, Frame, Shows, Begins, Types, RunnerIs, RowIs, SessionOf
  <1>10. CASE TurnDrifts(j)
    <2>1. RowIs(SessionOf(j), "Paused", row[SessionOf(j)].seq + 1)
          /\ row'[SessionOf(j)].attempt = NoAttempt /\ done' \in [Jobs -> Nat]
      BY <1>0, <1>2, <1>10, TurnCommittedIs DEF TurnDrifts, Types
    <2>2. RunnerIs(j, "record", runner[j].seq, runner[j].batch + 1, "Paused")
      <3>1. runner[j].batch + 1 \in 0..MaxBatch
        BY <1>0, <1>1, <1>10, BoundsAssumption DEF TurnDrifts
      <3>2. runner' = [runner EXCEPT ![j].pc = "record", ![j].batch = runner[j].batch + 1,
                                     ![j].stop = "Paused"]
        BY <1>10 DEF TurnDrifts
      <3> HIDE <1>10
      <3> QED BY <1>0, <3>1, <3>2, BatchStopIs DEF Types, Phases
    <2>3. UNCHANGED <<jobs, active, main, safe, late>>
      BY <1>10 DEF TurnDrifts
    <2>4. Current(j) /\ Holds(runner[j])
      BY <1>10 DEF TurnDrifts
    <2> QED BY <1>0, <1>2, <2>1, <2>2, <2>3, <2>4
        DEF Moves, Frame, Shows, Advances, Types, RunnerIs, RowIs, SessionOf
  <1>11. CASE TurnRefused(j)
    <2>1. RunnerIs(j, "fail", runner[j].seq, runner[j].batch, "Failed")
      BY <1>0, <1>11, StopWithIs DEF TurnRefused, Phases, Types
    <2>2. UNCHANGED <<jobs, active, row, main, safe, done, late>>
      BY <1>11 DEF TurnRefused
    <2> QED BY <1>0, <1>2, <2>1, <2>2
          DEF Moves, Frame, Shows, Leaves, Types, RunnerIs, SessionOf
  <1>12. CASE Call(j)
    <2>1. RunnerIs(j, "reply", runner[j].seq, runner[j].batch, runner[j].stop)
      BY <1>0, <1>12, GotoIs DEF Call, Phases, Types
    <2>2. UNCHANGED <<jobs, active, row, main, safe, done, late>> /\ runner[j].pc = "call"
      BY <1>12 DEF Call
    <2> QED BY <1>0, <1>2, <2>1, <2>2
          DEF Moves, Frame, Shows, Leaves, Types, RunnerIs, SessionOf
  <1>13. CASE CallFails(j)
    <2>1. RunnerIs(j, "fail", runner[j].seq, runner[j].batch, "Indeterminate")
      BY <1>0, <1>13, StopWithIs DEF CallFails, Phases, Types
    <2>2. UNCHANGED <<jobs, active, main, safe, done, late>>
      BY <1>13 DEF CallFails
    <2>3. \/ row' = row
          \/ /\ RowIs(SessionOf(j), row[SessionOf(j)].status, row[SessionOf(j)].seq)
             /\ row[SessionOf(j)].attempt.owner # None
      BY <1>0, <1>2, <1>13, MarkUnknownIs DEF CallFails, Types
    <2>4. CASE row' = row
      BY <1>0, <1>2, <2>1, <2>2, <2>4
      DEF Moves, Frame, Shows, Leaves, Types, RunnerIs, SessionOf
    <2>5. CASE row' # row
      BY <1>0, <1>2, <2>1, <2>2, <2>3, <2>5
      DEF Moves, Frame, Shows, Quarantines, Types, RunnerIs, RowIs, SessionOf
    <2> QED BY <2>4, <2>5
  <1>14. CASE TurnPauses(j)
    <2>1. RowIs(SessionOf(j), "Paused", row[SessionOf(j)].seq + 1)
          /\ row'[SessionOf(j)].attempt = NoAttempt /\ done' \in [Jobs -> Nat]
      BY <1>0, <1>2, <1>14, TurnCommittedIs DEF TurnPauses, Types
    <2>2. RunnerIs(j, "record", runner[j].seq, runner[j].batch + 1, "Paused")
      <3>1. runner[j].batch + 1 \in 0..MaxBatch
        BY <1>0, <1>1, <1>14, BoundsAssumption DEF TurnPauses
      <3>2. runner' = [runner EXCEPT ![j].pc = "record", ![j].batch = runner[j].batch + 1,
                                     ![j].stop = "Paused"]
        BY <1>14 DEF TurnPauses
      <3> HIDE <1>14
      <3> QED BY <1>0, <3>1, <3>2, BatchStopIs DEF Types, Phases
    <2>3. UNCHANGED <<jobs, active, main, safe, late>>
      BY <1>14 DEF TurnPauses
    <2>4. Current(j) /\ Holds(runner[j])
      BY <1>14 DEF TurnPauses
    <2> QED BY <1>0, <1>2, <2>1, <2>2, <2>3, <2>4
        DEF Moves, Frame, Shows, Advances, Types, RunnerIs, RowIs, SessionOf
  <1>15. CASE TurnCompletes(j)
    <2>1. RowIs(SessionOf(j), "Completed", row[SessionOf(j)].seq + 1)
          /\ row'[SessionOf(j)].attempt = NoAttempt /\ done' \in [Jobs -> Nat]
      BY <1>0, <1>2, <1>15, TurnCommittedIs DEF TurnCompletes, Types
    <2>2. RunnerIs(j, "record", runner[j].seq, runner[j].batch + 1, "Completed")
      <3>1. runner[j].batch + 1 \in 0..MaxBatch
        BY <1>0, <1>1, <1>15, BoundsAssumption DEF TurnCompletes
      <3>2. runner' = [runner EXCEPT ![j].pc = "record", ![j].batch = runner[j].batch + 1,
                                     ![j].stop = "Completed"]
        BY <1>15 DEF TurnCompletes
      <3> HIDE <1>15
      <3> QED BY <1>0, <3>1, <3>2, BatchStopIs DEF Types, Phases
    <2>3. UNCHANGED <<jobs, active, main, safe, late>>
      BY <1>15 DEF TurnCompletes
    <2>4. Current(j) /\ Holds(runner[j])
      BY <1>15 DEF TurnCompletes
    <2> QED BY <1>0, <1>2, <2>1, <2>2, <2>3, <2>4
        DEF Moves, Frame, Shows, Advances, Types, RunnerIs, RowIs, SessionOf
  <1>16. CASE TurnContinues(j)
    <2> DEFINE s == SessionOf(j)
               pc == IF runner[j].batch + 1 < MaxBatch THEN "turn" ELSE "record"
    <2>0. UNCHANGED <<jobs, active, main, safe, late>>
      BY <1>16 DEF TurnContinues
    <2>1. Current(j) /\ runner[j].pc = "reply"
      BY <1>16 DEF TurnContinues
    <2>2. RowIs(s, "Running", row[s].seq + 1) /\ row'[s].attempt = NoAttempt
          /\ done' \in [Jobs -> Nat]
      BY <1>0, <1>2, <1>16, TurnCommittedIs DEF TurnContinues, Types
    <2>3. pc \in {"turn", "record"} /\ (pc = "turn" => runner[j].batch + 1 < MaxBatch)
      OBVIOUS
    <2>4. runner[j].batch + 1 \in 0..MaxBatch /\ runner[j].seq + 1 \in 0..MaxSeq
      BY <1>0, <1>1, <2>1, BoundsAssumption
    <2>5. runner' = [runner EXCEPT ![j] = [pc |-> pc, seq |-> runner[j].seq + 1,
                                           batch |-> runner[j].batch + 1, stop |-> "none"]]
      BY <1>16 DEF TurnContinues
    <2> HIDE DEF pc
    <2>6. RunnerIs(j, pc, runner[j].seq + 1, runner[j].batch + 1, "none")
      BY <1>0, <2>3, <2>4, <2>5, TurnIs DEF Types, Phases
    <2> QED BY <1>0, <1>2, <2>0, <2>1, <2>2, <2>3, <2>6
          DEF Moves, Frame, Shows, Advances, Types, RunnerIs, RowIs, SessionOf, Current
  <1>17. CASE CommitFails(j)
    <2>1. RunnerIs(j, "fail", runner[j].seq, runner[j].batch, "Failed")
      BY <1>0, <1>17, StopWithIs DEF CommitFails, Phases, Types
    <2>2. UNCHANGED <<jobs, active, main, safe, done, late>>
      BY <1>17 DEF CommitFails
    <2>3. \/ row' = row
          \/ /\ RowIs(SessionOf(j), row[SessionOf(j)].status, row[SessionOf(j)].seq)
             /\ row[SessionOf(j)].attempt.owner # None
      BY <1>0, <1>2, <1>17, MarkUnknownIs DEF CommitFails, Types
    <2>4. CASE row' = row
      BY <1>0, <1>2, <2>1, <2>2, <2>4
      DEF Moves, Frame, Shows, Leaves, Types, RunnerIs, SessionOf
    <2>5. CASE row' # row
      BY <1>0, <1>2, <2>1, <2>2, <2>3, <2>5
      DEF Moves, Frame, Shows, Quarantines, Types, RunnerIs, RowIs, SessionOf
    <2> QED BY <2>4, <2>5
  <1>18. CASE RecordBatch(j)
    <2> DEFINE pc == IF runner[j].stop = "none" THEN "loop" ELSE "finish"
    <2>0. UNCHANGED <<active, row, main, safe, done, late>> /\ runner[j].pc = "record"
      BY <1>18 DEF RecordBatch
    <2>1. PICK now \in Times :
            IF Recordable(j, now)
            THEN /\ jobs' = [jobs EXCEPT ![j].turns = @ + runner[j].batch,
                                         ![j].updated = now]
                 /\ Goto(j, pc)
            ELSE StopWith(j, "fail", "Failed") /\ UNCHANGED jobs
      BY <1>18 DEF RecordBatch
    <2>2. pc \in {"loop", "finish"} /\ (pc = "loop" <=> runner[j].stop = "none")
      OBVIOUS
    <2> HIDE DEF pc
    <2>3. CASE Recordable(j, now)
      <3>1. PICK turns \in Nat : turns = jobs[j].turns + runner[j].batch
        BY <1>0, <1>1 DEF Types, Job
      <3>2. jobs' = [jobs EXCEPT ![j].turns = turns, ![j].updated = now]
        BY <2>1, <2>3, <3>1
      <3>3. JobIs(j, jobs[j].status) /\ jobs'[j].control = jobs[j].control
        BY <1>0, <3>2, TurnsAre DEF Types
      <3>4. RunnerIs(j, pc, runner[j].seq, runner[j].batch, runner[j].stop)
        BY <1>0, <2>1, <2>2, <2>3, GotoIs DEF Types, Phases
      <3>5. jobs[j].status \in Running
        BY <2>3 DEF Recordable
      <3> QED BY <1>0, <1>2, <2>0, <2>2, <3>3, <3>4, <3>5
            DEF Moves, Frame, Shows, Leaves, Types, RunnerIs, JobIs, SessionOf, Running
    <2>4. CASE ~Recordable(j, now)
      <3>1. RunnerIs(j, "fail", runner[j].seq, runner[j].batch, "Failed") /\ jobs' = jobs
        BY <1>0, <2>1, <2>4, StopWithIs DEF Types, Phases
      <3> QED BY <1>0, <1>2, <2>0, <3>1
            DEF Moves, Frame, Shows, Leaves, Types, RunnerIs, SessionOf
    <2> QED BY <2>3, <2>4
  <1>19. CASE Finish(j)
    <2>0. UNCHANGED <<row, main, safe, done, late>> /\ runner[j].pc = "finish"
      BY <1>19 DEF Finish
    <2>1. PICK now \in Times :
            IF Finishable(j, now)
            THEN Publish(j, runner[j].stop, now) /\ End(j)
            ELSE StopWith(j, "fail", "Failed") /\ UNCHANGED registry
      BY <1>19 DEF Finish
    <2>2. CASE Finishable(j, now)
      <3>1. RunnerIs(j, "ended", 0, 0, "none")
        BY <1>0, <2>1, <2>2, EndIs DEF Types
      <3>2. runner[j].stop \in Terminal /\ jobs[j].status \in Live
        BY <1>0, <1>1, <2>0, <2>2 DEF Finishable
      <3>3. JobIs(j, runner[j].stop) /\ jobs'[j].control = jobs[j].control
            /\ active' = [active EXCEPT ![SessionOf(j)] = None]
        BY <1>0, <2>1, <2>2, <3>2, StatusIs DEF Publish, Types
      <3> QED BY <1>0, <1>2, <2>0, <3>1, <3>2, <3>3
            DEF Moves, Frame, Shows, Leaves, Types, RunnerIs, JobIs, SessionOf
    <2>3. CASE ~Finishable(j, now)
      <3>1. RunnerIs(j, "fail", runner[j].seq, runner[j].batch, "Failed")
            /\ jobs' = jobs /\ active' = active
        BY <1>0, <2>1, <2>3, StopWithIs DEF Types, Phases
      <3> QED BY <1>0, <1>2, <2>0, <3>1
            DEF Moves, Frame, Shows, Leaves, Types, RunnerIs, SessionOf
    <2> QED BY <2>2, <2>3
  <1>20. CASE Fail(j)
    <2>0. UNCHANGED <<row, main, safe, done>> /\ runner[j].pc = "fail"
      BY <1>20 DEF Fail
    <2>1. RunnerIs(j, "ended", 0, 0, "none")
      BY <1>0, <1>20, EndIs DEF Fail, Types
    <2>2. PICK now \in Times :
            IF Finishable(j, now)
            THEN Publish(j, runner[j].stop, now) /\ UNCHANGED late
            ELSE UNCHANGED registry /\ late' = IF InTime(j, now) THEN late ELSE late \cup {j}
      BY <1>20 DEF Fail
    <2>3. CASE Finishable(j, now)
      <3>1. runner[j].stop \in Terminal /\ jobs[j].status \in Live
        BY <1>0, <1>1, <2>0, <2>3 DEF Finishable
      <3>2. JobIs(j, runner[j].stop) /\ jobs'[j].control = jobs[j].control
            /\ active' = [active EXCEPT ![SessionOf(j)] = None] /\ late' = late
        BY <1>0, <2>2, <2>3, <3>1, StatusIs DEF Publish, Types
      <3> QED BY <1>0, <1>2, <2>0, <2>1, <3>1, <3>2
            DEF Moves, Frame, Shows, Leaves, Types, RunnerIs, JobIs, SessionOf
    <2>4. CASE ~Finishable(j, now)
      <3>1. UNCHANGED <<jobs, active>> /\ (jobs[j].status \in Terminal \/ j \in late')
            /\ late \subseteq late' /\ late' \subseteq Jobs
        BY <1>0, <1>3, <2>2, <2>4 DEF Finishable, Types
      <3> QED BY <1>0, <1>2, <2>0, <2>1, <3>1
            DEF Moves, Frame, Shows, Leaves, Types, RunnerIs, SessionOf
    <2> QED BY <2>3, <2>4
  <1> QED BY <1>4, <1>5, <1>6, <1>7, <1>8, <1>9, <1>10, <1>11, <1>12, <1>13, <1>14,
             <1>15, <1>16, <1>17, <1>18, <1>19, <1>20 DEF RunnerStep

-----------------------------------------------------------------------------
\* What a step of a runner preserves.

LEMMA MovesKeepTypes ==
  ASSUME Typed, NEW j \in Jobs, Moves(j)
  PROVE  Typed'
  <1>1. \A k \in Jobs : k # j => jobs'[k] = jobs[k] /\ runner'[k] = runner[k]
    BY DEF Moves, Frame
  <1>2. /\ jobs'[j].session \in Sessions /\ jobs'[j].status # "none"
        /\ runner'[j].pc # "none" /\ HasRoom(runner'[j]) /\ Types'
    BY DEF Moves, Frame
  <1> QED BY <1>1, <1>2 DEF Typed, JobsAreStarted, RunnersHaveRoom

\* The registry: a session is released by the job it was reserved for, with
\* the outcome that job was about to publish.
LEMMA MovesKeepRegistry ==
  ASSUME Typed, ReservationsName, LiveJobsAreRegistered, ControlIsPublished,
         EndedRunnersAreReleased, NEW j \in Jobs, Moves(j)
  PROVE  /\ ReservationsName' /\ LiveJobsAreRegistered' /\ ControlIsPublished'
         /\ EndedRunnersAreReleased'
  <1> DEFINE s == SessionOf(j)
  <1>1. \A k \in Jobs : k # j => jobs'[k] = jobs[k] /\ runner'[k] = runner[k]
    BY DEF Moves, Frame
  <1>2. /\ s \in Sessions /\ jobs'[j].session = s /\ jobs[j].session = s
        /\ jobs'[j].control = jobs[j].control /\ jobs'[j].status # "none"
        /\ late \subseteq late' /\ late' \subseteq Jobs
    BY DEF Moves, Frame, Types, SessionOf
  <1>3. active \in [Sessions -> Jobs \cup {None}] /\ runner[j].stop \in Terminal \cup {"none"}
    BY DEF Typed, Types, Runner
  <1>4. Shows(j)
    BY DEF Moves
  <1>5. jobs'[j].status \in Live => jobs[j].status \in Live
    BY <1>3, <1>4 DEF Shows
  <1>6. \A t \in Sessions : active'[t] = active[t] \/ active'[t] = None
    BY <1>2, <1>3, <1>4 DEF Shows
  <1>7. ReservationsName'
    <2> SUFFICES ASSUME NEW t \in Sessions, active'[t] # None
                 PROVE  /\ jobs'[active'[t]].session = t
                        /\ jobs'[active'[t]].status # "none"
                        /\ active'[t] \notin late' => jobs'[active'[t]].status \in Live
      BY DEF ReservationsName
    <2>1. active'[t] = active[t] /\ active[t] \in Jobs
      BY <1>3, <1>6
    <2>2. /\ jobs[active[t]].session = t /\ jobs[active[t]].status # "none"
          /\ active[t] \notin late => jobs[active[t]].status \in Live
      BY <2>1 DEF ReservationsName
    <2>3. CASE active[t] # j
      BY <1>1, <1>2, <2>1, <2>2, <2>3
    <2>4. CASE active[t] = j
      <3>1. t = s
        BY <1>2, <2>2, <2>4
      <3>2. jobs[j].status \in Live => jobs'[j].status \in Live
        BY <1>2, <1>3, <1>4, <2>1, <2>4, <3>1, JobsAssumption DEF Shows
      <3> QED BY <1>2, <2>1, <2>2, <2>4, <3>1, <3>2
    <2> QED BY <2>3, <2>4
  <1>8. LiveJobsAreRegistered'
    <2> SUFFICES ASSUME NEW k \in Jobs, jobs'[k].status \in Live
                 PROVE  active'[jobs'[k].session] = k
      BY DEF LiveJobsAreRegistered, SessionOf
    <2>1. CASE k = j
      <3>1. active' = active
        BY <1>3, <1>4, <2>1 DEF Shows
      <3> QED BY <1>2, <1>5, <2>1, <3>1 DEF LiveJobsAreRegistered, SessionOf
    <2>2. CASE k # j
      <3>1. jobs[k].status \in Live /\ jobs'[k].session = jobs[k].session
            /\ jobs[k].session \in Sessions /\ active[jobs[k].session] = k
        BY <1>1, <2>2 DEF LiveJobsAreRegistered, Typed, JobsAreStarted, SessionOf
      <3>2. CASE active' = active
        BY <3>1, <3>2
      <3>3. CASE active' # active
        <4>1. jobs[j].status \in Live /\ active' = [active EXCEPT ![s] = None]
          BY <1>4, <3>3 DEF Shows
        <4>2. active[s] = j
          BY <4>1 DEF LiveJobsAreRegistered
        <4> QED BY <1>2, <1>3, <2>2, <3>1, <4>1, <4>2
      <3> QED BY <3>2, <3>3
    <2> QED BY <2>1, <2>2
  <1>9. ControlIsPublished'
    <2>1. \A k \in Jobs : k # j => jobs'[k] = jobs[k]
      BY <1>1
    <2>2. /\ jobs'[j].status \in {"Starting", "Running"} => jobs'[j].control = "Continue"
          /\ jobs'[j].status = "Pausing" => jobs'[j].control = "Pause"
          /\ jobs'[j].status = "Cancelling" => jobs'[j].control = "Cancel"
      BY <1>2, <1>3, <1>4 DEF Shows, ControlIsPublished
    <2> QED BY <2>1, <2>2 DEF ControlIsPublished
  <1>10. EndedRunnersAreReleased'
    <2>1. runner'[j].pc = "ended" => jobs'[j].status \in Terminal \/ j \in late'
      BY DEF Moves
    <2> QED BY <1>1, <1>2, <2>1 DEF EndedRunnersAreReleased, At
  <1> QED BY <1>7, <1>8, <1>9, <1>10

\* The rows: what is over stays as it is, and the continuations stay apart.
LEMMA SettledRowsStay ==
  ASSUME Typed, SettledRowsAreClosed, NEW j \in Jobs, Moves(j), NEW s \in Sessions
  PROVE  row[s].status \in {"Completed", "Cancelled"} => row'[s].status = row[s].status
  <1>1. CASE s # SessionOf(j)
    BY <1>1 DEF Moves, Frame
  <1>2. CASE s = SessionOf(j)
    <2>1. CASE Leaves(j)
      BY <2>1 DEF Leaves
    <2>2. CASE Takes(j)
      BY <1>2, <2>2 DEF Takes
    <2>3. CASE Quarantines(j)
      BY <1>2, <2>3 DEF Quarantines
    <2>4. CASE Advances(j)
      BY <1>2, <2>4 DEF Advances, Current
    <2>5. CASE Begins(j)
      BY <1>2, <2>5 DEF Begins
    <2> QED BY <2>1, <2>2, <2>3, <2>4, <2>5 DEF Moves
  <1> QED BY <1>1, <1>2

LEMMA MovesKeepRows ==
  ASSUME Typed, SettledRowsAreClosed, HoldersAreApart, OutcomesAreReached,
         OutcomesAreDurable, NEW j \in Jobs, Moves(j)
  PROVE  /\ SettledRowsAreClosed' /\ HoldersAreApart' /\ OutcomesAreReached'
         /\ OutcomesAreDurable'
  <1> DEFINE s == SessionOf(j)
  <1>1. \A k \in Jobs : k # j => jobs'[k] = jobs[k] /\ runner'[k] = runner[k]
    BY DEF Moves, Frame
  <1>2. /\ s \in Sessions /\ jobs'[j].session = s /\ jobs[j].session = s
        /\ \A t \in Sessions : t # s => row'[t] = row[t]
    BY DEF Moves, Frame, SessionOf
  <1>3. \A k \in Jobs : jobs'[k].session = jobs[k].session
    BY <1>1, <1>2
  <1>4. \A t \in Sessions : row[t].seq \in Nat /\ row'[t].seq \in Nat
    BY DEF Typed, Types, Row, Moves, Frame
  <1>5. \A k \in Jobs : runner[k].seq \in Nat /\ runner[k].stop \in Terminal \cup {"none"}
    BY BoundsAssumption DEF Typed, Types, Runner
  <1>6. \A k \in Jobs : Holds(runner[k]) => SessionOf(k) \in Sessions
    BY DEF Typed, JobsAreStarted, Holds, Between, SessionOf
  <1>7. Leaves(j) \/ Takes(j) \/ Quarantines(j) \/ Advances(j) \/ Begins(j)
    BY DEF Moves
  <1>8. Between(runner[j]) /\ Current(j) => row[s].attempt = NoAttempt
    BY DEF HoldersAreApart, Holds
  <1>9. NoAttempt.owner = None
    BY DEF NoAttempt
  <1>10. SettledRowsAreClosed'
    <2>1. ASSUME row'[s].status \in {"Completed", "Cancelled"}
          PROVE  row'[s].attempt = NoAttempt
      <3>1. CASE Leaves(j)
        BY <1>2, <2>1, <3>1 DEF Leaves, SettledRowsAreClosed
      <3>2. CASE Takes(j)
        BY <2>1, <3>2 DEF Takes
      <3>3. CASE Quarantines(j)
        BY <1>2, <1>9, <2>1, <3>3 DEF Quarantines, SettledRowsAreClosed
      <3>4. CASE Advances(j)
        BY <1>8, <2>1, <3>4 DEF Advances
      <3>5. CASE Begins(j)
        BY <2>1, <3>5 DEF Begins, Current
      <3> QED BY <1>7, <3>1, <3>2, <3>3, <3>4, <3>5
    <2> QED BY <1>2, <2>1 DEF SettledRowsAreClosed
  <1>11. OutcomesAreReached'
    <2> SUFFICES ASSUME NEW k \in Jobs, runner'[k].pc \in {"record", "finish"},
                        runner'[k].stop \in {"Completed", "Cancelled"}
                 PROVE  row'[jobs'[k].session].status = runner'[k].stop
      BY DEF OutcomesAreReached, SessionOf
    <2>1. CASE /\ runner[k].pc \in {"record", "finish"} /\ runner'[k].stop = runner[k].stop
      <3>1. row[SessionOf(k)].status = runner'[k].stop
        BY <2>1 DEF OutcomesAreReached
      <3>2. SessionOf(k) \in Sessions
        BY <2>1 DEF Typed, JobsAreStarted, SessionOf
      <3> QED BY <1>3, <3>1, <3>2, SettledRowsStay DEF SessionOf
    <2>2. CASE ~(/\ runner[k].pc \in {"record", "finish"}
                 /\ runner'[k].stop = runner[k].stop)
      <3>1. k = j
        BY <1>1, <2>2
      <3>2. row'[s].status = runner'[j].stop
        BY <1>7, <2>2, <3>1 DEF Leaves, Takes, Quarantines, Advances, Begins
      <3> QED BY <1>2, <3>1, <3>2
    <2> QED BY <2>1, <2>2
  <1>12. OutcomesAreDurable'
    <2> SUFFICES ASSUME NEW k \in Jobs, jobs'[k].status \in {"Completed", "Cancelled"}
                 PROVE  row'[jobs'[k].session].status = jobs'[k].status
      BY DEF OutcomesAreDurable, SessionOf
    <2>1. jobs'[k].session \in Sessions
      <3>1. Typed'
        BY MovesKeepTypes
      <3> QED BY <3>1 DEF Typed, JobsAreStarted
    <2>2. row[jobs[k].session].status = jobs'[k].status
      <3>1. CASE jobs'[k].status = jobs[k].status
        BY <3>1 DEF OutcomesAreDurable, SessionOf
      <3>2. CASE jobs'[k].status # jobs[k].status
        <4>1. k = j
          BY <1>1, <3>2
        <4>2. /\ runner[j].pc \in {"finish", "fail"}
              /\ jobs'[j].status = runner[j].stop
          BY <3>2, <4>1 DEF Moves, Shows
        <4>3. runner[j].pc = "finish"
          BY <4>1, <4>2 DEF Typed, RunnersHaveRoom, HasRoom
        <4> QED BY <4>1, <4>2, <4>3 DEF OutcomesAreReached, SessionOf
      <3> QED BY <3>1, <3>2
    <2> QED BY <1>3, <2>1, <2>2, SettledRowsStay
  <1>13. HoldersAreApart'
    <2> SUFFICES ASSUME NEW k \in Jobs, Holds(runner'[k])
                 PROVE  /\ runner'[k].seq <= row'[jobs'[k].session].seq
                        /\ \A l \in Jobs \ {k} :
                             Holds(runner'[l]) /\ jobs'[l].session = jobs'[k].session
                             => runner'[l].seq # runner'[k].seq
                        /\ /\ Between(runner'[k])
                           /\ row'[jobs'[k].session].status = "Running"
                           /\ row'[jobs'[k].session].seq = runner'[k].seq
                           => row'[jobs'[k].session].attempt = NoAttempt
      BY DEF HoldersAreApart, Current, SessionOf
    <2> DEFINE t == jobs[k].session
    <2>1. \A u \in Sessions : row[u].seq <= row'[u].seq
      <3>1. row[s].seq <= row'[s].seq
        BY <1>2, <1>4, <1>7 DEF Leaves, Takes, Quarantines, Advances, Begins
      <3> QED BY <1>2, <1>4, <3>1
    <2>2. Holds(runner'[j]) =>
            \/ Holds(runner[j]) /\ runner'[j].seq = runner[j].seq
            \/ runner'[j].seq = row'[s].seq /\ row'[s].seq = row[s].seq + 1
      BY <1>7 DEF Leaves, Takes, Quarantines, Advances, Begins, Holds, Between
    <2>3. \A l \in Jobs : Holds(runner[l]) => runner[l].seq <= row[SessionOf(l)].seq
      BY DEF HoldersAreApart
    <2>4. \A l \in Jobs : l # j => (Holds(runner'[l]) <=> Holds(runner[l]))
                                   /\ runner'[l].seq = runner[l].seq
      BY <1>1
    <2>5. t \in Sessions
      BY <1>1, <1>2, <1>6 DEF SessionOf
    <2>6. runner'[k].seq <= row'[t].seq
      <3>1. CASE k = j
        <4>1. CASE Holds(runner[j]) /\ runner'[j].seq = runner[j].seq
          <5>1. runner'[j].seq <= row[s].seq /\ row[s].seq <= row'[s].seq
            BY <1>2, <2>1, <2>3, <4>1
          <5> QED BY <1>2, <1>4, <1>5, <3>1, <4>1, <5>1
        <4>2. CASE runner'[j].seq = row'[s].seq
          BY <1>2, <1>4, <3>1, <4>2
        <4> QED BY <2>2, <3>1, <4>1, <4>2
      <3>2. CASE k # j
        <4>1. runner'[k].seq <= row[t].seq /\ row[t].seq <= row'[t].seq
          BY <2>1, <2>3, <2>4, <2>5, <3>2 DEF SessionOf
        <4> QED BY <1>4, <1>5, <2>4, <2>5, <3>2, <4>1
      <3> QED BY <3>1, <3>2
    <2>7. ASSUME NEW l \in Jobs \ {k}, Holds(runner'[l]), jobs[l].session = t
          PROVE  runner'[l].seq # runner'[k].seq
      <3>1. \A x, y \in Jobs : /\ x # y /\ Holds(runner[x]) /\ Holds(runner[y])
                               /\ jobs[x].session = jobs[y].session
                               => runner[x].seq # runner[y].seq
        BY DEF HoldersAreApart, SessionOf
      <3>2. ASSUME NEW x \in Jobs, x # j, Holds(runner'[x]), Holds(runner'[j]),
                   jobs[x].session = s
            PROVE  runner'[x].seq # runner'[j].seq
        <4>1. Holds(runner[x]) /\ runner'[x].seq = runner[x].seq
          BY <2>4, <3>2
        <4>2. CASE Holds(runner[j]) /\ runner'[j].seq = runner[j].seq
          BY <1>2, <3>1, <3>2, <4>1, <4>2
        <4>3. CASE runner'[j].seq = row'[s].seq /\ row'[s].seq = row[s].seq + 1
          <5>1. runner[x].seq <= row[s].seq
            BY <2>3, <3>2, <4>1 DEF SessionOf
          <5> QED BY <1>2, <1>4, <1>5, <4>1, <4>3, <5>1
        <4> QED BY <2>2, <3>2, <4>2, <4>3
      <3>3. CASE k = j
        BY <1>2, <2>7, <3>2, <3>3
      <3>4. CASE l = j
        BY <1>2, <2>7, <3>2, <3>4
      <3>5. CASE k # j /\ l # j
        BY <2>4, <2>7, <3>1, <3>5
      <3> QED BY <3>3, <3>4, <3>5
    <2>8. ASSUME Between(runner'[k]), row'[t].status = "Running",
                 row'[t].seq = runner'[k].seq
          PROVE  row'[t].attempt = NoAttempt
      <3>1. CASE k = j
        <4>1. CASE Leaves(j)
          <5>1. Between(runner[j]) /\ Current(j)
            BY <1>2, <2>8, <3>1, <4>1 DEF Leaves, Current, Holds
          <5> QED BY <1>2, <1>8, <3>1, <4>1, <5>1 DEF Leaves
        <4>2. CASE Takes(j)
          BY <1>2, <3>1, <4>2 DEF Takes
        <4>3. CASE Quarantines(j) \/ Begins(j)
          BY <2>8, <3>1, <4>3 DEF Quarantines, Begins, Between
        <4>4. CASE Advances(j)
          BY <1>2, <1>8, <3>1, <4>4 DEF Advances
        <4> QED BY <1>7, <4>1, <4>2, <4>3, <4>4
      <3>2. CASE k # j
        <4>0. runner'[k] = runner[k] /\ Between(runner[k]) /\ Holds(runner[k])
          BY <1>1, <2>8, <3>2 DEF Holds
        <4>1. Current(k) => row[t].attempt = NoAttempt
          BY <4>0 DEF HoldersAreApart, SessionOf
        <4>2. CASE row'[t] = row[t]
          BY <2>8, <4>0, <4>1, <4>2 DEF Current, SessionOf
        <4>3. CASE row'[t] # row[t]
          <5>1. t = s
            BY <1>2, <2>5, <4>3
          <5>2. CASE Leaves(j)
            BY <4>3, <5>2 DEF Leaves
          <5>3. CASE Takes(j)
            BY <5>1, <5>3 DEF Takes
          <5>4. CASE Quarantines(j)
            BY <1>9, <2>8, <4>0, <4>1, <5>1, <5>4 DEF Quarantines, Current, SessionOf
          <5>5. CASE Advances(j)
            <6>1. runner[k].seq <= row[s].seq /\ row'[s].seq = row[s].seq + 1
              BY <2>3, <4>0, <5>1, <5>5 DEF Advances, SessionOf
            <6> QED BY <1>2, <1>4, <1>5, <2>8, <4>0, <5>1, <6>1
          <5>6. CASE Begins(j)
            <6>1. Holds(runner[j]) /\ runner[j].seq = runner[k].seq
              BY <2>8, <4>0, <5>1, <5>6 DEF Begins, Current, Holds
            <6> QED BY <1>2, <3>2, <4>0, <5>1, <6>1 DEF HoldersAreApart, SessionOf
          <5> QED BY <1>7, <5>2, <5>3, <5>4, <5>5, <5>6
        <4> QED BY <4>2, <4>3
      <3> QED BY <3>1, <3>2
    <2> QED BY <1>3, <2>6, <2>7, <2>8
  <1> QED BY <1>10, <1>11, <1>12, <1>13

-----------------------------------------------------------------------------
\* What the steps of the main thread change.

LEMMA StartedIs ==
  ASSUME NEW s \in Sessions, NEW now \in Times
  PROVE  /\ Started(s, now) \in Job
         /\ Started(s, now).status = "Starting" /\ Started(s, now).session = s
         /\ Started(s, now).control = "Continue"
         /\ [Started(s, now) EXCEPT !.status = "Failed"] \in Job
         /\ [Started(s, now) EXCEPT !.status = "Failed"].status = "Failed"
         /\ [Started(s, now) EXCEPT !.status = "Failed"].session = s
  BY DEF Started, NoJob, Job, Controls

LEMMA CancelledIs ==
  ASSUME NEW some \in SUBSET Jobs, NEW now \in Times, jobs \in [Jobs -> Job],
         Cancelled(some, now)
  PROVE  /\ jobs' \in [Jobs -> Job]
         /\ \A k \in Jobs \ some : jobs'[k] = jobs[k]
         /\ \A k \in some : /\ jobs'[k].session = jobs[k].session
                            /\ jobs'[k].status = "Cancelling"
                            /\ jobs'[k].control = "Cancel"
  <1>1. ASSUME NEW k \in some
        PROVE  /\ jobs'[k] = [jobs[k] EXCEPT !.control = "Cancel", !.status = "Cancelling",
                                             !.updated = now]
               /\ jobs[k] \in Job
    BY DEF Cancelled
  <1>2. ASSUME NEW k \in some
        PROVE  /\ jobs'[k] \in Job /\ jobs'[k].session = jobs[k].session
               /\ jobs'[k].status = "Cancelling" /\ jobs'[k].control = "Cancel"
    BY <1>1 DEF Job, Controls
  <1>3. ASSUME NEW k \in Jobs \ some PROVE jobs'[k] = jobs[k] /\ jobs[k] \in Job
    BY DEF Cancelled
  <1>4. jobs' \in [Jobs -> Job]
    <2>1. \A k \in Jobs : jobs'[k] \in Job
      BY <1>2, <1>3
    <2>2. jobs' = [k \in Jobs |-> jobs'[k]]
      BY DEF Cancelled
    <2> QED BY <2>1, <2>2
  <1> QED BY <1>2, <1>3, <1>4

LEMMA IsolatedIs ==
  ASSUME NEW some \in SUBSET Jobs, NEW now \in Times, jobs \in [Jobs -> Job],
         Isolated(some, now)
  PROVE  /\ jobs' \in [Jobs -> Job]
         /\ \A k \in Jobs \ some : jobs'[k] = jobs[k]
         /\ \A k \in some : /\ jobs'[k].session = jobs[k].session
                            /\ jobs'[k].status = "Indeterminate"
  <1>1. ASSUME NEW k \in some
        PROVE  /\ jobs'[k] = [jobs[k] EXCEPT !.status = "Indeterminate", !.updated = now]
               /\ jobs[k] \in Job
    BY DEF Isolated
  <1>2. ASSUME NEW k \in some
        PROVE  /\ jobs'[k] \in Job /\ jobs'[k].session = jobs[k].session
               /\ jobs'[k].status = "Indeterminate"
    BY <1>1 DEF Job
  <1>3. ASSUME NEW k \in Jobs \ some PROVE jobs'[k] = jobs[k] /\ jobs[k] \in Job
    BY DEF Isolated
  <1>4. jobs' \in [Jobs -> Job]
    <2>1. \A k \in Jobs : jobs'[k] \in Job
      BY <1>2, <1>3
    <2>2. jobs' = [k \in Jobs |-> jobs'[k]]
      BY DEF Isolated
    <2> QED BY <2>1, <2>2
  <1> QED BY <1>2, <1>3, <1>4

\* The drain visits jobs that were started, and live unless the clock went back.
LEMMA LiveJobsWereStarted ==
  ASSUME Typed, ReservationsName, NEW j \in LiveJobs
  PROVE  /\ j \in Jobs /\ jobs[j].status # "none" /\ active[jobs[j].session] = j
         /\ j \notin late => jobs[j].status \in Live
  BY DEF LiveJobs, Typed, Types, ReservationsName

\* A step that writes no row, and moves no thread but into its first or last
\* state, keeps what is said of rows and of the threads that hold them.
LEMMA RowsAreKept ==
  ASSUME SettledRowsAreClosed, HoldersAreApart, OutcomesAreReached, row' = row,
         \A k \in Jobs : \/ runner'[k] = runner[k] /\ jobs'[k].session = jobs[k].session
                         \/ runner'[k].pc \in {"spawned", "ended"}
  PROVE  SettledRowsAreClosed' /\ HoldersAreApart' /\ OutcomesAreReached'
  <1>1. SettledRowsAreClosed'
    BY DEF SettledRowsAreClosed
  <1>2. HoldersAreApart'
    <2>1. \A k \in Jobs : Holds(runner'[k]) =>
            /\ Holds(runner[k]) /\ runner'[k] = runner[k]
            /\ jobs'[k].session = jobs[k].session
      BY DEF Holds, Between
    <2> QED BY <2>1 DEF HoldersAreApart, Current, SessionOf
  <1>3. OutcomesAreReached'
    BY DEF OutcomesAreReached, SessionOf
  <1> QED BY <1>1, <1>2, <1>3

LEMMA JobsInvParts ==
  /\ JobsInv <=> /\ Typed /\ ReservationsName /\ LiveJobsAreRegistered /\ ControlIsPublished
                 /\ EndedRunnersAreReleased /\ SettledRowsAreClosed /\ HoldersAreApart
                 /\ OutcomesAreReached /\ OutcomesAreDurable
  /\ JobsInv' <=> /\ Typed' /\ ReservationsName' /\ LiveJobsAreRegistered'
                  /\ ControlIsPublished' /\ EndedRunnersAreReleased' /\ SettledRowsAreClosed'
                  /\ HoldersAreApart' /\ OutcomesAreReached' /\ OutcomesAreDurable'
  <1>1. TypeOK' = Types'
    BY DEF TypeOK, Types, Job, Runner, Attempt, Row
  <1> QED BY <1>1, TypesAreTypeOK DEF JobsInv, Typed

\* A session is reserved for a fresh job; one whose thread could not be
\* spawned gives it back, unless the clock goes back in between.
LEMMA StartKeeps ==
  ASSUME JobsInv, NEW j \in Jobs, NEW s \in Sessions, Start(j, s) \/ StartFails(j, s)
  PROVE  JobsInv'
  <1>1. /\ Typed /\ Types /\ ReservationsName /\ LiveJobsAreRegistered /\ ControlIsPublished
        /\ EndedRunnersAreReleased /\ SettledRowsAreClosed /\ HoldersAreApart
        /\ OutcomesAreReached /\ OutcomesAreDurable
    BY JobsInvParts DEF Typed
  <1>2. /\ jobs[j].status = "none" /\ active[s] = None
        /\ UNCHANGED <<row, main, safe, done>>
    BY DEF Start, StartFails, Free
  <1>3. /\ runner' \in [Jobs -> Runner]
        /\ \A k \in Jobs : k # j => runner'[k] = runner[k]
        /\ runner'[j].pc \in {"spawned", "ended"}
    <2>1. CASE Start(j, s)
      <3>1. RunnerIs(j, "spawned", runner[j].seq, runner[j].batch, runner[j].stop)
        BY <1>1, <2>1, GotoIs DEF Start, Types, Phases
      <3> QED BY <3>1 DEF RunnerIs
    <2>2. CASE StartFails(j, s)
      <3>1. RunnerIs(j, "ended", 0, 0, "none")
        BY <1>1, <2>2, EndIs DEF StartFails, Types
      <3> QED BY <3>1 DEF RunnerIs
    <2> QED BY <2>1, <2>2
  <1>4. /\ jobs' \in [Jobs -> Job]
        /\ \A k \in Jobs : k # j => jobs'[k] = jobs[k]
        /\ jobs'[j].session = s /\ jobs'[j].status \in {"Starting", "Failed"}
        /\ jobs'[j].status = "Starting" => jobs'[j].control = "Continue"
        /\ late \subseteq late' /\ late' \subseteq Jobs
        /\ \/ jobs'[j].status = "Failed" /\ active' = active
           \/ /\ jobs'[j].status = "Starting" /\ active' = [active EXCEPT ![s] = j]
              /\ runner'[j].pc = "spawned" \/ j \in late'
    <2>1. CASE Start(j, s)
      <3>1. PICK now \in Times : jobs' = [jobs EXCEPT ![j] = Started(s, now)]
        BY <2>1 DEF Start
      <3>2. RunnerIs(j, "spawned", runner[j].seq, runner[j].batch, runner[j].stop)
        BY <1>1, <2>1, GotoIs DEF Start, Types, Phases
      <3>3. active' = [active EXCEPT ![s] = j] /\ late' = late
        BY <2>1 DEF Start
      <3> QED BY <1>1, <3>1, <3>2, <3>3, StartedIs DEF Types, RunnerIs
    <2>2. CASE StartFails(j, s)
      <3>1. PICK now \in Times, then \in Times :
              IF then >= now
              THEN /\ jobs' = [jobs EXCEPT ![j] =
                                 [Started(s, then) EXCEPT !.status = "Failed"]]
                   /\ UNCHANGED <<active, late>>
              ELSE /\ jobs' = [jobs EXCEPT ![j] = Started(s, now)]
                   /\ active' = [active EXCEPT ![s] = j]
                   /\ late' = late \cup {j}
        BY <2>2 DEF StartFails
      <3>2. CASE then >= now
        <4> DEFINE new == [Started(s, then) EXCEPT !.status = "Failed"]
        <4>1. new \in Job /\ new.status = "Failed" /\ new.session = s
          BY StartedIs
        <4>2. jobs' = [jobs EXCEPT ![j] = new] /\ active' = active /\ late' = late
          BY <3>1, <3>2
        <4> HIDE DEF new
        <4> QED BY <1>1, <4>1, <4>2 DEF Types
      <3>3. CASE ~(then >= now)
        <4> DEFINE new == Started(s, now)
        <4>1. /\ new \in Job /\ new.status = "Starting" /\ new.session = s
              /\ new.control = "Continue"
          BY StartedIs
        <4>2. /\ jobs' = [jobs EXCEPT ![j] = new] /\ late' = late \cup {j}
              /\ active' = [active EXCEPT ![s] = j]
          BY <3>1, <3>3
        <4> HIDE DEF new
        <4> QED BY <1>1, <4>1, <4>2 DEF Types
      <3> QED BY <3>2, <3>3
    <2> QED BY <2>1, <2>2
  <1>5. active' \in [Sessions -> Jobs \cup {None}]
    BY <1>1, <1>4 DEF Types
  <1>6. Typed'
    BY <1>1, <1>2, <1>3, <1>4, <1>5
    DEF Typed, Types, JobsAreStarted, RunnersHaveRoom, HasRoom
  <1>7. SettledRowsAreClosed' /\ HoldersAreApart' /\ OutcomesAreReached'
    BY <1>1, <1>2, <1>3, <1>4, RowsAreKept
  <1>8. OutcomesAreDurable' /\ ControlIsPublished'
    BY <1>1, <1>2, <1>4 DEF OutcomesAreDurable, ControlIsPublished, SessionOf
  <1>9. EndedRunnersAreReleased'
    BY <1>1, <1>3, <1>4 DEF EndedRunnersAreReleased, At
  <1>10. \A t \in Sessions : active[t] # None => active[t] \in Jobs /\ active[t] # j
    BY <1>1, <1>2 DEF ReservationsName, Types
  <1>11. ReservationsName'
    <2> SUFFICES ASSUME NEW t \in Sessions, active'[t] # None
                 PROVE  /\ jobs'[active'[t]].session = t
                        /\ jobs'[active'[t]].status # "none"
                        /\ active'[t] \notin late' => jobs'[active'[t]].status \in Live
      BY DEF ReservationsName
    <2>1. CASE active'[t] = active[t]
      <3>1. active[t] \in Jobs /\ active[t] # j
        BY <1>10, <2>1
      <3> QED BY <1>1, <1>4, <2>1, <3>1 DEF ReservationsName
    <2>2. CASE active'[t] # active[t]
      <3>1. t = s /\ active'[t] = j /\ jobs'[j].status = "Starting"
        BY <1>1, <1>4, <2>2 DEF Types
      <3> QED BY <1>4, <3>1
    <2> QED BY <2>1, <2>2
  <1>12. LiveJobsAreRegistered'
    <2> SUFFICES ASSUME NEW k \in Jobs, jobs'[k].status \in Live
                 PROVE  active'[jobs'[k].session] = k
      BY DEF LiveJobsAreRegistered, SessionOf
    <2>1. CASE k = j
      BY <1>1, <1>4, <2>1 DEF Types
    <2>2. CASE k # j
      <3>1. jobs[k].session \in Sessions /\ active[jobs[k].session] = k
        BY <1>1, <1>4, <2>2 DEF LiveJobsAreRegistered, Typed, JobsAreStarted, SessionOf
      <3>2. jobs[k].session # s
        BY <1>2, <3>1, JobsAssumption
      <3> QED BY <1>1, <1>4, <2>2, <3>1, <3>2 DEF Types
    <2> QED BY <2>1, <2>2
  <1> QED BY <1>6, <1>7, <1>8, <1>9, <1>11, <1>12, JobsInvParts

\* What a request, the two drains and leaving safe mode have in common: they
\* touch the registry only, and of the jobs only status and control.
LEMMA RegistryOnly ==
  ASSUME JobsInv, jobs' \in [Jobs -> Job], main' \in {"idle", "draining"}, safe' \in BOOLEAN,
         active' \in [Sessions -> Jobs \cup {None}],
         late \subseteq late', late' \subseteq Jobs, UNCHANGED <<runner, row, done>>,
         NEW some \in SUBSET Jobs,
         \A k \in Jobs \ some : jobs'[k] = jobs[k],
         \A k \in some : /\ jobs[k].status # "none"
                         /\ k \notin late => jobs[k].status \in Live
                         /\ jobs'[k].session = jobs[k].session
                         /\ \/ jobs'[k].status = "Pausing" /\ jobs'[k].control = "Pause"
                            \/ jobs'[k].status = "Cancelling" /\ jobs'[k].control = "Cancel"
                            \/ jobs'[k].status = "Indeterminate"
  PROVE  /\ Typed' /\ ControlIsPublished' /\ EndedRunnersAreReleased'
         /\ SettledRowsAreClosed' /\ HoldersAreApart' /\ OutcomesAreReached'
         /\ OutcomesAreDurable'
  <1>1. /\ Typed /\ Types /\ ControlIsPublished
        /\ EndedRunnersAreReleased /\ SettledRowsAreClosed /\ HoldersAreApart
        /\ OutcomesAreReached /\ OutcomesAreDurable
    BY JobsInvParts DEF Typed
  <1>2. \A k \in Jobs : /\ jobs'[k].session = jobs[k].session
                        /\ jobs'[k].status = "none" <=> jobs[k].status = "none"
    OBVIOUS
  <1>3. Typed'
    BY <1>1, <1>2 DEF Typed, Types, JobsAreStarted, RunnersHaveRoom
  <1>4. SettledRowsAreClosed' /\ HoldersAreApart' /\ OutcomesAreReached'
    BY <1>1, <1>2, RowsAreKept
  <1>5. OutcomesAreDurable'
    BY <1>1 DEF OutcomesAreDurable, SessionOf
  <1>6. ControlIsPublished'
    BY <1>1 DEF ControlIsPublished
  <1>7. EndedRunnersAreReleased'
    BY <1>1 DEF EndedRunnersAreReleased, At
  <1> QED BY <1>3, <1>4, <1>5, <1>6, <1>7

LEMMA RequestKeeps ==
  ASSUME JobsInv, NEW j \in Jobs, NEW control \in {"Pause", "Cancel"}, Request(j, control)
  PROVE  JobsInv'
  <1>1. /\ Typed /\ Types /\ ReservationsName /\ LiveJobsAreRegistered
    BY JobsInvParts DEF Typed
  <1>2. PICK now \in Times :
          /\ Controllable(j, now)
          /\ jobs' = [jobs EXCEPT ![j].control = control,
                                  ![j].status = RequestStatus[control],
                                  ![j].updated = now]
    BY DEF Request
  <1>3. UNCHANGED <<active, runner, row, main, safe, done, late>>
    BY DEF Request
  <1>4. \/ control = "Pause" /\ RequestStatus[control] = "Pausing"
        \/ control = "Cancel" /\ RequestStatus[control] = "Cancelling"
    BY DEF RequestStatus
  <1>5. JobIs(j, RequestStatus[control]) /\ jobs'[j].control = control
    <2> DEFINE status == RequestStatus[control]
    <2>1. status \in Live /\ control \in Controls
      BY <1>4 DEF Controls
    <2>2. jobs' = [jobs EXCEPT ![j].control = control, ![j].status = status,
                               ![j].updated = now]
      BY <1>2
    <2> HIDE DEF status
    <2>3. jobs \in [Jobs -> Job] /\ now \in Times
      BY <1>1, <1>2 DEF Types
    <2>4. JobIs(j, status) /\ jobs'[j].control = control
      BY ONLY j \in Jobs, <2>1, <2>2, <2>3, RequestIs
    <2> QED BY <2>4 DEF status
  <1>6. jobs[j].status \in Live
    BY <1>2 DEF Controllable
  <1>7. /\ Typed' /\ ControlIsPublished' /\ EndedRunnersAreReleased'
        /\ SettledRowsAreClosed' /\ HoldersAreApart' /\ OutcomesAreReached'
        /\ OutcomesAreDurable'
    <2>1. /\ jobs' \in [Jobs -> Job] /\ \A k \in Jobs \ {j} : jobs'[k] = jobs[k]
          /\ jobs'[j].session = jobs[j].session
          /\ \/ jobs'[j].status = "Pausing" /\ jobs'[j].control = "Pause"
             \/ jobs'[j].status = "Cancelling" /\ jobs'[j].control = "Cancel"
      BY <1>4, <1>5 DEF JobIs
    <2> DEFINE some == {j}
    <2>2. /\ some \in SUBSET Jobs
          /\ \A k \in some : /\ jobs[k].status # "none"
                             /\ k \notin late => jobs[k].status \in Live
                             /\ jobs'[k].session = jobs[k].session
                             /\ \/ jobs'[k].status = "Pausing" /\ jobs'[k].control = "Pause"
                                \/ jobs'[k].status = "Cancelling" /\ jobs'[k].control = "Cancel"
      BY <1>6, <2>1
    <2>3. \A k \in Jobs \ some : jobs'[k] = jobs[k]
      BY <2>1
    <2> HIDE DEF some
    <2> QED BY <1>1, <1>3, <2>1, <2>2, <2>3, RegistryOnly DEF Types
  <1>8. ReservationsName' /\ LiveJobsAreRegistered'
    BY <1>1, <1>3, <1>4, <1>5, <1>6
    DEF JobIs, Types, ReservationsName, LiveJobsAreRegistered, SessionOf
  <1> QED BY <1>7, <1>8, JobsInvParts

LEMMA EnterSafeModeKeeps ==
  ASSUME JobsInv, EnterSafeMode
  PROVE  JobsInv'
  <1>1. /\ Typed /\ Types /\ ReservationsName /\ LiveJobsAreRegistered
    BY JobsInvParts DEF Typed
  <1>2. PICK now \in Times, some \in SUBSET LiveJobs : Cancelled(some, now)
    BY DEF EnterSafeMode
  <1>3. /\ UNCHANGED <<active, runner, row, done, late>> /\ safe' = TRUE
        /\ main' \in {"idle", "draining"}
    BY DEF EnterSafeMode
  <1>4. some \in SUBSET Jobs
    BY <1>1, LiveJobsWereStarted
  <1>5. /\ jobs' \in [Jobs -> Job]
        /\ \A k \in Jobs \ some : jobs'[k] = jobs[k]
        /\ \A k \in some : /\ jobs'[k].session = jobs[k].session
                           /\ jobs'[k].status = "Cancelling"
                           /\ jobs'[k].control = "Cancel"
    BY <1>1, <1>2, <1>4, CancelledIs DEF Types
  <1>6. \A k \in some : /\ jobs[k].status # "none" /\ active[jobs[k].session] = k
                        /\ k \notin late => jobs[k].status \in Live
    BY <1>1, LiveJobsWereStarted
  <1>7. /\ Typed' /\ ControlIsPublished' /\ EndedRunnersAreReleased'
        /\ SettledRowsAreClosed' /\ HoldersAreApart' /\ OutcomesAreReached'
        /\ OutcomesAreDurable'
    BY <1>1, <1>3, <1>4, <1>5, <1>6, RegistryOnly DEF Types
  <1>8. ReservationsName'
    BY <1>1, <1>3, <1>4, <1>5 DEF Types, ReservationsName
  <1>9. LiveJobsAreRegistered'
    BY <1>1, <1>3, <1>4, <1>5, <1>6 DEF LiveJobsAreRegistered, SessionOf
  <1> QED BY <1>7, <1>8, <1>9, JobsInvParts

\* A drain that ends frees every session, or the clock went back and what it
\* isolated stays reserved, which the history remembers.
LEMMA StopDrainingKeeps ==
  ASSUME JobsInv, StopDraining
  PROVE  JobsInv'
  <1>1. /\ Typed /\ Types /\ ReservationsName /\ LiveJobsAreRegistered
    BY JobsInvParts DEF Typed
  <1>2. PICK now \in Times, some \in SUBSET LiveJobs :
          /\ Isolated(some, now)
          /\ \/ /\ some = LiveJobs /\ active' = [s \in Sessions |-> None] /\ late' = late
             \/ active' = active /\ late' = late \cup LiveJobs
    BY DEF StopDraining
  <1>3. UNCHANGED <<runner, row, safe, done>> /\ main' = "idle"
    BY DEF StopDraining
  <1>4. some \in SUBSET Jobs /\ LiveJobs \subseteq Jobs
    BY <1>1, LiveJobsWereStarted
  <1>5. /\ jobs' \in [Jobs -> Job]
        /\ \A k \in Jobs \ some : jobs'[k] = jobs[k]
        /\ \A k \in some : /\ jobs'[k].session = jobs[k].session
                           /\ jobs'[k].status = "Indeterminate"
    BY <1>1, <1>2, <1>4, IsolatedIs DEF Types
  <1>6. \A k \in some : /\ jobs[k].status # "none" /\ active[jobs[k].session] = k
                        /\ k \notin late => jobs[k].status \in Live
    BY <1>1, LiveJobsWereStarted
  <1>7. /\ Typed' /\ ControlIsPublished' /\ EndedRunnersAreReleased'
        /\ SettledRowsAreClosed' /\ HoldersAreApart' /\ OutcomesAreReached'
        /\ OutcomesAreDurable'
    <2>1. /\ active' \in [Sessions -> Jobs \cup {None}]
          /\ late \subseteq late' /\ late' \subseteq Jobs
      BY <1>1, <1>2, <1>4 DEF Types
    <2> QED BY <1>1, <1>3, <1>4, <1>5, <1>6, <2>1, RegistryOnly DEF Types
  <1>8. ReservationsName'
    <2>1. CASE active' = [s \in Sessions |-> None]
      BY <2>1 DEF ReservationsName
    <2>2. CASE active' = active /\ late' = late \cup LiveJobs
      <3>1. \A t \in Sessions : active[t] # None => active[t] \in late'
        BY <2>2 DEF LiveJobs
      <3> QED BY <1>1, <1>4, <1>5, <2>2, <3>1 DEF Types, ReservationsName
    <2> QED BY <1>2, <2>1, <2>2
  <1>9. LiveJobsAreRegistered'
    <2> SUFFICES ASSUME NEW k \in Jobs, jobs'[k].status \in Live
                 PROVE  active'[jobs'[k].session] = k
      BY DEF LiveJobsAreRegistered, SessionOf
    <2>1. k \notin some /\ jobs'[k] = jobs[k]
      BY <1>5
    <2>2. active[jobs[k].session] = k /\ jobs[k].session \in Sessions
      BY <1>1, <2>1 DEF LiveJobsAreRegistered, Typed, JobsAreStarted, SessionOf
    <2>3. k \in LiveJobs
      BY <2>2, JobsAssumption DEF LiveJobs
    <2> QED BY <1>2, <2>1, <2>2, <2>3
  <1> QED BY <1>7, <1>8, <1>9, JobsInvParts

LEMMA ResolveKeeps ==
  ASSUME JobsInv, NEW s \in Sessions, Resolve(s)
  PROVE  JobsInv'
  <1>1. /\ Typed /\ Types /\ ReservationsName /\ LiveJobsAreRegistered /\ ControlIsPublished
        /\ EndedRunnersAreReleased /\ SettledRowsAreClosed /\ HoldersAreApart
        /\ OutcomesAreReached /\ OutcomesAreDurable
    BY JobsInvParts DEF Typed
  <1>2. UNCHANGED <<jobs, active, runner, main, safe, done, late>>
    BY DEF Resolve
  <1>3. PICK status \in {"Paused", "Cancelled"} :
          row' = [row EXCEPT ![s] = [status |-> status, seq |-> @.seq + 1,
                                     attempt |-> NoAttempt]]
    BY DEF Resolve
  <1>4. RowIs(s, status, row[s].seq + 1) /\ row'[s].attempt = NoAttempt
    BY <1>1, <1>3, SettleIs DEF Types
  <1>5. row[s].attempt # NoAttempt
    BY DEF Resolve, NoAttempt
  <1>6. row[s].status \notin {"Completed", "Cancelled"}
    BY <1>1, <1>5 DEF SettledRowsAreClosed
  <1>7. \A t \in Sessions : row[t].seq \in Nat
    BY <1>1 DEF Types, Row
  <1>8. \A k \in Jobs : Holds(runner[k]) => SessionOf(k) \in Sessions /\ runner[k].seq \in Nat
    BY <1>1, BoundsAssumption
    DEF Typed, Types, Runner, JobsAreStarted, Holds, Between, SessionOf
  <1>9. Typed'
    BY <1>1, <1>2, <1>4 DEF Typed, Types, JobsAreStarted, RunnersHaveRoom, RowIs
  <1>10. /\ ReservationsName' /\ LiveJobsAreRegistered' /\ ControlIsPublished'
         /\ EndedRunnersAreReleased'
    BY <1>1, <1>2
    DEF ReservationsName, LiveJobsAreRegistered, ControlIsPublished, EndedRunnersAreReleased,
        SessionOf, At
  <1>11. SettledRowsAreClosed'
    BY <1>1, <1>4 DEF SettledRowsAreClosed, RowIs
  <1>12. HoldersAreApart'
    <2> SUFFICES ASSUME NEW k \in Jobs, Holds(runner[k])
                 PROVE  /\ runner[k].seq <= row'[SessionOf(k)].seq
                        /\ /\ Between(runner[k])
                           /\ row'[SessionOf(k)].status = "Running"
                           /\ row'[SessionOf(k)].seq = runner[k].seq
                           => row'[SessionOf(k)].attempt = NoAttempt
      BY <1>1, <1>2 DEF HoldersAreApart, Current, SessionOf
    <2>1. runner[k].seq <= row[SessionOf(k)].seq /\ SessionOf(k) \in Sessions
      BY <1>1, <1>8 DEF HoldersAreApart
    <2>2. CASE SessionOf(k) = s
      BY <1>4, <1>7, <1>8, <2>1, <2>2 DEF RowIs
    <2>3. CASE SessionOf(k) # s
      BY <1>1, <1>4, <2>1, <2>3 DEF RowIs, HoldersAreApart, Current
    <2> QED BY <2>2, <2>3
  <1>13. OutcomesAreReached'
    BY <1>1, <1>2, <1>4, <1>6
    DEF OutcomesAreReached, RowIs, Typed, JobsAreStarted, SessionOf
  <1>14. OutcomesAreDurable'
    BY <1>1, <1>2, <1>4, <1>6
    DEF OutcomesAreDurable, RowIs, Typed, JobsAreStarted, SessionOf
  <1> QED BY <1>9, <1>10, <1>11, <1>12, <1>13, <1>14, JobsInvParts

-----------------------------------------------------------------------------
\* The invariant, and what it gives.

LEMMA JobsInit == Init => JobsInv
  <1> SUFFICES ASSUME Init PROVE JobsInv
    OBVIOUS
  <1>1. /\ \A j \in Jobs : jobs[j] = NoJob /\ runner[j] = NoThread
        /\ \A s \in Sessions : /\ active[s] = None /\ row[s].status = "Paused"
        /\ NoJob.status = "none" /\ NoThread.pc = "none"
    BY DEF Init, NoJob, NoThread
  <1>2. TypeOK
    <2>1. NoJob \in Job /\ NoThread \in Runner
      BY BoundsAssumption DEF NoJob, NoThread, Job, Runner, Phases, Controls
    <2>2. [status |-> "Paused", seq |-> 1, attempt |-> NoAttempt] \in Row
      BY DEF Row, Attempt, NoAttempt
    <2> QED BY <2>1, <2>2, TypesAreTypeOK DEF Init, Types
  <1>3. JobsAreStarted /\ RunnersHaveRoom
    BY <1>1 DEF JobsAreStarted, RunnersHaveRoom, HasRoom
  <1>4. ReservationsName /\ LiveJobsAreRegistered /\ ControlIsPublished
        /\ EndedRunnersAreReleased
    BY <1>1 DEF ReservationsName, LiveJobsAreRegistered, ControlIsPublished,
                EndedRunnersAreReleased, At
  <1>5. SettledRowsAreClosed /\ HoldersAreApart /\ OutcomesAreReached /\ OutcomesAreDurable
    BY <1>1 DEF SettledRowsAreClosed, HoldersAreApart, OutcomesAreReached, OutcomesAreDurable,
                Holds, Between
  <1> QED BY <1>2, <1>3, <1>4, <1>5 DEF JobsInv

LEMMA JobsNext == JobsInv /\ [Next]_vars => JobsInv'
  <1> SUFFICES ASSUME JobsInv, [Next]_vars PROVE JobsInv'
    OBVIOUS
  <1>1. ASSUME NEW j \in Jobs, RunnerStep(j) PROVE JobsInv'
    <2>1. Typed /\ ReservationsName /\ LiveJobsAreRegistered /\ ControlIsPublished
          /\ EndedRunnersAreReleased /\ SettledRowsAreClosed /\ HoldersAreApart
          /\ OutcomesAreReached /\ OutcomesAreDurable
      BY JobsInvParts
    <2>2. Moves(j)
      BY <1>1, <2>1, RunnerStepMoves
    <2> QED BY <2>1, <2>2, MovesKeepTypes, MovesKeepRegistry, MovesKeepRows, JobsInvParts
  <1>2. ASSUME NEW j \in Jobs, NEW s \in Sessions, Start(j, s) \/ StartFails(j, s)
        PROVE  JobsInv'
    BY <1>2, StartKeeps
  <1>3. ASSUME NEW j \in Jobs, NEW control \in {"Pause", "Cancel"}, Request(j, control)
        PROVE  JobsInv'
    BY <1>3, RequestKeeps
  <1>4. CASE EnterSafeMode
    BY <1>4, EnterSafeModeKeeps
  <1>5. CASE StopDraining
    BY <1>5, StopDrainingKeeps
  <1>6. ASSUME UNCHANGED <<jobs, active, runner, row, done, late>>,
               main' \in {"idle", "draining"}, safe' \in BOOLEAN
        PROVE  JobsInv'
    BY <1>6 DEF JobsInv, TypeOK, JobsAreStarted, RunnersHaveRoom, ReservationsName,
         LiveJobsAreRegistered, ControlIsPublished, EndedRunnersAreReleased,
         SettledRowsAreClosed, HoldersAreApart, OutcomesAreReached, OutcomesAreDurable,
         SessionOf, At, Current
  <1>7. CASE ExitSafeMode
    BY <1>6, <1>7 DEF ExitSafeMode
  <1>8. ASSUME NEW s \in Sessions, Resolve(s) PROVE JobsInv'
    BY <1>8, ResolveKeeps
  <1>9. CASE UNCHANGED vars
    BY <1>6, <1>9 DEF JobsInv, TypeOK
  <1> QED BY <1>1, <1>2, <1>3, <1>4, <1>5, <1>7, <1>8, <1>9 DEF Next, MainStep

THEOREM JobsInvariant == Spec => []JobsInv
  BY JobsInit, JobsNext, PTL DEF Spec

\* Every part of the registry, of the threads and of the rows has its type,
\* and the bounds of a batch are kept.
THEOREM TypeCorrect == Spec => []TypeOK
  <1>1. JobsInv => TypeOK
    BY DEF JobsInv
  <1> QED BY <1>1, JobsInvariant, PTL

\* A job that is not over reserves its session: the drain sees it, and no job
\* is started beside it.
THEOREM Registered == Spec => []LiveJobsAreRegistered
  <1>1. JobsInv => LiveJobsAreRegistered
    BY DEF JobsInv
  <1> QED BY <1>1, JobsInvariant, PTL

\* The control cell and the published status never disagree, whatever the
\* runner and the commands do in between.
THEOREM Published == Spec => []ControlIsPublished
  <1>1. JobsInv => ControlIsPublished
    BY DEF JobsInv
  <1> QED BY <1>1, JobsInvariant, PTL

\* A completion or a cancellation that a job reports is the one in the store.
THEOREM Durable == Spec => []OutcomesAreDurable
  <1>1. JobsInv => OutcomesAreDurable
    BY DEF JobsInv
  <1> QED BY <1>1, JobsInvariant, PTL

\* A thread that returned has released its session, unless the clock went back.
THEOREM Released == Spec => []EndedRunnersAreReleased
  <1>1. JobsInv => EndedRunnersAreReleased
    BY DEF JobsInv
  <1> QED BY <1>1, JobsInvariant, PTL

\* A published outcome is never revised, by no late runner and no command.
THEOREM Final == Spec => OutcomesAreFinal
  <1> DEFINE Kept == \A j \in Jobs \ late : jobs[j].status \in Terminal => jobs'[j] = jobs[j]
  <1>1. ASSUME JobsInv, [Next]_vars PROVE Kept
    <2> SUFFICES ASSUME NEW k \in Jobs \ late, jobs[k].status \in Terminal
                 PROVE  jobs'[k] = jobs[k]
      OBVIOUS
    <2>0. Typed /\ Types /\ ReservationsName
      BY <1>1, JobsInvParts DEF Typed
    <2>1. ASSUME NEW j \in Jobs, RunnerStep(j) PROVE jobs'[k] = jobs[k]
      <3>1. Moves(j)
        BY <2>0, <2>1, RunnerStepMoves
      <3> QED BY <3>1 DEF Moves, Frame
    <2>2. ASSUME NEW j \in Jobs, NEW s \in Sessions, Start(j, s) \/ StartFails(j, s)
          PROVE  jobs'[k] = jobs[k]
      <3>1. jobs[j].status = "none" /\ \E new : jobs' = [jobs EXCEPT ![j] = new]
        BY <2>2 DEF Start, StartFails, Free
      <3> QED BY <2>0, <3>1 DEF Types
    <2>3. ASSUME NEW j \in Jobs, NEW control \in {"Pause", "Cancel"}, Request(j, control)
          PROVE  jobs'[k] = jobs[k]
      BY <2>0, <2>3 DEF Request, Controllable, Types
    <2>4. k \notin LiveJobs
      BY <2>0, LiveJobsWereStarted
    <2>5. CASE EnterSafeMode \/ StopDraining
      <3>1. PICK some \in SUBSET LiveJobs, now \in Times :
              Cancelled(some, now) \/ Isolated(some, now)
        BY <2>5 DEF EnterSafeMode, StopDraining
      <3> QED BY <2>4, <3>1 DEF Cancelled, Isolated
    <2>6. CASE ExitSafeMode \/ (\E s \in Sessions : Resolve(s)) \/ UNCHANGED vars
      BY <2>6 DEF ExitSafeMode, Resolve
    <2> QED BY <1>1, <2>1, <2>2, <2>3, <2>5, <2>6 DEF Next, MainStep
  <1>2. JobsInv /\ [Next]_vars => [Kept]_vars
    BY <1>1
  <1> HIDE DEF Kept
  <1>3. Spec => [][Kept]_vars
    BY <1>2, JobsInvariant, PTL DEF Spec
  <1> QED BY <1>3 DEF OutcomesAreFinal, Kept
=============================================================================
