------------------------ MODULE AutoModeTurns_proofs ------------------------
(***************************************************************************)
(* What TLAPS proves of AutoModeTurns for any number of executors, call    *)
(* identities and workspace contents, any clock and any budget.            *)
(***************************************************************************)
EXTENDS AutoModeTurns, TLAPS

TurnsType == [Executors -> TurnType]

-----------------------------------------------------------------------------
\* The shape of what executors hold, in memory.

\* Nothing held.
LEMMA IdleType == IdleTurn \in TurnType
BY LimitsAssumption DEF IdleTurn, TurnType, TurnShape, Phases, Outcomes

\* An executor that lets go of its turn.
LEMMA DropType ==
    ASSUME NEW e \in Executors, run \in TurnsType, Drop(e)
    PROVE  run' \in TurnsType
BY IdleType DEF Drop, TurnsType

\* An executor that enters another phase.
LEMMA GotoType ==
    ASSUME NEW e \in Executors, NEW phase \in Phases \ {"commit"}, run \in TurnsType, Goto(e, phase)
    PROVE  run' \in TurnsType
<1>1. run[e] \in TurnType
    BY DEF TurnsType
<1>2. [run[e] EXCEPT !.phase = phase] \in TurnType
    BY <1>1 DEF TurnType, TurnShape
<1> QED BY <1>2 DEF Goto, TurnsType

\* A step of an executor that writes no row.
LEMMA RunStep ==
    ASSUME TypeOK, run' \in TurnsType, UNCHANGED <<durable, world, host, history>>
    PROVE  TypeOK'
BY DEF TypeOK, TurnsType, durable, world, history

\* A transaction over the session and its checkpoint.
LEMMA LifecycleStep ==
    ASSUME TypeOK, run' \in TurnsType, session' \in SessionType,
           ckpt' \in CheckpointType,
           UNCHANGED <<attempt, snapshot, world, host, history>>
    PROVE  TypeOK'
BY DEF TypeOK, TurnsType, world, history

\* A transaction over the attempt alone.
LEMMA AttemptStep ==
    ASSUME TypeOK, run' \in TurnsType, attempt' \in AttemptType \cup {NoAttempt},
           UNCHANGED <<session, ckpt, snapshot, world, host, history>>
    PROVE  TypeOK'
BY DEF TypeOK, TurnsType, world, history

-----------------------------------------------------------------------------
\* The rows start_unattended_auto_mode writes have their types.
LEMMA TypeInit == Init => TypeOK
<1> SUFFICES ASSUME Init PROVE TypeOK
    OBVIOUS
<1> USE LimitsAssumption, InitialTasksAssumption
<1>1. session \in SessionType
    BY DEF Init, SessionType, SessionStatus
<1>2. ckpt \in CheckpointType /\ snapshot \in [rev : Nat \ {0}, content : Contents, at : Nat]
    BY DEF Init, CheckpointType, TaskStatus
<1>3. run \in TurnsType
    BY IdleType DEF Init, TurnsType
<1>4. disk \in Contents
    BY DEF Init
<1> QED BY GoalStatesAssumption, <1>1, <1>2, <1>3, <1>4 DEF Init, TypeOK, TurnsType

\* Every step of an executor, of recovery, turn or commit, keeps the types.
LEMMA ExecuteType ==
    ASSUME TypeOK, NEW e \in Executors, Execute(e)
    PROVE  TypeOK'
<1> USE TimesAssumption, LimitsAssumption
<1>a. /\ run \in TurnsType /\ run[e] \in TurnType /\ session \in SessionType
      /\ ckpt \in CheckpointType /\ attempt \in AttemptType \cup {NoAttempt}
      /\ snapshot.rev \in Nat \ {0} /\ snapshot.content \in Contents
      /\ goal \in GoalStates
    BY DEF TypeOK, TurnsType
<1>1. CASE RecoverSession(e)
  <2>1. PICK now \in Times :
          run' = [run EXCEPT ![e] =
                     [IdleTurn EXCEPT !.phase = "attempt", !.now = now,
                                      !.updated = session.updated,
                                      !.cycles = session.cycles]]
    BY <1>1 DEF RecoverSession
  <2>2. [IdleTurn EXCEPT !.phase = "attempt", !.now = now, !.updated = session.updated,
                         !.cycles = session.cycles] \in TurnType
    BY <1>a DEF IdleTurn, TurnType, TurnShape, SessionType, Phases, Outcomes
  <2>3. run' \in TurnsType
    BY <1>a, <2>1, <2>2 DEF TurnsType
  <2> QED BY <1>1, <2>3, RunStep DEF RecoverSession
<1>2. CASE RecoverAttempt(e)
  <2>1. run' \in TurnsType
    BY <1>2, <1>a, DropType, GotoType DEF RecoverAttempt, Phases
  <2>2. attempt' \in AttemptType \cup {NoAttempt}
    <3>1. CASE attempt' = attempt
      BY <3>1, <1>a
    <3>2. CASE /\ attempt # NoAttempt
               /\ attempt' = [attempt EXCEPT !.status = "Indeterminate", !.at = run[e].now]
      BY <3>2, <1>a DEF AttemptType, TurnType, TurnShape
    <3> QED BY <1>2, <3>1, <3>2 DEF RecoverAttempt
  <2> QED BY <1>2, <2>1, <2>2, AttemptStep DEF RecoverAttempt
<1>2a. CASE RecoverSnapshot(e)
  <2>1. CASE goal = "revised"
    BY <1>2a, <2>1, <1>a, DropType, RunStep DEF RecoverSnapshot
  <2>2. CASE goal # "revised"
    <3>1. [run[e] EXCEPT !.phase = "checkpoint", !.goal = goal, !.rev = snapshot.rev,
                         !.files = {snapshot.content}] \in TurnType
      BY <1>a, <2>2, GoalStatesAssumption DEF TurnType, TurnShape, Phases
    <3>2. run' \in TurnsType
      BY <1>2a, <1>a, <2>2, <3>1 DEF RecoverSnapshot, TurnsType
    <3> QED BY <1>2a, <3>2, RunStep DEF RecoverSnapshot
  <2> QED BY <2>1, <2>2
<1>3. CASE RecoverCheckpoint(e)
  <2>1. CASE Recoverable(e)
    <3>1. [run[e] EXCEPT !.phase = "recovered", !.seq = ckpt.seq, !.used = ckpt.used,
                         !.files = {}] \in TurnType
      BY <1>a DEF TurnType, TurnShape, CheckpointType, Phases
    <3>2. run' \in TurnsType
      BY <1>3, <1>a, <2>1, <3>1 DEF RecoverCheckpoint, TurnsType
    <3> QED BY <1>3, <3>2, RunStep DEF RecoverCheckpoint
  <2>2. CASE ~Recoverable(e)
    BY <1>3, <2>2, <1>a, DropType, RunStep DEF RecoverCheckpoint
  <2> QED BY <2>1, <2>2
<1>4. CASE CommitResume(e)
  <2>1. [run[e] EXCEPT !.phase = "held", !.seq = @ + 1, !.updated = run[e].now,
                       !.now = 0, !.goal = "active"] \in TurnType
    <3>1. run[e].seq + 1 \in Nat
      BY <1>a DEF TurnType, TurnShape
    <3>2. ASSUME NEW n \in Nat
          PROVE  [run[e] EXCEPT !.phase = "held", !.seq = n, !.updated = run[e].now,
                                !.now = 0, !.goal = "active"] \in TurnType
      BY <1>a DEF TurnType, TurnShape, Phases
    <3> QED BY <3>1, <3>2
  <2>2. run' \in TurnsType
    BY <1>4, <1>a, <2>1 DEF CommitResume, TurnsType
  <2>3. session' \in SessionType
    BY <1>4, <1>a DEF CommitResume, SessionType, SessionStatus, TurnType, TurnShape
  <2>4. ckpt' \in CheckpointType
    BY <1>4, <1>a DEF CommitResume, Resumable, PolicyBound, CheckpointType, TaskStatus, TurnType, TurnShape
  <2> QED BY <1>4, <2>2, <2>3, <2>4, LifecycleStep DEF CommitResume
<1>5. CASE ResumeFails(e)
  BY <1>5, <1>a, DropType, RunStep DEF ResumeFails
<1>6. CASE Release(e)
  BY <1>6, <1>a, DropType, RunStep DEF Release
<1>7. CASE Preflight(e)
  <2>1. PICK now \in Times :
          PreflightReady(e, now) \/ PreflightDrift(e, now) \/ PreflightFails(e, now)
    BY <1>7 DEF Preflight
  <2>2. CASE PreflightReady(e, now)
    <3>1. [run[e] EXCEPT !.phase = "ready", !.now = now, !.rev = snapshot.rev] \in TurnType
      BY <1>a DEF TurnType, TurnShape, Phases
    <3>2. run' \in TurnsType
      BY <1>a, <2>2, <3>1 DEF PreflightReady, TurnsType
    <3> QED BY <1>7, <2>2, <3>2, RunStep DEF Preflight, PreflightReady, durable
  <2>3. CASE PreflightDrift(e, now)
    <3>1. run' \in TurnsType
      BY <1>a, <2>3, DropType DEF PreflightDrift
    <3>2. session' \in SessionType
      BY <1>a, <2>3 DEF PreflightDrift, SessionType, SessionStatus, TurnType, TurnShape
    <3>3. ckpt' \in CheckpointType
      BY <1>a, <2>3 DEF PreflightDrift, CheckpointType, TaskStatus, TurnType, TurnShape
    <3>4. snapshot' \in [rev : Nat \ {0}, content : Contents, at : Nat]
      BY <1>a, <2>3 DEF PreflightDrift, TypeOK
    <3> QED BY <1>7, <3>1, <3>2, <3>3, <3>4
            DEF Preflight, TypeOK, TurnsType, world, history
  <2>4. CASE PreflightFails(e, now)
    BY <1>7, <1>a, <2>4, DropType, RunStep DEF Preflight, PreflightFails, durable
  <2> QED BY <2>1, <2>2, <2>3, <2>4
<1>8. CASE BeginAttempt(e)
  <2>1. CASE Beginnable(e)
    <3>1. [run[e] EXCEPT !.phase = "begun", !.id = nextId] \in TurnType
      BY <1>a DEF TurnType, TurnShape, Phases, TypeOK
    <3>2. run' \in TurnsType
      BY <1>8, <1>a, <2>1, <3>1 DEF BeginAttempt, TurnsType
    <3>3. attempt' \in AttemptType
      BY <1>8, <1>a, <2>1 DEF BeginAttempt, Beginnable, CheckpointIs, TypeOK, AttemptType,
                               TurnType, TurnShape, CheckpointType
    <3> QED BY <1>8, <2>1, <3>2, <3>3 DEF BeginAttempt, TypeOK, TurnsType, world
  <2>2. CASE ~Beginnable(e)
    BY <1>8, <1>a, <2>2, DropType, RunStep DEF BeginAttempt, durable, history
  <2> QED BY <2>1, <2>2
<1>9. CASE AdmitPause(e)
  <2>1. [run[e] EXCEPT !.phase = "commit", !.outcome = "Paused"] \in TurnType
    BY <1>a DEF TurnType, TurnShape, Phases, Outcomes
  <2>2. run' \in TurnsType
    BY <1>9, <1>a, <2>1 DEF AdmitPause, TurnsType
  <2> QED BY <1>9, <2>2, RunStep DEF AdmitPause
<1>10. CASE RefuseProvider(e)
  BY <1>10, <1>a, GotoType, RunStep DEF RefuseProvider, Phases
<1>11. CASE CallProvider(e)
  <2>1. [run[e] EXCEPT !.phase = "inflight", !.cycles = @ + 1] \in TurnType
    <3>1. run[e].cycles + 1 \in 0..MaxCycles
      BY <1>11, <1>a DEF CallProvider, TurnType, TurnShape
    <3>2. ASSUME NEW n \in 0..MaxCycles
          PROVE  [run[e] EXCEPT !.phase = "inflight", !.cycles = n] \in TurnType
      BY <1>a DEF TurnType, TurnShape, Phases
    <3> QED BY <3>1, <3>2
  <2>2. run' \in TurnsType
    BY <1>11, <1>a, <2>1 DEF CallProvider, TurnsType
  <2>3. run[e].id \in Nat /\ run[e].seq \in Nat
    BY <1>a DEF TurnType, TurnShape
  <2> QED BY <1>11, <2>2, <2>3 DEF CallProvider, TypeOK, TurnsType, durable, world
<1>12. CASE ProviderReturns(e)
  <2>1. CASE Goto(e, "quarantine")
    BY <1>12, <1>a, <2>1, GotoType, RunStep DEF ProviderReturns, Phases
  <2>2. ASSUME NEW outcome \in {"Paused", "Completed"},
               run' = [run EXCEPT ![e].phase = "commit", ![e].outcome = outcome]
        PROVE  TypeOK'
    <3>1. [run[e] EXCEPT !.phase = "commit", !.outcome = outcome] \in TurnType
      BY <1>a DEF TurnType, TurnShape, Phases, Outcomes
    <3>2. run' \in TurnsType
      BY <1>a, <2>2, <3>1 DEF TurnsType
    <3> QED BY <1>12, <3>2, RunStep DEF ProviderReturns
  <2>3. ASSUME NEW id \in CallIds,
               run' = [run EXCEPT ![e].phase = "commit", ![e].outcome = "Continue",
                                  ![e].reply = {id}]
        PROVE  TypeOK'
    <3>1. [run[e] EXCEPT !.phase = "commit", !.outcome = "Continue", !.reply = {id}] \in TurnType
      BY <1>a DEF TurnType, TurnShape, Phases, Outcomes
    <3>2. run' \in TurnsType
      BY <1>a, <2>3, <3>1 DEF TurnsType
    <3> QED BY <1>12, <3>2, RunStep DEF ProviderReturns
  <2> QED BY <1>12, <2>1, <2>2, <2>3 DEF ProviderReturns
<1>13. CASE RejectOutcome(e)
  BY <1>13, <1>a, DropType, RunStep DEF RejectOutcome
<1>14. CASE CommitTurn(e)
  <2> DEFINE turn == run[e]
             used == turn.used \cup turn.reply
  <2>1. run' \in TurnsType
    <3>1. turn.seq + 1 \in Nat /\ used \in SUBSET CallIds
      BY <1>a DEF TurnType, TurnShape
    <3>2. ASSUME NEW n \in Nat, NEW u \in SUBSET CallIds
          PROVE  [turn EXCEPT !.phase = "held", !.updated = turn.now, !.seq = n, !.used = u,
                              !.now = 0, !.id = 0, !.outcome = "none", !.reply = {}]
                   \in TurnType
      BY <1>a DEF TurnType, TurnShape, Phases, Outcomes
    <3>3. [turn EXCEPT !.phase = "held", !.updated = turn.now, !.seq = @ + 1, !.used = used,
                       !.now = 0, !.id = 0, !.outcome = "none", !.reply = {}] \in TurnType
      BY <3>1, <3>2
    <3> QED BY <1>14, <1>a, <3>3, DropType DEF CommitTurn, TurnsType
  <2>2. turn.outcome \in {"Continue", "Paused", "Completed"}
    BY <1>14, <1>a DEF CommitTurn, At, TurnType, TurnShape, Outcomes
  <2>3. session' \in SessionType
    <3>1. SessionAfter[turn.outcome] \in SessionStatus
      BY <2>2 DEF SessionAfter, SessionStatus
    <3>2. turn.now \in Nat /\ turn.cycles \in 0..MaxCycles
      BY <1>a DEF TurnType, TurnShape
    <3> QED BY <1>14, <1>a, <3>1, <3>2 DEF CommitTurn, SessionType
  <2>4. ckpt' \in CheckpointType
    <3>1. TaskAfter[turn.outcome] \in TaskStatus
      BY <2>2 DEF TaskAfter, TaskStatus
    <3>2. /\ turn.seq + 1 \in Nat \ {0} /\ used \in SUBSET CallIds
          /\ turn.now \in Nat /\ turn.rev \in Nat \ {0}
      BY <1>14, <1>a DEF CommitTurn, Committable, PolicyBound, TurnType, TurnShape
    <3> QED BY <1>14, <3>1, <3>2 DEF CommitTurn, CheckpointType
  <2>5. turn.id \in Nat \ {0}
    BY <1>14, <1>a DEF CommitTurn, Committable, NoAttempt, AttemptType
  <2> QED BY <1>14, <2>1, <2>3, <2>4, <2>5 DEF CommitTurn, TypeOK, TurnsType, world
<1>15. CASE CommitFails(e)
  BY <1>15, <1>a, GotoType, RunStep DEF CommitFails, Phases
<1>16. CASE Quarantine(e)
  <2>1. run' \in TurnsType
    BY <1>16, <1>a, DropType DEF Quarantine
  <2>2. attempt' \in AttemptType \cup {NoAttempt}
    <3>1. CASE attempt' = attempt
      BY <3>1, <1>a
    <3>2. CASE /\ attempt.status = "Active"
               /\ attempt' = [attempt EXCEPT !.status = "Indeterminate", !.at = run[e].now]
      <4>1. attempt \in AttemptType
        BY <3>2, <1>a DEF NoAttempt
      <4> QED BY <3>2, <4>1, <1>a DEF AttemptType, TurnType, TurnShape
    <3> QED BY <1>16, <3>1, <3>2 DEF Quarantine
  <2> QED BY <1>16, <2>1, <2>2, AttemptStep DEF Quarantine
<1>17. ASSUME NEW kind \in {"Paused", "Cancelled"}, HostControl(e, kind)
       PROVE  TypeOK'
  <2>1. run' \in TurnsType
    BY <1>17, <1>a, DropType DEF HostControl
  <2>2. session' \in SessionType
    BY <1>17, <1>a DEF HostControl, SessionType, SessionStatus, TurnType, TurnShape
  <2>3. ckpt' \in CheckpointType
    BY <1>17, <1>a DEF HostControl, ControlCommittable, PolicyBound, CheckpointType,
                        TaskStatus, TurnType, TurnShape
  <2> QED BY <1>17, <2>1, <2>2, <2>3, LifecycleStep DEF HostControl
<1> QED BY <1>1, <1>2, <1>2a, <1>3, <1>4, <1>5, <1>6, <1>7, <1>8, <1>9, <1>10, <1>11,
           <1>12, <1>13, <1>14, <1>15, <1>16, <1>17 DEF Execute

\* Both resolutions of an unknown outcome keep the types.
LEMMA ResolveType ==
    ASSUME TypeOK, NEW now \in Times, ResolveNotExecuted(now) \/ ResolveAcceptCancel(now)
    PROVE  TypeOK'
<1> USE TimesAssumption
<1>1. PICK status \in SessionStatus, task \in TaskStatus : Resolve(status, task, now)
    BY DEF ResolveNotExecuted, ResolveAcceptCancel, SessionStatus, TaskStatus, TypeOK,
           CheckpointType
<1>2. attempt \in AttemptType
    BY <1>1 DEF Resolve, Resolvable, NoAttempt, TypeOK
<1>3. session' \in SessionType
    BY <1>1 DEF Resolve, TypeOK, SessionType
<1>4. ckpt' \in CheckpointType
  <2>1. ckpt.seq + 1 \in Nat \ {0} /\ ckpt \in CheckpointType
    BY DEF TypeOK, CheckpointType
  <2>2. ASSUME NEW n \in Nat \ {0}
        PROVE  [ckpt EXCEPT !.seq = n, !.task = task, !.updated = now] \in CheckpointType
    BY <2>1 DEF CheckpointType
  <2> QED BY <1>1, <2>1, <2>2 DEF Resolve
<1> QED BY <1>1, <1>2, <1>3, <1>4 DEF Resolve, TypeOK, AttemptType, world

\* A crash and the two startup transactions keep the types.
LEMMA RestartType ==
    ASSUME TypeOK, Restart
    PROVE  TypeOK'
<1> USE TimesAssumption
<1>1. CASE Crash
    BY <1>1, IdleType DEF Crash, TypeOK, durable, world, history
<1>2. CASE RestorePause
  <2>1. PICK now \in Times :
          /\ session' = IF session.status = "Running"
                        THEN [session EXCEPT !.status = "Paused", !.updated = now]
                        ELSE session
          /\ host' = [phase |-> "restoring", now |-> now]
    BY <1>2 DEF RestorePause
  <2>2. session' \in SessionType
    BY <2>1 DEF TypeOK, SessionType, SessionStatus
  <2> QED BY <1>2, <2>1, <2>2 DEF RestorePause, TypeOK, world, history
<1>3. CASE RestoreAttempts
  <2>1. attempt' \in AttemptType \cup {NoAttempt}
    <3>1. CASE attempt.status = "Active"
      <4>1. attempt \in AttemptType /\ host.now \in Nat
        BY <3>1 DEF TypeOK, NoAttempt
      <4> QED BY <1>3, <3>1, <4>1 DEF RestoreAttempts, AttemptType
    <3>2. CASE attempt.status # "Active"
      BY <1>3, <3>2 DEF RestoreAttempts, TypeOK
    <3> QED BY <3>1, <3>2
  <2> QED BY <1>3, <2>1 DEF RestoreAttempts, TypeOK, world, history
<1> QED BY <1>1, <1>2, <1>3 DEF Restart

\* TypeOK is inductive: no other fact about the state is needed.
LEMMA TypeStep == TypeOK /\ [Next]_vars => TypeOK'
<1> SUFFICES ASSUME TypeOK, [Next]_vars PROVE TypeOK'
    OBVIOUS
<1>1. CASE DiskChange
    BY <1>1 DEF DiskChange, TypeOK, durable, history
<1>2. CASE GoalChange
    BY <1>2 DEF GoalChange, TypeOK, durable, history
<1>3. CASE UNCHANGED vars
    BY <1>3 DEF vars, durable, world, history, TypeOK
<1> QED BY <1>1, <1>2, <1>3, ExecuteType, ResolveType, RestartType DEF Next

\* Whatever the constants, the clock and the interleaving, the rows and the
\* continuations keep the shape that their Rust types and validations give.
THEOREM TypeCorrect == Spec => []TypeOK
BY TypeInit, TypeStep, PTL DEF Spec

-----------------------------------------------------------------------------
\* What the attempt row, the executors' memory and the history of calls say
\* of each other.  Identities are handed out in order; whoever is between
\* begin and its end owns one nobody else owns; an attempt that was begun
\* and not called yet has no call; what is settled is what left the table.

Issued == 1..(nextId - 1)

LedgerInv ==
    /\ attempt # NoAttempt => attempt.id \in Issued
    /\ \A e \in Executors : run[e].phase \in Owning => run[e].id \in Issued
    /\ \A e, f \in Executors :
          e # f /\ run[e].phase \in Owning /\ run[f].phase \in Owning
            => run[e].id # run[f].id
    /\ \A e \in Executors : run[e].phase = "begun" => run[e].id \notin Called
    /\ settled = Issued \ {attempt.id}
    /\ Called \subseteq Issued

\* The first state has issued nothing.
LEMMA LedgerInit == Init => LedgerInv
BY DEF Init, LedgerInv, Issued, Owning, Called, IdleTurn, NoAttempt

\* A step that issues, calls and settles nothing and gives no executor an
\* identity it did not have: memory shrinks, the row keeps its identity.
LEMMA QuietStep ==
    ASSUME LedgerInv, attempt'.id = attempt.id, attempt' = NoAttempt <=> attempt = NoAttempt,
           UNCHANGED history,
           \A e \in Executors : run'[e].phase \in Owning =>
               /\ run[e].phase \in Owning /\ run'[e].id = run[e].id
               /\ run'[e].phase = "begun" => run[e].phase = "begun"
    PROVE  LedgerInv'
<1>1. Issued' = Issued /\ Called' = Called /\ settled' = settled
    BY DEF Issued, Called, history
<1>2. attempt' # NoAttempt => attempt'.id \in Issued'
    BY <1>1 DEF LedgerInv
<1>3. \A e \in Executors : run'[e].phase \in Owning => run'[e].id \in Issued'
    BY <1>1 DEF LedgerInv
<1>4. \A e, f \in Executors :
         e # f /\ run'[e].phase \in Owning /\ run'[f].phase \in Owning
           => run'[e].id # run'[f].id
    BY DEF LedgerInv
<1>5. \A e \in Executors : run'[e].phase = "begun" => run'[e].id \notin Called'
    BY <1>1 DEF LedgerInv, Owning
<1>6. settled' = Issued' \ {attempt'.id} /\ Called' \subseteq Issued'
    BY <1>1 DEF LedgerInv
<1> QED BY <1>2, <1>3, <1>4, <1>5, <1>6 DEF LedgerInv, Owning

\* LedgerInv through the steps of an executor: begin issues, a call is the
\* owner's own, a commit settles what it deletes, everything else is quiet.
LEMMA LedgerExecute ==
    ASSUME TypeOK, LedgerInv, NEW e \in Executors, Execute(e)
    PROVE  LedgerInv'
<1> DEFINE Keeps(f) == run'[f].phase \in Owning =>
               /\ run[f].phase \in Owning /\ run'[f].id = run[f].id
               /\ run'[f].phase = "begun" => run[f].phase = "begun"
<1>t. /\ run \in TurnsType /\ run[e] \in TurnShape
      /\ attempt \in AttemptType \cup {NoAttempt}
      /\ nextId \in Nat \ {0}
    BY DEF TypeOK, TurnsType, TurnType
<1>d. ASSUME Drop(e) PROVE \A f \in Executors : Keeps(f)
    BY <1>d, <1>t DEF Drop, IdleTurn, Owning, TurnsType
<1>g. ASSUME NEW phase \in {"snapshot", "quarantine"}, Goto(e, phase),
             phase = "quarantine" => run[e].phase \in Owning
      PROVE  \A f \in Executors : Keeps(f)
    BY <1>g, <1>t DEF Goto, Owning, TurnsType, TurnShape
<1>u. ASSUME UNCHANGED history, UNCHANGED attempt, \A f \in Executors : Keeps(f)
      PROVE  LedgerInv'
    BY <1>u, QuietStep
<1>m. ASSUME UNCHANGED history, \A f \in Executors : Keeps(f),
             attempt \in AttemptType,
             attempt' = [attempt EXCEPT !.status = "Indeterminate", !.at = run[e].now]
      PROVE  LedgerInv'
  <2>1. attempt'.id = attempt.id /\ attempt' # NoAttempt /\ attempt # NoAttempt
    <3>1. attempt'.id = attempt.id
      BY <1>m DEF AttemptType
    <3>2. attempt.id # 0 /\ NoAttempt.id = 0
      BY <1>m DEF AttemptType, NoAttempt
    <3> QED BY <3>1, <3>2
  <2> QED BY <2>1, <1>m, QuietStep
<1>1. CASE RecoverSession(e)
    BY <1>1, <1>t, <1>u DEF RecoverSession, durable, history, IdleTurn, Owning, TurnsType
<1>2. CASE RecoverAttempt(e)
  <2>1. \A f \in Executors : Keeps(f)
    BY <1>2, <1>d, <1>g DEF RecoverAttempt
  <2>2. CASE UNCHANGED attempt
    BY <1>2, <2>1, <2>2, <1>u DEF RecoverAttempt, history
  <2>3. CASE /\ attempt # NoAttempt
             /\ attempt' = [attempt EXCEPT !.status = "Indeterminate", !.at = run[e].now]
    BY <1>2, <2>1, <2>3, <1>m, <1>t DEF RecoverAttempt, history
  <2> QED BY <1>2, <2>2, <2>3 DEF RecoverAttempt
<1>2a. CASE RecoverSnapshot(e)
  <2>1. \A f \in Executors : Keeps(f)
    BY <1>2a, <1>d, <1>t DEF RecoverSnapshot, Owning, TurnsType, TurnShape
  <2> QED BY <1>2a, <2>1, <1>u DEF RecoverSnapshot, durable
<1>3. CASE RecoverCheckpoint(e)
  <2>1. \A f \in Executors : Keeps(f)
    BY <1>3, <1>d, <1>t DEF RecoverCheckpoint, Owning, TurnsType, TurnShape
  <2> QED BY <1>3, <2>1, <1>u DEF RecoverCheckpoint, durable
<1>4. CASE CommitResume(e)
  <2>1. \A f \in Executors : Keeps(f)
    BY <1>4, <1>t DEF CommitResume, Owning, TurnsType, TurnShape
  <2> QED BY <1>4, <2>1, <1>u DEF CommitResume
<1>5. CASE ResumeFails(e)
    BY <1>5, <1>d, <1>u DEF ResumeFails, durable
<1>6. CASE Release(e)
    BY <1>6, <1>d, <1>u DEF Release, durable
<1>7. CASE Preflight(e)
  <2>1. \A f \in Executors : Keeps(f)
    BY <1>7, <1>d, <1>t DEF Preflight, PreflightReady, PreflightDrift, PreflightFails,
                            Owning, TurnsType, TurnShape
  <2> QED BY <1>7, <2>1, <1>u DEF Preflight
<1>8. CASE BeginAttempt(e)
  <2>1. CASE ~Beginnable(e)
    BY <1>8, <2>1, <1>d, <1>u DEF BeginAttempt, history
  <2>2. CASE Beginnable(e)
    <3>1. /\ attempt' = [id |-> nextId, seq |-> run[e].seq, expected |-> run[e].updated,
                         status |-> "Active", at |-> run[e].now]
          /\ run' = [run EXCEPT ![e].phase = "begun", ![e].id = nextId]
          /\ nextId' = nextId + 1 /\ UNCHANGED <<calls, settled>>
          /\ attempt = NoAttempt
      BY <1>8, <2>2 DEF BeginAttempt, Beginnable
    <3>2. Issued' = Issued \cup {nextId} /\ nextId \notin Issued
      BY <3>1, <1>t DEF Issued
    <3>3. Called' = Called
      BY <3>1 DEF Called
    <3>4. /\ run'[e].phase = "begun" /\ run'[e].id = nextId
          /\ \A f \in Executors \ {e} : run'[f] = run[f]
      BY <3>1, <1>t DEF TurnsType, TurnShape
    <3>5. settled' = Issued' \ {attempt'.id}
      BY <3>1, <3>2, <1>t DEF LedgerInv, NoAttempt, Issued
    <3>6. attempt'.id \in Issued'
      BY <3>1, <3>2
    <3>7. \A f \in Executors : run'[f].phase \in Owning => run'[f].id \in Issued'
      BY <3>2, <3>4 DEF LedgerInv
    <3>8. \A f, h \in Executors :
             f # h /\ run'[f].phase \in Owning /\ run'[h].phase \in Owning
               => run'[f].id # run'[h].id
      BY <3>2, <3>4 DEF LedgerInv
    <3>9. \A f \in Executors : run'[f].phase = "begun" => run'[f].id \notin Called'
      BY <3>2, <3>3, <3>4 DEF LedgerInv
    <3>10. Called' \subseteq Issued'
      BY <3>2, <3>3 DEF LedgerInv
    <3> QED BY <3>5, <3>6, <3>7, <3>8, <3>9, <3>10 DEF LedgerInv
  <2> QED BY <2>1, <2>2
<1>9. CASE AdmitPause(e)
  <2>1. \A f \in Executors : Keeps(f)
    BY <1>9, <1>t DEF AdmitPause, At, Owning, TurnsType, TurnShape
  <2> QED BY <1>9, <2>1, <1>u DEF AdmitPause, durable
<1>10. CASE RefuseProvider(e)
    BY <1>10, <1>g, <1>u DEF RefuseProvider, At, Owning, durable
<1>11. CASE CallProvider(e)
  <2>1. /\ run' = [run EXCEPT ![e].phase = "inflight", ![e].cycles = @ + 1]
        /\ calls' = calls \cup {[id |-> run[e].id, seq |-> run[e].seq]}
        /\ UNCHANGED <<attempt, nextId, settled>> /\ run[e].phase = "begun"
    BY <1>11 DEF CallProvider, At, durable
  <2>2. Called' = Called \cup {run[e].id}
    <3> DEFINE call == [id |-> run[e].id, seq |-> run[e].seq]
    <3>1. call.id = run[e].id /\ calls' = calls \cup {call}
      BY <2>1
    <3> HIDE DEF call
    <3> QED BY <3>1 DEF Called
  <2>3. Issued' = Issued
    BY <2>1 DEF Issued
  <2>4. /\ run'[e].phase = "inflight" /\ run'[e].id = run[e].id
        /\ \A f \in Executors \ {e} : run'[f] = run[f]
    BY <2>1, <1>t DEF TurnsType, TurnShape
  <2>5. run[e].phase \in Owning /\ run[e].id \in Issued
    BY <2>1 DEF LedgerInv, Owning
  <2>6. \A f \in Executors : run'[f].phase \in Owning => run'[f].id \in Issued'
    BY <2>3, <2>4, <2>5 DEF LedgerInv
  <2>7. \A f, h \in Executors :
           f # h /\ run'[f].phase \in Owning /\ run'[h].phase \in Owning
             => run'[f].id # run'[h].id
    BY <2>4, <2>5 DEF LedgerInv
  <2>8. \A f \in Executors : run'[f].phase = "begun" => run'[f].id \notin Called'
    BY <2>2, <2>4, <2>5 DEF LedgerInv, Owning
  <2> QED BY <2>1, <2>2, <2>3, <2>5, <2>6, <2>7, <2>8 DEF LedgerInv
<1>12. CASE ProviderReturns(e)
  <2>1. \A f \in Executors : Keeps(f)
    BY <1>12, <1>g, <1>t DEF ProviderReturns, At, Owning, TurnsType, TurnShape
  <2> QED BY <1>12, <2>1, <1>u DEF ProviderReturns, durable
<1>13. CASE RejectOutcome(e)
    BY <1>13, <1>d, <1>u DEF RejectOutcome, durable
<1>14. CASE CommitTurn(e)
  <2>1. /\ attempt' = NoAttempt /\ settled' = settled \cup {run[e].id}
        /\ UNCHANGED <<nextId, calls>> /\ attempt.id = run[e].id
        /\ attempt \in AttemptType
    BY <1>14, <1>t DEF CommitTurn, Committable, NoAttempt
  <2>2. \A f \in Executors : Keeps(f)
    <3>1. CASE Drop(e)
      BY <3>1, <1>d
    <3>2. CASE run' = [run EXCEPT ![e] =
                         [run[e] EXCEPT !.phase = "held", !.updated = run[e].now,
                                        !.seq = @ + 1, !.used = run[e].used \cup run[e].reply,
                                        !.now = 0, !.id = 0, !.outcome = "none",
                                        !.reply = {}]]
      <4>1. run'[e].phase = "held" /\ \A f \in Executors \ {e} : run'[f] = run[f]
        BY <3>2, <1>t DEF TurnsType, TurnShape
      <4> QED BY <4>1 DEF Owning
    <3> QED BY <1>14, <3>1, <3>2 DEF CommitTurn
  <2>3. Issued' = Issued /\ Called' = Called
    BY <2>1 DEF Issued, Called
  <2>4. settled' = Issued' \ {attempt'.id}
    BY <2>1, <2>3, <1>t DEF LedgerInv, NoAttempt, AttemptType, Issued
  <2>5. /\ \A f \in Executors : run'[f].phase \in Owning => run'[f].id \in Issued'
        /\ \A f, h \in Executors :
             f # h /\ run'[f].phase \in Owning /\ run'[h].phase \in Owning
               => run'[f].id # run'[h].id
        /\ \A f \in Executors : run'[f].phase = "begun" => run'[f].id \notin Called'
    BY <2>2, <2>3 DEF LedgerInv, Owning
  <2>6. attempt' = NoAttempt /\ Called' \subseteq Issued'
    BY <2>1, <2>3 DEF LedgerInv
  <2> QED BY <2>4, <2>5, <2>6 DEF LedgerInv
<1>15. CASE CommitFails(e)
    BY <1>15, <1>g, <1>u DEF CommitFails, At, Owning, durable
<1>16. CASE Quarantine(e)
  <2>1. \A f \in Executors : Keeps(f)
    BY <1>16, <1>d DEF Quarantine
  <2>2. CASE UNCHANGED attempt
    BY <1>16, <2>1, <2>2, <1>u DEF Quarantine
  <2>3. CASE /\ attempt.status = "Active"
             /\ attempt' = [attempt EXCEPT !.status = "Indeterminate", !.at = run[e].now]
    <3>1. attempt \in AttemptType
      BY <2>3, <1>t DEF NoAttempt
    <3> QED BY <1>16, <2>1, <2>3, <3>1, <1>m DEF Quarantine
  <2> QED BY <1>16, <2>2, <2>3 DEF Quarantine
<1>17. ASSUME NEW kind \in {"Paused", "Cancelled"}, HostControl(e, kind)
       PROVE  LedgerInv'
    BY <1>17, <1>d, <1>u DEF HostControl
<1> QED BY <1>1, <1>2, <1>2a, <1>3, <1>4, <1>5, <1>6, <1>7, <1>8, <1>9, <1>10, <1>11,
           <1>12, <1>13, <1>14, <1>15, <1>16, <1>17 DEF Execute

\* LedgerInv through the user's resolutions, which settle what they delete.
LEMMA LedgerResolve ==
    ASSUME TypeOK, LedgerInv, NEW now \in Times,
           ResolveNotExecuted(now) \/ ResolveAcceptCancel(now)
    PROVE  LedgerInv'
<1>1. /\ attempt' = NoAttempt /\ settled' = settled \cup {attempt.id}
      /\ UNCHANGED <<run, nextId, calls>> /\ attempt.status = "Indeterminate"
    BY DEF ResolveNotExecuted, ResolveAcceptCancel, Resolve, Resolvable
<1>2. attempt \in AttemptType /\ nextId \in Nat
    BY <1>1 DEF TypeOK, NoAttempt
<1>3. Issued' = Issued /\ Called' = Called
    BY <1>1 DEF Issued, Called
<1>4. settled' = Issued' \ {attempt'.id}
    BY <1>1, <1>2, <1>3 DEF LedgerInv, NoAttempt, AttemptType, Issued
<1> QED BY <1>1, <1>2, <1>3, <1>4 DEF LedgerInv

\* LedgerInv through a crash, which empties the memory, and the startup,
\* which keeps the identity in the row.
LEMMA LedgerRestart ==
    ASSUME TypeOK, LedgerInv, Restart
    PROVE  LedgerInv'
<1>1. CASE Crash
    BY <1>1, QuietStep DEF Crash, IdleTurn, Owning, durable
<1>2. CASE RestorePause
    BY <1>2, QuietStep DEF RestorePause
<1>3. CASE RestoreAttempts
  <2>1. CASE UNCHANGED attempt
    BY <1>3, <2>1, QuietStep DEF RestoreAttempts
  <2>2. CASE attempt.status = "Active"
    <3>1. attempt \in AttemptType
      BY <2>2 DEF TypeOK, NoAttempt
    <3>2. attempt'.id = attempt.id /\ attempt' # NoAttempt /\ attempt # NoAttempt
      <4>1. attempt'.id = attempt.id
        BY <1>3, <2>2, <3>1 DEF RestoreAttempts, AttemptType
      <4>2. attempt.id # 0 /\ NoAttempt.id = 0
        BY <3>1 DEF AttemptType, NoAttempt
      <4> QED BY <4>1, <4>2
    <3> QED BY <1>3, <3>2, QuietStep DEF RestoreAttempts
  <2> QED BY <1>3, <2>1, <2>2 DEF RestoreAttempts
<1> QED BY <1>1, <1>2, <1>3 DEF Restart

\* LedgerInv is inductive relative to the types.
LEMMA LedgerStep == TypeOK /\ LedgerInv /\ [Next]_vars => LedgerInv'
<1> SUFFICES ASSUME TypeOK, LedgerInv, [Next]_vars PROVE LedgerInv'
    OBVIOUS
<1>1. CASE DiskChange
    BY <1>1, QuietStep DEF DiskChange, durable
<1>2. CASE GoalChange
    BY <1>2, QuietStep DEF GoalChange, durable
<1>3. CASE UNCHANGED vars
    BY <1>3, QuietStep DEF vars, durable, history
<1> QED BY <1>1, <1>2, <1>3, LedgerExecute, LedgerResolve, LedgerRestart DEF Next

\* The invariant holds in every reachable state.
THEOREM LedgerInvariant == Spec => []LedgerInv
BY LedgerInit, LedgerStep, TypeCorrect, PTL DEF Spec

\* No Provider call is forgotten: at any moment, after any crash, failed
\* write or lost race, each call whose result is not durable is the one the
\* attempt row records.
THEOREM CallsAreRecorded == Spec => []UnsettledIsRecorded
<1>1. LedgerInv => UnsettledIsRecorded
    BY DEF LedgerInv, UnsettledIsRecorded
<1> QED BY <1>1, LedgerInvariant, PTL

\* No attempt is forgotten either, called or not: all that were issued are
\* concluded, but for the one in the table.  (What AttemptLedger promises.)
THEOREM AttemptsAreKept == Spec => []Ledger!NothingForgotten
<1>1. TypeOK /\ LedgerInv => Ledger!NothingForgotten
    BY DEF LedgerInv, Issued, Ledger!NothingForgotten
<1> QED BY <1>1, TypeCorrect, LedgerInvariant, PTL

-----------------------------------------------------------------------------
\* AutoModeTurns implements AttemptLedger.

\* The ledger does not see a step that leaves the identity and the status of
\* the row, and the history, alone.
LEMMA Stutter ==
    ASSUME attempt'.id = attempt.id, attempt'.status = attempt.status, UNCHANGED history
    PROVE  [Ledger!Next]_(Ledger!ledger)
BY DEF Ledger!ledger, history, Called

\* Marking the attempt indeterminate is losing track of it.
LEMMA LosesTrack ==
    ASSUME attempt.status = "Active", attempt'.id = attempt.id,
           attempt'.status = "Indeterminate", UNCHANGED history
    PROVE  [Ledger!Next]_(Ledger!ledger)
<1>1. Called' = Called
    BY DEF history, Called
<1> QED BY <1>1 DEF Ledger!Next, Ledger!LoseTrack, history

\* A transaction that deletes the attempt and settles it concludes it.
LEMMA Concludes ==
    ASSUME attempt \in AttemptType, attempt' = NoAttempt,
           settled' = settled \cup {attempt.id}, UNCHANGED <<nextId, calls>>
    PROVE  [Ledger!Next]_(Ledger!ledger)
<1>1. Called' = Called
    BY DEF Called
<1>2. [id |-> attempt.id, status |-> attempt.status] # Ledger!NoRow
    BY DEF AttemptType, Ledger!NoRow
<1>3. [id |-> attempt'.id, status |-> attempt'.status] = Ledger!NoRow
    BY DEF NoAttempt, Ledger!NoRow
<1> QED BY <1>1, <1>2, <1>3 DEF Ledger!Next, Ledger!Conclude

\* The first state is the empty ledger.
LEMMA RefineInit == Init => Ledger!Init
BY DEF Init, Ledger!Init, Ledger!NoRow, NoAttempt, Called

\* Each step of an executor issues, calls, loses track of or concludes an
\* attempt, or is invisible to the ledger.
LEMMA RefineExecute ==
    ASSUME TypeOK, LedgerInv, NEW e \in Executors, Execute(e)
    PROVE  [Ledger!Next]_(Ledger!ledger)
<1>t. /\ run \in TurnsType /\ run[e] \in TurnShape
      /\ attempt \in AttemptType \cup {NoAttempt}
      /\ nextId \in Nat \ {0}
    BY DEF TypeOK, TurnsType, TurnType
<1>s. ASSUME UNCHANGED attempt, UNCHANGED history
      PROVE  [Ledger!Next]_(Ledger!ledger)
    BY <1>s, Stutter
<1>m. ASSUME attempt \in AttemptType, attempt.status = "Active", UNCHANGED history,
             attempt' = [attempt EXCEPT !.status = "Indeterminate", !.at = run[e].now]
      PROVE  [Ledger!Next]_(Ledger!ledger)
  <2>1. attempt'.id = attempt.id /\ attempt'.status = "Indeterminate"
    BY <1>m DEF AttemptType
  <2> QED BY <2>1, <1>m, LosesTrack
<1>1. CASE RecoverSession(e)
    BY <1>1, <1>s DEF RecoverSession, durable
<1>2. CASE RecoverAttempt(e)
  <2>1. CASE UNCHANGED attempt
    BY <1>2, <2>1, <1>s DEF RecoverAttempt
  <2>2. CASE /\ attempt # NoAttempt /\ attempt.status = "Active"
             /\ attempt' = [attempt EXCEPT !.status = "Indeterminate", !.at = run[e].now]
    BY <1>2, <2>2, <1>m, <1>t DEF RecoverAttempt
  <2> QED BY <1>2, <2>1, <2>2 DEF RecoverAttempt
<1>2a. CASE RecoverSnapshot(e)
    BY <1>2a, <1>s DEF RecoverSnapshot, durable
<1>3. CASE RecoverCheckpoint(e)
    BY <1>3, <1>s DEF RecoverCheckpoint, durable
<1>4. CASE CommitResume(e)
    BY <1>4, <1>s DEF CommitResume
<1>5. CASE ResumeFails(e)
    BY <1>5, <1>s DEF ResumeFails, durable
<1>6. CASE Release(e)
    BY <1>6, <1>s DEF Release, durable
<1>7. CASE Preflight(e)
    BY <1>7, <1>s DEF Preflight
<1>8. CASE BeginAttempt(e)
  <2>1. CASE ~Beginnable(e)
    BY <1>8, <2>1, <1>s DEF BeginAttempt, history
  <2>2. CASE Beginnable(e)
    <3>1. /\ attempt'.id = nextId /\ attempt'.status = "Active"
          /\ nextId' = nextId + 1 /\ UNCHANGED <<calls, settled>>
          /\ attempt = NoAttempt
      BY <1>8, <2>2 DEF BeginAttempt, Beginnable
    <3>2. Called' = Called
      BY <3>1 DEF Called
    <3>3. [id |-> attempt.id, status |-> attempt.status] = Ledger!NoRow
      BY <3>1 DEF NoAttempt, Ledger!NoRow
    <3>4. nextId' - 1 = (nextId - 1) + 1 /\ attempt'.id = nextId' - 1
      BY <3>1, <1>t
    <3> QED BY <3>1, <3>2, <3>3, <3>4 DEF Ledger!Next, Ledger!Issue
  <2> QED BY <2>1, <2>2
<1>9. CASE AdmitPause(e)
    BY <1>9, <1>s DEF AdmitPause, durable
<1>10. CASE RefuseProvider(e)
    BY <1>10, <1>s DEF RefuseProvider, durable
<1>11. CASE CallProvider(e)
  <2>1. /\ calls' = calls \cup {[id |-> run[e].id, seq |-> run[e].seq]}
        /\ UNCHANGED <<attempt, nextId, settled>> /\ run[e].phase = "begun"
    BY <1>11 DEF CallProvider, At, durable
  <2>2. Called' = Called \cup {run[e].id}
    <3> DEFINE call == [id |-> run[e].id, seq |-> run[e].seq]
    <3>1. call.id = run[e].id /\ calls' = calls \cup {call}
      BY <2>1
    <3> HIDE DEF call
    <3> QED BY <3>1 DEF Called
  <2>3. run[e].id \in Issued \ Called
    BY <2>1 DEF LedgerInv, Owning
  <2> QED BY <2>1, <2>2, <2>3 DEF Ledger!Next, Ledger!Call, Issued
<1>12. CASE ProviderReturns(e)
    BY <1>12, <1>s DEF ProviderReturns, durable
<1>13. CASE RejectOutcome(e)
    BY <1>13, <1>s DEF RejectOutcome, durable
<1>14. CASE CommitTurn(e)
  <2>1. /\ attempt' = NoAttempt /\ settled' = settled \cup {attempt.id}
        /\ UNCHANGED <<nextId, calls>> /\ attempt \in AttemptType
    BY <1>14, <1>t DEF CommitTurn, Committable, NoAttempt
  <2> QED BY <2>1, Concludes
<1>15. CASE CommitFails(e)
    BY <1>15, <1>s DEF CommitFails, durable
<1>16. CASE Quarantine(e)
  <2>1. CASE UNCHANGED attempt
    BY <1>16, <2>1, <1>s DEF Quarantine
  <2>2. CASE /\ attempt.status = "Active"
             /\ attempt' = [attempt EXCEPT !.status = "Indeterminate", !.at = run[e].now]
    <3>1. attempt \in AttemptType
      BY <2>2, <1>t DEF NoAttempt
    <3> QED BY <1>16, <2>2, <3>1, <1>m DEF Quarantine
  <2> QED BY <1>16, <2>1, <2>2 DEF Quarantine
<1>17. ASSUME NEW kind \in {"Paused", "Cancelled"}, HostControl(e, kind)
       PROVE  [Ledger!Next]_(Ledger!ledger)
    BY <1>17, <1>s DEF HostControl
<1> QED BY <1>1, <1>2, <1>2a, <1>3, <1>4, <1>5, <1>6, <1>7, <1>8, <1>9, <1>10, <1>11,
           <1>12, <1>13, <1>14, <1>15, <1>16, <1>17 DEF Execute

\* A resolution concludes the attempt.
LEMMA RefineResolve ==
    ASSUME TypeOK, NEW now \in Times, ResolveNotExecuted(now) \/ ResolveAcceptCancel(now)
    PROVE  [Ledger!Next]_(Ledger!ledger)
<1>1. /\ attempt' = NoAttempt /\ settled' = settled \cup {attempt.id}
      /\ UNCHANGED <<nextId, calls>> /\ attempt.status = "Indeterminate"
    BY DEF ResolveNotExecuted, ResolveAcceptCancel, Resolve, Resolvable
<1>2. attempt \in AttemptType
    BY <1>1 DEF TypeOK, NoAttempt
<1> QED BY <1>1, <1>2, Concludes

\* A startup at most loses track of the attempt it finds.
LEMMA RefineRestart ==
    ASSUME TypeOK, Restart
    PROVE  [Ledger!Next]_(Ledger!ledger)
<1>1. CASE Crash
    BY <1>1, Stutter DEF Crash, durable
<1>2. CASE RestorePause
    BY <1>2, Stutter DEF RestorePause
<1>3. CASE RestoreAttempts
  <2>1. CASE attempt.status # "Active"
    BY <1>3, <2>1, Stutter DEF RestoreAttempts
  <2>2. CASE attempt.status = "Active"
    <3>1. attempt \in AttemptType
      BY <2>2 DEF TypeOK, NoAttempt
    <3>2. attempt'.id = attempt.id /\ attempt'.status = "Indeterminate"
      BY <1>3, <2>2, <3>1 DEF RestoreAttempts, AttemptType
    <3> QED BY <1>3, <2>2, <3>2, LosesTrack DEF RestoreAttempts
  <2> QED BY <2>1, <2>2
<1> QED BY <1>1, <1>2, <1>3 DEF Restart

\* Every step of the pipeline is a step of the ledger or a stutter.
LEMMA RefineStep ==
    TypeOK /\ LedgerInv /\ [Next]_vars => [Ledger!Next]_(Ledger!ledger)
<1> SUFFICES ASSUME TypeOK, LedgerInv, [Next]_vars
             PROVE  [Ledger!Next]_(Ledger!ledger)
    OBVIOUS
<1>1. CASE DiskChange
    BY <1>1, Stutter DEF DiskChange, durable
<1>2. CASE GoalChange
    BY <1>2, Stutter DEF GoalChange, durable
<1>3. CASE UNCHANGED vars
    BY <1>3, Stutter DEF vars, durable, history
<1> QED BY <1>1, <1>2, <1>3, RefineExecute, RefineResolve, RefineRestart DEF Next

\* The pipeline implements the ledger of attempts: one outstanding at a time,
\* at most one Provider call each, each concluded once, by a commit or by the
\* user, however many executors race and however often the host dies.
THEOREM Refinement == Spec => ImplementsLedger
BY RefineInit, RefineStep, TypeCorrect, LedgerInvariant, PTL
   DEF Spec, ImplementsLedger, Ledger!Spec

-----------------------------------------------------------------------------
\* The checkpoint sequence: it alone keeps executors apart, since session
\* versions are clock readings, and it keeps a checkpoint from being offered to
\* a Provider twice.

\* Sequences in memory and in the history never run ahead of the row; at the
\* current sequence an attempt stands for every call, made or about to be made.
SequenceInv ==
    /\ NoSharedContinuation
    /\ OneCallPerCheckpoint
    /\ \A c \in calls : c.seq <= ckpt.seq
    /\ \A c \in calls : c.seq = ckpt.seq => attempt # NoAttempt
    /\ \A e \in Executors : run[e].phase = "begun" =>
          /\ \A c \in calls : c.seq # run[e].seq
          /\ run[e].seq = ckpt.seq => attempt # NoAttempt

\* What an executor that gains no continuation keeps of the one it has.
KeepsPlace(f) ==
    /\ run'[f].phase \in Holding => run[f].phase \in Holding /\ run'[f].seq = run[f].seq
    /\ run'[f].phase = "begun" => run[f].phase = "begun"

-----------------------------------------------------------------------------
\* The types the arguments about sequences need.
LEMMA SequenceType ==
    ASSUME TypeOK
    PROVE  /\ ckpt.seq \in Nat
           /\ \A e \in Executors : run[e].seq \in Nat
           /\ \A c \in calls : c.seq \in Nat
BY DEF TypeOK, CheckpointType, TurnType, TurnShape

\* Initially nobody holds anything and nothing was called.
LEMMA SequenceInit == Init => SequenceInv
BY DEF Init, SequenceInv, NoSharedContinuation, OneCallPerCheckpoint, IdleTurn, Holding

\* A step that hands out no continuation, makes no call and deletes no
\* attempt of the current checkpoint.
LEMMA SequenceQuiet ==
    ASSUME TypeOK, SequenceInv, UNCHANGED calls,
           ckpt'.seq = ckpt.seq \/ ckpt'.seq = ckpt.seq + 1,
           ckpt'.seq = ckpt.seq /\ attempt # NoAttempt => attempt' # NoAttempt,
           \A f \in Executors : KeepsPlace(f)
    PROVE  SequenceInv'
<1> USE SequenceType DEF KeepsPlace
<1>1. NoSharedContinuation'
  BY DEF SequenceInv, NoSharedContinuation
<1>2. OneCallPerCheckpoint'
  BY DEF SequenceInv, OneCallPerCheckpoint
<1>3. \A c \in calls' : c.seq <= ckpt'.seq /\ (c.seq = ckpt'.seq => attempt' # NoAttempt)
  BY DEF SequenceInv
<1>4. ASSUME NEW f \in Executors, run'[f].phase = "begun"
      PROVE  /\ \A c \in calls' : c.seq # run'[f].seq
             /\ run'[f].seq = ckpt'.seq => attempt' # NoAttempt
  <2>1. run[f].phase = "begun" /\ run'[f].seq = run[f].seq /\ run[f].seq <= ckpt.seq
    BY <1>4 DEF SequenceInv, NoSharedContinuation, Holding
  <2> QED BY <2>1 DEF SequenceInv
<1> QED BY <1>1, <1>2, <1>3, <1>4 DEF SequenceInv

\* A commit that hands executor e the next checkpoint: nobody else is there.
LEMMA SequenceAdvance ==
    ASSUME TypeOK, SequenceInv, NEW e \in Executors, UNCHANGED calls,
           ckpt'.seq = ckpt.seq + 1, run'[e].phase = "held", run'[e].seq = ckpt'.seq,
           \A f \in Executors \ {e} : KeepsPlace(f)
    PROVE  SequenceInv'
<1> USE SequenceType DEF KeepsPlace
<1>1. NoSharedContinuation'
  BY DEF SequenceInv, NoSharedContinuation
<1>2. OneCallPerCheckpoint'
  BY DEF SequenceInv, OneCallPerCheckpoint
<1>3. \A c \in calls' : c.seq <= ckpt'.seq /\ c.seq # ckpt'.seq
  BY DEF SequenceInv
<1>4. ASSUME NEW f \in Executors, run'[f].phase = "begun"
      PROVE  /\ \A c \in calls' : c.seq # run'[f].seq
             /\ run'[f].seq # ckpt'.seq
  <2>1. /\ f # e /\ run[f].phase = "begun" /\ run'[f].seq = run[f].seq
        /\ run[f].seq <= ckpt.seq
    BY <1>4 DEF SequenceInv, NoSharedContinuation, Holding
  <2> QED BY <2>1 DEF SequenceInv
<1> QED BY <1>1, <1>2, <1>3, <1>4 DEF SequenceInv

\* The attempt of the current checkpoint is begun while no call was made at it.
LEMMA SequenceBegin ==
    ASSUME TypeOK, SequenceInv, NEW e \in Executors, BeginAttempt(e), Beginnable(e)
    PROVE  SequenceInv'
<1> USE SequenceType
<1>1. /\ run' = [run EXCEPT ![e].phase = "begun", ![e].id = nextId]
      /\ attempt = NoAttempt /\ run[e].seq = ckpt.seq /\ run[e].phase = "ready"
      /\ ckpt' = ckpt /\ calls' = calls
  BY DEF BeginAttempt, Beginnable, CheckpointIs, At
<1>2. attempt' # NoAttempt
  <2>1. attempt'.id = nextId /\ nextId # 0 /\ NoAttempt.id = 0
    BY DEF BeginAttempt, TypeOK, NoAttempt
  <2> QED BY <2>1
<1>3. \A f \in Executors : run'[f].seq = run[f].seq /\ (f # e => run'[f] = run[f])
  BY <1>1 DEF TypeOK, TurnType, TurnShape
<1>4. \A f \in Executors : run'[f].phase \in Holding => run[f].phase \in Holding
  BY <1>1, <1>3 DEF Holding
<1>5. NoSharedContinuation'
  <2>1. ckpt'.seq = ckpt.seq /\ \A f \in Executors : run'[f].seq = run[f].seq
    BY <1>1, <1>3
  <2> QED BY <2>1, <1>4 DEF SequenceInv, NoSharedContinuation
<1>6. OneCallPerCheckpoint'
  BY <1>1 DEF SequenceInv, OneCallPerCheckpoint
<1>7. \A c \in calls : c.seq # run[e].seq
  BY <1>1 DEF SequenceInv
<1> QED
  BY <1>1, <1>2, <1>3, <1>5, <1>6, <1>7 DEF SequenceInv

\* The one call of an attempt is the first at its checkpoint, and no other
\* executor can be about to make another.
LEMMA SequenceCall ==
    ASSUME TypeOK, SequenceInv, NEW e \in Executors, CallProvider(e)
    PROVE  SequenceInv'
<1> USE SequenceType
<1> DEFINE call == [id |-> run[e].id, seq |-> run[e].seq]
<1>1. /\ run' = [run EXCEPT ![e].phase = "inflight", ![e].cycles = @ + 1]
      /\ calls' = calls \cup {call} /\ run[e].phase = "begun"
      /\ ckpt' = ckpt /\ attempt' = attempt
  BY DEF CallProvider, At, durable
<1>2. \A f \in Executors : run'[f].seq = run[f].seq /\ (f # e => run'[f] = run[f])
  BY <1>1 DEF TypeOK, TurnType, TurnShape
<1>3. run'[e].phase = "inflight"
  BY <1>1 DEF TypeOK, TurnType, TurnShape
<1>4. /\ \A c \in calls : c.seq # call.seq
      /\ call.seq <= ckpt.seq
      /\ call.seq = ckpt.seq => attempt # NoAttempt
  BY <1>1 DEF SequenceInv, NoSharedContinuation, Holding
<1>5. NoSharedContinuation'
  <2>1. \A f \in Executors : run'[f].phase \in Holding => run[f].phase \in Holding
    BY <1>1, <1>2 DEF Holding
  <2>2. ckpt'.seq = ckpt.seq /\ \A f \in Executors : run'[f].seq = run[f].seq
    BY <1>1, <1>2
  <2> QED BY <2>1, <2>2 DEF SequenceInv, NoSharedContinuation
<1>6. OneCallPerCheckpoint'
  BY <1>1, <1>4 DEF SequenceInv, OneCallPerCheckpoint
<1>7. ASSUME NEW f \in Executors, run'[f].phase = "begun"
      PROVE  /\ \A c \in calls' : c.seq # run'[f].seq
             /\ run'[f].seq = ckpt'.seq => attempt' # NoAttempt
  <2>1. f # e /\ run[f].phase = "begun" /\ run'[f].seq = run[f].seq
    BY <1>2, <1>3, <1>7
  <2>2. run[f].seq # run[e].seq
    BY <1>1, <2>1 DEF SequenceInv, NoSharedContinuation, Holding
  <2> QED BY <1>1, <2>1, <2>2 DEF SequenceInv
<1> QED
  BY <1>1, <1>4, <1>5, <1>6, <1>7 DEF SequenceInv
-----------------------------------------------------------------------------
\* Every step of an executor.
LEMMA SequenceExecute ==
    ASSUME TypeOK, SequenceInv, NEW e \in Executors, Execute(e)
    PROVE  SequenceInv'
<1>t. /\ run \in TurnsType /\ run[e] \in TurnShape
      /\ attempt \in AttemptType \cup {NoAttempt}
    BY DEF TypeOK, TurnsType, TurnType
<1>d. ASSUME Drop(e) PROVE \A f \in Executors : KeepsPlace(f)
    BY <1>d, <1>t DEF Drop, IdleTurn, Holding, TurnsType, KeepsPlace
<1>g. ASSUME NEW phase \in {"snapshot", "quarantine"}, Goto(e, phase)
      PROVE  \A f \in Executors : KeepsPlace(f)
    BY <1>g, <1>t DEF Goto, Holding, TurnsType, TurnShape, KeepsPlace
<1>u. ASSUME UNCHANGED <<ckpt, attempt, calls>>, \A f \in Executors : KeepsPlace(f)
      PROVE  SequenceInv'
    BY <1>u, SequenceQuiet
<1>m. ASSUME UNCHANGED <<ckpt, calls>>, \A f \in Executors : KeepsPlace(f),
             attempt # NoAttempt => attempt' # NoAttempt
      PROVE  SequenceInv'
    BY <1>m, SequenceQuiet
<1>p. ASSUME UNCHANGED calls, \A f \in Executors : KeepsPlace(f), ckpt'.seq = ckpt.seq + 1
      PROVE  SequenceInv'
    BY <1>p, SequenceQuiet, SequenceType
<1>i. ASSUME attempt # NoAttempt, NEW at,
             attempt' = [attempt EXCEPT !.status = "Indeterminate", !.at = at]
      PROVE  attempt' # NoAttempt
  <2>1. attempt'.id = attempt.id /\ attempt.id # 0 /\ NoAttempt.id = 0
    BY <1>i, <1>t DEF AttemptType, NoAttempt
  <2> QED BY <2>1
<1>1. CASE RecoverSession(e)
  <2>1. \A f \in Executors : KeepsPlace(f)
    BY <1>1, <1>t DEF RecoverSession, IdleTurn, Holding, TurnsType, KeepsPlace
  <2> QED BY <1>1, <2>1, <1>u DEF RecoverSession, durable, history
<1>2. CASE RecoverAttempt(e)
  <2>1. \A f \in Executors : KeepsPlace(f)
    BY <1>2, <1>d, <1>g DEF RecoverAttempt
  <2>2. attempt # NoAttempt => attempt' # NoAttempt
    BY <1>2, <1>i DEF RecoverAttempt
  <2> QED BY <1>2, <2>1, <2>2, <1>m DEF RecoverAttempt, history
<1>2a. CASE RecoverSnapshot(e)
  <2>1. \A f \in Executors : KeepsPlace(f)
    BY <1>2a, <1>d, <1>t DEF RecoverSnapshot, Holding, TurnsType, TurnShape, KeepsPlace
  <2> QED BY <1>2a, <2>1, <1>u DEF RecoverSnapshot, durable, history
<1>3. CASE RecoverCheckpoint(e)
  <2>1. \A f \in Executors : KeepsPlace(f)
    BY <1>3, <1>d, <1>t DEF RecoverCheckpoint, Holding, TurnsType, TurnShape, KeepsPlace
  <2> QED BY <1>3, <2>1, <1>u DEF RecoverCheckpoint, durable, history
<1>4. CASE CommitResume(e)
  <2>1. /\ ckpt'.seq = ckpt.seq + 1 /\ calls' = calls
        /\ run'[e].phase = "held" /\ run'[e].seq = ckpt'.seq
        /\ \A f \in Executors \ {e} : run'[f] = run[f]
    BY <1>4, <1>t DEF CommitResume, Resumable, CheckpointIs, TurnsType, TurnShape, history
  <2> QED BY <2>1, SequenceAdvance DEF KeepsPlace
<1>5. CASE ResumeFails(e)
    BY <1>5, <1>d, <1>u DEF ResumeFails, durable, history
<1>6. CASE Release(e)
    BY <1>6, <1>d, <1>u DEF Release, durable, history
<1>7. CASE Preflight(e)
  <2>1. PICK now \in Times :
          PreflightReady(e, now) \/ PreflightDrift(e, now) \/ PreflightFails(e, now)
    BY <1>7 DEF Preflight
  <2>2. CASE PreflightReady(e, now)
    <3>1. \A f \in Executors : KeepsPlace(f)
      BY <1>7, <2>2, <1>t DEF Preflight, PreflightReady, At, Holding, TurnsType, TurnShape,
                              KeepsPlace
    <3> QED BY <1>7, <2>2, <3>1, <1>u DEF Preflight, PreflightReady, history
  <2>3. CASE PreflightDrift(e, now)
    <3>1. ckpt'.seq = ckpt.seq + 1
      BY <2>3 DEF PreflightDrift, DriftCommittable, CheckpointIs
    <3> QED BY <1>7, <2>3, <3>1, <1>d, <1>p DEF Preflight, PreflightDrift, history
  <2>4. CASE PreflightFails(e, now)
    BY <1>7, <2>4, <1>d, <1>u DEF Preflight, PreflightFails, history
  <2> QED BY <2>1, <2>2, <2>3, <2>4
<1>8. CASE BeginAttempt(e)
  <2>1. CASE Beginnable(e)
    BY <1>8, <2>1, SequenceBegin
  <2>2. CASE ~Beginnable(e)
    BY <1>8, <2>2, <1>d, <1>u DEF BeginAttempt
  <2> QED BY <2>1, <2>2
<1>9. CASE AdmitPause(e)
  <2>1. \A f \in Executors : KeepsPlace(f)
    BY <1>9, <1>t DEF AdmitPause, At, Holding, TurnsType, TurnShape, KeepsPlace
  <2> QED BY <1>9, <2>1, <1>u DEF AdmitPause, durable, history
<1>10. CASE RefuseProvider(e)
    BY <1>10, <1>g, <1>u DEF RefuseProvider, durable, history
<1>11. CASE CallProvider(e)
    BY <1>11, SequenceCall
<1>12. CASE ProviderReturns(e)
  <2>1. \A f \in Executors : KeepsPlace(f)
    BY <1>12, <1>g, <1>t DEF ProviderReturns, At, Holding, TurnsType, TurnShape, KeepsPlace
  <2> QED BY <1>12, <2>1, <1>u DEF ProviderReturns, durable, history
<1>13. CASE RejectOutcome(e)
    BY <1>13, <1>d, <1>u DEF RejectOutcome, durable, history
<1>14. CASE CommitTurn(e)
  <2>1. ckpt'.seq = ckpt.seq + 1 /\ calls' = calls
    BY <1>14 DEF CommitTurn, Committable, CheckpointIs
  <2>2. CASE run[e].outcome = "Continue"
    <3>1. /\ run'[e].phase = "held" /\ run'[e].seq = ckpt'.seq
          /\ \A f \in Executors \ {e} : run'[f] = run[f]
      <4> DEFINE held == [run[e] EXCEPT !.phase = "held", !.updated = run[e].now,
                                        !.seq = @ + 1, !.used = run[e].used \cup run[e].reply,
                                        !.now = 0, !.id = 0, !.outcome = "none", !.reply = {}]
      <4>1. run' = [run EXCEPT ![e] = held] /\ ckpt'.seq = run[e].seq + 1
        BY <1>14, <2>2 DEF CommitTurn
      <4>2. held.phase = "held" /\ held.seq = run[e].seq + 1
        BY <1>t DEF TurnShape
      <4> HIDE DEF held
      <4> QED BY <4>1, <4>2, <1>t DEF TurnsType
    <3> QED BY <2>1, <3>1, SequenceAdvance DEF KeepsPlace
  <2>3. CASE run[e].outcome # "Continue"
    BY <1>14, <2>1, <2>3, <1>d, <1>p DEF CommitTurn
  <2> QED BY <2>2, <2>3
<1>15. CASE CommitFails(e)
    BY <1>15, <1>g, <1>u DEF CommitFails, durable, history
<1>16. CASE Quarantine(e)
  <2>1. attempt # NoAttempt => attempt' # NoAttempt
    BY <1>16, <1>i DEF Quarantine
  <2> QED BY <1>16, <2>1, <1>d, <1>m DEF Quarantine, history
<1>17. ASSUME NEW kind, HostControl(e, kind) PROVE SequenceInv'
  <2>1. UNCHANGED ckpt \/ ckpt'.seq = ckpt.seq + 1
    BY <1>17 DEF HostControl, ControlCommittable, CheckpointIs
  <2> QED BY <1>17, <2>1, <1>d, <1>u, <1>p DEF HostControl, history
<1> QED BY <1>1, <1>2, <1>2a, <1>3, <1>4, <1>5, <1>6, <1>7, <1>8, <1>9, <1>10, <1>11,
           <1>12, <1>13, <1>14, <1>15, <1>16, <1>17 DEF Execute

\* The user's decisions, the restart and the world outside.
LEMMA SequenceOther ==
    ASSUME TypeOK, SequenceInv,
           \/ \E now \in Times : ResolveNotExecuted(now) \/ ResolveAcceptCancel(now)
           \/ Restart \/ DiskChange \/ GoalChange \/ UNCHANGED vars
    PROVE  SequenceInv'
<1>1. ASSUME UNCHANGED run PROVE \A f \in Executors : KeepsPlace(f)
    BY <1>1 DEF KeepsPlace
<1>2. ASSUME NEW status, NEW task, NEW now, Resolve(status, task, now) PROVE SequenceInv'
  <2>1. ckpt'.seq = ckpt.seq + 1
    BY <1>2 DEF Resolve, TypeOK, CheckpointType
  <2> QED BY <1>2, <2>1, <1>1, SequenceQuiet, SequenceType DEF Resolve
<1>3. CASE Crash
  <2>1. \A f \in Executors : KeepsPlace(f)
    BY <1>3 DEF Crash, IdleTurn, Holding, KeepsPlace
  <2> QED BY <1>3, <2>1, SequenceQuiet DEF Crash, durable, history
<1>4. CASE RestorePause
    BY <1>4, <1>1, SequenceQuiet DEF RestorePause, history
<1>5. CASE RestoreAttempts
  <2>1. attempt # NoAttempt => attempt' # NoAttempt
    <3>1. CASE attempt \in AttemptType
      <4>1. attempt'.id = attempt.id /\ attempt.id # 0 /\ NoAttempt.id = 0
        BY <1>5, <3>1 DEF RestoreAttempts, AttemptType, NoAttempt
      <4> QED BY <4>1
    <3> QED BY <3>1 DEF TypeOK
  <2> QED BY <1>5, <2>1, <1>1, SequenceQuiet DEF RestoreAttempts, history
<1>6. CASE DiskChange \/ GoalChange \/ UNCHANGED vars
    BY <1>6, <1>1, SequenceQuiet DEF DiskChange, GoalChange, vars, durable, history
<1> QED
    BY <1>2, <1>3, <1>4, <1>5, <1>6 DEF ResolveNotExecuted, ResolveAcceptCancel, Restart

\* The strengthened invariant holds in every reachable state.
THEOREM SequenceInvariant == Spec => []SequenceInv
<1>1. Init => SequenceInv
  BY SequenceInit
<1>2. TypeOK /\ SequenceInv /\ [Next]_vars => SequenceInv'
  BY SequenceExecute, SequenceOther DEF Next
<1> QED
  BY <1>1, <1>2, TypeCorrect, PTL DEF Spec

\* Of two racing recoveries at most one is given the turn, however many
\* executors race and whatever their clocks say (NoSharedContinuation).
THEOREM ContinuationsAreExclusive == Spec => []NoSharedContinuation
<1>1. SequenceInv => NoSharedContinuation
  BY DEF SequenceInv
<1> QED
  BY <1>1, SequenceInvariant, PTL

\* A turn whose result was lost is never replayed from the same checkpoint,
\* through crashes, failed commits and resolutions (OneCallPerCheckpoint).
THEOREM CheckpointsAreCalledOnce == Spec => []OneCallPerCheckpoint
<1>1. SequenceInv => OneCallPerCheckpoint
  BY DEF SequenceInv
<1> QED
  BY <1>1, SequenceInvariant, PTL

-----------------------------------------------------------------------------
\* Executors between two turns, and those that looked for an attempt and found
\* none.
Boundary == {"held", "ready"}
Looked   == {"snapshot", "checkpoint", "recovered"}

\* An attempt belongs to the current checkpoint of a session that is not over;
\* nobody else is about to write either row: not at the boundary, since nobody
\* has the same continuation, and not in a recovery, since whoever could resume
\* the session would have found the attempt.
AttemptIsCurrent ==
    attempt # NoAttempt =>
        /\ attempt.seq = ckpt.seq
        /\ session.status \in {"Running", "Paused"}
        /\ ckpt.task = "Running" /\ PolicyBound(ckpt.rev)
        /\ \A e \in Executors : run[e].phase \in Boundary => run[e].seq # ckpt.seq
        /\ session.status = "Paused" => \A e \in Executors : run[e].phase \notin Looked

QuarantineInv ==
    /\ LifecyclesAgree
    /\ session.status = "Running" => PolicyBound(ckpt.rev)
    /\ host.phase # "up" => \A e \in Executors : run[e].phase = "idle"
    /\ AttemptIsCurrent

\* What a step that writes neither row leaves of the places of the executors.
KeepsBoundary(f) ==
    /\ run'[f].phase \in Boundary => run[f].phase \in Boundary /\ run'[f].seq = run[f].seq
    /\ run'[f].phase \in Looked => run[f].phase \in Looked \/ attempt = NoAttempt

\* A change of status does not make an attempt another one, nor none.
LEMMA AttemptStays ==
    ASSUME TypeOK, attempt # NoAttempt, NEW status, NEW at,
           attempt' = [attempt EXCEPT !.status = status, !.at = at]
    PROVE  attempt' # NoAttempt /\ attempt'.seq = attempt.seq
<1>1. attempt \in AttemptType
  BY DEF TypeOK
<1>2. attempt'.id = attempt.id /\ attempt.id # 0 /\ NoAttempt.id = 0
  BY <1>1 DEF AttemptType, NoAttempt
<1>3. attempt'.seq = attempt.seq
  BY <1>1 DEF AttemptType
<1> QED BY <1>2, <1>3

\* A step that writes neither row and begins no attempt.
LEMMA QuarantineQuiet ==
    ASSUME TypeOK, QuarantineInv, UNCHANGED <<session, ckpt, host>>,
           host.phase = "up" \/ UNCHANGED run,
           attempt' # NoAttempt => attempt # NoAttempt /\ attempt'.seq = attempt.seq,
           \A f \in Executors : KeepsBoundary(f)
    PROVE  QuarantineInv'
<1>1. LifecyclesAgree' /\ (session'.status = "Running" => PolicyBound(ckpt'.rev))
  BY DEF QuarantineInv, LifecyclesAgree
<1>2. host'.phase # "up" => \A e \in Executors : run'[e].phase = "idle"
  BY DEF QuarantineInv
<1>3. AttemptIsCurrent'
  BY DEF QuarantineInv, AttemptIsCurrent, KeepsBoundary
<1> QED BY <1>1, <1>2, <1>3 DEF QuarantineInv, PolicyBound

\* A transaction over both rows, when no attempt is left.
LEMMA QuarantineCommit ==
    ASSUME QuarantineInv, host.phase = "up", host' = host, attempt' = NoAttempt,
           LifecyclesAgree', session'.status = "Running" => PolicyBound(ckpt'.rev)
    PROVE  QuarantineInv'
BY DEF QuarantineInv, AttemptIsCurrent, PolicyBound

\* Whoever may write the rows at a boundary, or resume the session, found no
\* attempt, and there is none.
LEMMA BoundaryIsClear ==
    ASSUME QuarantineInv, NEW e \in Executors,
           \/ run[e].phase \in Boundary /\ run[e].seq = ckpt.seq
           \/ run[e].phase = "recovered" /\ session.status = "Paused"
    PROVE  attempt = NoAttempt
BY DEF QuarantineInv, AttemptIsCurrent, Boundary, Looked

\* Initially there is no attempt and the session is paused.
LEMMA QuarantineInit == Init => QuarantineInv
<1> SUFFICES ASSUME Init PROVE QuarantineInv
  OBVIOUS
<1>1. ckpt.task \in {"Planning", "Running"} /\ session.status = "Paused"
  BY InitialTasksAssumption DEF Init
<1>2. LifecyclesAgree
  BY <1>1 DEF LifecyclesAgree
<1> QED BY <1>1, <1>2 DEF Init, QuarantineInv, AttemptIsCurrent

\* Every step of an executor.
LEMMA QuarantineExecute ==
    ASSUME TypeOK, SequenceInv, QuarantineInv, NEW e \in Executors, Execute(e)
    PROVE  QuarantineInv'
<1>t. /\ run \in TurnsType /\ run[e] \in TurnShape
      /\ attempt \in AttemptType \cup {NoAttempt}
    BY DEF TypeOK, TurnsType, TurnType
<1>d. ASSUME Drop(e) PROVE \A f \in Executors : KeepsBoundary(f)
    BY <1>d, <1>t DEF Drop, IdleTurn, Boundary, Looked, TurnsType, KeepsBoundary
<1>g. ASSUME Goto(e, "quarantine") PROVE \A f \in Executors : KeepsBoundary(f)
    BY <1>g, <1>t DEF Goto, Boundary, Looked, TurnsType, TurnShape, KeepsBoundary
<1>u. ASSUME NEW phase, At(e, phase), UNCHANGED <<session, ckpt, attempt, host>>,
             \A f \in Executors : KeepsBoundary(f)
      PROVE  QuarantineInv'
    BY <1>u, QuarantineQuiet DEF At
<1>m. ASSUME NEW phase, At(e, phase), UNCHANGED <<session, ckpt, host>>,
             attempt' # NoAttempt => attempt # NoAttempt /\ attempt'.seq = attempt.seq,
             \A f \in Executors : KeepsBoundary(f)
      PROVE  QuarantineInv'
    BY <1>m, QuarantineQuiet DEF At
<1>1. CASE RecoverSession(e)
  <2>1. \A f \in Executors : KeepsBoundary(f)
    BY <1>1, <1>t DEF RecoverSession, IdleTurn, Boundary, Looked, TurnsType, KeepsBoundary
  <2> QED BY <1>1, <2>1, <1>u DEF RecoverSession, durable
<1>2. CASE RecoverAttempt(e)
  <2>1. CASE attempt = NoAttempt
    <3>1. \A f \in Executors : KeepsBoundary(f)
      BY <1>2, <2>1, <1>t DEF RecoverAttempt, Goto, Boundary, Looked, TurnsType, TurnShape,
                              KeepsBoundary
    <3> QED BY <1>2, <2>1, <3>1, <1>u DEF RecoverAttempt
  <2>2. CASE attempt # NoAttempt
    <3>1. attempt'.seq = attempt.seq
      BY <1>2, <2>2, AttemptStays DEF RecoverAttempt
    <3> QED BY <1>2, <2>2, <3>1, <1>d, <1>m DEF RecoverAttempt
  <2> QED BY <2>1, <2>2
<1>3. CASE RecoverSnapshot(e)
  <2>1. \A f \in Executors : KeepsBoundary(f)
    BY <1>3, <1>d, <1>t DEF RecoverSnapshot, At, Boundary, Looked, TurnsType, TurnShape,
                            KeepsBoundary
  <2> QED BY <1>3, <2>1, <1>u DEF RecoverSnapshot, durable
<1>4. CASE RecoverCheckpoint(e)
  <2>1. \A f \in Executors : KeepsBoundary(f)
    BY <1>4, <1>d, <1>t DEF RecoverCheckpoint, At, Boundary, Looked, TurnsType, TurnShape,
                            KeepsBoundary
  <2> QED BY <1>4, <2>1, <1>u DEF RecoverCheckpoint, durable
<1>5. CASE CommitResume(e)
  <2>1. attempt' = NoAttempt /\ host.phase = "up" /\ host' = host
    BY <1>5, BoundaryIsClear DEF CommitResume, Resumable, SessionIs, At
  <2>2. session'.status = "Running" /\ ckpt'.task = "Running" /\ PolicyBound(ckpt'.rev)
    BY <1>5 DEF CommitResume, Resumable, TypeOK, SessionType
  <2>3. LifecyclesAgree'
    BY <2>2 DEF LifecyclesAgree
  <2> QED BY <2>1, <2>2, <2>3, QuarantineCommit
<1>6. CASE ResumeFails(e)
    BY <1>6, <1>d, <1>u DEF ResumeFails, durable
<1>7. CASE Release(e)
    BY <1>7, <1>d, <1>u DEF Release, durable
<1>8. CASE Preflight(e)
  <2>1. PICK now \in Times :
          PreflightReady(e, now) \/ PreflightDrift(e, now) \/ PreflightFails(e, now)
    BY <1>8 DEF Preflight
  <2>2. CASE PreflightReady(e, now)
    <3>1. \A f \in Executors : KeepsBoundary(f)
      BY <1>8, <2>2, <1>t DEF Preflight, PreflightReady, At, Boundary, Looked, TurnsType,
                              TurnShape, KeepsBoundary
    <3> QED BY <1>8, <2>2, <3>1, <1>u DEF Preflight, PreflightReady
  <2>3. CASE PreflightDrift(e, now)
    <3>1. attempt' = NoAttempt /\ host.phase = "up" /\ host' = host
      BY <1>8, <2>3, BoundaryIsClear
         DEF Preflight, PreflightDrift, DriftCommittable, CheckpointIs, At, Boundary
    <3>2. session'.status = "Paused" /\ ckpt'.task = "Paused"
      BY <2>3 DEF PreflightDrift, TypeOK, SessionType
    <3>3. LifecyclesAgree'
      BY <3>2 DEF LifecyclesAgree
    <3> QED BY <3>1, <3>2, <3>3, QuarantineCommit
  <2>4. CASE PreflightFails(e, now)
    BY <1>8, <2>4, <1>d, <1>u DEF Preflight, PreflightFails
  <2> QED BY <2>1, <2>2, <2>3, <2>4
<1>9. CASE BeginAttempt(e)
  <2>1. CASE Beginnable(e)
    <3>1. /\ run' = [run EXCEPT ![e].phase = "begun", ![e].id = nextId]
          /\ attempt'.seq = run[e].seq /\ run[e].seq = ckpt.seq /\ run[e].phase = "ready"
          /\ session.status = "Running" /\ host.phase = "up"
          /\ UNCHANGED <<session, ckpt, host>>
      BY <1>9, <2>1 DEF BeginAttempt, Beginnable, CheckpointIs, SessionIs, At
    <3>2. ckpt.task = "Running" /\ PolicyBound(ckpt.rev)
      BY <3>1 DEF QuarantineInv, LifecyclesAgree
    <3>3. ASSUME NEW f \in Executors, run'[f].phase \in Boundary
          PROVE  run'[f].seq # ckpt'.seq
      <4>1. f # e /\ run'[f] = run[f]
        BY <3>1, <3>3, <1>t DEF Boundary, TurnsType, TurnShape
      <4> QED BY <3>1, <3>3, <4>1 DEF SequenceInv, NoSharedContinuation, Boundary, Holding
    <3>4. AttemptIsCurrent'
      BY <3>1, <3>2, <3>3 DEF AttemptIsCurrent, PolicyBound
    <3>5. LifecyclesAgree'
      BY <3>1 DEF QuarantineInv, LifecyclesAgree
    <3> QED BY <3>1, <3>2, <3>4, <3>5 DEF QuarantineInv, PolicyBound
  <2>2. CASE ~Beginnable(e)
    BY <1>9, <2>2, <1>d, <1>u DEF BeginAttempt
  <2> QED BY <2>1, <2>2
<1>10. CASE AdmitPause(e)
  <2>1. \A f \in Executors : KeepsBoundary(f)
    BY <1>10, <1>t DEF AdmitPause, Boundary, Looked, TurnsType, TurnShape, KeepsBoundary
  <2> QED BY <1>10, <2>1, <1>u DEF AdmitPause, durable
<1>11. CASE RefuseProvider(e)
    BY <1>11, <1>g, <1>u DEF RefuseProvider, durable
<1>12. CASE CallProvider(e)
  <2>1. \A f \in Executors : KeepsBoundary(f)
    BY <1>12, <1>t DEF CallProvider, Boundary, Looked, TurnsType, TurnShape, KeepsBoundary
  <2> QED BY <1>12, <2>1, <1>u DEF CallProvider, durable
<1>13. CASE ProviderReturns(e)
  <2>1. \A f \in Executors : KeepsBoundary(f)
    BY <1>13, <1>g, <1>t DEF ProviderReturns, Boundary, Looked, TurnsType, TurnShape,
                             KeepsBoundary
  <2> QED BY <1>13, <2>1, <1>u DEF ProviderReturns, durable
<1>14. CASE RejectOutcome(e)
    BY <1>14, <1>d, <1>u DEF RejectOutcome, durable
<1>15. CASE CommitTurn(e)
  <2>1. run[e].outcome \in {"Continue", "Paused", "Completed"}
    BY <1>15 DEF CommitTurn, At, TypeOK, TurnType, TurnShape, Outcomes
  <2>2. /\ session'.status = SessionAfter[run[e].outcome]
        /\ ckpt'.task = TaskAfter[run[e].outcome]
        /\ PolicyBound(ckpt'.rev)
    BY <1>15 DEF CommitTurn, Committable, TypeOK, SessionType
  <2>3. LifecyclesAgree'
    BY <2>1, <2>2 DEF SessionAfter, TaskAfter, LifecyclesAgree
  <2>4. attempt' = NoAttempt /\ host.phase = "up" /\ host' = host
    BY <1>15 DEF CommitTurn, At
  <2> QED BY <2>2, <2>3, <2>4, QuarantineCommit
<1>16. CASE CommitFails(e)
    BY <1>16, <1>g, <1>u DEF CommitFails, durable
<1>17. CASE Quarantine(e)
  <2>1. CASE UNCHANGED attempt
    BY <1>17, <2>1, <1>d, <1>u DEF Quarantine
  <2>2. CASE /\ attempt.status = "Active"
             /\ attempt' = [attempt EXCEPT !.status = "Indeterminate", !.at = run[e].now]
    <3>1. attempt # NoAttempt
      BY <2>2 DEF NoAttempt
    <3>2. attempt'.seq = attempt.seq
      BY <2>2, <3>1, AttemptStays
    <3> QED BY <1>17, <3>1, <3>2, <1>d, <1>m DEF Quarantine
  <2> QED BY <1>17, <2>1, <2>2 DEF Quarantine
<1>18. ASSUME NEW kind \in {"Paused", "Cancelled"}, HostControl(e, kind)
       PROVE  QuarantineInv'
  <2>1. CASE UNCHANGED <<session, ckpt>>
    BY <1>18, <2>1, <1>d, <1>u DEF HostControl
  <2>2. ASSUME NEW now \in Times, ControlCommittable(e, kind, now),
               session' = [session EXCEPT !.status = kind, !.updated = now,
                                          !.cycles = run[e].cycles],
               ckpt' = [seq |-> run[e].seq + 1, task |-> kind, updated |-> now,
                        used |-> run[e].used, rev |-> run[e].rev]
        PROVE  QuarantineInv'
    <3>1. attempt' = NoAttempt /\ host.phase = "up" /\ host' = host
      BY <1>18, <2>2, BoundaryIsClear
         DEF HostControl, ControlCommittable, CheckpointIs, At, Boundary
    <3>2. session'.status = kind /\ ckpt'.task = kind
      BY <2>2 DEF TypeOK, SessionType
    <3>3. LifecyclesAgree'
      BY <3>2 DEF LifecyclesAgree
    <3> QED BY <3>1, <3>2, <3>3, QuarantineCommit
  <2> QED BY <1>18, <2>1, <2>2 DEF HostControl
<1> QED BY <1>1, <1>2, <1>3, <1>4, <1>5, <1>6, <1>7, <1>8, <1>9, <1>10, <1>11, <1>12,
           <1>13, <1>14, <1>15, <1>16, <1>17, <1>18 DEF Execute

\* The user's decisions, the restart and the world outside.
LEMMA QuarantineOther ==
    ASSUME TypeOK, QuarantineInv,
           \/ \E now \in Times : ResolveNotExecuted(now) \/ ResolveAcceptCancel(now)
           \/ Restart \/ DiskChange \/ GoalChange \/ UNCHANGED vars
    PROVE  QuarantineInv'
<1>1. ASSUME NEW status \in {"Paused", "Cancelled"}, NEW now, Resolve(status, status, now)
      PROVE  QuarantineInv'
  <2>1. session'.status = status /\ ckpt'.task = status
    BY <1>1 DEF Resolve, TypeOK, SessionType, CheckpointType
  <2>2. LifecyclesAgree'
    BY <2>1 DEF LifecyclesAgree
  <2> QED BY <1>1, <2>1, <2>2, QuarantineCommit DEF Resolve
<1>2. ASSUME NEW now, ResolveAcceptCancel(now) PROVE Resolve("Cancelled", "Cancelled", now)
  <2>1. ckpt.task # "Succeeded"
    BY <1>2 DEF ResolveAcceptCancel, QuarantineInv, LifecyclesAgree
  <2> QED BY <1>2, <2>1 DEF ResolveAcceptCancel
<1>3. CASE Crash
  <2>1. \A e \in Executors : run'[e].phase = "idle"
    BY <1>3 DEF Crash, IdleTurn
  <2>2. UNCHANGED <<session, ckpt, attempt>>
    BY <1>3 DEF Crash, durable
  <2>3. LifecyclesAgree' /\ AttemptIsCurrent'
    BY <2>1, <2>2 DEF QuarantineInv, LifecyclesAgree, AttemptIsCurrent, Boundary, Looked, PolicyBound
  <2> QED BY <2>1, <2>2, <2>3 DEF QuarantineInv, PolicyBound
<1>4. CASE RestorePause
  <2>1. /\ \A e \in Executors : run'[e].phase = "idle"
        /\ UNCHANGED <<ckpt, attempt>>
        /\ session'.status = IF session.status = "Running" THEN "Paused" ELSE session.status
    BY <1>4 DEF RestorePause, QuarantineInv, TypeOK, SessionType
  <2>2. LifecyclesAgree'
    BY <2>1 DEF QuarantineInv, LifecyclesAgree
  <2>3. AttemptIsCurrent'
    BY <2>1 DEF QuarantineInv, AttemptIsCurrent, Boundary, Looked, PolicyBound
  <2> QED BY <2>1, <2>2, <2>3 DEF QuarantineInv
<1>5. CASE RestoreAttempts
  <2>1. attempt' # NoAttempt => attempt # NoAttempt /\ attempt'.seq = attempt.seq
    <3>1. CASE attempt.status = "Active"
      <4>1. attempt # NoAttempt
        BY <3>1 DEF NoAttempt
      <4> QED BY <1>5, <3>1, <4>1, AttemptStays DEF RestoreAttempts
    <3> QED BY <1>5, <3>1 DEF RestoreAttempts
  <2>2. /\ \A e \in Executors : run'[e].phase = "idle"
        /\ UNCHANGED <<session, ckpt>>
    BY <1>5 DEF RestoreAttempts, QuarantineInv
  <2>3. LifecyclesAgree'
    BY <2>2 DEF QuarantineInv, LifecyclesAgree
  <2>4. AttemptIsCurrent'
    BY <2>1, <2>2 DEF QuarantineInv, AttemptIsCurrent, Boundary, Looked, PolicyBound
  <2> QED BY <2>2, <2>3, <2>4 DEF QuarantineInv, PolicyBound
<1>6. CASE DiskChange \/ GoalChange \/ UNCHANGED vars
  <2>1. UNCHANGED <<session, ckpt, attempt, host, run>>
    BY <1>6 DEF DiskChange, GoalChange, vars, durable
  <2> QED BY <2>1, QuarantineQuiet DEF KeepsBoundary
<1> QED
    BY <1>1, <1>2, <1>3, <1>4, <1>5, <1>6 DEF ResolveNotExecuted, Restart

\* What holds of an attempt and of the two rows it depends on.
THEOREM QuarantineInvariant == Spec => []QuarantineInv
<1>1. Init => QuarantineInv
  BY QuarantineInit
<1>2. TypeOK /\ SequenceInv /\ QuarantineInv /\ [Next]_vars => QuarantineInv'
  BY QuarantineExecute, QuarantineOther DEF Next
<1> QED
  BY <1>1, <1>2, TypeCorrect, SequenceInvariant, PTL DEF Spec

\* The session and its task tell the same story after every transaction and
\* every crash (LifecyclesAgree).
THEOREM LifecyclesConverge == Spec => []LifecyclesAgree
<1>1. QuarantineInv => LifecyclesAgree
  BY DEF QuarantineInv
<1> QED
  BY <1>1, QuarantineInvariant, PTL

\* An attempt of unknown outcome is of the current checkpoint of a session that
\* is not over, so the user can decide it (QuarantineIsResolvable).
THEOREM QuarantineStaysOpen == Spec => []QuarantineIsResolvable
<1>1. QuarantineInv => QuarantineIsResolvable
  BY DEF QuarantineInv, AttemptIsCurrent, QuarantineIsResolvable, NoAttempt
<1> QED
  BY <1>1, QuarantineInvariant, PTL

-----------------------------------------------------------------------------
\* A version a recovery has read is not ahead of the row, nor that of a turn
\* ahead of the clock it read; and a candidate of the first snapshot was read
\* before the drift that replaced it.
ReadingsArePast(e) ==
    /\ run[e].phase \in Looked \cup {"attempt"} => run[e].updated <= session.updated
    /\ run[e].phase \in {"begun", "inflight", "commit"} => run[e].updated <= run[e].now
    /\ run[e].phase \in {"checkpoint", "recovered"} /\ run[e].rev = 1 /\ snapshot.rev # 1
         => run[e].updated <= snapshot.at

DriftInv ==
    /\ snapshot.rev # 1 => snapshot.at <= session.updated
    /\ \A e \in Executors : ReadingsArePast(e)

\* What DriftedSessionStaysPaused asks of a step.
DriftedStays ==
    session'.status = "Running" /\ ~PolicyBound(snapshot'.rev) =>
        /\ ~PolicyBound(snapshot.rev)
        /\ session.status = "Running" \/ session.updated = snapshot.at

\* The times the arguments about readings need.
LEMMA ReadingType ==
    ASSUME TypeOK
    PROVE  /\ session.updated \in Nat /\ snapshot.at \in Nat /\ snapshot.rev \in Nat
           /\ \A e \in Executors : /\ run[e].updated \in Nat /\ run[e].now \in Nat
                                   /\ run[e].rev \in Nat
BY DEF TypeOK, SessionType, TurnType, TurnShape

\* Places where an executor relies on no reading.
LEMMA NothingRead ==
    ASSUME NEW e \in Executors, run'[e].phase \in {"idle", "held", "ready", "quarantine"}
    PROVE  ReadingsArePast(e)'
BY DEF ReadingsArePast, Looked

\* The version of the session does not go back.
LEMMA ReadingsStay ==
    ASSUME TypeOK, DriftInv, NEW e \in Executors, run'[e] = run[e],
           session'.updated \in Nat, session.updated <= session'.updated,
           \/ UNCHANGED snapshot
           \/ snapshot'.at = session'.updated
    PROVE  ReadingsArePast(e)'
BY ReadingType DEF DriftInv, ReadingsArePast, Looked

\* A step of one executor that replaces no snapshot and resumes no session.
LEMMA DriftQuiet ==
    ASSUME TypeOK, DriftInv, NEW e \in Executors, UNCHANGED snapshot,
           session'.updated \in Nat, session.updated <= session'.updated,
           session'.status = "Running" => session.status = "Running",
           \A f \in Executors \ {e} : run'[f] = run[f],
           ReadingsArePast(e)'
    PROVE  DriftInv' /\ DriftedStays
<1>1. \A f \in Executors : ReadingsArePast(f)'
  BY ReadingsStay
<1>2. snapshot'.rev # 1 => snapshot'.at <= session'.updated
  BY ReadingType DEF DriftInv
<1> QED BY <1>1, <1>2 DEF DriftInv, DriftedStays, PolicyBound

\* Initially nobody has read anything and the snapshot is the first.
LEMMA DriftInit == Init => DriftInv
BY DEF Init, DriftInv, ReadingsArePast, IdleTurn, Looked

\* Every step of an executor.
LEMMA DriftExecute ==
    ASSUME TypeOK, DriftInv, NEW e \in Executors, Execute(e)
    PROVE  DriftInv' /\ DriftedStays
<1>t. /\ run \in TurnsType /\ run[e] \in TurnShape /\ session \in SessionType
    BY DEF TypeOK, TurnsType, TurnType
<1>p. ReadingsArePast(e) /\ session.updated \in Nat /\ session.updated <= session.updated
    BY ReadingType DEF DriftInv
<1>d. ASSUME Drop(e) PROVE ReadingsArePast(e)' /\ \A f \in Executors \ {e} : run'[f] = run[f]
    BY <1>d, <1>t, NothingRead DEF Drop, IdleTurn, TurnsType
<1>g. ASSUME Goto(e, "quarantine")
      PROVE  ReadingsArePast(e)' /\ \A f \in Executors \ {e} : run'[f] = run[f]
    BY <1>g, <1>t, NothingRead DEF Goto, TurnsType, TurnShape
<1>u. ASSUME UNCHANGED <<session, snapshot>>, ReadingsArePast(e)',
             \A f \in Executors \ {e} : run'[f] = run[f]
      PROVE  DriftInv' /\ DriftedStays
    BY <1>u, <1>p, DriftQuiet
<1> DEFINE Advances ==
             /\ run[e].phase \in {"begun", "inflight"}
             /\ run'[e].phase \in {"inflight", "commit"}
             /\ run'[e].updated = run[e].updated /\ run'[e].now = run[e].now
             /\ \A f \in Executors \ {e} : run'[f] = run[f]
             /\ UNCHANGED <<session, snapshot>>
<1>a. ASSUME Advances PROVE DriftInv' /\ DriftedStays
  <2>1. ReadingsArePast(e)'
    BY <1>a, <1>p DEF ReadingsArePast, Looked
  <2> QED BY <1>a, <2>1, <1>u
<1>1. CASE RecoverSession(e)
  <2>1. /\ run'[e].phase = "attempt" /\ run'[e].updated = session.updated
        /\ \A f \in Executors \ {e} : run'[f] = run[f]
    BY <1>1, <1>t DEF RecoverSession, IdleTurn, TurnsType
  <2>2. UNCHANGED <<session, snapshot>>
    BY <1>1 DEF RecoverSession, durable
  <2>3. ReadingsArePast(e)'
    BY <1>p, <2>1, <2>2 DEF ReadingsArePast, Looked
  <2> QED BY <2>1, <2>2, <2>3, <1>u
<1>2. CASE RecoverAttempt(e)
  <2>1. CASE Drop(e)
    BY <1>2, <2>1, <1>d, <1>u DEF RecoverAttempt
  <2>2. CASE Goto(e, "snapshot")
    <3>1. /\ run'[e].phase = "snapshot" /\ run'[e].updated = run[e].updated
          /\ \A f \in Executors \ {e} : run'[f] = run[f]
      BY <2>2, <1>t DEF Goto, TurnsType, TurnShape
    <3>2. ReadingsArePast(e)'
      BY <1>2, <1>p, <3>1 DEF RecoverAttempt, At, ReadingsArePast, Looked
    <3> QED BY <1>2, <3>1, <3>2, <1>u DEF RecoverAttempt
  <2> QED BY <1>2, <2>1, <2>2 DEF RecoverAttempt
<1>3. CASE RecoverSnapshot(e)
  <2>1. CASE Drop(e)
    BY <1>3, <2>1, <1>d, <1>u DEF RecoverSnapshot, durable
  <2>2. CASE run' = [run EXCEPT ![e].phase = "checkpoint", ![e].goal = goal,
                                ![e].rev = snapshot.rev, ![e].files = {snapshot.content}]
    <3>1. /\ run'[e].phase = "checkpoint" /\ run'[e].updated = run[e].updated
          /\ run'[e].rev = snapshot.rev
          /\ \A f \in Executors \ {e} : run'[f] = run[f]
      BY <2>2, <1>t DEF TurnsType, TurnShape
    <3>2. UNCHANGED <<session, snapshot>>
      BY <1>3 DEF RecoverSnapshot, durable
    <3>3. ReadingsArePast(e)'
      BY <1>3, <1>p, <3>1, <3>2 DEF RecoverSnapshot, At, ReadingsArePast, Looked
    <3> QED BY <3>1, <3>2, <3>3, <1>u
  <2> QED BY <1>3, <2>1, <2>2 DEF RecoverSnapshot
<1>4. CASE RecoverCheckpoint(e)
  <2>1. CASE Drop(e)
    BY <1>4, <2>1, <1>d, <1>u DEF RecoverCheckpoint, durable
  <2>2. CASE run' = [run EXCEPT ![e].phase = "recovered", ![e].seq = ckpt.seq,
                                ![e].used = ckpt.used, ![e].files = {}]
    <3>1. /\ run'[e].phase = "recovered" /\ run'[e].updated = run[e].updated
          /\ run'[e].rev = run[e].rev
          /\ \A f \in Executors \ {e} : run'[f] = run[f]
      BY <2>2, <1>t DEF TurnsType, TurnShape
    <3>2. UNCHANGED <<session, snapshot>>
      BY <1>4 DEF RecoverCheckpoint, durable
    <3>3. ReadingsArePast(e)'
      BY <1>4, <1>p, <3>1, <3>2 DEF RecoverCheckpoint, At, ReadingsArePast, Looked
    <3> QED BY <3>1, <3>2, <3>3, <1>u
  <2> QED BY <1>4, <2>1, <2>2 DEF RecoverCheckpoint
<1>5. CASE CommitResume(e)
  <2>1. /\ run[e].phase = "recovered" /\ run[e].rev = 1 /\ UNCHANGED snapshot
        /\ session.updated = run[e].updated /\ session'.updated = run[e].now
        /\ run[e].updated <= run[e].now
    BY <1>5, <1>t, ReadingType
       DEF CommitResume, Resumable, SessionIs, PolicyBound, At, SessionType
  <2>2. run'[e].phase = "held" /\ \A f \in Executors \ {e} : run'[f] = run[f]
    BY <1>5, <1>t DEF CommitResume, TurnsType, TurnShape
  <2>3. ReadingsArePast(e)'
    BY <2>2, NothingRead
  <2>4. \A f \in Executors : ReadingsArePast(f)'
    BY <2>1, <2>2, <2>3, ReadingsStay, ReadingType
  <2>5. snapshot'.rev # 1 => snapshot'.at <= session'.updated
    BY <2>1, ReadingType DEF DriftInv
  <2>6. snapshot.rev # 1 => session.updated = snapshot.at
    BY <2>1, <1>p, ReadingType DEF DriftInv, ReadingsArePast
  <2> QED BY <2>1, <2>4, <2>5, <2>6 DEF DriftInv, DriftedStays, PolicyBound
<1>6. CASE ResumeFails(e)
    BY <1>6, <1>d, <1>u DEF ResumeFails, durable
<1>7. CASE Release(e)
    BY <1>7, <1>d, <1>u DEF Release, durable
<1>8. CASE Preflight(e)
  <2>1. PICK now \in Times :
          PreflightReady(e, now) \/ PreflightDrift(e, now) \/ PreflightFails(e, now)
    BY <1>8 DEF Preflight
  <2>2. CASE PreflightReady(e, now)
    <3>1. run'[e].phase = "ready" /\ \A f \in Executors \ {e} : run'[f] = run[f]
      BY <2>2, <1>t DEF PreflightReady, TurnsType, TurnShape
    <3> QED BY <2>2, <3>1, <1>u, NothingRead DEF PreflightReady
  <2>3. CASE PreflightDrift(e, now)
    <3>1. /\ session'.status = "Paused" /\ session'.updated = now /\ snapshot'.at = now
          /\ session.updated <= now /\ now \in Nat
      BY <2>3, <1>t, TimesAssumption, ReadingType
         DEF PreflightDrift, DriftCommittable, SessionIs, SessionType
    <3>2. ReadingsArePast(e)' /\ \A f \in Executors \ {e} : run'[f] = run[f]
      BY <2>3, <1>d DEF PreflightDrift
    <3>3. \A f \in Executors : ReadingsArePast(f)'
      BY <3>1, <3>2, ReadingsStay
    <3> QED BY <3>1, <3>3 DEF DriftInv, DriftedStays
  <2>4. CASE PreflightFails(e, now)
    BY <2>4, <1>d, <1>u DEF PreflightFails
  <2> QED BY <2>1, <2>2, <2>3, <2>4
<1>9. CASE BeginAttempt(e)
  <2>1. CASE Beginnable(e)
    <3>1. /\ run'[e].phase = "begun" /\ run'[e].updated = run[e].updated
          /\ run'[e].now = run[e].now /\ run[e].updated <= run[e].now
          /\ \A f \in Executors \ {e} : run'[f] = run[f]
      BY <1>9, <2>1, <1>t DEF BeginAttempt, Beginnable, TurnsType, TurnShape
    <3>2. ReadingsArePast(e)'
      BY <3>1 DEF ReadingsArePast, Looked
    <3> QED BY <1>9, <3>1, <3>2, <1>u DEF BeginAttempt
  <2>2. CASE ~Beginnable(e)
    BY <1>9, <2>2, <1>d, <1>u DEF BeginAttempt
  <2> QED BY <2>1, <2>2
<1>10. CASE AdmitPause(e)
  <2>1. Advances
    BY <1>10, <1>t DEF AdmitPause, At, TurnsType, TurnShape, durable
  <2> QED BY <2>1, <1>a
<1>11. CASE CallProvider(e)
  <2>1. Advances
    BY <1>11, <1>t DEF CallProvider, At, TurnsType, TurnShape, durable
  <2> QED BY <2>1, <1>a
<1>12. CASE RejectOutcome(e) \/ Quarantine(e)
    BY <1>12, <1>d, <1>u DEF RejectOutcome, Quarantine, durable
<1>13. CASE CommitTurn(e)
  <2>1. /\ session.status = "Running" /\ session.updated = run[e].updated
        /\ session'.updated = run[e].now /\ run[e].phase = "commit" /\ UNCHANGED snapshot
    BY <1>13, <1>t DEF CommitTurn, Committable, SessionIs, At, SessionType
  <2>2. run[e].updated <= run[e].now
    BY <1>p, <2>1 DEF ReadingsArePast
  <2>3. run'[e].phase \in {"idle", "held"} /\ \A f \in Executors \ {e} : run'[f] = run[f]
    <3> DEFINE held == [run[e] EXCEPT !.phase = "held", !.updated = run[e].now,
                                      !.seq = @ + 1, !.used = run[e].used \cup run[e].reply,
                                      !.now = 0, !.id = 0, !.outcome = "none", !.reply = {}]
    <3>1. run' = [run EXCEPT ![e] = held] \/ Drop(e)
      BY <1>13 DEF CommitTurn
    <3>2. held.phase = "held"
      BY <1>t DEF TurnShape
    <3> HIDE DEF held
    <3> QED BY <3>1, <3>2, <1>t DEF Drop, IdleTurn, TurnsType
  <2> QED BY <2>1, <2>2, <2>3, NothingRead, ReadingType, DriftQuiet
<1>14. ASSUME NEW kind \in {"Paused", "Cancelled"}, HostControl(e, kind)
       PROVE  DriftInv' /\ DriftedStays
  <2>1. ReadingsArePast(e)' /\ (\A f \in Executors \ {e} : run'[f] = run[f])
        /\ UNCHANGED snapshot
    BY <1>14, <1>d DEF HostControl
  <2>2. CASE UNCHANGED session
    BY <2>1, <2>2, <1>u
  <2>3. ASSUME NEW now \in Times, ControlCommittable(e, kind, now),
               session' = [session EXCEPT !.status = kind, !.updated = now,
                                          !.cycles = run[e].cycles]
        PROVE  DriftInv' /\ DriftedStays
    <3>1. /\ session'.status = kind /\ session'.updated = now /\ now \in Nat
          /\ session.updated <= now
      BY <2>3, <1>t, TimesAssumption, ReadingType
         DEF ControlCommittable, SessionIs, SessionType
    <3> QED BY <2>1, <3>1, DriftQuiet
  <2> QED BY <1>14, <2>2, <2>3 DEF HostControl
<1>15. CASE ProviderReturns(e)
  <2>1. CASE Goto(e, "quarantine")
    BY <1>15, <2>1, <1>g, <1>u DEF ProviderReturns, durable
  <2>2. CASE ~Goto(e, "quarantine")
    <3>1. Advances
      BY <1>15, <2>2, <1>t DEF ProviderReturns, At, TurnsType, TurnShape, durable
    <3> QED BY <3>1, <1>a
  <2> QED BY <2>1, <2>2
<1>16. CASE RefuseProvider(e)
    BY <1>16, <1>g, <1>u DEF RefuseProvider, durable
<1>17. CASE CommitFails(e)
    BY <1>17, <1>g, <1>u DEF CommitFails, durable
<1> HIDE DEF Advances
<1> QED BY <1>1, <1>2, <1>3, <1>4, <1>5, <1>6, <1>7, <1>8, <1>9, <1>10, <1>11, <1>12, <1>13,
           <1>14, <1>15, <1>16, <1>17 DEF Execute

\* The user's decisions, the restart and the world outside.
LEMMA DriftOther ==
    ASSUME TypeOK, DriftInv,
           \/ \E now \in Times : ResolveNotExecuted(now) \/ ResolveAcceptCancel(now)
           \/ Restart \/ DiskChange \/ GoalChange \/ UNCHANGED vars
    PROVE  DriftInv' /\ DriftedStays
<1>t. session \in SessionType
  BY DEF TypeOK
<1>m. ASSUME UNCHANGED snapshot, session'.updated \in Nat,
             session.updated <= session'.updated,
             session'.status = "Running" => session.status = "Running",
             UNCHANGED run \/ \A f \in Executors : run'[f].phase = "idle"
      PROVE  DriftInv' /\ DriftedStays
  <2>1. \A f \in Executors : ReadingsArePast(f)'
    BY <1>m, ReadingsStay, NothingRead
  <2>2. snapshot'.rev # 1 => snapshot'.at <= session'.updated
    BY <1>m, ReadingType DEF DriftInv
  <2> QED BY <1>m, <2>1, <2>2 DEF DriftInv, DriftedStays, PolicyBound
<1>s. ASSUME UNCHANGED <<session, snapshot>>,
             UNCHANGED run \/ \A f \in Executors : run'[f].phase = "idle"
      PROVE  DriftInv' /\ DriftedStays
  BY <1>m, <1>s, ReadingType
<1>1. ASSUME NEW status \in {"Paused", "Cancelled"}, NEW task, NEW now \in Times,
             Resolve(status, task, now)
      PROVE  DriftInv' /\ DriftedStays
  <2>1. /\ session'.status = status
        /\ session'.updated = IF session.status = status THEN session.updated ELSE now
        /\ session.updated <= now /\ UNCHANGED <<snapshot, run>>
    BY <1>1, <1>t, TimesAssumption, ReadingType DEF Resolve, Resolvable, SessionType
  <2> QED BY <1>m, <2>1, TimesAssumption, ReadingType
<1>2. CASE Crash
    BY <1>2, <1>s DEF Crash, IdleTurn, durable
<1>3. CASE RestorePause
  <2>1. PICK now \in Times :
          /\ session.status = "Running" => now >= session.updated
          /\ session' = IF session.status = "Running"
                        THEN [session EXCEPT !.status = "Paused", !.updated = now]
                        ELSE session
    BY <1>3 DEF RestorePause
  <2>2. UNCHANGED <<snapshot, run>>
    BY <1>3 DEF RestorePause
  <2>3. CASE session.status = "Running"
    <3>1. session'.status = "Paused" /\ session'.updated = now
      BY <2>1, <2>3, <1>t DEF SessionType
    <3> QED BY <1>m, <2>1, <2>2, <2>3, <3>1, TimesAssumption, ReadingType
  <2>4. CASE session.status # "Running"
    BY <1>s, <2>1, <2>2, <2>4
  <2> QED BY <2>3, <2>4
<1>4. CASE RestoreAttempts \/ DiskChange \/ GoalChange \/ UNCHANGED vars
    BY <1>4, <1>s DEF RestoreAttempts, DiskChange, GoalChange, vars, durable
<1> QED
    BY <1>1, <1>2, <1>3, <1>4 DEF ResolveNotExecuted, ResolveAcceptCancel, Restart

\* Versions of the session only grow, and every recovery that read the first
\* snapshot had read the session before the drift.
THEOREM DriftInvariant == Spec => []DriftInv
<1>1. Init => DriftInv
  BY DriftInit
<1>2. TypeOK /\ DriftInv /\ [Next]_vars => DriftInv'
  BY DriftExecute, DriftOther DEF Next
<1> QED
  BY <1>1, <1>2, TypeCorrect, PTL DEF Spec

\* A session whose files are no longer those of its policy is not resumed, but
\* for one that drifted in the millisecond its candidate was read in
\* (DriftedSessionStaysPaused).
THEOREM DriftIsHeeded == Spec => DriftedSessionStaysPaused
<1>1. TypeOK /\ DriftInv /\ [Next]_vars => [DriftedStays]_vars
  BY DriftExecute, DriftOther DEF Next
<1> QED
  BY <1>1, TypeCorrect, DriftInvariant, PTL DEF Spec, DriftedSessionStaysPaused, DriftedStays

=============================================================================
