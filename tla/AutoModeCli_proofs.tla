-------------------------- MODULE AutoModeCli_proofs --------------------------
(***************************************************************************)
(* What TLAPS proves of the turn pipeline while the commands of a second   *)
(* process rewrite its session: which facts do not rest on the session.    *)
(***************************************************************************)
EXTENDS AutoModeCli, AutoModeTurns_proofs

CommandShape ==
    [target : {"none", "Paused", "Running", "Cancelled"}, step : {"idle", "bind", "write"},
     row : SessionType]

\* The command in progress, and that it has a target.
CliType == cli \in CommandShape /\ (cli.step # "idle" => cli.target # "none")

SnapshotType == [rev : Nat \ {0}, content : Contents, at : Nat]

\* A step of a command: it writes the session and the snapshot, and nothing else.
Command ==
    \/ \E target \in {"Paused", "Running", "Cancelled"} : CliRead(target)
    \/ CliResumeDrift \/ CliResumeBound \/ CliWrite

\* No command in progress.
LEMMA NoCommandType == NoCommand \in CommandShape /\ NoCommand.step = "idle"
BY LimitsAssumption DEF NoCommand, CommandShape, SessionType, SessionStatus

\* A command reads both rows and writes them whole; it touches nothing else.
LEMMA CommandWrites ==
    ASSUME TypeOK, CliType, Command
    PROVE  /\ UNCHANGED <<ckpt, attempt, run, world, host, history>>
           /\ session' \in SessionType /\ snapshot' \in SnapshotType
           /\ CliType'
<1>t. session \in SessionType /\ snapshot \in SnapshotType /\ disk \in Contents
      /\ cli.row \in SessionType
      /\ cli \in CommandShape
  BY DEF TypeOK, CliType, CommandShape, SnapshotType
<1>e. CliEnds => CliType'
  BY NoCommandType DEF CliEnds, CliType
<1>1. ASSUME NEW target \in {"Paused", "Running", "Cancelled"}, CliRead(target)
      PROVE  UNCHANGED vars /\ CliType'
  <2>1. cli' = [target |-> target, row |-> session,
                step |-> IF target = "Running" THEN "bind" ELSE "write"]
    BY <1>1 DEF CliRead
  <2> QED BY <1>1, <1>t, <2>1 DEF CliRead, CliType, CommandShape
<1>2. CASE CliResumeDrift
  <2>1. snapshot' \in SnapshotType
    BY <1>2, <1>t, TimesAssumption DEF CliResumeDrift, SnapshotType
  <2> QED BY <1>2, <1>e, <1>t, <2>1 DEF CliResumeDrift
<1>3. CASE CliResumeBound
  <2>1. CASE cli' = [cli EXCEPT !.step = "write"]
    BY <1>3, <1>t, <2>1 DEF CliResumeBound, CliType, CommandShape, vars, durable
  <2>2. CASE CliEnds
    BY <1>3, <1>t, <1>e, <2>2 DEF CliResumeBound, vars, durable
  <2> QED BY <1>3, <2>1, <2>2 DEF CliResumeBound
<1>4. CASE CliWrite
  <2>1. PICK now \in Times :
         session' = IF session.updated = cli.row.updated
                    THEN [cli.row EXCEPT !.status = cli.target,
                                         !.updated = Largest(now, cli.row.updated)]
                    ELSE session
    BY <1>4 DEF CliWrite
  <2>2. cli.target \in {"Paused", "Running", "Cancelled"}
    BY <1>4, <1>t DEF CliWrite, CliType, CommandShape
  <2>3. Largest(now, cli.row.updated) \in Nat
    BY <1>t, TimesAssumption DEF Largest, SessionType
  <2>4. session' \in SessionType
    BY <1>t, <2>1, <2>2, <2>3 DEF SessionType, SessionStatus
  <2> QED BY <1>4, <1>e, <1>t, <2>4 DEF CliWrite
<1> QED BY <1>1, <1>2, <1>3, <1>4, <1>t DEF Command, vars, durable

\* A step of the composition is one of the pipeline or one of a command.
LEMMA CliSteps ==
    ASSUME [CliNext]_cliVars
    PROVE  ([Next]_vars /\ UNCHANGED cli) \/ Command
BY DEF CliNext, cliVars, Command

-----------------------------------------------------------------------------
\* What a command leaves as it was.

\* The types of both processes.
LEMMA CliTypeStep == TypeOK /\ CliType /\ [CliNext]_cliVars => TypeOK' /\ CliType'
<1> SUFFICES ASSUME TypeOK, CliType, [CliNext]_cliVars PROVE TypeOK' /\ CliType'
  OBVIOUS
<1>1. CASE [Next]_vars /\ UNCHANGED cli
  BY <1>1, TypeStep DEF CliType
<1>2. CASE Command
  BY <1>2, CommandWrites DEF TypeOK, SnapshotType, world, history
<1> QED BY <1>1, <1>2, CliSteps

\* A command neither issues, calls nor settles: it stutters in the ledger.
LEMMA CliLedgerStep ==
    TypeOK /\ CliType /\ LedgerInv /\ [CliNext]_cliVars
        => LedgerInv' /\ [Ledger!Next]_(Ledger!ledger)
<1> SUFFICES ASSUME TypeOK, CliType, LedgerInv, [CliNext]_cliVars
             PROVE  LedgerInv' /\ [Ledger!Next]_(Ledger!ledger)
  OBVIOUS
<1>1. CASE [Next]_vars /\ UNCHANGED cli
  BY <1>1, LedgerStep, RefineStep
<1>2. CASE Command
  <2>1. UNCHANGED <<attempt, run, history>>
    BY <1>2, CommandWrites
  <2> QED BY <2>1, QuietStep, Stutter
<1> QED BY <1>1, <1>2, CliSteps

\* A command hands out no continuation and moves no checkpoint.
LEMMA CliSequenceStep ==
    TypeOK /\ CliType /\ SequenceInv /\ [CliNext]_cliVars => SequenceInv'
<1> SUFFICES ASSUME TypeOK, CliType, SequenceInv, [CliNext]_cliVars PROVE SequenceInv'
  OBVIOUS
<1>1. CASE [Next]_vars
  BY <1>1, SequenceExecute, SequenceOther DEF Next
<1>2. CASE Command
  <2>1. UNCHANGED <<ckpt, attempt, run, calls>>
    BY <1>2, CommandWrites DEF history
  <2> QED BY <2>1, SequenceQuiet DEF KeepsPlace
<1> QED BY <1>1, <1>2, CliSteps

-----------------------------------------------------------------------------
\* The rows and the continuations keep their types under every command
\* (TypeOK), and a command in progress has read a row and has a target.
THEOREM CliTypeCorrect == CliSpec => [](TypeOK /\ CliType)
<1>1. CliInit => TypeOK /\ CliType
  BY TypeInit, NoCommandType DEF CliInit, CliType
<1> QED
  BY <1>1, CliTypeStep, PTL DEF CliSpec

\* The ledger's invariant does not rest on the session row.
THEOREM CliLedgerInvariant == CliSpec => []LedgerInv
<1>1. CliInit => LedgerInv
  BY LedgerInit DEF CliInit
<1> QED
  BY <1>1, CliLedgerStep, CliTypeCorrect, PTL DEF CliSpec

\* Whatever the commands write, and when, the pipeline implements the ledger of
\* attempts: one outstanding, one call each, each concluded once
\* (ImplementsLedger).
THEOREM CliRefinement == CliSpec => ImplementsLedger
<1>1. CliInit => Ledger!Init
  BY RefineInit DEF CliInit
<1> QED
  BY <1>1, CliLedgerStep, CliTypeCorrect, CliLedgerInvariant, PTL
     DEF CliSpec, ImplementsLedger, Ledger!Spec

\* A Provider call whose outcome is not durable stays recorded, although no
\* command knows of attempts (UnsettledIsRecorded).
THEOREM CliCallsAreRecorded == CliSpec => []UnsettledIsRecorded
<1>1. LedgerInv => UnsettledIsRecorded
  BY DEF LedgerInv, UnsettledIsRecorded
<1> QED
  BY <1>1, CliLedgerInvariant, PTL

\* The invariant of the checkpoint sequence does not rest on the session row.
THEOREM CliSequenceInvariant == CliSpec => []SequenceInv
<1>1. CliInit => SequenceInv
  BY SequenceInit DEF CliInit
<1> QED
  BY <1>1, CliSequenceStep, CliTypeCorrect, PTL DEF CliSpec

\* A session that a command sets back to an earlier status under a running
\* executor is not given to a second one at the same checkpoint
\* (NoSharedContinuation).
THEOREM CliContinuationsAreExclusive == CliSpec => []NoSharedContinuation
<1>1. SequenceInv => NoSharedContinuation
  BY DEF SequenceInv
<1> QED
  BY <1>1, CliSequenceInvariant, PTL

\* Nor is its checkpoint given to a Provider again (OneCallPerCheckpoint).
THEOREM CliCheckpointsAreCalledOnce == CliSpec => []OneCallPerCheckpoint
<1>1. SequenceInv => OneCallPerCheckpoint
  BY DEF SequenceInv
<1> QED
  BY <1>1, CliSequenceInvariant, PTL
=============================================================================
