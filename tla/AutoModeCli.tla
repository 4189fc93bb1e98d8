---------------------------- MODULE AutoModeCli ----------------------------
(***************************************************************************)
(* The second process on the same database: the `goal auto` commands of    *)
(* apps/cli/src/lib.rs.  They read the session row, decide, and write it   *)
(* back with a compare-and-swap on its timestamp alone, at any time and    *)
(* whether or not the desktop host is running.  They know nothing of       *)
(* checkpoints and attempts.  One command runs at a time.                  *)
(***************************************************************************)
EXTENDS AutoModeTurns

VARIABLE cli    \* the command in progress: its target status and what it read

cliVars == <<vars, cli>>

NoCommand ==
    [target |-> "none", step |-> "idle",
     row |-> [status |-> "Paused", updated |-> 0, cycles |-> 0]]

CliInit == Init /\ cli = NoCommand

CliEnds == cli' = NoCommand

-----------------------------------------------------------------------------
\* load_auto_session_from, then AutoModeSession::pause or ::cancel; resume
\* looks at the Goal and the workspace before it looks at the status.
CliRead(target) ==
    /\ cli.step = "idle"
    /\ target = "Paused" => session.status = "Running"
    /\ target = "Cancelled" => session.status \in {"Running", "Paused"}
    /\ cli' = [target |-> target, row |-> session,
               step |-> IF target = "Running" THEN "bind" ELSE "write"]
    /\ UNCHANGED vars

\* goal_auto_resume on changed files: the successor snapshot is appended and
\* the command fails, whatever the status of the session is.
CliResumeDrift ==
    /\ cli.step = "bind"
    /\ disk # snapshot.content
    /\ snapshot.rev < MaxRev
    /\ \E now \in Times :
           snapshot' = [rev |-> snapshot.rev + 1, content |-> disk, at |-> now]
    /\ CliEnds
    /\ UNCHANGED <<session, ckpt, attempt, world, host, history, run>>

CliResumeBound ==
    /\ cli.step = "bind"
    /\ disk = snapshot.content
    /\ IF cli.row.status = "Paused" /\ goal = "active" /\ PolicyBound(snapshot.rev)
       THEN cli' = [cli EXCEPT !.step = "write"]
       ELSE CliEnds
    /\ UNCHANGED vars

\* SqliteAutoModeRepository::update; the timestamp written is never below the
\* one that was read, and may equal it.
CliWriteForgetful ==  \* mutant: a command also clears the pending attempt
    /\ cli.step = "write"
    /\ CliEnds
    /\ \E now \in Times :
         /\ session.updated = cli.row.updated
         /\ session' = [cli.row EXCEPT !.status = cli.target,
                                       !.updated = Largest(now, cli.row.updated)]
         /\ attempt' = NoAttempt
    /\ UNCHANGED <<ckpt, snapshot, world, host, history, run>>

CliWrite ==
    /\ cli.step = "write"
    /\ CliEnds
    /\ \E now \in Times :
         session' = IF session.updated = cli.row.updated
                    THEN [cli.row EXCEPT !.status = cli.target,
                                         !.updated = Largest(now, cli.row.updated)]
                    ELSE session
    /\ UNCHANGED <<ckpt, attempt, snapshot, world, host, history, run>>

CliNext ==
    \/ Next /\ UNCHANGED cli
    \/ \E target \in {"Paused", "Running", "Cancelled"} : CliRead(target)
    \/ CliResumeDrift
    \/ CliResumeBound
    \/ CliWrite

CliSpec == CliInit /\ [][CliNext]_cliVars

-----------------------------------------------------------------------------
\* What the desktop loses to a session rewritten under it is the result, and
\* never the turn: two executors still cannot hold one continuation, because
\* each transaction also compares the checkpoint sequence, which no command
\* writes.  (ImplementsLedger of AutoModeTurns is checked again in this
\* composition.)

\* AGT-094: a turn is offered to the Provider only while the workspace is the
\* one the policy was bound to; when it changed, the turn is paused instead.
CallsOnBoundWorkspace ==
    \A e \in Executors : run[e].phase = "inflight" => PolicyBound(run[e].rev)

=============================================================================
