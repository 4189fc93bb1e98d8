---------------------------- MODULE Skills_proofs ----------------------------
(***************************************************************************)
(* The safety of a skill for any executions, threads, versions and limits. *)
(* Four inductive invariants rest on each other: types, the directories    *)
(* (FilesInv), who may listen and what a worker runs (HostInv), and who    *)
(* holds an execution while its two tables are written (TablesInv).  The   *)
(* last one also gives the refinement of ApprovalGate.                     *)
(***************************************************************************)
EXTENDS Skills, FiniteSetTheorems, TLAPS

Threads == {Main} \cup Sessions

-----------------------------------------------------------------------------
\* The directories: what the main thread moved aside, is about to bring back,
\* or has brought back, is there.
FilesInv ==
    /\ installs \in 0..MaxWork
    /\ \A v \in Versions : backups[v] \in 0..installs
    /\ thread[Main].pc = "place" =>
         /\ thread[Main].version # None
         /\ thread[Main].aside # None => backups[thread[Main].aside] > 0
    /\ thread[Main].pc = "restore" =>
         thread[Main].version # None /\ backups[thread[Main].version] > 0
    /\ thread[Main].pc = "save" => active # None
    /\ InstalledIsRecoverable

-----------------------------------------------------------------------------
\* The host follows the row except while a command rebuilds it, and after a
\* rebuild that failed; a worker has the host to itself, and nobody listens
\* while it is rebuilt or down.
HostFollowsRow ==
    host.status = "activated" =>
        \/ row = [version |-> host.version, authorized |-> TRUE, enabled |-> TRUE]
        \/ thread[Main].pc = "rebuild"
        \/ behind

CrashesAreCounted ==
    /\ host.crashes <= CrashThreshold
    /\ host.status # "quarantined" => host.crashes < CrashThreshold

WorkersAreAlone ==
    \A p \in Threads : thread[p].pc = "worker" =>
        /\ thread[p].version = host.version /\ host.status = "activated"
        /\ \A q \in Threads : thread[q].pc = "worker" => q = p

NobodyListens ==
    /\ thread[Main].pc = "rebuild" =>
         registered = None /\ (safe => ~(row.authorized /\ row.enabled))
    /\ phase = "down" =>
         /\ registered = None /\ ~safe /\ thread[Main].pc = "idle"
         /\ \A s \in Sessions : thread[s].pc = "unused"

HostInv ==
    /\ row.enabled => row.authorized
    /\ HostFollowsRow /\ CrashesAreCounted /\ WorkersAreAlone /\ NobodyListens
    /\ SessionsAreControlled

-----------------------------------------------------------------------------
\* Whoever holds an execution knows what the tables say of it.
Direct(x) == journal[x] = "none" /\ history[x] \in {"none", "cancelled"}
Granted(p, x) ==
    /\ p = Main /\ journal[x] = "executing"
    /\ history[x] \in {"none", "waiting", "cancelled"}

Holders == {"register", "worker", "insert", "remember", "check", "act", "record",
            "finish", "rejected"}

HolderKnows(p) ==
    LET t == thread[p] IN
    /\ t.pc \notin Holders => t.exec = None
    /\ t.pc \in Holders => t.exec \in used
    /\ t.pc \in {"register", "worker", "insert"} => Direct(t.exec)
    /\ t.pc = "remember" => journal[t.exec] # "none"
    /\ t.pc \in {"check", "act", "record"} => Direct(t.exec) \/ Granted(p, t.exec)
    /\ t.pc = "finish" =>
         /\ p = Main /\ journal[t.exec] = "executing"
         /\ t.good => history[t.exec] \in {"completed", "cancelled"}
    /\ t.pc = "rejected" => p = Main /\ journal[t.exec] = "rejected"

\* Only who is about to remember that it queued a plan shares it, with who
\* decided it.
HoldersAreApart ==
    \A p, q \in Threads :
        p # q /\ thread[p].exec # None /\ thread[p].exec = thread[q].exec
        => thread[p].pc = "remember" \/ thread[q].pc = "remember"

StepsAreCounted ==
    \A p \in Threads :
        thread[p].step <= IF thread[p].pc \in {"act", "record", "finish"} THEN Commands + 1
                          ELSE Commands

TablesInv ==
    /\ \A p \in Threads : HolderKnows(p)
    /\ HoldersAreApart
    /\ StepsAreCounted
    /\ \A x \in Executions \ used : journal[x] = "none" /\ history[x] = "none"
    /\ \A x \in Executions : journal[x] = "pending" => history[x] \in {"none", "waiting", "cancelled"}
    /\ revoked \subseteq used /\ acted \subseteq used
    /\ TablesAgree

-----------------------------------------------------------------------------
\* Types by name; the bounds of TypeOK follow from the invariants above.

Pcs == {"unused", "idle", "register", "worker", "insert",
        "remember", "check", "act", "record", "finish", "rejected",
        "place", "restore", "save", "rebuild", "converge", "end"}
Thread == [pc : Pcs, version : Versions \cup {None}, aside : Versions \cup {None},
           exec : Executions \cup {None}, step : Nat, good : BOOLEAN]
Host == [version : Versions \cup {None}, crashes : Nat,
         status : {"none", "inactive", "activated", "crashed", "quarantined"}]
Journal == {"none", "pending", "executing", "completed", "failed", "rejected", "expired",
            "interrupted"}
History == {"none", "waiting", "completed", "failed", "rejected", "cancelled"}

Types ==
    /\ active \in Versions \cup {None}
    /\ backups \in [Versions -> Int]
    /\ row \in Row
    /\ journal \in [Executions -> Journal]
    /\ history \in [Executions -> History]
    /\ phase \in {"down", "up"} /\ safe \in BOOLEAN
    /\ host \in Host
    /\ thread \in [Threads -> Thread]
    /\ cancelled \subseteq Sessions /\ registered \in Sessions \cup {None}
    /\ revoked \subseteq Executions /\ used \subseteq Executions /\ acted \subseteq Executions
    /\ behind \in BOOLEAN /\ installs \in Int

ThreadIs(p, pc, x) ==
    /\ thread' \in [Threads -> Thread]
    /\ \A q \in Threads \ {p} : thread'[q] = thread[q]
    /\ thread'[p].pc = pc /\ thread'[p].exec = x

LEMMA ThreadsAreTheDomain == ASSUME Types PROVE DOMAIN thread = Threads
  BY DEF Types

LEMMA IdleIs ==
  /\ Idle \in Thread /\ Idle.pc = "idle" /\ Idle.version = None /\ Idle.aside = None
  /\ Idle.exec = None /\ Idle.step = 0 /\ Idle.good = TRUE
  BY DEF Idle, Thread, Pcs

LEMMA IdleWithPc ==
  ASSUME NEW pc \in Pcs
  PROVE  /\ [Idle EXCEPT !.pc = pc] \in Thread
         /\ [Idle EXCEPT !.pc = pc].pc = pc /\ [Idle EXCEPT !.pc = pc].exec = None
         /\ [Idle EXCEPT !.pc = pc].step = 0
  BY DEF Idle, Thread

LEMMA LeaveIs ==
  ASSUME Types, NEW p \in Threads, NEW good \in BOOLEAN, Leave(p, good)
  PROVE  /\ ThreadIs(p, "idle", None) \/ (ThreadIs(p, "end", None) /\ p # Main)
         /\ thread'[p].step = 0 /\ revoked' = revoked \ {thread[p].exec}
  <1>1. CASE good \/ p = Main
    BY <1>1, IdleIs DEF Leave, Types, ThreadIs
  <1>2. CASE ~(good \/ p = Main)
    <2> DEFINE ended == [Idle EXCEPT !.pc = "end"]
    <2>1. ended \in Thread /\ ended.pc = "end" /\ ended.exec = None /\ ended.step = 0
      BY IdleWithPc DEF Pcs
    <2>2. thread' = [thread EXCEPT ![p] = ended] /\ revoked' = revoked \ {thread[p].exec}
      BY <1>2 DEF Leave
    <2> HIDE DEF ended
    <2> QED BY <1>2, <2>1, <2>2 DEF Types, ThreadIs
  <1> QED BY <1>1, <1>2

LEMMA GotoIs ==
  ASSUME Types, NEW p \in Threads, NEW pc \in Pcs, Goto(p, pc)
  PROVE  /\ ThreadIs(p, pc, thread[p].exec) /\ revoked' = revoked
         /\ thread'[p].step = thread[p].step /\ thread'[p].version = thread[p].version
         /\ thread'[p].good = thread[p].good
  <1> DEFINE new == [thread[p] EXCEPT !.pc = pc]
  <1>1. thread[p] \in Thread
    BY DEF Types
  <1>2. new \in Thread /\ new.pc = pc /\ new.exec = thread[p].exec
        /\ new.step = thread[p].step /\ new.version = thread[p].version
    BY <1>1 DEF Thread
  <1>3. new.good = thread[p].good
    BY <1>1 DEF Thread
  <1>4. thread' = [thread EXCEPT ![p] = new] /\ revoked' = revoked
    BY DEF Goto, Move
  <1> HIDE DEF new
  <1> QED BY <1>2, <1>3, <1>4 DEF Types, ThreadIs

LEMMA ProceedIs ==
  ASSUME Types, NEW p \in Threads, Proceed(p)
  PROVE  /\ ThreadIs(p, "act", thread[p].exec) /\ revoked' = revoked
         /\ thread'[p].step = thread[p].step + 1
  <1>1. thread[p] \in Thread
    BY DEF Types
  <1>2. PICK n \in Nat : n = thread[p].step + 1
    BY <1>1 DEF Thread
  <1> DEFINE new == [thread[p] EXCEPT !.pc = "act", !.step = n]
  <1>3. new \in Thread /\ new.pc = "act" /\ new.exec = thread[p].exec /\ new.step = n
    BY <1>1 DEF Thread, Pcs
  <1>4. thread' = [thread EXCEPT ![p] = new] /\ revoked' = revoked
    BY <1>2 DEF Proceed, Move
  <1> HIDE DEF new
  <1> QED BY <1>2, <1>3, <1>4 DEF Types, ThreadIs

LEMMA EndedIs ==
  ASSUME Types, NEW p \in Threads, NEW good \in BOOLEAN
  PROVE  /\ Ended(p, good) \in Thread /\ Ended(p, good).pc = "record"
         /\ Ended(p, good).exec = thread[p].exec /\ Ended(p, good).step = thread[p].step
  <1>1. thread[p] \in Thread
    BY DEF Types
  <1> QED BY <1>1 DEF Ended, Thread, Pcs

LEMMA FinishingIs ==
  ASSUME Types, NEW p \in Threads, NEW good \in BOOLEAN,
         Move(p, [thread[p] EXCEPT !.pc = "finish", !.good = good])
  PROVE  /\ ThreadIs(p, "finish", thread[p].exec) /\ revoked' = revoked
         /\ thread'[p].step = thread[p].step /\ thread'[p].good = good
  <1> DEFINE new == [thread[p] EXCEPT !.pc = "finish", !.good = good]
  <1>1. thread[p] \in Thread
    BY DEF Types
  <1>2. new \in Thread /\ new.pc = "finish" /\ new.exec = thread[p].exec
        /\ new.step = thread[p].step
    BY <1>1 DEF Thread, Pcs
  <1>3. new.good = good
    BY <1>1 DEF Thread
  <1>4. thread' = [thread EXCEPT ![p] = new] /\ revoked' = revoked
    BY DEF Move
  <1> HIDE DEF new
  <1> QED BY <1>2, <1>3, <1>4 DEF Types, ThreadIs

\* The history of one execution is settled once.
LEMMA RememberedIs ==
  ASSUME Types, NEW x, NEW status \in History
  PROVE  /\ Remembered(x, status) \in [Executions -> History]
         /\ \A y \in Executions : y # x => Remembered(x, status)[y] = history[y]
         /\ x \in Executions => Remembered(x, status)[x] =
              IF history[x] \in {"none", "waiting"} THEN status ELSE history[x]
  BY DEF Remembered, Types

-----------------------------------------------------------------------------
\* A step of the execution that thread p holds, or of a decision about one, as
\* far as the invariants can tell.

Busy == Holders \cup {"idle"}

ExecutionFrame(p) ==
    /\ Types'
    /\ \A q \in Threads \ {p} : thread'[q] = thread[q]
    /\ thread[p].pc \in Busy /\ thread'[p].pc \in Busy \cup {"end"}
    /\ thread[p].pc = "idle" => phase = "up"
    /\ UNCHANGED <<files, row, phase, safe, cancelled, registered, behind, installs>>

\* The host is leased, as it is, to a worker, or counts the crash of one.
Leases(p) ==
    /\ thread'[p].pc = "worker" =>
         /\ thread[p].pc = "register" /\ HostFree
         /\ Leasable(thread'[p].version)
    /\ host' = host \/ (thread[p].pc = "worker" /\ host' = Crashed(host))

Opens(p) ==
    /\ thread[p].pc = "idle" /\ thread'[p].pc = "register"
    /\ thread'[p].exec \in Executions \ used /\ used' = used \cup {thread'[p].exec}
    /\ thread'[p].step = 0
    /\ UNCHANGED <<journal, history, acted, revoked>>

Advances(p) ==
    /\ <<thread[p].pc, thread'[p].pc>> \in
         {<<"register", "worker">>, <<"worker", "insert">>, <<"worker", "check">>,
          <<"check", "act">>, <<"check", "record">>, <<"act", "check">>, <<"act", "record">>}
    /\ thread'[p].exec = thread[p].exec
    /\ UNCHANGED <<journal, history, used, revoked>>
    /\ acted' = acted \/ (/\ thread[p].pc = "act" /\ journal[thread[p].exec] # "none"
                          /\ acted' = acted \cup {thread[p].exec})
    /\ \/ thread'[p].step = thread[p].step /\ thread'[p].pc # "act"
          /\ (thread[p].pc = "act" /\ thread'[p].pc = "check" => thread[p].step <= Commands)
       \/ thread'[p].step = thread[p].step + 1 /\ thread'[p].pc = "act"

Queues(p) ==
    /\ thread[p].pc = "insert" /\ thread'[p].pc = "remember"
    /\ thread'[p].exec = thread[p].exec /\ thread'[p].step = thread[p].step
    /\ journal' = [journal EXCEPT ![thread[p].exec] = "pending"]
    /\ UNCHANGED <<history, used, acted, revoked>>

Settles(p) ==
    /\ thread[p].pc = "record" /\ thread'[p].pc = "finish" /\ p = Main
    /\ journal[thread[p].exec] # "none"
    /\ thread'[p].exec = thread[p].exec /\ thread'[p].step = thread[p].step
    /\ \/ history' = Remembered(thread[p].exec, "completed")
       \/ history' \in {history, Remembered(thread[p].exec, "failed")} /\ ~thread'[p].good
    /\ UNCHANGED <<journal, used, acted, revoked>>

Closes(p) ==
    LET x == thread[p].exec IN
    /\ thread'[p].exec = None /\ thread'[p].step = 0 /\ thread'[p].pc \in {"idle", "end"}
    /\ thread'[p].pc = "end" => p # Main
    /\ revoked' = revoked \ {x}
    /\ \/ history' = history
       \/ thread[p].pc = "remember" /\ history' = Remembered(x, "waiting")
       \/ /\ thread[p].pc = "record" /\ (p = Main => journal[x] = "none")
          /\ history' \in {Remembered(x, "completed"), Remembered(x, "failed")}
       \/ thread[p].pc = "rejected" /\ history' = Remembered(x, "rejected")
    /\ \/ journal' = journal
       \/ /\ thread[p].pc = "finish" /\ UNCHANGED history
          /\ journal' = [journal EXCEPT ![x] = IF thread[p].good THEN "completed"
                                               ELSE "failed"]
    /\ UNCHANGED <<used, acted>>

Grants(p) ==
    LET x == thread'[p].exec IN
    /\ thread[p].pc = "idle" /\ p = Main /\ journal[x] = "pending" /\ x \in Executions
    /\ thread'[p].step = 0
    /\ \/ /\ thread'[p].pc = "check" /\ journal' = [journal EXCEPT ![x] = "executing"]
          /\ revoked' = revoked \ {x}
       \/ /\ thread'[p].pc = "rejected" /\ journal' = [journal EXCEPT ![x] = "rejected"]
          /\ revoked' = revoked
    /\ UNCHANGED <<history, used, acted>>

\* A plan that ran out is refused, an execution is cancelled: no thread moves.
Decides(p) ==
    /\ thread' = thread /\ p = Main
    /\ UNCHANGED <<used, acted>>
    /\ \/ /\ \E x \in Executions : /\ journal[x] = "pending"
                                   /\ journal' = [journal EXCEPT ![x] = "expired"]
          /\ UNCHANGED <<history, revoked>>
       \/ /\ \E x \in ActiveExecutions :
               /\ revoked' = revoked \cup {x}
               /\ history' \in {history, Remembered(x, "cancelled")}
          /\ UNCHANGED journal

Executes(p) ==
    /\ ExecutionFrame(p) /\ Leases(p)
    /\ \/ Opens(p) \/ Advances(p) \/ Queues(p) \/ Settles(p) \/ Closes(p) \/ Grants(p)
       \/ Decides(p)

LEMMA ExecutionExecutes ==
  ASSUME Types, NEW p \in Threads, HolderKnows(p), Execution(p)
  PROVE  Executes(p)
  <1> USE DEF ExecutionUnchanged, Holders, Busy
  <1> DEFINE x == thread[p].exec
  <1>0. /\ thread[p] \in Thread /\ thread[p].step \in Nat /\ x \in Executions \cup {None}
        /\ thread[p].good \in BOOLEAN
    BY DEF Types, Thread
  <1>1. CASE Begin(p)
    <2>1. UNCHANGED <<journal, history, host, acted, active, backups, row, phase, safe,
                      cancelled, registered, behind, installs>> /\ thread[p].pc = "idle"
          /\ phase = "up"
      BY <1>1 DEF Begin, files
    <2>2. CASE Leave(p, FALSE) /\ UNCHANGED used
      <3>1. /\ ThreadIs(p, "idle", None) \/ (ThreadIs(p, "end", None) /\ p # Main)
            /\ thread'[p].step = 0 /\ revoked' = revoked \ {x}
        BY <2>2, LeaveIs
      <3> QED BY <2>1, <2>2, <3>1 DEF Executes, ExecutionFrame, Leases, Closes, ThreadIs, Types, files
    <2>3. CASE /\ active # None
               /\ \E y \in Executions \ used :
                     /\ used' = used \cup {y}
                     /\ Move(p, [Idle EXCEPT !.pc = "register", !.version = active, !.exec = y])
      <3>1. PICK y \in Executions \ used :
                     /\ used' = used \cup {y}
                     /\ Move(p, [Idle EXCEPT !.pc = "register", !.version = active, !.exec = y])
        BY <2>3
      <3> DEFINE new == [Idle EXCEPT !.pc = "register", !.version = active, !.exec = y]
      <3>2. new \in Thread /\ new.pc = "register" /\ new.exec = y /\ new.step = 0
        BY DEF Types, Idle, Thread, Pcs
      <3>3. thread' = [thread EXCEPT ![p] = new] /\ revoked' = revoked
        BY <3>1 DEF Move
      <3> HIDE DEF new
      <3>4. ThreadIs(p, "register", y) /\ thread'[p].step = 0
        BY <3>2, <3>3 DEF ThreadIs, Types
      <3> QED BY <2>1, <3>1, <3>3, <3>4
          DEF Executes, ExecutionFrame, Leases, Opens, ThreadIs, Types, files
    <2> QED BY <1>1, <2>2, <2>3 DEF Begin
  <1>2. CASE Lease(p)
    <2>1. UNCHANGED <<journal, history, host, used, acted, active, backups, row, phase, safe,
                      cancelled, registered, behind, installs>> /\ thread[p].pc = "register"
          /\ HostFree
      BY <1>2 DEF Lease, files
    <2>2. CASE Leasable(thread[p].version) /\ Goto(p, "worker")
      <3>1. /\ ThreadIs(p, "worker", x) /\ revoked' = revoked
            /\ thread'[p].step = thread[p].step /\ thread'[p].version = thread[p].version
        BY <2>2, GotoIs DEF Pcs
      <3> QED BY <2>1, <2>2, <3>1
          DEF Executes, ExecutionFrame, Leases, Advances, ThreadIs, Types, files
    <2>3. CASE Leave(p, FALSE)
      <3>1. /\ ThreadIs(p, "idle", None) \/ (ThreadIs(p, "end", None) /\ p # Main)
            /\ thread'[p].step = 0 /\ revoked' = revoked \ {x}
        BY <2>3, LeaveIs
      <3> QED BY <2>1, <3>1 DEF Executes, ExecutionFrame, Leases, Closes, ThreadIs, Types, files
    <2> QED BY <1>2, <2>2, <2>3 DEF Lease
  <1>3. CASE WorkerEnds(p)
    <2>1. UNCHANGED <<journal, history, used, acted, active, backups, row, phase, safe,
                      cancelled, registered, behind, installs>> /\ thread[p].pc = "worker"
      BY <1>3 DEF WorkerEnds, files
    <2>2. Crashed(host) \in Host
      <3>1. PICK n \in Nat : n = host.crashes + 1
        BY DEF Types, Host
      <3>2. Crashed(host) \in {[host EXCEPT !.crashes = n, !.status = "quarantined"],
                               [host EXCEPT !.crashes = n, !.status = "crashed"]}
        BY <3>1 DEF Crashed
      <3> QED BY <3>2 DEF Types, Host
    <2>3. CASE Planned(p) /\ UNCHANGED host
      <3>1. CASE \E pc \in {"check", "insert"} :
                   Move(p, [[thread[p] EXCEPT !.version = None] EXCEPT !.pc = pc])
        <4>1. PICK pc \in {"check", "insert"} :
                   Move(p, [[thread[p] EXCEPT !.version = None] EXCEPT !.pc = pc])
          BY <3>1
        <4> DEFINE mid == [thread[p] EXCEPT !.version = None]
                   new == [mid EXCEPT !.pc = pc]
        <4>2. mid \in Thread /\ mid.exec = x /\ mid.step = thread[p].step
          BY <1>0 DEF Thread
        <4> HIDE DEF mid
        <4>3. new \in Thread /\ new.pc = pc /\ new.exec = x /\ new.step = thread[p].step
          BY <4>2 DEF Thread, Pcs
        <4>4. thread' = [thread EXCEPT ![p] = new] /\ revoked' = revoked
          BY <4>1 DEF Move, mid
        <4> HIDE DEF new
        <4>5. ThreadIs(p, pc, x) /\ thread'[p].step = thread[p].step
          BY <4>3, <4>4 DEF ThreadIs, Types
        <4> QED BY <2>1, <2>3, <4>4, <4>5
            DEF Executes, ExecutionFrame, Leases, Advances, ThreadIs, Types, files
      <3>2. CASE Leave(p, FALSE)
        <4>1. /\ ThreadIs(p, "idle", None) \/ (ThreadIs(p, "end", None) /\ p # Main)
              /\ thread'[p].step = 0 /\ revoked' = revoked \ {x}
          BY <3>2, LeaveIs
        <4> QED BY <2>1, <2>3, <4>1
            DEF Executes, ExecutionFrame, Leases, Closes, ThreadIs, Types, files
      <3> QED BY <2>3, <3>1, <3>2 DEF Planned
    <2>4. CASE Leave(p, FALSE) /\ host' \in {host, Crashed(host)}
      <3>1. /\ ThreadIs(p, "idle", None) \/ (ThreadIs(p, "end", None) /\ p # Main)
            /\ thread'[p].step = 0 /\ revoked' = revoked \ {x}
        BY <2>4, LeaveIs
      <3> QED BY <2>1, <2>2, <2>4, <3>1
          DEF Executes, ExecutionFrame, Leases, Closes, ThreadIs, Types, files
    <2> QED BY <1>3, <2>3, <2>4 DEF WorkerEnds
  <1>4. CASE Insert(p)
    <2>1. UNCHANGED <<history, host, used, acted, active, backups, row, phase, safe,
                      cancelled, registered, behind, installs>> /\ thread[p].pc = "insert"
      BY <1>4 DEF Insert, files
    <2>2. CASE /\ journal' = [journal EXCEPT ![x] = "pending"]
               /\ Goto(p, "remember")
      <3>1. /\ ThreadIs(p, "remember", x) /\ revoked' = revoked
            /\ thread'[p].step = thread[p].step
        BY <2>2, GotoIs DEF Pcs
      <3>2. journal' \in [Executions -> Journal]
        BY <2>2 DEF Types, Journal
      <3> QED BY <2>1, <2>2, <3>1, <3>2
          DEF Executes, ExecutionFrame, Leases, Queues, ThreadIs, Types, files
    <2>3. CASE UNCHANGED journal /\ Leave(p, FALSE)
      <3>1. /\ ThreadIs(p, "idle", None) \/ (ThreadIs(p, "end", None) /\ p # Main)
            /\ thread'[p].step = 0 /\ revoked' = revoked \ {x}
        BY <2>3, LeaveIs
      <3> QED BY <2>1, <2>3, <3>1
          DEF Executes, ExecutionFrame, Leases, Closes, ThreadIs, Types, files
    <2> QED BY <1>4, <2>2, <2>3 DEF Insert
  <1>5. CASE Remember(p)
    <2>1. UNCHANGED <<journal, host, used, acted, active, backups, row, phase, safe,
                      cancelled, registered, behind, installs>> /\ thread[p].pc = "remember"
      BY <1>5 DEF Remember, files
    <2>2. /\ history' \in {history, Remembered(x, "waiting")}
          /\ Leave(p, TRUE) \/ Leave(p, FALSE)
      BY <1>5 DEF Remember
    <2>3. /\ ThreadIs(p, "idle", None) \/ (ThreadIs(p, "end", None) /\ p # Main)
          /\ thread'[p].step = 0 /\ revoked' = revoked \ {x}
      BY <2>2, LeaveIs
    <2>4. history' \in [Executions -> History]
      BY <2>2, RememberedIs DEF Types, History
    <2> QED BY <2>1, <2>2, <2>3, <2>4
        DEF Executes, ExecutionFrame, Leases, Closes, ThreadIs, Types, files
  <1>6. CASE Check(p)
    <2>1. UNCHANGED <<journal, history, host, used, acted, active, backups, row, phase, safe,
                      cancelled, registered, behind, installs>> /\ thread[p].pc = "check"
      BY <1>6 DEF Check, files
    <2>2. Proceed(p) \/ Ends(p, TRUE) \/ Ends(p, FALSE)
      BY <1>6 DEF Check
    <2>3. CASE Proceed(p)
      <3>1. /\ ThreadIs(p, "act", x) /\ revoked' = revoked
            /\ thread'[p].step = thread[p].step + 1
        BY <2>3, ProceedIs
      <3> QED BY <2>1, <3>1
          DEF Executes, ExecutionFrame, Leases, Advances, ThreadIs, Types, files
    <2>4. CASE Ends(p, TRUE) \/ Ends(p, FALSE)
      <3>1. PICK good \in BOOLEAN : Ends(p, good)
        BY <2>4
      <3>2. thread' = [thread EXCEPT ![p] = Ended(p, good)] /\ revoked' = revoked
        BY <3>1 DEF Ends, Move
      <3>3. ThreadIs(p, "record", x) /\ thread'[p].step = thread[p].step
        BY <3>2, EndedIs DEF ThreadIs, Types
      <3> QED BY <2>1, <3>2, <3>3
          DEF Executes, ExecutionFrame, Leases, Advances, ThreadIs, Types, files
    <2> QED BY <2>2, <2>3, <2>4
  <1>7. CASE Act(p)
    <2>1. UNCHANGED <<journal, history, host, revoked, used, active, backups, row, phase, safe,
                      cancelled, registered, behind, installs>> /\ thread[p].pc = "act"
      BY <1>7 DEF Act, files
    <2>2. /\ acted' = acted \/ (journal[x] # "none" /\ acted' = acted \cup {x})
          /\ acted' \subseteq Executions
      <3>1. acted' = IF journal[x] = "none" THEN acted ELSE acted \cup {x}
        BY <1>7 DEF Act
      <3>2. x \in used
        BY <2>1 DEF HolderKnows
      <3> QED BY <3>1, <3>2 DEF Types
    <2>3. \/ \E good \in BOOLEAN : thread' = [thread EXCEPT ![p] = Ended(p, good)]
          \/ /\ ~(thread[p].step > Commands)
             /\ thread' = [thread EXCEPT ![p] = [thread[p] EXCEPT !.pc = "check"]]
      BY <1>7 DEF Act
    <2>4. CASE \E good \in BOOLEAN : thread' = [thread EXCEPT ![p] = Ended(p, good)]
      <3>1. PICK good \in BOOLEAN : thread' = [thread EXCEPT ![p] = Ended(p, good)]
        BY <2>4
      <3>2. ThreadIs(p, "record", x) /\ thread'[p].step = thread[p].step
        BY <3>1, EndedIs DEF ThreadIs, Types
      <3> QED BY <2>1, <2>2, <3>2
          DEF Executes, ExecutionFrame, Leases, Advances, ThreadIs, Types, files
    <2>5. CASE /\ ~(thread[p].step > Commands)
               /\ thread' = [thread EXCEPT ![p] = [thread[p] EXCEPT !.pc = "check"]]
      <3>1. Goto(p, "check")
        BY <2>1, <2>5 DEF Goto, Move
      <3>2. /\ ThreadIs(p, "check", x) /\ thread'[p].step = thread[p].step
        BY <3>1, GotoIs DEF Pcs
      <3>3. thread[p].step <= Commands
        BY <1>0, <2>5, BoundsAssumption
      <3> QED BY <2>1, <2>2, <3>2, <3>3
          DEF Executes, ExecutionFrame, Leases, Advances, ThreadIs, Types, files
    <2> QED BY <2>3, <2>4, <2>5
  <1>8. CASE Record(p)
    <2>1. UNCHANGED <<journal, host, used, acted, active, backups, row, phase, safe,
                      cancelled, registered, behind, installs>> /\ thread[p].pc = "record"
      BY <1>8 DEF Record, files
    <2> DEFINE status == IF thread[p].good THEN "completed" ELSE "failed"
    <2>2. PICK good \in BOOLEAN :
            /\ \/ history' = Remembered(x, status) /\ good = thread[p].good
               \/ history' = history /\ good = FALSE
            /\ IF p = Main /\ journal[x] # "none"
               THEN Move(p, [thread[p] EXCEPT !.pc = "finish", !.good = good])
               ELSE Leave(p, good)
      BY <1>0, <1>8 DEF Record
    <2>3. /\ status \in {"completed", "failed"} /\ (thread[p].good => status = "completed")
      BY <1>0
    <2> HIDE DEF status
    <2>4. history' \in [Executions -> History]
      BY <2>2, <2>3, RememberedIs DEF Types, History
    <2>5. CASE p = Main /\ journal[x] # "none"
      <3>1. Move(p, [thread[p] EXCEPT !.pc = "finish", !.good = good])
        BY <2>2, <2>5
      <3>2. /\ ThreadIs(p, "finish", x) /\ revoked' = revoked
            /\ thread'[p].step = thread[p].step /\ thread'[p].good = good
        BY <3>1, FinishingIs
      <3>3. \/ history' = Remembered(x, "completed")
            \/ history' \in {history, Remembered(x, "failed")} /\ ~thread'[p].good
        BY <1>0, <2>2, <2>3, <3>2
      <3> QED BY <2>1, <2>4, <2>5, <3>2, <3>3
          DEF Executes, ExecutionFrame, Leases, Settles, ThreadIs, Types, files
    <2>6. CASE ~(p = Main /\ journal[x] # "none")
      <3>1. /\ ThreadIs(p, "idle", None) \/ (ThreadIs(p, "end", None) /\ p # Main)
            /\ thread'[p].step = 0 /\ revoked' = revoked \ {x}
        BY <2>2, <2>6, LeaveIs
      <3>2. history' \in {history, Remembered(x, "completed"), Remembered(x, "failed")}
        BY <2>2, <2>3
      <3> QED BY <2>1, <2>4, <2>6, <3>1, <3>2
          DEF Executes, ExecutionFrame, Leases, Closes, ThreadIs, Types, files
    <2> QED BY <2>5, <2>6
  <1> QED BY <1>1, <1>2, <1>3, <1>4, <1>5, <1>6, <1>7, <1>8 DEF Execution

LEMMA DecisionExecutes ==
  ASSUME Types, HolderKnows(Main), Decide
  PROVE  Executes(Main)
  <1> USE DEF ExecutionUnchanged, Holders, Busy
  <1> DEFINE x == thread[Main].exec
  <1>0. /\ Main \in Threads /\ thread[Main] \in Thread /\ x \in Executions \cup {None}
        /\ thread[Main].good \in BOOLEAN
    BY DEF Types, Thread, Threads
  <1>1. ASSUME NEW y \in Executions, Approve(y) PROVE Executes(Main)
    <2>1. UNCHANGED <<history, host, used, acted, active, backups, row, phase, safe,
                      cancelled, registered, behind, installs>> /\ thread[Main].pc = "idle"
          /\ phase = "up" /\ journal[y] = "pending"
      BY <1>1 DEF Approve, files, MainIdle, Claimable
    <2>2. CASE /\ journal' = [journal EXCEPT ![y] = "executing"]
               /\ thread' = [thread EXCEPT ![Main] = [Idle EXCEPT !.pc = "check", !.exec = y]]
               /\ revoked' = revoked \ {y}
      <3> DEFINE new == [Idle EXCEPT !.pc = "check", !.exec = y]
      <3>1. new \in Thread /\ new.pc = "check" /\ new.exec = y /\ new.step = 0
        BY DEF Types, Idle, Thread, Pcs
      <3>2. thread' = [thread EXCEPT ![Main] = new]
        BY <2>2
      <3> HIDE DEF new
      <3>3. ThreadIs(Main, "check", y) /\ thread'[Main].step = 0
        BY <1>0, <3>1, <3>2 DEF ThreadIs, Types
      <3>4. journal' \in [Executions -> Journal]
        BY <2>2 DEF Types, Journal
      <3> QED BY <1>0, <2>1, <2>2, <3>3, <3>4
          DEF Executes, ExecutionFrame, Leases, Grants, ThreadIs, Types, files
    <2>3. CASE /\ journal' = [journal EXCEPT ![y] = "expired"]
               /\ UNCHANGED thread /\ UNCHANGED revoked
      <3>1. journal' \in [Executions -> Journal]
        BY <2>3 DEF Types, Journal
      <3> QED BY <1>0, <2>1, <2>3, <3>1
          DEF Executes, ExecutionFrame, Leases, Decides, Types, files
    <2> QED BY <1>1, <2>2, <2>3 DEF Approve
  <1>2. ASSUME NEW y \in Executions, Reject(y) PROVE Executes(Main)
    <2>1. UNCHANGED <<history, host, used, acted, active, backups, row, phase, safe,
                      cancelled, registered, behind, installs>> /\ thread[Main].pc = "idle"
          /\ phase = "up" /\ journal[y] = "pending"
      BY <1>2 DEF Reject, files, MainIdle, Claimable
    <2>2. CASE /\ journal' = [journal EXCEPT ![y] = "rejected"]
               /\ Move(Main, [Idle EXCEPT !.pc = "rejected", !.exec = y])
      <3> DEFINE new == [Idle EXCEPT !.pc = "rejected", !.exec = y]
      <3>1. new \in Thread /\ new.pc = "rejected" /\ new.exec = y /\ new.step = 0
        BY DEF Types, Idle, Thread, Pcs
      <3>2. thread' = [thread EXCEPT ![Main] = new] /\ revoked' = revoked
        BY <2>2 DEF Move
      <3> HIDE DEF new
      <3>3. ThreadIs(Main, "rejected", y) /\ thread'[Main].step = 0
        BY <1>0, <3>1, <3>2 DEF ThreadIs, Types
      <3>4. journal' \in [Executions -> Journal]
        BY <2>2 DEF Types, Journal
      <3> QED BY <1>0, <2>1, <2>2, <3>2, <3>3, <3>4
          DEF Executes, ExecutionFrame, Leases, Grants, ThreadIs, Types, files
    <2>3. CASE /\ journal' = [journal EXCEPT ![y] = "expired"]
               /\ UNCHANGED thread /\ UNCHANGED revoked
      <3>1. journal' \in [Executions -> Journal]
        BY <2>3 DEF Types, Journal
      <3> QED BY <1>0, <2>1, <2>3, <3>1
          DEF Executes, ExecutionFrame, Leases, Decides, Types, files
    <2> QED BY <1>2, <2>2, <2>3 DEF Reject
  <1>3. CASE RememberRejected
    <2>1. UNCHANGED <<journal, host, used, acted, active, backups, row, phase, safe,
                      cancelled, registered, behind, installs>> /\ thread[Main].pc = "rejected"
      BY <1>3 DEF RememberRejected, files
    <2>2. history' \in {history, Remembered(x, "rejected")} /\ Leave(Main, TRUE)
      BY <1>3 DEF RememberRejected
    <2>3. /\ ThreadIs(Main, "idle", None) \/ (ThreadIs(Main, "end", None) /\ Main # Main)
          /\ thread'[Main].step = 0 /\ revoked' = revoked \ {x}
      BY <1>0, <2>2, LeaveIs
    <2>4. history' \in [Executions -> History]
      BY <2>2, RememberedIs DEF Types, History
    <2> QED BY <1>0, <2>1, <2>2, <2>3, <2>4
        DEF Executes, ExecutionFrame, Leases, Closes, ThreadIs, Types, files
  <1>4. CASE Finish
    <2>1. UNCHANGED <<history, host, used, acted, active, backups, row, phase, safe,
                      cancelled, registered, behind, installs>> /\ thread[Main].pc = "finish"
      BY <1>4 DEF Finish, files, ghosts
    <2>2. /\ \/ journal' = journal
             \/ journal' = [journal EXCEPT ![x] = IF thread[Main].good THEN "completed"
                                                  ELSE "failed"]
          /\ Leave(Main, TRUE)
      BY <1>4 DEF Finish
    <2>3. /\ ThreadIs(Main, "idle", None) \/ (ThreadIs(Main, "end", None) /\ Main # Main)
          /\ thread'[Main].step = 0 /\ revoked' = revoked \ {x}
      BY <1>0, <2>2, LeaveIs
    <2>4. journal' \in [Executions -> Journal]
      BY <2>2 DEF Types, Journal
    <2> QED BY <1>0, <2>1, <2>2, <2>3, <2>4
        DEF Executes, ExecutionFrame, Leases, Closes, ThreadIs, Types, files
  <1>5. ASSUME NEW y \in Executions, Cancel(y) PROVE Executes(Main)
    <2>1. UNCHANGED <<journal, host, thread, used, acted, active, backups, row, phase, safe,
                      cancelled, registered, behind, installs>> /\ thread[Main].pc = "idle"
          /\ phase = "up" /\ y \in ActiveExecutions /\ revoked' = revoked \cup {y}
          /\ history' \in {history, Remembered(y, "cancelled")}
      BY <1>5 DEF Cancel, files, MainIdle
    <2>2. history' \in [Executions -> History]
      BY <2>1, RememberedIs DEF Types, History
    <2> QED BY <1>0, <1>5, <2>1, <2>2
        DEF Executes, ExecutionFrame, Leases, Decides, Types, files
  <1> QED BY <1>1, <1>2, <1>3, <1>4, <1>5 DEF Decide

-----------------------------------------------------------------------------
\* A step of a command, of safe mode or of a thread that ends leaves the tables
\* alone, and the threads it moves hold no execution.

Operates ==
    /\ Types'
    /\ UNCHANGED <<journal, history, used, acted>>
    /\ revoked' \in {revoked, revoked \cup ActiveExecutions, {}}
    /\ \A p \in Threads :
         \/ thread'[p] = thread[p]
         \/ thread'[p].pc \notin Holders /\ thread'[p].exec = None /\ thread'[p].step = 0

\* The main thread goes on to pc.
MainIs(pc) ==
    /\ thread' \in [Threads -> Thread]
    /\ \A s \in Sessions : thread'[s] = thread[s]
    /\ \A p \in Threads \ {Main} : thread'[p] = thread[p]
    /\ thread'[Main].pc = pc /\ thread'[Main].exec = None /\ thread'[Main].step = 0

LEMMA MainIsAlone == Main \in Threads /\ Main \notin Sessions /\ Sessions \subseteq Threads
  BY BoundsAssumption DEF Threads

LEMMA ReturnIs ==
  ASSUME Types, Return
  PROVE  MainIs("idle")
  BY MainIsAlone, IdleIs DEF Return, Continue, MainIs, Types

LEMMA ContinueIs ==
  ASSUME Types, NEW pc \in Pcs, Continue([Idle EXCEPT !.pc = pc])
  PROVE  MainIs(pc)
  <1> DEFINE new == [Idle EXCEPT !.pc = pc]
  <1>1. new \in Thread /\ new.pc = pc /\ new.exec = None /\ new.step = 0
    BY IdleWithPc
  <1>2. thread' = [thread EXCEPT ![Main] = new]
    BY DEF Continue
  <1> HIDE DEF new
  <1> QED BY <1>1, <1>2, MainIsAlone DEF MainIs, Types

LEMMA ContinueWithIs ==
  ASSUME Types, NEW pc \in Pcs, NEW v \in Versions, NEW aside \in Versions \cup {None},
         Continue([Idle EXCEPT !.pc = pc, !.version = v, !.aside = aside])
  PROVE  MainIs(pc) /\ thread'[Main].version = v /\ thread'[Main].aside = aside
  <1> DEFINE new == [Idle EXCEPT !.pc = pc, !.version = v, !.aside = aside]
  <1>1. new \in Thread /\ new.pc = pc /\ new.exec = None /\ new.step = 0
    BY DEF Idle, Thread
  <1>2. new.version = v /\ new.aside = aside
    BY DEF Idle
  <1>3. thread' = [thread EXCEPT ![Main] = new]
    BY DEF Continue
  <1> HIDE DEF new
  <1> QED BY <1>1, <1>2, <1>3, MainIsAlone DEF MainIs, Types

LEMMA UnusedIs ==
  /\ Unused \in Thread /\ Unused.pc = "unused" /\ Unused.exec = None /\ Unused.step = 0
  BY IdleWithPc DEF Unused, Pcs

\* A new thread listens beside threads t, which are the old ones or the old
\* ones with the main thread idle.
ListensIs(t) ==
    /\ registered' \in Sessions /\ t[registered'].pc = "unused"
    /\ thread' \in [Threads -> Thread]
    /\ thread'[registered'] = Idle
    /\ \A p \in Threads \ {registered'} : thread'[p] = t[p]

LEMMA ListenIs ==
  ASSUME NEW t \in [Threads -> Thread], Listen(t)
  PROVE  ListensIs(t)
  BY IdleIs, MainIsAlone DEF Listen, ListensIs

LEMMA CancelRegisteredIs ==
  ASSUME Types, CancelRegistered
  PROVE  /\ cancelled' = IF registered = None THEN cancelled
                         ELSE cancelled \cup {registered}
         /\ cancelled' \subseteq Sessions
         /\ revoked' \in {revoked, revoked \cup ActiveExecutions}
         /\ revoked' \subseteq Executions
  <1>1. ActiveExecutions \subseteq Executions
    BY ThreadsAreTheDomain DEF ActiveExecutions, Types, Thread
  <1> QED BY <1>1 DEF CancelRegistered, Types

LEMMA SaveRowIs ==
  ASSUME Types, NEW r \in Row, SaveRow(r)
  PROVE  /\ UNCHANGED <<active, backups, safe, host, installs, journal, history, phase,
                        used, acted, behind>>
         /\ \/ /\ row' = r /\ registered' = None /\ MainIs("rebuild")
               /\ cancelled' = IF registered = None THEN cancelled
                               ELSE cancelled \cup {registered}
               /\ revoked' \in {revoked, revoked \cup ActiveExecutions}
            \/ UNCHANGED <<row, cancelled, registered, revoked>> /\ MainIs("idle")
         /\ Types'
  <1>1. /\ UNCHANGED <<active, backups, safe, host, installs, journal, history, phase,
                       used, acted, behind>>
    BY DEF SaveRow, files, OperationUnchanged
  <1>2. CASE row' = r /\ StopListening /\ Continue([Idle EXCEPT !.pc = "rebuild"])
    <2>1. MainIs("rebuild")
      BY <1>2, ContinueIs DEF Pcs
    <2> QED BY <1>1, <1>2, <2>1, CancelRegisteredIs DEF StopListening, Types, MainIs
  <1>3. CASE UNCHANGED <<row, cancelled, registered, revoked>> /\ Return
    BY <1>1, <1>3, ReturnIs DEF Types, MainIs
  <1> QED BY <1>2, <1>3 DEF SaveRow

LEMMA RestoredIs == ASSUME Types PROVE Restored \in Host /\ Rebuilt \subseteq Host
  BY DEF Restored, Rebuilt, Types, Row, Host, NoHost

-----------------------------------------------------------------------------
\* What the directories and the host need of a step.

\* Nothing a rename left half-way is forgotten by a step that leaves the
\* directories, and the version of the row, as they are.
LEMMA FilesAreKept ==
  ASSUME FilesInv, UNCHANGED <<active, backups, installs>>,
         row'.version = row.version \/ active # None,
         thread'[Main] = thread[Main] \/ thread'[Main].pc \notin {"place", "restore", "save"}
  PROVE  FilesInv'
  BY DEF FilesInv, InstalledIsRecoverable

\* The main thread moves while nobody touches the host, the row or the threads.
LEMMA HostIsKept ==
  ASSUME Types, HostInv, NEW pc, MainIs(pc), pc \notin {"rebuild", "worker"},
         thread[Main].pc \notin {"rebuild", "converge"}, phase = "up",
         UNCHANGED <<row, host, phase, safe, cancelled, registered, behind>>
  PROVE  HostInv'
  <1>1. \A s \in Sessions : thread'[s] = thread[s]
    BY DEF MainIs
  <1>2. \A p \in Threads : thread'[p].pc = "worker" => thread'[p] = thread[p]
    BY DEF MainIs
  <1>3. WorkersAreAlone'
    BY <1>2 DEF HostInv, WorkersAreAlone
  <1>4. HostFollowsRow' /\ CrashesAreCounted' /\ NobodyListens'
    BY DEF HostInv, HostFollowsRow, CrashesAreCounted, NobodyListens, MainIs
  <1>5. SessionsAreControlled'
    BY <1>1 DEF HostInv, SessionsAreControlled, Alive
  <1> QED BY <1>3, <1>4, <1>5 DEF HostInv

\* So that no session is alive unless it is cancelled when one is to start.
LEMMA NobodyIsListening ==
  ASSUME HostInv, Types, registered = None
  PROVE  \A s \in Sessions : Alive(s) => s \in cancelled
  BY BoundsAssumption DEF HostInv, SessionsAreControlled

LEMMA InstallKeeps ==
  ASSUME Types, FilesInv, HostInv, NEW v \in Versions, Install(v)
  PROVE  Operates /\ FilesInv' /\ HostInv'
  <1>1. /\ thread[Main].pc = "idle" /\ phase = "up" /\ ~safe
        /\ installs' = installs + 1 /\ active' = None
        /\ backups' = IF active = None THEN backups ELSE Backup(active)
        /\ UNCHANGED <<row, safe, host, cancelled, registered, revoked, journal, history,
                       phase, used, acted, behind>>
    BY DEF Install, MainIdle, FilesOnly, OperationUnchanged
  <1>2. MainIs("place") /\ thread'[Main].version = v /\ thread'[Main].aside = active
    BY ContinueWithIs DEF Install, Types, Pcs
  <1>3. installs + 1 <= MaxWork
    <2>1. Cardinality(used) \in Nat
      BY FS_Subset, FS_CardinalityType, BoundsAssumption DEF Types
    <2> QED BY <2>1, BoundsAssumption DEF Install, WorkIsLeft, FilesInv
  <1>4. /\ backups' \in [Versions -> Int]
        /\ \A w \in Versions : backups'[w] <= installs + 1 /\ backups'[w] >= backups[w]
        /\ active # None => backups'[active] = backups[active] + 1
    BY <1>1 DEF Types, FilesInv, Backup
  <1>5. Types'
    BY <1>1, <1>2, <1>4 DEF Types, MainIs
  <1>6. Operates
    BY <1>1, <1>2, <1>5 DEF Operates, MainIs, Holders
  <1>7. FilesInv'
    <2>1. installs' \in 0..MaxWork
      BY <1>1, <1>3, BoundsAssumption DEF FilesInv
    <2>2. \A w \in Versions : backups'[w] \in 0..installs'
      BY <1>1, <1>4 DEF FilesInv, Types
    <2>3. CASE active = None
      BY <1>1, <1>2, <2>1, <2>2, <2>3, BoundsAssumption
         DEF FilesInv, InstalledIsRecoverable, MainIs
    <2>4. CASE active # None
      <3>1. active \in Versions /\ backups'[active] > 0
        BY <1>4, <2>4 DEF FilesInv, Types
      <3> QED BY <1>1, <1>2, <2>1, <2>2, <3>1, BoundsAssumption
              DEF FilesInv, InstalledIsRecoverable, MainIs
    <2> QED BY <2>3, <2>4
  <1>8. HostInv'
    BY <1>1, <1>2, HostIsKept
  <1> QED BY <1>6, <1>7, <1>8

LEMMA PlaceKeeps ==
  ASSUME Types, FilesInv, HostInv, Place
  PROVE  Operates /\ FilesInv' /\ HostInv'
  <1> DEFINE aside == thread[Main].aside
             v == thread[Main].version
  <1>1. /\ thread[Main].pc = "place" /\ phase = "up"
        /\ UNCHANGED <<row, safe, host, cancelled, registered, revoked, journal, history,
                       phase, used, acted, behind, installs>>
    BY DEF Place, FilesOnly, OperationUnchanged, HostInv, NobodyListens, Types
  <1>2. /\ v \in Versions /\ aside \in Versions \cup {None}
        /\ aside # None => backups[aside] > 0
    BY <1>1, MainIsAlone DEF Types, Thread, FilesInv
  <1>3. CASE active' = v /\ Continue([Idle EXCEPT !.pc = "save"]) /\ UNCHANGED backups
    <2>1. MainIs("save")
      BY <1>3, ContinueIs DEF Pcs
    <2>2. Types'
      BY <1>1, <1>2, <1>3, <2>1 DEF Types, MainIs
    <2>3. Operates
      BY <1>1, <2>1, <2>2 DEF Operates, MainIs, Holders
    <2>4. FilesInv'
      BY <1>1, <1>2, <1>3, <2>1, BoundsAssumption
         DEF FilesInv, InstalledIsRecoverable, MainIs
    <2> QED BY <1>1, <2>1, <2>3, <2>4, HostIsKept
  <1>4. CASE Return /\ UNCHANGED files
    <2>1. MainIs("idle") /\ UNCHANGED <<active, backups>>
      BY <1>4, ReturnIs DEF files
    <2>2. Types'
      BY <1>1, <2>1 DEF Types, MainIs
    <2>3. Operates
      BY <1>1, <2>1, <2>2 DEF Operates, MainIs, Holders
    <2>4. FilesInv'
      BY <1>1, <2>1, FilesAreKept DEF MainIs
    <2> QED BY <1>1, <2>1, <2>3, <2>4, HostIsKept
  <1>5. CASE Return /\ aside # None /\ active' = aside /\ backups' = WithoutBackup(aside)
    <2>1. MainIs("idle")
      BY <1>5, ReturnIs
    <2>2. /\ backups' \in [Versions -> Int]
          /\ \A w \in Versions : backups'[w] \in 0..installs
      BY <1>2, <1>5 DEF WithoutBackup, Types, FilesInv
    <2>3. Types'
      BY <1>1, <1>2, <1>5, <2>1, <2>2 DEF Types, MainIs
    <2>4. Operates
      BY <1>1, <2>1, <2>3 DEF Operates, MainIs, Holders
    <2>5. FilesInv'
      BY <1>1, <1>5, <2>1, <2>2 DEF FilesInv, InstalledIsRecoverable, MainIs
    <2> QED BY <1>1, <2>1, <2>4, <2>5, HostIsKept
  <1> QED BY <1>3, <1>4, <1>5 DEF Place

LEMMA RollbackKeeps ==
  ASSUME Types, FilesInv, HostInv, NEW v \in Versions, Rollback(v)
  PROVE  Operates /\ FilesInv' /\ HostInv'
  <1>1. /\ thread[Main].pc = "idle" /\ phase = "up" /\ backups[v] > 0 /\ active' = None
        /\ UNCHANGED <<row, safe, host, cancelled, registered, revoked, journal, history,
                       phase, used, acted, behind, backups, installs>>
    BY DEF Rollback, MainIdle, FilesOnly, OperationUnchanged, Restorable
  <1>2. MainIs("restore") /\ thread'[Main].version = v
    BY ContinueWithIs DEF Rollback, Types, Pcs
  <1>3. Types'
    BY <1>1, <1>2 DEF Types, MainIs
  <1>4. Operates
    BY <1>1, <1>2, <1>3 DEF Operates, MainIs, Holders
  <1>5. FilesInv'
    BY <1>1, <1>2, BoundsAssumption DEF FilesInv, InstalledIsRecoverable, MainIs
  <1>6. HostInv'
    BY <1>1, <1>2, HostIsKept
  <1> QED BY <1>4, <1>5, <1>6

LEMMA RestoreKeeps ==
  ASSUME Types, FilesInv, HostInv, Restore
  PROVE  Operates /\ FilesInv' /\ HostInv'
  <1> DEFINE v == thread[Main].version
  <1>1. /\ thread[Main].pc = "restore" /\ phase = "up"
        /\ UNCHANGED <<row, safe, host, cancelled, registered, revoked, journal, history,
                       phase, used, acted, behind, installs>>
    BY DEF Restore, FilesOnly, OperationUnchanged, HostInv, NobodyListens, Types
  <1>2. /\ v \in Versions /\ thread[Main].aside \in Versions \cup {None} /\ backups[v] > 0
    BY <1>1, MainIsAlone DEF Types, Thread, FilesInv
  <1>3. CASE /\ active' = v /\ backups' = WithoutBackup(v)
             /\ Continue([Idle EXCEPT !.pc = "save"])
    <2>1. MainIs("save")
      BY <1>3, ContinueIs DEF Pcs
    <2>2. /\ backups' \in [Versions -> Int]
          /\ \A w \in Versions : backups'[w] \in 0..installs
      BY <1>2, <1>3 DEF WithoutBackup, Types, FilesInv
    <2>3. Types'
      BY <1>1, <1>2, <1>3, <2>1, <2>2 DEF Types, MainIs
    <2>4. Operates
      BY <1>1, <2>1, <2>3 DEF Operates, MainIs, Holders
    <2>5. FilesInv'
      BY <1>1, <1>2, <1>3, <2>1, <2>2, BoundsAssumption
         DEF FilesInv, InstalledIsRecoverable, MainIs
    <2> QED BY <1>1, <2>1, <2>4, <2>5, HostIsKept
  <1>4. CASE active' \in {thread[Main].aside, None} /\ UNCHANGED backups /\ Return
    <2>1. MainIs("idle")
      BY <1>4, ReturnIs
    <2>2. Types'
      BY <1>1, <1>2, <1>4, <2>1 DEF Types, MainIs
    <2>3. Operates
      BY <1>1, <2>1, <2>2 DEF Operates, MainIs, Holders
    <2>4. FilesInv'
      BY <1>1, <1>2, <1>4, <2>1 DEF FilesInv, InstalledIsRecoverable, MainIs
    <2> QED BY <1>1, <2>1, <2>3, <2>4, HostIsKept
  <1> QED BY <1>3, <1>4 DEF Restore

\* Once the row is written nobody listens any more, and the host waits to be
\* rebuilt from it.
LEMMA SaveRowKeeps ==
  ASSUME Types, FilesInv, HostInv, NEW r \in Row, SaveRow(r), active # None, phase = "up",
         thread[Main].pc \notin {"rebuild", "converge"},
         r.enabled => r.authorized, safe => ~(r.authorized /\ r.enabled)
  PROVE  Operates /\ FilesInv' /\ HostInv'
  <1>1. UNCHANGED <<active, backups, safe, host, installs, journal, history, phase,
                    used, acted, behind>> /\ Types'
    BY SaveRowIs
  <1>2. CASE /\ row' = r /\ registered' = None /\ MainIs("rebuild")
             /\ cancelled' = IF registered = None THEN cancelled
                             ELSE cancelled \cup {registered}
             /\ revoked' \in {revoked, revoked \cup ActiveExecutions}
    <2>1. Operates
      BY <1>1, <1>2 DEF Operates, MainIs, Holders
    <2>2. FilesInv'
      BY <1>1, <1>2, FilesAreKept DEF MainIs
    <2>3. \A s \in Sessions : thread'[s] = thread[s]
      BY <1>2 DEF MainIs
    <2>4. SessionsAreControlled'
      BY <1>2, <2>3, BoundsAssumption DEF HostInv, SessionsAreControlled, Alive
    <2>5. \A p \in Threads : thread'[p].pc = "worker" => thread'[p] = thread[p]
      BY <1>2 DEF MainIs
    <2>6. WorkersAreAlone'
      BY <1>1, <2>5 DEF HostInv, WorkersAreAlone
    <2>7. HostFollowsRow' /\ CrashesAreCounted' /\ NobodyListens' /\ (row.enabled => row.authorized)'
      BY <1>1, <1>2 DEF HostInv, HostFollowsRow, CrashesAreCounted, NobodyListens, MainIs
    <2> QED BY <2>1, <2>2, <2>4, <2>6, <2>7 DEF HostInv
  <1>3. CASE UNCHANGED <<row, cancelled, registered, revoked>> /\ MainIs("idle")
    <2>1. Operates
      BY <1>1, <1>3 DEF Operates, MainIs, Holders
    <2>2. FilesInv'
      BY <1>1, <1>3, FilesAreKept DEF MainIs
    <2> QED BY <1>1, <1>3, <2>1, <2>2, HostIsKept
  <1> QED BY <1>2, <1>3, SaveRowIs

LEMMA CommandsSaveRows ==
  ASSUME Types, FilesInv, HostInv,
         SaveReplaced \/ Authorize \/ \E on \in BOOLEAN : SetEnabled(on)
  PROVE  Operates /\ FilesInv' /\ HostInv'
  <1>1. CASE SaveReplaced
    <2>1. thread[Main].pc = "save" /\ active # None /\ phase = "up" /\ active \in Versions
      BY <1>1 DEF SaveReplaced, FilesInv, HostInv, NobodyListens, Types
    <2>2. /\ Replaced(active) \in Row /\ ~Replaced(active).authorized
          /\ ~Replaced(active).enabled
      BY <2>1 DEF Replaced, Row
    <2> QED BY <1>1, <2>1, <2>2, SaveRowKeeps DEF SaveReplaced
  <1>2. CASE Authorize
    <2> DEFINE r == [row EXCEPT !.authorized = TRUE, !.enabled = FALSE]
    <2>1. thread[Main].pc = "idle" /\ active # None /\ phase = "up" /\ ~safe /\ SaveRow(r)
      BY <1>2 DEF Authorize, MainIdle, Healthy
    <2>2. r \in Row /\ ~r.enabled
      BY DEF Types, Row
    <2> QED BY <2>1, <2>2, SaveRowKeeps
  <1>3. ASSUME NEW on \in BOOLEAN, SetEnabled(on) PROVE Operates /\ FilesInv' /\ HostInv'
    <2> DEFINE r == [row EXCEPT !.enabled = on]
    <2>1. /\ thread[Main].pc = "idle" /\ active # None /\ phase = "up" /\ ~safe /\ SaveRow(r)
          /\ on => row.authorized
      BY <1>3 DEF SetEnabled, MainIdle, Healthy
    <2>2. r \in Row /\ (r.enabled => r.authorized)
      BY <2>1 DEF Types, Row
    <2> QED BY <2>1, <2>2, SaveRowKeeps
  <1> QED BY <1>1, <1>2, <1>3

-----------------------------------------------------------------------------
\* The host is rebuilt, safe mode is entered and left, threads end and start.

\* A host that is rebuilt remembers no crash and serves what the row enables.
LEMMA RebuiltHostIs ==
  ASSUME Types, NEW h \in Rebuilt
  PROVE  /\ h \in Host /\ h.crashes = 0 /\ h.status # "quarantined"
         /\ h.status = "activated" =>
              row = [version |-> h.version, authorized |-> TRUE, enabled |-> TRUE]
  <1>1. row \in Row
    BY DEF Types
  <1>2. CASE h = Restored /\ row.version # None /\ active = row.version
    <2>1. /\ h.version = row.version /\ h.crashes = 0
          /\ h.status = IF row.authorized /\ row.enabled THEN "activated" ELSE "inactive"
      BY <1>2 DEF Restored
    <2> QED BY <1>1, <2>1, RestoredIs DEF Row
  <1>3. CASE h = NoHost
    BY <1>3, RestoredIs DEF NoHost
  <1> QED BY <1>2, <1>3 DEF Rebuilt, Restored

\* A thread that starts is the one registered, and the only one not cancelled.
LEMMA NewThreadIsControlled ==
  ASSUME NEW t \in [Threads -> Thread], ListensIs(t), UNCHANGED row, cancelled \subseteq cancelled',
         \A s \in Sessions : t[s].pc # "unused" => s \in cancelled',
         row.authorized, row.enabled, ~safe'
  PROVE  SessionsAreControlled'
  BY MainIsAlone DEF ListensIs, SessionsAreControlled, Alive

LEMMA RebuildSucceeds ==
  ASSUME Types, FilesInv, HostInv, Rebuild, behind' = FALSE
  PROVE  Operates /\ FilesInv' /\ HostInv'
  <1> DEFINE t == [thread EXCEPT ![Main] = Idle]
  <1>1. /\ thread[Main].pc = "rebuild" /\ phase = "up" /\ registered = None
        /\ host' \in Rebuilt /\ HostFree /\ behind' = FALSE
        /\ UNCHANGED <<active, backups, row, safe, cancelled, revoked, installs, journal,
                       history, phase, used, acted>>
    BY DEF Rebuild, OperationUnchanged, files, HostInv, NobodyListens, Types
  <1>2. \A p \in Threads : thread[p].pc # "worker"
    BY <1>1, ThreadsAreTheDomain DEF HostFree
  <1>3. \A s \in Sessions : thread[s].pc # "unused" => s \in cancelled
    BY <1>1, NobodyIsListening DEF Alive
  <1>4. /\ thread' \in [Threads -> Thread] /\ registered' \in Sessions \cup {None}
        /\ \A p \in Threads : thread'[p] = thread[p] \/ thread'[p] = Idle
        /\ thread'[Main] = Idle
        /\ SessionsAreControlled'
    <2>1. CASE Listening(host', row) /\ Listen(t)
      <3>1. t \in [Threads -> Thread] /\ ListensIs(t)
        BY <2>1, IdleIs, ListenIs DEF Types
      <3>2. /\ t[Main] = Idle /\ \A s \in Threads \ {Main} : t[s] = thread[s]
        BY MainIsAlone DEF Types
      <3>3. row.authorized /\ row.enabled
        BY <2>1 DEF Listening
      <3>4. ~safe'
        BY <1>1, <3>3 DEF HostInv, NobodyListens, Types
      <3> HIDE DEF t
      <3>5. SessionsAreControlled'
        BY <1>1, <1>3, <3>1, <3>2, <3>3, <3>4, MainIsAlone, NewThreadIsControlled
      <3> QED BY <3>1, <3>2, <3>5, MainIsAlone DEF ListensIs
    <2>2. CASE Return /\ UNCHANGED registered
      <3>1. thread' = t
        BY <2>2 DEF Return, Continue
      <3>2. /\ thread' \in [Threads -> Thread] /\ thread'[Main] = Idle
            /\ \A s \in Threads \ {Main} : thread'[s] = thread[s]
        BY <3>1, MainIsAlone, IdleIs DEF Types
      <3>3. SessionsAreControlled'
        BY <1>1, <1>3, <3>2, MainIsAlone DEF SessionsAreControlled, Alive
      <3> QED BY <1>1, <2>2, <3>2, <3>3
    <2> QED BY <2>1, <2>2 DEF Rebuild
  <1>5. Types'
    BY <1>1, <1>4, RestoredIs DEF Types
  <1>6. Operates
    BY <1>1, <1>4, <1>5, IdleIs DEF Operates, Holders
  <1>7. FilesInv'
    BY <1>1, <1>4, FilesAreKept, IdleIs
  <1>8. WorkersAreAlone'
    BY <1>2, <1>4, IdleIs DEF WorkersAreAlone
  <1>9. HostFollowsRow' /\ CrashesAreCounted' /\ NobodyListens'
    BY <1>1, <1>4, IdleIs, RebuiltHostIs, BoundsAssumption
       DEF HostFollowsRow, CrashesAreCounted, NobodyListens
  <1> QED BY <1>1, <1>4, <1>6, <1>7, <1>8, <1>9 DEF HostInv

\* A rebuild that fails leaves the host to its worker.
LEMMA RebuildFails ==
  ASSUME Types, FilesInv, HostInv, Rebuild, behind' = TRUE
  PROVE  Operates /\ FilesInv' /\ HostInv'
  <1>1. /\ thread[Main].pc = "rebuild" /\ phase = "up" /\ Return
        /\ UNCHANGED <<active, backups, row, safe, host, cancelled, registered, revoked,
                       installs, journal, history, phase, used, acted>>
    BY DEF Rebuild, OperationUnchanged, files, HostInv, NobodyListens, Types
  <1>2. MainIs("idle")
    BY <1>1, ReturnIs
  <1>3. Types'
    BY <1>1, <1>2 DEF Types, MainIs
  <1>4. Operates
    BY <1>1, <1>2, <1>3 DEF Operates, MainIs, Holders
  <1>5. FilesInv'
    BY <1>1, <1>2, FilesAreKept DEF MainIs
  <1>6. \A p \in Threads : thread'[p].pc = "worker" => thread'[p] = thread[p]
    BY <1>2 DEF MainIs
  <1>7. WorkersAreAlone'
    BY <1>1, <1>6 DEF HostInv, WorkersAreAlone
  <1>8. SessionsAreControlled'
    BY <1>1, <1>2 DEF HostInv, SessionsAreControlled, Alive, MainIs
  <1>9. HostFollowsRow' /\ CrashesAreCounted' /\ NobodyListens'
    BY <1>1, <1>2 DEF HostInv, HostFollowsRow, CrashesAreCounted, NobodyListens, MainIs
  <1> QED BY <1>1, <1>4, <1>5, <1>7, <1>8, <1>9 DEF HostInv

LEMMA RebuildKeeps ==
  ASSUME Types, FilesInv, HostInv, Rebuild
  PROVE  Operates /\ FilesInv' /\ HostInv'
  <1>1. behind' = FALSE \/ behind' = TRUE
    BY DEF Rebuild
  <1> QED BY <1>1, RebuildSucceeds, RebuildFails

LEMMA SafeModeKeeps ==
  ASSUME Types, FilesInv, HostInv, EnterSafe \/ Converge
  PROVE  Operates /\ FilesInv' /\ HostInv'
  <1>1. CASE EnterSafe
    <2>1. /\ thread[Main].pc = "idle" /\ phase = "up" /\ ~safe /\ safe' = TRUE
          /\ UNCHANGED <<active, backups, row, journal, history, phase, host, cancelled,
                         registered, revoked, used, acted, behind, installs>>
      BY <1>1 DEF EnterSafe, MainIdle, files, rows, ghosts
    <2>2. MainIs("converge")
      BY <1>1, ContinueIs DEF EnterSafe, Pcs
    <2>3. Types'
      BY <2>1, <2>2 DEF Types, MainIs
    <2>4. Operates
      BY <2>1, <2>2, <2>3 DEF Operates, MainIs, Holders
    <2>5. FilesInv'
      BY <2>1, <2>2, FilesAreKept DEF MainIs
    <2>6. \A p \in Threads : thread'[p].pc = "worker" => thread'[p] = thread[p]
      BY <2>2 DEF MainIs
    <2>7. WorkersAreAlone'
      BY <2>1, <2>6 DEF HostInv, WorkersAreAlone
    <2>8. SessionsAreControlled'
      BY <2>1, <2>2 DEF HostInv, SessionsAreControlled, Alive, MainIs
    <2>9. HostFollowsRow' /\ CrashesAreCounted' /\ NobodyListens'
      BY <2>1, <2>2 DEF HostInv, HostFollowsRow, CrashesAreCounted, NobodyListens, MainIs
    <2> QED BY <2>1, <2>4, <2>5, <2>7, <2>8, <2>9 DEF HostInv
  <1>2. CASE Converge
    <2>1. /\ thread[Main].pc = "converge" /\ phase = "up" /\ registered' = None
          /\ CancelRegistered
          /\ UNCHANGED <<active, backups, row, journal, history, phase, safe, host, used,
                         acted, behind, installs>>
      BY <1>2 DEF Converge, StopListening, files, rows, ghosts, HostInv, NobodyListens, Types
    <2>2. MainIs("idle")
      BY <1>2, ReturnIs DEF Converge
    <2>3. Types'
      BY <2>1, <2>2, CancelRegisteredIs DEF Types, MainIs
    <2>4. Operates
      BY <2>1, <2>2, <2>3, CancelRegisteredIs DEF Operates, MainIs, Holders
    <2>5. FilesInv'
      BY <2>1, <2>2, FilesAreKept DEF MainIs
    <2>6. \A p \in Threads : thread'[p].pc = "worker" => thread'[p] = thread[p]
      BY <2>2 DEF MainIs
    <2>7. WorkersAreAlone'
      BY <2>1, <2>6 DEF HostInv, WorkersAreAlone
    <2>8. SessionsAreControlled'
      BY <2>1, <2>2, CancelRegisteredIs, BoundsAssumption
         DEF HostInv, SessionsAreControlled, Alive, MainIs
    <2>9. HostFollowsRow' /\ CrashesAreCounted' /\ NobodyListens'
      BY <2>1, <2>2 DEF HostInv, HostFollowsRow, CrashesAreCounted, NobodyListens, MainIs
    <2> QED BY <2>1, <2>4, <2>5, <2>7, <2>8, <2>9 DEF HostInv
  <1> QED BY <1>1, <1>2

LEMMA ExitSafeKeeps ==
  ASSUME Types, FilesInv, HostInv, ExitSafe
  PROVE  Operates /\ FilesInv' /\ HostInv'
  <1>1. /\ thread[Main].pc = "idle" /\ phase = "up" /\ safe /\ safe' = FALSE
        /\ CancelRegistered
        /\ UNCHANGED <<active, backups, row, journal, history, phase, host, used, acted,
                       behind, installs>>
    BY DEF ExitSafe, MainIdle, files, rows, ghosts
  <1>2. \A p \in Threads : thread[p].pc # "worker"
    BY ThreadsAreTheDomain DEF ExitSafe, HostFree
  <1>3. \A s \in Sessions : thread[s].pc # "unused" => s \in cancelled
    BY <1>1 DEF HostInv, SessionsAreControlled, Alive
  <1>4. cancelled \subseteq cancelled' /\ cancelled' \subseteq Sessions
        /\ revoked' \in {revoked, revoked \cup ActiveExecutions} /\ revoked' \subseteq Executions
    BY <1>1, CancelRegisteredIs
  <1>5. /\ thread' \in [Threads -> Thread] /\ registered' \in Sessions \cup {None}
        /\ \A p \in Threads : thread'[p] = thread[p] \/ thread'[p] = Idle
        /\ thread'[Main] = thread[Main]
        /\ SessionsAreControlled'
    <2>1. CASE Listening(host, row)
      <3>1. thread \in [Threads -> Thread] /\ ListensIs(thread)
        BY <2>1, ListenIs DEF ExitSafe, Types
      <3>2. row.authorized /\ row.enabled
        BY <2>1 DEF Listening
      <3>3. SessionsAreControlled'
        BY <1>1, <1>3, <1>4, <3>1, <3>2, NewThreadIsControlled
      <3> QED BY <3>1, <3>3, MainIsAlone DEF ListensIs
    <2>2. CASE ~Listening(host, row)
      <3>1. registered' = None /\ thread' = thread
        BY <2>2 DEF ExitSafe
      <3>2. SessionsAreControlled'
        BY <1>3, <1>4, <3>1 DEF SessionsAreControlled, Alive
      <3> QED BY <3>1, <3>2 DEF Types
    <2> QED BY <2>1, <2>2
  <1>6. Types'
    BY <1>1, <1>4, <1>5 DEF Types
  <1>7. Operates
    BY <1>1, <1>4, <1>5, <1>6, IdleIs DEF Operates, Holders
  <1>8. FilesInv'
    BY <1>1, <1>5, FilesAreKept
  <1>9. WorkersAreAlone'
    BY <1>2, <1>5, IdleIs DEF WorkersAreAlone
  <1>10. HostFollowsRow' /\ CrashesAreCounted' /\ NobodyListens'
    BY <1>1, <1>5 DEF HostInv, HostFollowsRow, CrashesAreCounted, NobodyListens
  <1> QED BY <1>1, <1>5, <1>7, <1>8, <1>9, <1>10 DEF HostInv

LEMMA EndSessionKeeps ==
  ASSUME Types, FilesInv, HostInv, NEW s \in Sessions, EndSession(s)
  PROVE  Operates /\ FilesInv' /\ HostInv'
  <1>1. /\ thread[s].pc # "unused" /\ phase = "up"
        /\ thread' = [thread EXCEPT ![s] = Unused]
        /\ cancelled' = cancelled \ {s} /\ registered' = Forgotten(s)
        /\ UNCHANGED <<active, backups, row, journal, history, phase, safe, host, revoked,
                       used, acted, behind, installs>>
    BY DEF EndSession, files, rows, ghosts, HostInv, NobodyListens, Types
  <1>2. /\ thread' \in [Threads -> Thread] /\ thread'[s] = Unused
        /\ \A p \in Threads \ {s} : thread'[p] = thread[p]
        /\ thread'[Main] = thread[Main]
    BY <1>1, UnusedIs, MainIsAlone DEF Types
  <1>3. registered' \in Sessions \cup {None} /\ (registered # s => registered' = registered)
    BY <1>1 DEF Forgotten, Types
  <1>4. Types'
    BY <1>1, <1>2, <1>3 DEF Types
  <1>5. Operates
    BY <1>1, <1>2, <1>4, UnusedIs DEF Operates, Holders
  <1>6. FilesInv'
    BY <1>1, <1>2, FilesAreKept
  <1>7. WorkersAreAlone'
    BY <1>1, <1>2, UnusedIs DEF HostInv, WorkersAreAlone
  <1>8. SessionsAreControlled'
    BY <1>1, <1>2, <1>3, UnusedIs, MainIsAlone DEF HostInv, SessionsAreControlled, Alive
  <1>9. HostFollowsRow' /\ CrashesAreCounted' /\ NobodyListens'
    BY <1>1, <1>2, BoundsAssumption
       DEF HostInv, HostFollowsRow, CrashesAreCounted, NobodyListens, Forgotten
  <1> QED BY <1>1, <1>5, <1>6, <1>7, <1>8, <1>9 DEF HostInv

LEMMA CrashKeeps ==
  ASSUME Types, FilesInv, HostInv, Crash
  PROVE  Operates /\ FilesInv' /\ HostInv'
  <1>1. /\ phase' = "down" /\ safe' = FALSE /\ host' = NoHost
        /\ cancelled' = {} /\ registered' = None /\ revoked' = {} /\ behind' = FALSE
        /\ UNCHANGED <<active, backups, row, journal, history, used, acted, installs>>
    BY DEF Crash, files, rows
  <1>2. /\ thread' \in [Threads -> Thread] /\ thread'[Main] = Idle
        /\ \A s \in Sessions : thread'[s] = Unused
        /\ \A p \in Threads : thread'[p] \in {Idle, Unused}
    BY ThreadsAreTheDomain, MainIsAlone, IdleIs, UnusedIs DEF Crash, Threads
  <1>3. Types'
    BY <1>1, <1>2 DEF Types, NoHost, Host
  <1>4. Operates
    BY <1>1, <1>2, <1>3, IdleIs, UnusedIs DEF Operates, Holders
  <1>5. FilesInv'
    BY <1>1, <1>2, FilesAreKept, IdleIs
  <1>6. HostInv'
    BY <1>1, <1>2, IdleIs, UnusedIs, BoundsAssumption
       DEF HostInv, HostFollowsRow, CrashesAreCounted, WorkersAreAlone, NobodyListens,
           SessionsAreControlled, Alive, NoHost
  <1> QED BY <1>4, <1>5, <1>6

\* At the start of the process: what runs out or was cut off is settled, and
\* nobody holds an execution.
Restarts ==
    /\ Types'
    /\ \E old \in SUBSET {x \in Executions : journal[x] = "pending"} :
          journal' = [x \in Executions |-> IF x \in old THEN "expired" ELSE Recovered(x)]
    /\ \A p \in Threads :
         /\ thread[p].pc \notin Holders
         /\ \/ thread'[p] = thread[p]
            \/ thread'[p].pc \notin Holders /\ thread'[p].exec = None /\ thread'[p].step = 0
    /\ UNCHANGED <<history, used, acted, revoked>>

LEMMA StartupKeeps ==
  ASSUME Types, FilesInv, HostInv, Startup
  PROVE  Restarts /\ FilesInv' /\ HostInv'
  <1>1. /\ phase = "down" /\ phase' = "up" /\ ~safe /\ host' \in Rebuilt
        /\ thread[Main].pc = "idle" /\ registered = None
        /\ \A s \in Sessions : thread[s].pc = "unused"
        /\ UNCHANGED <<active, backups, row, history, safe, cancelled, revoked, used, acted,
                       behind, installs>>
    BY DEF Startup, files, ghosts, HostInv, NobodyListens
  <1>2. PICK old \in SUBSET {x \in Executions : journal[x] = "pending"} :
          journal' = [x \in Executions |-> IF x \in old THEN "expired" ELSE Recovered(x)]
    BY DEF Startup
  <1>3. journal' \in [Executions -> Journal]
    BY <1>2 DEF Types, Journal, Recovered
  <1>4. /\ thread' \in [Threads -> Thread] /\ registered' \in Sessions \cup {None}
        /\ \A p \in Threads : thread'[p] = thread[p] \/ thread'[p] = Idle
        /\ thread'[Main] = thread[Main]
        /\ SessionsAreControlled'
    <2>1. CASE Listening(host', row)
      <3>1. thread \in [Threads -> Thread] /\ ListensIs(thread)
        BY <2>1, ListenIs DEF Startup, Types
      <3>2. SessionsAreControlled'
        BY <1>1, <2>1, <3>1, NewThreadIsControlled DEF Listening
      <3> QED BY <3>1, <3>2, MainIsAlone DEF ListensIs
    <2>2. CASE ~Listening(host', row)
      BY <1>1, <2>2 DEF Startup, SessionsAreControlled, Alive, Types
    <2> QED BY <2>1, <2>2
  <1>5. Types'
    BY <1>1, <1>3, <1>4, RestoredIs DEF Types
  <1>6. FilesInv'
    BY <1>1, <1>4, FilesAreKept
  <1>7. WorkersAreAlone'
    BY <1>1, <1>4, IdleIs DEF WorkersAreAlone, Threads
  <1>8. HostFollowsRow' /\ CrashesAreCounted' /\ NobodyListens'
    BY <1>1, <1>4, RebuiltHostIs, BoundsAssumption
       DEF HostFollowsRow, CrashesAreCounted, NobodyListens
  <1>9. \A p \in Threads : thread[p].pc \notin Holders
    BY <1>1 DEF Threads, Holders
  <1>10. Restarts
    BY <1>1, <1>2, <1>4, <1>5, <1>9, IdleIs DEF Restarts, Holders
  <1> QED BY <1>1, <1>4, <1>6, <1>7, <1>8, <1>10 DEF HostInv

-----------------------------------------------------------------------------
\* A step of an execution, or a decision, keeps the invariants.

LEMMA ExecutionKeepsFiles ==
  ASSUME FilesInv, NEW p \in Threads, ExecutionFrame(p)
  PROVE  FilesInv'
  <1>1. thread'[Main] = thread[Main] \/ thread'[Main].pc \in Busy \cup {"end"}
    BY MainIsAlone DEF ExecutionFrame
  <1> QED BY <1>1, FilesAreKept DEF ExecutionFrame, files, Busy, Holders

LEMMA ExecutionKeepsHost ==
  ASSUME Types, HostInv, NEW p \in Threads, ExecutionFrame(p), Leases(p)
  PROVE  HostInv'
  <1>1. /\ \A q \in Threads \ {p} : thread'[q] = thread[q]
        /\ thread[p].pc \in Busy /\ thread'[p].pc \in Busy \cup {"end"}
        /\ UNCHANGED <<row, phase, safe, cancelled, registered, behind>>
    BY DEF ExecutionFrame
  <1>2. phase = "up"
    <2> SUFFICES ASSUME phase = "down" PROVE FALSE
      BY DEF Types
    <2>1. thread[p].pc \in {"idle", "unused"}
      BY DEF HostInv, NobodyListens, Threads
    <2> QED BY <1>1, <2>1 DEF ExecutionFrame, Busy, Holders
  <1>3. thread'[Main] = thread[Main] \/ (p = Main /\ thread[Main].pc \notin {"rebuild", "converge"}
                                         /\ thread'[Main].pc \notin {"rebuild", "converge"})
    BY <1>1, MainIsAlone DEF Busy, Holders
  <1>4. host' = host \/ (host' = Crashed(host) /\ thread[p].pc = "worker")
    BY DEF Leases
  <1>5. /\ Crashed(host).status \in {"crashed", "quarantined"}
        /\ Crashed(host).crashes = host.crashes + 1
        /\ Crashed(host).status = "crashed" => ~(host.crashes + 1 >= CrashThreshold)
    BY DEF Crashed, Types, Host
  <1>6. CrashesAreCounted'
    <2>1. host.crashes \in Nat /\ CrashThreshold \in Nat
      BY BoundsAssumption DEF Types, Host
    <2>2. thread[p].pc = "worker" => host.status = "activated"
      BY DEF HostInv, WorkersAreAlone
    <2> QED BY <1>4, <1>5, <2>1, <2>2 DEF HostInv, CrashesAreCounted
  <1>7. HostFollowsRow'
    BY <1>1, <1>3, <1>4, <1>5 DEF HostInv, HostFollowsRow
  <1>8. WorkersAreAlone'
    <2>1. CASE thread'[p].pc = "worker"
      <3>1. /\ thread[p].pc = "register" /\ Leasable(thread'[p].version)
            /\ \A q \in Threads : thread[q].pc # "worker"
        BY <2>1, ThreadsAreTheDomain DEF Leases, HostFree
      <3> QED BY <1>1, <1>4, <3>1 DEF WorkersAreAlone, Leasable
    <2>2. CASE thread'[p].pc # "worker"
      BY <1>1, <1>4, <2>2 DEF HostInv, WorkersAreAlone
    <2> QED BY <2>1, <2>2
  <1>9. NobodyListens'
    BY <1>1, <1>2, <1>3 DEF HostInv, NobodyListens
  <1>10. SessionsAreControlled'
    <2>1. \A s \in Sessions : Alive(s)' => Alive(s)
      BY <1>1, MainIsAlone DEF Alive, Busy, Holders
    <2> QED BY <1>1, <1>3, <2>1 DEF HostInv, SessionsAreControlled
  <1> QED BY <1>1, <1>6, <1>7, <1>8, <1>9, <1>10 DEF HostInv

\* What the tables' invariant says of a thread's execution.
LEMMA HoldingIs ==
  ASSUME Types, TablesInv, NEW q \in Threads
  PROVE  /\ thread[q].exec = None <=> thread[q].pc \notin Holders
         /\ thread[q].pc \in Holders => thread[q].exec \in used /\ thread[q].exec \in Executions
         /\ thread[q].step \in Nat
  <1>1. HolderKnows(q) /\ used \subseteq Executions /\ None \notin Executions
        /\ thread[q] \in Thread
    BY BoundsAssumption DEF TablesInv, Types
  <1> QED BY <1>1 DEF HolderKnows, Thread

LEMMA OpensKeeps ==
  ASSUME Types, Types', TablesInv, NEW p \in Threads, Opens(p),
         \A q \in Threads \ {p} : thread'[q] = thread[q]
  PROVE  TablesInv'
  <1> DEFINE x == thread'[p].exec
  <1>1. /\ x \in Executions \ used /\ used' = used \cup {x}
        /\ thread'[p].pc = "register" /\ thread'[p].step = 0
        /\ UNCHANGED <<journal, history, acted, revoked>>
    BY DEF Opens
  <1>2. \A q \in Threads \ {p} : HolderKnows(q)'
    BY <1>1 DEF TablesInv, HolderKnows, Direct, Granted
  <1>3. HolderKnows(p)'
    BY <1>1 DEF TablesInv, HolderKnows, Direct, Holders
  <1>4. HoldersAreApart'
    BY <1>1, HoldingIs DEF TablesInv, HoldersAreApart
  <1>5. StepsAreCounted'
    BY <1>1, BoundsAssumption DEF TablesInv, StepsAreCounted
  <1> QED BY <1>1, <1>2, <1>3, <1>4, <1>5 DEF TablesInv, TablesAgree

LEMMA AdvancesKeeps ==
  ASSUME Types, Types', TablesInv, NEW p \in Threads, Advances(p),
         \A q \in Threads \ {p} : thread'[q] = thread[q]
  PROVE  TablesInv'
  <1>1. /\ <<thread[p].pc, thread'[p].pc>> \in
             {<<"register", "worker">>, <<"worker", "insert">>, <<"worker", "check">>,
              <<"check", "act">>, <<"check", "record">>, <<"act", "check">>,
              <<"act", "record">>}
        /\ thread'[p].exec = thread[p].exec
        /\ UNCHANGED <<journal, history, used, revoked>>
    BY DEF Advances
  <1>2. \A q \in Threads \ {p} : HolderKnows(q)'
    BY <1>1 DEF TablesInv, HolderKnows, Direct, Granted
  <1>3. HolderKnows(p)'
    BY <1>1 DEF TablesInv, HolderKnows, Direct, Granted, Holders
  <1>4. HoldersAreApart'
    <2> SUFFICES ASSUME NEW q \in Threads, NEW r \in Threads, q # r,
                        thread'[q].exec # None, thread'[q].exec = thread'[r].exec
                 PROVE  thread'[q].pc = "remember" \/ thread'[r].pc = "remember"
      BY DEF HoldersAreApart
    <2>1. thread[q].exec # None /\ thread[q].exec = thread[r].exec
      BY <1>1
    <2>2. thread[q].pc = "remember" \/ thread[r].pc = "remember"
      BY <2>1 DEF TablesInv, HoldersAreApart
    <2>3. thread[p].pc # "remember"
      BY <1>1
    <2> QED BY <2>2, <2>3
  <1>5. StepsAreCounted'
    <2>1. \A q \in Threads \ {p} :
             thread'[q].step <= IF thread'[q].pc \in {"act", "record", "finish"}
                                THEN Commands + 1 ELSE Commands
      BY DEF TablesInv, StepsAreCounted
    <2>2. thread[p].step \in Nat /\ Commands \in Nat
      BY HoldingIs, BoundsAssumption
    <2>3. thread[p].step <= IF thread[p].pc \in {"act", "record", "finish"}
                            THEN Commands + 1 ELSE Commands
      BY DEF TablesInv, StepsAreCounted
    <2>4. thread'[p].step <= IF thread'[p].pc \in {"act", "record", "finish"}
                             THEN Commands + 1 ELSE Commands
      BY <1>1, <2>2, <2>3 DEF Advances
    <2> QED BY <2>1, <2>4 DEF StepsAreCounted
  <1>6. acted' \subseteq used'
    BY <1>1, HoldingIs DEF Advances, TablesInv, Holders
  <1> QED BY <1>1, <1>2, <1>3, <1>4, <1>5, <1>6 DEF TablesInv, TablesAgree

LEMMA QueuesKeeps ==
  ASSUME Types, Types', TablesInv, NEW p \in Threads, Queues(p),
         \A q \in Threads \ {p} : thread'[q] = thread[q]
  PROVE  TablesInv'
  <1> DEFINE x == thread[p].exec
  <1>1. /\ thread[p].pc = "insert" /\ thread'[p].pc = "remember"
        /\ thread'[p].exec = x /\ thread'[p].step = thread[p].step
        /\ UNCHANGED <<history, used, acted, revoked>>
    BY DEF Queues
  <1>2. x \in used /\ x \in Executions /\ Direct(x)
    BY <1>1, HoldingIs DEF TablesInv, HolderKnows, Holders
  <1>3. journal'[x] = "pending" /\ \A y \in Executions \ {x} : journal'[y] = journal[y]
    BY <1>2 DEF Queues, Types
  <1>4. \A q \in Threads \ {p} : HolderKnows(q)'
    <2> SUFFICES ASSUME NEW q \in Threads \ {p} PROVE HolderKnows(q)'
      OBVIOUS
    <2>1. HolderKnows(q) /\ thread'[q] = thread[q]
      BY DEF TablesInv
    <2>2. CASE thread[q].exec # x
      BY <1>1, <1>3, <2>1, <2>2, HoldingIs DEF HolderKnows, Direct, Granted, Holders
    <2>3. CASE thread[q].exec = x
      <3>1. thread[q].pc = "remember"
        BY <1>1, <1>2, <2>3, BoundsAssumption DEF TablesInv, HoldersAreApart, Types
      <3> QED BY <1>1, <1>3, <2>1, <2>3, <3>1 DEF HolderKnows, Holders
    <2> QED BY <2>2, <2>3
  <1>5. HolderKnows(p)'
    BY <1>1, <1>2, <1>3 DEF HolderKnows, Holders
  <1>6. HoldersAreApart'
    BY <1>1 DEF TablesInv, HoldersAreApart
  <1>7. StepsAreCounted'
    BY <1>1 DEF TablesInv, StepsAreCounted
  <1>8. TablesAgree'
    BY <1>1, <1>2, <1>3 DEF TablesInv, TablesAgree, Direct
  <1> QED BY <1>1, <1>2, <1>3, <1>4, <1>5, <1>6, <1>7, <1>8 DEF TablesInv, Direct

LEMMA SettlesKeeps ==
  ASSUME Types, Types', TablesInv, NEW p \in Threads, Settles(p),
         \A q \in Threads \ {p} : thread'[q] = thread[q]
  PROVE  TablesInv'
  <1> DEFINE x == thread[p].exec
  <1>1. /\ thread[p].pc = "record" /\ thread'[p].pc = "finish" /\ p = Main
        /\ thread'[p].exec = x /\ thread'[p].step = thread[p].step
        /\ UNCHANGED <<journal, used, acted, revoked>>
    BY DEF Settles
  <1>2. x \in used /\ x \in Executions /\ Granted(p, x)
    BY <1>1, HoldingIs DEF TablesInv, HolderKnows, Holders, Settles, Direct
  <1>3. /\ \A y \in Executions \ {x} : history'[y] = history[y]
        /\ history'[x] \in {"none", "waiting", "cancelled", "completed", "failed"}
        /\ thread'[p].good => history'[x] \in {"completed", "cancelled"}
    <2>1. history[x] \in {"none", "waiting", "cancelled"}
      BY <1>2 DEF Granted
    <2>2. /\ Remembered(x, "completed")[x] = IF history[x] \in {"none", "waiting"}
                                             THEN "completed" ELSE history[x]
          /\ \A y \in Executions : y # x => Remembered(x, "completed")[y] = history[y]
      BY <1>2, RememberedIs DEF History
    <2>3. /\ Remembered(x, "failed")[x] = IF history[x] \in {"none", "waiting"}
                                          THEN "failed" ELSE history[x]
          /\ \A y \in Executions : y # x => Remembered(x, "failed")[y] = history[y]
      BY <1>2, RememberedIs DEF History
    <2>4. CASE history' = Remembered(x, "completed")
      BY <2>1, <2>2, <2>4
    <2>5. CASE history' \in {history, Remembered(x, "failed")} /\ ~thread'[p].good
      BY <2>1, <2>3, <2>5
    <2> QED BY <2>4, <2>5 DEF Settles
  <1>4. \A q \in Threads \ {p} : HolderKnows(q)'
    <2> SUFFICES ASSUME NEW q \in Threads \ {p} PROVE HolderKnows(q)'
      OBVIOUS
    <2>1. HolderKnows(q) /\ thread'[q] = thread[q]
      BY DEF TablesInv
    <2>2. CASE thread[q].exec # x
      BY <1>1, <1>3, <2>1, <2>2, HoldingIs DEF HolderKnows, Direct, Granted, Holders
    <2>3. CASE thread[q].exec = x
      <3>1. thread[q].pc = "remember"
        BY <1>1, <1>2, <2>3, BoundsAssumption DEF TablesInv, HoldersAreApart, Types
      <3> QED BY <1>1, <2>1, <3>1 DEF HolderKnows, Holders
    <2> QED BY <2>2, <2>3
  <1>5. HolderKnows(p)'
    BY <1>1, <1>2, <1>3 DEF HolderKnows, Holders, Granted
  <1>6. HoldersAreApart'
    BY <1>1 DEF TablesInv, HoldersAreApart
  <1>7. StepsAreCounted'
    BY <1>1 DEF TablesInv, StepsAreCounted
  <1>8. TablesAgree'
    <2>1. journal[x] = "executing"
      BY <1>2 DEF Granted
    <2> QED BY <1>1, <1>3, <2>1 DEF TablesInv, TablesAgree
  <1>9. /\ \A y \in Executions \ used' : journal'[y] = "none" /\ history'[y] = "none"
        /\ \A y \in Executions : journal'[y] = "pending" =>
              history'[y] \in {"none", "waiting", "cancelled"}
    BY <1>1, <1>2, <1>3 DEF TablesInv, Granted
  <1> QED BY <1>1, <1>4, <1>5, <1>6, <1>7, <1>8, <1>9 DEF TablesInv

LEMMA ClosesKeeps ==
  ASSUME Types, Types', TablesInv, NEW p \in Threads, Closes(p), thread[p].pc \in Busy,
         \A q \in Threads \ {p} : thread'[q] = thread[q]
  PROVE  TablesInv'
  <1> DEFINE x == thread[p].exec
  <1>1. /\ thread'[p].exec = None /\ thread'[p].step = 0 /\ thread'[p].pc \in {"idle", "end"}
        /\ revoked' = revoked \ {x}
        /\ UNCHANGED <<used, acted>>
    BY DEF Closes
  \* what the step may write of x, and only of x
  <1>2. \/ UNCHANGED <<journal, history>>
        \/ /\ x \in used /\ x \in Executions
           /\ \A y \in Executions \ {x} : history'[y] = history[y] /\ journal'[y] = journal[y]
           /\ \/ /\ thread[p].pc = "remember" /\ journal' = journal
                 /\ history'[x] = IF history[x] \in {"none", "waiting"} THEN "waiting"
                                  ELSE history[x]
              \/ /\ thread[p].pc = "record" /\ journal' = journal /\ Direct(x)
                 /\ history'[x] \in {"completed", "failed", "cancelled"}
              \/ /\ thread[p].pc = "rejected" /\ journal' = journal /\ journal[x] = "rejected"
                 /\ history'[x] \in {history[x], "rejected"}
              \/ /\ thread[p].pc = "finish" /\ history' = history /\ journal[x] = "executing"
                 /\ journal'[x] \in {"completed", "failed"}
                 /\ journal'[x] = "completed" => history[x] \in {"completed", "cancelled"}
    <2>1. HolderKnows(p) /\ (thread[p].pc \in Holders => x \in used /\ x \in Executions)
      BY HoldingIs DEF TablesInv
    <2>2. CASE history' = history /\ journal' = journal
      BY <2>2
    <2>3. CASE thread[p].pc = "remember" /\ history' = Remembered(x, "waiting")
      <3>1. journal' = journal
        BY <2>3 DEF Closes
      <3> QED BY <2>1, <2>3, <3>1, RememberedIs DEF Holders, History
    <2>4. CASE /\ thread[p].pc = "record" /\ (p = Main => journal[x] = "none")
               /\ history' \in {Remembered(x, "completed"), Remembered(x, "failed")}
      <3>1. journal' = journal
        BY <2>4 DEF Closes
      <3>2. Direct(x) /\ x \in used /\ x \in Executions
        BY <2>1, <2>4 DEF HolderKnows, Granted, Holders
      <3>3. /\ \A y \in Executions \ {x} : history'[y] = history[y]
            /\ history'[x] \in {"completed", "failed", "cancelled"}
        BY <2>4, <3>2, RememberedIs DEF Direct, History
      <3> QED BY <2>4, <3>1, <3>2, <3>3
    <2>5. CASE thread[p].pc = "rejected" /\ history' = Remembered(x, "rejected")
      <3>1. journal' = journal
        BY <2>5 DEF Closes
      <3>2. journal[x] = "rejected" /\ x \in used /\ x \in Executions
        BY <2>1, <2>5 DEF HolderKnows, Holders
      <3>3. /\ \A y \in Executions \ {x} : history'[y] = history[y]
            /\ history'[x] \in {history[x], "rejected"}
        BY <2>5, <3>2, RememberedIs DEF History
      <3> QED BY <2>5, <3>1, <3>2, <3>3
    <2>6. CASE /\ thread[p].pc = "finish" /\ UNCHANGED history
               /\ journal' = [journal EXCEPT ![x] = IF thread[p].good THEN "completed"
                                                    ELSE "failed"]
      <3>1. /\ journal[x] = "executing" /\ x \in used /\ x \in Executions
            /\ thread[p].good => history[x] \in {"completed", "cancelled"}
        BY <2>1, <2>6 DEF HolderKnows, Holders
      <3>2. /\ \A y \in Executions \ {x} : journal'[y] = journal[y]
            /\ journal'[x] = IF thread[p].good THEN "completed" ELSE "failed"
        BY <2>6, <3>1 DEF Types
      <3> QED BY <2>6, <3>1, <3>2
    <2> QED BY <2>2, <2>3, <2>4, <2>5, <2>6 DEF Closes
  <1>3. \A q \in Threads \ {p} : HolderKnows(q)'
    <2> SUFFICES ASSUME NEW q \in Threads \ {p} PROVE HolderKnows(q)'
      OBVIOUS
    <2>1. HolderKnows(q) /\ thread'[q] = thread[q]
      BY DEF TablesInv
    <2>2. CASE UNCHANGED <<journal, history>>
      BY <1>1, <2>1, <2>2 DEF HolderKnows, Direct, Granted
    <2>3. CASE ~UNCHANGED <<journal, history>>
      <3>1. CASE thread[q].exec # x
        BY <1>1, <1>2, <2>1, <2>3, <3>1, HoldingIs DEF HolderKnows, Direct, Granted, Holders
      <3>2. CASE thread[q].exec = x
        <4>1. thread[q].pc = "remember" \/ thread[p].pc = "remember"
          BY <1>2, <2>3, <3>2, BoundsAssumption DEF TablesInv, HoldersAreApart, Types
        <4>2. CASE thread[q].pc = "remember"
          BY <1>1, <1>2, <2>1, <3>2, <4>2 DEF HolderKnows, Holders
        <4>3. CASE thread[p].pc = "remember"
          <5>1. journal[x] # "none"
            BY <4>3 DEF TablesInv, HolderKnows
          <5>2. /\ journal' = journal
                /\ history'[x] = IF history[x] \in {"none", "waiting"} THEN "waiting"
                                 ELSE history[x]
            BY <1>2, <2>3, <4>3
          <5> QED BY <1>1, <2>1, <3>2, <5>1, <5>2 DEF HolderKnows, Direct, Granted, Holders
        <4> QED BY <4>1, <4>2, <4>3
      <3> QED BY <3>1, <3>2
    <2> QED BY <2>2, <2>3
  <1>4. HolderKnows(p)'
    BY <1>1 DEF HolderKnows, Holders
  <1>5. HoldersAreApart'
    BY <1>1 DEF TablesInv, HoldersAreApart
  <1>6. StepsAreCounted'
    BY <1>1, BoundsAssumption DEF TablesInv, StepsAreCounted
  <1>7. TablesAgree'
    <2> SUFFICES ASSUME NEW y \in Executions
                 PROVE  /\ journal'[y] = "completed" => history'[y] \in {"completed", "cancelled"}
                        /\ history'[y] = "rejected" => journal'[y] = "rejected"
                        /\ history'[y] = "completed" =>
                             journal'[y] \notin {"pending", "rejected", "expired"}
      BY DEF TablesAgree
    <2>1. /\ journal[y] = "completed" => history[y] \in {"completed", "cancelled"}
          /\ history[y] = "rejected" => journal[y] = "rejected"
          /\ history[y] = "completed" => journal[y] \notin {"pending", "rejected", "expired"}
      BY DEF TablesInv, TablesAgree
    <2> QED BY <1>2, <2>1 DEF Direct
  <1>8. /\ \A y \in Executions \ used' : journal'[y] = "none" /\ history'[y] = "none"
        /\ \A y \in Executions : journal'[y] = "pending" =>
              history'[y] \in {"none", "waiting", "cancelled"}
    BY <1>1, <1>2 DEF TablesInv, Direct
  <1> QED BY <1>1, <1>3, <1>4, <1>5, <1>6, <1>7, <1>8 DEF TablesInv

LEMMA GrantsKeeps ==
  ASSUME Types, Types', TablesInv, NEW p \in Threads, Grants(p),
         \A q \in Threads \ {p} : thread'[q] = thread[q]
  PROVE  TablesInv'
  <1> DEFINE x == thread'[p].exec
  <1>1. /\ p = Main /\ journal[x] = "pending" /\ x \in Executions /\ thread'[p].step = 0
        /\ \/ /\ thread'[p].pc = "check" /\ journal' = [journal EXCEPT ![x] = "executing"]
              /\ revoked' = revoked \ {x}
           \/ /\ thread'[p].pc = "rejected" /\ journal' = [journal EXCEPT ![x] = "rejected"]
              /\ revoked' = revoked
        /\ UNCHANGED <<history, used, acted>>
    BY DEF Grants
  <1>2. x \in used /\ history[x] \in {"none", "waiting", "cancelled"}
    BY <1>1 DEF TablesInv
  <1>3. /\ \A y \in Executions \ {x} : journal'[y] = journal[y]
        /\ \/ thread'[p].pc = "check" /\ journal'[x] = "executing"
           \/ thread'[p].pc = "rejected" /\ journal'[x] = "rejected"
    BY <1>1 DEF Types
  <1>4. \A q \in Threads \ {p} : thread[q].exec = x => thread[q].pc = "remember"
    BY <1>1, HoldingIs, BoundsAssumption DEF TablesInv, HolderKnows, Direct, Granted, Holders
  <1>5. \A q \in Threads \ {p} : HolderKnows(q)'
    <2> SUFFICES ASSUME NEW q \in Threads \ {p} PROVE HolderKnows(q)'
      OBVIOUS
    <2>1. HolderKnows(q) /\ thread'[q] = thread[q]
      BY DEF TablesInv
    <2>2. CASE thread[q].exec # x
      BY <1>1, <1>3, <2>1, <2>2, HoldingIs DEF HolderKnows, Direct, Granted, Holders
    <2>3. CASE thread[q].exec = x
      BY <1>1, <1>3, <1>4, <2>1, <2>3 DEF HolderKnows, Holders
    <2> QED BY <2>2, <2>3
  <1>6. HolderKnows(p)'
    BY <1>1, <1>2, <1>3 DEF HolderKnows, Holders, Granted
  <1>7. HoldersAreApart'
    BY <1>1, <1>4 DEF TablesInv, HoldersAreApart
  <1>8. StepsAreCounted'
    BY <1>1, BoundsAssumption DEF TablesInv, StepsAreCounted
  <1>9. TablesAgree'
    BY <1>1, <1>2, <1>3 DEF TablesInv, TablesAgree
  <1>10. /\ \A y \in Executions \ used' : journal'[y] = "none" /\ history'[y] = "none"
         /\ \A y \in Executions : journal'[y] = "pending" =>
               history'[y] \in {"none", "waiting", "cancelled"}
    BY <1>1, <1>2, <1>3 DEF TablesInv
  <1> QED BY <1>1, <1>5, <1>6, <1>7, <1>8, <1>9, <1>10 DEF TablesInv

LEMMA ActiveAreUsed == ASSUME Types, TablesInv PROVE ActiveExecutions \subseteq used
  BY ThreadsAreTheDomain, HoldingIs DEF ActiveExecutions

LEMMA DecidesKeeps ==
  ASSUME Types, Types', TablesInv, NEW p \in Threads, Decides(p)
  PROVE  TablesInv'
  <1>1. thread' = thread /\ UNCHANGED <<used, acted>>
    BY DEF Decides
  <1>2. CASE /\ \E x \in Executions : /\ journal[x] = "pending"
                                      /\ journal' = [journal EXCEPT ![x] = "expired"]
             /\ UNCHANGED <<history, revoked>>
    <2>1. PICK x \in Executions : /\ journal[x] = "pending"
                                  /\ journal' = [journal EXCEPT ![x] = "expired"]
      BY <1>2
    <2>2. journal'[x] = "expired" /\ \A y \in Executions \ {x} : journal'[y] = journal[y]
      BY <2>1 DEF Types
    <2>3. x \in used /\ history[x] \in {"none", "waiting", "cancelled"}
      BY <2>1 DEF TablesInv
    <2>4. \A q \in Threads : HolderKnows(q)'
      BY <1>1, <1>2, <2>1, <2>2, HoldingIs DEF TablesInv, HolderKnows, Direct, Granted, Holders
    <2>5. HoldersAreApart' /\ StepsAreCounted'
      BY <1>1 DEF TablesInv, HoldersAreApart, StepsAreCounted
    <2>6. TablesAgree'
      BY <1>2, <2>2, <2>3 DEF TablesInv, TablesAgree
    <2> QED BY <1>1, <1>2, <2>2, <2>3, <2>4, <2>5, <2>6 DEF TablesInv
  <1>3. CASE /\ \E x \in ActiveExecutions :
                  /\ revoked' = revoked \cup {x}
                  /\ history' \in {history, Remembered(x, "cancelled")}
             /\ UNCHANGED journal
    <2>1. PICK x \in ActiveExecutions : /\ revoked' = revoked \cup {x}
                                        /\ history' \in {history, Remembered(x, "cancelled")}
      BY <1>3
    <2>2. x \in used /\ x \in Executions
      BY <2>1, ActiveAreUsed DEF Types
    <2>3. /\ \A y \in Executions \ {x} : history'[y] = history[y]
          /\ \/ history'[x] = history[x]
             \/ history[x] \in {"none", "waiting"} /\ history'[x] = "cancelled"
      BY <2>1, <2>2, RememberedIs DEF History
    <2>4. \A y \in Executions : \/ history'[y] = history[y]
                                \/ history[y] \in {"none", "waiting"} /\ history'[y] = "cancelled"
      BY <2>3
    <2>5. \A q \in Threads : HolderKnows(q)'
      BY <1>1, <1>3, <2>4, HoldingIs DEF TablesInv, HolderKnows, Direct, Granted, Holders
    <2>6. HoldersAreApart' /\ StepsAreCounted'
      BY <1>1 DEF TablesInv, HoldersAreApart, StepsAreCounted
    <2>7. TablesAgree'
      BY <1>3, <2>4 DEF TablesInv, TablesAgree
    <2>8. \A y \in Executions \ used' : history'[y] = "none"
      BY <1>1, <2>2, <2>3 DEF TablesInv
    <2>9. \A y \in Executions : journal'[y] = "pending" =>
            history'[y] \in {"none", "waiting", "cancelled"}
      BY <1>3, <2>4 DEF TablesInv
    <2> QED BY <1>1, <1>3, <2>1, <2>2, <2>5, <2>6, <2>7, <2>8, <2>9 DEF TablesInv
  <1> QED BY <1>2, <1>3 DEF Decides

LEMMA OperatesKeeps ==
  ASSUME Types, TablesInv, Operates
  PROVE  TablesInv'
  <1>1. /\ UNCHANGED <<journal, history, used, acted>>
        /\ \A q \in Threads :
             \/ thread'[q] = thread[q]
             \/ thread'[q].pc \notin Holders /\ thread'[q].exec = None /\ thread'[q].step = 0
    BY DEF Operates
  <1>2. \A q \in Threads : HolderKnows(q)'
    BY <1>1 DEF TablesInv, HolderKnows, Direct, Granted, Holders
  <1>3. HoldersAreApart'
    BY <1>1 DEF TablesInv, HoldersAreApart
  <1>4. StepsAreCounted'
    BY <1>1, BoundsAssumption DEF TablesInv, StepsAreCounted
  <1>5. revoked' \subseteq used'
    BY <1>1, ActiveAreUsed DEF Operates, TablesInv
  <1> QED BY <1>1, <1>2, <1>3, <1>4, <1>5 DEF TablesInv, TablesAgree

LEMMA RestartsKeeps ==
  ASSUME Types, TablesInv, Restarts
  PROVE  TablesInv'
  <1>1. /\ UNCHANGED <<history, used, acted, revoked>>
        /\ \A q \in Threads :
             /\ thread[q].pc \notin Holders
             /\ \/ thread'[q] = thread[q]
                \/ thread'[q].pc \notin Holders /\ thread'[q].exec = None /\ thread'[q].step = 0
    BY DEF Restarts
  <1>2. \A y \in Executions : \/ journal'[y] = journal[y]
                              \/ journal[y] = "pending" /\ journal'[y] = "expired"
                              \/ journal[y] = "executing" /\ journal'[y] = "interrupted"
    BY DEF Restarts, Recovered
  <1>3. \A q \in Threads : HolderKnows(q)'
    BY <1>1 DEF TablesInv, HolderKnows, Holders
  <1>4. HoldersAreApart'
    BY <1>1 DEF TablesInv, HoldersAreApart
  <1>5. StepsAreCounted'
    BY <1>1, BoundsAssumption DEF TablesInv, StepsAreCounted
  <1>6. TablesAgree'
    BY <1>1, <1>2 DEF TablesInv, TablesAgree
  <1> QED BY <1>1, <1>2, <1>3, <1>4, <1>5, <1>6 DEF TablesInv

-----------------------------------------------------------------------------
\* The invariant of every run.

SkillsInv == Types /\ FilesInv /\ HostInv /\ TablesInv

LEMMA InitIsInvariant == Init => SkillsInv
<1> SUFFICES ASSUME Init PROVE SkillsInv
  OBVIOUS
<1>1. /\ thread \in [Threads -> Thread] /\ thread[Main] = Idle
      /\ \A s \in Sessions : thread[s] = Unused
      /\ \A p \in Threads : thread[p] \in {Idle, Unused}
  BY MainIsAlone, IdleIs, UnusedIs DEF Init, Threads
<1>2. Types
  <2>1. NoRow \in Row /\ NoHost \in Host
    BY DEF NoRow, Row, NoHost, Host
  <2>2. /\ journal \in [Executions -> Journal] /\ history \in [Executions -> History]
        /\ backups \in [Versions -> Int]
    BY DEF Init, Journal, History
  <2>3. row \in Row /\ host \in Host
    BY <2>1 DEF Init
  <2>4. safe \in BOOLEAN /\ behind \in BOOLEAN
    BY Zenon DEF Init
  <2>5. /\ active \in Versions \cup {None} /\ phase \in {"down", "up"}
        /\ cancelled \subseteq Sessions /\ registered \in Sessions \cup {None}
        /\ revoked \subseteq Executions /\ used \subseteq Executions
        /\ acted \subseteq Executions /\ installs \in Int
    BY DEF Init
  <2> QED BY ONLY <1>1, <2>2, <2>3, <2>4, <2>5 DEF Types
<1>3. FilesInv
  BY <1>1, IdleIs, BoundsAssumption DEF Init, FilesInv, InstalledIsRecoverable, NoRow
<1>4. HostInv
  BY <1>1, IdleIs, UnusedIs, BoundsAssumption
     DEF Init, HostInv, HostFollowsRow, CrashesAreCounted, WorkersAreAlone, NobodyListens,
         SessionsAreControlled, Alive, NoHost, NoRow
<1>5. TablesInv
  BY <1>1, IdleIs, UnusedIs, BoundsAssumption
     DEF Init, TablesInv, HolderKnows, Holders, HoldersAreApart, StepsAreCounted, TablesAgree
<1> QED BY <1>2, <1>3, <1>4, <1>5 DEF SkillsInv

\* Every step belongs to an execution, to a command, or starts the process.
LEMMA StepsAreKinds ==
  ASSUME SkillsInv, [Next]_vars
  PROVE  /\ FilesInv' /\ HostInv'
         /\ (\E p \in Threads : Executes(p)) \/ Operates \/ Restarts
<1> USE DEF SkillsInv
<1>1. \A p \in Threads : HolderKnows(p)
  BY DEF TablesInv
<1>2. ASSUME NEW p \in Threads, Executes(p) PROVE FilesInv' /\ HostInv'
  BY <1>2, ExecutionKeepsFiles, ExecutionKeepsHost DEF Executes
<1>3. CASE \E p \in {Main} \cup Sessions : Execution(p)
  BY <1>1, <1>2, <1>3, ExecutionExecutes DEF Threads
<1>4. CASE Decide
  BY <1>1, <1>2, <1>4, DecisionExecutes, MainIsAlone
<1>5. CASE Operation
  BY <1>5, InstallKeeps, PlaceKeeps, RollbackKeeps, RestoreKeeps, CommandsSaveRows,
     RebuildKeeps DEF Operation
<1>6. CASE \E s \in Sessions : EndSession(s)
  BY <1>6, EndSessionKeeps
<1>7. CASE EnterSafe \/ Converge \/ ExitSafe \/ Crash
  BY <1>7, SafeModeKeeps, ExitSafeKeeps, CrashKeeps
<1>8. CASE Startup
  BY <1>8, StartupKeeps
<1>9. CASE UNCHANGED vars
  <2>1. /\ UNCHANGED <<active, backups, row, journal, history, phase, safe, host, thread>>
        /\ UNCHANGED <<cancelled, registered, revoked, used, acted, behind, installs>>
    BY <1>9 DEF vars, files, rows, ghosts
  <2>2. Types' /\ Operates
    BY <2>1 DEF Types, Operates
  <2>3. FilesInv'
    BY <2>1 DEF FilesInv, InstalledIsRecoverable
  <2>4. HostInv'
    BY <2>1 DEF HostInv, HostFollowsRow, CrashesAreCounted, WorkersAreAlone, NobodyListens,
                SessionsAreControlled, Alive
  <2> QED BY <2>2, <2>3, <2>4
<1> QED BY <1>3, <1>4, <1>5, <1>6, <1>7, <1>8, <1>9 DEF Next

LEMMA StepKeepsInvariant ==
  ASSUME SkillsInv, [Next]_vars
  PROVE  SkillsInv'
<1>1. /\ FilesInv' /\ HostInv'
      /\ (\E p \in Threads : Executes(p)) \/ Operates \/ Restarts
  BY StepsAreKinds
<1>2. ASSUME NEW p \in Threads, Executes(p) PROVE Types' /\ TablesInv'
  <2>1. /\ Types' /\ \A q \in Threads \ {p} : thread'[q] = thread[q]
        /\ thread[p].pc \in Busy
    BY <1>2 DEF Executes, ExecutionFrame
  <2> QED BY <1>2, <2>1, OpensKeeps, AdvancesKeeps, QueuesKeeps, SettlesKeeps, ClosesKeeps,
             GrantsKeeps, DecidesKeeps DEF Executes, SkillsInv
<1>3. CASE Operates
  BY <1>1, <1>3, OperatesKeeps DEF SkillsInv, Operates
<1>4. CASE Restarts
  BY <1>1, <1>4, RestartsKeeps DEF SkillsInv, Restarts
<1> QED BY <1>1, <1>2, <1>3, <1>4 DEF SkillsInv

\* The types, the directories, the host and the tables stay as they should be
\* in every behaviour of the skill.
THEOREM SkillsInvariant == Spec => []SkillsInv
<1>1. SkillsInv /\ [Next]_vars => SkillsInv'
  BY StepKeepsInvariant
<1> QED
  BY <1>1, InitIsInvariant, PTL DEF Spec

\* Rows satisfy their tables, one worker runs at a time, directories and
\* crashes stay within their bounds (TypeOK).
THEOREM TypeCorrect == Spec => []TypeOK
<1>1. ASSUME SkillsInv PROVE TypeOK
  <2> USE <1>1
  <2>1. backups \in [Versions -> 0..MaxWork]
    <3>1. \A v \in Versions : backups[v] \in 0..MaxWork
      BY BoundsAssumption DEF SkillsInv, FilesInv, Types
    <3> QED BY <3>1 DEF SkillsInv, Types
  <2>2. host \in [version : Versions \cup {None}, crashes : 0..CrashThreshold,
                  status : {"none", "inactive", "activated", "crashed", "quarantined"}]
    <3>1. host \in Host /\ host.crashes \in Nat /\ host.crashes <= CrashThreshold
      BY DEF SkillsInv, Types, HostInv, CrashesAreCounted, Host
    <3>2. host.crashes \in 0..CrashThreshold
      BY <3>1, BoundsAssumption
    <3> QED BY <3>1, <3>2 DEF Host
  <2>3. thread \in [{Main} \cup Sessions -> ThreadState]
    <3>1. ASSUME NEW p \in Threads PROVE thread[p] \in ThreadState
      <4>1. thread[p] \in Thread /\ thread[p].step \in Nat
        BY DEF SkillsInv, Types, Thread
      <4>2. thread[p].step <= Commands + 1
        BY <4>1, BoundsAssumption DEF SkillsInv, TablesInv, StepsAreCounted
      <4>3. thread[p].step \in 0..Commands + 1
        BY <4>1, <4>2, BoundsAssumption
      <4> QED BY <4>1, <4>3 DEF Thread, ThreadState, Pcs
    <3> QED BY <3>1 DEF SkillsInv, Types, Threads
  <2>4. Cardinality({p \in DOMAIN thread : thread[p].pc = "worker"}) <= 1
    <3> DEFINE W == {p \in Threads : thread[p].pc = "worker"}
    <3>1. {p \in DOMAIN thread : thread[p].pc = "worker"} = W
      BY ThreadsAreTheDomain DEF SkillsInv
    <3>2. CASE W = {}
      BY <3>1, <3>2, FS_EmptySet
    <3>3. CASE W # {}
      <4>1. PICK p \in Threads : thread[p].pc = "worker"
        BY <3>3
      <4>2. W = {p}
        BY <4>1 DEF SkillsInv, HostInv, WorkersAreAlone
      <4>3. Cardinality(W) = 1
        BY <4>2, FS_Singleton
      <4> QED BY <3>1, <4>3
    <3> QED BY <3>2, <3>3
  <2> QED BY <2>1, <2>2, <2>3, <2>4
          DEF TypeOK, SkillsInv, Types, HostInv, TablesInv, Journal, History
<1> QED
  BY <1>1, SkillsInvariant, PTL

\* Whoever listens can be stopped (SessionsAreControlled).
THEOREM ListenersAreControlled == Spec => []SessionsAreControlled
<1>1. SkillsInv => SessionsAreControlled
  BY DEF SkillsInv, HostInv
<1> QED
  BY <1>1, SkillsInvariant, PTL

\* A worker runs the version its package was read in, and what the user has
\* authorized and enabled, unless a rebuild is under way or failed
\* (WorkersRunWhatIsEnabled).
THEOREM WorkersAreAuthorized == Spec => []WorkersRunWhatIsEnabled
<1>1. SkillsInv => WorkersRunWhatIsEnabled
  BY ThreadsAreTheDomain
     DEF SkillsInv, HostInv, HostFollowsRow, WorkersAreAlone, WorkersRunWhatIsEnabled
<1> QED
  BY <1>1, SkillsInvariant, PTL

\* The journal of the approvals and the history agree, whatever fails between
\* the two (TablesAgree).
THEOREM JournalAndHistoryAgree == Spec => []TablesAgree
<1>1. SkillsInv => TablesAgree
  BY DEF SkillsInv, TablesInv
<1> QED
  BY <1>1, SkillsInvariant, PTL

\* An installed skill is in place or can be rolled back to
\* (InstalledIsRecoverable).
THEOREM PackagesAreRecoverable == Spec => []InstalledIsRecoverable
<1>1. SkillsInv => InstalledIsRecoverable
  BY DEF SkillsInv, FilesInv
<1> QED
  BY <1>1, SkillsInvariant, PTL

-----------------------------------------------------------------------------
\* The journal implements the approval gate.

LEMMA DecisionsAre == \A d \in Journal : DecisionOf[d] \in Gate!Decisions
  BY DEF DecisionOf, Journal, Gate!Decisions

\* One decision of the gate, about one execution.
LEMMA GateDecides ==
  ASSUME Types, Types', NEW x \in Executions, UNCHANGED acted,
         \A y \in Executions \ {x} : journal'[y] = journal[y],
         \/ journal[x] = "none" /\ journal'[x] = "pending"
         \/ journal[x] = "pending" /\ journal'[x] \in {"executing", "rejected", "expired"}
  PROVE  Gate!Decide(x)
  BY DEF Gate!Decide, Gate!Change, Gate!Others, Gate!Moves, DecisionOf

LEMMA GateStep ==
  ASSUME SkillsInv, SkillsInv', [Next]_vars
  PROVE  [Gate!Next]_Gate!vars
<1> USE DEF SkillsInv
<1> DEFINE D == [x \in Executions |-> DecisionOf[journal[x]]]
<1>1. D' \in [Executions -> Gate!Decisions]
  <2>1. \A x \in Executions : journal'[x] \in Journal
    BY DEF Types
  <2> QED BY <2>1, DecisionsAre
<1>2. ASSUME journal' = journal, acted' = acted PROVE [Gate!Next]_Gate!vars
  BY <1>2 DEF Gate!vars
<1>3. ASSUME NEW x \in Executions, Gate!Decide(x) PROVE [Gate!Next]_Gate!vars
  BY <1>1, <1>3 DEF Gate!Next
<1>4. ASSUME NEW p \in Threads, Executes(p) PROVE [Gate!Next]_Gate!vars
  <2> DEFINE x == thread[p].exec
  <2>1. HolderKnows(p) /\ (thread[p].pc \in Holders => x \in Executions)
    BY HoldingIs DEF TablesInv
  <2>2. CASE Opens(p)
    BY <1>2, <2>2 DEF Opens
  <2>3. CASE Advances(p)
    <3>1. journal' = journal
      BY <2>3 DEF Advances
    <3>2. CASE acted' # acted
      <4>1. thread[p].pc = "act" /\ journal[x] # "none" /\ acted' = acted \cup {x}
        BY <2>3, <3>2 DEF Advances
      <4>2. x \in Executions /\ journal[x] = "executing" /\ x \notin acted
        BY <2>1, <3>2, <4>1 DEF HolderKnows, Direct, Granted, Holders
      <4>3. Gate!Begin(x)
        BY <3>1, <4>1, <4>2 DEF Gate!Begin, DecisionOf
      <4> QED BY <1>1, <4>2, <4>3 DEF Gate!Next
    <3> QED BY <1>2, <3>1, <3>2
  <2>4. CASE Queues(p)
    <3>1. /\ x \in Executions /\ journal[x] = "none" /\ UNCHANGED acted
          /\ journal' = [journal EXCEPT ![x] = "pending"]
      BY <2>1, <2>4 DEF Queues, HolderKnows, Direct, Holders
    <3>2. journal'[x] = "pending" /\ \A y \in Executions \ {x} : journal'[y] = journal[y]
      BY <3>1 DEF Types
    <3> QED BY <1>3, <3>1, <3>2, GateDecides
  <2>5. CASE Settles(p)
    BY <1>2, <2>5 DEF Settles
  <2>6. CASE Closes(p)
    <3>1. acted' = acted
      BY <2>6 DEF Closes
    <3>2. CASE journal' # journal
      <4>1. /\ thread[p].pc = "finish"
            /\ journal' = [journal EXCEPT ![x] = IF thread[p].good THEN "completed"
                                                 ELSE "failed"]
        BY <2>6, <3>2 DEF Closes
      <4>2. x \in Executions /\ journal[x] = "executing"
        BY <2>1, <4>1 DEF HolderKnows, Holders
      <4>3. /\ journal'[x] \in {"completed", "failed"}
            /\ \A y \in Executions \ {x} : journal'[y] = journal[y]
        BY <4>1, <4>2 DEF Types
      <4>4. Gate!Restart
        BY <3>1, <4>2, <4>3 DEF Gate!Restart, Gate!Change, Gate!Expiries, DecisionOf
      <4> QED BY <1>1, <4>4 DEF Gate!Next
    <3> QED BY <1>2, <3>1, <3>2
  <2>7. CASE Grants(p)
    <3> DEFINE y == thread'[p].exec
    <3>1. /\ y \in Executions /\ journal[y] = "pending" /\ UNCHANGED acted
          /\ \/ journal' = [journal EXCEPT ![y] = "executing"]
             \/ journal' = [journal EXCEPT ![y] = "rejected"]
      BY <2>7 DEF Grants
    <3>2. /\ journal'[y] \in {"executing", "rejected"}
          /\ \A z \in Executions \ {y} : journal'[z] = journal[z]
      BY <3>1 DEF Types
    <3> QED BY <1>3, <3>1, <3>2, GateDecides
  <2>8. CASE Decides(p)
    <3>1. acted' = acted
      BY <2>8 DEF Decides
    <3>2. CASE \E y \in Executions : /\ journal[y] = "pending"
                                     /\ journal' = [journal EXCEPT ![y] = "expired"]
      <4>1. PICK y \in Executions : /\ journal[y] = "pending"
                                    /\ journal' = [journal EXCEPT ![y] = "expired"]
        BY <3>2
      <4>2. journal'[y] = "expired" /\ \A z \in Executions \ {y} : journal'[z] = journal[z]
        BY <4>1 DEF Types
      <4> QED BY <1>3, <3>1, <4>1, <4>2, GateDecides
    <3> QED BY <1>2, <2>8, <3>1, <3>2 DEF Decides
  <2> QED BY <1>4, <2>2, <2>3, <2>4, <2>5, <2>6, <2>7, <2>8 DEF Executes
<1>5. CASE Operates
  BY <1>2, <1>5 DEF Operates
<1>6. CASE Restarts
  <2>1. /\ UNCHANGED acted
        /\ \A y \in Executions : \/ journal'[y] = journal[y]
                                 \/ journal[y] = "pending" /\ journal'[y] = "expired"
                                 \/ journal[y] = "executing" /\ journal'[y] = "interrupted"
    BY <1>6 DEF Restarts, Recovered
  <2>2. Gate!Restart
    BY <2>1 DEF Gate!Restart, Gate!Change, Gate!Expiries, DecisionOf
  <2> QED BY <1>1, <2>2 DEF Gate!Next
<1> QED BY <1>4, <1>5, <1>6, StepsAreKinds

\* A plan at a risk takes effect only under an approval in force, once: the
\* journal and the executions that acted implement ApprovalGate
\* (ImplementsApprovalGate).
THEOREM SkillsImplementApprovalGate == Spec => ImplementsApprovalGate
<1>1. Init => Gate!Init
  BY DEF Init, Gate!Init, DecisionOf
<1>2. SkillsInv /\ SkillsInv' /\ [Next]_vars => [Gate!Next]_Gate!vars
  BY GateStep
<1>3. Spec => Gate!Spec
  BY <1>1, <1>2, SkillsInvariant, PTL DEF Spec, Gate!Spec
<1> QED
  BY <1>3 DEF ImplementsApprovalGate
=============================================================================
