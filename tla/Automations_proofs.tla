-------------------------- MODULE Automations_proofs --------------------------
(***************************************************************************)
(* The safety of live automation runs for any runs, threads, attempts and  *)
(* budget.  The inductive invariant says who listens while the process is  *)
(* up (ListenInv), what each thread knows of the run it carries (RunInv),  *)
(* and what the ledger and the memory hold of each Agent task (TaskInv).   *)
(***************************************************************************)
EXTENDS Automations, FiniteSetTheorems, TLAPS

Threads == {Main} \cup Sessions

-----------------------------------------------------------------------------
\* Before the process is up nobody listens, and no confirmation is remembered.
Quiet ==
    phase # "up" =>
        /\ registered = Nobody /\ ~safe /\ waiting = {}
        /\ thread[Main].pc = "idle"
        /\ \A s \in Sessions : thread[s].pc = "unused"

ListenInv == Quiet /\ ListenersAreControlled

-----------------------------------------------------------------------------
\* What a thread knows of the run it carries.

Ashore == {"unused", "idle", "end"}
AgentPcs == {"reserve", "submit", "call", "settle", "suspend", "completed", "doubt",
             "failed"}
LaterPcs == {"call", "settle", "suspend", "completed", "failed"}
RunPcs == {"admit", "start", "check", "act", "complete", "release"}

RunKnown(p) ==
    LET t == thread[p]
        r == t.run
    IN
    /\ t.pc \in Ashore => r = NoRun /\ t.step = 0 /\ ~t.later
    /\ t.pc \notin Ashore => r \in Runs
    /\ t.later => /\ t.pc \in LaterPcs
                  /\ approval[r] \notin {"none", "pending"} /\ journal[r] # "none"
    /\ t.pc \in RunPcs \cup AgentPcs /\ ~t.later => approval[r] \in {"none", "executing"}
    /\ t.pc \in {"admit", "start"} => journal[r] = "none" /\ t.step = 0
    /\ t.pc \in {"check", "act", "complete"} \cup AgentPcs => journal[r] # "none"
    /\ t.pc = "check" /\ approval[r] # "none" => t.step = 0
    /\ t.pc = "act" => approval[r] = "none"
    /\ t.pc \in AgentPcs => approval[r] # "none" /\ t.step \in Tries
    /\ t.pc = "finish" => approval[r] = "executing"
    /\ p # Main => t.pc \notin AgentPcs \cup {"finish"}
                   /\ (r # NoRun => approval[r] = "none")

RunsAreApart ==
    \A p, q \in Threads :
        p # q /\ thread[p].run # NoRun => thread[p].run # thread[q].run

\* A run that waits for its approval has not started, and nobody carries it.
PendingIsUntouched ==
    \A r \in Runs : approval[r] = "pending" =>
        journal[r] = "none" /\ \A p \in Threads : thread[p].run # r

LeaseIsOne == \A r, q \in lease : r = q

RunInv ==
    /\ \A p \in Threads : RunKnown(p)
    /\ RunsAreApart /\ PendingIsUntouched /\ LeaseIsOne

-----------------------------------------------------------------------------
\* What the rows and the memory hold of an attempt.

\* The ledger holds the bill, the reservation, or what a user entered.
Accounted(t) ==
    \/ t.cost \in {"reserved", "indeterminate"}
    \/ t.cost = "settled" /\ t.actual = t.bill /\ t.bill <= 1
    \/ t.cost = "settled" /\ t.reconciled

TaskKnown(r, k) ==
    LET t == task[r][k] IN
    /\ t.status # "none" => approval[r] \notin {"none", "pending"} /\ journal[r] # "none"
    /\ t.called => t.status # "none" /\ Accounted(t)
    /\ t.reconciled \/ t.actual <= 1
    /\ <<r, k>> \in waiting => t.called /\ t.cost = "reserved"

\* An attempt finds the task of an earlier one.
OneSubmitted ==
    \A r \in Runs : \A k, l \in Tries :
        task[r][k].status # "none" /\ task[r][l].status # "none" => k = l

\* Of the task the main thread is about, before its call is paid for.
AgentKnown ==
    LET a == thread[Main]
        t == task[a.run][a.step]
    IN
    /\ a.pc = "submit" => t.cost = "reserved"
                          /\ \A k \in Tries : task[a.run][k].status = "none"
    /\ a.pc = "call" => t.status # "none" /\ t.cost = "reserved"
    /\ a.pc \in {"call", "settle", "doubt"} => <<a.run, a.step>> \notin waiting

\* The attempts the ledger holds something for, each of which was reserved.
Charged == {t \in Runs \X Tries : Charge(task[t[1]][t[2]]) >= 1}
ReservationsFit == Cardinality(Charged) <= DailyBudget

TaskInv ==
    /\ \A r \in Runs, k \in Tries : TaskKnown(r, k)
    /\ OneSubmitted /\ AgentKnown /\ ReservationsFit

-----------------------------------------------------------------------------
\* Types by name.

Pcs == {"unused", "idle", "admit", "start", "check", "act", "reserve",
        "submit", "call", "settle", "suspend", "completed", "doubt", "failed",
        "complete", "release", "finish", "end"}
Thread == [pc : Pcs, run : Runs \cup {NoRun}, step : Nat, good : BOOLEAN, later : BOOLEAN]
Journal == {"none", "running", "completed", "interrupted"}
Approval == {"none", "pending", "executing", "completed", "failed", "rejected", "expired",
             "interrupted"}
Phase == {"down", "agents", "governance", "approvals", "listening", "up"}

Types ==
    /\ enabled \in BOOLEAN /\ safe \in BOOLEAN
    /\ journal \in [Runs -> Journal]
    /\ lease \subseteq Runs
    /\ approval \in [Runs -> Approval]
    /\ task \in [Runs -> [Tries -> Task]]
    /\ phase \in Phase
    /\ thread \in [Threads -> Thread]
    /\ cancelled \subseteq Sessions /\ registered \in Sessions \cup {Nobody}
    /\ waiting \subseteq Runs \X Tries /\ revoked \subseteq Runs \X Tries

LEMMA MainIsAlone == Main \in Threads /\ Main \notin Sessions /\ Sessions \subseteq Threads
  BY BoundsAssumption DEF Threads

LEMMA IdleIs ==
  /\ Idle \in Thread /\ Idle.pc = "idle" /\ Idle.run = NoRun /\ Idle.step = 0 /\ ~Idle.later
  BY DEF Idle, Thread, Pcs

LEMMA UnusedIs ==
  /\ Unused \in Thread /\ Unused.pc = "unused" /\ Unused.run = NoRun /\ Unused.step = 0
  /\ ~Unused.later
  BY DEF Unused, Idle, Thread, Pcs

\* After a step thread p is at pc with run r and step k, and the others where
\* they were.
ThreadIs(p, pc, r, k) ==
    /\ thread' \in [Threads -> Thread]
    /\ \A q \in Threads \ {p} : thread'[q] = thread[q]
    /\ thread'[p].pc = pc /\ thread'[p].run = r /\ thread'[p].step = k

LEMMA PutIs ==
  ASSUME Types, NEW p \in Threads, NEW t \in Thread, thread' = [thread EXCEPT ![p] = t]
  PROVE  ThreadIs(p, t.pc, t.run, t.step) /\ thread'[p] = t
  BY DEF ThreadIs, Types

LEMMA GotoIs ==
  ASSUME Types, NEW p \in Threads, NEW pc \in Pcs, Goto(p, pc)
  PROVE  /\ ThreadIs(p, pc, thread[p].run, thread[p].step)
         /\ thread'[p].later = thread[p].later
  <1> DEFINE new == [thread[p] EXCEPT !.pc = pc]
  <1>1. thread[p] \in Thread
    BY DEF Types
  <1>2. new \in Thread /\ new.pc = pc /\ new.run = thread[p].run /\ new.step = thread[p].step
    BY <1>1 DEF Thread
  <1>3. new.later = thread[p].later
    BY <1>1 DEF Thread
  <1>4. thread' = [thread EXCEPT ![p] = new]
    BY DEF Goto
  <1> HIDE DEF new
  <1> QED BY <1>2, <1>3, <1>4, PutIs

LEMMA SpoiltIs ==
  ASSUME Types, NEW p \in Threads,
         thread' = [thread EXCEPT ![p].pc = "release", ![p].good = FALSE]
  PROVE  /\ ThreadIs(p, "release", thread[p].run, thread[p].step)
         /\ thread'[p].later = thread[p].later
  <1> DEFINE new == [thread[p] EXCEPT !.pc = "release", !.good = FALSE]
  <1>1. thread[p] \in Thread
    BY DEF Types
  <1>2. /\ new \in Thread /\ new.pc = "release" /\ new.run = thread[p].run
        /\ new.step = thread[p].step
    BY <1>1 DEF Thread, Pcs
  <1>3. new.later = thread[p].later
    BY <1>1 DEF Thread
  <1>4. thread' = [thread EXCEPT ![p] = new]
    OBVIOUS
  <1> HIDE DEF new
  <1> QED BY <1>2, <1>3, <1>4, PutIs

LEMMA SteppedIs ==
  ASSUME Types, NEW p \in Threads, NEW pc \in Pcs,
         thread' = [thread EXCEPT ![p].pc = pc, ![p].step = @ + 1]
  PROVE  /\ ThreadIs(p, pc, thread[p].run, thread[p].step + 1)
         /\ thread'[p].later = thread[p].later
  <1>1. thread[p] \in Thread
    BY DEF Types
  <1>2. PICK n \in Nat : n = thread[p].step + 1
    BY <1>1 DEF Thread
  <1> DEFINE new == [thread[p] EXCEPT !.pc = pc, !.step = n]
  <1>3. new \in Thread /\ new.pc = pc /\ new.run = thread[p].run /\ new.step = n
    BY <1>1 DEF Thread
  <1>4. new.later = thread[p].later
    BY <1>1 DEF Thread
  <1>5. thread' = [thread EXCEPT ![p] = new]
    BY <1>2
  <1> HIDE DEF new
  <1>6. ThreadIs(p, pc, thread[p].run, n) /\ thread'[p].later = thread[p].later
    BY <1>3, <1>4, <1>5, PutIs
  <1> QED BY ONLY <1>2, <1>6

LEMMA OpenedIs ==
  ASSUME Types, NEW p \in Threads, NEW r \in Runs,
         thread' = [thread EXCEPT ![p].pc = "admit", ![p].run = r]
  PROVE  /\ ThreadIs(p, "admit", r, thread[p].step)
         /\ thread'[p].later = thread[p].later
  <1> DEFINE new == [thread[p] EXCEPT !.pc = "admit", !.run = r]
  <1>1. thread[p] \in Thread
    BY DEF Types
  <1>2. new \in Thread /\ new.pc = "admit" /\ new.run = r /\ new.step = thread[p].step
    BY <1>1 DEF Thread, Pcs
  <1>3. new.later = thread[p].later
    BY <1>1 DEF Thread
  <1>4. thread' = [thread EXCEPT ![p] = new]
    OBVIOUS
  <1> HIDE DEF new
  <1> QED BY <1>2, <1>3, <1>4, PutIs

LEMMA LeftIs ==
  ASSUME Types, NEW p \in Threads, NEW good \in BOOLEAN,
         thread' = [thread EXCEPT ![p] = Left(p, good)]
  PROVE  /\ ThreadIs(p, "idle", NoRun, 0) \/ (ThreadIs(p, "end", NoRun, 0) /\ p # Main)
         /\ ~thread'[p].later
  <1>1. CASE good \/ p = Main
    BY <1>1, IdleIs, PutIs DEF Left
  <1>2. CASE ~(good \/ p = Main)
    <2> DEFINE ended == [Idle EXCEPT !.pc = "end"]
    <2>1. /\ ended \in Thread /\ ended.pc = "end" /\ ended.run = NoRun /\ ended.step = 0
          /\ ~ended.later
      BY DEF Idle, Thread, Pcs
    <2>2. thread' = [thread EXCEPT ![p] = ended]
      BY <1>2 DEF Left
    <2> HIDE DEF ended
    <2> QED BY <1>2, <2>1, <2>2, PutIs
  <1> QED BY <1>1, <1>2

LEMMA FinishingIs ==
  ASSUME NEW r \in Runs, NEW good \in BOOLEAN,
         NEW t, t = [Idle EXCEPT !.pc = "finish", !.run = r, !.good = good]
  PROVE  t \in Thread /\ t.pc = "finish" /\ t.run = r /\ t.step = 0 /\ ~t.later
  <1>1. t \in Thread
    BY IdleIs DEF Thread, Pcs
  <1>2. t.pc = "finish" /\ t.run = r /\ t.step = 0
    BY DEF Idle
  <1>3. ~t.later
    BY DEF Idle
  <1> QED BY <1>1, <1>2, <1>3

LEMMA AfterRunIs ==
  ASSUME Types, NEW p \in Threads, NEW r \in Runs, NEW good \in BOOLEAN,
         thread' = [thread EXCEPT ![p] = AfterRun(p, r, good)]
  PROVE  /\ \/ approval[r] = "executing" /\ ThreadIs(p, "finish", r, 0)
            \/ ThreadIs(p, "idle", NoRun, 0)
            \/ ThreadIs(p, "end", NoRun, 0) /\ p # Main
         /\ ~thread'[p].later
  <1>1. CASE approval[r] = "executing"
    <2>0. PICK t : t = [Idle EXCEPT !.pc = "finish", !.run = r, !.good = good]
      OBVIOUS
    <2>1. t \in Thread /\ t.pc = "finish" /\ t.run = r /\ t.step = 0 /\ ~t.later
      BY <2>0, FinishingIs
    <2>2. thread' = [thread EXCEPT ![p] = t]
      BY <1>1, <2>0 DEF AfterRun
    <2>3. ThreadIs(p, t.pc, t.run, t.step) /\ thread'[p] = t
      BY <2>1, <2>2, PutIs
    <2>4. ThreadIs(p, "finish", r, 0)
      BY ONLY <2>1, <2>3
    <2>5. ~thread'[p].later
      BY ONLY <2>1, <2>3, Zenon
    <2> QED BY <1>1, <2>4, <2>5
  <1>2. CASE approval[r] # "executing"
    BY <1>2, LeftIs DEF AfterRun
  <1> QED BY <1>1, <1>2

-----------------------------------------------------------------------------
\* What the invariants need of a step.

\* Nobody but p moves, and what the others know of their runs stays true.
Unshared(p) ==
    \A q \in Threads \ {p} :
        /\ thread'[q] = thread[q]
        /\ thread[q].run # NoRun =>
              /\ journal'[thread[q].run] = journal[thread[q].run]
              /\ approval'[thread[q].run] = approval[thread[q].run]

LEMMA RunsAreKept ==
  ASSUME RunInv, NEW p \in Threads, Unshared(p), RunKnown(p)',
         \/ thread'[p].run = NoRun
         \/ \A q \in Threads \ {p} : thread[q].run # thread'[p].run,
         PendingIsUntouched', LeaseIsOne'
  PROVE  RunInv'
  <1>1. ASSUME NEW q \in Threads \ {p} PROVE RunKnown(q)'
    <2>1. thread'[q] = thread[q] /\ RunKnown(q)
      BY DEF Unshared, RunInv
    <2>2. CASE thread[q].run = NoRun
      <3>1. thread[q].pc \in Ashore
        BY <2>1, <2>2, BoundsAssumption DEF RunKnown
      <3> QED BY <2>1, <2>2, <3>1 DEF RunKnown, Ashore, AgentPcs, RunPcs, LaterPcs
    <2>3. CASE thread[q].run # NoRun
      <3>1. /\ journal'[thread[q].run] = journal[thread[q].run]
            /\ approval'[thread[q].run] = approval[thread[q].run]
        BY <2>3 DEF Unshared
      <3> QED BY <2>1, <3>1 DEF RunKnown
    <2> QED BY <2>2, <2>3
  <1>2. RunsAreApart'
    BY DEF RunsAreApart, RunInv, Unshared
  <1> QED BY <1>1, <1>2 DEF RunInv

-----------------------------------------------------------------------------
\* A step of thread p on the run it carries, or between two runs, as far as
\* the runs can tell.

WorkFrame(p) ==
    /\ Types'
    /\ \A q \in Threads \ {p} : thread'[q] = thread[q]
    /\ thread[p].pc # "unused" /\ thread'[p].pc # "unused"
    /\ phase = "up"
    /\ UNCHANGED <<enabled, phase, safe, cancelled, registered>>
    /\ lease' \subseteq lease \/ lease' = {thread[p].run}

Rests(p) ==
    /\ thread'[p].pc \in {"idle", "end"} /\ thread'[p].run = NoRun /\ thread'[p].step = 0
    /\ ~thread'[p].later
    /\ UNCHANGED journal
    /\ \/ UNCHANGED approval
       \/ /\ thread[p].pc = "finish"
          /\ \E status \in {"completed", "failed"} :
                approval' = [approval EXCEPT ![thread[p].run] = status]
       \/ /\ thread[p].pc = "idle"
          /\ \E r \in Fresh : approval' = [approval EXCEPT ![r] = "pending"]

Opens(p) ==
    /\ thread[p].pc = "idle" /\ thread'[p].pc = "admit"
    /\ thread'[p].run \in Fresh /\ thread'[p].step = thread[p].step
    /\ thread'[p].later = thread[p].later
    /\ UNCHANGED <<journal, approval>>

Finishes(p) ==
    /\ thread[p].pc \in {"admit", "release"} /\ thread'[p].pc = "finish"
    /\ thread'[p].run = thread[p].run /\ approval[thread[p].run] = "executing"
    /\ thread'[p].step = 0 /\ ~thread'[p].later
    /\ UNCHANGED <<journal, approval>>

Goes(p) ==
    LET r == thread[p].run
        to == <<thread[p].pc, thread'[p].pc>>
    IN
    /\ thread'[p].run = r /\ thread'[p].later = thread[p].later
    /\ UNCHANGED approval
    /\ \/ /\ to \in {<<"admit", "start">>, <<"start", "release">>, <<"check", "complete">>,
                     <<"act", "check">>, <<"act", "complete">>, <<"complete", "release">>}
          /\ thread'[p].step = thread[p].step /\ UNCHANGED journal
       \/ /\ to = <<"start", "check">> /\ thread'[p].step = thread[p].step
          /\ journal' = [journal EXCEPT ![r] = "running"]
       \/ /\ to = <<"complete", "release">> /\ thread'[p].step = thread[p].step
          /\ journal' = [journal EXCEPT ![r] = "completed"]
       \/ /\ to = <<"check", IF NeedsApproval(r) THEN "reserve" ELSE "act">>
          /\ thread'[p].step = thread[p].step + 1 /\ UNCHANGED journal
       \/ /\ p = Main /\ thread[p].pc \in AgentPcs
          /\ thread'[p].pc \in AgentPcs \cup {"complete"}
          /\ thread[p].later => thread'[p].pc \in LaterPcs
          /\ \/ thread'[p].step = thread[p].step
             \/ thread[p].step < MaxAttempts /\ thread'[p].step = thread[p].step + 1
          /\ UNCHANGED journal

Works(p) == WorkFrame(p) /\ (Rests(p) \/ Opens(p) \/ Finishes(p) \/ Goes(p))

\* Nothing of an Agent task changes, and the main thread comes to none.
LeavesTasks(p) ==
    /\ UNCHANGED <<task, waiting>>
    /\ thread'[p].pc \notin {"submit", "call", "settle", "doubt"}

LEMMA PhaseIsUp ==
  ASSUME ListenInv, NEW p \in Threads, thread[p].pc # "unused",
         p = Main => thread[p].pc # "idle"
  PROVE  phase = "up"
  BY DEF ListenInv, Quiet, Threads

LEMMA StepWorks ==
  ASSUME Types, ListenInv, NEW p \in Threads, RunKnown(p), Step(p)
  PROVE  Works(p) /\ LeavesTasks(p)
  <1> USE DEF Ashore
  <1> DEFINE r == thread[p].run
  <1>0. /\ thread[p] \in Thread /\ thread[p].step \in Nat /\ thread[p].good \in BOOLEAN
        /\ (thread[p].pc \notin Ashore => r \in Runs)
    BY DEF Types, Thread, RunKnown
  <1>1. CASE Admit(p)
    <2>1. /\ thread[p].pc = "admit" /\ r \in Runs /\ phase = "up"
          /\ UNCHANGED <<enabled, journal, approval, task, phase, safe, cancelled, registered,
                         waiting, revoked>>
      BY <1>0, <1>1, PhaseIsUp DEF Admit
    <2>2. CASE lease' = {r} /\ Goto(p, "start")
      <3>1. ThreadIs(p, "start", r, thread[p].step) /\ thread'[p].later = thread[p].later
        BY <2>2, GotoIs DEF Pcs
      <3>2. Types'
        BY <2>1, <2>2, <3>1 DEF Types, ThreadIs
      <3> QED BY <2>1, <2>2, <3>1, <3>2
              DEF Works, WorkFrame, Goes, LeavesTasks, ThreadIs
    <2>3. CASE thread' = [thread EXCEPT ![p] = AfterRun(p, r, FALSE)] /\ UNCHANGED lease
      <3>1. /\ \/ approval[r] = "executing" /\ ThreadIs(p, "finish", r, 0)
               \/ ThreadIs(p, "idle", NoRun, 0)
               \/ ThreadIs(p, "end", NoRun, 0) /\ p # Main
            /\ ~thread'[p].later
        BY <2>1, <2>3, AfterRunIs
      <3>2. Types'
        BY <2>1, <2>3, <3>1 DEF Types, ThreadIs
      <3> QED BY <2>1, <2>3, <3>1, <3>2
              DEF Works, WorkFrame, Rests, Finishes, LeavesTasks, ThreadIs
    <2>4. ASSUME NEW expired \in SUBSET lease, ~NoRoom(lease \ expired),
                 lease' = (lease \ expired) \cup {r}
          PROVE  lease' = {r}
      BY <2>4 DEF NoRoom
    <2> QED BY <1>1, <2>2, <2>3, <2>4 DEF Admit
  <1>2. CASE Start(p)
    <2>1. /\ thread[p].pc = "start" /\ r \in Runs /\ phase = "up"
          /\ UNCHANGED <<enabled, lease, approval, task, phase, safe, cancelled, registered,
                         waiting, revoked>>
      BY <1>0, <1>2, PhaseIsUp DEF Start
    <2>2. CASE journal' = [journal EXCEPT ![r] = "running"] /\ Goto(p, "check")
      <3>1. ThreadIs(p, "check", r, thread[p].step) /\ thread'[p].later = thread[p].later
        BY <2>2, GotoIs DEF Pcs
      <3>2. journal' \in [Runs -> Journal]
        BY <2>2 DEF Types, Journal
      <3>3. Types'
        BY <2>1, <3>1, <3>2 DEF Types, ThreadIs
      <3> QED BY <2>1, <2>2, <3>1, <3>3
              DEF Works, WorkFrame, Goes, LeavesTasks, ThreadIs
    <2>3. CASE /\ thread' = [thread EXCEPT ![p].pc = "release", ![p].good = FALSE]
               /\ UNCHANGED journal
      <3>1. ThreadIs(p, "release", r, thread[p].step) /\ thread'[p].later = thread[p].later
        BY <2>3, SpoiltIs
      <3>2. Types'
        BY <2>1, <2>3, <3>1 DEF Types, ThreadIs
      <3> QED BY <2>1, <2>3, <3>1, <3>2
              DEF Works, WorkFrame, Goes, LeavesTasks, ThreadIs
    <2> QED BY <1>2, <2>2, <2>3 DEF Start
  <1>3. CASE Check(p)
    <2>1. /\ thread[p].pc = "check" /\ r \in Runs /\ phase = "up"
          /\ UNCHANGED <<enabled, journal, lease, approval, task, phase, safe, cancelled,
                         registered, waiting, revoked>>
      BY <1>0, <1>3, PhaseIsUp DEF Check, rows
    <2>2. CASE Goto(p, "complete")
      <3>1. ThreadIs(p, "complete", r, thread[p].step) /\ thread'[p].later = thread[p].later
        BY <2>2, GotoIs DEF Pcs
      <3>2. Types'
        BY <2>1, <3>1 DEF Types, ThreadIs
      <3> QED BY <2>1, <3>1, <3>2 DEF Works, WorkFrame, Goes, LeavesTasks, ThreadIs
    <2>3. CASE thread' = [thread EXCEPT
                  ![p].pc = IF NeedsApproval(r) THEN "reserve" ELSE "act",
                  ![p].step = @ + 1]
      <3>1. PICK pc \in {"reserve", "act"} : pc = IF NeedsApproval(r) THEN "reserve" ELSE "act"
        OBVIOUS
      <3>2. thread' = [thread EXCEPT ![p].pc = pc, ![p].step = @ + 1] /\ pc \in Pcs
        BY <2>3, <3>1 DEF Pcs
      <3>3. ThreadIs(p, pc, r, thread[p].step + 1) /\ thread'[p].later = thread[p].later
        BY <3>2, SteppedIs
      <3>4. Types'
        BY <2>1, <3>3 DEF Types, ThreadIs
      <3> QED BY <2>1, <3>1, <3>3, <3>4 DEF Works, WorkFrame, Goes, LeavesTasks, ThreadIs
    <2> QED BY <1>3, <2>2, <2>3 DEF Check
  <1>4. CASE Act(p)
    <2>1. /\ thread[p].pc = "act" /\ r \in Runs /\ phase = "up"
          /\ UNCHANGED <<enabled, journal, lease, approval, task, phase, safe, cancelled,
                         registered, waiting, revoked>>
      BY <1>0, <1>4, PhaseIsUp DEF Act, rows
    <2>2. PICK pc \in {"check", "complete"} : Goto(p, pc)
      BY <1>4 DEF Act
    <2>3. ThreadIs(p, pc, r, thread[p].step) /\ thread'[p].later = thread[p].later
      BY <2>2, GotoIs DEF Pcs
    <2>4. Types'
      BY <2>1, <2>3 DEF Types, ThreadIs
    <2> QED BY <2>1, <2>3, <2>4 DEF Works, WorkFrame, Goes, LeavesTasks, ThreadIs
  <1>5. CASE Complete(p)
    <2>1. /\ thread[p].pc = "complete" /\ r \in Runs /\ phase = "up"
          /\ UNCHANGED <<enabled, lease, approval, task, phase, safe, cancelled, registered,
                         waiting, revoked>>
      BY <1>0, <1>5, PhaseIsUp DEF Complete
    <2>2. CASE journal' = [journal EXCEPT ![r] = "completed"] /\ Goto(p, "release")
      <3>1. ThreadIs(p, "release", r, thread[p].step) /\ thread'[p].later = thread[p].later
        BY <2>2, GotoIs DEF Pcs
      <3>2. journal' \in [Runs -> Journal]
        BY <2>2 DEF Types, Journal
      <3>3. Types'
        BY <2>1, <3>1, <3>2 DEF Types, ThreadIs
      <3> QED BY <2>1, <2>2, <3>1, <3>3
              DEF Works, WorkFrame, Goes, LeavesTasks, ThreadIs
    <2>3. CASE /\ thread' = [thread EXCEPT ![p].pc = "release", ![p].good = FALSE]
               /\ UNCHANGED journal
      <3>1. ThreadIs(p, "release", r, thread[p].step) /\ thread'[p].later = thread[p].later
        BY <2>3, SpoiltIs
      <3>2. Types'
        BY <2>1, <2>3, <3>1 DEF Types, ThreadIs
      <3> QED BY <2>1, <2>3, <3>1, <3>2
              DEF Works, WorkFrame, Goes, LeavesTasks, ThreadIs
    <2> QED BY <1>5, <2>2, <2>3 DEF Complete
  <1>6. CASE Release(p)
    <2>1. /\ thread[p].pc = "release" /\ r \in Runs /\ phase = "up" /\ lease' \subseteq lease
          /\ UNCHANGED <<enabled, journal, approval, task, phase, safe, cancelled, registered,
                         waiting, revoked>>
      BY <1>0, <1>6, PhaseIsUp DEF Release
    <2>2. PICK good \in BOOLEAN : thread' = [thread EXCEPT ![p] = AfterRun(p, r, good)]
      BY <1>6 DEF Release
    <2>3. /\ \/ approval[r] = "executing" /\ ThreadIs(p, "finish", r, 0)
             \/ ThreadIs(p, "idle", NoRun, 0)
             \/ ThreadIs(p, "end", NoRun, 0) /\ p # Main
          /\ ~thread'[p].later
      BY <2>1, <2>2, AfterRunIs
    <2>4. Types'
      BY <2>1, <2>3 DEF Types, ThreadIs
    <2> QED BY <2>1, <2>3, <2>4
            DEF Works, WorkFrame, Rests, Finishes, LeavesTasks, ThreadIs
  <1> QED BY <1>1, <1>2, <1>3, <1>4, <1>5, <1>6 DEF Step

LEMMA TriggerWorks ==
  ASSUME Types, NEW p \in Threads, RunKnown(p), thread[p].pc = "idle", phase = "up",
         Triggered(p),
         UNCHANGED <<enabled, journal, lease, task, phase, safe, cancelled, registered,
                     waiting, revoked>>
  PROVE  Works(p) /\ LeavesTasks(p)
  <1>1. CASE /\ \E good \in {~safe, FALSE} : thread' = [thread EXCEPT ![p] = Left(p, good)]
             /\ UNCHANGED approval
    <2>1. PICK good \in BOOLEAN : thread' = [thread EXCEPT ![p] = Left(p, good)]
      BY <1>1
    <2>2. /\ ThreadIs(p, "idle", NoRun, 0) \/ (ThreadIs(p, "end", NoRun, 0) /\ p # Main)
          /\ ~thread'[p].later
      BY <2>1, LeftIs
    <2>3. Types'
      BY <1>1, <2>2 DEF Types, ThreadIs
    <2> QED BY <1>1, <2>2, <2>3 DEF Works, WorkFrame, Rests, LeavesTasks, ThreadIs
  <1>2. CASE /\ UNCHANGED approval
             /\ \E r \in Fresh :
                   thread' = [thread EXCEPT ![p].pc = "admit", ![p].run = r]
    <2>1. PICK r \in Fresh : thread' = [thread EXCEPT ![p].pc = "admit", ![p].run = r]
      BY <1>2
    <2>2. r \in Runs
      BY DEF Fresh
    <2>3. ThreadIs(p, "admit", r, thread[p].step) /\ thread'[p].later = thread[p].later
      BY <2>1, <2>2, OpenedIs
    <2>4. Types'
      BY <1>2, <2>3 DEF Types, ThreadIs
    <2> QED BY <1>2, <2>3, <2>4 DEF Works, WorkFrame, Opens, LeavesTasks, ThreadIs
  <1>3. CASE /\ \E r \in Fresh : approval' = [approval EXCEPT ![r] = "pending"]
             /\ thread' = [thread EXCEPT ![p] = Left(p, TRUE)]
    <2>1. /\ ThreadIs(p, "idle", NoRun, 0) \/ (ThreadIs(p, "end", NoRun, 0) /\ p # Main)
          /\ ~thread'[p].later
      BY <1>3, LeftIs
    <2>2. approval' \in [Runs -> Approval]
      BY <1>3 DEF Types, Approval
    <2>3. Types'
      BY <2>1, <2>2 DEF Types, ThreadIs
    <2> QED BY <1>3, <2>1, <2>3 DEF Works, WorkFrame, Rests, LeavesTasks, ThreadIs
  <1> QED BY <1>1, <1>2, <1>3 DEF Triggered

LEMMA FinishWorks ==
  ASSUME Types, ListenInv, RunKnown(Main), Finish
  PROVE  Works(Main) /\ LeavesTasks(Main)
  <1>1. /\ Main \in Threads /\ thread[Main].pc = "finish" /\ phase = "up"
        /\ UNCHANGED <<enabled, journal, lease, task, phase, safe, cancelled, registered,
                       waiting, revoked>>
        /\ thread' = [thread EXCEPT ![Main] = Idle]
    BY PhaseIsUp, MainIsAlone DEF Finish, Agent, CommandUnchanged
  <1>2. ThreadIs(Main, "idle", NoRun, 0) /\ ~thread'[Main].later
    BY <1>1, IdleIs, PutIs
  <1>3. \/ UNCHANGED approval
        \/ \E status \in {"completed", "failed"} :
              approval' = [approval EXCEPT ![thread[Main].run] = status]
    BY DEF Finish, Agent
  <1>4. approval' \in [Runs -> Approval]
    BY <1>3 DEF Types, Approval
  <1>5. Types'
    BY <1>1, <1>2, <1>4 DEF Types, ThreadIs
  <1> QED BY <1>1, <1>2, <1>3, <1>5 DEF Works, WorkFrame, Rests, LeavesTasks, ThreadIs

\* A step on a run keeps who may listen and what each thread knows.
LEMMA WorksKeepsListeners ==
  ASSUME ListenInv, NEW p \in Threads, Works(p)
  PROVE  ListenInv'
  <1>1. /\ phase = "up" /\ UNCHANGED <<enabled, phase, safe, cancelled, registered>>
        /\ \A s \in Sessions : Alive(s)' => Alive(s)
    BY MainIsAlone DEF Works, WorkFrame, Alive
  <1> QED BY <1>1 DEF ListenInv, Quiet, ListenersAreControlled

LEMMA LeaseStaysOne ==
  ASSUME LeaseIsOne, NEW p, lease' \subseteq lease \/ lease' = {p}
  PROVE  LeaseIsOne'
  BY DEF LeaseIsOne

LEMMA CarriedRuns ==
  ASSUME RunInv, NEW p \in Threads
  PROVE  /\ thread[p].run = NoRun <=> thread[p].pc \in Ashore
         /\ thread[p].run # NoRun => thread[p].run \in Runs
  BY BoundsAssumption DEF RunInv, RunKnown

LEMMA FreshIs ==
  ASSUME Types, NEW r \in Fresh
  PROVE  /\ r \in Runs /\ approval[r] = "none" /\ journal[r] = "none"
         /\ \A p \in Threads : thread[p].run # r
  BY DEF Fresh, Types

LEMMA RestsKeepsRuns ==
  ASSUME Types, RunInv, NEW p \in Threads, WorkFrame(p), Rests(p)
  PROVE  RunInv'
  <1> DEFINE r == thread[p].run
  <1>1. /\ thread'[p].pc \in {"idle", "end"} /\ thread'[p].run = NoRun /\ thread'[p].step = 0
        /\ ~thread'[p].later /\ journal' = journal
        /\ \A q \in Threads \ {p} : thread'[q] = thread[q]
    BY DEF Rests, WorkFrame
  <1>2. LeaseIsOne'
    BY LeaseStaysOne DEF WorkFrame, RunInv
  <1>3. RunKnown(p)'
    BY <1>1, BoundsAssumption DEF RunKnown, Ashore, RunPcs, AgentPcs
  <1>4. CASE UNCHANGED approval
    <2>1. Unshared(p)
      BY <1>1, <1>4 DEF Unshared
    <2>2. PendingIsUntouched'
      BY <1>1, <1>4, BoundsAssumption DEF RunInv, PendingIsUntouched
    <2> QED BY <1>1, <1>2, <1>3, <2>1, <2>2, RunsAreKept
  <1>5. CASE /\ thread[p].pc = "finish"
             /\ \E status \in {"completed", "failed"} : approval' = [approval EXCEPT ![r] = status]
    <2>1. r \in Runs /\ r # NoRun
      BY <1>5, CarriedRuns DEF Ashore
    <2>2. /\ approval'[r] \in {"completed", "failed"}
          /\ \A q \in Runs \ {r} : approval'[q] = approval[q]
      BY <1>5, <2>1 DEF Types
    <2>3. Unshared(p)
      BY <1>1, <2>1, <2>2, CarriedRuns DEF Unshared, RunInv, RunsAreApart
    <2>4. PendingIsUntouched'
      BY <1>1, <2>2, BoundsAssumption DEF RunInv, PendingIsUntouched
    <2> QED BY <1>1, <1>2, <1>3, <2>3, <2>4, RunsAreKept
  <1>6. CASE \E f \in Fresh : approval' = [approval EXCEPT ![f] = "pending"]
    <2>1. PICK f \in Fresh : approval' = [approval EXCEPT ![f] = "pending"]
      BY <1>6
    <2>2. /\ f \in Runs /\ journal[f] = "none" /\ \A q \in Threads : thread[q].run # f
      BY FreshIs
    <2>3. approval'[f] = "pending" /\ \A q \in Runs \ {f} : approval'[q] = approval[q]
      BY <2>1, <2>2 DEF Types
    <2>4. Unshared(p)
      BY <1>1, <2>2, <2>3, CarriedRuns DEF Unshared
    <2>5. PendingIsUntouched'
      BY <1>1, <2>2, <2>3, BoundsAssumption DEF RunInv, PendingIsUntouched
    <2> QED BY <1>1, <1>2, <1>3, <2>4, <2>5, RunsAreKept
  <1> QED BY <1>4, <1>5, <1>6 DEF Rests

LEMMA OpensKeepsRuns ==
  ASSUME Types, RunInv, NEW p \in Threads, WorkFrame(p), Opens(p)
  PROVE  RunInv'
  <1>1. /\ thread[p].pc = "idle" /\ thread'[p].pc = "admit"
        /\ thread'[p].run \in Fresh /\ thread'[p].step = thread[p].step
        /\ thread'[p].later = thread[p].later
        /\ journal' = journal /\ approval' = approval
        /\ \A q \in Threads \ {p} : thread'[q] = thread[q]
    BY DEF Opens, WorkFrame
  <1>2. LeaseIsOne'
    BY LeaseStaysOne DEF WorkFrame, RunInv
  <1>3. /\ thread'[p].run \in Runs /\ approval[thread'[p].run] = "none"
        /\ journal[thread'[p].run] = "none"
        /\ \A q \in Threads : thread[q].run # thread'[p].run
    BY <1>1, FreshIs
  <1>4. thread[p].step = 0 /\ ~thread[p].later
    BY <1>1 DEF RunInv, RunKnown, Ashore
  <1>5. RunKnown(p)'
    BY <1>1, <1>3, <1>4 DEF RunKnown, Ashore, RunPcs, AgentPcs
  <1>6. Unshared(p)
    BY <1>1 DEF Unshared
  <1>7. PendingIsUntouched'
    BY <1>1, <1>3 DEF RunInv, PendingIsUntouched
  <1> QED BY <1>2, <1>3, <1>5, <1>6, <1>7, RunsAreKept

LEMMA FinishesKeepsRuns ==
  ASSUME Types, RunInv, NEW p \in Threads, WorkFrame(p), Finishes(p)
  PROVE  RunInv'
  <1>1. /\ thread[p].pc \in {"admit", "release"} /\ thread'[p].pc = "finish"
        /\ thread'[p].run = thread[p].run /\ approval[thread[p].run] = "executing"
        /\ thread'[p].step = 0 /\ ~thread'[p].later
        /\ journal' = journal /\ approval' = approval
        /\ \A q \in Threads \ {p} : thread'[q] = thread[q]
    BY DEF Finishes, WorkFrame
  <1>2. LeaseIsOne'
    BY LeaseStaysOne DEF WorkFrame, RunInv
  <1>3. thread[p].run \in Runs /\ thread[p].run # NoRun /\ p = Main
    BY <1>1, CarriedRuns DEF Ashore, RunInv, RunKnown
  <1>4. RunKnown(p)'
    BY <1>1, <1>3 DEF RunKnown, Ashore, RunPcs, AgentPcs
  <1>5. Unshared(p)
    BY <1>1 DEF Unshared
  <1>6. PendingIsUntouched'
    BY <1>1 DEF RunInv, PendingIsUntouched
  <1>7. \A q \in Threads \ {p} : thread[q].run # thread'[p].run
    BY <1>1, <1>3 DEF RunInv, RunsAreApart
  <1> QED BY <1>2, <1>4, <1>5, <1>6, <1>7, RunsAreKept

LEMMA GoesKeepsRuns ==
  ASSUME Types, RunInv, NEW p \in Threads, WorkFrame(p), Goes(p), thread[p].pc \notin Ashore
  PROVE  RunInv'
  <1> DEFINE r == thread[p].run
  <1>1. /\ thread'[p].run = r /\ thread'[p].later = thread[p].later
        /\ approval' = approval
        /\ \A q \in Threads \ {p} : thread'[q] = thread[q]
    BY DEF Goes, WorkFrame
  <1>2. LeaseIsOne'
    BY LeaseStaysOne DEF WorkFrame, RunInv
  <1>3. r \in Runs /\ r # NoRun /\ RunKnown(p)
    BY CarriedRuns DEF RunInv
  <1>4. /\ \A q \in Runs \ {r} : journal'[q] = journal[q]
        /\ journal[r] # "none" => journal'[r] # "none"
    BY <1>3 DEF Goes, Types
  <1>5. Unshared(p)
    BY <1>1, <1>3, <1>4, CarriedRuns DEF Unshared, RunInv, RunsAreApart
  <1>6. PendingIsUntouched'
    BY <1>1, <1>3, <1>4 DEF RunInv, PendingIsUntouched
  <1>7. \A q \in Threads \ {p} : thread[q].run # thread'[p].run
    BY <1>1, <1>3 DEF RunInv, RunsAreApart
  <1>8. thread[p].step \in Nat
    BY DEF Types, Thread
  <1>9. RunKnown(p)'
    <2> DEFINE to == <<thread[p].pc, thread'[p].pc>>
    <2> USE DEF RunKnown, Ashore, RunPcs, AgentPcs
    <2>1. CASE /\ to \in {<<"admit", "start">>, <<"start", "release">>, <<"check", "complete">>,
                          <<"act", "check">>, <<"act", "complete">>, <<"complete", "release">>}
               /\ thread'[p].step = thread[p].step /\ UNCHANGED journal
      BY <1>1, <1>3, <2>1, BoundsAssumption DEF LaterPcs
    <2>2. CASE /\ to = <<"start", "check">> /\ thread'[p].step = thread[p].step
               /\ journal' = [journal EXCEPT ![r] = "running"]
      <3>1. journal'[r] = "running"
        BY <1>3, <2>2 DEF Types
      <3> QED BY <1>1, <1>3, <2>2, <3>1, BoundsAssumption DEF LaterPcs
    <2>3. CASE /\ to = <<"complete", "release">> /\ thread'[p].step = thread[p].step
               /\ journal' = [journal EXCEPT ![r] = "completed"]
      BY <1>1, <1>3, <2>3, BoundsAssumption DEF LaterPcs
    <2>4. CASE /\ to = <<"check", IF NeedsApproval(r) THEN "reserve" ELSE "act">>
               /\ thread'[p].step = thread[p].step + 1 /\ UNCHANGED journal
      <3>1. CASE approval[r] = "none"
        BY <1>1, <1>3, <2>4, <3>1, BoundsAssumption DEF LaterPcs, NeedsApproval
      <3>2. CASE approval[r] # "none"
        <4>1. thread'[p].step \in Tries /\ p = Main
          BY <1>3, <2>4, <3>2, BoundsAssumption DEF Tries
        <4> QED BY <1>1, <1>3, <2>4, <3>2, <4>1, BoundsAssumption DEF LaterPcs, NeedsApproval
      <3> QED BY <3>1, <3>2
    <2>5. CASE /\ p = Main /\ thread[p].pc \in AgentPcs
               /\ thread'[p].pc \in AgentPcs \cup {"complete"}
               /\ thread[p].later => thread'[p].pc \in LaterPcs
               /\ \/ thread'[p].step = thread[p].step
                  \/ thread[p].step < MaxAttempts /\ thread'[p].step = thread[p].step + 1
               /\ UNCHANGED journal
      <3>1. thread'[p].step \in Tries
        BY <1>3, <1>8, <2>5, BoundsAssumption DEF Tries
      <3> QED BY <1>1, <1>3, <2>5, <3>1, BoundsAssumption DEF LaterPcs
    <2> QED BY <2>1, <2>2, <2>3, <2>4, <2>5 DEF Goes
  <1> QED BY <1>2, <1>5, <1>6, <1>7, <1>9, RunsAreKept

LEMMA WorksKeepsRuns ==
  ASSUME Types, RunInv, NEW p \in Threads, Works(p)
  PROVE  RunInv'
  <1>1. Goes(p) => thread[p].pc \notin Ashore
    BY DEF Goes, Ashore, AgentPcs
  <1> QED BY <1>1, RestsKeepsRuns, OpensKeepsRuns, FinishesKeepsRuns, GoesKeepsRuns DEF Works

-----------------------------------------------------------------------------
\* The Agent tasks: what their rows need of a step.

\* A run that has been decided, or has started, stays so.
NeverBack ==
    \A r \in Runs :
        /\ approval[r] \notin {"none", "pending"} => approval'[r] \notin {"none", "pending"}
        /\ journal[r] # "none" => journal'[r] # "none"

LEMMA WorksNeverBack ==
  ASSUME Types, RunInv, NEW p \in Threads, Works(p)
  PROVE  NeverBack
  <1> DEFINE r == thread[p].run
  <1>1. CASE Rests(p)
    <2>1. journal' = journal
      BY <1>1 DEF Rests
    <2>2. CASE UNCHANGED approval
      BY <2>1, <2>2 DEF NeverBack
    <2>3. CASE \E status \in {"completed", "failed"} : approval' = [approval EXCEPT ![r] = status]
      BY <2>1, <2>3 DEF NeverBack, Types
    <2>4. CASE \E f \in Fresh : approval' = [approval EXCEPT ![f] = "pending"]
      <3>1. PICK f \in Fresh : approval' = [approval EXCEPT ![f] = "pending"]
        BY <2>4
      <3>2. f \in Runs /\ approval[f] = "none"
        BY FreshIs
      <3> QED BY <2>1, <3>1, <3>2 DEF NeverBack, Types
    <2> QED BY <1>1, <2>2, <2>3, <2>4 DEF Rests
  <1>2. CASE Opens(p) \/ Finishes(p)
    BY <1>2 DEF Opens, Finishes, NeverBack
  <1>3. CASE Goes(p)
    <2>1. approval' = approval
      BY <1>3 DEF Goes
    <2>2. \/ journal' = journal
          \/ journal' = [journal EXCEPT ![r] = "running"]
          \/ journal' = [journal EXCEPT ![r] = "completed"]
      BY <1>3 DEF Goes
    <2> QED BY <2>1, <2>2 DEF NeverBack, Types
  <1> QED BY <1>1, <1>2, <1>3 DEF Works

LEMMA TaskIs ==
  ASSUME Types, NEW r \in Runs, NEW k \in Tries
  PROVE  /\ task[r][k] \in Task /\ task[r][k].actual \in Nat /\ task[r][k].bill \in Nat
         /\ task[r][k].cost \in {"none", "reserved", "settled", "indeterminate"}
         /\ Charge(task[r][k]) \in Nat
         /\ Charge(task[r][k]) <= MaxAmount
  <1>1. task[r][k] \in Task
    BY DEF Types
  <1>2. /\ task[r][k].actual \in Nat /\ task[r][k].bill \in Nat
        /\ task[r][k].actual <= MaxAmount
        /\ task[r][k].cost \in {"none", "reserved", "settled", "indeterminate"}
    BY <1>1, BoundsAssumption DEF Task, Amounts
  <1> QED BY <1>1, <1>2, BoundsAssumption DEF Charge

LEMMA ChargedIsFinite == IsFiniteSet(Charged) /\ Cardinality(Charged) \in Nat
  <1>1. IsFiniteSet(Tries)
    BY FS_Interval, BoundsAssumption DEF Tries
  <1>2. IsFiniteSet(Runs \X Tries)
    BY <1>1, FS_Product, BoundsAssumption
  <1>3. IsFiniteSet(Charged)
    BY <1>2, FS_Subset DEF Charged
  <1> QED BY <1>3, FS_CardinalityType

LEMMA CommittedIsFinite == IsFiniteSet(CommittedUnits) /\ Committed \in Nat
  <1>1. IsFiniteSet(Tries) /\ IsFiniteSet(1..MaxAmount)
    BY FS_Interval, BoundsAssumption DEF Tries
  <1>2. IsFiniteSet((Runs \X Tries) \X (1..MaxAmount))
    BY <1>1, FS_Product, BoundsAssumption
  <1> DEFINE T == (Runs \X Tries) \X (1..MaxAmount)
             f == [u \in Units |-> <<<<u[1], u[2]>>, u[3]>>]
  <1>3. f \in [Units -> T]
    BY DEF Units
  <1>4. ASSUME NEW u \in Units, NEW v \in Units, f[u] = f[v]
        PROVE  u = v
    <2>1. u = <<u[1], u[2], u[3]>> /\ v = <<v[1], v[2], v[3]>>
      BY DEF Units
    <2>2. u[1] = v[1] /\ u[2] = v[2] /\ u[3] = v[3]
      BY <1>4
    <2> QED BY <2>1, <2>2
  <1> HIDE DEF f
  <1>5. f \in Injection(Units, T)
    BY <1>3, <1>4 DEF Injection, IsInjective
  <1>6. IsFiniteSet(Units)
    BY <1>2, <1>5, FS_Injection
  <1>7. IsFiniteSet(CommittedUnits)
    BY <1>6, FS_Subset DEF CommittedUnits
  <1> QED BY <1>7, FS_CardinalityType DEF Committed

\* The first units of what the ledger holds, one of each charged attempt.
First == {u \in CommittedUnits : u[3] = 1}

LEMMA FirstUnits ==
  ASSUME Types
  PROVE  IsFiniteSet(First) /\ Cardinality(First) = Cardinality(Charged)
  <1> DEFINE f == [t \in Charged |-> <<t[1], t[2], 1>>]
             g == [u \in First |-> <<u[1], u[2]>>]
  <1>1. IsFiniteSet(First) /\ Cardinality(First) \in Nat
    BY CommittedIsFinite, FS_Subset, FS_CardinalityType DEF First
  <1>2. f \in [Charged -> First]
    <2> SUFFICES ASSUME NEW t \in Charged PROVE <<t[1], t[2], 1>> \in First
      OBVIOUS
    <2>1. t[1] \in Runs /\ t[2] \in Tries /\ Charge(task[t[1]][t[2]]) >= 1
      BY DEF Charged
    <2>2. 1 \in 1..MaxAmount
      BY BoundsAssumption
    <2> QED BY <2>1, <2>2 DEF First, CommittedUnits, Units
  <1>3. ASSUME NEW t \in Charged, NEW w \in Charged, f[t] = f[w]
        PROVE  t = w
    <2>1. t = <<t[1], t[2]>> /\ w = <<w[1], w[2]>>
      BY DEF Charged
    <2>2. t[1] = w[1] /\ t[2] = w[2]
      BY <1>3
    <2> QED BY <2>1, <2>2
  <1>4. g \in [First -> Charged]
    <2> SUFFICES ASSUME NEW u \in First PROVE <<u[1], u[2]>> \in Charged
      OBVIOUS
    <2>1. u[1] \in Runs /\ u[2] \in Tries /\ 1 <= Charge(task[u[1]][u[2]])
      BY DEF First, CommittedUnits, Units
    <2>2. Charge(task[u[1]][u[2]]) >= 1
      BY <2>1, TaskIs
    <2> QED BY <2>1, <2>2 DEF Charged
  <1>5. ASSUME NEW u \in First, NEW v \in First, g[u] = g[v]
        PROVE  u = v
    <2>1. u = <<u[1], u[2], 1>> /\ v = <<v[1], v[2], 1>>
      BY DEF First, CommittedUnits, Units
    <2>2. u[1] = v[1] /\ u[2] = v[2]
      BY <1>5
    <2> QED BY <2>1, <2>2
  <1> HIDE DEF f, g
  <1>6. f \in Injection(Charged, First) /\ g \in Injection(First, Charged)
    BY <1>2, <1>3, <1>4, <1>5 DEF Injection, IsInjective
  <1>7. Cardinality(Charged) <= Cardinality(First)
    BY <1>1, <1>6, FS_Injection
  <1>8. Cardinality(First) <= Cardinality(Charged)
    BY <1>6, ChargedIsFinite, FS_Injection
  <1> QED BY <1>1, <1>7, <1>8, ChargedIsFinite

LEMMA AffordableIs ==
  ASSUME Types, Affordable
  PROVE  Cardinality(Charged) + 1 <= DailyBudget
  <1>1. Cardinality(First) <= Committed
    BY CommittedIsFinite, FS_Subset DEF First, Committed
  <1> QED BY <1>1, FirstUnits, ChargedIsFinite, CommittedIsFinite, BoundsAssumption
          DEF Affordable

\* Where no attempt is charged anew, or one while the budget has room, the
\* reservations fit.
LEMMA BudgetIsKept ==
  ASSUME ReservationsFit,
         \A r \in Runs, k \in Tries :
            Charge(task'[r][k]) >= 1 => Charge(task[r][k]) >= 1
  PROVE  ReservationsFit'
  <1>1. Charged' \subseteq Charged
    BY DEF Charged
  <1>2. Cardinality(Charged') <= Cardinality(Charged) /\ Cardinality(Charged') \in Nat
    BY <1>1, ChargedIsFinite, FS_Subset, FS_CardinalityType
  <1> QED BY <1>2, ChargedIsFinite, BoundsAssumption DEF ReservationsFit

LEMMA BudgetTakesOne ==
  ASSUME Types, Affordable, NEW x \in Runs, NEW y \in Tries,
         \A r \in Runs, k \in Tries : r # x \/ k # y => task'[r][k] = task[r][k]
  PROVE  ReservationsFit'
  <1>1. Charged' \subseteq Charged \cup {<<x, y>>}
    <2> SUFFICES ASSUME NEW t \in Charged', t # <<x, y>>
                 PROVE  t \in Charged
      OBVIOUS
    <2>1. t \in Runs \X Tries /\ Charge(task'[t[1]][t[2]]) >= 1
      BY DEF Charged
    <2>2. t[1] \in Runs /\ t[2] \in Tries /\ (t[1] # x \/ t[2] # y)
      BY <2>1
    <2>3. task'[t[1]][t[2]] = task[t[1]][t[2]]
      BY <2>2
    <2> QED BY <2>1, <2>3 DEF Charged
  <1>2. /\ IsFiniteSet(Charged \cup {<<x, y>>})
        /\ Cardinality(Charged \cup {<<x, y>>}) <= Cardinality(Charged) + 1
        /\ Cardinality(Charged \cup {<<x, y>>}) \in Nat
    <2> DEFINE C == Charged
    <2>1. IsFiniteSet(C) /\ Cardinality(C) \in Nat
      BY ChargedIsFinite
    <2> HIDE DEF C
    <2>2. /\ IsFiniteSet(C \cup {<<x, y>>})
          /\ Cardinality(C \cup {<<x, y>>}) = IF <<x, y>> \in C THEN Cardinality(C)
                                              ELSE Cardinality(C) + 1
      BY <2>1, FS_AddElement
    <2>3. /\ Cardinality(C \cup {<<x, y>>}) <= Cardinality(C) + 1
          /\ Cardinality(C \cup {<<x, y>>}) \in Nat
      BY <2>1, <2>2
    <2> QED BY <2>2, <2>3 DEF C
  <1>3. /\ Cardinality(Charged') <= Cardinality(Charged \cup {<<x, y>>})
        /\ Cardinality(Charged') \in Nat
    BY <1>1, <1>2, FS_Subset, FS_CardinalityType
  <1> QED BY <1>2, <1>3, AffordableIs, ChargedIsFinite, BoundsAssumption DEF ReservationsFit

\* What commands and recoveries do to an attempt: its call stays what it was,
\* and what it is charged changes only by becoming doubtful or reconciled.
Kept(t, u) ==
    /\ u.called = t.called /\ u.bill = t.bill
    /\ (u.status = "none") = (t.status = "none")
    /\ \/ /\ u.actual = t.actual /\ u.reconciled = t.reconciled
          /\ \/ u.cost = t.cost
             \/ t.cost = "reserved" /\ u.cost = "indeterminate"
       \/ t.cost = "indeterminate" /\ u.cost = "settled" /\ u.reconciled

LEMMA TasksAreKept ==
  ASSUME Types, Types', TaskInv, NeverBack,
         \A r \in Runs, k \in Tries : Kept(task[r][k], task'[r][k]),
         waiting' \subseteq waiting,
         \A r \in Runs, k \in Tries :
            <<r, k>> \in waiting' /\ task[r][k].cost = "reserved" => task'[r][k].cost = "reserved",
         AgentKnown'
  PROVE  TaskInv'
  <1>1. ASSUME NEW r \in Runs, NEW k \in Tries
        PROVE  /\ Charge(task'[r][k]) >= 1 => Charge(task[r][k]) >= 1
               /\ TaskKnown(r, k)'
               /\ task'[r][k].status # "none" => task[r][k].status # "none"
    <2> DEFINE t == task[r][k]
               u == task'[r][k]
    <2>1. TaskKnown(r, k) /\ Kept(t, u)
      BY DEF TaskInv
    <2>2. /\ t.actual \in Nat /\ t.bill \in Nat /\ u.actual \in Nat /\ u.bill \in Nat
          /\ t.cost \in {"none", "reserved", "settled", "indeterminate"}
          /\ u.cost \in {"none", "reserved", "settled", "indeterminate"}
      <3>1. t \in Task /\ u \in Task
        BY DEF Types
      <3> QED BY <3>1, BoundsAssumption DEF Task, Amounts
    <2>3. /\ Charge(u) >= 1 => Charge(t) >= 1
          /\ Accounted(t) => Accounted(u)
          /\ t.reconciled \/ t.actual <= 1 => u.reconciled \/ u.actual <= 1
      BY <2>1, <2>2 DEF Kept, Charge, Accounted
    <2>4. /\ approval[r] \notin {"none", "pending"} => approval'[r] \notin {"none", "pending"}
          /\ journal[r] # "none" => journal'[r] # "none"
      BY DEF NeverBack
    <2>5. (u.status = "none" <=> t.status = "none") /\ u.called = t.called
      BY <2>1 DEF Kept
    <2>6. <<r, k>> \in waiting' => <<r, k>> \in waiting /\ (t.cost = "reserved" => u.cost = "reserved")
      OBVIOUS
    <2> QED BY <2>1, <2>3, <2>4, <2>5, <2>6 DEF TaskKnown
  <1>2. OneSubmitted'
    BY <1>1 DEF TaskInv, OneSubmitted
  <1>3. ReservationsFit'
    BY <1>1, BudgetIsKept DEF TaskInv
  <1> QED BY <1>1, <1>2, <1>3 DEF TaskInv

LEMMA TasksAreLeft ==
  ASSUME Types, Types', TaskInv, NeverBack, task' = task, waiting' \subseteq waiting,
         AgentKnown'
  PROVE  TaskInv'
  <1>1. \A r \in Runs, k \in Tries : Kept(task[r][k], task'[r][k])
    BY DEF Kept
  <1> QED BY <1>1, TasksAreKept

\* One attempt changes.
LEMMA OneTaskChanges ==
  ASSUME Types, Types', TaskInv, NeverBack, NEW x \in Runs, NEW y \in Tries,
         \A r \in Runs, k \in Tries : r # x \/ k # y => task'[r][k] = task[r][k],
         TaskKnown(x, y)',
         \/ task[x][y].status # "none"
         \/ task'[x][y].status = "none"
         \/ \A k \in Tries : task[x][k].status = "none",
         \A t \in waiting' : t \in waiting \/ t = <<x, y>>,
         (Charge(task'[x][y]) >= 1 => Charge(task[x][y]) >= 1) \/ Affordable,
         AgentKnown'
  PROVE  TaskInv'
  <1>1. ASSUME NEW r \in Runs, NEW k \in Tries, <<r, k>> # <<x, y>>
        PROVE  TaskKnown(r, k)'
    <2>1. task'[r][k] = task[r][k] /\ TaskKnown(r, k)
      BY <1>1 DEF TaskInv
    <2>2. <<r, k>> \in waiting' => <<r, k>> \in waiting
      BY <1>1
    <2>3. /\ approval[r] \notin {"none", "pending"} => approval'[r] \notin {"none", "pending"}
          /\ journal[r] # "none" => journal'[r] # "none"
      BY DEF NeverBack
    <2> QED BY <2>1, <2>2, <2>3 DEF TaskKnown
  <1>2. \A r \in Runs, k \in Tries : TaskKnown(r, k)'
    BY <1>1
  <1>3. OneSubmitted'
    BY DEF TaskInv, OneSubmitted
  <1>4. ReservationsFit'
    <2>1. CASE Affordable
      BY <2>1, BudgetTakesOne
    <2>2. CASE Charge(task'[x][y]) >= 1 => Charge(task[x][y]) >= 1
      BY <2>2, BudgetIsKept DEF TaskInv
    <2> QED BY <2>1, <2>2
  <1> QED BY <1>2, <1>3, <1>4 DEF TaskInv

LEMMA LeavesKeepsTasks ==
  ASSUME Types, RunInv, TaskInv, NEW p \in Threads, Works(p), LeavesTasks(p)
  PROVE  TaskInv'
  <1>1. Types' /\ NeverBack /\ task' = task /\ waiting' = waiting
    BY WorksNeverBack DEF Works, WorkFrame, LeavesTasks
  <1>2. AgentKnown'
    <2>1. CASE p = Main
      BY <2>1 DEF LeavesTasks, AgentKnown
    <2>2. CASE p # Main
      <3>1. thread'[Main] = thread[Main]
        BY <2>2, MainIsAlone DEF Works, WorkFrame
      <3> QED BY <1>1, <3>1 DEF TaskInv, AgentKnown
    <2> QED BY <2>1, <2>2
  <1> QED BY <1>1, <1>2, TasksAreLeft

-----------------------------------------------------------------------------
\* The steps of the main thread on an Agent task.

LEMMA AgentIs ==
  ASSUME Types, ListenInv, RunInv, Agent.pc \in AgentPcs
  PROVE  /\ Main \in Threads /\ phase = "up" /\ Agent \in Thread
         /\ Agent.run \in Runs /\ Agent.step \in Tries /\ Agent.step \in Nat
         /\ journal[Agent.run] # "none" /\ approval[Agent.run] \notin {"none", "pending"}
  <1>1. Main \in Threads /\ Agent \in Thread /\ RunKnown(Main)
    BY MainIsAlone DEF Types, RunInv, Agent
  <1>2. phase = "up"
    BY <1>1, PhaseIsUp DEF AgentPcs, Agent
  <1>3. /\ Agent.run \in Runs /\ Agent.step \in Tries /\ journal[Agent.run] # "none"
        /\ approval[Agent.run] \notin {"none", "pending"}
    BY <1>1 DEF RunKnown, Agent, AgentPcs, Ashore
  <1> QED BY <1>1, <1>2, <1>3 DEF Thread

\* Where the main thread may come to.
AgentMoves ==
    /\ thread' \in [Threads -> Thread]
    /\ \A q \in Threads \ {Main} : thread'[q] = thread[q]
    /\ \/ /\ thread'[Main].run = Agent.run /\ thread'[Main].later = Agent.later
          /\ thread'[Main].pc \in AgentPcs \cup {"complete"}
          /\ Agent.later => thread'[Main].pc \in LaterPcs
          /\ \/ thread'[Main].step = Agent.step
             \/ Agent.step < MaxAttempts /\ thread'[Main].step = Agent.step + 1
       \/ /\ thread'[Main].pc = "idle" /\ thread'[Main].run = NoRun
          /\ thread'[Main].step = 0 /\ ~thread'[Main].later

LEMMA AgentGoes ==
  ASSUME Types, NEW pc \in AgentPcs \cup {"complete"}, Agent.later => pc \in LaterPcs,
         Goto(Main, pc)
  PROVE  /\ AgentMoves /\ thread'[Main].pc = pc /\ thread'[Main].run = Agent.run
         /\ thread'[Main].step = Agent.step
  <1>1. ThreadIs(Main, pc, Agent.run, Agent.step) /\ thread'[Main].later = Agent.later
    BY GotoIs, MainIsAlone DEF AgentPcs, Pcs, Agent
  <1> QED BY <1>1 DEF AgentMoves, ThreadIs

LEMMA AgentRetries ==
  ASSUME Types, Agent.pc \in AgentPcs, TransientFailure
  PROVE  AgentMoves /\ thread'[Main].pc \in {"failed", "reserve", "complete"}
  <1>1. CASE Agent.later
    <2>1. Goto(Main, "failed")
      BY <1>1 DEF TransientFailure
    <2> QED BY <2>1, AgentGoes DEF AgentPcs, LaterPcs
  <1>2. CASE ~Agent.later /\ Goto(Main, "complete")
    BY <1>2, AgentGoes
  <1>3. CASE /\ ~Agent.later /\ Agent.step < MaxAttempts
             /\ thread' = [thread EXCEPT ![Main].pc = "reserve", ![Main].step = @ + 1]
    <2>1. /\ ThreadIs(Main, "reserve", Agent.run, Agent.step + 1)
          /\ thread'[Main].later = Agent.later
      BY <1>3, SteppedIs, MainIsAlone DEF Pcs, Agent
    <2> QED BY <1>3, <2>1 DEF AgentMoves, ThreadIs, AgentPcs
  <1> QED BY <1>1, <1>2, <1>3 DEF TransientFailure

LEMMA AgentLeaves ==
  ASSUME Types, Leave
  PROVE  AgentMoves /\ thread'[Main].pc \in {"idle", "complete"}
  <1>1. CASE Agent.later
    <2>1. ThreadIs(Main, "idle", NoRun, 0) /\ ~thread'[Main].later
      BY <1>1, IdleIs, PutIs, MainIsAlone DEF Leave
    <2> QED BY <2>1 DEF AgentMoves, ThreadIs
  <1>2. CASE ~Agent.later
    BY <1>2, AgentGoes DEF Leave
  <1> QED BY <1>1, <1>2

LEMMA AgentWorks ==
  ASSUME Types, ListenInv, RunInv, Agent.pc \in AgentPcs, AgentMoves, AgentUnchanged,
         task' \in [Runs -> [Tries -> Task]], waiting' \subseteq Runs \X Tries,
         UNCHANGED revoked
  PROVE  Works(Main) /\ Types' /\ NeverBack
  <1>1. /\ UNCHANGED <<enabled, journal, lease, approval, phase, safe, cancelled, registered,
                       revoked>>
        /\ Main \in Threads /\ phase = "up"
    BY AgentIs DEF AgentUnchanged
  <1>2. Types'
    BY <1>1 DEF Types, AgentMoves
  <1>3. thread[Main].pc # "unused" /\ thread'[Main].pc # "unused"
    BY DEF Agent, AgentMoves, AgentPcs
  <1>4. WorkFrame(Main)
    BY <1>1, <1>2, <1>3 DEF WorkFrame, AgentMoves
  <1>5. Rests(Main) \/ Goes(Main)
    BY <1>1 DEF AgentMoves, Rests, Goes, Agent
  <1>6. Works(Main)
    BY <1>4, <1>5 DEF Works
  <1> QED BY <1>1, <1>2, <1>6, WorksNeverBack

LEMMA SetAttemptIs ==
  ASSUME Types, Agent.run \in Runs, Agent.step \in Tries, NEW u \in Task, SetAttempt(u)
  PROVE  /\ task' \in [Runs -> [Tries -> Task]]
         /\ task'[Agent.run][Agent.step] = u
         /\ \A r \in Runs, k \in Tries :
               r # Agent.run \/ k # Agent.step => task'[r][k] = task[r][k]
  <1>1. task \in [Runs -> [Tries -> Task]] /\ task[Agent.run] \in [Tries -> Task]
    BY DEF Types
  <1>2. task' = [task EXCEPT ![Agent.run] = [task[Agent.run] EXCEPT ![Agent.step] = u]]
    BY DEF SetAttempt
  <1> DEFINE row == [task[Agent.run] EXCEPT ![Agent.step] = u]
  <1>3. /\ row \in [Tries -> Task] /\ row[Agent.step] = u
        /\ \A k \in Tries \ {Agent.step} : row[k] = task[Agent.run][k]
    BY <1>1
  <1> HIDE DEF row
  <1>4. /\ task' \in [Runs -> [Tries -> Task]] /\ task'[Agent.run] = row
        /\ \A r \in Runs \ {Agent.run} : task'[r] = task[r]
    BY <1>1, <1>2, <1>3 DEF row
  <1> QED BY <1>3, <1>4

\* A new status of the attempt leaves its call and its charge alone.
LEMMA TransitionIs ==
  ASSUME Types, Agent.run \in Runs, Agent.step \in Tries,
         NEW status \in {"completed", "waiting", "failed"}, Transition(status)
  PROVE  /\ task' \in [Runs -> [Tries -> Task]]
         /\ \A r \in Runs, k \in Tries :
               Kept(task[r][k], task'[r][k]) /\ task'[r][k].cost = task[r][k].cost
  <1> DEFINE u == [Attempt EXCEPT !.status = status]
  <1>1. Attempt \in Task /\ Attempt.status \in Live
    BY DEF Types, Attempt, Transition
  <1>2. u \in Task
    BY <1>1 DEF Task, TaskStatus
  <1>3. Kept(Attempt, u) /\ u.cost = Attempt.cost
    BY <1>1 DEF Kept, Task, Live
  <1>4. SetAttempt(u)
    BY DEF Transition
  <1> HIDE DEF u
  <1>5. /\ task' \in [Runs -> [Tries -> Task]]
        /\ task'[Agent.run][Agent.step] = u
        /\ \A r \in Runs, k \in Tries :
              r # Agent.run \/ k # Agent.step => task'[r][k] = task[r][k]
    BY <1>2, <1>4, SetAttemptIs
  <1>6. \A t : Kept(t, t)
    BY DEF Kept
  <1> QED BY <1>3, <1>5, <1>6 DEF Attempt

\* The attempt the main thread is about, as the invariant knows it.
LEMMA AttemptIs ==
  ASSUME Types, ListenInv, RunInv, TaskInv, Agent.pc \in AgentPcs
  PROVE  /\ Attempt \in Task /\ Attempt.actual \in Nat /\ Attempt.bill \in Nat
         /\ Attempt.status # "none" => /\ approval[Agent.run] \notin {"none", "pending"}
                                       /\ journal[Agent.run] # "none"
         /\ Attempt.called => Attempt.status # "none" /\ Accounted(Attempt)
         /\ Attempt.reconciled \/ Attempt.actual <= 1
         /\ <<Agent.run, Agent.step>> \in waiting => Attempt.called /\ Attempt.cost = "reserved"
  BY AgentIs, TaskIs DEF TaskInv, TaskKnown, Attempt

\* Where the attempt is not touched and the main thread comes to no step of its
\* call.
LEMMA AgentPasses ==
  ASSUME Types, ListenInv, RunInv, TaskInv, Agent.pc \in AgentPcs, AgentMoves,
         AgentUnchanged, UNCHANGED <<task, waiting, revoked>>,
         \/ thread'[Main].pc \notin {"submit", "call", "settle", "doubt"}
         \/ /\ thread'[Main].pc = "doubt" /\ Agent.pc = "call"
            /\ thread'[Main].run = Agent.run /\ thread'[Main].step = Agent.step
  PROVE  Works(Main) /\ TaskInv'
  <1>1. Works(Main) /\ Types' /\ NeverBack
    BY AgentWorks DEF Types
  <1>2. AgentKnown'
    BY DEF AgentKnown, TaskInv, Agent
  <1> QED BY <1>1, <1>2, TasksAreLeft

\* Where the attempt becomes u, and its charge what it was or affordable.
LEMMA AgentSets ==
  ASSUME Types, ListenInv, RunInv, TaskInv, Agent.pc \in AgentPcs, AgentMoves,
         AgentUnchanged, NEW u \in Task, SetAttempt(u), UNCHANGED revoked,
         waiting' \subseteq Runs \X Tries,
         \A t \in waiting' : t \in waiting \/ t = <<Agent.run, Agent.step>>,
         \/ Attempt.status # "none"
         \/ u.status = "none"
         \/ \A k \in Tries : task[Agent.run][k].status = "none",
         u.called => u.status # "none" /\ Accounted(u),
         u.reconciled \/ u.actual <= 1,
         <<Agent.run, Agent.step>> \in waiting' => u.called /\ u.cost = "reserved",
         (Charge(u) >= 1 => Charge(Attempt) >= 1) \/ Affordable,
         AgentKnown'
  PROVE  Works(Main) /\ TaskInv'
  <1>1. PICK x \in Runs, y \in Tries :
           /\ x = Agent.run /\ y = Agent.step
           /\ journal[x] # "none" /\ approval[x] \notin {"none", "pending"}
    BY AgentIs
  <1>2. /\ task' \in [Runs -> [Tries -> Task]] /\ task'[x][y] = u
        /\ \A r \in Runs, k \in Tries : r # x \/ k # y => task'[r][k] = task[r][k]
    BY <1>1, SetAttemptIs
  <1>3. Works(Main) /\ Types' /\ NeverBack
    BY <1>2, AgentWorks
  <1>4. journal' = journal /\ approval' = approval
    BY DEF AgentUnchanged
  <1>5. TaskKnown(x, y)'
    BY <1>1, <1>2, <1>4 DEF TaskKnown
  <1>6. task[x][y] = Attempt
    BY <1>1 DEF Attempt
  <1>7. /\ task[x][y].status # "none" \/ task'[x][y].status = "none"
           \/ \A k \in Tries : task[x][k].status = "none"
        /\ \A t \in waiting' : t \in waiting \/ t = <<x, y>>
        /\ (Charge(task'[x][y]) >= 1 => Charge(task[x][y]) >= 1) \/ Affordable
    BY <1>1, <1>2, <1>6
  <1>8. TaskInv'
    BY <1>2, <1>3, <1>5, <1>7, OneTaskChanges
  <1> QED BY <1>3, <1>8

LEMMA ReserveWorks ==
  ASSUME Types, ListenInv, RunInv, TaskInv, Reserve
  PROVE  Works(Main) /\ TaskInv'
  <1>1. /\ Agent.pc = "reserve" /\ Agent.pc \in AgentPcs /\ AgentUnchanged
        /\ UNCHANGED <<waiting, revoked>>
    BY DEF Reserve, AgentPcs
  <1>2. ~Agent.later
    <2>1. RunKnown(Main)
      BY MainIsAlone DEF RunInv
    <2> QED BY <1>1, <2>1 DEF RunKnown, Agent, LaterPcs
  <1>3. CASE Goto(Main, "complete") /\ UNCHANGED task
    <2>1. AgentMoves /\ thread'[Main].pc = "complete"
      BY <1>2, <1>3, AgentGoes
    <2> QED BY <1>1, <1>3, <2>1, AgentPasses
  <1>4. CASE /\ Prior(Agent.run) = {} /\ Affordable
             /\ SetAttempt([Attempt EXCEPT !.cost = "reserved"])
             /\ Goto(Main, "submit")
    <2> DEFINE u == [Attempt EXCEPT !.cost = "reserved"]
    <2>1. /\ AgentMoves /\ thread'[Main].pc = "submit" /\ thread'[Main].run = Agent.run
          /\ thread'[Main].step = Agent.step
      BY <1>2, <1>4, AgentGoes DEF AgentPcs
    <2>2. \A k \in Tries : task[Agent.run][k].status = "none"
      BY <1>4 DEF Prior
    <2>3. /\ Agent.run \in Runs /\ Agent.step \in Tries
      BY <1>1, AgentIs
    <2>4. /\ Attempt \in Task /\ Attempt.status = "none" /\ ~Attempt.called
          /\ Attempt.reconciled \/ Attempt.actual <= 1
          /\ <<Agent.run, Agent.step>> \notin waiting
      BY <1>1, <2>2, <2>3, AttemptIs DEF Attempt
    <2>5. /\ u \in Task /\ u.cost = "reserved" /\ u.status = "none" /\ ~u.called
          /\ u.reconciled \/ u.actual <= 1
      BY <2>4 DEF Task
    <2>6. SetAttempt(u)
      BY <1>4
    <2> HIDE DEF u
    <2>7. /\ task'[Agent.run][Agent.step] = u
          /\ \A r \in Runs, k \in Tries :
                r # Agent.run \/ k # Agent.step => task'[r][k] = task[r][k]
      BY <2>3, <2>5, <2>6, SetAttemptIs
    <2>8. \A k \in Tries : task'[Agent.run][k].status = "none"
      BY <2>2, <2>3, <2>5, <2>7
    <2>9. AgentKnown'
      BY <2>1, <2>5, <2>7, <2>8 DEF AgentKnown
    <2> QED BY <1>1, <1>4, <2>1, <2>4, <2>5, <2>6, <2>9, AgentSets DEF Types
  <1> QED BY <1>3, <1>4 DEF Reserve

LEMMA SubmitWorks ==
  ASSUME Types, ListenInv, RunInv, TaskInv, Submit
  PROVE  Works(Main) /\ TaskInv'
  <1>1. /\ Agent.pc = "submit" /\ Agent.pc \in AgentPcs /\ AgentUnchanged
        /\ UNCHANGED <<waiting, revoked>>
    BY DEF Submit, AgentPcs
  <1>2. Agent.run \in Runs /\ Agent.step \in Tries
    BY <1>1, AgentIs
  <1>3. Attempt.cost = "reserved" /\ \A k \in Tries : task[Agent.run][k].status = "none"
    BY <1>1 DEF TaskInv, AgentKnown, Agent, Attempt
  <1>4. /\ Attempt \in Task /\ Attempt.status = "none" /\ ~Attempt.called
        /\ Attempt.actual \in Nat /\ (Attempt.reconciled \/ Attempt.actual <= 1)
        /\ <<Agent.run, Agent.step>> \notin waiting
    BY <1>1, <1>2, <1>3, AttemptIs DEF Attempt
  <1>5. CASE SetAttempt([Attempt EXCEPT !.status = "submitted"]) /\ Goto(Main, "call")
    <2> DEFINE u == [Attempt EXCEPT !.status = "submitted"]
    <2>1. /\ AgentMoves /\ thread'[Main].pc = "call" /\ thread'[Main].run = Agent.run
          /\ thread'[Main].step = Agent.step
      BY <1>5, AgentGoes DEF AgentPcs, LaterPcs
    <2>2. /\ u \in Task /\ u.cost = "reserved" /\ u.status = "submitted" /\ ~u.called
          /\ u.reconciled \/ u.actual <= 1
      BY <1>3, <1>4 DEF Task, TaskStatus
    <2>3. SetAttempt(u)
      BY <1>5
    <2>4. Charge(u) >= 1 => Charge(Attempt) >= 1
      BY <1>3 DEF Charge
    <2> HIDE DEF u
    <2>5. task'[Agent.run][Agent.step] = u
      BY <1>2, <2>2, <2>3, SetAttemptIs
    <2>6. AgentKnown'
      BY <1>1, <1>4, <2>1, <2>2, <2>5 DEF AgentKnown
    <2> QED BY <1>1, <1>3, <1>4, <2>1, <2>2, <2>3, <2>4, <2>6, AgentSets DEF Types
  <1>6. CASE TransientFailure /\ SetAttempt([Attempt EXCEPT !.cost = "settled"])
    <2> DEFINE u == [Attempt EXCEPT !.cost = "settled"]
    <2>1. AgentMoves /\ thread'[Main].pc \in {"failed", "reserve", "complete"}
      BY <1>1, <1>6, AgentRetries
    <2>2. u \in Task /\ u.status = "none" /\ ~u.called /\ (u.reconciled \/ u.actual <= 1)
      BY <1>4 DEF Task
    <2>3. SetAttempt(u)
      BY <1>6
    <2>4. Charge(u) >= 1 => Charge(Attempt) >= 1
      BY <1>3 DEF Charge
    <2> HIDE DEF u
    <2>5. AgentKnown'
      BY <2>1 DEF AgentKnown
    <2> QED BY <1>1, <1>4, <2>1, <2>2, <2>3, <2>4, <2>5, AgentSets DEF Types
  <1>7. CASE TransientFailure /\ UNCHANGED task
    <2>1. AgentMoves /\ thread'[Main].pc \in {"failed", "reserve", "complete"}
      BY <1>1, <1>7, AgentRetries
    <2> QED BY <1>1, <1>7, <2>1, AgentPasses
  <1> QED BY <1>5, <1>6, <1>7 DEF Submit

LEMMA CallWorks ==
  ASSUME Types, ListenInv, RunInv, TaskInv, Call
  PROVE  Works(Main) /\ TaskInv'
  <1> DEFINE t == <<Agent.run, Agent.step>>
  <1>1. /\ Agent.pc = "call" /\ Agent.pc \in AgentPcs /\ AgentUnchanged /\ UNCHANGED revoked
    BY DEF Call, AgentPcs
  <1>2. Agent.run \in Runs /\ Agent.step \in Tries
    BY <1>1, AgentIs
  <1>3. Attempt.cost = "reserved" /\ Attempt.status # "none" /\ t \notin waiting
    BY <1>1 DEF TaskInv, AgentKnown, Agent, Attempt
  <1>4. /\ Attempt \in Task /\ Attempt.bill \in Nat
        /\ Attempt.reconciled \/ Attempt.actual <= 1
    BY <1>1, AttemptIs
  <1>5. PICK pc \in {"settle", "suspend", "failed", "doubt"} :
           /\ Goto(Main, pc)
           /\ Agent.later => pc \in LaterPcs
           /\ \/ /\ \E bill \in Attempt.bill..MaxAmount :
                       SetAttempt([Attempt EXCEPT !.called = TRUE, !.bill = bill])
                 /\ IF pc = "suspend" THEN waiting' = waiting \cup {t} ELSE UNCHANGED waiting
              \/ pc \in {"failed", "doubt"} /\ UNCHANGED <<task, waiting>>
    BY DEF Call, LaterPcs
  <1>6. /\ AgentMoves /\ thread'[Main].pc = pc /\ thread'[Main].run = Agent.run
        /\ thread'[Main].step = Agent.step
    BY <1>5, AgentGoes DEF AgentPcs
  <1>7. CASE /\ \E bill \in Attempt.bill..MaxAmount :
                   SetAttempt([Attempt EXCEPT !.called = TRUE, !.bill = bill])
             /\ IF pc = "suspend" THEN waiting' = waiting \cup {t} ELSE UNCHANGED waiting
    <2>0. \A bill \in Attempt.bill..MaxAmount : bill \in Amounts
      BY <1>4, BoundsAssumption DEF Amounts
    <2>1. PICK bill \in Amounts : SetAttempt([Attempt EXCEPT !.called = TRUE, !.bill = bill])
      BY <1>7, <2>0, Zenon
    <2> DEFINE u == [Attempt EXCEPT !.called = TRUE, !.bill = bill]
    <2>2. u \in Task
      BY <1>4 DEF Task
    <2>3. /\ u.called /\ u.status = Attempt.status /\ u.cost = "reserved" /\ Accounted(u)
          /\ u.reconciled \/ u.actual <= 1
          /\ Charge(u) >= 1 => Charge(Attempt) >= 1
      BY <1>3, <1>4 DEF Task, Charge, Accounted
    <2>4. SetAttempt(u)
      BY <2>1
    <2> HIDE DEF u
    <2>5. /\ waiting' \subseteq Runs \X Tries
          /\ \A w \in waiting' : w \in waiting \/ w = t
          /\ pc # "suspend" => t \notin waiting'
      BY <1>2, <1>3, <1>7 DEF Types
    <2>6. AgentKnown'
      BY <1>5, <1>6, <2>5 DEF AgentKnown
    <2> QED BY <1>1, <1>3, <1>6, <2>2, <2>3, <2>4, <2>5, <2>6, AgentSets
  <1>8. CASE pc \in {"failed", "doubt"} /\ UNCHANGED <<task, waiting>>
    BY <1>1, <1>6, <1>8, AgentPasses
  <1> QED BY <1>5, <1>7, <1>8

LEMMA SettleWorks ==
  ASSUME Types, ListenInv, RunInv, TaskInv, Settle
  PROVE  Works(Main) /\ TaskInv'
  <1>1. /\ Agent.pc = "settle" /\ Agent.pc \in AgentPcs /\ AgentUnchanged
        /\ UNCHANGED <<waiting, revoked>>
    BY DEF Settle, AgentPcs
  <1>2. <<Agent.run, Agent.step>> \notin waiting
    BY <1>1 DEF TaskInv, AgentKnown, Agent
  <1>3. /\ Attempt \in Task /\ Attempt.bill \in Nat
        /\ Attempt.called => Attempt.status # "none"
        /\ Attempt.reconciled \/ Attempt.actual <= 1
    BY <1>1, AttemptIs
  <1>4. CASE /\ Attempt.cost = "reserved" /\ Attempt.bill <= 1
             /\ SetAttempt(SettledAt(Attempt, Attempt.bill))
             /\ Goto(Main, "completed")
    <2> DEFINE u == SettledAt(Attempt, Attempt.bill)
    <2>1. AgentMoves /\ thread'[Main].pc = "completed"
      BY <1>4, AgentGoes DEF AgentPcs, LaterPcs
    <2>2. u \in Task
      BY <1>3 DEF Task, SettledAt
    <2>3. u.status = Attempt.status /\ u.called = Attempt.called
      BY <1>3 DEF Task, SettledAt
    <2>4. /\ Accounted(u) /\ u.actual <= 1
          /\ Charge(u) >= 1 => Charge(Attempt) >= 1
      BY <1>3, <1>4 DEF Task, SettledAt, Charge, Accounted
    <2>5. SetAttempt(u)
      BY <1>4
    <2> HIDE DEF u
    <2>6. AgentKnown'
      BY <2>1 DEF AgentKnown
    <2> QED BY <1>1, <1>2, <1>3, <2>1, <2>2, <2>3, <2>4, <2>5, <2>6, AgentSets DEF Types
  <1>5. CASE TransientFailure /\ UNCHANGED task
    <2>1. AgentMoves /\ thread'[Main].pc \in {"failed", "reserve", "complete"}
      BY <1>1, <1>5, AgentRetries
    <2> QED BY <1>1, <1>5, <2>1, AgentPasses
  <1> QED BY <1>4, <1>5 DEF Settle

LEMMA DoubtWorks ==
  ASSUME Types, ListenInv, RunInv, TaskInv, Doubt
  PROVE  Works(Main) /\ TaskInv'
  <1>1. /\ Agent.pc = "doubt" /\ Agent.pc \in AgentPcs /\ AgentUnchanged
        /\ UNCHANGED <<waiting, revoked>>
    BY DEF Doubt, AgentPcs
  <1>2. <<Agent.run, Agent.step>> \notin waiting
    BY <1>1 DEF TaskInv, AgentKnown, Agent
  <1>3. /\ Attempt \in Task /\ Attempt.bill \in Nat
        /\ Attempt.called => Attempt.status # "none"
        /\ Attempt.reconciled \/ Attempt.actual <= 1
    BY <1>1, AttemptIs
  <1>4. CASE /\ Attempt.cost = "reserved" /\ SetAttempt(Doubtful(Attempt))
             /\ Goto(Main, "failed")
    <2> DEFINE u == Doubtful(Attempt)
    <2>1. AgentMoves /\ thread'[Main].pc = "failed"
      BY <1>4, AgentGoes DEF AgentPcs, LaterPcs
    <2>2. u \in Task
      BY <1>3 DEF Task, Doubtful
    <2>3. u.status = Attempt.status /\ u.called = Attempt.called
      BY <1>3 DEF Task, Doubtful
    <2>4. /\ Accounted(u) /\ (u.reconciled \/ u.actual <= 1)
          /\ Charge(u) >= 1 => Charge(Attempt) >= 1
      BY <1>3, <1>4 DEF Task, Doubtful, Charge, Accounted
    <2>5. SetAttempt(u)
      BY <1>4
    <2> HIDE DEF u
    <2>6. AgentKnown'
      BY <2>1 DEF AgentKnown
    <2> QED BY <1>1, <1>2, <1>3, <2>1, <2>2, <2>3, <2>4, <2>5, <2>6, AgentSets DEF Types
  <1>5. CASE TransientFailure /\ UNCHANGED task
    <2>1. AgentMoves /\ thread'[Main].pc \in {"failed", "reserve", "complete"}
      BY <1>1, <1>5, AgentRetries
    <2> QED BY <1>1, <1>5, <2>1, AgentPasses
  <1> QED BY <1>4, <1>5 DEF Doubt

\* The outcome of the task is journalled.
LEMMA TransitionWorks ==
  ASSUME Types, ListenInv, RunInv, TaskInv, Agent.pc \in AgentPcs, AgentUnchanged,
         UNCHANGED <<waiting, revoked>>,
         NEW status \in {"completed", "waiting", "failed"}, Transition(status), Leave
  PROVE  Works(Main) /\ TaskInv'
  <1>1. Agent.run \in Runs /\ Agent.step \in Tries
    BY AgentIs
  <1>2. /\ task' \in [Runs -> [Tries -> Task]]
        /\ \A r \in Runs, k \in Tries :
              Kept(task[r][k], task'[r][k]) /\ task'[r][k].cost = task[r][k].cost
    BY <1>1, TransitionIs
  <1>3. AgentMoves /\ thread'[Main].pc \in {"idle", "complete"}
    BY AgentLeaves
  <1>4. Works(Main) /\ Types' /\ NeverBack
    BY <1>2, <1>3, AgentWorks DEF Types
  <1>5. AgentKnown'
    BY <1>3 DEF AgentKnown
  <1> QED BY <1>2, <1>4, <1>5, TasksAreKept

LEMMA RecordWorks ==
  ASSUME Types, ListenInv, RunInv, TaskInv, Record \/ Failed
  PROVE  Works(Main) /\ TaskInv'
  <1>1. /\ Agent.pc \in {"completed", "suspend", "failed"} /\ Agent.pc \in AgentPcs
        /\ AgentUnchanged /\ UNCHANGED <<waiting, revoked>>
    BY DEF Record, Failed, AgentPcs
  <1>2. CASE \E status \in {"completed", "waiting", "failed"} : Transition(status) /\ Leave
    BY <1>1, <1>2, TransitionWorks
  <1>3. CASE TransientFailure /\ UNCHANGED task
    <2>1. AgentMoves /\ thread'[Main].pc \in {"failed", "reserve", "complete"}
      BY <1>1, <1>3, AgentRetries
    <2> QED BY <1>1, <1>3, <2>1, AgentPasses
  <1>4. CASE Leave /\ UNCHANGED task
    <2>1. AgentMoves /\ thread'[Main].pc \in {"idle", "complete"}
      BY <1>4, AgentLeaves
    <2> QED BY <1>1, <1>4, <2>1, AgentPasses
  <1> QED BY <1>2, <1>3, <1>4 DEF Record, Failed

-----------------------------------------------------------------------------
\* Commands and recoveries.  Most start and stop threads between two runs and
\* leave the runs alone.

NoWork(t) == t.pc \in Ashore /\ t.run = NoRun /\ t.step = 0 /\ ~t.later

Resets ==
    /\ Types'
    /\ \A p \in Threads : thread'[p] = thread[p] \/ NoWork(thread'[p])
    /\ UNCHANGED approval
    /\ \A r \in Runs : (journal'[r] = "none") <=> (journal[r] = "none")
    /\ lease' \subseteq lease

LEMMA ResetsKeepsRuns ==
  ASSUME RunInv, Resets
  PROVE  RunInv' /\ NeverBack
  <1>1. ASSUME NEW p \in Threads PROVE RunKnown(p)'
    <2>1. CASE NoWork(thread'[p])
      BY <2>1, BoundsAssumption DEF NoWork, RunKnown, Ashore, RunPcs, AgentPcs
    <2>2. CASE thread'[p] = thread[p]
      <3>1. RunKnown(p)
        BY DEF RunInv
      <3>2. CASE thread[p].run = NoRun
        <4>1. thread[p].pc \in Ashore
          BY <3>2, CarriedRuns
        <4> QED BY <2>2, <3>1, <3>2, <4>1 DEF RunKnown, Ashore, AgentPcs, RunPcs, LaterPcs
      <3>3. CASE thread[p].run # NoRun
        <4>1. thread[p].run \in Runs
          BY <3>3, CarriedRuns
        <4>2. /\ (journal'[thread[p].run] = "none") <=> (journal[thread[p].run] = "none")
              /\ approval' = approval
          BY <4>1 DEF Resets
        <4> QED BY <2>2, <3>1, <4>2 DEF RunKnown
      <3> QED BY <3>2, <3>3
    <2> QED BY <2>1, <2>2 DEF Resets
  <1>2. RunsAreApart'
    BY DEF RunInv, RunsAreApart, Resets, NoWork
  <1>3. PendingIsUntouched'
    BY BoundsAssumption DEF RunInv, PendingIsUntouched, Resets, NoWork
  <1>4. LeaseIsOne'
    BY DEF RunInv, LeaseIsOne, Resets
  <1>5. NeverBack
    BY DEF NeverBack, Resets
  <1> QED BY <1>1, <1>2, <1>3, <1>4, <1>5 DEF RunInv

\* While no thread carries a run, what the approvals become is of no concern
\* to the threads.
LEMMA IdleKeepsRuns ==
  ASSUME \A p \in Threads : NoWork(thread'[p]),
         \A r \in Runs : approval'[r] = "pending" => journal'[r] = "none",
         LeaseIsOne'
  PROVE  RunInv'
  <1>1. ASSUME NEW p \in Threads PROVE RunKnown(p)'
    BY BoundsAssumption DEF NoWork, RunKnown, Ashore, RunPcs, AgentPcs
  <1>2. RunsAreApart'
    BY DEF RunsAreApart, NoWork
  <1>3. PendingIsUntouched'
    BY BoundsAssumption DEF PendingIsUntouched, NoWork
  <1> QED BY <1>1, <1>2, <1>3 DEF RunInv

LEMMA ResetsKeepsTasks ==
  ASSUME Types, RunInv, TaskInv, Resets,
         \A r \in Runs, k \in Tries : Kept(task[r][k], task'[r][k]),
         waiting' \subseteq waiting,
         \A r \in Runs, k \in Tries :
            <<r, k>> \in waiting' /\ task[r][k].cost = "reserved" => task'[r][k].cost = "reserved",
         thread[Main].pc \in Ashore
  PROVE  TaskInv'
  <1>1. thread'[Main].pc \in Ashore
    BY MainIsAlone DEF Resets, NoWork
  <1>2. AgentKnown'
    BY <1>1 DEF AgentKnown, Ashore
  <1> QED BY <1>2, ResetsKeepsRuns, TasksAreKept DEF Resets

LEMMA ResetsLeavesTasks ==
  ASSUME Types, RunInv, TaskInv, Resets, task' = task, waiting' \subseteq waiting,
         thread[Main].pc \in Ashore
  PROVE  TaskInv'
  <1>1. \A r \in Runs, k \in Tries : Kept(task[r][k], task'[r][k])
    BY DEF Kept
  <1> QED BY <1>1, ResetsKeepsTasks

\* Stopping the registered thread leaves nobody who listens; a new one is
\* registered.
LEMMA RelistenIs ==
  ASSUME Types, ListenInv, NEW start \in BOOLEAN, Relisten(start)
  PROVE  /\ thread' \in [Threads -> Thread]
         /\ \A p \in Threads : thread'[p] = thread[p] \/ NoWork(thread'[p])
         /\ thread'[Main] = thread[Main]
         /\ cancelled' \subseteq Sessions /\ registered' \in Sessions \cup {Nobody}
         /\ \A s \in Sessions : Alive(s)' /\ s \notin cancelled' => start /\ registered' = s
  <1>1. cancelled' = Stopped /\ Stopped \subseteq Sessions /\ cancelled \subseteq Stopped
    BY DEF Relisten, Stopped, Types
  <1>2. \A s \in Sessions : Alive(s) => s \in Stopped
    BY BoundsAssumption DEF Stopped, ListenInv, ListenersAreControlled
  <1>3. CASE start
    <2>1. PICK s \in Free : registered' = s /\ thread' = [thread EXCEPT ![s] = Idle]
      BY <1>3 DEF Relisten
    <2>2. s \in Sessions /\ s \in Threads /\ s # Main
      BY MainIsAlone DEF Free
    <2>3. ThreadIs(s, "idle", NoRun, 0) /\ thread'[s] = Idle
      BY <2>1, <2>2, IdleIs, PutIs
    <2>4. NoWork(thread'[s])
      BY <2>3, IdleIs DEF NoWork, Ashore
    <2>5. \A q \in Threads \ {s} : thread'[q] = thread[q]
      BY <2>3 DEF ThreadIs
    <2>6. \A q \in Sessions : Alive(q)' /\ q \notin cancelled' => q = s
      BY <1>1, <1>2, <2>5, MainIsAlone DEF Alive
    <2> QED BY <1>1, <1>3, <2>1, <2>2, <2>3, <2>4, <2>5, <2>6, MainIsAlone DEF ThreadIs
  <1>4. CASE ~start
    <2>1. registered' = Nobody /\ thread' = thread
      BY <1>4 DEF Relisten
    <2>2. \A q \in Sessions : Alive(q)' => q \in cancelled'
      BY <1>1, <1>2, <2>1 DEF Alive
    <2> QED BY <1>1, <2>1, <2>2 DEF Types
  <1> QED BY <1>3, <1>4

LEMMA RelistenResets ==
  ASSUME Types, ListenInv, MainIdle, NEW start \in BOOLEAN, Relisten(start),
         start => enabled' /\ ~safe', CommandUnchanged, UNCHANGED approval,
         enabled' \in BOOLEAN, safe' \in BOOLEAN, task' \in [Runs -> [Tries -> Task]],
         waiting' \subseteq Runs \X Tries, revoked' \subseteq Runs \X Tries
  PROVE  Resets /\ ListenInv' /\ thread[Main].pc \in Ashore
  <1>1. /\ thread' \in [Threads -> Thread]
        /\ \A p \in Threads : thread'[p] = thread[p] \/ NoWork(thread'[p])
        /\ cancelled' \subseteq Sessions /\ registered' \in Sessions \cup {Nobody}
        /\ \A s \in Sessions : Alive(s)' /\ s \notin cancelled' => start /\ registered' = s
    BY RelistenIs
  <1>2. phase = "up" /\ UNCHANGED <<journal, lease, phase>> /\ thread[Main].pc = "idle"
    BY DEF MainIdle, CommandUnchanged
  <1>3. Types'
    <2>1. enabled' \in BOOLEAN /\ safe' \in BOOLEAN
      OBVIOUS
    <2>2. journal' \in [Runs -> Journal] /\ lease' \subseteq Runs /\ phase' \in Phase
          /\ approval' \in [Runs -> Approval]
      BY <1>2 DEF Types
    <2> QED BY <1>1, <2>1, <2>2 DEF Types
  <1>4. Resets
    BY <1>1, <1>2, <1>3 DEF Resets
  <1>5. ListenersAreControlled'
    BY <1>1 DEF ListenersAreControlled
  <1>6. Quiet'
    BY <1>2 DEF Quiet
  <1> QED BY <1>2, <1>4, <1>5, <1>6 DEF ListenInv, Ashore

\* Nothing but tokens and rows of tasks changes.
LEMMA RestingResets ==
  ASSUME Types, ListenInv, MainIdle, CommandUnchanged,
         UNCHANGED <<enabled, approval, safe, thread, registered>>,
         cancelled \subseteq cancelled', cancelled' \subseteq Sessions,
         task' \in [Runs -> [Tries -> Task]],
         waiting' \subseteq Runs \X Tries, revoked' \subseteq Runs \X Tries
  PROVE  Resets /\ ListenInv' /\ thread[Main].pc \in Ashore
  <1>1. phase = "up" /\ UNCHANGED <<journal, lease, phase>> /\ thread[Main].pc = "idle"
    BY DEF MainIdle, CommandUnchanged
  <1>2. Types'
    BY <1>1 DEF Types
  <1>3. Resets
    BY <1>1, <1>2 DEF Resets
  <1>4. ListenInv'
    BY <1>1 DEF ListenInv, Quiet, ListenersAreControlled, Alive
  <1> QED BY <1>1, <1>3, <1>4 DEF Ashore

LEMMA CancelTasksIs ==
  ASSUME Types, NEW tasks \in SUBSET (Runs \X Tries), CancelTasks(tasks)
  PROVE  /\ revoked' \subseteq Runs \X Tries /\ task' \in [Runs -> [Tries -> Task]]
         /\ \A r \in Runs, k \in Tries :
               Kept(task[r][k], task'[r][k]) /\ task'[r][k].cost = task[r][k].cost
  <1>1. revoked' \subseteq Runs \X Tries
    BY DEF Types, CancelTasks
  <1>2. CASE task' = task
    BY <1>1, <1>2 DEF Types, Kept
  <1>3. CASE task' = [r \in Runs |-> [k \in Tries |->
                IF <<r, k>> \in tasks /\ task[r][k].status \in Live
                THEN [task[r][k] EXCEPT !.status = "cancelled"] ELSE task[r][k]]]
    <2>1. ASSUME NEW r \in Runs, NEW k \in Tries
          PROVE  /\ task'[r][k] \in Task
                 /\ Kept(task[r][k], task'[r][k]) /\ task'[r][k].cost = task[r][k].cost
      <3>1. task[r][k] \in Task
        BY DEF Types
      <3>2. CASE task'[r][k] = task[r][k]
        BY <3>1, <3>2 DEF Kept
      <3>3. CASE /\ task[r][k].status \in Live
                 /\ task'[r][k] = [task[r][k] EXCEPT !.status = "cancelled"]
        <4> DEFINE u == [task[r][k] EXCEPT !.status = "cancelled"]
        <4>1. u \in Task
          BY <3>1 DEF Task, TaskStatus
        <4>2. Kept(task[r][k], u) /\ u.cost = task[r][k].cost
          BY <3>1, <3>3 DEF Task, Kept, Live
        <4> QED BY <3>3, <4>1, <4>2
      <3> QED BY <1>3, <3>2, <3>3
    <2>2. task' \in [Runs -> [Tries -> Task]]
      BY <1>3, <2>1
    <2> QED BY <1>1, <2>1, <2>2
  <1> QED BY <1>2, <1>3 DEF CancelTasks

\* The invariant.
AutomationInv == Types /\ ListenInv /\ RunInv /\ TaskInv

LEMMA SetEnabledKeeps ==
  ASSUME AutomationInv, NEW on \in BOOLEAN, SetEnabled(on)
  PROVE  AutomationInv'
  <1>1. /\ Types /\ ListenInv /\ RunInv /\ TaskInv /\ MainIdle /\ CommandUnchanged
        /\ UNCHANGED <<approval, task, safe, waiting, revoked>> /\ ~safe
    BY DEF AutomationInv, SetEnabled
  <1>2. PICK start \in BOOLEAN : Relisten(start) /\ (start => enabled') /\ enabled' \in BOOLEAN
    <2>1. enabled \in BOOLEAN
      BY <1>1 DEF Types
    <2>2. CASE enabled' = on /\ Relisten(on)
      <3>1. on => enabled'
        BY <2>2, Zenon
      <3> QED BY <2>2, <3>1, Zenon
    <2>3. CASE Relisten(FALSE) /\ enabled' \in BOOLEAN
      BY <2>3, Zenon
    <2>4. \/ enabled' = on /\ Relisten(on)
          \/ Relisten(FALSE) /\ enabled' \in BOOLEAN
      BY <2>1 DEF SetEnabled
    <2> QED BY <2>2, <2>3, <2>4
  <1>3. ~safe' /\ safe' \in BOOLEAN
    BY <1>1 DEF Types
  <1>4. Resets /\ ListenInv' /\ thread[Main].pc \in Ashore
    BY <1>1, <1>2, <1>3, RelistenResets DEF Types
  <1> QED BY <1>1, <1>4, ResetsKeepsRuns, ResetsLeavesTasks DEF AutomationInv, Resets

LEMMA ReplaceDefinitionKeeps ==
  ASSUME AutomationInv, ReplaceDefinition
  PROVE  AutomationInv'
  <1>1. /\ Types /\ ListenInv /\ RunInv /\ TaskInv /\ MainIdle /\ CommandUnchanged
        /\ UNCHANGED <<approval, task, safe, waiting, revoked>> /\ Relisten(FALSE)
    BY DEF AutomationInv, ReplaceDefinition
  <1>2. enabled' \in BOOLEAN /\ safe' \in BOOLEAN
    BY <1>1 DEF Types, ReplaceDefinition
  <1>3. Resets /\ ListenInv' /\ thread[Main].pc \in Ashore
    BY <1>1, <1>2, RelistenResets DEF Types
  <1> QED BY <1>1, <1>3, ResetsKeepsRuns, ResetsLeavesTasks DEF AutomationInv, Resets

LEMMA EnterSafeKeeps ==
  ASSUME AutomationInv, EnterSafe
  PROVE  AutomationInv'
  <1>1. /\ Types /\ ListenInv /\ RunInv /\ TaskInv /\ MainIdle /\ CommandUnchanged
        /\ UNCHANGED <<enabled, approval>> /\ Relisten(FALSE) /\ waiting' = {}
        /\ CancelTasks(waiting) /\ safe' = TRUE
    BY DEF AutomationInv, EnterSafe
  <1>2. enabled' \in BOOLEAN /\ safe' \in BOOLEAN /\ waiting \in SUBSET (Runs \X Tries)
    BY <1>1 DEF Types
  <1>3. /\ revoked' \subseteq Runs \X Tries /\ task' \in [Runs -> [Tries -> Task]]
        /\ \A r \in Runs, k \in Tries :
              Kept(task[r][k], task'[r][k]) /\ task'[r][k].cost = task[r][k].cost
    BY <1>1, <1>2, CancelTasksIs
  <1>4. Resets /\ ListenInv' /\ thread[Main].pc \in Ashore
    BY <1>1, <1>2, <1>3, RelistenResets
  <1> QED BY <1>1, <1>3, <1>4, ResetsKeepsRuns, ResetsKeepsTasks DEF AutomationInv, Resets

LEMMA ExitSafeKeeps ==
  ASSUME AutomationInv, ExitSafe
  PROVE  AutomationInv'
  <1>1. /\ Types /\ ListenInv /\ RunInv /\ TaskInv /\ MainIdle /\ CommandUnchanged
        /\ UNCHANGED <<enabled, approval, task, waiting, revoked>> /\ Relisten(enabled)
        /\ safe' = FALSE
    BY DEF AutomationInv, ExitSafe
  <1>2. enabled \in BOOLEAN /\ enabled' \in BOOLEAN /\ safe' \in BOOLEAN
    BY <1>1 DEF Types
  <1>3. enabled => enabled' /\ ~safe'
    BY <1>1
  <1>4. Resets /\ ListenInv' /\ thread[Main].pc \in Ashore
    BY <1>1, <1>2, <1>3, RelistenResets DEF Types
  <1> QED BY <1>1, <1>4, ResetsKeepsRuns, ResetsLeavesTasks DEF AutomationInv, Resets

LEMMA CancelRunKeeps ==
  ASSUME AutomationInv, NEW s \in Sessions, CancelRun(s)
  PROVE  AutomationInv'
  <1>1. /\ Types /\ ListenInv /\ RunInv /\ TaskInv /\ MainIdle /\ CommandUnchanged
        /\ UNCHANGED <<enabled, approval, task, safe, thread, registered, waiting, revoked>>
        /\ cancelled' = cancelled \cup {s}
    BY DEF AutomationInv, CancelRun
  <1>2. Resets /\ ListenInv' /\ thread[Main].pc \in Ashore
    BY <1>1, RestingResets DEF Types
  <1> QED BY <1>1, <1>2, ResetsKeepsRuns, ResetsLeavesTasks DEF AutomationInv, Resets

LEMMA CancelTaskKeeps ==
  ASSUME AutomationInv, NEW tasks \in SUBSET (Runs \X Tries), MainIdle, CancelTasks(tasks),
         UNCHANGED <<enabled, approval, safe, thread, cancelled, registered>>,
         waiting' \subseteq waiting, CommandUnchanged
  PROVE  AutomationInv'
  <1>1. Types /\ ListenInv /\ RunInv /\ TaskInv
    BY DEF AutomationInv
  <1>2. /\ revoked' \subseteq Runs \X Tries /\ task' \in [Runs -> [Tries -> Task]]
        /\ \A r \in Runs, k \in Tries :
              Kept(task[r][k], task'[r][k]) /\ task'[r][k].cost = task[r][k].cost
    BY <1>1, CancelTasksIs
  <1>3. Resets /\ ListenInv' /\ thread[Main].pc \in Ashore
    BY <1>1, <1>2, RestingResets DEF Types
  <1> QED BY <1>1, <1>2, <1>3, ResetsKeepsRuns, ResetsKeepsTasks DEF AutomationInv, Resets

LEMMA ReconcileKeeps ==
  ASSUME AutomationInv, NEW r \in Runs, NEW k \in Tries, Reconcile(r, k)
  PROVE  AutomationInv'
  <1>1. /\ Types /\ ListenInv /\ RunInv /\ TaskInv /\ MainIdle /\ CommandUnchanged
        /\ UNCHANGED <<enabled, approval, safe, thread, cancelled, registered, waiting, revoked>>
        /\ task[r][k].cost = "indeterminate"
        /\ \E amount \in Amounts :
              task' = [task EXCEPT ![r][k] = [SettledAt(@, amount) EXCEPT !.reconciled = TRUE]]
    BY DEF AutomationInv, Reconcile
  <1>0. PICK amount \in Amounts :
           task' = [task EXCEPT ![r][k] = [SettledAt(@, amount) EXCEPT !.reconciled = TRUE]]
    BY <1>1
  <1>2. PICK u : u = [SettledAt(task[r][k], amount) EXCEPT !.reconciled = TRUE]
    OBVIOUS
  <1>3. task[r][k] \in Task
    BY <1>1 DEF Types
  <1>4. u \in Task
    BY <1>2, <1>3 DEF Task, SettledAt
  <1>5. Kept(task[r][k], u)
    BY <1>1, <1>2, <1>3 DEF Task, SettledAt, Kept
  <1>6. /\ task' \in [Runs -> [Tries -> Task]] /\ task'[r][k] = u
        /\ \A x \in Runs, y \in Tries : x # r \/ y # k => task'[x][y] = task[x][y]
    BY <1>0, <1>1, <1>2, <1>4 DEF Types
  <1>7. \A x \in Runs, y \in Tries : Kept(task[x][y], task'[x][y])
    BY <1>5, <1>6 DEF Kept
  <1>8. \A x \in Runs, y \in Tries : <<x, y>> \in waiting' /\ task[x][y].cost = "reserved"
                                     => task'[x][y].cost = "reserved"
    BY <1>1, <1>6
  <1>9. Resets /\ ListenInv' /\ thread[Main].pc \in Ashore
    BY <1>1, <1>6, RestingResets DEF Types
  <1> QED BY <1>1, <1>7, <1>8, <1>9, ResetsKeepsRuns, ResetsKeepsTasks DEF AutomationInv, Resets

\* The decision of a run that waits for it.
LEMMA DecidedRuns ==
  ASSUME AutomationInv, MainIdle, CommandUnchanged, NEW r \in Runs, approval[r] = "pending",
         NEW status \in {"executing", "rejected", "expired"},
         approval' = [approval EXCEPT ![r] = status],
         UNCHANGED <<enabled, task, safe, cancelled, registered, waiting, revoked>>,
         thread' \in [Threads -> Thread],
         \A q \in Threads \ {Main} : thread'[q] = thread[q],
         \/ thread'[Main] = thread[Main]
         \/ /\ status = "executing" /\ thread'[Main].pc \in {"admit", "finish"}
            /\ thread'[Main].run = r /\ thread'[Main].step = 0 /\ ~thread'[Main].later
  PROVE  AutomationInv'
  <1>1. /\ Types /\ ListenInv /\ RunInv /\ TaskInv /\ phase = "up"
        /\ thread[Main].pc = "idle" /\ UNCHANGED <<journal, lease, phase>>
    BY DEF AutomationInv, MainIdle, CommandUnchanged
  <1>2. /\ approval' \in [Runs -> Approval] /\ approval'[r] = status
        /\ \A x \in Runs \ {r} : approval'[x] = approval[x]
    BY <1>1 DEF Types, Approval
  <1>3. Types'
    BY <1>1, <1>2 DEF Types
  <1>4. ListenInv'
    <2>1. ListenersAreControlled'
      BY <1>1, MainIsAlone DEF ListenInv, ListenersAreControlled, Alive
    <2>2. Quiet'
      BY <1>1 DEF Quiet
    <2> QED BY <2>1, <2>2 DEF ListenInv
  <1>5. journal[r] = "none" /\ \A p \in Threads : thread[p].run # r
    BY <1>1 DEF RunInv, PendingIsUntouched
  <1>6. /\ RunKnown(Main) /\ thread[Main].run = NoRun /\ thread[Main].step = 0
        /\ ~thread[Main].later
    BY <1>1, MainIsAlone DEF RunInv, RunKnown, Ashore
  <1>7. RunInv'
    <2>1. Unshared(Main)
      BY <1>1, <1>2, <1>5, CarriedRuns DEF Unshared
    <2>2. RunKnown(Main)'
      BY <1>1, <1>2, <1>5, <1>6 DEF RunKnown, Ashore, RunPcs, AgentPcs
    <2>3. PendingIsUntouched'
      BY <1>1, <1>2, <1>5 DEF RunInv, PendingIsUntouched
    <2>4. LeaseIsOne'
      BY <1>1 DEF RunInv, LeaseIsOne
    <2>5. \/ thread'[Main].run = NoRun
          \/ \A q \in Threads \ {Main} : thread[q].run # thread'[Main].run
      BY <1>5, <1>6
    <2> QED BY <1>1, <2>1, <2>2, <2>3, <2>4, <2>5, MainIsAlone, RunsAreKept
  <1>8. TaskInv'
    <2>1. NeverBack
      BY <1>1, <1>2 DEF NeverBack
    <2>2. AgentKnown'
      BY <1>1 DEF AgentKnown
    <2> QED BY <1>1, <1>3, <2>1, <2>2, TasksAreLeft
  <1> QED BY <1>3, <1>4, <1>7, <1>8 DEF AutomationInv

LEMMA AdmittedIs ==
  ASSUME NEW r \in Runs, NEW t, t = [Idle EXCEPT !.pc = "admit", !.run = r]
  PROVE  t \in Thread /\ t.pc = "admit" /\ t.run = r /\ t.step = 0 /\ ~t.later
  <1>1. t \in Thread
    BY IdleIs DEF Thread, Pcs
  <1>2. t.pc = "admit" /\ t.run = r /\ t.step = 0
    BY DEF Idle
  <1>3. ~t.later
    BY DEF Idle
  <1> QED BY <1>1, <1>2, <1>3

LEMMA ApproveKeeps ==
  ASSUME AutomationInv, NEW r \in Runs, Approve(r)
  PROVE  AutomationInv'
  <1>1. /\ Types /\ MainIdle /\ CommandUnchanged /\ approval[r] = "pending"
        /\ UNCHANGED <<enabled, task, safe, cancelled, registered, waiting, revoked>>
    BY DEF AutomationInv, Approve, Claimable
  <1>2. CASE approval' = [approval EXCEPT ![r] = "expired"] /\ UNCHANGED thread
    BY <1>1, <1>2, DecidedRuns DEF Types
  <1>3. CASE /\ approval' = [approval EXCEPT ![r] = "executing"]
             /\ \E t \in {[Idle EXCEPT !.pc = "admit", !.run = r],
                          [Idle EXCEPT !.pc = "finish", !.run = r, !.good = FALSE]} :
                   thread' = [thread EXCEPT ![Main] = t]
    <2>1. PICK t : /\ t \in {[Idle EXCEPT !.pc = "admit", !.run = r],
                             [Idle EXCEPT !.pc = "finish", !.run = r, !.good = FALSE]}
                   /\ thread' = [thread EXCEPT ![Main] = t]
      BY <1>3
    <2>2. t \in Thread /\ t.pc \in {"admit", "finish"} /\ t.run = r /\ t.step = 0 /\ ~t.later
      <3>1. CASE t = [Idle EXCEPT !.pc = "admit", !.run = r]
        <4>1. t \in Thread /\ t.pc = "admit" /\ t.run = r /\ t.step = 0 /\ ~t.later
          BY ONLY <3>1, AdmittedIs, Zenon
        <4> QED BY <4>1
      <3>2. CASE t = [Idle EXCEPT !.pc = "finish", !.run = r, !.good = FALSE]
        <4>1. t \in Thread /\ t.pc = "finish" /\ t.run = r /\ t.step = 0 /\ ~t.later
          BY <3>2, FinishingIs
        <4> QED BY <4>1
      <3> QED BY <2>1, <3>1, <3>2
    <2>3. ThreadIs(Main, t.pc, t.run, t.step) /\ thread'[Main] = t
      BY <1>1, <2>1, <2>2, PutIs, MainIsAlone
    <2>4. ~thread'[Main].later
      BY ONLY <2>2, <2>3, Zenon
    <2> QED BY <1>1, <1>3, <2>2, <2>3, <2>4, DecidedRuns DEF ThreadIs
  <1> QED BY <1>2, <1>3 DEF Approve

LEMMA RejectKeeps ==
  ASSUME AutomationInv, NEW r \in Runs, Reject(r)
  PROVE  AutomationInv'
  <1>1. /\ Types /\ MainIdle /\ CommandUnchanged /\ approval[r] = "pending"
        /\ UNCHANGED <<enabled, task, safe, thread, cancelled, registered, waiting, revoked>>
        /\ \E status \in {"rejected", "expired"} : approval' = [approval EXCEPT ![r] = status]
    BY DEF AutomationInv, Reject, Claimable
  <1> QED BY <1>1, DecidedRuns DEF Types

LEMMA ConfirmToolKeeps ==
  ASSUME AutomationInv, NEW w \in waiting, ConfirmTool(w)
  PROVE  AutomationInv'
  <1>1. /\ Types /\ ListenInv /\ RunInv /\ TaskInv /\ phase = "up"
        /\ thread[Main].pc = "idle" /\ UNCHANGED <<journal, lease, phase>>
        /\ UNCHANGED <<enabled, approval, task, safe, cancelled, registered, revoked>>
        /\ waiting' = waiting \ {w}
    BY DEF AutomationInv, ConfirmTool, MainIdle, CommandUnchanged
  <1>2. PICK r \in Runs, k \in Tries : w = <<r, k>> /\ r = w[1] /\ k = w[2]
    BY <1>1 DEF Types
  <1>3. k \in Nat
    BY DEF Tries
  <1>4. PICK pc \in {"call", "failed"} : thread' = [thread EXCEPT ![Main] =
           [Idle EXCEPT !.pc = pc, !.run = r, !.step = k, !.later = TRUE]]
    BY <1>2 DEF ConfirmTool
  <1>5. PICK t : t = [Idle EXCEPT !.pc = pc, !.run = r, !.step = k, !.later = TRUE]
    OBVIOUS
  <1>6. t \in Thread /\ t.pc = pc /\ t.run = r /\ t.step = k /\ t.later
    <2>1. t \in Thread
      BY <1>3, <1>5, IdleIs DEF Thread, Pcs
    <2>2. t.pc = pc /\ t.run = r /\ t.step = k
      BY <1>5 DEF Idle
    <2>3. t.later
      BY <1>5 DEF Idle
    <2> QED BY <2>1, <2>2, <2>3
  <1>7. ThreadIs(Main, t.pc, t.run, t.step) /\ thread'[Main] = t
    BY <1>1, <1>4, <1>5, <1>6, PutIs, MainIsAlone
  <1>8. /\ thread' \in [Threads -> Thread]
        /\ \A q \in Threads \ {Main} : thread'[q] = thread[q]
        /\ thread'[Main].pc = pc /\ thread'[Main].run = r /\ thread'[Main].step = k
    BY <1>6, <1>7 DEF ThreadIs
  <1>9. /\ task[r][k].status # "none" /\ task[r][k].cost = "reserved"
        /\ approval[r] \notin {"none", "pending"} /\ journal[r] # "none"
    BY <1>1, <1>2 DEF TaskInv, TaskKnown
  <1>10. Types'
    BY <1>1, <1>8 DEF Types
  <1>11. ListenInv'
    <2>1. ListenersAreControlled'
      BY <1>1, <1>8, MainIsAlone DEF ListenInv, ListenersAreControlled, Alive
    <2>2. Quiet'
      BY <1>1 DEF Quiet
    <2> QED BY <2>1, <2>2 DEF ListenInv
  <1>12. RunInv'
    <2>1. Unshared(Main)
      BY <1>1, <1>8 DEF Unshared
    <2>2. thread'[Main].later
      BY ONLY <1>6, <1>7, Zenon
    <2>3. RunKnown(Main)'
      BY <1>1, <1>8, <1>9, <2>2 DEF RunKnown, Ashore, RunPcs, AgentPcs, LaterPcs
    <2>4. PendingIsUntouched'
      BY <1>1, <1>8, <1>9 DEF RunInv, PendingIsUntouched
    <2>5. LeaseIsOne'
      BY <1>1 DEF RunInv, LeaseIsOne
    <2>6. \A q \in Threads \ {Main} : thread[q].run # r
      BY <1>1, <1>9, BoundsAssumption DEF RunInv, RunKnown
    <2> QED BY <1>1, <1>8, <2>1, <2>3, <2>4, <2>5, <2>6, MainIsAlone, RunsAreKept
  <1>13. TaskInv'
    <2>1. NeverBack
      BY <1>1 DEF NeverBack
    <2>2. AgentKnown'
      BY <1>1, <1>2, <1>8, <1>9 DEF AgentKnown
    <2> QED BY <1>1, <1>10, <2>1, <2>2, TasksAreLeft
  <1> QED BY <1>10, <1>11, <1>12, <1>13 DEF AutomationInv

-----------------------------------------------------------------------------
\* A listening thread ends; the process dies and the next one recovers.

LEMMA EndSessionKeeps ==
  ASSUME AutomationInv, NEW s \in Sessions, EndSession(s)
  PROVE  AutomationInv'
  <1>1. /\ Types /\ ListenInv /\ RunInv /\ TaskInv /\ s \in Threads /\ s # Main
        /\ UNCHANGED <<enabled, journal, lease, approval, task, phase, safe, waiting, revoked>>
        /\ thread' = [thread EXCEPT ![s] = Unused] /\ cancelled' = cancelled \ {s}
        /\ registered' = IF registered = s THEN Nobody ELSE registered
        /\ thread[s].pc # "unused"
    BY MainIsAlone DEF AutomationInv, EndSession, rows, Forgotten
  <1>2. phase = "up"
    BY <1>1, PhaseIsUp
  <1>3. ThreadIs(s, "unused", NoRun, 0) /\ NoWork(thread'[s])
    BY <1>1, UnusedIs, PutIs DEF NoWork, Ashore
  <1>4. Types'
    BY <1>1, <1>3 DEF Types, ThreadIs
  <1>5. Resets
    BY <1>1, <1>3, <1>4 DEF Resets, ThreadIs
  <1>6. ListenInv'
    <2>1. ListenersAreControlled'
      BY <1>1, <1>3, MainIsAlone DEF ListenInv, ListenersAreControlled, Alive, ThreadIs
    <2>2. Quiet'
      BY <1>1, <1>2 DEF Quiet
    <2> QED BY <2>1, <2>2 DEF ListenInv
  <1>7. RunInv' /\ NeverBack
    BY <1>1, <1>5, ResetsKeepsRuns
  <1>8. thread'[Main] = thread[Main]
    BY <1>1, <1>3, MainIsAlone DEF ThreadIs
  <1>9. AgentKnown'
    BY <1>1, <1>8 DEF AgentKnown, TaskInv
  <1> QED BY <1>1, <1>4, <1>6, <1>7, <1>9, TasksAreLeft DEF AutomationInv

LEMMA CrashKeeps ==
  ASSUME AutomationInv, Crash
  PROVE  AutomationInv'
  <1>1. /\ Types /\ ListenInv /\ RunInv /\ TaskInv
        /\ UNCHANGED <<enabled, journal, lease, approval, task>>
        /\ phase' = "down" /\ cancelled' = {} /\ registered' = Nobody /\ waiting' = {}
        /\ revoked' = {} /\ safe' = FALSE
        /\ thread' = [p \in DOMAIN thread |-> IF p = Main THEN Idle ELSE Unused]
    BY DEF AutomationInv, Crash, rows
  <1>2. DOMAIN thread = Threads
    BY <1>1 DEF Types
  <1>3. /\ thread' \in [Threads -> Thread]
        /\ \A p \in Threads : /\ NoWork(thread'[p])
                              /\ p = Main => thread'[p].pc = "idle"
                              /\ p # Main => thread'[p].pc = "unused"
    BY <1>1, <1>2, IdleIs, UnusedIs DEF NoWork, Ashore
  <1>4. safe' \in BOOLEAN /\ ~safe'
    BY <1>1
  <1>5. Types'
    BY <1>1, <1>3, <1>4 DEF Types, Phase
  <1>6. Resets
    BY <1>1, <1>3, <1>5 DEF Resets
  <1>7. ListenInv'
    <2>1. ListenersAreControlled'
      BY <1>3, MainIsAlone DEF ListenersAreControlled, Alive
    <2>2. Quiet'
      BY <1>1, <1>3, <1>4, MainIsAlone DEF Quiet
    <2> QED BY <2>1, <2>2 DEF ListenInv
  <1>8. RunInv' /\ NeverBack
    BY <1>1, <1>6, ResetsKeepsRuns
  <1>9. AgentKnown'
    BY <1>3, MainIsAlone DEF AgentKnown
  <1> QED BY <1>1, <1>5, <1>7, <1>8, <1>9, TasksAreLeft DEF AutomationInv

\* While the process is not up there are no threads to be disturbed.
LEMMA QuietIs ==
  ASSUME AutomationInv, phase # "up"
  PROVE  /\ registered = Nobody /\ ~safe /\ waiting = {} /\ thread[Main].pc = "idle"
         /\ \A s \in Sessions : thread[s].pc = "unused"
         /\ \A p \in Threads : NoWork(thread[p])
  <1>1. /\ registered = Nobody /\ ~safe /\ waiting = {} /\ thread[Main].pc = "idle"
        /\ \A s \in Sessions : thread[s].pc = "unused"
    BY DEF AutomationInv, ListenInv, Quiet
  <1>2. ASSUME NEW p \in Threads PROVE NoWork(thread[p])
    <2>1. thread[p].pc \in {"idle", "unused"} /\ RunKnown(p)
      BY <1>1 DEF Threads, AutomationInv, RunInv
    <2> QED BY <2>1 DEF NoWork, RunKnown, Ashore
  <1> QED BY <1>1, <1>2

LEMMA RecoveryKeepsListeners ==
  ASSUME AutomationInv, phase # "up", RecoveryUnchanged, UNCHANGED <<safe, thread, registered>>
  PROVE  ListenInv'
  <1>1. ListenersAreControlled'
    BY QuietIs DEF ListenersAreControlled, Alive
  <1>2. Quiet'
    BY QuietIs DEF Quiet, RecoveryUnchanged
  <1> QED BY <1>1, <1>2 DEF ListenInv

\* A step of the recovery of rows but the approvals.
LEMMA RecoveryResets ==
  ASSUME AutomationInv, phase # "up", RecoveryUnchanged,
         UNCHANGED <<approval, safe, thread, registered>>, phase' \in Phase,
         journal' \in [Runs -> Journal],
         \A r \in Runs : (journal'[r] = "none") <=> (journal[r] = "none"),
         lease' \subseteq lease, task' \in [Runs -> [Tries -> Task]],
         \A r \in Runs, k \in Tries : Kept(task[r][k], task'[r][k])
  PROVE  AutomationInv'
  <1>1. Types /\ RunInv /\ TaskInv
    BY DEF AutomationInv
  <1>2. Types'
    BY <1>1 DEF Types, RecoveryUnchanged
  <1>3. Resets
    BY <1>2 DEF Resets
  <1>4. thread[Main].pc \in Ashore /\ waiting = {} /\ waiting' = {}
    BY QuietIs DEF Ashore, RecoveryUnchanged
  <1>5. TaskInv'
    BY <1>1, <1>3, <1>4, ResetsKeepsTasks
  <1> QED BY <1>1, <1>2, <1>3, <1>5, ResetsKeepsRuns, RecoveryKeepsListeners DEF AutomationInv

LEMMA RecoverRunsKeeps ==
  ASSUME AutomationInv, RecoverRuns
  PROVE  AutomationInv'
  <1>1. /\ Types /\ phase # "up" /\ phase' = "agents" /\ RecoveryUnchanged
        /\ UNCHANGED <<lease, approval, task, safe, thread, registered>>
        /\ journal' = [r \in Runs |-> IF journal[r] = "running" THEN "interrupted" ELSE journal[r]]
    BY DEF AutomationInv, RecoverRuns
  <1>2. /\ journal' \in [Runs -> Journal]
        /\ \A r \in Runs : (journal'[r] = "none") <=> (journal[r] = "none")
    BY <1>1 DEF Types, Journal
  <1> QED BY <1>1, <1>2, RecoveryResets DEF Types, Phase, Kept

LEMMA RecoverTasksKeeps ==
  ASSUME AutomationInv, RecoverTasks
  PROVE  AutomationInv'
  <1>1. /\ Types /\ phase # "up" /\ phase' \in Phase /\ RecoveryUnchanged
        /\ UNCHANGED <<journal, lease, approval, safe, thread, registered>>
    BY DEF AutomationInv, RecoverTasks, Phase
  <1>2. CASE UNCHANGED task
    BY <1>1, <1>2, RecoveryResets DEF Types, Kept
  <1>3. CASE task' = [r \in Runs |-> [k \in Tries |->
                IF Active(task[r][k]) THEN [task[r][k] EXCEPT !.status = "interrupted"]
                ELSE task[r][k]]]
    <2>1. ASSUME NEW r \in Runs, NEW k \in Tries
          PROVE  task'[r][k] \in Task /\ Kept(task[r][k], task'[r][k])
      <3>1. task[r][k] \in Task
        BY <1>1 DEF Types
      <3>2. CASE task'[r][k] = task[r][k]
        BY <3>1, <3>2 DEF Kept
      <3>3. CASE /\ task[r][k].status \in Live
                 /\ task'[r][k] = [task[r][k] EXCEPT !.status = "interrupted"]
        <4> DEFINE u == [task[r][k] EXCEPT !.status = "interrupted"]
        <4>1. u \in Task
          BY <3>1 DEF Task, TaskStatus
        <4>2. Kept(task[r][k], u)
          BY <3>1, <3>3 DEF Task, Kept, Live
        <4> QED BY <3>3, <4>1, <4>2
      <3> QED BY <1>3, <3>2, <3>3 DEF Active
    <2>2. task' \in [Runs -> [Tries -> Task]]
      BY <1>3, <2>1
    <2> QED BY <1>1, <2>1, <2>2, RecoveryResets DEF Types
  <1> QED BY <1>2, <1>3 DEF RecoverTasks

LEMMA RecoverCostsKeeps ==
  ASSUME AutomationInv, RecoverCosts
  PROVE  AutomationInv'
  <1>1. /\ Types /\ phase # "up" /\ phase' = "approvals" /\ RecoveryUnchanged /\ lease' = {}
        /\ UNCHANGED <<journal, approval, safe, thread, registered>>
    BY DEF AutomationInv, RecoverCosts
  <1>2. CASE UNCHANGED task
    BY <1>1, <1>2, RecoveryResets DEF Types, Kept, Phase
  <1>3. CASE task' = [r \in Runs |-> [k \in Tries |->
                IF task[r][k].cost = "reserved" THEN Doubtful(task[r][k]) ELSE task[r][k]]]
    <2>1. ASSUME NEW r \in Runs, NEW k \in Tries
          PROVE  task'[r][k] \in Task /\ Kept(task[r][k], task'[r][k])
      <3>1. task[r][k] \in Task
        BY <1>1 DEF Types
      <3>2. CASE task'[r][k] = task[r][k]
        BY <3>1, <3>2 DEF Kept
      <3>3. CASE task[r][k].cost = "reserved" /\ task'[r][k] = Doubtful(task[r][k])
        <4>1. Doubtful(task[r][k]) \in Task
          BY <3>1 DEF Task, Doubtful
        <4>2. Kept(task[r][k], Doubtful(task[r][k]))
          BY <3>1, <3>3 DEF Task, Kept, Doubtful
        <4> QED BY <3>3, <4>1, <4>2
      <3> QED BY <1>3, <3>2, <3>3
    <2>2. task' \in [Runs -> [Tries -> Task]]
      BY <1>3, <2>1
    <2> QED BY <1>1, <2>1, <2>2, RecoveryResets DEF Types, Phase
  <1> QED BY <1>2, <1>3 DEF RecoverCosts

LEMMA RecoverApprovalsKeeps ==
  ASSUME AutomationInv, RecoverApprovals
  PROVE  AutomationInv'
  <1>1. /\ Types /\ RunInv /\ TaskInv /\ phase # "up" /\ phase' \in Phase /\ RecoveryUnchanged
        /\ UNCHANGED <<journal, lease, task, safe, thread, registered>>
    BY DEF AutomationInv, RecoverApprovals, Phase
  <1>2. /\ approval' \in [Runs -> Approval]
        /\ \A r \in Runs : /\ approval'[r] = "pending" => approval[r] = "pending"
                           /\ approval[r] \notin {"none", "pending"} =>
                                 approval'[r] \notin {"none", "pending"}
    BY <1>1 DEF RecoverApprovals, Types, Approval
  <1>3. Types'
    BY <1>1, <1>2 DEF Types, RecoveryUnchanged
  <1>4. /\ \A p \in Threads : NoWork(thread'[p])
        /\ thread'[Main].pc = "idle" /\ waiting' = waiting
    BY <1>1, QuietIs DEF RecoveryUnchanged
  <1>5. RunInv'
    <2>1. \A r \in Runs : approval'[r] = "pending" => journal'[r] = "none"
      BY <1>1, <1>2 DEF RunInv, PendingIsUntouched
    <2>2. LeaseIsOne'
      BY <1>1 DEF RunInv, LeaseIsOne
    <2> QED BY <1>4, <2>1, <2>2, IdleKeepsRuns
  <1>6. TaskInv'
    <2>1. NeverBack
      BY <1>1, <1>2 DEF NeverBack
    <2>2. AgentKnown'
      BY <1>4 DEF AgentKnown
    <2> QED BY <1>1, <1>3, <1>4, <2>1, <2>2, TasksAreLeft
  <1>7. ListenInv'
    BY <1>1, RecoveryKeepsListeners
  <1> QED BY <1>3, <1>5, <1>6, <1>7 DEF AutomationInv

LEMMA StartListeningKeeps ==
  ASSUME AutomationInv, StartListening
  PROVE  AutomationInv'
  <1>1. /\ Types /\ ListenInv /\ RunInv /\ TaskInv /\ phase # "up" /\ phase' = "up"
        /\ RecoveryUnchanged /\ UNCHANGED <<journal, lease, approval, task, safe>>
    BY DEF AutomationInv, StartListening
  <1>2. /\ ~safe /\ thread[Main].pc = "idle"
        /\ \A s \in Sessions : thread[s].pc = "unused"
    BY <1>1, QuietIs
  <1>3. /\ thread' \in [Threads -> Thread] /\ registered' \in Sessions \cup {Nobody}
        /\ \A p \in Threads : thread'[p] = thread[p] \/ NoWork(thread'[p])
        /\ thread'[Main] = thread[Main]
        /\ \A s \in Sessions : Alive(s)' => enabled /\ registered' = s
    <2>1. CASE enabled
      <3>1. PICK s \in Sessions : registered' = s /\ thread' = [thread EXCEPT ![s] = Idle]
        BY <2>1 DEF StartListening
      <3>2. s \in Threads /\ s # Main
        BY MainIsAlone
      <3>3. ThreadIs(s, "idle", NoRun, 0) /\ thread'[s] = Idle
        BY <1>1, <3>1, <3>2, IdleIs, PutIs
      <3>4. NoWork(thread'[s])
        BY <3>3, IdleIs DEF NoWork, Ashore
      <3>5. \A q \in Sessions : Alive(q)' => q = s
        BY <1>2, <3>3, MainIsAlone DEF Alive, ThreadIs
      <3> QED BY <2>1, <3>1, <3>2, <3>3, <3>4, <3>5, MainIsAlone DEF ThreadIs
    <2>2. CASE ~enabled
      <3>1. registered' = registered /\ thread' = thread
        BY <2>2 DEF StartListening
      <3> QED BY <1>1, <1>2, <3>1 DEF Types, Alive
    <2> QED BY <2>1, <2>2
  <1>4. Types'
    BY <1>1, <1>3 DEF Types, RecoveryUnchanged, Phase
  <1>5. Resets
    BY <1>1, <1>3, <1>4 DEF Resets
  <1>6. ListenInv'
    <2>1. enabled => enabled'
      BY <1>1, Zenon DEF RecoveryUnchanged
    <2>2. ~safe'
      BY <1>1, <1>2, Zenon
    <2>3. \A s \in Sessions : Alive(s)' /\ s \notin cancelled' =>
             registered' = s /\ enabled' /\ ~safe'
      BY <1>3, <2>1, <2>2, Zenon
    <2>4. ListenersAreControlled'
      BY <2>3, Zenon DEF ListenersAreControlled
    <2>5. Quiet'
      BY <1>1 DEF Quiet
    <2> QED BY <2>4, <2>5 DEF ListenInv
  <1>7. waiting' = waiting
    BY <1>1 DEF RecoveryUnchanged
  <1> QED BY <1>1, <1>2, <1>4, <1>5, <1>6, <1>7, ResetsKeepsRuns, ResetsLeavesTasks
          DEF AutomationInv, Ashore

-----------------------------------------------------------------------------
\* The invariant holds at first, and every step keeps it.

LEMMA InitIsGood ==
  ASSUME Init
  PROVE  AutomationInv
  <1>1. /\ journal = [r \in Runs |-> "none"] /\ lease = {}
        /\ approval = [r \in Runs |-> "none"]
        /\ task = [r \in Runs |-> [k \in Tries |-> NoTask]]
        /\ phase = "down" /\ cancelled = {} /\ registered = Nobody /\ waiting = {}
        /\ revoked = {}
        /\ thread = [p \in Threads |-> IF p = Main THEN Idle ELSE Unused]
    BY DEF Init, Threads
  <1>2. enabled \in BOOLEAN /\ safe \in BOOLEAN /\ ~safe
    BY Zenon DEF Init
  <1>3. /\ NoTask \in Task /\ NoTask.status = "none" /\ NoTask.cost = "none"
        /\ ~NoTask.called /\ NoTask.actual <= 1
    BY BoundsAssumption DEF NoTask, Task, TaskStatus, Amounts
  <1>4. /\ thread \in [Threads -> Thread]
        /\ \A p \in Threads : /\ NoWork(thread[p])
                              /\ p = Main => thread[p].pc = "idle"
                              /\ p # Main => thread[p].pc = "unused"
    BY <1>1, IdleIs, UnusedIs DEF NoWork, Ashore
  <1>5. Types
    BY <1>1, <1>2, <1>3, <1>4 DEF Types, Journal, Approval, Phase
  <1>6. ListenInv
    BY <1>1, <1>2, <1>4, MainIsAlone DEF ListenInv, Quiet, ListenersAreControlled, Alive
  <1>7. RunInv
    <2>1. \A p \in Threads : RunKnown(p)
      BY <1>4, BoundsAssumption DEF NoWork, RunKnown, Ashore, RunPcs, AgentPcs
    <2>2. RunsAreApart /\ PendingIsUntouched /\ LeaseIsOne
      BY <1>1, <1>4 DEF RunsAreApart, PendingIsUntouched, LeaseIsOne, NoWork
    <2> QED BY <2>1, <2>2 DEF RunInv
  <1>8. TaskInv
    <2>1. \A r \in Runs, k \in Tries : TaskKnown(r, k)
      BY <1>1, <1>3 DEF TaskKnown
    <2>2. OneSubmitted
      BY <1>1, <1>3 DEF OneSubmitted
    <2>3. AgentKnown
      BY <1>4, MainIsAlone DEF AgentKnown
    <2>4. ReservationsFit
      <3>1. \A r \in Runs, k \in Tries : Charge(task[r][k]) = 0
        BY <1>1, <1>3 DEF Charge
      <3>2. Charged = {}
        BY <3>1 DEF Charged
      <3> QED BY <3>2, FS_EmptySet, BoundsAssumption DEF ReservationsFit
    <2> QED BY <2>1, <2>2, <2>3, <2>4 DEF TaskInv
  <1> QED BY <1>5, <1>6, <1>7, <1>8 DEF AutomationInv

LEMMA WorkKeeps ==
  ASSUME AutomationInv, NEW p \in Threads, Works(p), LeavesTasks(p) \/ TaskInv'
  PROVE  AutomationInv'
  <1>1. Types'
    BY DEF Works, WorkFrame
  <1> QED BY <1>1, WorksKeepsListeners, WorksKeepsRuns, LeavesKeepsTasks DEF AutomationInv

LEMMA MainStepKeeps ==
  ASSUME AutomationInv, MainStep
  PROVE  AutomationInv'
  <1>1. /\ Types /\ ListenInv /\ RunInv /\ TaskInv /\ Main \in Threads /\ RunKnown(Main)
    BY MainIsAlone DEF AutomationInv, RunInv
  <1>2. CASE Step(Main)
    BY <1>1, <1>2, StepWorks, WorkKeeps
  <1>3. CASE Reserve \/ Submit \/ Call \/ Settle \/ Doubt
    BY <1>1, <1>3, ReserveWorks, SubmitWorks, CallWorks, SettleWorks, DoubtWorks, WorkKeeps
  <1>4. CASE Record \/ Failed
    BY <1>1, <1>4, RecordWorks, WorkKeeps
  <1>5. CASE Finish
    BY <1>1, <1>5, FinishWorks, WorkKeeps
  <1> QED BY <1>2, <1>3, <1>4, <1>5 DEF MainStep

LEMMA SessionStepKeeps ==
  ASSUME AutomationInv, NEW s \in Sessions, SessionStep(s)
  PROVE  AutomationInv'
  <1>1. /\ Types /\ ListenInv /\ RunInv /\ TaskInv /\ s \in Threads /\ s # Main /\ RunKnown(s)
    BY MainIsAlone DEF AutomationInv, RunInv
  <1>2. CASE TakeEvent(s)
    <2>1. phase = "up"
      BY <1>1, <1>2, PhaseIsUp DEF TakeEvent
    <2> QED BY <1>1, <1>2, <2>1, TriggerWorks, WorkKeeps DEF TakeEvent
  <1>3. CASE EndSession(s)
    BY <1>3, EndSessionKeeps
  <1>4. CASE Step(s)
    BY <1>1, <1>4, StepWorks, WorkKeeps
  <1> QED BY <1>2, <1>3, <1>4 DEF SessionStep

LEMMA CommandKeeps ==
  ASSUME AutomationInv, Command
  PROVE  AutomationInv'
  <1>1. /\ Types /\ RunInv /\ TaskInv /\ Main \in Threads /\ RunKnown(Main)
        /\ waiting \subseteq Runs \X Tries
    BY MainIsAlone DEF AutomationInv, RunInv, Types
  <1>2. CASE RunAdHoc
    BY <1>1, <1>2, TriggerWorks, WorkKeeps DEF RunAdHoc, MainIdle, CommandUnchanged
  <1>3. CASE \E r \in Runs, k \in Tries : CancelTask(r, k)
    BY <1>1, <1>3, CancelTaskKeeps DEF CancelTask
  <1>4. CASE \E t \in waiting : RefuseTool(t)
    BY <1>1, <1>4, CancelTaskKeeps DEF RefuseTool
  <1>5. CASE \/ \E on \in BOOLEAN : SetEnabled(on)
             \/ ReplaceDefinition \/ EnterSafe \/ ExitSafe
    BY <1>5, SetEnabledKeeps, ReplaceDefinitionKeeps, EnterSafeKeeps, ExitSafeKeeps
  <1>6. CASE \/ \E r \in Runs : Approve(r) \/ Reject(r)
             \/ \E s \in Sessions : CancelRun(s)
             \/ \E t \in waiting : ConfirmTool(t)
             \/ \E r \in Runs, k \in Tries : Reconcile(r, k)
    BY <1>6, ApproveKeeps, RejectKeeps, CancelRunKeeps, ConfirmToolKeeps, ReconcileKeeps
  <1> QED BY <1>2, <1>3, <1>4, <1>5, <1>6 DEF Command

LEMMA StutterKeeps ==
  ASSUME AutomationInv, UNCHANGED vars
  PROVE  AutomationInv'
  <1>1. UNCHANGED <<enabled, journal, lease, approval, task, phase, safe, thread, cancelled,
                    registered, waiting, revoked>>
    BY DEF vars, rows, memory
  <1>2. Types'
    BY <1>1 DEF AutomationInv, Types
  <1>3. ListenInv'
    BY <1>1 DEF AutomationInv, ListenInv, Quiet, ListenersAreControlled, Alive
  <1>4. Resets
    BY <1>1, <1>2 DEF Resets
  <1>5. RunInv' /\ NeverBack
    BY <1>4, ResetsKeepsRuns DEF AutomationInv
  <1>6. AgentKnown'
    BY <1>1 DEF AutomationInv, TaskInv, AgentKnown
  <1> QED BY <1>1, <1>2, <1>3, <1>5, <1>6, TasksAreLeft DEF AutomationInv

LEMMA NextKeeps ==
  ASSUME AutomationInv, [Next]_vars
  PROVE  AutomationInv'
  BY SessionStepKeeps, MainStepKeeps, CommandKeeps, RecoverRunsKeeps, RecoverTasksKeeps,
     RecoverCostsKeeps, RecoverApprovalsKeeps, StartListeningKeeps, CrashKeeps, StutterKeeps
     DEF Next, Recover

-----------------------------------------------------------------------------
\* What holds of every behaviour.

\* The threads know their runs, and the ledger its tasks, in every reachable
\* state: the inductive invariant.
THEOREM AutomationsInvariant == Spec => []AutomationInv
  BY InitIsGood, NextKeeps, PTL DEF Spec

\* The rows satisfy their tables, one run holds the lease, and only the main
\* thread runs Agent tasks (TypeOK).
THEOREM TypeCorrect == Spec => []TypeOK
  <1>1. ASSUME AutomationInv PROVE TypeOK
    <2>1. Cardinality(lease) <= 1
      <3>1. CASE lease = {}
        BY <3>1, FS_EmptySet
      <3>2. CASE lease # {}
        <4>1. PICK r : r \in lease
          BY <3>2
        <4>2. lease = {r}
          BY <1>1, <4>1 DEF AutomationInv, RunInv, LeaseIsOne
        <4>3. Cardinality({r}) = 1
          BY FS_Singleton
        <4> QED BY <4>2, <4>3
      <3> QED BY <3>1, <3>2
    <2>2. \A s \in Sessions : thread[s].pc \notin {"reserve", "submit", "call", "settle"}
      BY <1>1, MainIsAlone DEF AutomationInv, RunInv, RunKnown, AgentPcs
    <2>3. enabled \in BOOLEAN /\ safe \in BOOLEAN
      BY <1>1 DEF AutomationInv, Types
    <2>4. /\ journal \in [Runs -> {"none", "running", "completed", "interrupted"}]
          /\ lease \subseteq Runs
          /\ approval \in [Runs -> {"none", "pending", "executing", "completed", "failed",
                                    "rejected", "expired", "interrupted"}]
          /\ task \in [Runs -> [Tries -> Task]]
          /\ phase \in {"down", "agents", "governance", "approvals", "listening", "up"}
      BY <1>1 DEF AutomationInv, Types, Journal, Approval, Phase
    <2>5. /\ thread \in [{Main} \cup Sessions -> ThreadState]
          /\ cancelled \subseteq Sessions /\ registered \in Sessions \cup {Nobody}
          /\ waiting \subseteq Runs \X Tries /\ revoked \subseteq Runs \X Tries
      BY <1>1 DEF AutomationInv, Types, Threads, Thread, ThreadState, Pcs
    <2> QED BY ONLY <2>1, <2>2, <2>3, <2>4, <2>5 DEF TypeOK
  <1> QED BY <1>1, AutomationsInvariant, PTL

\* Whoever listens is the thread registered for an enabled automation, so that
\* the next stop reaches it (ListenersAreControlled).
THEOREM ListenersCanBeStopped == Spec => []ListenersAreControlled
  <1>1. AutomationInv => ListenersAreControlled
    BY DEF AutomationInv, ListenInv
  <1> QED BY <1>1, AutomationsInvariant, PTL

\* A call of the Provider is journalled, and until a user reconciles its row the
\* ledger holds its bill, which was within the reservation, or the whole
\* reservation (CallsAreCharged).
THEOREM CallsArePaid == Spec => []CallsAreCharged
  <1>1. AutomationInv => CallsAreCharged
    BY DEF AutomationInv, TaskInv, TaskKnown, Accounted, CallsAreCharged
  <1> QED BY <1>1, AutomationsInvariant, PTL

\* What the ledger holds for all attempts goes beyond the budget of the day only
\* by what a user entered above a reservation (CommittedWithinBudget).
THEOREM BudgetHolds == Spec => []CommittedWithinBudget
  <1>1. ASSUME AutomationInv PROVE CommittedWithinBudget
    <2> DEFINE E == {u \in CommittedUnits : u[3] > 1 /\ task[u[1]][u[2]].reconciled}
    <2>1. Types /\ TaskInv
      BY <1>1 DEF AutomationInv
    <2>2. CommittedUnits \subseteq First \cup E
      <3> SUFFICES ASSUME NEW u \in CommittedUnits, u[3] # 1
                   PROVE  u[3] > 1 /\ task[u[1]][u[2]].reconciled
        BY DEF First
      <3>1. PICK r \in Runs, k \in Tries : r = u[1] /\ k = u[2]
        BY DEF CommittedUnits, Units
      <3>2. u[3] \in Nat /\ u[3] > 1 /\ u[3] <= Charge(task[r][k])
        BY <3>1 DEF CommittedUnits, Units
      <3>3. /\ task[r][k].actual \in Nat
            /\ task[r][k].cost \in {"none", "reserved", "settled", "indeterminate"}
        BY <2>1, TaskIs
      <3>4. task[r][k].actual > 1
        BY <3>2, <3>3 DEF Charge
      <3>5. task[r][k].reconciled \/ task[r][k].actual <= 1
        BY <2>1 DEF TaskInv, TaskKnown
      <3>6. task[r][k].reconciled
        BY <3>3, <3>4, <3>5
      <3> QED BY <3>1, <3>2, <3>6
    <2>3. IsFiniteSet(E) /\ Cardinality(E) \in Nat
      BY CommittedIsFinite, FS_Subset, FS_CardinalityType
    <2>4. /\ IsFiniteSet(First) /\ Cardinality(First) \in Nat
          /\ Cardinality(First) <= DailyBudget
      BY <2>1, FirstUnits, ChargedIsFinite DEF TaskInv, ReservationsFit
    <2>5. Excess = Cardinality(E)
      BY DEF Excess
    <2> HIDE DEF E
    <2>6. /\ IsFiniteSet(First \cup E) /\ IsFiniteSet(First \cap E)
          /\ Cardinality(First \cup E) =
                Cardinality(First) + Cardinality(E) - Cardinality(First \cap E)
      BY <2>3, <2>4, FS_Union, FS_Subset
    <2>7. Cardinality(First \cap E) \in Nat /\ Cardinality(First \cup E) \in Nat
      BY <2>6, FS_CardinalityType
    <2>8. Committed <= Cardinality(First \cup E)
      BY <2>2, <2>6, FS_Subset DEF Committed
    <2> QED BY <2>3, <2>4, <2>5, <2>6, <2>7, <2>8, CommittedIsFinite, BoundsAssumption
            DEF CommittedWithinBudget
  <1> QED BY <1>1, AutomationsInvariant, PTL

\* An action of a run reaches the Provider through one task at most
\* (OneTaskPerAction).
THEOREM ActionsCallOnce == Spec => []OneTaskPerAction
  <1>1. ASSUME AutomationInv PROVE OneTaskPerAction
    <2> SUFFICES ASSUME NEW r \in Runs
                 PROVE  Cardinality({k \in Tries : task[r][k].called}) <= 1
      BY DEF OneTaskPerAction
    <2> DEFINE C == {k \in Tries : task[r][k].called}
    <2>1. \A k, l \in C : k = l
      BY <1>1 DEF AutomationInv, TaskInv, TaskKnown, OneSubmitted
    <2> HIDE DEF C
    <2>2. CASE C = {}
      BY <2>2, FS_EmptySet DEF C
    <2>3. CASE C # {}
      <3>1. PICK k : k \in C
        BY <2>3
      <3>2. C = {k} /\ Cardinality({k}) = 1
        BY <2>1, <3>1, FS_Singleton
      <3> QED BY <3>2 DEF C
    <2> QED BY <2>2, <2>3
  <1> QED BY <1>1, AutomationsInvariant, PTL

-----------------------------------------------------------------------------
\* The approvals implement ApprovalGate.

Unmoved ==
    /\ UNCHANGED approval
    /\ \A r \in Runs : (journal'[r] = "none") <=> (journal[r] = "none")

Decides ==
    /\ UNCHANGED journal
    /\ \E r \in Runs, status \in {"executing", "rejected", "expired"} :
          approval[r] = "pending" /\ approval' = [approval EXCEPT ![r] = status]

Spends ==
    /\ UNCHANGED journal
    /\ \A r \in Runs : \/ approval'[r] = approval[r]
                       \/ approval[r] = "pending" /\ approval'[r] = "expired"
                       \/ approval[r] = "executing" /\ approval'[r] = "interrupted"

LEMMA StepsAreKinds ==
  ASSUME AutomationInv, [Next]_vars
  PROVE  \/ \E p \in Threads : Works(p)
         \/ Unmoved \/ Decides \/ Spends
  <1>1. /\ Types /\ ListenInv /\ RunInv /\ TaskInv /\ Main \in Threads
        /\ Sessions \subseteq Threads /\ \A p \in Threads : RunKnown(p)
    BY MainIsAlone DEF AutomationInv, RunInv
  <1>2. CASE \E p \in Threads : Step(p)
    BY <1>1, <1>2, StepWorks
  <1>3. CASE Reserve \/ Submit \/ Call \/ Settle \/ Record \/ Doubt \/ Failed \/ Finish
    BY <1>1, <1>3, ReserveWorks, SubmitWorks, CallWorks, SettleWorks, RecordWorks, DoubtWorks,
       FinishWorks
  <1>4. CASE \E s \in Sessions : TakeEvent(s)
    <2>1. PICK s \in Sessions : TakeEvent(s)
      BY <1>4
    <2>2. phase = "up"
      BY <1>1, <2>1, PhaseIsUp, MainIsAlone DEF TakeEvent
    <2> QED BY <1>1, <2>1, <2>2, TriggerWorks DEF TakeEvent
  <1>5. CASE RunAdHoc
    BY <1>1, <1>5, TriggerWorks DEF RunAdHoc, MainIdle, CommandUnchanged
  <1>6. CASE \E r \in Runs : Approve(r) \/ Reject(r)
    BY <1>6 DEF Approve, Reject, Claimable, CommandUnchanged, Decides
  <1>7. CASE RecoverApprovals
    BY <1>1, <1>7 DEF RecoverApprovals, Types, Spends
  <1>8. CASE RecoverRuns
    BY <1>1, <1>8 DEF RecoverRuns, Types, Unmoved
  <1>9. CASE RecoverTasks \/ RecoverCosts \/ StartListening \/ Crash
    BY <1>9 DEF RecoverTasks, RecoverCosts, StartListening, Crash, rows, Unmoved
  <1>10. CASE \E s \in Sessions : EndSession(s)
    BY <1>10 DEF EndSession, rows, Unmoved
  <1>11. CASE \/ \E on \in BOOLEAN : SetEnabled(on)
              \/ ReplaceDefinition
              \/ \E s \in Sessions : CancelRun(s)
              \/ \E r \in Runs, k \in Tries : CancelTask(r, k) \/ Reconcile(r, k)
              \/ \E t \in waiting : RefuseTool(t) \/ ConfirmTool(t)
              \/ EnterSafe
              \/ ExitSafe
    BY <1>11 DEF SetEnabled, ReplaceDefinition, CancelRun, CancelTask, Reconcile, RefuseTool,
                 ConfirmTool, EnterSafe, ExitSafe, CommandUnchanged, Unmoved
  <1>12. CASE UNCHANGED vars
    BY <1>12 DEF vars, rows, Unmoved
  <1> QED BY <1>1, <1>2, <1>3, <1>4, <1>5, <1>6, <1>7, <1>8, <1>9, <1>10, <1>11, <1>12
          DEF Next, SessionStep, MainStep, Command, Recover

\* What the gate sees of an approval.
DecisionOf == [r \in Runs |-> Decision(r)]
Begun == {r \in Runs : NeedsApproval(r) /\ journal[r] # "none"}

LEMMA GateStep ==
  ASSUME AutomationInv, AutomationInv', [Next]_vars
  PROVE  [Gate!Next]_Gate!vars
  <1>1. /\ Types /\ Types' /\ RunInv /\ approval \in [Runs -> Approval]
        /\ approval' \in [Runs -> Approval]
    BY DEF AutomationInv, Types
  <1>2. \A r \in Runs : /\ DecisionOf[r] = Decision(r) /\ DecisionOf'[r] = Decision(r)'
                        /\ DecisionOf'[r] \in Gate!Decisions
    <2>1. ASSUME NEW r \in Runs PROVE Decision(r)' \in Gate!Decisions
      <3>1. approval'[r] \in Approval
        BY <1>1
      <3> QED BY <3>1 DEF Decision, Gate!Decisions, Approval
    <2> QED BY <2>1 DEF DecisionOf
  <1>3. DecisionOf' \in [Runs -> Gate!Decisions]
    BY <1>2 DEF DecisionOf
  <1>4. ASSUME DecisionOf' = DecisionOf, Begun' = Begun PROVE [Gate!Next]_Gate!vars
    BY <1>4 DEF Gate!vars, DecisionOf, Begun
  <1>5. ASSUME \A r \in Runs : approval'[r] = approval[r] PROVE DecisionOf' = DecisionOf
    <2>1. \A r \in Runs : Decision(r)' = Decision(r)
      BY <1>5 DEF Decision
    <2> QED BY <2>1 DEF DecisionOf
  <1>6. ASSUME NEW r \in Runs, \A q \in Runs \ {r} : approval'[q] = approval[q], Begun' = Begun,
               <<approval[r], approval'[r]>> \in
                  {<<"none", "pending">>, <<"pending", "executing">>, <<"pending", "rejected">>,
                   <<"pending", "expired">>}
        PROVE [Gate!Next]_Gate!vars
    <2>1. \A q \in Runs \ {r} : DecisionOf'[q] = DecisionOf[q]
      BY <1>2, <1>6 DEF Decision
    <2>2. <<DecisionOf[r], DecisionOf'[r]>> \in Gate!Moves
      BY <1>2, <1>6 DEF Decision, Gate!Moves
    <2>3. Gate!Decide(r)
      BY <1>6, <2>1, <2>2 DEF Gate!Decide, Gate!Change, Gate!Others, DecisionOf, Begun
    <2> QED BY <1>3, <2>3 DEF Gate!Next, DecisionOf
  <1>7. ASSUME Begun' = Begun,
               \A r \in Runs : \/ approval'[r] = approval[r]
                               \/ approval[r] = "pending" /\ approval'[r] = "expired"
                               \/ /\ approval[r] = "executing"
                                  /\ approval'[r] \in {"completed", "failed", "interrupted"}
        PROVE [Gate!Next]_Gate!vars
    <2>1. \A r \in Runs : DecisionOf'[r] # DecisionOf[r] =>
                             <<DecisionOf[r], DecisionOf'[r]>> \in Gate!Expiries
      BY <1>2, <1>7 DEF Decision, Gate!Expiries
    <2>2. Gate!Restart
      BY <1>7, <2>1 DEF Gate!Restart, Gate!Change, DecisionOf, Begun
    <2> QED BY <1>3, <2>2 DEF Gate!Next, DecisionOf
  <1>8. CASE Unmoved
    <2>1. DecisionOf' = DecisionOf /\ Begun' = Begun
      BY <1>5, <1>8 DEF Unmoved, Begun, NeedsApproval
    <2> QED BY <1>4, <2>1
  <1>9. CASE Decides
    <2>1. PICK r \in Runs, status \in {"executing", "rejected", "expired"} :
             approval[r] = "pending" /\ approval' = [approval EXCEPT ![r] = status]
      BY <1>9 DEF Decides
    <2>2. approval'[r] = status /\ \A q \in Runs \ {r} : approval'[q] = approval[q]
      BY <1>1, <2>1
    <2>3. Begun' = Begun
      BY <1>9, <2>1, <2>2 DEF Decides, Begun, NeedsApproval
    <2> QED BY <1>6, <2>1, <2>2, <2>3
  <1>10. CASE Spends
    <2>1. Begun' = Begun
      BY <1>10 DEF Spends, Begun, NeedsApproval
    <2> QED BY <1>7, <1>10, <2>1 DEF Spends
  <1>11. ASSUME NEW p \in Threads, Works(p) PROVE [Gate!Next]_Gate!vars
    <2> DEFINE r == thread[p].run
    <2>1. CASE journal' = journal /\ approval' = approval
      <3>1. Begun' = Begun
        BY <2>1 DEF Begun, NeedsApproval
      <3> QED BY <1>4, <1>5, <2>1, <3>1
    <2>2. CASE /\ Rests(p) /\ thread[p].pc = "finish"
               /\ \E status \in {"completed", "failed"} :
                     approval' = [approval EXCEPT ![r] = status]
      <3>1. r \in Runs /\ approval[r] = "executing"
        BY <1>1, <2>2 DEF RunInv, RunKnown, Ashore
      <3>2. /\ approval'[r] \in {"completed", "failed"}
            /\ \A q \in Runs \ {r} : approval'[q] = approval[q]
        BY <1>1, <2>2, <3>1
      <3>3. Begun' = Begun
        BY <2>2, <3>1, <3>2 DEF Rests, Begun, NeedsApproval
      <3> QED BY <1>7, <3>1, <3>2, <3>3
    <2>3. CASE Rests(p) /\ \E f \in Fresh : approval' = [approval EXCEPT ![f] = "pending"]
      <3>1. PICK f \in Fresh : approval' = [approval EXCEPT ![f] = "pending"]
        BY <2>3
      <3>2. f \in Runs /\ approval[f] = "none" /\ journal[f] = "none"
        BY <1>1, FreshIs
      <3>3. approval'[f] = "pending" /\ \A q \in Runs \ {f} : approval'[q] = approval[q]
        BY <1>1, <3>1, <3>2
      <3>4. Begun' = Begun
        BY <2>3, <3>2, <3>3 DEF Rests, Begun, NeedsApproval
      <3> QED BY <1>6, <3>2, <3>3, <3>4
    <2>4. CASE /\ Goes(p) /\ thread[p].pc = "complete"
               /\ journal' = [journal EXCEPT ![r] = "completed"]
      <3>1. r \in Runs /\ journal[r] # "none"
        BY <1>1, <2>4 DEF RunInv, RunKnown, Ashore
      <3>2. journal'[r] # "none" /\ \A q \in Runs \ {r} : journal'[q] = journal[q]
        BY <1>1, <2>4, <3>1 DEF Types
      <3>3. approval' = approval
        BY <2>4 DEF Goes
      <3>4. Begun' = Begun
        BY <3>1, <3>2, <3>3 DEF Begun, NeedsApproval
      <3> QED BY <1>4, <1>5, <3>3, <3>4
    <2>5. CASE /\ Goes(p) /\ thread[p].pc = "start"
               /\ journal' = [journal EXCEPT ![r] = "running"]
      <3>1. PICK x \in Runs :
               /\ x = r /\ journal[x] = "none" /\ approval[x] \in {"none", "executing"}
        BY <1>1, <2>5 DEF RunInv, RunKnown, Ashore, RunPcs, LaterPcs
      <3>2. journal'[x] # "none" /\ \A q \in Runs \ {x} : journal'[q] = journal[q]
        BY <1>1, <2>5, <3>1 DEF Types
      <3>3. approval' = approval /\ DecisionOf' = DecisionOf
        BY <1>5, <2>5 DEF Goes
      <3>4. CASE approval[x] = "none"
        <4>1. Begun' = Begun
          BY <3>1, <3>2, <3>3, <3>4 DEF Begun, NeedsApproval
        <4> QED BY <1>4, <3>3, <4>1
      <3>5. CASE approval[x] = "executing"
        <4>1. x \notin Begun /\ Begun' = Begun \cup {x}
          BY <3>1, <3>2, <3>3, <3>5 DEF Begun, NeedsApproval
        <4>2. DecisionOf[x] = "granted"
          BY <1>2, <3>5 DEF Decision
        <4>3. Gate!Begin(x)
          <5>1. /\ DecisionOf[x] = "granted" /\ x \notin Begun
                /\ Begun' = Begun \cup {x} /\ UNCHANGED DecisionOf
            BY <3>3, <4>1, <4>2
          <5> QED BY ONLY <5>1 DEF Gate!Begin, DecisionOf, Begun
        <4> QED BY <1>3, <4>3 DEF Gate!Next, DecisionOf
      <3> QED BY <3>1, <3>4, <3>5
    <2> QED BY <1>11, <2>1, <2>2, <2>3, <2>4, <2>5
            DEF Works, Rests, Opens, Finishes, Goes
  <1> QED BY <1>8, <1>9, <1>10, <1>11, StepsAreKinds

\* A run at a risk begins only under an approval in force, once: the approval
\* and run journals implement ApprovalGate (ImplementsApprovalGate).
THEOREM RunsImplementApprovalGate == Spec => ImplementsApprovalGate
  <1>1. Init => Gate!Init
    BY DEF Init, Gate!Init, Decision, NeedsApproval
  <1>2. AutomationInv /\ AutomationInv' /\ [Next]_vars => [Gate!Next]_Gate!vars
    BY GateStep
  <1>3. Spec => Gate!Spec
    BY <1>1, <1>2, AutomationsInvariant, PTL DEF Spec, Gate!Spec
  <1> QED BY <1>3 DEF ImplementsApprovalGate
=============================================================================
