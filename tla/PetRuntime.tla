----------------------------- MODULE PetRuntime -----------------------------
(***************************************************************************)
(* The durable pet and those who act on it: commands of the user and of    *)
(* extensions, the timers that end a feedback, and the thread that lets    *)
(* the pet act on its own within a budget.                                 *)
(*                                                                         *)
(*   crates/runtime-core/src/pet.rs       the pet and its rules            *)
(*   crates/runtime-app/src/lib.rs        PetRuntimeService                *)
(*   apps/desktop/src-tauri/src/lib.rs    commands, timers, autonomy loop  *)
(*                                                                         *)
(* An update runs under the lock of the pet: a changed copy is validated,  *)
(* saved, and only then becomes the pet.  The autonomy thread decides on a *)
(* copy it took before, under another hold of the lock.  Positions, vitals *)
(* and the words a pet speaks are left out; a notice is the one Observing  *)
(* with a feedback.                                                        *)
(***************************************************************************)
EXTENDS Integers, FiniteSets

CONSTANTS
    Actions,     \* bound: the PetActions explored
    Policies,    \* the PetAutonomyPolicy of every profile and moment
    MaxTime,     \* bound: the last reading of the clock explored
    MaxSequence, \* bound: feedbacks explored
    MaxBack,     \* bound: times the clock is set back
    MaxFaults    \* bound: refused writes explored

\* The semantic state of every action.
StateOf ==
    [Idle |-> "Idle", Observe |-> "Observing", Walk |-> "Walking", Play |-> "Playing",
     Perch |-> "Perching", Climb |-> "Climbing", Peek |-> "Peeking",
     Stretch |-> "Stretching", Sleep |-> "Sleeping", Work |-> "Working",
     Celebrate |-> "Interacting"]
States == {StateOf[a] : a \in DOMAIN StateOf} \cup {"Dragged", "Recovering"}

\* What the pet may begin on its own, by its vitals, its rotation or the desktop.
Plans ==
    {<<"Observe", "Observe">>, <<"Observe", "Perch">>, <<"Explore", "Walk">>,
     <<"Play", "Play">>, <<"Play", "Celebrate">>, <<"Rest", "Sleep">>,
     <<"Stretch", "Stretch">>, <<"Stretch", "Work">>}

\* autonomy_intent_matches_state
Matching(intent) ==
    CASE intent = "Observe" -> {"Observing", "Perching", "Peeking"}
      [] intent = "Explore" -> {"Walking", "Climbing"}
      [] intent = "Play"    -> {"Playing", "Interacting"}
      [] intent = "Stretch" -> {"Stretching", "Working"}
      [] intent = "Rest"    -> {"Sleeping", "Recovering"}

Edges == {"Perch", "Climb", "Peek"}

ASSUME PetAssumption ==
    /\ Actions \subseteq DOMAIN StateOf
    /\ Policies \subseteq [active : BOOLEAN, capacity : Nat \ {0}, refill : Nat \ {0}]
    /\ IsFiniteSet(Policies) /\ Policies # {}
    /\ MaxTime \in Nat \ {0} /\ MaxSequence \in Nat /\ MaxBack \in Nat /\ MaxFaults \in Nat

VARIABLES
    pet,      \* the pet, in memory and in the database
    timers,   \* the generations whose timers run, and what each ends
    tick,     \* the decision the autonomy thread has taken and not applied
    clock,    \* what the next reading of the clock shows
    lost,     \* generations whose timer could not save their end
    starts, latest, \* actions the pet began, the latest reading of the clock
    backs, faults

budget == <<starts, latest>>
vars == <<pet, timers, tick, clock, lost, budget, backs, faults>>

AnyPolicy == CHOOSE p \in Policies : TRUE
NoPlan == <<"none", "none">>
NoTick == [decision |-> "none", plan |-> NoPlan, time |-> 0, policy |-> AnyPolicy]
NewPet == [state |-> "Idle", feedback |-> 0, sequence |-> 0, intent |-> "none", until |-> 0,
           resume |-> "none", due |-> 0, tokens |-> 0, refillAt |-> 0]

Init ==
    /\ pet = NewPet
    /\ timers = {} /\ tick = NoTick
    /\ clock = 1
    /\ lost = {}
    /\ starts = 0 /\ latest = 1
    /\ backs = 0 /\ faults = 0

-----------------------------------------------------------------------------
(* The rules of the pet.                                                   *)

\* begin_feedback
Responding(p, state) ==
    [p EXCEPT !.sequence = @ + 1, !.feedback = p.sequence + 1, !.state = state]

\* mutant: a new action leaves the feedback it replaces active
AppliedOver(p, action) == [p EXCEPT !.state = StateOf[action]]
\* apply_action
Applied(p, action) == [p EXCEPT !.state = StateOf[action], !.feedback = 0]

\* validate, of what is modelled here
Valid(p) ==
    /\ p.resume # "none" => p.intent # "none" /\ p.resume \in Edges
    /\ p.feedback # 0 => p.feedback = p.sequence /\ p.state \in {"Interacting", "Observing"}

Unplanned(p) == [p EXCEPT !.intent = "none", !.until = 0, !.resume = "none"]

\* mutant: a restart starts the budget anew
RecoveredAnew(p) == [Applied(p, "Idle") EXCEPT !.tokens = 0, !.refillAt = 0]
\* mutant: a restart ends the state and not its feedback
RecoveredState(p) ==
    IF p.state \in {"Observing", "Dragged", "Interacting", "Recovering"}
    THEN [p EXCEPT !.state = "Idle"] ELSE p
\* recover_transient_state
Recovered(p) ==
    IF p.state \in {"Observing", "Dragged", "Interacting", "Recovering"}
    THEN Applied(p, "Idle") ELSE p

Least(a, b) == IF a < b THEN a ELSE b
\* autonomy_budget: the tokens and the next refill a policy grants at a time
Budget(p, policy, now) ==
    LET tokens == Least(p.tokens, policy.capacity)
        passed == (now - p.refillAt) \div policy.refill + 1
    IN  IF p.refillAt = 0
        THEN [tokens |-> policy.capacity, refillAt |-> now + policy.refill]
        ELSE IF now < p.refillAt THEN [tokens |-> tokens, refillAt |-> p.refillAt]
        ELSE [tokens |-> Least(tokens + passed, policy.capacity),
              refillAt |-> p.refillAt + passed * policy.refill]

Controlled(p) == p.intent # "none" /\ p.until # 0
EdgeOf(state) == {e \in Edges : StateOf[e] = state}

\* autonomy_decision: every decision but Noop, with its plan and the time it
\* carries (of a start, the time it was decided; of others, the next due time).
Decisions(p, policy, now) ==
    LET only(decision, time) ==
            {[decision |-> decision, plan |-> NoPlan, time |-> time, policy |-> AnyPolicy]}
        grant == Budget(p, policy, now)
    IN  IF Controlled(p) /\ p.state \notin Matching(p.intent) THEN only("Interrupt", now + 1)
        ELSE IF Controlled(p) THEN
            (IF ~policy.active THEN only("Suppress", 0)
             ELSE IF now >= p.until THEN only("Finish", now + 1) ELSE {})
        ELSE IF ~policy.active \/ p.state \notin {"Idle", "Perching", "Climbing", "Peeking"}
             THEN {}
        ELSE IF p.due = 0 THEN only("Schedule", now + 1)
        ELSE IF now < p.due THEN {}
        ELSE IF grant.tokens = 0 THEN only("Schedule", grant.refillAt)
        ELSE {[decision |-> "Start", plan |-> plan, time |-> now, policy |-> policy] :
                 plan \in {q \in Plans : q[2] \in Actions}}

Began(p, t) ==
    LET grant == Budget(p, t.policy, t.time)
        edge == EdgeOf(p.state)
    IN  [Applied(p, t.plan[2]) EXCEPT
            !.tokens = grant.tokens - 1, !.refillAt = grant.refillAt,
            !.resume = IF edge = {} THEN "none" ELSE CHOOSE e \in edge : TRUE,
            !.intent = t.plan[1], !.until = t.time + 1]

Returned(p) == Unplanned(Applied(p, IF p.resume = "none" THEN "Idle" ELSE p.resume))
Overdrawn(p, t) == Budget(p, t.policy, t.time).tokens = 0

\* apply_autonomy_decision
Decided(p, t) ==
    CASE t.decision = "Start" ->
            (IF Overdrawn(p, t)
             THEN [p EXCEPT !.due = Budget(p, t.policy, t.time).refillAt] ELSE Began(p, t))
      [] t.decision = "Schedule"  -> [p EXCEPT !.due = t.time]
      [] t.decision \in {"Finish", "Suppress"} -> [Returned(p) EXCEPT !.due = t.time]
      [] t.decision = "Interrupt" -> [Unplanned(p) EXCEPT !.due = t.time]

-----------------------------------------------------------------------------
(* Commands.  A command that is refused changes nothing.                   *)

\* PetRuntimeService::update: an invalid or unsaved pet is not published.
Update(p) == Valid(p) /\ pet' = p

Feedbacks == pet.sequence < MaxSequence

\* The host starts the timer of the feedback the command began.
Feedback(p, ends) ==
    /\ Feedbacks /\ pet.state # "Dragged"
    /\ Update(p)
    /\ timers' = timers \cup {[ends |-> ends, sequence |-> p.sequence]}
    /\ UNCHANGED <<tick, clock, lost, budget, backs, faults>>

\* click_pet, double_click_pet, stroke_pet, use_pet_item
Touch == Feedback(Responding(pet, "Interacting"), "Interaction")
NoticePet == Feedback(Responding(pet, "Observing"), "Notice")

CaredFor(p) == [Responding(p, "Interacting") EXCEPT !.intent = "none", !.until = 0]
CarePet == Feedback(CaredFor(pet), "Interaction")

CommandUnchanged == UNCHANGED <<timers, tick, clock, lost, budget, backs, faults>>

BeginDrag ==
    /\ pet.state # "Dragged"
    /\ Update([pet EXCEPT !.state = "Dragged", !.resume = "none"])
    /\ CommandUnchanged

\* finish_pet_drag; shutdown ends a drag that is still on the same way
DropPet(action) ==
    /\ pet.state = "Dragged" /\ action \in {"Idle"} \cup Edges
    /\ Update(Applied(pet, action))
    /\ CommandUnchanged

PlayAction(action) ==
    /\ Update(Applied(pet, action))
    /\ CommandUnchanged

ReturnHome ==
    /\ pet.state # "Dragged"
    /\ Update(Applied(pet, "Idle"))
    /\ CommandUnchanged

\* The directives that count as an autonomous action of the pet.
Aligned == {<<"Explore", "Walk">>, <<"Rest", "Sleep">>, <<"Play", "Play">>,
            <<"Observe", "Observe">>}

\* apply_structured_directive
ApplyDirective ==
    /\ pet.state # "Dragged"
    /\ \/ \E plan \in {q \in Aligned : q[2] \in Actions} :
             Update([Applied(pet, plan[2]) EXCEPT
                        !.resume = "none", !.intent = plan[1], !.until = clock + 1])
       \/ \E action \in {"Perch", "Celebrate", "Work"} \cap Actions :
             Update(Unplanned(Applied(pet, action)))
       \/ Update(Unplanned([pet EXCEPT !.state = "Recovering", !.feedback = 0]))
    /\ CommandUnchanged

-----------------------------------------------------------------------------
(* Timers and the autonomy thread.                                         *)

\* finish_interaction_if, finish_notice_if: only the generation of the timer
\* and only the state it is for.  An end that is not saved is not tried again.
Ends(t) ==
    /\ pet.feedback = t.sequence
    /\ pet.state = (IF t.ends = "Interaction" THEN "Interacting" ELSE "Observing")

FireTimer(t) ==
    /\ timers' = timers \ {t}
    /\ \/ Ends(t) /\ Update(Applied(pet, "Idle")) /\ UNCHANGED <<lost, faults>>
       \/ ~Ends(t) /\ UNCHANGED <<pet, lost, faults>>
       \/ /\ Ends(t) /\ faults < MaxFaults /\ faults' = faults + 1
          /\ lost' = lost \cup {t.sequence} /\ UNCHANGED pet
    /\ UNCHANGED <<tick, clock, budget, backs>>

\* tick_autonomy_with_lifeform, as far as the snapshot
DecideTick ==
    /\ tick = NoTick
    /\ \E policy \in Policies : tick' \in Decisions(pet, policy, clock)
    /\ UNCHANGED <<pet, timers, clock, lost, budget, backs, faults>>

\* ... and its update, on whatever the pet is by now
ApplyTick ==
    /\ tick # NoTick
    /\ tick' = NoTick
    /\ \/ /\ Update(Decided(pet, tick))
          /\ starts' = IF tick.decision = "Start" /\ ~Overdrawn(pet, tick)
                       THEN starts + 1 ELSE starts
          /\ UNCHANGED faults
       \/ /\ faults < MaxFaults /\ faults' = faults + 1
          /\ UNCHANGED <<pet, starts>>
    /\ UNCHANGED <<timers, clock, lost, latest, backs>>

-----------------------------------------------------------------------------

Advance ==
    /\ clock < MaxTime
    /\ clock' = clock + 1
    /\ latest' = IF clock' > latest THEN clock' ELSE latest
    /\ UNCHANGED <<pet, timers, tick, lost, starts, backs, faults>>

SetBack ==
    /\ backs < MaxBack /\ backs' = backs + 1
    /\ clock' \in 1..clock - 1
    /\ UNCHANGED <<pet, timers, tick, lost, budget, faults>>

\* The process dies and the next one loads the pet (initialize_with_event_bus).
Restart ==
    /\ pet' = Recovered(pet)
    /\ timers' = {} /\ tick' = NoTick
    /\ UNCHANGED <<clock, lost, budget, backs, faults>>

Next ==
    \/ Touch
    \/ NoticePet
    \/ CarePet
    \/ BeginDrag
    \/ \E action \in Actions : DropPet(action)
    \/ \E action \in Actions : PlayAction(action)
    \/ ReturnHome
    \/ ApplyDirective
    \/ \E t \in timers : FireTimer(t)
    \/ DecideTick
    \/ ApplyTick
    \/ Advance
    \/ SetBack
    \/ Restart

Spec == Init /\ [][Next]_vars

-----------------------------------------------------------------------------
(* Correctness.                                                            *)

Pet == [state : States, feedback : Nat, sequence : Nat,
        intent : {"none", "Observe", "Explore", "Play", "Stretch", "Rest"}, until : Nat,
        resume : {"none"} \cup Edges, due : Nat, tokens : Nat, refillAt : Nat]

\* The pet is one that would load again: a point to resume belongs to an
\* action of the pet's own, a feedback is the last one and its state shows it.
TypeOK ==
    /\ pet \in Pet /\ Valid(pet)
    /\ timers \subseteq [ends : {"Interaction", "Notice"}, sequence : Nat]
    /\ tick.policy \in Policies
    /\ clock \in 1..MaxTime

\* A feedback ends: whoever replaced, resumed or overtook what in between, the
\* feedback the pet shows has its timer running, one that will end it in its
\* present state, unless a timer could not save the end.
FeedbackHasItsTimer ==
    pet.feedback \in {0} \cup lost \/ \E t \in timers : Ends(t)

\* The pet begins no more than a full budget and the refills of the time that
\* passed, under every change of profile, through restarts, refused writes,
\* stale decisions and a clock that is set back.
StartsWithinBudget ==
    starts > 0 => \E fast, large \in Policies :
        /\ \A p \in Policies : fast.refill <= p.refill /\ p.capacity <= large.capacity
        /\ starts <= large.capacity + (latest - 1) \div fast.refill

\* "A state of the user may preempt and is not overwritten by the end of an
\* autonomous action ... states such as a drag are not overwritten"
\* (docs/DESKTOP_PET_EXPERIENCE.md:116).
DragOutlastsAutonomy ==
    [][ApplyTick /\ pet.state = "Dragged" => pet'.state = "Dragged"]_vars

\* "Legitimate care may safely end an autonomous action"
\* (docs/DESKTOP_PET_EXPERIENCE.md:124).
CareEndsAutonomy == pet.state # "Dragged" => Valid(CaredFor(pet))

=============================================================================
