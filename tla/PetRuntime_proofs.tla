--------------------------- MODULE PetRuntime_proofs ---------------------------
(***************************************************************************)
(* The durable pet for any actions, policies and bounds: its types, that   *)
(* the feedback it shows has the timer that ends it, and that it begins no *)
(* more on its own than its budget allows.                                 *)
(***************************************************************************)
EXTENDS PetRuntime, FiniteSetTheorems, WellFoundedInduction, TLAPS

-----------------------------------------------------------------------------
\* Numbers.

\* A set of numbers has a least one, and a finite one a greatest.
LEMMA LeastNumber ==
  ASSUME NEW T, T \subseteq Nat, T # {}
  PROVE  \E x \in T : \A y \in T : x <= y
  <1> DEFINE Below == OpToRel(<, Nat)
  <1>1. IsWellFoundedOn(Below, Nat)
    BY NatLessThanWellFounded
  <1>2. \A x, y \in Nat : y < x => <<y, x>> \in Below
    BY DEF OpToRel
  <1> HIDE DEF Below
  <1>3. PICK x \in T : \A y \in T : <<y, x>> \notin Below
    BY <1>1, WFMin
  <1>4. ASSUME NEW y \in T PROVE x <= y
    <2>1. x \in Nat /\ y \in Nat
      OBVIOUS
    <2>2. ~(y < x)
      BY <1>2, <1>3, <2>1
    <2> QED BY <2>1, <2>2
  <1> QED BY <1>4

LEMMA GreatestNumber ==
  ASSUME NEW S, S \subseteq Nat, S # {}, IsFiniteSet(S)
  PROVE  \E x \in S : \A y \in S : y <= x
  <1>1. PICK n \in Nat : ExistsSurjection(1..n, S)
    BY FS_NatSurjection
  <1>2. PICK f \in [1..n -> S] : \A y \in S : \E i \in 1..n : f[i] = y
    BY <1>1 DEF ExistsSurjection, Surjection
  <1> DEFINE Bounds(x, m) == \A i \in 1..n : i > m => f[i] <= x
             T == {m \in 0..n : \E x \in S : Bounds(x, m)}
  <1>3. n \in T
    <2>1. PICK x : x \in S
      OBVIOUS
    <2>2. \A i \in 1..n : ~(i > n)
      OBVIOUS
    <2>3. Bounds(x, n)
      BY <2>2
    <2> QED BY <2>1, <2>3
  <1>4. \A m : m \in T <=> m \in 0..n /\ \E x \in S : Bounds(x, m)
    OBVIOUS
  <1> HIDE DEF T
  <1>5. T \subseteq Nat /\ T # {}
    BY <1>3, <1>4
  <1>6. PICK m \in T : \A k \in T : m <= k
    BY <1>5, LeastNumber
  <1>7. PICK x \in S : Bounds(x, m)
    BY <1>4, <1>6
  <1>8. m \in 0..n /\ x \in Nat
    BY <1>4, <1>6
  <1>9. \A i \in 1..n : f[i] \in Nat /\ f[i] \in S
    BY <1>2
  <1>10. CASE m = 0
    <2>1. \A i \in 1..n : f[i] <= x
      BY <1>7, <1>10
    <2> QED BY <1>2, <2>1
  <1>11. CASE m # 0
    <2>1. m - 1 \in 0..n /\ m \in 1..n
      BY <1>8, <1>11
    <2>2. f[m] \in S /\ f[m] \in Nat
      BY <1>9, <2>1
    <2>3. PICK z \in {x, f[m]} : x <= z /\ f[m] <= z
      BY <1>8, <2>2
    <2>4. z \in S /\ z \in Nat
      BY <1>8, <2>2
    <2>5. Bounds(z, m - 1)
      <3> SUFFICES ASSUME NEW i \in 1..n, i > m - 1 PROVE f[i] <= z
        OBVIOUS
      <3>1. i = m \/ i > m
        BY <1>8
      <3>2. CASE i = m
        BY <2>3, <3>2
      <3>3. CASE i > m
        <4>1. f[i] <= x /\ f[i] \in Nat
          BY <1>7, <1>9, <3>3
        <4> QED BY <1>8, <2>3, <2>4, <4>1
      <3> QED BY <3>1, <3>2, <3>3
    <2>6. m - 1 \in T
      BY <1>4, <2>1, <2>4, <2>5
    <2>7. m <= m - 1
      BY <1>6, <2>6
    <2> QED BY <1>8, <2>7
  <1> QED BY <1>10, <1>11

LEMMA QuotientCovers ==
  ASSUME NEW x \in Nat, NEW r \in Nat \ {0}, NEW g \in Nat, g * r <= x
  PROVE  g <= x \div r
  OBVIOUS

-----------------------------------------------------------------------------
\* The fastest refill and the largest capacity of the policies.

Refill == CHOOSE n \in {p.refill : p \in Policies} : \A p \in Policies : n <= p.refill
Capacity == CHOOSE n \in {p.capacity : p \in Policies} : \A p \in Policies : p.capacity <= n

LEMMA PolicyIs ==
  ASSUME NEW p \in Policies
  PROVE  p.capacity \in Nat \ {0} /\ p.refill \in Nat \ {0} /\ p.active \in BOOLEAN
  BY PetAssumption

LEMMA RefillIs ==
  /\ Refill \in Nat \ {0} /\ Refill \in {p.refill : p \in Policies}
  /\ \A p \in Policies : Refill <= p.refill
  <1> DEFINE S == {p.refill : p \in Policies}
  <1>1. S \subseteq Nat /\ S # {}
    BY PolicyIs, PetAssumption
  <1>2. \E n \in S : \A y \in S : n <= y
    BY <1>1, LeastNumber
  <1>3. \E n \in S : \A p \in Policies : n <= p.refill
    BY <1>2
  <1>4. Refill \in S /\ \A p \in Policies : Refill <= p.refill
    BY <1>3 DEF Refill
  <1> QED BY <1>4, PolicyIs

LEMMA CapacityIs ==
  /\ Capacity \in Nat \ {0} /\ Capacity \in {p.capacity : p \in Policies}
  /\ \A p \in Policies : p.capacity <= Capacity
  <1> DEFINE S == {p.capacity : p \in Policies}
  <1>1. S \subseteq Nat /\ S # {}
    BY PolicyIs, PetAssumption
  <1>2. IsFiniteSet(S)
    <2> DEFINE f == [p \in Policies |-> p.capacity]
    <2>1. f \in Surjection(Policies, S)
      BY DEF Surjection
    <2> HIDE DEF f, S
    <2> QED BY <2>1, FS_Surjection, PetAssumption
  <1>3. \E n \in S : \A y \in S : y <= n
    <2> HIDE DEF S
    <2> QED BY <1>1, <1>2, GreatestNumber
  <1>4. \E n \in S : \A p \in Policies : p.capacity <= n
    BY <1>3
  <1>5. Capacity \in S /\ \A p \in Policies : p.capacity <= Capacity
    BY <1>4 DEF Capacity
  <1> QED BY <1>5, PolicyIs

-----------------------------------------------------------------------------
\* What the rules of the pet return.

LEMMA ActionsAre ==
  /\ \A a \in DOMAIN StateOf : StateOf[a] \in States
  /\ Actions \subseteq DOMAIN StateOf /\ Edges \subseteq DOMAIN StateOf
  /\ "Idle" \in DOMAIN StateOf
  /\ \A plan \in Plans : plan[2] \in DOMAIN StateOf
  /\ {"Interacting", "Observing", "Dragged", "Recovering", "Idle"} \subseteq States
  BY PetAssumption DEF StateOf, States, Edges, Plans

\* The budget and the feedback of q are those of p.
SameBudget(p, q) == q.tokens = p.tokens /\ q.refillAt = p.refillAt
SameFeedback(p, q) ==
    q.feedback = p.feedback /\ q.sequence = p.sequence /\ q.state = p.state

LEMMA AppliedIs ==
  ASSUME NEW p \in Pet, NEW action \in DOMAIN StateOf, NEW q, q = Applied(p, action)
  PROVE  /\ q \in Pet /\ q.feedback = 0 /\ SameBudget(p, q)
         /\ q.resume = p.resume /\ q.intent = p.intent
  <1>1. StateOf[action] \in States
    BY ActionsAre
  <1> QED BY <1>1 DEF Applied, Pet, SameBudget

LEMMA RespondingIs ==
  ASSUME NEW p \in Pet, NEW state \in {"Interacting", "Observing"},
         NEW q, q = Responding(p, state)
  PROVE  /\ q \in Pet /\ q.feedback = q.sequence /\ q.state = state /\ SameBudget(p, q)
  <1>1. PICK n \in Nat : n = p.sequence + 1
    BY DEF Pet
  <1>2. q = [p EXCEPT !.sequence = n, !.feedback = n, !.state = state]
    BY <1>1 DEF Responding
  <1>3. state \in States
    BY ActionsAre
  <1> QED BY <1>1, <1>2, <1>3 DEF Pet, SameBudget

LEMMA UnplannedIs ==
  ASSUME NEW p \in Pet, NEW q, q = Unplanned(p)
  PROVE  q \in Pet /\ SameFeedback(p, q) /\ SameBudget(p, q)
  BY DEF Unplanned, Pet, SameFeedback, SameBudget

LEMMA DueIs ==
  ASSUME NEW p \in Pet, NEW n \in Nat, NEW q, q = [p EXCEPT !.due = n]
  PROVE  q \in Pet /\ SameFeedback(p, q) /\ SameBudget(p, q)
  BY DEF Pet, SameFeedback, SameBudget

\* The grant of a policy: from nothing a full budget; otherwise what is there,
\* or one token for each refill that has passed.
LEMMA GrantIs ==
  ASSUME NEW p \in Pet, NEW policy \in Policies, NEW now \in Nat,
         NEW g, g = Budget(p, policy, now)
  PROVE  /\ g.tokens \in Nat /\ g.refillAt \in Nat
         /\ \/ /\ p.refillAt = 0 /\ g.tokens = policy.capacity
               /\ g.refillAt = now + policy.refill
            \/ /\ p.refillAt # 0 /\ now < p.refillAt
               /\ g.tokens <= p.tokens /\ g.refillAt = p.refillAt
            \/ /\ p.refillAt # 0 /\ p.refillAt <= now
               /\ \E n \in Nat : /\ n * policy.refill <= now - p.refillAt
                                 /\ g.tokens <= p.tokens + n + 1
                                 /\ g.refillAt = p.refillAt + (n + 1) * policy.refill
  <1>1. /\ p.tokens \in Nat /\ p.refillAt \in Nat
        /\ policy.capacity \in Nat \ {0} /\ policy.refill \in Nat \ {0}
    BY PolicyIs DEF Pet
  <1>2. CASE p.refillAt = 0
    <2>1. g = [tokens |-> policy.capacity, refillAt |-> now + policy.refill]
      BY <1>2 DEF Budget
    <2> QED BY <1>1, <1>2, <2>1
  <1>3. CASE p.refillAt # 0 /\ now < p.refillAt
    <2>1. g = [tokens |-> Least(p.tokens, policy.capacity), refillAt |-> p.refillAt]
      BY <1>3 DEF Budget
    <2>2. Least(p.tokens, policy.capacity) \in Nat /\ Least(p.tokens, policy.capacity) <= p.tokens
      BY <1>1 DEF Least
    <2> QED BY <1>1, <1>3, <2>1, <2>2
  <1>4. CASE p.refillAt # 0 /\ ~(now < p.refillAt)
    <2>1. now - p.refillAt \in Nat
      BY <1>1, <1>4
    <2>2. PICK n \in Nat : /\ n = (now - p.refillAt) \div policy.refill
                           /\ n * policy.refill <= now - p.refillAt
      BY <1>1, <2>1
    <2> DEFINE tokens == Least(Least(p.tokens, policy.capacity) + (n + 1), policy.capacity)
    <2>3. g = [tokens |-> tokens, refillAt |-> p.refillAt + (n + 1) * policy.refill]
      BY <1>4, <2>2 DEF Budget
    <2>4. tokens \in Nat /\ tokens <= p.tokens + n + 1
      BY <1>1 DEF Least
    <2>5. p.refillAt + (n + 1) * policy.refill \in Nat
      BY <1>1
    <2> HIDE DEF tokens
    <2> QED BY <1>1, <1>4, <2>2, <2>3, <2>4, <2>5
  <1> QED BY <1>2, <1>3, <1>4

LEMMA BeganIs ==
  ASSUME NEW p \in Pet, NEW t, t.plan \in Plans, t.time \in Nat, t.policy \in Policies,
         ~Overdrawn(p, t), NEW q, q = Began(p, t), NEW g, g = Budget(p, t.policy, t.time)
  PROVE  /\ q \in Pet /\ q.feedback = 0
         /\ q.tokens = g.tokens - 1 /\ q.refillAt = g.refillAt /\ g.tokens \in Nat \ {0}
  <1>1. g.tokens \in Nat \ {0} /\ g.refillAt \in Nat
    BY GrantIs DEF Overdrawn
  <1>2. PICK n \in Nat : n = g.tokens - 1
    BY <1>1
  <1>3. PICK r : r = Applied(p, t.plan[2])
    OBVIOUS
  <1>4. r \in Pet /\ r.feedback = 0
    BY <1>3, AppliedIs, ActionsAre
  <1>5. PICK e \in {"none"} \cup Edges :
           e = IF EdgeOf(p.state) = {} THEN "none" ELSE CHOOSE x \in EdgeOf(p.state) : TRUE
    BY DEF EdgeOf
  <1>6. PICK u \in Nat : u = t.time + 1
    OBVIOUS
  <1>7. PICK i \in {"Observe", "Explore", "Play", "Stretch", "Rest"}, v \in Nat :
           i = t.plan[1] /\ v = g.refillAt
    BY <1>1 DEF Plans
  <1>8. q = [r EXCEPT !.tokens = n, !.refillAt = v, !.resume = e, !.intent = i, !.until = u]
    BY <1>2, <1>3, <1>5, <1>6, <1>7 DEF Began
  <1>9. q \in Pet /\ q.feedback = 0 /\ q.tokens = n /\ q.refillAt = g.refillAt
    <2>1. q \in Pet
      BY ONLY <1>4, <1>8, n \in Nat, v \in Nat, u \in Nat DEF Pet
    <2>2. q.feedback = r.feedback /\ q.tokens = n /\ q.refillAt = v
      BY ONLY <1>4, <1>8 DEF Pet
    <2> QED BY <1>4, <1>7, <2>1, <2>2
  <1> QED BY <1>1, <1>2, <1>9

LEMMA ReturnedIs ==
  ASSUME NEW p \in Pet, NEW q, q = Returned(p)
  PROVE  q \in Pet /\ q.feedback = 0 /\ SameBudget(p, q)
  <1>1. PICK a : a = IF p.resume = "none" THEN "Idle" ELSE p.resume
    OBVIOUS
  <1>2. a \in DOMAIN StateOf
    BY <1>1, ActionsAre DEF Pet
  <1>3. PICK r : r = Applied(p, a)
    OBVIOUS
  <1>4. r \in Pet /\ r.feedback = 0 /\ SameBudget(p, r)
    BY <1>2, <1>3, AppliedIs
  <1>5. q = Unplanned(r)
    BY <1>1, <1>3 DEF Returned
  <1>6. q \in Pet /\ SameFeedback(r, q) /\ SameBudget(r, q)
    BY <1>4, <1>5, UnplannedIs
  <1> QED BY <1>4, <1>6 DEF SameFeedback, SameBudget

-----------------------------------------------------------------------------
\* The inductive invariant.

TickKnown ==
    /\ tick.policy \in Policies /\ tick.time \in Nat
    /\ tick.decision \in {"none", "Start", "Schedule", "Finish", "Suppress", "Interrupt"}
    /\ tick.decision = "none" => tick = NoTick
    /\ tick.decision = "Start" => tick.plan \in Plans /\ tick.time \in 1..latest

\* Every token beyond the largest capacity took a refill's time: by the last
\* refill that came due, as many as `grants'.
Paid(p, begun, time) ==
    \E last \in 1..time, grants \in 0..time :
        /\ 1 + grants * Refill <= last /\ last + Refill <= p.refillAt
        /\ begun + p.tokens <= Capacity + grants

BudgetInv ==
    /\ pet.refillAt = 0 => starts = 0
    /\ pet.refillAt # 0 => Paid(pet, starts, latest)

PetInv ==
    /\ pet \in Pet /\ Valid(pet)
    /\ timers \subseteq [ends : {"Interaction", "Notice"}, sequence : Nat]
    /\ clock \in 1..MaxTime /\ latest \in Nat /\ clock <= latest /\ starts \in Nat
    /\ TickKnown /\ FeedbackHasItsTimer /\ BudgetInv

\* A pet with the budget it had, while time only goes on.
LEMMA BudgetStays ==
  ASSUME BudgetInv, SameBudget(pet, pet'), starts' = starts,
         latest \in Nat, latest' \in Nat, latest <= latest'
  PROVE  BudgetInv'
  <1>1. pet'.refillAt = pet.refillAt /\ pet'.tokens = pet.tokens
    BY DEF SameBudget
  <1>2. CASE pet.refillAt # 0
    <2>1. PICK last \in 1..latest, grants \in 0..latest :
             /\ 1 + grants * Refill <= last /\ last + Refill <= pet.refillAt
             /\ starts + pet.tokens <= Capacity + grants
      BY <1>2 DEF BudgetInv, Paid
    <2>2. last \in 1..latest' /\ grants \in 0..latest'
      OBVIOUS
    <2>3. Paid(pet', starts', latest')
      BY <1>1, <2>1, <2>2 DEF Paid
    <2> QED BY <1>1, <1>2, <2>3 DEF BudgetInv
  <1>3. CASE pet.refillAt = 0
    BY <1>1, <1>3 DEF BudgetInv
  <1> QED BY <1>2, <1>3

\* A pet that shows no feedback, or the one it showed with the timers it had.
LEMMA FeedbackStays ==
  ASSUME FeedbackHasItsTimer, pet'.feedback = 0 \/ SameFeedback(pet, pet'),
         timers \subseteq timers', lost \subseteq lost'
  PROVE  FeedbackHasItsTimer'
  BY DEF FeedbackHasItsTimer, Ends, SameFeedback

LEMMA CommandKeeps ==
  ASSUME PetInv, NEW q \in Pet, Update(q), SameBudget(pet, q),
         q.feedback = 0 \/ SameFeedback(pet, q),
         UNCHANGED <<timers, clock, lost, budget>>,
         tick' = tick \/ tick' = NoTick
  PROVE  PetInv'
  <1>1. /\ pet' = q /\ Valid(pet)' /\ starts' = starts /\ latest' = latest
        /\ timers' = timers /\ clock' = clock
    BY DEF Update, budget, Valid
  <1>2. BudgetInv' /\ FeedbackHasItsTimer'
    BY <1>1, BudgetStays, FeedbackStays DEF PetInv
  <1>3. TickKnown'
    BY <1>1, PetAssumption DEF PetInv, TickKnown, NoTick, AnyPolicy
  <1> QED BY <1>1, <1>2, <1>3 DEF PetInv

\* A command that shows a feedback starts the timer that ends it.
LEMMA FeedbackKeeps ==
  ASSUME PetInv, NEW q \in Pet, q.feedback = q.sequence, SameBudget(pet, q),
         NEW ends \in {"Interaction", "Notice"},
         q.state = (IF ends = "Interaction" THEN "Interacting" ELSE "Observing"),
         Feedback(q, ends)
  PROVE  PetInv'
  <1>1. /\ pet' = q /\ Valid(pet)' /\ starts' = starts /\ latest' = latest
        /\ timers' = timers \cup {[ends |-> ends, sequence |-> q.sequence]}
        /\ clock' = clock /\ tick' = tick
    BY DEF Feedback, Update, budget, Valid
  <1>2. PICK t : t = [ends |-> ends, sequence |-> q.sequence]
    OBVIOUS
  <1>3. t \in [ends : {"Interaction", "Notice"}, sequence : Nat] /\ t.sequence = q.sequence
    BY <1>2 DEF Pet
  <1>4. FeedbackHasItsTimer'
    <2>1. t \in timers' /\ Ends(t)'
      BY <1>1, <1>2 DEF Ends
    <2> QED BY <2>1 DEF FeedbackHasItsTimer
  <1>5. BudgetInv'
    BY <1>1, BudgetStays DEF PetInv
  <1>6. TickKnown'
    BY <1>1 DEF PetInv, TickKnown
  <1> QED BY <1>1, <1>2, <1>3, <1>4, <1>5, <1>6 DEF PetInv

-----------------------------------------------------------------------------
\* Every step keeps the invariant.

LEMMA TouchKeeps ==
  ASSUME PetInv, Touch \/ NoticePet \/ CarePet
  PROVE  PetInv'
  <1>1. pet \in Pet
    BY DEF PetInv
  <1>2. CASE Touch
    <2>1. PICK q : q = Responding(pet, "Interacting")
      OBVIOUS
    <2> QED BY <1>1, <1>2, <2>1, RespondingIs, FeedbackKeeps DEF Touch
  <1>3. CASE NoticePet
    <2>1. PICK q : q = Responding(pet, "Observing")
      OBVIOUS
    <2> QED BY <1>1, <1>3, <2>1, RespondingIs, FeedbackKeeps DEF NoticePet
  <1>4. CASE CarePet
    <2>1. PICK r : r = Responding(pet, "Interacting")
      OBVIOUS
    <2>2. /\ r \in Pet /\ r.feedback = r.sequence /\ r.state = "Interacting"
          /\ SameBudget(pet, r)
      BY <1>1, <2>1, RespondingIs
    <2>3. PICK q : q = [r EXCEPT !.intent = "none", !.until = 0]
      OBVIOUS
    <2>4. q \in Pet /\ q.feedback = q.sequence /\ q.state = "Interacting" /\ SameBudget(pet, q)
      BY <2>2, <2>3 DEF Pet, SameBudget
    <2>5. Feedback(q, "Interaction")
      BY <1>4, <2>1, <2>3 DEF CarePet, CaredFor
    <2> QED BY <2>4, <2>5, FeedbackKeeps
  <1> QED BY <1>2, <1>3, <1>4

LEMMA PlayActionKeeps ==
  ASSUME PetInv, NEW action \in DOMAIN StateOf, Update(Applied(pet, action)), CommandUnchanged
  PROVE  PetInv'
  <1>1. PICK q : q = Applied(pet, action)
    OBVIOUS
  <1>2. q \in Pet /\ q.feedback = 0 /\ SameBudget(pet, q)
    BY <1>1, AppliedIs DEF PetInv
  <1> QED BY <1>1, <1>2, CommandKeeps DEF CommandUnchanged

LEMMA BeginDragKeeps ==
  ASSUME PetInv, BeginDrag
  PROVE  PetInv'
  <1>1. PICK q : q = [pet EXCEPT !.state = "Dragged", !.resume = "none"]
    OBVIOUS
  <1>2. pet \in Pet
    BY DEF PetInv
  <1>3. q \in Pet /\ q.state = "Dragged" /\ SameBudget(pet, q)
    <2>1. "Dragged" \in States
      BY ActionsAre
    <2> QED BY <1>1, <1>2, <2>1 DEF Pet, SameBudget
  <1>4. Update(q) /\ CommandUnchanged
    BY <1>1 DEF BeginDrag
  <1>5. q.feedback = 0
    BY <1>3, <1>4 DEF Update, Valid
  <1> QED BY <1>3, <1>4, <1>5, CommandKeeps DEF CommandUnchanged

LEMMA ApplyDirectiveKeeps ==
  ASSUME PetInv, ApplyDirective
  PROVE  PetInv'
  <1>1. pet \in Pet /\ clock \in Nat
    BY DEF PetInv
  <1>2. CASE \E plan \in {q \in Aligned : q[2] \in Actions} :
                Update([Applied(pet, plan[2]) EXCEPT
                           !.resume = "none", !.intent = plan[1], !.until = clock + 1])
    <2>1. PICK plan \in {q \in Aligned : q[2] \in Actions} :
             Update([Applied(pet, plan[2]) EXCEPT
                        !.resume = "none", !.intent = plan[1], !.until = clock + 1])
      BY <1>2
    <2>2. PICK i \in {"Observe", "Explore", "Play", "Rest"}, u \in Nat :
             i = plan[1] /\ u = clock + 1
      BY <1>1 DEF Aligned
    <2>3. PICK r : r = Applied(pet, plan[2])
      OBVIOUS
    <2>4. r \in Pet /\ r.feedback = 0 /\ SameBudget(pet, r)
      BY <1>1, <2>3, AppliedIs, ActionsAre
    <2>5. PICK q : q = [r EXCEPT !.resume = "none", !.intent = i, !.until = u]
      OBVIOUS
    <2>6. q \in Pet /\ q.feedback = 0 /\ SameBudget(pet, q)
      BY <2>4, <2>5 DEF Pet, SameBudget
    <2>7. Update(q)
      BY <2>1, <2>2, <2>3, <2>5
    <2> QED BY <2>6, <2>7, CommandKeeps DEF ApplyDirective, CommandUnchanged
  <1>3. CASE \E action \in {"Perch", "Celebrate", "Work"} \cap Actions :
                Update(Unplanned(Applied(pet, action)))
    <2>1. PICK action \in Actions : Update(Unplanned(Applied(pet, action)))
      BY <1>3
    <2>2. PICK r : r = Applied(pet, action)
      OBVIOUS
    <2>3. PICK q : q = Unplanned(r)
      OBVIOUS
    <2>4. r \in Pet /\ r.feedback = 0 /\ SameBudget(pet, r)
      BY <1>1, <2>2, AppliedIs, ActionsAre
    <2>5. q \in Pet /\ SameFeedback(r, q) /\ SameBudget(r, q)
      BY <2>3, <2>4, UnplannedIs
    <2>6. q.feedback = 0 /\ SameBudget(pet, q)
      BY <2>4, <2>5 DEF SameFeedback, SameBudget
    <2> QED BY <2>1, <2>2, <2>3, <2>5, <2>6, CommandKeeps DEF ApplyDirective, CommandUnchanged
  <1>4. CASE Update(Unplanned([pet EXCEPT !.state = "Recovering", !.feedback = 0]))
    <2>1. PICK r : r = [pet EXCEPT !.state = "Recovering", !.feedback = 0]
      OBVIOUS
    <2>2. PICK q : q = Unplanned(r)
      OBVIOUS
    <2>3. "Recovering" \in States
      BY ActionsAre
    <2>4. r \in Pet /\ r.feedback = 0 /\ SameBudget(pet, r)
      BY <1>1, <2>1, <2>3 DEF Pet, SameBudget
    <2>5. q \in Pet /\ SameFeedback(r, q) /\ SameBudget(r, q)
      BY <2>2, <2>4, UnplannedIs
    <2>6. q.feedback = 0 /\ SameBudget(pet, q)
      BY <2>4, <2>5 DEF SameFeedback, SameBudget
    <2> QED BY <1>4, <2>1, <2>2, <2>5, <2>6, CommandKeeps DEF ApplyDirective, CommandUnchanged
  <1> QED BY <1>2, <1>3, <1>4 DEF ApplyDirective

\* A timer ends the feedback it was started for, and no other.
LEMMA FireTimerKeeps ==
  ASSUME PetInv, NEW t \in timers, FireTimer(t)
  PROVE  PetInv'
  <1>1. /\ pet \in Pet /\ Valid(pet) /\ timers' = timers \ {t}
        /\ UNCHANGED <<tick, clock, starts, latest>>
    BY DEF PetInv, FireTimer, budget
  <1>2. TickKnown'
    BY <1>1 DEF PetInv, TickKnown
  <1>3. CASE Ends(t) /\ Update(Applied(pet, "Idle")) /\ UNCHANGED lost
    <2>1. PICK q : q = Applied(pet, "Idle")
      OBVIOUS
    <2>2. q \in Pet /\ q.feedback = 0 /\ SameBudget(pet, q) /\ pet' = q /\ Valid(q)
      BY <1>1, <1>3, <2>1, AppliedIs, ActionsAre DEF Update
    <2>3. BudgetInv'
      BY <1>1, <2>2, BudgetStays DEF PetInv
    <2>4. FeedbackHasItsTimer'
      BY <2>2 DEF FeedbackHasItsTimer
    <2> QED BY <1>1, <1>2, <2>2, <2>3, <2>4 DEF PetInv, Valid
  <1>4. CASE UNCHANGED pet /\ (UNCHANGED lost \/ lost' = lost \cup {t.sequence})
             /\ (Ends(t) => lost' = lost \cup {t.sequence})
    <2>1. BudgetInv'
      BY <1>1, <1>4, BudgetStays DEF PetInv, SameBudget
    <2>2. FeedbackHasItsTimer'
      <3>1. CASE Ends(t)
        BY <1>4, <3>1 DEF Ends, FeedbackHasItsTimer
      <3>2. CASE ~Ends(t)
        <4>1. \A u : Ends(u)' = Ends(u)
          BY <1>4 DEF Ends
        <4> QED BY <1>1, <1>4, <3>2, <4>1 DEF PetInv, FeedbackHasItsTimer
      <3> QED BY <3>1, <3>2
    <2> QED BY <1>1, <1>2, <1>4, <2>1, <2>2 DEF PetInv, Valid
  <1> QED BY <1>3, <1>4 DEF FireTimer

LEMMA DecideTickKeeps ==
  ASSUME PetInv, DecideTick
  PROVE  PetInv'
  <1>1. /\ pet \in Pet /\ Valid(pet) /\ clock \in Nat /\ clock \in 1..latest
        /\ UNCHANGED <<pet, timers, clock, lost, starts, latest>>
    BY DEF PetInv, DecideTick, budget
  <1>2. PICK policy \in Policies : tick' \in Decisions(pet, policy, clock)
    BY DEF DecideTick
  <1>3. PICK g : g = Budget(pet, policy, clock)
    OBVIOUS
  <1>4. g.refillAt \in Nat
    BY <1>1, <1>3, GrantIs
  <1>5. AnyPolicy \in Policies
    BY PetAssumption DEF AnyPolicy
  <1>6. TickKnown'
    <2>1. CASE \E d \in {"Interrupt", "Suppress", "Finish", "Schedule"}, n \in Nat :
                  tick' = [decision |-> d, plan |-> NoPlan, time |-> n, policy |-> AnyPolicy]
      BY <1>5, <2>1 DEF TickKnown
    <2>2. CASE \E plan \in Plans :
                  tick' = [decision |-> "Start", plan |-> plan, time |-> clock, policy |-> policy]
      BY <1>1, <2>2 DEF TickKnown
    <2>3. clock + 1 \in Nat /\ 0 \in Nat
      BY <1>1
    <2> QED BY <1>2, <1>3, <1>4, <2>1, <2>2, <2>3 DEF Decisions
  <1>7. BudgetInv' /\ FeedbackHasItsTimer'
    BY <1>1, BudgetStays, FeedbackStays DEF PetInv, SameBudget, SameFeedback
  <1> QED BY <1>1, <1>6, <1>7 DEF PetInv, Valid

LEMMA TimesOneMore ==
  ASSUME NEW a \in Nat, NEW b \in Nat, NEW r \in Nat
  PROVE  /\ (b + 1) * r = b * r + r
         /\ (a + b + 1) * r = a * r + b * r + r
  OBVIOUS

\* One token is spent on a start: of a full budget, of what is there, or of
\* what the refills that came due by then brought.
LEMMA StartIsPaid ==
  ASSUME PetInv, NEW policy \in Policies, NEW now \in 1..latest,
         NEW g, g = Budget(pet, policy, now), g.tokens \in Nat \ {0},
         NEW q \in Pet, q.tokens = g.tokens - 1, q.refillAt = g.refillAt,
         NEW begun, begun = starts + 1
  PROVE  q.refillAt # 0 /\ Paid(q, begun, latest)
  <1>1. /\ pet \in Pet /\ latest \in Nat /\ starts \in Nat /\ pet.tokens \in Nat
        /\ pet.refillAt \in Nat /\ q.tokens \in Nat /\ q.refillAt \in Nat
    BY DEF PetInv, Pet
  <1>2. /\ policy.refill \in Nat \ {0} /\ Refill \in Nat \ {0} /\ Refill <= policy.refill
        /\ policy.capacity \in Nat /\ Capacity \in Nat /\ policy.capacity <= Capacity
    BY PolicyIs, RefillIs, CapacityIs
  <1>3. CASE pet.refillAt = 0
    <2>1. g.tokens = policy.capacity /\ g.refillAt = now + policy.refill /\ starts = 0
      BY <1>1, <1>3, GrantIs DEF PetInv, BudgetInv
    <2>2. 1 + 0 * Refill <= now /\ now + Refill <= q.refillAt
      BY <1>2, <2>1
    <2>3. begun + q.tokens <= Capacity + 0
      BY <1>2, <2>1
    <2>4. Paid(q, begun, latest)
      BY <1>1, <2>2, <2>3 DEF Paid
    <2> QED BY <1>2, <2>1, <2>4
  <1>4. CASE pet.refillAt # 0
    <2>1. PICK last \in 1..latest, grants \in 0..latest :
             /\ 1 + grants * Refill <= last /\ last + Refill <= pet.refillAt
             /\ starts + pet.tokens <= Capacity + grants
      BY <1>4 DEF PetInv, BudgetInv, Paid
    <2>2. CASE g.tokens <= pet.tokens /\ g.refillAt = pet.refillAt
      <3>1. begun + q.tokens <= Capacity + grants
        BY <1>1, <1>2, <2>1, <2>2
      <3>2. Paid(q, begun, latest)
        BY <2>1, <2>2, <3>1 DEF Paid
      <3> QED BY <1>4, <2>2, <3>2
    <2>3. CASE /\ pet.refillAt <= now
               /\ \E n \in Nat : /\ n * policy.refill <= now - pet.refillAt
                                 /\ g.tokens <= pet.tokens + n + 1
                                 /\ g.refillAt = pet.refillAt + (n + 1) * policy.refill
      <3>1. PICK n \in Nat : /\ n * policy.refill <= now - pet.refillAt
                             /\ g.tokens <= pet.tokens + n + 1
                             /\ g.refillAt = pet.refillAt + (n + 1) * policy.refill
        BY <2>3
      <3>2. PICK due \in Nat : due = n * policy.refill
        BY <1>2
      <3>3. n * Refill \in Nat /\ n * Refill <= due /\ grants * Refill \in Nat
        BY <1>2, <2>1, <3>2
      <3>4. /\ (n + 1) * policy.refill = due + policy.refill
            /\ (grants + n + 1) * Refill = grants * Refill + n * Refill + Refill
        <4>1. grants \in Nat /\ policy.refill \in Nat /\ Refill \in Nat
          BY <1>2, <2>1
        <4>2. (n + 1) * policy.refill = n * policy.refill + policy.refill
          BY ONLY n \in Nat, <4>1, TimesOneMore
        <4>3. (grants + n + 1) * Refill = grants * Refill + n * Refill + Refill
          BY ONLY n \in Nat, <4>1, TimesOneMore
        <4> QED BY <3>2, <4>2, <4>3
      <3>5. PICK then \in Nat : then = pet.refillAt + due
        BY <1>1
      <3>6. then \in 1..latest
        BY <1>1, <1>4, <3>1, <3>2, <3>5
      <3>7. 1 + (grants + n + 1) * Refill <= then
        BY <1>1, <1>2, <2>1, <3>3, <3>4, <3>5
      <3>8. then + Refill <= q.refillAt
        BY <1>1, <1>2, <3>1, <3>4, <3>5
      <3>9. begun + q.tokens <= Capacity + (grants + n + 1)
        BY <1>1, <1>2, <2>1, <3>1
      <3>10. grants + n + 1 \in 0..latest
        <4>1. PICK m \in Nat : m = grants + n + 1
          BY <2>1
        <4>2. m <= m * Refill /\ m * Refill \in Nat
          BY <1>2
        <4>3. 1 + m * Refill <= then
          BY <3>7, <4>1
        <4>4. m <= latest
          <5>1. then <= latest /\ latest \in Nat
            BY <1>1, <3>6
          <5>2. PICK x \in Nat : x = m * Refill
            BY <4>2
          <5> QED BY ONLY <3>5, <4>1, <4>2, <4>3, <5>1, <5>2, m \in Nat, then \in Nat
        <4> QED BY <1>1, <4>1, <4>4
      <3>11. Paid(q, begun, latest)
        BY <3>6, <3>7, <3>8, <3>9, <3>10 DEF Paid
      <3> QED BY <1>1, <1>2, <3>8, <3>11
    <2> QED BY <1>1, <1>4, <2>2, <2>3, GrantIs
  <1> QED BY <1>3, <1>4

LEMMA ApplyTickKeeps ==
  ASSUME PetInv, ApplyTick
  PROVE  PetInv'
  <1>1. /\ pet \in Pet /\ TickKnown /\ tick # NoTick /\ tick.decision # "none"
        /\ latest \in Nat /\ starts \in Nat
        /\ tick' = NoTick /\ UNCHANGED <<timers, clock, lost, latest>>
    BY DEF PetInv, ApplyTick, TickKnown
  <1>2. TickKnown'
    BY <1>1, PetAssumption DEF TickKnown, NoTick, AnyPolicy
  <1>3. CASE UNCHANGED <<pet, starts>>
    <2>1. Update(pet) /\ SameBudget(pet, pet) /\ SameFeedback(pet, pet)
      BY <1>3 DEF PetInv, Update, SameBudget, SameFeedback
    <2> QED BY <1>1, <1>3, <2>1, CommandKeeps DEF budget
  <1>4. CASE /\ Update(Decided(pet, tick))
             /\ starts' = IF tick.decision = "Start" /\ ~Overdrawn(pet, tick)
                          THEN starts + 1 ELSE starts
    <2>1. PICK q : q = Decided(pet, tick)
      OBVIOUS
    <2>2. Update(q)
      BY <1>4, <2>1
    <2>3. CASE tick.decision = "Start" /\ ~Overdrawn(pet, tick)
      <3>1. /\ tick.plan \in Plans /\ tick.time \in 1..latest /\ tick.time \in Nat
            /\ tick.policy \in Policies
        BY <1>1, <2>3 DEF TickKnown
      <3>2. q = Began(pet, tick) /\ starts' = starts + 1
        BY <1>4, <2>1, <2>3 DEF Decided
      <3>3. PICK g : g = Budget(pet, tick.policy, tick.time)
        OBVIOUS
      <3>4. /\ q \in Pet /\ q.feedback = 0 /\ q.tokens = g.tokens - 1
            /\ q.refillAt = g.refillAt /\ g.tokens \in Nat \ {0}
        BY <1>1, <2>3, <3>1, <3>2, <3>3, BeganIs
      <3>5. pet' = q /\ Valid(pet)'
        BY <2>2 DEF Update, Valid
      <3>6. q.refillAt # 0 /\ Paid(q, starts', latest)
        BY <3>1, <3>2, <3>3, <3>4, StartIsPaid
      <3>7. BudgetInv'
        BY <1>1, <3>5, <3>6 DEF BudgetInv, Paid
      <3>8. FeedbackHasItsTimer'
        BY <3>4, <3>5 DEF FeedbackHasItsTimer
      <3> QED BY <1>1, <1>2, <3>2, <3>4, <3>5, <3>7, <3>8 DEF PetInv
    <2>4. CASE ~(tick.decision = "Start" /\ ~Overdrawn(pet, tick))
      <3>1. UNCHANGED budget
        BY <1>1, <1>4, <2>4 DEF budget
      <3>2. /\ q \in Pet /\ SameBudget(pet, q)
            /\ q.feedback = 0 \/ SameFeedback(pet, q)
        <4>1. CASE \E n \in Nat : q = [pet EXCEPT !.due = n]
          BY <1>1, <4>1, DueIs
        <4>2. CASE tick.decision \in {"Finish", "Suppress"}
          <5>1. PICK r : r = Returned(pet)
            OBVIOUS
          <5>1t. PICK n \in Nat : n = tick.time
            BY <1>1 DEF TickKnown
          <5>2. q = [r EXCEPT !.due = n]
            BY <2>1, <4>2, <5>1, <5>1t DEF Decided
          <5>3. r \in Pet /\ r.feedback = 0 /\ SameBudget(pet, r)
            BY <1>1, <5>1, ReturnedIs
          <5>4. q \in Pet /\ SameFeedback(r, q) /\ SameBudget(r, q)
            BY <5>2, <5>3, DueIs
          <5> QED BY <5>3, <5>4 DEF SameFeedback, SameBudget
        <4>3. CASE tick.decision = "Interrupt"
          <5>1. PICK r : r = Unplanned(pet)
            OBVIOUS
          <5>1t. PICK n \in Nat : n = tick.time
            BY <1>1 DEF TickKnown
          <5>2. q = [r EXCEPT !.due = n]
            BY <2>1, <4>3, <5>1, <5>1t DEF Decided
          <5>3. r \in Pet /\ SameFeedback(pet, r) /\ SameBudget(pet, r)
            BY <1>1, <5>1, UnplannedIs
          <5>4. q \in Pet /\ SameFeedback(r, q) /\ SameBudget(r, q)
            BY <5>2, <5>3, DueIs
          <5> QED BY <5>3, <5>4 DEF SameFeedback, SameBudget
        <4>4. CASE tick.decision = "Schedule"
          BY <1>1, <2>1, <4>1, <4>4 DEF Decided, TickKnown
        <4>5. CASE tick.decision = "Start" /\ Overdrawn(pet, tick)
          <5>1. PICK g : g = Budget(pet, tick.policy, tick.time)
            OBVIOUS
          <5>2. g.refillAt \in Nat
            BY <1>1, <5>1, GrantIs DEF TickKnown
          <5>3. q = [pet EXCEPT !.due = g.refillAt]
            BY <2>1, <4>5, <5>1 DEF Decided
          <5> QED BY <4>1, <5>2, <5>3
        <4> QED BY <1>1, <2>4, <4>2, <4>3, <4>4, <4>5 DEF TickKnown
      <3> QED BY <1>1, <2>2, <3>1, <3>2, CommandKeeps
    <2> QED BY <2>3, <2>4
  <1> QED BY <1>3, <1>4 DEF ApplyTick

LEMMA ClockKeeps ==
  ASSUME PetInv, Advance \/ SetBack
  PROVE  PetInv'
  <1>1. /\ pet \in Pet /\ Valid(pet) /\ clock \in 1..MaxTime /\ latest \in Nat /\ clock <= latest
        /\ starts \in Nat /\ UNCHANGED <<pet, timers, tick, lost, starts>>
    BY DEF PetInv, Advance, SetBack, budget
  <1>2. /\ clock' \in 1..MaxTime /\ latest' \in Nat /\ clock' <= latest' /\ latest <= latest'
    BY <1>1, PetAssumption DEF Advance, SetBack, budget
  <1>3. BudgetInv' /\ FeedbackHasItsTimer'
    BY <1>1, <1>2, BudgetStays, FeedbackStays DEF PetInv, SameBudget, SameFeedback
  <1>4. TickKnown'
    BY <1>1, <1>2 DEF PetInv, TickKnown
  <1> QED BY <1>1, <1>2, <1>3, <1>4 DEF PetInv, Valid

\* No timer outlives the process; the pet that loads shows no feedback.
LEMMA RestartKeeps ==
  ASSUME PetInv, Restart
  PROVE  PetInv'
  <1>1. /\ pet \in Pet /\ Valid(pet) /\ pet' = Recovered(pet) /\ timers' = {} /\ tick' = NoTick
        /\ UNCHANGED <<clock, lost, starts, latest>> /\ latest \in Nat
    BY DEF PetInv, Restart, budget
  <1>2. /\ pet' \in Pet /\ pet'.feedback = 0 /\ SameBudget(pet, pet')
        /\ pet'.resume = pet.resume /\ pet'.intent = pet.intent
    <2>1. CASE pet.state \in {"Observing", "Dragged", "Interacting", "Recovering"}
      <3>1. pet' = Applied(pet, "Idle")
        BY <1>1, <2>1 DEF Recovered
      <3> QED BY <1>1, <3>1, AppliedIs, ActionsAre
    <2>2. CASE pet.state \notin {"Observing", "Dragged", "Interacting", "Recovering"}
      <3>1. pet' = pet
        BY <1>1, <2>2 DEF Recovered
      <3>2. pet.feedback = 0
        BY <1>1, <2>2 DEF Valid
      <3> QED BY <1>1, <3>1, <3>2 DEF SameBudget
    <2> QED BY <2>1, <2>2
  <1>3. Valid(pet)'
    BY <1>1, <1>2 DEF Valid
  <1>4. BudgetInv'
    BY <1>1, <1>2, BudgetStays DEF PetInv
  <1>5. FeedbackHasItsTimer'
    BY <1>2 DEF FeedbackHasItsTimer
  <1>6. TickKnown'
    BY <1>1, PetAssumption DEF TickKnown, NoTick, AnyPolicy
  <1> QED BY <1>1, <1>2, <1>3, <1>4, <1>5, <1>6 DEF PetInv

LEMMA InitIsGood ==
  ASSUME Init
  PROVE  PetInv
  <1>1. /\ pet = NewPet /\ timers = {} /\ tick = NoTick /\ clock = 1 /\ lost = {}
        /\ starts = 0 /\ latest = 1
    BY DEF Init
  <1>2. pet \in Pet /\ Valid(pet) /\ pet.feedback = 0 /\ pet.refillAt = 0
    <2>1. "Idle" \in States
      BY ActionsAre
    <2> QED BY <1>1, <2>1 DEF NewPet, Pet, Valid
  <1>3. TickKnown
    BY <1>1, PetAssumption DEF TickKnown, NoTick, AnyPolicy
  <1>4. FeedbackHasItsTimer /\ BudgetInv
    BY <1>1, <1>2 DEF FeedbackHasItsTimer, BudgetInv
  <1> QED BY <1>1, <1>2, <1>3, <1>4, PetAssumption DEF PetInv

LEMMA NextKeeps ==
  ASSUME PetInv, [Next]_vars
  PROVE  PetInv'
  <1>1. CASE Touch \/ NoticePet \/ CarePet
    BY <1>1, TouchKeeps
  <1>2. CASE BeginDrag \/ ApplyDirective
    BY <1>2, BeginDragKeeps, ApplyDirectiveKeeps
  <1>3. CASE (\E action \in Actions : DropPet(action) \/ PlayAction(action)) \/ ReturnHome
    BY <1>3, PlayActionKeeps, ActionsAre DEF DropPet, PlayAction, ReturnHome
  <1>4. CASE \E t \in timers : FireTimer(t)
    BY <1>4, FireTimerKeeps
  <1>5. CASE DecideTick \/ ApplyTick
    BY <1>5, DecideTickKeeps, ApplyTickKeeps
  <1>6. CASE Advance \/ SetBack \/ Restart
    BY <1>6, ClockKeeps, RestartKeeps
  <1>7. CASE UNCHANGED vars
    <2>1. UNCHANGED <<pet, timers, tick, clock, lost, budget>>
      BY <1>7 DEF vars
    <2>2. Update(pet) /\ SameBudget(pet, pet) /\ SameFeedback(pet, pet) /\ pet \in Pet
      BY <2>1 DEF PetInv, Update, SameBudget, SameFeedback
    <2> QED BY <2>1, <2>2, CommandKeeps
  <1> QED BY <1>1, <1>2, <1>3, <1>4, <1>5, <1>6, <1>7 DEF Next

-----------------------------------------------------------------------------
\* What holds of every behaviour.

\* The inductive invariant: the pet would load again, its feedback has a timer,
\* its decision is of a time that was, and its tokens were paid in time.
THEOREM PetInvariant == Spec => []PetInv
  BY InitIsGood, NextKeeps, PTL DEF Spec

\* The pet, its timers and its decision are well formed (TypeOK).
THEOREM TypeCorrect == Spec => []TypeOK
  <1>1. PetInv => TypeOK
    BY DEF PetInv, TypeOK, TickKnown
  <1> QED BY <1>1, PetInvariant, PTL

\* A feedback has the timer that ends it, unless the end could not be saved
\* (FeedbackHasItsTimer).
THEOREM FeedbacksEnd == Spec => []FeedbackHasItsTimer
  <1>1. PetInv => FeedbackHasItsTimer
    BY DEF PetInv
  <1> QED BY <1>1, PetInvariant, PTL

\* What the pet began on its own is paid by one full budget and the refills of
\* the time that passed (StartsWithinBudget).
THEOREM AutonomyIsPaid == Spec => []StartsWithinBudget
  <1>1. ASSUME PetInv PROVE StartsWithinBudget
    <2> SUFFICES ASSUME starts > 0
                 PROVE  \E fast, large \in Policies :
                           /\ \A p \in Policies :
                                 fast.refill <= p.refill /\ p.capacity <= large.capacity
                           /\ starts <= large.capacity + (latest - 1) \div fast.refill
      BY DEF StartsWithinBudget
    <2>1. starts \in Nat /\ latest \in Nat /\ latest - 1 \in Nat /\ pet.tokens \in Nat
      BY <1>1 DEF PetInv, Pet
    <2>2. PICK last \in 1..latest, grants \in 0..latest :
             1 + grants * Refill <= last /\ starts + pet.tokens <= Capacity + grants
      BY <1>1, <2>1 DEF PetInv, BudgetInv, Paid
    <2>3. PICK fast \in Policies : fast.refill = Refill
      BY RefillIs
    <2>4. PICK large \in Policies : large.capacity = Capacity
      BY CapacityIs
    <2>5. Refill \in Nat \ {0} /\ Capacity \in Nat
      BY RefillIs, CapacityIs
    <2>6. grants * Refill \in Nat /\ grants * Refill <= latest - 1
      BY <2>1, <2>2, <2>5
    <2>7. (latest - 1) \div Refill \in Nat /\ grants <= (latest - 1) \div Refill
      BY <2>1, <2>2, <2>5, <2>6, QuotientCovers
    <2>8. starts <= Capacity + (latest - 1) \div Refill
      BY <2>1, <2>2, <2>5, <2>7
    <2>9. \A p \in Policies : fast.refill <= p.refill /\ p.capacity <= large.capacity
      BY <2>3, <2>4, RefillIs, CapacityIs
    <2> QED BY <2>3, <2>4, <2>8, <2>9
  <1> QED BY <1>1, PetInvariant, PTL
=============================================================================
