---------------------------- MODULE Outbox_proofs ----------------------------
(***************************************************************************)
(* The safety of the outbox for any events, consumers, durations and       *)
(* retry policy.  TypeOK comes first; OutboxInv then strengthens the       *)
(* checked invariants with what a step needs to know of the rows: an event *)
(* without a row was never published or was acknowledged, and each report  *)
(* of a failure is paid for by a claim.                                    *)
(***************************************************************************)
EXTENDS Outbox, TLAPS

USE DEF vars

-----------------------------------------------------------------------------
\* Rows and deliveries keep their types in the initial state.
LEMMA TypeInit == Init => TypeOK
  BY ConsumersAssumption, LimitsAssumption, DurationsAssumption
  DEF Init, TypeOK, RowType, NoRow, NoDelivery, DeliveryType, Nobody

\* Rows and deliveries keep their types in every step.
LEMMA TypeStep == TypeOK /\ [Next]_vars => TypeOK'
<1> SUFFICES ASSUME TypeOK, [Next]_vars PROVE TypeOK'
  OBVIOUS
<1> USE ConsumersAssumption, LimitsAssumption, DurationsAssumption
<1>1. ASSUME NEW e \in Events, Publish(e) PROVE TypeOK'
  BY <1>1 DEF TypeOK, RowType, Publish, NewRow, NoRow
<1>2. ASSUME NEW c \in Consumers, NEW limit \in 1..MaxBatch, Claim(c, limit)
      PROVE TypeOK'
  <2> DEFINE batch == Batch(stamp[c], limit)
             until == stamp[c] + LeaseMs
  <2>1. batch \subseteq Events /\ until \in Nat
    BY DEF Batch, TypeOK
  <2>4. row' = [e \in Events |->
                  IF e \in batch
                  THEN [row[e] EXCEPT !.status = "leased", !.attempts = @ + 1,
                                      !.owner = c, !.until = until]
                  ELSE row[e]]
    BY <1>2 DEF Claim
  <2>5. inbox' = [inbox EXCEPT ![c] = [e \in Events |->
                    IF e \in batch
                    THEN [attempt |-> row[e].attempts + 1, until |-> until]
                    ELSE inbox[c][e]]]
    BY <1>2 DEF Claim
  <2> HIDE DEF batch, until
  <2>6. row' \in [Events -> RowType]
    <3> SUFFICES ASSUME NEW e \in Events PROVE row'[e] \in RowType
      BY <2>4
    <3>1. CASE e \in batch
      <4> DEFINE old == row[e]
      <4>1. old \in RowType
        BY DEF TypeOK
      <4>2. row'[e] = [old EXCEPT !.status = "leased", !.attempts = @ + 1,
                                  !.owner = c, !.until = until]
        BY <2>4, <3>1
      <4>3. old.attempts + 1 \in Nat /\ until \in Nat
        BY <2>1, <4>1 DEF RowType
      <4> HIDE DEF old
      <4>4. row'[e] = [status |-> "leased", attempts |-> old.attempts + 1,
                       available |-> old.available, owner |-> c, until |-> until,
                       delivered |-> old.delivered]
        BY <4>1, <4>2 DEF RowType
      <4> QED
        BY <4>1, <4>3, <4>4 DEF RowType
    <3>2. CASE e \notin batch
      BY <2>4, <3>2 DEF TypeOK
    <3> QED
      BY <3>1, <3>2
  <2>7. \A e \in Events : row'[e].status = "leased" <=> row'[e].owner # Nobody
    <3> TAKE e \in Events
    <3>1. CASE e \in batch
      <4>1. row'[e].status = "leased" /\ row'[e].owner = c
        BY <2>4, <3>1 DEF TypeOK, RowType
      <4> QED
        BY <4>1 DEF Nobody
    <3>2. CASE e \notin batch
      BY <2>4, <3>2 DEF TypeOK
    <3> QED
      BY <3>1, <3>2
  <2>8. inbox' \in [Consumers -> [Events -> DeliveryType]]
    BY <2>1, <2>5 DEF TypeOK, RowType, DeliveryType
  <2> QED
    BY <1>2, <2>6, <2>7, <2>8 DEF Claim, TypeOK
<1>3. ASSUME NEW c \in Consumers, NEW e \in Events, Acknowledge(c, e) PROVE TypeOK'
  <2>1. inbox' \in [Consumers -> [Events -> DeliveryType]]
    BY <1>3 DEF Acknowledge, TypeOK, NoDelivery, DeliveryType
  <2> DEFINE new == [Released(e, "delivered") EXCEPT !.delivered = stamp[c]]
  <2>2. new \in RowType /\ new.status # "leased" /\ new.owner = Nobody
    <3> DEFINE old == row[e]
    <3>1. old \in RowType /\ stamp[c] \in Nat
      BY DEF TypeOK
    <3>2. new = [old EXCEPT !.status = "delivered", !.owner = Nobody, !.until = 0,
                            !.delivered = stamp[c]]
      BY DEF Released
    <3> HIDE DEF old, new
    <3> QED
      BY <3>1, <3>2 DEF RowType
  <2>3. row' = row \/ row' = [row EXCEPT ![e] = new]
    BY <1>3 DEF Acknowledge
  <2>4. /\ acked' \subseteq Events
        /\ UNCHANGED <<stamp, clock, published, failures>>
    BY <1>3 DEF Acknowledge, TypeOK
  <2> HIDE DEF new
  <2>5. row' \in [Events -> RowType]
    BY <2>2, <2>3 DEF TypeOK
  <2>6. \A f \in Events : row'[f].status = "leased" <=> row'[f].owner # Nobody
    BY <2>2, <2>3 DEF TypeOK
  <2> QED
    BY <2>1, <2>4, <2>5, <2>6 DEF TypeOK
<1>4. ASSUME NEW c \in Consumers, NEW e \in Events, Fail(c, e) PROVE TypeOK'
  <2>1. inbox' \in [Consumers -> [Events -> DeliveryType]]
    BY <1>4 DEF Fail, TypeOK, NoDelivery, DeliveryType
  <2> DEFINE new == [Released(e, IF Spent(e) THEN "dead-letter" ELSE "pending")
                       EXCEPT !.available = stamp[c] + RetryMs]
  <2>2. new \in RowType /\ new.status # "leased" /\ new.owner = Nobody
    <3> DEFINE old == row[e]
               status == IF Spent(e) THEN "dead-letter" ELSE "pending"
               available == stamp[c] + RetryMs
    <3>1. /\ old \in RowType
          /\ available \in Nat
          /\ status \in {"pending", "dead-letter"}
      BY DEF TypeOK
    <3>2. new = [old EXCEPT !.status = status, !.owner = Nobody, !.until = 0,
                            !.available = available]
      BY DEF Released
    <3> HIDE DEF old, new, status, available
    <3> QED
      BY <3>1, <3>2 DEF RowType
  <2>3. row' = row \/ row' = [row EXCEPT ![e] = new]
    BY <1>4 DEF Fail
  <2>4. /\ failures' \in [Events -> Nat]
        /\ UNCHANGED <<stamp, clock, published, acked>>
    BY <1>4 DEF Fail, TypeOK
  <2> HIDE DEF new
  <2>5. row' \in [Events -> RowType]
    BY <2>2, <2>3 DEF TypeOK
  <2>6. \A f \in Events : row'[f].status = "leased" <=> row'[f].owner # Nobody
    BY <2>2, <2>3 DEF TypeOK
  <2> QED
    BY <2>1, <2>4, <2>5, <2>6 DEF TypeOK
<1>5. ASSUME NEW before \in 0..clock, NEW limit \in 1..MaxBatch, Purge(before, limit)
      PROVE TypeOK'
  BY <1>5 DEF Purge, TypeOK, RowType, NoRow
<1>6. ASSUME NEW c \in Consumers, ReadClock(c) \/ Die(c) PROVE TypeOK'
  <2>1. CASE ReadClock(c)
    BY <2>1 DEF ReadClock, TypeOK
  <2>2. CASE Die(c)
    <3>1. inbox' \in [Consumers -> [Events -> DeliveryType]]
      BY <2>2 DEF Die, TypeOK, NoDelivery, DeliveryType
    <3> QED
      BY <2>2, <3>1 DEF Die, TypeOK
  <2> QED
    BY <1>6, <2>1, <2>2
<1>7. ASSUME Tick PROVE TypeOK'
  BY <1>7 DEF Tick, TypeOK
<1>8. ASSUME UNCHANGED vars PROVE TypeOK'
  BY <1>8 DEF TypeOK
<1> QED
  BY <1>1, <1>2, <1>3, <1>4, <1>5, <1>6, <1>7, <1>8 DEF Next

\* Rows, deliveries and histories have their types in every reachable state
\* (TypeOK), whatever consumers and clocks do.
THEOREM TypeCorrect == Spec => []TypeOK
<1>1. Init => TypeOK
  BY TypeInit
<1>2. TypeOK /\ [Next]_vars => TypeOK'
  BY TypeStep
<1> QED
  BY <1>1, <1>2, PTL DEF Spec

-----------------------------------------------------------------------------
\* No caller's time is ahead of the real one.
StampsArePast == \A c \in Consumers : stamp[c] <= clock

\* An event has no row and no failure before it is published; afterwards each
\* failure was paid for by a claim, the current claim being still unpaid.
ClaimsPayForFailures ==
    \A e \in Events :
        /\ e \notin published => row[e].status = "none" /\ failures[e] = 0
        /\ row[e].status = "pending" => failures[e] <= row[e].attempts
        /\ row[e].status = "leased" => failures[e] < row[e].attempts

\* What is inductive on top of the types.
OutboxInv ==
    /\ StampsArePast
    /\ LiveLeaseIsRecorded
    /\ NothingLost
    /\ ClaimsPayForFailures
    /\ FailuresAreBounded

\* Nothing is published, leased or failed initially.
LEMMA InvInit == Init => OutboxInv
  BY LimitsAssumption
  DEF Init, OutboxInv, StampsArePast, LiveLeaseIsRecorded, NothingLost,
      ClaimsPayForFailures, FailuresAreBounded, NoRow, NoDelivery

\* A new row is pending, unleased and not failed.
LEMMA InvPublish ==
    ASSUME TypeOK, OutboxInv, NEW e \in Events, Publish(e)
    PROVE  OutboxInv'
<1>1. /\ row[e].status = "none" /\ failures[e] = 0
      /\ row' = [row EXCEPT ![e] = NewRow]
      /\ published' = published \cup {e}
      /\ UNCHANGED <<inbox, stamp, clock, acked, failures>>
  BY DEF Publish, OutboxInv, ClaimsPayForFailures
<1>2. NewRow.status = "pending" /\ NewRow.attempts = 0
  BY DEF NewRow, NoRow
<1>3. \A f \in Events : row'[f] = IF f = e THEN NewRow ELSE row[f]
  BY <1>1 DEF TypeOK
<1>4. StampsArePast' /\ FailuresAreBounded'
  BY <1>1, <1>2, <1>3, LimitsAssumption
  DEF OutboxInv, StampsArePast, FailuresAreBounded
<1>5. LiveLeaseIsRecorded'
  BY <1>1, <1>3 DEF OutboxInv, LiveLeaseIsRecorded
<1>6. NothingLost'
  BY <1>1, <1>2, <1>3 DEF OutboxInv, NothingLost
<1>7. ClaimsPayForFailures'
  BY <1>1, <1>2, <1>3 DEF OutboxInv, ClaimsPayForFailures
<1> QED
  BY <1>4, <1>5, <1>6, <1>7 DEF OutboxInv

\* A claim takes only events nobody holds in real time, since the time it
\* carries is not ahead of the clock.
LEMMA InvClaim ==
    ASSUME TypeOK, OutboxInv, NEW c \in Consumers, NEW limit \in 1..MaxBatch,
           Claim(c, limit)
    PROVE  OutboxInv'
<1> DEFINE batch == Batch(stamp[c], limit)
           until == stamp[c] + LeaseMs
<1>1. \A e \in batch : e \in Events /\ Claimable(e, stamp[c])
  BY DEF Batch
<1>2. stamp[c] \in Nat /\ clock \in Nat /\ stamp[c] <= clock /\ until \in Nat
  BY DurationsAssumption DEF TypeOK, OutboxInv, StampsArePast
<1>3. \A e \in Events :
        IF e \in batch
        THEN /\ row'[e].status = "leased" /\ row'[e].owner = c
             /\ row'[e].attempts = row[e].attempts + 1 /\ row'[e].until = until
             /\ inbox'[c][e].attempt = row[e].attempts + 1
             /\ inbox'[c][e].until = until
        ELSE row'[e] = row[e] /\ inbox'[c][e] = inbox[c][e]
  BY DEF Claim, TypeOK, RowType
<1>4. \A d \in Consumers \ {c} : inbox'[d] = inbox[d]
  BY DEF Claim, TypeOK
<1>5. UNCHANGED <<stamp, clock, published, acked, failures>>
  BY DEF Claim
<1>6. \A e \in batch, d \in Consumers : ~(inbox[d][e].until > clock)
  <2> SUFFICES ASSUME NEW e \in batch, NEW d \in Consumers, inbox[d][e].until > clock
               PROVE FALSE
    OBVIOUS
  <2>1. row[e].status = "leased" /\ row[e].until = inbox[d][e].until
    BY <1>1 DEF OutboxInv, LiveLeaseIsRecorded
  <2>2. row[e].until <= stamp[c]
    BY <1>1, <2>1 DEF Claimable
  <2>3. row[e].until \in Nat
    BY <1>1 DEF TypeOK, RowType
  <2> QED
    BY <1>2, <2>1, <2>2, <2>3
<1>7. \A e \in batch : row[e].status \in {"pending", "leased"}
  BY <1>1 DEF Claimable
<1> HIDE DEF batch, until
<1>8. StampsArePast'
  BY <1>5 DEF OutboxInv, StampsArePast
<1>9. LiveLeaseIsRecorded'
  <2> SUFFICES ASSUME NEW d \in Consumers, NEW e \in Events, inbox'[d][e].until > clock'
               PROVE /\ row'[e].status = "leased" /\ row'[e].owner = d
                     /\ row'[e].attempts = inbox'[d][e].attempt
                     /\ row'[e].until = inbox'[d][e].until
    BY DEF LiveLeaseIsRecorded
  <2>1. CASE e \in batch
    <3>1. d = c
      BY <1>4, <1>5, <1>6, <2>1
    <3> QED
      BY <1>3, <2>1, <3>1
  <2>2. CASE e \notin batch
    <3>1. inbox'[d][e] = inbox[d][e] /\ row'[e] = row[e]
      BY <1>3, <1>4, <2>2
    <3> QED
      BY <1>5, <3>1 DEF OutboxInv, LiveLeaseIsRecorded
  <2> QED
    BY <2>1, <2>2
<1>10. NothingLost'
  BY <1>3, <1>5 DEF OutboxInv, NothingLost, TypeOK
<1>11. ClaimsPayForFailures'
  <2> SUFFICES ASSUME NEW e \in Events
               PROVE /\ e \notin published => row'[e].status = "none" /\ failures[e] = 0
                     /\ row'[e].status = "pending" => failures[e] <= row'[e].attempts
                     /\ row'[e].status = "leased" => failures[e] < row'[e].attempts
    BY <1>5 DEF ClaimsPayForFailures
  <2>1. row[e].attempts \in Nat /\ failures[e] \in Nat
    BY DEF TypeOK, RowType
  <2>2. CASE e \in batch
    <3>1. e \in published /\ failures[e] <= row[e].attempts
      BY <1>7, <2>1, <2>2 DEF OutboxInv, ClaimsPayForFailures
    <3> QED
      BY <1>3, <2>1, <2>2, <3>1
  <2>3. CASE e \notin batch
    BY <1>3, <2>3 DEF OutboxInv, ClaimsPayForFailures
  <2> QED
    BY <2>2, <2>3
<1>12. FailuresAreBounded'
  BY <1>3, <1>5, <1>7 DEF OutboxInv, FailuresAreBounded
<1> QED
  BY <1>8, <1>9, <1>10, <1>11, <1>12 DEF OutboxInv

\* A report is accepted from the row's owner only, and the row it leaves is
\* nobody's: a lease somebody holds in real time is not on that event, or is
\* the reporter's own, who lets go of it.
LEMMA InvReport ==
    ASSUME TypeOK, OutboxInv, NEW c \in Consumers, NEW e \in Events,
           Acknowledge(c, e) \/ Fail(c, e)
    PROVE  StampsArePast' /\ LiveLeaseIsRecorded'
<1>1. /\ inbox' = [inbox EXCEPT ![c][e] = NoDelivery]
      /\ UNCHANGED <<stamp, clock>>
      /\ \/ row' = row
         \/ OwnsLease(c, e) /\ \A f \in Events \ {e} : row'[f] = row[f]
  BY DEF Acknowledge, Fail, TypeOK
<1>2. StampsArePast'
  BY <1>1 DEF OutboxInv, StampsArePast
<1>3. LiveLeaseIsRecorded'
  <2> SUFFICES ASSUME NEW d \in Consumers, NEW f \in Events, inbox'[d][f].until > clock'
               PROVE /\ row'[f].status = "leased" /\ row'[f].owner = d
                     /\ row'[f].attempts = inbox'[d][f].attempt
                     /\ row'[f].until = inbox'[d][f].until
    BY DEF LiveLeaseIsRecorded
  <2>1. clock \in Nat
    BY DEF TypeOK
  <2>2. ~(d = c /\ f = e)
    BY <1>1, <2>1 DEF TypeOK, NoDelivery
  <2>3. inbox'[d][f] = inbox[d][f]
    BY <1>1, <2>2 DEF TypeOK
  <2>4. row[f].status = "leased" /\ row[f].owner = d
    BY <1>1, <2>3 DEF OutboxInv, LiveLeaseIsRecorded
  <2>5. row'[f] = row[f]
    BY <1>1, <2>2, <2>4 DEF OwnsLease
  <2> QED
    BY <1>1, <2>3, <2>5 DEF OutboxInv, LiveLeaseIsRecorded
<1> QED
  BY <1>2, <1>3

\* The acknowledged event had failed less often than the policy allows.
LEMMA InvAcknowledge ==
    ASSUME TypeOK, OutboxInv, NEW c \in Consumers, NEW e \in Events,
           Acknowledge(c, e)
    PROVE  OutboxInv'
<1>1. StampsArePast' /\ LiveLeaseIsRecorded'
  BY InvReport
<1>2. CASE ~OwnsLease(c, e)
  <2>1. UNCHANGED <<row, published, acked, failures>>
    BY <1>2 DEF Acknowledge
  <2> QED
    BY <1>1, <2>1
    DEF OutboxInv, NothingLost, ClaimsPayForFailures, FailuresAreBounded
<1>3. CASE OwnsLease(c, e)
  <2>1. /\ row[e].status = "leased"
        /\ acked' = acked \cup {e} /\ UNCHANGED <<published, failures>>
    BY <1>3 DEF Acknowledge, OwnsLease
  <2>2. row'[e].status = "delivered" /\ \A f \in Events \ {e} : row'[f] = row[f]
    BY <1>3 DEF Acknowledge, Released, TypeOK, RowType
  <2>3. NothingLost'
    BY <2>1, <2>2 DEF OutboxInv, NothingLost, TypeOK
  <2>4. ClaimsPayForFailures'
    BY <2>1, <2>2 DEF OutboxInv, ClaimsPayForFailures
  <2>5. FailuresAreBounded'
    BY <2>1, <2>2 DEF OutboxInv, FailuresAreBounded
  <2> QED
    BY <1>1, <2>3, <2>4, <2>5 DEF OutboxInv
<1> QED
  BY <1>2, <1>3

\* The failure that reaches the limit finds the attempts at the limit too.
LEMMA InvFail ==
    ASSUME TypeOK, OutboxInv, NEW c \in Consumers, NEW e \in Events, Fail(c, e)
    PROVE  OutboxInv'
<1>1. StampsArePast' /\ LiveLeaseIsRecorded'
  BY InvReport
<1>2. CASE ~OwnsLease(c, e)
  <2>1. UNCHANGED <<row, published, acked, failures>>
    BY <1>2 DEF Fail
  <2> QED
    BY <1>1, <2>1
    DEF OutboxInv, NothingLost, ClaimsPayForFailures, FailuresAreBounded
<1>3. CASE OwnsLease(c, e)
  <2>1. /\ row[e].status = "leased" /\ UNCHANGED <<published, acked>>
        /\ failures' = [failures EXCEPT ![e] = @ + 1]
    BY <1>3 DEF Fail, OwnsLease
  <2>2. /\ row'[e].status = IF Spent(e) THEN "dead-letter" ELSE "pending"
        /\ row'[e].attempts = row[e].attempts
        /\ \A f \in Events \ {e} : row'[f] = row[f]
    <3> DEFINE old == row[e]
               status == IF Spent(e) THEN "dead-letter" ELSE "pending"
               available == stamp[c] + RetryMs
               new == [old EXCEPT !.status = status, !.owner = Nobody, !.until = 0,
                                  !.available = available]
    <3>1. row' = [row EXCEPT ![e] = new]
      BY <1>3 DEF Fail, Released
    <3>2. old \in RowType /\ row \in [Events -> RowType]
      BY DEF TypeOK
    <3> HIDE DEF old, status, available
    <3>3. new.status = status /\ new.attempts = old.attempts
      BY <3>2 DEF RowType
    <3> HIDE DEF new
    <3>4. row'[e] = new /\ \A f \in Events \ {e} : row'[f] = row[f]
      BY <3>1, <3>2
    <3> QED
      BY <3>3, <3>4 DEF old, status
  <2>3. /\ failures[e] \in Nat /\ row[e].attempts \in Nat /\ MaxAttempts \in Nat
        /\ failures'[e] = failures[e] + 1
        /\ \A f \in Events \ {e} : failures'[f] = failures[f]
    BY <2>1, LimitsAssumption DEF TypeOK, RowType
  <2>4. failures[e] < row[e].attempts /\ e \in published
    BY <2>1 DEF OutboxInv, ClaimsPayForFailures
  <2>5. NothingLost'
    BY <2>1, <2>2 DEF OutboxInv, NothingLost, TypeOK
  <2>6. ClaimsPayForFailures'
    <3> SUFFICES ASSUME NEW f \in Events
                 PROVE /\ f \notin published => row'[f].status = "none" /\ failures'[f] = 0
                       /\ row'[f].status = "pending" => failures'[f] <= row'[f].attempts
                       /\ row'[f].status = "leased" => failures'[f] < row'[f].attempts
      BY <2>1 DEF ClaimsPayForFailures
    <3>1. CASE f = e
      BY <2>2, <2>3, <2>4, <3>1
    <3>2. CASE f # e
      BY <2>2, <2>3, <3>2 DEF OutboxInv, ClaimsPayForFailures
    <3> QED
      BY <3>1, <3>2
  <2>7. FailuresAreBounded'
    <3> SUFFICES ASSUME NEW f \in Events, failures'[f] >= MaxAttempts
                 PROVE  row'[f].status = "dead-letter"
      BY DEF FailuresAreBounded
    <3>1. CASE f = e
      <4>1. Spent(e)
        BY <2>3, <2>4, <3>1 DEF Spent
      <4> QED
        BY <2>2, <3>1, <4>1
    <3>2. CASE f # e
      BY <2>2, <2>3, <3>2 DEF OutboxInv, FailuresAreBounded
    <3> QED
      BY <3>1, <3>2
  <2> QED
    BY <1>1, <2>5, <2>6, <2>7 DEF OutboxInv
<1> QED
  BY <1>2, <1>3

\* Only acknowledged events are purged, and nobody's lease is among them.
LEMMA InvPurge ==
    ASSUME TypeOK, OutboxInv, NEW before \in 0..clock, NEW limit \in 1..MaxBatch,
           Purge(before, limit)
    PROVE  OutboxInv'
<1>1. UNCHANGED <<inbox, stamp, clock, published, acked, failures>>
  BY DEF Purge
<1>2. \A e \in Events :
        \/ row'[e] = row[e]
        \/ row[e].status = "delivered" /\ row'[e] = NoRow
  BY DEF Purge, Purgeable
<1>3. NoRow.status = "none"
  BY DEF NoRow
<1>4. StampsArePast' /\ LiveLeaseIsRecorded'
  BY <1>1, <1>2 DEF OutboxInv, StampsArePast, LiveLeaseIsRecorded
<1>5. NothingLost'
  BY <1>1, <1>2 DEF OutboxInv, NothingLost, TypeOK
<1>6. ClaimsPayForFailures'
  BY <1>1, <1>2, <1>3 DEF OutboxInv, ClaimsPayForFailures
<1>7. FailuresAreBounded'
  BY <1>1, <1>2 DEF OutboxInv, FailuresAreBounded
<1> QED
  BY <1>4, <1>5, <1>6, <1>7 DEF OutboxInv

\* Reading the clock, dying and the passing of time touch no row.
LEMMA InvElapse ==
    ASSUME TypeOK, OutboxInv,
           (\E c \in Consumers : ReadClock(c) \/ Die(c)) \/ Tick \/ UNCHANGED vars
    PROVE  OutboxInv'
<1>1. UNCHANGED <<row, published, acked, failures>> /\ clock \in Nat /\ clock' \in Nat
  BY DEF ReadClock, Die, Tick, TypeOK
<1>2. NothingLost' /\ ClaimsPayForFailures' /\ FailuresAreBounded'
  BY <1>1 DEF OutboxInv, NothingLost, ClaimsPayForFailures, FailuresAreBounded
<1>3. StampsArePast'
  BY DEF ReadClock, Die, Tick, TypeOK, OutboxInv, StampsArePast
<1>4. LiveLeaseIsRecorded'
  <2> SUFFICES ASSUME NEW c \in Consumers, NEW e \in Events, inbox'[c][e].until > clock'
               PROVE  inbox[c][e].until > clock /\ inbox'[c][e] = inbox[c][e]
    BY <1>1 DEF OutboxInv, LiveLeaseIsRecorded
  <2>1. inbox[c][e].until \in Nat /\ clock' >= clock
    BY DEF ReadClock, Die, Tick, TypeOK, DeliveryType
  <2>2. inbox'[c][e] = inbox[c][e] \/ inbox'[c][e] = NoDelivery
    BY DEF ReadClock, Die, Tick, TypeOK
  <2> QED
    BY <1>1, <2>1, <2>2 DEF NoDelivery
<1> QED
  BY <1>2, <1>3, <1>4 DEF OutboxInv

\* The strengthened invariant holds in every reachable state: an event is
\* never lost, never over-retried and never leased by two consumers at once.
THEOREM OutboxInvariant == Spec => []OutboxInv
<1>1. Init => OutboxInv
  BY InvInit
<1>2. TypeOK /\ OutboxInv /\ [Next]_vars => OutboxInv'
  BY InvPublish, InvClaim, InvAcknowledge, InvFail, InvPurge, InvElapse DEF Next
<1> QED
  BY <1>1, <1>2, TypeCorrect, PTL DEF Spec

\* A lease that has not run out belongs to the owner the row names, so two
\* consumers never both hold one (OneLiveLease), however late their claims
\* reach the database.
THEOREM LeasesAreExclusive == Spec => []OneLiveLease
<1>1. OutboxInv => OneLiveLease
  BY DEF OutboxInv, LiveLeaseIsRecorded, OneLiveLease
<1> QED
  BY <1>1, OutboxInvariant, PTL

\* An event leaves the outbox, or counts as delivered, only when it was
\* acknowledged (NothingLost).
THEOREM EventsAreKept == Spec => []NothingLost
<1>1. OutboxInv => NothingLost
  BY DEF OutboxInv
<1> QED
  BY <1>1, OutboxInvariant, PTL

\* An event whose failures reach the policy's limit is a dead letter, whoever
\* reported them (FailuresAreBounded).
THEOREM RetriesEnd == Spec => []FailuresAreBounded
<1>1. OutboxInv => FailuresAreBounded
  BY DEF OutboxInv
<1> QED
  BY <1>1, OutboxInvariant, PTL
-----------------------------------------------------------------------------
\* What the owner a row names has in memory is the newest delivery, or nothing.
HolderInv ==
    \A c \in Consumers, e \in Events :
        row[e].status = "leased" /\ row[e].owner = c =>
            inbox[c][e] = NoDelivery \/ inbox[c][e].attempt = row[e].attempts

\* A step that leaves each row alone or takes its lease away, and each
\* delivery in memory alone or drops it.
LEMMA HolderQuiet ==
    ASSUME HolderInv,
           \A e \in Events : row'[e] = row[e] \/ row'[e].status # "leased",
           \A c \in Consumers, e \in Events :
               inbox'[c][e] = inbox[c][e] \/ inbox'[c][e] = NoDelivery
    PROVE  HolderInv'
<1> SUFFICES ASSUME NEW c \in Consumers, NEW e \in Events,
                    row'[e].status = "leased", row'[e].owner = c
             PROVE  inbox'[c][e] = NoDelivery \/ inbox'[c][e].attempt = row'[e].attempts
  BY DEF HolderInv, NoDelivery
<1>1. row'[e] = row[e]
  OBVIOUS
<1> QED
  BY <1>1 DEF HolderInv

\* A claim overwrites what the claimer had of the events it takes.
LEMMA HolderClaim ==
    ASSUME TypeOK, HolderInv, NEW c \in Consumers, NEW limit \in 1..MaxBatch,
           Claim(c, limit)
    PROVE  HolderInv'
<1> DEFINE batch == Batch(stamp[c], limit)
<1>1. \A e \in Events :
        IF e \in batch
        THEN /\ row'[e].owner = c /\ row'[e].attempts = row[e].attempts + 1
             /\ inbox'[c][e].attempt = row[e].attempts + 1
        ELSE row'[e] = row[e] /\ inbox'[c][e] = inbox[c][e]
  BY DEF Claim, TypeOK, RowType
<1>2. \A d \in Consumers \ {c} : inbox'[d] = inbox[d]
  BY DEF Claim, TypeOK
<1> HIDE DEF batch
<1> SUFFICES ASSUME NEW d \in Consumers, NEW e \in Events,
                    row'[e].status = "leased", row'[e].owner = d
             PROVE  inbox'[d][e] = NoDelivery \/ inbox'[d][e].attempt = row'[e].attempts
  BY DEF HolderInv, NoDelivery
<1>3. CASE e \in batch
  BY <1>1, <1>3
<1>4. CASE e \notin batch
  <2>1. row'[e] = row[e] /\ inbox'[d][e] = inbox[d][e]
    BY <1>1, <1>2, <1>4
  <2> QED
    BY <2>1 DEF HolderInv
<1> QED
  BY <1>3, <1>4

\* Every step keeps the owner's memory and the row together.
LEMMA HolderStep == TypeOK /\ HolderInv /\ [Next]_vars => HolderInv'
<1> SUFFICES ASSUME TypeOK, HolderInv, [Next]_vars PROVE HolderInv'
  OBVIOUS
<1>1. ASSUME NEW e \in Events, Publish(e) PROVE HolderInv'
  <2>1. \A f \in Events : row'[f] = row[f] \/ row'[f].status # "leased"
    BY <1>1 DEF Publish, TypeOK, NewRow, NoRow
  <2> QED
    BY <1>1, <2>1, HolderQuiet DEF Publish
<1>2. ASSUME NEW c \in Consumers, NEW e \in Events, Acknowledge(c, e) \/ Fail(c, e)
      PROVE  HolderInv'
  <2>1. inbox' = [inbox EXCEPT ![c][e] = NoDelivery]
    BY <1>2 DEF Acknowledge, Fail
  <2>2. \A d \in Consumers, f \in Events :
          inbox'[d][f] = inbox[d][f] \/ inbox'[d][f] = NoDelivery
    BY <2>1 DEF TypeOK
  <2>3. row'[e] = row[e] \/ row'[e].status # "leased"
    <3> DEFINE status == IF Spent(e) THEN "dead-letter" ELSE "pending"
    <3>1. /\ "delivered" # "leased" /\ status # "leased"
          /\ row \in [Events -> RowType]
      BY DEF TypeOK
    <3> HIDE DEF status
    <3>2. CASE Acknowledge(c, e)
      BY <3>1, <3>2 DEF Acknowledge, Released, RowType
    <3>3. CASE Fail(c, e)
      <4>1. \/ row' = row
            \/ row' = [row EXCEPT ![e] = [Released(e, status) EXCEPT
                                           !.available = stamp[c] + RetryMs]]
        BY <3>3 DEF Fail, status
      <4> QED
        BY <3>1, <4>1 DEF Released, RowType
    <3> QED
      BY <1>2, <3>2, <3>3
  <2>4. \A f \in Events \ {e} : row'[f] = row[f]
    BY <1>2 DEF Acknowledge, Fail, TypeOK
  <2> QED
    BY <2>2, <2>3, <2>4, HolderQuiet
<1>3. ASSUME NEW before \in 0..clock, NEW limit \in 1..MaxBatch, Purge(before, limit)
      PROVE  HolderInv'
  <2>1. \A e \in Events : row'[e] = row[e] \/ row'[e].status # "leased"
    BY <1>3 DEF Purge, NoRow
  <2> QED
    BY <1>3, <2>1, HolderQuiet DEF Purge
<1>4. ASSUME NEW c \in Consumers, ReadClock(c) \/ Die(c) PROVE HolderInv'
  <2>1. row' = row /\ \A d \in Consumers, e \in Events :
                        inbox'[d][e] = inbox[d][e] \/ inbox'[d][e] = NoDelivery
    BY <1>4 DEF ReadClock, Die, TypeOK
  <2> QED
    BY <2>1, HolderQuiet
<1>5. ASSUME Tick \/ UNCHANGED vars PROVE HolderInv'
  BY <1>5 DEF Tick, HolderInv
<1> QED
  BY <1>1, <1>2, <1>3, <1>4, <1>5, HolderClaim DEF Next

\* In every reachable state the owner of a lease that died, or already
\* reported, holds nothing; otherwise it holds the delivery the row counts.
THEOREM OwnersHoldTheNewest == Spec => []HolderInv
<1>1. Init => HolderInv
  BY DEF Init, HolderInv, NoRow
<1> QED
  BY <1>1, HolderStep, TypeCorrect, PTL DEF Spec

\* The formula StaleReportsAreRejected says of every step: a lease that ends
\* other than by a claim ends by the report of its newest delivery.
EndsByItsReport ==
    \A e \in Events :
        row[e].status = "leased" /\ row'[e].status # "leased" =>
            \E c \in Consumers :
                /\ inbox[c][e].attempt = row[e].attempts
                /\ inbox'[c][e] = NoDelivery

\* Only an accepted report takes a lease away: claims renew it, a purge
\* touches acknowledged rows only.
LEMMA LeaseEnds ==
    TypeOK /\ HolderInv /\ ClaimsPayForFailures /\ [Next]_vars => EndsByItsReport
<1> SUFFICES ASSUME TypeOK, HolderInv, ClaimsPayForFailures, [Next]_vars,
                    NEW e \in Events, row[e].status = "leased", row'[e].status # "leased"
             PROVE  \E c \in Consumers : /\ inbox[c][e].attempt = row[e].attempts
                                         /\ inbox'[c][e] = NoDelivery
  BY DEF EndsByItsReport
<1>1. ASSUME NEW f \in Events, Publish(f) PROVE FALSE
  BY <1>1 DEF Publish, ClaimsPayForFailures, TypeOK
<1>2. ASSUME NEW c \in Consumers, NEW limit \in 1..MaxBatch, Claim(c, limit) PROVE FALSE
  BY <1>2 DEF Claim, TypeOK, RowType
<1>3. ASSUME NEW before \in 0..clock, NEW limit \in 1..MaxBatch, Purge(before, limit)
      PROVE  FALSE
  BY <1>3 DEF Purge, Purgeable
<1>4. ASSUME (\E c \in Consumers : ReadClock(c) \/ Die(c)) \/ Tick \/ UNCHANGED vars
      PROVE  FALSE
  BY <1>4 DEF ReadClock, Die, Tick
<1>5. ASSUME NEW c \in Consumers, NEW f \in Events, Acknowledge(c, f) \/ Fail(c, f)
      PROVE  inbox[c][e].attempt = row[e].attempts /\ inbox'[c][e] = NoDelivery
  <2>1. f = e /\ OwnsLease(c, e)
    BY <1>5 DEF Acknowledge, Fail, TypeOK
  <2>2. inbox[c][e] # NoDelivery /\ inbox'[c][e] = NoDelivery
    BY <1>5, <2>1 DEF Acknowledge, Fail, TypeOK
  <2> QED
    BY <2>1, <2>2 DEF OwnsLease, HolderInv
<1> QED
  BY <1>1, <1>2, <1>3, <1>4, <1>5 DEF Next

\* The report of an earlier holder changes nothing (StaleReportsAreRejected):
\* acknowledge and fail compare the owner, and the owner holds the newest
\* delivery only, so comparing the attempt is not needed while a consumer
\* name belongs to one process.
THEOREM StaleReportsChangeNothing == Spec => StaleReportsAreRejected
<1>1. TypeOK /\ HolderInv /\ OutboxInv /\ [Next]_vars => [EndsByItsReport]_vars
  BY LeaseEnds DEF OutboxInv
<1>2. Spec => [][EndsByItsReport]_vars
  BY <1>1, TypeCorrect, OwnersHoldTheNewest, OutboxInvariant, PTL DEF Spec
<1> QED
  BY <1>2 DEF StaleReportsAreRejected, EndsByItsReport
=============================================================================
