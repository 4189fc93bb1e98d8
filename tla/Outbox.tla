------------------------------- MODULE Outbox -------------------------------
(***************************************************************************)
(* The transactional event outbox of the shared database: events written   *)
(* with the snapshot they announce, leased in batches by named consumers,  *)
(* acknowledged or failed, retried after a delay, dead-lettered, purged.   *)
(*                                                                         *)
(*   crates/persistence-sqlite/src/lib.rs   SqliteOutboxRepository         *)
(*                                                                         *)
(* Every call carries the time its caller read, and may reach the database *)
(* long after: `stamp' is that reading and `clock' the real time.  What a  *)
(* consumer was handed lives in its memory and is lost when it dies.       *)
(***************************************************************************)
EXTENDS Integers, FiniteSets

CONSTANTS
    Events,       \* event identities, numbered as (created_at, event_id) sorts
    Consumers,    \* consumer names, each used by one process
    LeaseMs,      \* duration of a lease
    RetryMs,      \* delay before a failed event may be claimed again
    MaxAttempts,  \* the retry policy consumers pass to fail
    MaxBatch,     \* bound: largest claim
    MaxTime,      \* bound: last instant explored
    MaxClaims     \* bound: deliveries of one event explored

Nobody == "nobody"  \* lease_owner NULL

ASSUME EventsAssumption == Events \subseteq Nat
ASSUME ConsumersAssumption == Nobody \notin Consumers
ASSUME DurationsAssumption ==
    LeaseMs \in Nat \ {0} /\ RetryMs \in Nat /\ MaxTime \in Nat
ASSUME LimitsAssumption ==
    MaxAttempts \in Nat \ {0} /\ MaxBatch \in Nat \ {0} /\ MaxClaims \in Nat

VARIABLES
    row,       \* row[e]: the event_outbox row, or NoRow
    inbox,     \* inbox[c][e]: the delivery consumer c is handling, or NoDelivery
    stamp,     \* stamp[c]: the time c read for the call it is about to make
    clock,     \* real time
    published, \* history: events whose snapshot was committed
    acked,     \* history: events acknowledged
    failures   \* history: failures reported, by event

vars == <<row, inbox, stamp, clock, published, acked, failures>>

NoRow ==
    [status |-> "none", attempts |-> 0, available |-> 0, owner |-> Nobody,
     until |-> 0, delivered |-> 0]
NewRow == [NoRow EXCEPT !.status = "pending"]
NoDelivery == [attempt |-> 0, until |-> 0]

Init ==
    /\ row = [e \in Events |-> NoRow]
    /\ inbox = [c \in Consumers |-> [e \in Events |-> NoDelivery]]
    /\ stamp = [c \in Consumers |-> 0]
    /\ clock = 0
    /\ published = {}
    /\ acked = {}
    /\ failures = [e \in Events |-> 0]

-----------------------------------------------------------------------------
\* insert_outbox_event, inside the transaction that saves the snapshot.
Publish(e) ==
    /\ e \notin published
    /\ row' = [row EXCEPT ![e] = NewRow]
    /\ published' = published \cup {e}
    /\ UNCHANGED <<inbox, stamp, clock, acked, failures>>

ClaimableEarly(e, now) ==  \* mutant: an expiring lease counts as expired
    \/ row[e].status = "pending" /\ row[e].available <= now
    \/ row[e].status = "leased" /\ row[e].until <= now + 1

Claimable(e, now) ==
    \/ row[e].status = "pending" /\ row[e].available <= now
    \/ row[e].status = "leased" /\ row[e].until <= now

\* ORDER BY created_at, event_id LIMIT limit.
Batch(now, limit) ==
    {e \in Events :
        /\ Claimable(e, now)
        /\ Cardinality({f \in Events : f < e /\ Claimable(f, now)}) < limit}

\* claim: one Immediate transaction leases the batch, whoever held it before.
Claim(c, limit) ==
    LET batch == Batch(stamp[c], limit)
        until == stamp[c] + LeaseMs
    IN  /\ \A e \in batch : row[e].attempts < MaxClaims
        /\ row' = [e \in Events |->
                     IF e \in batch
                     THEN [row[e] EXCEPT !.status = "leased", !.attempts = @ + 1,
                                         !.owner = c, !.until = until]
                     ELSE row[e]]
        /\ inbox' = [inbox EXCEPT ![c] = [e \in Events |->
                       IF e \in batch
                       THEN [attempt |-> row[e].attempts + 1, until |-> until]
                       ELSE inbox[c][e]]]
        /\ UNCHANGED <<stamp, clock, published, acked, failures>>

\* The WHERE clause of both reports.
OwnsByStatusOnly(c, e) ==  \* mutant: lease_owner is not compared
    /\ row[e].status = "leased"
    /\ row[e].until > stamp[c]

OwnsLease(c, e) ==
    /\ row[e].status = "leased"
    /\ row[e].owner = c
    /\ row[e].until > stamp[c]

ReleasedKeepsOwner(e, status) ==  \* mutant: lease_owner is not cleared
    [row[e] EXCEPT !.status = status, !.until = 0]

Released(e, status) == [row[e] EXCEPT !.status = status, !.owner = Nobody, !.until = 0]

\* acknowledge; a consumer told it owns no lease drops the delivery.
Acknowledge(c, e) ==
    /\ inbox[c][e] # NoDelivery
    /\ inbox' = [inbox EXCEPT ![c][e] = NoDelivery]
    /\ IF OwnsLease(c, e)
       THEN /\ row' = [row EXCEPT ![e] =
                         [Released(e, "delivered") EXCEPT !.delivered = stamp[c]]]
            /\ acked' = acked \cup {e}
       ELSE UNCHANGED <<row, acked>>
    /\ UNCHANGED <<stamp, clock, published, failures>>

SpentOffByOne(e) == row[e].attempts > MaxAttempts  \* mutant: one retry too many

Spent(e) == row[e].attempts >= MaxAttempts

\* fail: back to pending after the delay, or dead-lettered.
Fail(c, e) ==
    /\ inbox[c][e] # NoDelivery
    /\ inbox' = [inbox EXCEPT ![c][e] = NoDelivery]
    /\ IF OwnsLease(c, e)
       THEN /\ row' = [row EXCEPT ![e] =
                         [Released(e, IF Spent(e) THEN "dead-letter" ELSE "pending")
                            EXCEPT !.available = stamp[c] + RetryMs]]
            /\ failures' = [failures EXCEPT ![e] = @ + 1]
       ELSE UNCHANGED <<row, failures>>
    /\ UNCHANGED <<stamp, clock, published, acked>>

PurgeableByAge(e, before) ==  \* mutant: old rows of any other status go too
    row[e].status \in {"delivered", "dead-letter"} /\ row[e].delivered < before

Purgeable(e, before) == row[e].status = "delivered" /\ row[e].delivered < before

\* purge_delivered: ORDER BY delivered_at_ms, event_id LIMIT limit.
Purge(before, limit) ==
    LET Sooner(e, f) == \/ row[e].delivered < row[f].delivered
                        \/ row[e].delivered = row[f].delivered /\ e < f
        gone == {f \in Events :
                   /\ Purgeable(f, before)
                   /\ Cardinality({e \in Events : Purgeable(e, before) /\ Sooner(e, f)}) < limit}
    IN  /\ row' = [e \in Events |-> IF e \in gone THEN NoRow ELSE row[e]]
        /\ UNCHANGED <<inbox, stamp, clock, published, acked, failures>>

-----------------------------------------------------------------------------
\* A consumer reads the clock for its next call, or dies; time passes.
ReadClock(c) ==
    /\ stamp' = [stamp EXCEPT ![c] = clock]
    /\ UNCHANGED <<row, inbox, clock, published, acked, failures>>

Die(c) ==
    /\ inbox' = [inbox EXCEPT ![c] = [e \in Events |-> NoDelivery]]
    /\ UNCHANGED <<row, stamp, clock, published, acked, failures>>

Tick ==
    /\ clock < MaxTime
    /\ clock' = clock + 1
    /\ UNCHANGED <<row, inbox, stamp, published, acked, failures>>

Next ==
    \/ \E e \in Events : Publish(e)
    \/ \E c \in Consumers :
         \/ \E limit \in 1..MaxBatch : Claim(c, limit)
         \/ \E e \in Events : Acknowledge(c, e) \/ Fail(c, e)
         \/ ReadClock(c) \/ Die(c)
    \/ \E before \in 0..clock, limit \in 1..MaxBatch : Purge(before, limit)
    \/ Tick

Spec == Init /\ [][Next]_vars

-----------------------------------------------------------------------------
RowType ==
    [status : {"none", "pending", "leased", "delivered", "dead-letter"},
     attempts : Nat, available : Nat, owner : Consumers \cup {Nobody},
     until : Nat, delivered : Nat]
DeliveryType == [attempt : Nat, until : Nat]

\* Every row satisfies the table's constraints, and only a leased one has an
\* owner: each transaction that ends a lease clears it.
TypeOK ==
    /\ row \in [Events -> RowType]
    /\ \A e \in Events : row[e].status = "leased" <=> row[e].owner # Nobody
    /\ inbox \in [Consumers -> [Events -> DeliveryType]]
    /\ stamp \in [Consumers -> Nat]
    /\ clock \in Nat
    /\ published \subseteq Events
    /\ acked \subseteq Events
    /\ failures \in [Events -> Nat]

\* Two consumers never both hold a lease on an event that has not run out in
\* real time, however late their claims reach the database.
OneLiveLease ==
    \A c, d \in Consumers, e \in Events :
        inbox[c][e].until > clock /\ inbox[d][e].until > clock => c = d

\* Whoever holds a lease that has not run out is the owner the row names, at
\* the attempt the row counts: nobody else's report or claim can end it.
LiveLeaseIsRecorded ==
    \A c \in Consumers, e \in Events :
        inbox[c][e].until > clock =>
            /\ row[e].status = "leased"
            /\ row[e].owner = c
            /\ row[e].attempts = inbox[c][e].attempt
            /\ row[e].until = inbox[c][e].until

\* An event is lost only to an acknowledgement: claims by consumers that die,
\* failures, dead-lettering and purging keep every other one in the table.
NothingLost == \A e \in published \ acked : row[e].status \notin {"none", "delivered"}

\* Retries end: the failure the policy does not forgive, counted among all the
\* consumers that took the event, dead-letters it.
FailuresAreBounded ==
    \A e \in Events :
        failures[e] >= MaxAttempts => row[e].status = "dead-letter"

\* A lease ends by its holder's report on the newest delivery, or by a claim
\* that makes a newer one; never by the report of an earlier holder.
StaleReportsAreRejected ==
    [][\A e \in Events :
         row[e].status = "leased" /\ row'[e].status # "leased" =>
            \E c \in Consumers :
                /\ inbox[c][e].attempt = row[e].attempts
                /\ inbox'[c][e] = NoDelivery]_vars
=============================================================================
