--------------------------- MODULE RuntimeEventBus ---------------------------
(***************************************************************************)
(* The in-process bus that carries runtime events to the automation,       *)
(* skill and user-code sessions: bounded queues that drop their oldest     *)
(* event when a subscriber lags, and count what they dropped.              *)
(*                                                                         *)
(*   crates/runtime-app/src/lib.rs          RuntimeEventBus                *)
(*                                                                         *)
(* Every method holds the one mutex of the bus from its first read to its  *)
(* last write, so each is one step, by whichever thread comes first.       *)
(***************************************************************************)
EXTENDS Integers, Sequences

CONSTANTS
    EventTypes,       \* the types events and filters name
    BufferCapacity,   \* EVENT_BUFFER_CAPACITY, of the shared buffer
    Capacities,       \* queue capacities that sessions ask for
    MaxCapacity,      \* MAX_EVENT_SUBSCRIPTION_CAPACITY
    MaxSubscriptions, \* bound: subscriptions explored
    MaxPublished      \* bound: events explored

ASSUME CapacitiesAssumption ==
    /\ BufferCapacity \in Nat \ {0}
    /\ MaxCapacity \in Nat
    /\ Capacities \subseteq Nat
    /\ MaxSubscriptions \in Nat
    /\ MaxPublished \in Nat

VARIABLES
    events,        \* the shared buffer
    subscriptions, \* subscriptions[i]: what the bus keeps of subscription i
    nextId,        \* next_subscription_id
    published,     \* history: number of events published
    stream,        \* history: stream[i]: the events i's filter let through
    told,          \* history: told[i]: events i was given or told it lost
    received       \* history: received[i]: events i was given, each with the
                   \* place in its stream that the counts put it at

vars == <<events, subscriptions, nextId, published, stream, told, received>>

Ids == 1..MaxSubscriptions
Event == [number : 1..MaxPublished, type : EventTypes]
Absent == [live |-> FALSE, types |-> {}, events |-> <<>>, capacity |-> 0,
           dropped |-> 0]

Init ==
    /\ events = <<>>
    /\ subscriptions = [i \in Ids |-> Absent]
    /\ nextId = 1
    /\ published = 0
    /\ stream = [i \in Ids |-> <<>>]
    /\ told = [i \in Ids |-> 0]
    /\ received = [i \in Ids |-> {}]

-----------------------------------------------------------------------------
(* Plausible defects, each breaking one property.                          *)

\* The oldest event goes and is not counted.
OfferedUncounted(sub, event) ==
    IF Len(sub.events) = sub.capacity
    THEN [sub EXCEPT !.events = Append(Tail(@), event)]
    ELSE [sub EXCEPT !.events = Append(@, event)]

\* The drop count is handed over and not reset.
TakenKeepsCount(sub, n) ==
    [sub EXCEPT !.events = SubSeq(@, n + 1, Len(@))]

\* The comparison with the capacity comes after the push.
OfferedOverfull(sub, event) ==
    IF Len(sub.events) > sub.capacity
    THEN [sub EXCEPT !.events = Append(Tail(@), event), !.dropped = @ + 1]
    ELSE [sub EXCEPT !.events = Append(@, event)]

-----------------------------------------------------------------------------
(* The queue of a subscription.                                            *)

\* An event joins the queue; a full queue loses its oldest event first.
Offered(sub, event) ==
    IF Len(sub.events) = sub.capacity
    THEN [sub EXCEPT !.events = Append(Tail(@), event), !.dropped = @ + 1]
    ELSE [sub EXCEPT !.events = Append(@, event)]

Interested(i, event) ==
    subscriptions[i].live /\ event.type \in subscriptions[i].types

\* The first n queued events and the drop count are handed over together.
Taken(sub, n) ==
    [sub EXCEPT !.events = SubSeq(@, n + 1, Len(@)), !.dropped = 0]

-----------------------------------------------------------------------------
(* The operations of the bus.                                              *)

Subscribe(types, capacity) ==
    /\ types # {}
    /\ capacity > 0 /\ capacity <= MaxCapacity
    /\ nextId \in Ids
    /\ nextId' = nextId + 1
    /\ subscriptions' = [subscriptions EXCEPT ![nextId] =
          [live |-> TRUE, types |-> types, events |-> <<>>,
           capacity |-> capacity, dropped |-> 0]]
    /\ UNCHANGED <<events, published, stream, told, received>>

Publish(type) ==
    /\ published < MaxPublished
    /\ LET event == [number |-> published + 1, type |-> type] IN
          /\ events' = IF Len(events) = BufferCapacity
                       THEN Append(Tail(events), event)
                       ELSE Append(events, event)
          /\ subscriptions' = [i \in Ids |->
                IF Interested(i, event)
                THEN Offered(subscriptions[i], event)
                ELSE subscriptions[i]]
          /\ stream' = [i \in Ids |->
                IF Interested(i, event) THEN Append(stream[i], event)
                ELSE stream[i]]
    /\ published' = published + 1
    /\ UNCHANGED <<nextId, told, received>>

\* The bus's own drain empties the shared buffer and no subscription.
DrainBuffer ==
    /\ events # <<>>
    /\ events' = <<>>
    /\ UNCHANGED <<subscriptions, nextId, published, stream, told, received>>

\* The subscriber of i takes the first n events of its queue; the drops it is
\* told of come before them.
Take(i, n) ==
    LET sub == subscriptions[i]
        before == told[i] + sub.dropped IN
    /\ sub.live
    /\ subscriptions' = [subscriptions EXCEPT ![i] = Taken(sub, n)]
    /\ told' = [told EXCEPT ![i] = before + n]
    /\ received' = [received EXCEPT ![i] =
          @ \cup {<<before + k, sub.events[k]>> : k \in 1..n}]
    /\ UNCHANGED <<events, nextId, published, stream>>

Pop(i) == Take(i, IF subscriptions[i].events = <<>> THEN 0 ELSE 1)

Drain(i) == Take(i, Len(subscriptions[i].events))

\* cancel, or the subscription is dropped with its session.
Cancel(i) ==
    /\ subscriptions[i].live
    /\ subscriptions' = [subscriptions EXCEPT ![i] = Absent]
    /\ UNCHANGED <<events, nextId, published, stream, told, received>>

Next ==
    \/ \E types \in SUBSET EventTypes, c \in Capacities : Subscribe(types, c)
    \/ \E type \in EventTypes : Publish(type)
    \/ DrainBuffer
    \/ \E i \in Ids : Pop(i)
    \/ \E i \in Ids : Drain(i)
    \/ \E i \in Ids : Cancel(i)

Spec == Init /\ [][Next]_vars

-----------------------------------------------------------------------------
(* Correctness.                                                            *)

Subscription ==
    [live : BOOLEAN, types : SUBSET EventTypes, events : Seq(Event),
     capacity : Nat, dropped : Nat]

\* The buffers hold at most what they were sized for, and a subscription
\* that was never made or is over keeps nothing.
TypeOK ==
    /\ events \in Seq(Event) /\ Len(events) <= BufferCapacity
    /\ subscriptions \in [Ids -> Subscription]
    /\ \A i \in Ids :
          /\ Len(subscriptions[i].events) <= subscriptions[i].capacity
          /\ subscriptions[i].live => subscriptions[i].capacity > 0
          /\ ~subscriptions[i].live => subscriptions[i] = Absent
    /\ nextId \in 1..(MaxSubscriptions + 1)
    /\ \A i \in Ids : i >= nextId => ~subscriptions[i].live
    /\ published \in 0..MaxPublished
    /\ stream \in [Ids -> Seq(Event)]
    /\ told \in [Ids -> Nat]
    /\ received \in [Ids -> SUBSET ((Nat \ {0}) \X Event)]

\* Nothing is lost silently: what a subscriber was given or told it lost, what
\* the next batch will report, and what is queued make up its whole stream,
\* and the queue is the newest part of it (publish_locked, drain, pop).
NothingLostSilently ==
    \A i \in Ids : LET sub == subscriptions[i] IN sub.live =>
        /\ told[i] + sub.dropped + Len(sub.events) = Len(stream[i])
        /\ \A k \in 1..Len(sub.events) :
              sub.events[k] = stream[i][told[i] + sub.dropped + k]

\* Gaps are reported in place: a subscriber that counts the events it was
\* given and the drops it was told of knows, at each event, exactly which one
\* of its stream it is, whether it drains or pops and whoever publishes.
GapsAreInPlace ==
    \A i \in Ids : \A entry \in received[i] :
        entry[1] \in 1..Len(stream[i]) /\ entry[2] = stream[i][entry[1]]

=============================================================================
