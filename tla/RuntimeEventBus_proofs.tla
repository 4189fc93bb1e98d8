----------------------- MODULE RuntimeEventBus_proofs -----------------------
(***************************************************************************)
(* No event is lost silently and every gap is reported in its place, for   *)
(* any number of subscriptions, capacities, types and events.              *)
(***************************************************************************)
EXTENDS RuntimeEventBus, TLAPS

\* Identifiers that were not handed out yet have no history.
Unissued ==
    \A i \in Ids : i >= nextId =>
        told[i] = 0 /\ stream[i] = <<>> /\ received[i] = {}

\* The inductive invariant of the bus.
BusInv ==
    /\ TypeOK
    /\ Unissued
    /\ NothingLostSilently
    /\ GapsAreInPlace

-----------------------------------------------------------------------------
(* The queue operators.                                                    *)

\* An event offered to a queue of the expected type leaves one, that ends in
\* the event and is short of the old one by what the count grew.
LEMMA OfferedFacts ==
    ASSUME NEW sub \in Subscription, NEW event \in Event,
           sub.capacity > 0, Len(sub.events) <= sub.capacity
    PROVE  LET new == Offered(sub, event)
               lost == new.dropped - sub.dropped IN
           /\ new \in Subscription
           /\ new.live = sub.live /\ new.capacity = sub.capacity
           /\ Len(new.events) <= new.capacity
           /\ lost \in {0, 1}
           /\ Len(new.events) = Len(sub.events) + 1 - lost
           /\ \A k \in 1..(Len(new.events) - 1) :
                 new.events[k] = sub.events[k + lost]
           /\ new.events[Len(new.events)] = event
<1>1. CASE Len(sub.events) = sub.capacity
  <2>. DEFINE q == Append(Tail(sub.events), event)
  <2>1. sub.events \in Seq(Event) /\ sub.events # <<>>
    BY <1>1 DEF Subscription
  <2>2. Tail(sub.events) \in Seq(Event) /\ Len(Tail(sub.events)) = Len(sub.events) - 1
    BY <2>1
  <2>3. \A k \in 1..Len(Tail(sub.events)) : Tail(sub.events)[k] = sub.events[k + 1]
    BY <2>1
  <2>4. q \in Seq(Event) /\ Len(q) = Len(sub.events)
    BY <2>1, <2>2
  <2>5. /\ \A k \in 1..(Len(q) - 1) : q[k] = sub.events[k + 1]
        /\ q[Len(q)] = event
    BY <2>1, <2>2, <2>3
  <2>6. Offered(sub, event) = [sub EXCEPT !.events = q, !.dropped = @ + 1]
    BY <1>1 DEF Offered
  <2>. HIDE DEF q
  <2>7. /\ Offered(sub, event) \in Subscription
        /\ Offered(sub, event).live = sub.live
        /\ Offered(sub, event).capacity = sub.capacity
        /\ Offered(sub, event).events = q
        /\ Offered(sub, event).dropped = sub.dropped + 1
        /\ sub.dropped \in Nat /\ Len(sub.events) \in Nat
    <3>1. sub.dropped \in Nat /\ Len(sub.events) \in Nat /\ sub.dropped + 1 \in Nat
      BY <2>1 DEF Subscription
    <3>. DEFINE mid == [sub EXCEPT !.events = q]
    <3>2. /\ mid \in Subscription
          /\ mid.live = sub.live /\ mid.capacity = sub.capacity
          /\ mid.events = q /\ mid.dropped = sub.dropped
      BY <2>4 DEF Subscription
    <3>3. Offered(sub, event) = [mid EXCEPT !.dropped = sub.dropped + 1]
      BY <2>6
    <3>. HIDE DEF mid
    <3>. QED BY <3>1, <3>2, <3>3 DEF Subscription
  <2>8. (sub.dropped + 1) - sub.dropped = 1 /\ Len(sub.events) + 1 - 1 = Len(sub.events)
    BY <2>7
  <2>. QED BY <1>1, <2>4, <2>5, <2>7, <2>8
<1>2. CASE Len(sub.events) # sub.capacity
  <2>. DEFINE q == Append(sub.events, event)
  <2>1. sub.events \in Seq(Event)  BY DEF Subscription
  <2>2. q \in Seq(Event) /\ Len(q) = Len(sub.events) + 1  BY <2>1
  <2>3. /\ \A k \in 1..(Len(q) - 1) : q[k] = sub.events[k]
        /\ q[Len(q)] = event
    BY <2>1
  <2>4. Offered(sub, event) = [sub EXCEPT !.events = q]
    BY <1>2 DEF Offered
  <2>. HIDE DEF q
  <2>5. /\ Offered(sub, event) \in Subscription
        /\ Offered(sub, event).live = sub.live
        /\ Offered(sub, event).capacity = sub.capacity
        /\ Offered(sub, event).events = q
        /\ Offered(sub, event).dropped = sub.dropped
        /\ sub.dropped \in Nat /\ sub.capacity \in Nat /\ Len(sub.events) \in Nat
    BY <2>1, <2>2, <2>4 DEF Subscription
  <2>6. /\ sub.dropped - sub.dropped = 0
        /\ Len(sub.events) + 1 - 0 = Len(sub.events) + 1
        /\ Len(sub.events) + 1 <= sub.capacity
    BY <1>2, <2>5
  <2>7. \A k \in 1..(Len(q) - 1) : q[k] = sub.events[k + 0]
    BY <2>2, <2>3, <2>5
  <2>. QED BY <2>2, <2>3, <2>5, <2>6, <2>7
<1>. QED BY <1>1, <1>2

\* Taking n events leaves the rest of the queue and no drop count.
LEMMA TakenFacts ==
    ASSUME NEW sub \in Subscription, NEW n \in 0..Len(sub.events)
    PROVE  LET new == Taken(sub, n) IN
           /\ new \in Subscription
           /\ new.live = sub.live /\ new.capacity = sub.capacity
           /\ new.dropped = 0
           /\ Len(new.events) = Len(sub.events) - n
           /\ \A k \in 1..Len(new.events) : new.events[k] = sub.events[k + n]
<1>. DEFINE q == SubSeq(sub.events, n + 1, Len(sub.events))
<1>1. sub.events \in Seq(Event)  BY DEF Subscription
<1>2. q \in Seq(Event) /\ Len(q) = Len(sub.events) - n
  BY <1>1
<1>3. \A k \in 1..Len(q) : q[k] = sub.events[k + n]
  BY <1>1, <1>2
<1>4. Taken(sub, n) = [sub EXCEPT !.events = q, !.dropped = 0]
  BY DEF Taken
<1>. HIDE DEF q
<1>5. /\ Taken(sub, n) \in Subscription
      /\ Taken(sub, n).live = sub.live
      /\ Taken(sub, n).capacity = sub.capacity
      /\ Taken(sub, n).events = q
      /\ Taken(sub, n).dropped = 0
  <2>. DEFINE mid == [sub EXCEPT !.events = q]
  <2>1. /\ mid \in Subscription
        /\ mid.live = sub.live /\ mid.capacity = sub.capacity /\ mid.events = q
    BY <1>2 DEF Subscription
  <2>2. Taken(sub, n) = [mid EXCEPT !.dropped = 0]
    BY <1>4
  <2>. HIDE DEF mid
  <2>3. 0 \in Nat  OBVIOUS
  <2>. QED BY <2>1, <2>2, <2>3 DEF Subscription
<1>. QED BY <1>2, <1>3, <1>5

-----------------------------------------------------------------------------
(* The operations.                                                         *)

LEMMA BusInit == Init => BusInv
<1>. SUFFICES ASSUME Init PROVE BusInv  OBVIOUS
<1>. USE CapacitiesAssumption
<1>1. Absent \in Subscription  BY DEF Absent, Subscription
<1>. QED
  BY <1>1 DEF Init, BusInv, TypeOK, Unissued, NothingLostSilently,
              GapsAreInPlace, Ids, Absent

LEMMA BusSubscribe ==
    ASSUME BusInv, NEW types \in SUBSET EventTypes, NEW c \in Capacities,
           Subscribe(types, c)
    PROVE  BusInv'
<1>. USE CapacitiesAssumption
<1>. DEFINE new == [live |-> TRUE, types |-> types, events |-> <<>>,
                    capacity |-> c, dropped |-> 0]
<1>1. new \in Subscription /\ Len(new.events) = 0
  BY DEF Subscription
<1>2. /\ nextId \in Ids /\ nextId' = nextId + 1 /\ c > 0
      /\ subscriptions' = [subscriptions EXCEPT ![nextId] = new]
      /\ UNCHANGED <<events, published, stream, told, received>>
  BY DEF Subscribe
<1>3. new.live /\ new.capacity = c /\ new.dropped = 0 /\ new.events = <<>>
  OBVIOUS
<1>. HIDE DEF new
<1>t. TypeOK /\ Unissued  BY DEF BusInv
<1>n. nextId \in Nat /\ nextId <= MaxSubscriptions
  BY <1>2 DEF Ids
<1>a. \A j \in Ids : subscriptions'[j] = IF j = nextId THEN new ELSE subscriptions[j]
  BY <1>2, <1>t DEF TypeOK
<1>4. TypeOK'
  <2>1. subscriptions' \in [Ids -> Subscription]
    BY <1>1, <1>2, <1>t DEF TypeOK
  <2>2. nextId' \in 1..(MaxSubscriptions + 1)
    BY <1>2, <1>n
  <2>3. \A j \in Ids : /\ Len(subscriptions'[j].events) <= subscriptions'[j].capacity
                       /\ subscriptions'[j].live => subscriptions'[j].capacity > 0
                       /\ ~subscriptions'[j].live => subscriptions'[j] = Absent
    <3>1. c \in Nat  OBVIOUS
    <3>. QED BY <3>1, <1>1, <1>2, <1>3, <1>a, <1>t DEF TypeOK
  <2>4. \A j \in Ids : j >= nextId' => ~subscriptions'[j].live
    BY <1>2, <1>n, <1>a, <1>t DEF TypeOK, Ids
  <2>. QED BY <2>1, <2>2, <2>3, <2>4, <1>2, <1>t DEF TypeOK
<1>5. Unissued'
  BY <1>2, <1>n, <1>t DEF Unissued, Ids
<1>6. NothingLostSilently'
  <2>. SUFFICES ASSUME NEW i \in Ids, subscriptions'[i].live
                PROVE  /\ told'[i] + subscriptions'[i].dropped
                            + Len(subscriptions'[i].events) = Len(stream'[i])
                       /\ \A k \in 1..Len(subscriptions'[i].events) :
                             subscriptions'[i].events[k]
                               = stream'[i][told'[i] + subscriptions'[i].dropped + k]
    BY DEF NothingLostSilently
  <2>1. CASE i = nextId
    <3>1. told[i] = 0 /\ stream[i] = <<>>
      BY <2>1, <1>n, <1>t DEF Unissued
    <3>. QED BY <3>1, <2>1, <1>2, <1>3, <1>a
  <2>2. CASE i # nextId
    BY <2>2, <1>2, <1>a DEF BusInv, NothingLostSilently
  <2>. QED BY <2>1, <2>2
<1>7. GapsAreInPlace'
  BY <1>2 DEF BusInv, GapsAreInPlace
<1>. QED BY <1>4, <1>5, <1>6, <1>7 DEF BusInv

\* The queue stays the newest part of the stream when both get the event.
LEMMA OfferedIsNewest ==
    ASSUME NEW sub \in Subscription, NEW event \in Event,
           sub.capacity > 0, Len(sub.events) <= sub.capacity,
           NEW s \in Seq(Event), NEW t \in Nat,
           t + sub.dropped + Len(sub.events) = Len(s),
           \A k \in 1..Len(sub.events) : sub.events[k] = s[t + sub.dropped + k]
    PROVE  LET new == Offered(sub, event)
               longer == Append(s, event) IN
           /\ t + new.dropped + Len(new.events) = Len(longer)
           /\ \A k \in 1..Len(new.events) :
                 new.events[k] = longer[t + new.dropped + k]
<1>. DEFINE new == Offered(sub, event)
            longer == Append(s, event)
<1>1. PICK lost \in {0, 1} :
         /\ new \in Subscription
         /\ lost = new.dropped - sub.dropped
         /\ Len(new.events) = Len(sub.events) + 1 - lost
         /\ \A k \in 1..(Len(new.events) - 1) : new.events[k] = sub.events[k + lost]
         /\ new.events[Len(new.events)] = event
  BY OfferedFacts
<1>. HIDE DEF new
<1>2. /\ sub.dropped \in Nat /\ new.dropped \in Nat
      /\ sub.events \in Seq(Event) /\ new.events \in Seq(Event)
  BY <1>1 DEF Subscription
<1>3. PICK a \in Nat, b \in Nat, m \in Nat, n \in Nat :
         /\ a = sub.dropped /\ b = new.dropped
         /\ m = Len(sub.events) /\ n = Len(new.events)
  BY <1>2
<1>4. b = a + lost /\ n = m + 1 - lost /\ t + a + m = Len(s)
  BY <1>1, <1>3
<1>5. /\ Len(longer) = Len(s) + 1 /\ longer[Len(s) + 1] = event
      /\ \A k \in 1..Len(s) : longer[k] = s[k]
  OBVIOUS
<1>. HIDE DEF longer
<1>6. t + b + n = Len(s) + 1
  BY <1>4
<1>7. ASSUME NEW k \in 1..n PROVE new.events[k] = longer[t + b + k]
  <2>1. CASE k = n
    BY <2>1, <1>1, <1>3, <1>5, <1>6
  <2>2. CASE k # n
    <3>1. k + lost \in 1..m /\ k \in 1..(n - 1)
      BY <2>2, <1>4
    <3>2. new.events[k] = s[t + a + (k + lost)]
      BY <3>1, <1>1, <1>3
    <3>3. t + a + (k + lost) = t + b + k /\ t + b + k \in 1..Len(s)
      BY <3>1, <1>4
    <3>. QED BY <3>2, <3>3, <1>5
  <2>. QED BY <2>1, <2>2
<1>. QED BY <1>3, <1>5, <1>6, <1>7 DEF new, longer

LEMMA BusPublish ==
    ASSUME BusInv, NEW type \in EventTypes, Publish(type)
    PROVE  BusInv'
<1>. USE CapacitiesAssumption
<1>. DEFINE event == [number |-> published + 1, type |-> type]
<1>1. /\ event \in Event
      /\ published' \in 0..MaxPublished
  BY DEF Publish, BusInv, TypeOK, Event
<1>2. /\ events' = IF Len(events) = BufferCapacity
                   THEN Append(Tail(events), event) ELSE Append(events, event)
      /\ subscriptions' = [i \in Ids |-> IF Interested(i, event)
                             THEN Offered(subscriptions[i], event)
                             ELSE subscriptions[i]]
      /\ stream' = [i \in Ids |-> IF Interested(i, event)
                             THEN Append(stream[i], event) ELSE stream[i]]
      /\ UNCHANGED <<nextId, told, received>>
  BY DEF Publish
<1>. HIDE DEF event
<1>3. events' \in Seq(Event) /\ Len(events') <= BufferCapacity
  <2>1. events \in Seq(Event) /\ Len(events) <= BufferCapacity
    BY DEF BusInv, TypeOK
  <2>2. CASE Len(events) = BufferCapacity
    <3>1. Tail(events) \in Seq(Event) /\ Len(Tail(events)) = Len(events) - 1
      BY <2>1, <2>2
    <3>. QED BY <3>1, <1>1, <1>2, <2>2
  <2>3. CASE Len(events) # BufferCapacity
    BY <2>1, <2>3, <1>1, <1>2
  <2>. QED BY <2>2, <2>3
<1>4. \A i \in Ids : /\ stream[i] \in Seq(Event)
                     /\ subscriptions[i] \in Subscription
                     /\ told[i] \in Nat
  BY DEF BusInv, TypeOK
<1>5. ASSUME NEW i \in Ids
      PROVE  /\ subscriptions'[i] \in Subscription
             /\ subscriptions'[i].live = subscriptions[i].live
             /\ subscriptions'[i].capacity = subscriptions[i].capacity
             /\ Len(subscriptions'[i].events) <= subscriptions'[i].capacity
             /\ ~subscriptions'[i].live => subscriptions'[i] = subscriptions[i]
  <2>1. CASE Interested(i, event)
    <3>1. /\ subscriptions[i].capacity > 0
          /\ Len(subscriptions[i].events) <= subscriptions[i].capacity
          /\ subscriptions[i].live
      BY <2>1 DEF Interested, BusInv, TypeOK
    <3>. QED BY <2>1, <3>1, <1>1, <1>2, <1>4, OfferedFacts
  <2>2. CASE ~Interested(i, event)
    BY <2>2, <1>2, <1>4 DEF BusInv, TypeOK
  <2>. QED BY <2>1, <2>2
<1>6. ASSUME NEW i \in Ids
      PROVE  /\ stream'[i] \in Seq(Event)
             /\ Len(stream'[i]) >= Len(stream[i])
             /\ \A k \in 1..Len(stream[i]) : stream'[i][k] = stream[i][k]
  BY <1>1, <1>2, <1>4
<1>7. TypeOK'
  <2>1. subscriptions' \in [Ids -> Subscription] /\ stream' \in [Ids -> Seq(Event)]
    BY <1>2, <1>5, <1>6
  <2>. QED BY <2>1, <1>1, <1>2, <1>3, <1>5 DEF BusInv, TypeOK
<1>8. Unissued'
  BY <1>2 DEF BusInv, Unissued, TypeOK, Interested, Ids
<1>9. NothingLostSilently'
  <2>. SUFFICES ASSUME NEW i \in Ids, subscriptions'[i].live
                PROVE  /\ told'[i] + subscriptions'[i].dropped
                            + Len(subscriptions'[i].events) = Len(stream'[i])
                       /\ \A k \in 1..Len(subscriptions'[i].events) :
                             subscriptions'[i].events[k]
                               = stream'[i][told'[i] + subscriptions'[i].dropped + k]
    BY DEF NothingLostSilently
  <2>. DEFINE sub == subscriptions[i]
              new == subscriptions'[i]
  <2>1. /\ sub \in Subscription /\ stream[i] \in Seq(Event) /\ told[i] \in Nat
        /\ told[i] + sub.dropped + Len(sub.events) = Len(stream[i])
        /\ \A k \in 1..Len(sub.events) :
              sub.events[k] = stream[i][told[i] + sub.dropped + k]
    BY <1>4, <1>5 DEF BusInv, NothingLostSilently
  <2>2. CASE Interested(i, event)
    <3>1. /\ sub.capacity > 0 /\ Len(sub.events) <= sub.capacity
      BY <2>2 DEF Interested, BusInv, TypeOK
    <3>2. new = Offered(sub, event) /\ stream'[i] = Append(stream[i], event)
      BY <2>2, <1>2
    <3>3. told'[i] = told[i]  BY <1>2
    <3>4. LET n == Offered(sub, event)
              longer == Append(stream[i], event) IN
          /\ told[i] + n.dropped + Len(n.events) = Len(longer)
          /\ \A k \in 1..Len(n.events) :
                n.events[k] = longer[told[i] + n.dropped + k]
      <4>. HIDE DEF sub, new
      <4>. QED BY <2>1, <3>1, <1>1, OfferedIsNewest
    <3>. QED BY <3>2, <3>3, <3>4
  <2>3. CASE ~Interested(i, event)
    BY <2>1, <2>3, <1>2
  <2>. QED BY <2>2, <2>3
<1>10. GapsAreInPlace'
  BY <1>2, <1>4, <1>6 DEF BusInv, GapsAreInPlace
<1>. QED BY <1>7, <1>8, <1>9, <1>10 DEF BusInv

LEMMA BusTake ==
    ASSUME BusInv, NEW i \in Ids,
           NEW n \in 0..Len(subscriptions[i].events), Take(i, n)
    PROVE  BusInv'
<1>. USE CapacitiesAssumption
<1>. DEFINE sub == subscriptions[i]
            new == Taken(sub, n)
            before == told[i] + sub.dropped
            given == {<<before + k, sub.events[k]>> : k \in 1..n}
<1>1. /\ sub.live
      /\ subscriptions' = [subscriptions EXCEPT ![i] = new]
      /\ told' = [told EXCEPT ![i] = before + n]
      /\ received' = [received EXCEPT ![i] = @ \cup given]
      /\ UNCHANGED <<events, nextId, published, stream>>
  BY DEF Take
<1>2. /\ sub \in Subscription /\ stream[i] \in Seq(Event) /\ told[i] \in Nat
      /\ sub.dropped \in Nat /\ sub.events \in Seq(Event)
      /\ Len(sub.events) <= sub.capacity /\ sub.capacity > 0
      /\ n \in Nat /\ n <= Len(sub.events)
  BY <1>1 DEF BusInv, TypeOK, Subscription
<1>3. /\ before + Len(sub.events) = Len(stream[i])
      /\ \A k \in 1..Len(sub.events) : sub.events[k] = stream[i][before + k]
  BY <1>1 DEF BusInv, NothingLostSilently
<1>4. /\ new \in Subscription
      /\ new.live = sub.live /\ new.capacity = sub.capacity
      /\ new.dropped = 0
      /\ Len(new.events) = Len(sub.events) - n
      /\ \A k \in 1..Len(new.events) : new.events[k] = sub.events[k + n]
  BY <1>2, TakenFacts
<1>5. before \in Nat  BY <1>2
<1>6. \A entry \in given :
         /\ entry \in (Nat \ {0}) \X Event
         /\ entry[1] \in 1..Len(stream[i]) /\ entry[2] = stream[i][entry[1]]
  <2>. SUFFICES ASSUME NEW k \in 1..n
                PROVE  /\ <<before + k, sub.events[k]>> \in (Nat \ {0}) \X Event
                       /\ before + k \in 1..Len(stream[i])
                       /\ sub.events[k] = stream[i][before + k]
    OBVIOUS
  <2>1. k \in 1..Len(sub.events)  BY <1>2
  <2>2. sub.events[k] \in Event  BY <2>1, <1>2
  <2>. HIDE DEF sub, before
  <2>. QED BY <2>1, <2>2, <1>3, <1>2, <1>5
<1>. HIDE DEF sub, new, before, given
<1>7. i < nextId  BY <1>1 DEF BusInv, TypeOK, sub, Ids
<1>8. TypeOK'
  <2>1. subscriptions' \in [Ids -> Subscription]
    BY <1>1, <1>4 DEF BusInv, TypeOK
  <2>2. told' \in [Ids -> Nat]
    BY <1>1, <1>2, <1>5 DEF BusInv, TypeOK
  <2>3. received' \in [Ids -> SUBSET ((Nat \ {0}) \X Event)]
    BY <1>1, <1>6 DEF BusInv, TypeOK
  <2>4. \A j \in Ids :
          /\ Len(subscriptions'[j].events) <= subscriptions'[j].capacity
          /\ subscriptions'[j].live => subscriptions'[j].capacity > 0
          /\ ~subscriptions'[j].live => subscriptions'[j] = Absent
    <3>. TAKE j \in Ids
    <3>1. CASE j = i
      <4>1. subscriptions'[j] = new
        BY <3>1, <1>1 DEF BusInv, TypeOK
      <4>2. Len(sub.events) \in Nat /\ sub.capacity \in Nat
        BY <1>2 DEF Subscription
      <4>. QED BY <4>1, <4>2, <1>1, <1>2, <1>4
    <3>2. CASE j # i
      BY <3>2, <1>1 DEF BusInv, TypeOK
    <3>. QED BY <3>1, <3>2
  <2>5. \A j \in Ids : j >= nextId' => ~subscriptions'[j].live
    BY <1>1, <1>7 DEF BusInv, TypeOK, Ids
  <2>. QED BY <2>1, <2>2, <2>3, <2>4, <2>5, <1>1 DEF BusInv, TypeOK
<1>9. Unissued'
  BY <1>1, <1>7 DEF BusInv, TypeOK, Unissued, Ids
<1>10. NothingLostSilently'
  <2>. SUFFICES ASSUME NEW j \in Ids, subscriptions'[j].live
                PROVE  /\ told'[j] + subscriptions'[j].dropped
                            + Len(subscriptions'[j].events) = Len(stream'[j])
                       /\ \A k \in 1..Len(subscriptions'[j].events) :
                             subscriptions'[j].events[k]
                               = stream'[j][told'[j] + subscriptions'[j].dropped + k]
    BY DEF NothingLostSilently
  <2>1. CASE j = i
    <3>1. subscriptions'[j] = new /\ told'[j] = before + n /\ stream'[j] = stream[i]
      BY <2>1, <1>1 DEF BusInv, TypeOK
    <3>2. ASSUME NEW k \in 1..Len(new.events)
          PROVE  new.events[k] = stream[i][before + n + 0 + k]
      <4>1. k + n \in 1..Len(sub.events)  BY <1>2, <1>4
      <4>2. new.events[k] = stream[i][before + (k + n)]  BY <4>1, <1>3, <1>4
      <4>. QED BY <4>2, <1>2, <1>5
    <3>3. before + n + 0 + Len(new.events) = Len(stream[i])
      <4>1. Len(sub.events) \in Nat /\ n \in Nat /\ before \in Nat
        BY <1>2, <1>5
      <4>2. before + Len(sub.events) = Len(stream[i])  BY <1>3
      <4>3. Len(new.events) = Len(sub.events) - n  BY <1>4
      <4>4. ASSUME NEW b \in Nat, NEW m \in Nat, NEW l \in Nat
            PROVE  b + m + 0 + (l - m) = b + l
        OBVIOUS
      <4>5. before + n + 0 + (Len(sub.events) - n) = before + Len(sub.events)
        BY <4>1, <4>4, Zenon
      <4>. QED BY <4>2, <4>3, <4>5, Zenon
    <3>. QED BY <3>1, <3>2, <3>3, <1>4
  <2>2. CASE j # i
    BY <2>2, <1>1 DEF BusInv, TypeOK, NothingLostSilently
  <2>. QED BY <2>1, <2>2
<1>11. GapsAreInPlace'
  <2>. SUFFICES ASSUME NEW j \in Ids, NEW entry \in received'[j]
                PROVE  /\ entry[1] \in 1..Len(stream[j])
                       /\ entry[2] = stream[j][entry[1]]
    BY <1>1 DEF GapsAreInPlace
  <2>1. entry \in received[j] \/ (j = i /\ entry \in given)
    BY <1>1 DEF BusInv, TypeOK
  <2>. QED BY <2>1, <1>6 DEF BusInv, GapsAreInPlace
<1>. QED BY <1>8, <1>9, <1>10, <1>11 DEF BusInv

LEMMA BusCancel ==
    ASSUME BusInv, NEW i \in Ids, Cancel(i)
    PROVE  BusInv'
<1>. USE CapacitiesAssumption
<1>1. /\ Absent \in Subscription /\ ~Absent.live
      /\ Len(Absent.events) <= Absent.capacity
  BY DEF Absent, Subscription
<1>2. /\ subscriptions' = [subscriptions EXCEPT ![i] = Absent]
      /\ UNCHANGED <<events, nextId, published, stream, told, received>>
  BY DEF Cancel
<1>3. TypeOK'
  BY <1>1, <1>2 DEF BusInv, TypeOK
<1>4. Unissued' /\ GapsAreInPlace'
  BY <1>2 DEF BusInv, Unissued, GapsAreInPlace
<1>5. NothingLostSilently'
  BY <1>1, <1>2 DEF BusInv, TypeOK, NothingLostSilently
<1>. QED BY <1>3, <1>4, <1>5 DEF BusInv

\* Every operation, and a step of nothing, preserves the invariant.
LEMMA BusNext == BusInv /\ [Next]_vars => BusInv'
<1>. SUFFICES ASSUME BusInv, [Next]_vars PROVE BusInv'  OBVIOUS
<1>1. ASSUME NEW types \in SUBSET EventTypes, NEW c \in Capacities,
             Subscribe(types, c)
      PROVE  BusInv'
  BY <1>1, BusSubscribe
<1>2. ASSUME NEW type \in EventTypes, Publish(type) PROVE BusInv'
  BY <1>2, BusPublish
<1>3. CASE DrainBuffer
  <2>1. events' = <<>> /\ UNCHANGED <<subscriptions, nextId, published, stream, told, received>>
    BY <1>3 DEF DrainBuffer
  <2>2. TypeOK'
    BY <2>1, CapacitiesAssumption DEF BusInv, TypeOK
  <2>. QED BY <2>1, <2>2 DEF BusInv, Unissued, NothingLostSilently, GapsAreInPlace
<1>4. ASSUME NEW i \in Ids, Pop(i) PROVE BusInv'
  <2>1. subscriptions[i].events \in Seq(Event)
    BY DEF BusInv, TypeOK, Subscription
  <2>2. CASE subscriptions[i].events = <<>>
    BY <1>4, <2>1, <2>2, BusTake DEF Pop
  <2>3. CASE subscriptions[i].events # <<>>
    <3>1. 1 \in 0..Len(subscriptions[i].events)  BY <2>1, <2>3
    <3>. QED BY <1>4, <2>3, <3>1, BusTake DEF Pop
  <2>. QED BY <2>2, <2>3
<1>5. ASSUME NEW i \in Ids, Drain(i) PROVE BusInv'
  <2>1. Len(subscriptions[i].events) \in 0..Len(subscriptions[i].events)
    BY DEF BusInv, TypeOK, Subscription
  <2>. QED BY <1>5, <2>1, BusTake DEF Drain
<1>6. ASSUME NEW i \in Ids, Cancel(i) PROVE BusInv'
  BY <1>6, BusCancel
<1>7. CASE UNCHANGED vars
  BY <1>7 DEF vars, BusInv, TypeOK, Unissued, NothingLostSilently, GapsAreInPlace
<1>. QED BY <1>1, <1>2, <1>3, <1>4, <1>5, <1>6, <1>7 DEF Next

\* The bus keeps its inductive invariant: types, and the place of every event
\* that was delivered, dropped or is queued.
THEOREM BusInvariant == Spec => []BusInv
<1>. QED BY BusInit, BusNext, PTL DEF Spec

\* The buffers respect their sizes, and a cancelled subscription keeps nothing.
THEOREM TypeCorrect == Spec => []TypeOK
<1>1. BusInv => TypeOK  BY DEF BusInv
<1>. QED BY <1>1, BusInvariant, PTL

\* A subscriber accounts for its whole stream: given, reported as dropped, or
\* still in its queue, whoever publishes, pops and cancels (publish_locked).
THEOREM NoSilentLoss == Spec => []NothingLostSilently
<1>1. BusInv => NothingLostSilently  BY DEF BusInv
<1>. QED BY <1>1, BusInvariant, PTL

\* The counts a subscriber gets with its batches place every event it has.
THEOREM GapsAreLocated == Spec => []GapsAreInPlace
<1>1. BusInv => GapsAreInPlace  BY DEF BusInv
<1>. QED BY <1>1, BusInvariant, PTL

=============================================================================
