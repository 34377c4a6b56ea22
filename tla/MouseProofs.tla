----------------------------- MODULE MouseProofs -----------------------------
(***************************************************************************)
(* Proofs about the event ring of the mouse driver, the ring-2 service     *)
(* that empties it and the cursor ring, for any number of mice, callers    *)
(* and places, and for any reports, losses, disconnections and             *)
(* reconnections.                                                          *)
(***************************************************************************)
EXTENDS Mouse, KernelLemmas, TLAPS

Size == MOUSE_QUEUE_SIZE
Place == 0 .. Size - 1

\* A packet of the event ring, and what a place holds before its first packet.
Packet == [controller : Controller, gen : Nat, whole : BOOLEAN, buttons : 0 .. 7]
Slot == Packet \cup {<<>>}

Step == {"idle", "stale", "check", "observe", "discard", "read", "advance", "deliver",
         "store", "return"}

DeviceType == [gen : Nat, buttons : 0 .. 7]
EventsType == [head : Place, tail : Place, dropped : Nat, packets : [Place -> Slot]]
ConsumerType == [observed_dropped : Nat, buttons : [Controller -> 0 .. 7]]
LocalType == [op : {"none", "read", "query", "bad"}, id : Nat, remaining : Int,
              packet : Slot, missed : SUBSET Controller]

TypeOK ==
    /\ machine \in Machine
    /\ device \in [Controller -> DeviceType]
    /\ connected \in SUBSET Controller
    /\ events \in EventsType
    /\ consumer \in ConsumerType
    /\ lock \in BOOLEAN
    /\ pc \in [Caller -> Step]
    /\ local \in [Caller -> LocalType]

\* A caller inside the service has the lock, and is alone there.
LockIsExclusive ==
    \A c \in Caller : pc[c] # "idle" => lock /\ \A d \in Caller : pc[d] # "idle" => d = c

\* The places of the ring from tail to head, and how far from the tail one is.
InRing(head, tail, k) == IF tail <= head THEN tail <= k /\ k < head ELSE tail <= k \/ k < head
Age(tail, k) == IF tail <= k THEN k - tail ELSE k - tail + Size

Waiting == {k \in Place : InRing(events.head, events.tail, k)}

\* The callers that have read a packet and not yet acted on it.
Holding(c) == pc[c] \in {"advance", "deliver", "store"}

PacketsAreReal ==
    /\ \A k \in Waiting : events.packets[k] \in Packet
    /\ \A c \in Caller : Holding(c) => local[c].packet \in Packet
    /\ \A c \in Caller : pc[c] \in {"deliver", "store"} => local[c].packet.whole

\* Every loss has been acted on.
Current == consumer.observed_dropped = events.dropped /\ \A c \in Caller : pc[c] # "discard"

\* Does the packet come from the stream that is active now?
Live(p) == p.controller \in connected /\ p.gen = device[p.controller].gen

LossesAreCounted == consumer.observed_dropped <= events.dropped

\* Once every loss has been acted on, only packets of active streams are left.
AllAreLive ==
    Current => /\ \A k \in Waiting : Live(events.packets[k])
               /\ \A c \in Caller : Holding(c) => Live(local[c].packet)

\* The places of the whole packets of a controller.
Whole(id) == {k \in Waiting : events.packets[k].controller = id /\ events.packets[k].whole}

\* The youngest of them has the buttons as the mouse last reported them.
YoungestIsTrue(id) ==
    \A k \in Whole(id) :
        (\A j \in Whole(id) : Age(events.tail, j) <= Age(events.tail, k))
            => events.packets[k].buttons = device[id].buttons

\* When there is none, they are in the packet a caller is about to store, or have
\* been stored, unless all buttons were released since.
Delivering(c) == pc[c] \in {"deliver", "store"}
StoredIsTrue(id) ==
    \/ \E c \in Caller : /\ Delivering(c) /\ local[c].packet.controller = id
                         /\ local[c].packet.buttons = device[id].buttons
    \/ /\ \A c \in Caller : Delivering(c) => local[c].packet.controller # id
       /\ consumer.buttons[id] \in {0, device[id].buttons}

ButtonsArrive ==
    Current => \A id \in Controller :
        /\ id \notin connected => consumer.buttons[id] = 0
        /\ id \in connected => YoungestIsTrue(id) /\ (Whole(id) = {} => StoredIsTrue(id))

\* What a reader may still find: packets of streams that ended while it was inside
\* the service, which have not been started again, and packets of active streams.
ReadersAreSafe ==
    \A c \in Caller :
        /\ local[c].missed \cap connected = {}
        /\ pc[c] \in {"read", "advance", "deliver"} =>
              \A k \in Waiting : \/ events.packets[k].controller \in local[c].missed
                                 \/ Live(events.packets[k])
        /\ pc[c] \in {"advance", "deliver"} =>
              local[c].packet.controller \in local[c].missed \/ Live(local[c].packet)

MouseInv == /\ TypeOK /\ LockIsExclusive /\ PacketsAreReal /\ PacketIsStable
            /\ LossesAreCounted /\ AllAreLive /\ ButtonsArrive /\ ReadersAreSafe

-----------------------------------------------------------------------------
(* The ring.                                                               *)

LEMMA SizeIsNatural == Size \in Nat /\ Size >= 2
    BY MouseAssumption DEF Size

LEMMA NextPlace ==
    ASSUME NEW i \in Place
    PROVE  /\ (i + 1) % Size = IF i + 1 = Size THEN 0 ELSE i + 1
           /\ (i + 1) % Size \in Place
    BY SizeIsNatural, RingNext DEF Place

\* A packet that is put is the youngest, and its place held none before.
LEMMA PutPlaces ==
    ASSUME NEW head \in Place, NEW tail \in Place, (head + 1) % Size # tail, NEW k \in Place
    PROVE  /\ InRing((head + 1) % Size, tail, k) <=> InRing(head, tail, k) \/ k = head
           /\ InRing(head, tail, k) => k # head /\ Age(tail, k) < Age(tail, head)
    BY NextPlace, SizeIsNatural DEF InRing, Age, Place

\* The packet at the tail is the oldest, and the only one that taking it removes.
LEMMA TakePlaces ==
    ASSUME NEW head \in Place, NEW tail \in Place, head # tail, NEW k \in Place
    PROVE  /\ InRing(head, tail, tail) /\ Age(tail, tail) = 0
           /\ InRing(head, (tail + 1) % Size, k) <=> InRing(head, tail, k) /\ k # tail
           /\ InRing(head, (tail + 1) % Size, k) =>
                 Age((tail + 1) % Size, k) = Age(tail, k) - 1
           /\ Age(tail, k) \in Nat
    BY NextPlace, SizeIsNatural DEF InRing, Age, Place

LEMMA EmptyRing == \A head \in Place, k \in Place : ~InRing(head, head, k)
    BY SizeIsNatural DEF InRing, Place

\* What putting a packet into the event ring does.
LEMMA PutIsExact ==
    ASSUME TypeOK, NEW p \in Packet, events' = put(events, Size, p)
    PROVE  /\ events' \in EventsType /\ events'.tail = events.tail
           /\ \/ /\ events'.dropped = events.dropped + 1
                 /\ events'.head = events.head /\ events'.packets = events.packets
              \/ /\ events'.dropped = events.dropped
                 /\ (events.head + 1) % Size # events.tail
                 /\ events'.head = (events.head + 1) % Size
                 /\ events'.packets = [events.packets EXCEPT ![events.head] = p]
<1>1. /\ events \in EventsType /\ events.head \in Place /\ events.tail \in Place
      /\ events.dropped \in Nat /\ events.dropped + 1 \in Nat
      /\ events.packets \in [Place -> Slot]
    BY DEF TypeOK, EventsType
<1>2. (events.head + 1) % Size \in Place
    BY <1>1, NextPlace
<1>3. CASE (events.head + 1) % Size = events.tail
    <2>1. events' = [events EXCEPT !.dropped = @ + 1]
        BY <1>3, Zenon DEF put
    <2> QED
        BY <1>1, <2>1, Zenon DEF EventsType
<1>4. CASE (events.head + 1) % Size # events.tail
    <2> DEFINE next == (events.head + 1) % Size
    <2>1. events' = [events EXCEPT !.packets[events.head] = p, !.head = next]
        BY <1>4, Zenon DEF put
    <2> HIDE DEF next
    <2>2. [events.packets EXCEPT ![events.head] = p] \in [Place -> Slot]
        BY <1>1, Zenon DEF Slot
    <2>3. /\ events'.packets = [events.packets EXCEPT ![events.head] = p]
          /\ events'.head = next /\ events'.tail = events.tail
          /\ events'.dropped = events.dropped
        BY <1>1, <2>1, Zenon DEF EventsType
    <2>4. events' \in EventsType
        BY <1>1, <1>2, <2>1, <2>2, Zenon DEF EventsType, next
    <2> QED
        BY <1>4, <2>3, <2>4 DEF next
<1> QED
    BY <1>3, <1>4

-----------------------------------------------------------------------------
(* The invariant holds at the start, and every step keeps it.              *)

LEMMA MouseInit == Init => MouseInv
<1> SUFFICES ASSUME Init PROVE MouseInv
    OBVIOUS
<1>1. /\ events = [head |-> 0, tail |-> 0, dropped |-> 0, packets |-> [i \in Place |-> <<>>]]
      /\ 0 \in Place
    BY SizeIsNatural DEF Init, Ring, Place, Size
<1>2. [i \in Place |-> <<>>] \in [Place -> Slot]
    BY Zenon DEF Slot
<1>3. events \in EventsType
    BY <1>1, <1>2 DEF EventsType
<1>4. consumer = [observed_dropped |-> 0, buttons |-> Quiet] /\ Quiet \in [Controller -> 0 .. 7]
    BY DEF Init, Quiet
<1>5. Fresh \in LocalType /\ Fresh.missed = {}
    BY DEF Fresh, LocalType, Slot
<1>6. /\ device \in [Controller -> DeviceType] /\ pc = [c \in Caller |-> "idle"]
      /\ connected = {} /\ lock = FALSE /\ machine \in Machine
      /\ local = [c \in Caller |-> Fresh]
    BY DEF Init, DeviceType
<1>7. TypeOK
    BY <1>3, <1>4, <1>5, <1>6, Zenon DEF TypeOK, ConsumerType, Step
<1>8. Waiting = {}
    BY <1>1, EmptyRing DEF Waiting
<1>9. \A c \in Caller : pc[c] = "idle" /\ local[c].missed = {}
    BY <1>5, <1>6
<1>10. /\ LockIsExclusive /\ PacketsAreReal /\ PacketIsStable /\ AllAreLive /\ ReadersAreSafe
    BY <1>6, <1>8, <1>9 DEF LockIsExclusive, PacketsAreReal, PacketIsStable, AllAreLive,
       ReadersAreSafe, Holding
<1>11. LossesAreCounted /\ ButtonsArrive
    BY <1>1, <1>4, <1>6 DEF LossesAreCounted, ButtonsArrive, Quiet
<1> QED
    BY <1>7, <1>10, <1>11 DEF MouseInv

\* A report arrives.  When it is put, it is the youngest packet of its mouse.
LEMMA ReportKeeps ==
    ASSUME MouseInv, NEW id \in Controller, report_data(id)
    PROVE  MouseInv'
<1>1. PICK r \in machine.reports :
        /\ id \in connected
        /\ device' = [device EXCEPT ![id].buttons = IF r.whole THEN r.buttons ELSE @]
        /\ events' = put(events, Size, [controller |-> id, gen |-> device[id].gen,
                                        whole |-> r.whole, buttons |-> r.buttons])
        /\ UNCHANGED <<machine, connected, consumer, lock, pc, local>>
    BY Zenon DEF report_data, Size
<1> DEFINE p == [controller |-> id, gen |-> device[id].gen, whole |-> r.whole,
                 buttons |-> r.buttons]
<1>2. TypeOK /\ r \in [buttons : 0 .. 7, moves : BOOLEAN, whole : BOOLEAN]
    BY <1>1, MouseAssumption DEF MouseInv, TypeOK
<1>3. p \in Packet
    BY <1>2 DEF Packet, TypeOK, DeviceType
<1>4. p.controller = id /\ p.gen = device[id].gen /\ p.whole = r.whole /\ p.buttons = r.buttons
    OBVIOUS
<1> HIDE DEF p
<1>5. /\ events' \in EventsType /\ events'.tail = events.tail
      /\ \/ /\ events'.dropped = events.dropped + 1
            /\ events'.head = events.head /\ events'.packets = events.packets
         \/ /\ events'.dropped = events.dropped
            /\ (events.head + 1) % Size # events.tail
            /\ events'.head = (events.head + 1) % Size
            /\ events'.packets = [events.packets EXCEPT ![events.head] = p]
    BY <1>1, <1>2, <1>3, PutIsExact DEF p
<1>6. /\ device' \in [Controller -> DeviceType]
      /\ \A j \in Controller : device'[j].gen = device[j].gen
      /\ \A j \in Controller : ~(j = id /\ r.whole) => device'[j].buttons = device[j].buttons
      /\ r.whole => device'[id].buttons = r.buttons
    <2> DEFINE b == IF r.whole THEN r.buttons ELSE device[id].buttons
               d == [device[id] EXCEPT !.buttons = b]
    <2>1. device[id] \in DeviceType /\ b \in 0 .. 7
        BY <1>2 DEF TypeOK, DeviceType
    <2>2. device' = [device EXCEPT ![id] = d]
        BY <1>1
    <2>3. d \in DeviceType /\ d.gen = device[id].gen /\ d.buttons = b
        BY <2>1, Zenon DEF DeviceType
    <2> HIDE DEF d
    <2> QED
        BY <1>2, <2>2, <2>3 DEF TypeOK
<1>7. TypeOK'
    BY <1>1, <1>2, <1>5, <1>6, Zenon DEF TypeOK
<1>8. \A q : Live(q)' <=> Live(q)
    BY <1>1, <1>2, <1>6 DEF Live, TypeOK
<1>9. /\ events.head \in Place /\ events.tail \in Place /\ events.packets \in [Place -> Slot]
      /\ events.dropped \in Nat /\ consumer.observed_dropped \in Nat
    BY <1>2 DEF TypeOK, EventsType, ConsumerType
<1>10. LockIsExclusive'
    BY <1>1, Zenon DEF MouseInv, LockIsExclusive
<1>11. CASE /\ events'.dropped = events.dropped + 1
            /\ events'.head = events.head /\ events'.packets = events.packets
    <2>1. LossesAreCounted' /\ ~Current'
        BY <1>1, <1>9, <1>11 DEF MouseInv, LossesAreCounted, Current
    <2>2. Waiting' = Waiting
        BY <1>5, <1>11, Zenon DEF Waiting
    <2>3. PacketsAreReal' /\ PacketIsStable' /\ ReadersAreSafe'
        <3>1. PacketsAreReal'
            BY <1>1, <1>11, <2>2, Zenon DEF MouseInv, PacketsAreReal, Holding
        <3>2. PacketIsStable'
            BY <1>1, <1>5, <1>8, <1>11, <2>2, Zenon DEF MouseInv, Holding, PacketIsStable
        <3>3. ReadersAreSafe'
            <4>1. UNCHANGED <<pc, local, connected>> /\ ReadersAreSafe
                BY <1>1, Zenon DEF MouseInv
            <4> QED
                BY <1>8, <1>11, <2>2, <4>1, Zenon DEF ReadersAreSafe
        <3> QED
            BY <3>1, <3>2, <3>3
    <2>4. AllAreLive' /\ ButtonsArrive'
        BY <2>1, Zenon DEF AllAreLive, ButtonsArrive
    <2> QED
        BY <1>7, <1>10, <2>1, <2>3, <2>4 DEF MouseInv
<1>12. CASE /\ events'.dropped = events.dropped
            /\ (events.head + 1) % Size # events.tail
            /\ events'.head = (events.head + 1) % Size
            /\ events'.packets = [events.packets EXCEPT ![events.head] = p]
    <2> DEFINE h == events.head
    <2>1. \A k \in Place : k \in Waiting' <=> k \in Waiting \/ k = h
        BY <1>5, <1>9, <1>12, PutPlaces DEF Waiting
    <2>2. /\ Waiting \subseteq Place /\ Waiting' \subseteq Place /\ h \in Waiting'
          /\ h \notin Waiting
          /\ \A k \in Waiting : Age(events.tail, k) < Age(events.tail, h)
        BY <1>9, <1>12, <2>1, PutPlaces DEF Waiting
    <2>3. /\ events'.packets[h] = p
          /\ \A k \in Waiting : events'.packets[k] = events.packets[k]
        BY <1>9, <1>12, <2>2
    <2> HIDE DEF h
    <2>4. LossesAreCounted' /\ (Current' <=> Current)
        BY <1>1, <1>12, Zenon DEF MouseInv, LossesAreCounted, Current
    <2>5. PacketsAreReal'
        BY <1>1, <1>3, <2>1, <2>2, <2>3, Zenon DEF MouseInv, PacketsAreReal, Holding
    <2>6. ASSUME NEW c \in Caller, pc[c] = "advance" PROVE events.tail \in Waiting
        BY <1>9, <2>6, TakePlaces DEF MouseInv, PacketIsStable, Waiting
    <2>7. PacketIsStable'
        BY <1>1, <1>5, <1>12, <2>3, <2>6, Zenon DEF MouseInv, PacketIsStable
    <2>8. Live(p) /\ p.controller \in connected
        BY <1>1, <1>4 DEF Live
    <2>9. AllAreLive'
        BY <1>1, <1>8, <2>1, <2>2, <2>3, <2>4, <2>8, Zenon DEF MouseInv, AllAreLive, Holding
    <2>10. ReadersAreSafe'
        BY <1>1, <1>8, <2>1, <2>2, <2>3, <2>8, Zenon DEF MouseInv, ReadersAreSafe
    <2>11. ButtonsArrive'
        <3> SUFFICES ASSUME Current, NEW j \in Controller
                     PROVE  /\ j \notin connected => consumer.buttons[j] = 0
                            /\ j \in connected =>
                                  YoungestIsTrue(j)' /\ (Whole(j)' = {} => StoredIsTrue(j)')
            BY <1>1, <2>4, Zenon DEF ButtonsArrive
        <3>1. /\ j \notin connected => consumer.buttons[j] = 0
              /\ j \in connected => YoungestIsTrue(j) /\ (Whole(j) = {} => StoredIsTrue(j))
            BY DEF MouseInv, ButtonsArrive
        <3>2. CASE j = id /\ r.whole
            <4>1. h \in Whole(j)' /\ Whole(j)' \subseteq Waiting'
                BY <1>4, <2>2, <2>3, <3>2, Zenon DEF Whole
            <4>2. ASSUME NEW k \in Whole(j)', Age(events.tail, h) <= Age(events.tail, k)
                  PROVE  k = h
                <5>1. k \in Waiting \/ k = h
                    BY <2>1, <2>2, <4>1, Zenon
                <5>2. k \in Waiting => Age(events.tail, k) < Age(events.tail, h)
                    BY <2>2
                <5>3. k \in Place /\ h \in Place
                    BY <2>2, <4>1
                <5>4. Age(events.tail, k) \in Int /\ Age(events.tail, h) \in Int
                    BY <1>9, <5>3, SizeIsNatural DEF Age, Place
                <5> QED
                    BY <4>2, <5>1, <5>2, <5>4
            <4>3. events'.packets[h].buttons = device'[j].buttons
                BY <1>4, <1>6, <2>3, <3>2
            <4> QED
                BY <1>5, <3>1, <4>1, <4>2, <4>3, Zenon DEF YoungestIsTrue
        <3>3. CASE ~(j = id /\ r.whole)
            <4>1. Whole(j)' = Whole(j)
                BY <1>4, <2>1, <2>2, <2>3, <3>3, Zenon DEF Whole
            <4>2. \A k \in Whole(j) : events'.packets[k] = events.packets[k]
                BY <2>3 DEF Whole
            <4>3. device'[j].buttons = device[j].buttons
                BY <1>6, <3>3
            <4>4. YoungestIsTrue(j) => YoungestIsTrue(j)'
                BY <1>5, <4>1, <4>2, <4>3 DEF YoungestIsTrue
            <4>5. StoredIsTrue(j) => StoredIsTrue(j)'
                BY <1>1, <4>3 DEF StoredIsTrue, Delivering
            <4> QED
                BY <3>1, <4>1, <4>4, <4>5, Zenon
        <3> QED
            BY <3>2, <3>3
    <2> QED
        BY <1>7, <1>10, <2>4, <2>5, <2>7, <2>9, <2>10, <2>11 DEF MouseInv
<1> QED
    BY <1>5, <1>11, <1>12

\* A stream starts.  Nothing of an earlier stream of this controller is left where it
\* could be taken for one of the new stream.
LEMMA ConnectKeeps ==
    ASSUME MouseInv, NEW id \in Controller, report_connected(id)
    PROVE  MouseInv'
<1> DEFINE d == [gen |-> device[id].gen + 1, buttons |-> 0]
<1>1. /\ id \notin connected /\ (\A c \in Caller : id \notin local[c].missed)
      /\ connected' = connected \cup {id} /\ device' = [device EXCEPT ![id] = d]
      /\ UNCHANGED <<machine, events, consumer, lock, pc, local>>
    BY Zenon DEF report_connected
<1>2. TypeOK
    BY DEF MouseInv
<1>3. d \in DeviceType /\ d.buttons = 0
    BY <1>2 DEF TypeOK, DeviceType
<1> HIDE DEF d
<1>4. /\ device' \in [Controller -> DeviceType] /\ device'[id] = d
      /\ \A j \in Controller : j # id => device'[j] = device[j]
    BY <1>1, <1>2, <1>3 DEF TypeOK
<1>5. TypeOK'
    BY <1>1, <1>2, <1>4 DEF TypeOK
<1>6. \A q : Live(q) => Live(q)' /\ q.controller # id
    BY <1>1, <1>2, <1>4 DEF Live, TypeOK
<1>7. Waiting' = Waiting /\ (Current' <=> Current)
    BY <1>1, Zenon DEF Waiting, Current
<1>8. LockIsExclusive' /\ PacketsAreReal' /\ PacketIsStable' /\ LossesAreCounted'
    BY <1>1, <1>7, Zenon
    DEF MouseInv, LockIsExclusive, PacketsAreReal, PacketIsStable, LossesAreCounted, Holding
<1>9. AllAreLive'
    BY <1>1, <1>6, <1>7, Zenon DEF MouseInv, AllAreLive, Holding
<1>10. ReadersAreSafe'
    <2> SUFFICES ASSUME NEW c \in Caller
                 PROVE  /\ local[c].missed \cap connected' = {}
                        /\ pc[c] \in {"read", "advance", "deliver"} =>
                              \A k \in Waiting : \/ events.packets[k].controller \in local[c].missed
                                                 \/ Live(events.packets[k])'
                        /\ pc[c] \in {"advance", "deliver"} =>
                              local[c].packet.controller \in local[c].missed \/ Live(local[c].packet)'
        BY <1>1, <1>7, Zenon DEF ReadersAreSafe, Live
    <2> QED
        BY <1>1, <1>6 DEF MouseInv, ReadersAreSafe
<1>11. ButtonsArrive'
    <2> SUFFICES ASSUME Current, NEW j \in Controller
                 PROVE  /\ j \notin connected' => consumer.buttons[j] = 0
                        /\ j \in connected' =>
                              YoungestIsTrue(j)' /\ (Whole(j)' = {} => StoredIsTrue(j)')
        BY <1>1, <1>7, Zenon DEF ButtonsArrive
    <2>1. /\ j \notin connected => consumer.buttons[j] = 0
          /\ j \in connected => YoungestIsTrue(j) /\ (Whole(j) = {} => StoredIsTrue(j))
        BY DEF MouseInv, ButtonsArrive
    <2>2. Whole(j)' = Whole(j)
        BY <1>1, <1>7, Zenon DEF Whole
    <2>3. CASE j # id
        <3>1. device'[j] = device[j] /\ (j \in connected' <=> j \in connected)
            BY <1>1, <1>4, <2>3
        <3>2. YoungestIsTrue(j) => YoungestIsTrue(j)'
            BY <1>1, <2>2, <3>1 DEF YoungestIsTrue
        <3>3. StoredIsTrue(j) => StoredIsTrue(j)'
            BY <1>1, <3>1 DEF StoredIsTrue, Delivering
        <3> QED
            BY <2>1, <2>2, <3>1, <3>2, <3>3, Zenon
    <2>4. CASE j = id
        <3>1. \A k \in Waiting : Live(events.packets[k])
            BY DEF MouseInv, AllAreLive
        <3>2. Whole(j) = {}
            BY <1>6, <2>4, <3>1, Zenon DEF Whole
        <3>3. \A c \in Caller : Delivering(c) => local[c].packet.controller # id
            BY <1>6 DEF MouseInv, AllAreLive, Holding, Delivering
        <3>4. StoredIsTrue(j)'
            BY <1>1, <2>1, <2>4, <3>3 DEF StoredIsTrue, Delivering
        <3> QED
            BY <1>1, <2>2, <2>4, <3>2, <3>4, Zenon DEF YoungestIsTrue
    <2> QED
        BY <2>3, <2>4
<1> QED
    BY <1>5, <1>8, <1>9, <1>10, <1>11 DEF MouseInv

\* A stream ends.  A loss is counted, and a caller inside the service has missed it.
LEMMA DisconnectKeeps ==
    ASSUME MouseInv, NEW id \in Controller, report_disconnected(id)
    PROVE  MouseInv'
<1>1. /\ connected' = connected \ {id}
      /\ events' = [events EXCEPT !.dropped = @ + 1]
      /\ local' = [c \in Caller |-> IF pc[c] = "idle" THEN local[c]
                                    ELSE [local[c] EXCEPT !.missed = @ \cup {id}]]
      /\ UNCHANGED <<machine, device, consumer, lock, pc>>
    BY Zenon DEF report_disconnected
<1>2. TypeOK /\ local \in [Caller -> LocalType]
      /\ events \in EventsType /\ events.dropped \in Nat /\ events.dropped + 1 \in Nat
      /\ consumer.observed_dropped \in Nat
    BY DEF MouseInv, TypeOK, EventsType, ConsumerType
<1>3. /\ events' \in EventsType /\ events'.dropped = events.dropped + 1
      /\ events'.head = events.head /\ events'.tail = events.tail
      /\ events'.packets = events.packets
    BY <1>1, <1>2, Zenon DEF EventsType
<1>4. /\ local' \in [Caller -> LocalType]
      /\ \A c \in Caller : /\ local'[c].packet = local[c].packet
                           /\ local'[c].missed = local[c].missed \cup
                                                     (IF pc[c] = "idle" THEN {} ELSE {id})
    <2> DEFINE l(c) == [local[c] EXCEPT !.missed = @ \cup {id}]
    <2>1. ASSUME NEW c \in Caller
          PROVE  /\ l(c) \in LocalType /\ l(c).packet = local[c].packet
                 /\ l(c).missed = local[c].missed \cup {id}
        <3>1. local[c] \in LocalType /\ local[c].missed \cup {id} \in SUBSET Controller
            BY <1>2 DEF LocalType
        <3> QED
            BY <3>1, Zenon DEF LocalType
    <2>2. local' = [c \in Caller |-> IF pc[c] = "idle" THEN local[c] ELSE l(c)]
        BY <1>1
    <2> HIDE DEF l
    <2> QED
        BY <1>2, <2>1, <2>2
<1>5. TypeOK'
    BY <1>1, <1>2, <1>3, <1>4 DEF TypeOK
<1>6. Waiting' = Waiting /\ ~Current' /\ LossesAreCounted'
    <2>1. ~Current' /\ LossesAreCounted'
        BY <1>1, <1>2, <1>3 DEF MouseInv, LossesAreCounted, Current
    <2> QED
        BY <1>3, <2>1, Zenon DEF Waiting
<1>8. LockIsExclusive' /\ PacketsAreReal' /\ PacketIsStable'
    <2>1. LockIsExclusive'
        BY <1>1, <1>3, <1>4, Zenon DEF MouseInv, LockIsExclusive
    <2>2. PacketsAreReal'
        BY <1>1, <1>3, <1>4, <1>6, Zenon DEF MouseInv, PacketsAreReal, Holding
    <2>3. PacketIsStable'
        BY <1>1, <1>3, <1>4, <1>6, Zenon DEF MouseInv, PacketIsStable
    <2> QED
        BY <2>1, <2>2, <2>3
<1>9. ReadersAreSafe'
    <2> SUFFICES ASSUME NEW c \in Caller
                 PROVE  /\ local'[c].missed \cap connected' = {}
                        /\ pc'[c] \in {"read", "advance", "deliver"} =>
                              \A k \in Waiting' : \/ events'.packets[k].controller \in local'[c].missed
                                                  \/ Live(events.packets[k])'
                        /\ pc'[c] \in {"advance", "deliver"} =>
                              local'[c].packet.controller \in local'[c].missed \/ Live(local[c].packet)'
        BY Zenon DEF ReadersAreSafe
    <2>1. /\ \A k : Live(events.packets[k]) => Live(events.packets[k])' \/ events.packets[k].controller = id
          /\ Live(local[c].packet) => Live(local[c].packet)' \/ local[c].packet.controller = id
        BY <1>1, <1>3, <1>4 DEF Live
    <2> QED
        BY <1>1, <1>3, <1>4, <1>6, <2>1 DEF MouseInv, ReadersAreSafe
<1>10. AllAreLive' /\ ButtonsArrive'
    BY <1>6, Zenon DEF AllAreLive, ButtonsArrive
<1> QED
    BY <1>5, <1>6, <1>8, <1>9, <1>10 DEF MouseInv

\* The cursor, the display and a stuttering step touch nothing of this.
LEMMA UnrelatedKeeps ==
    ASSUME MouseInv, UNCHANGED <<machine, device, connected, events, consumer, lock, pc, local>>
    PROVE  MouseInv'
<1>1. Waiting' = Waiting /\ (Current' <=> Current) /\ \A q : Live(q)' <=> Live(q)
    BY Zenon DEF Waiting, Current, Live
<1>2. TypeOK' /\ LockIsExclusive' /\ PacketsAreReal' /\ PacketIsStable' /\ LossesAreCounted'
    BY <1>1, Zenon
    DEF MouseInv, TypeOK, LockIsExclusive, PacketsAreReal, PacketIsStable, LossesAreCounted, Holding
<1>3. AllAreLive' /\ ReadersAreSafe'
    BY <1>1, Zenon DEF MouseInv, AllAreLive, ReadersAreSafe, Holding
<1>4. ButtonsArrive'
    <2>1. \A id : /\ Whole(id)' = Whole(id)
                  /\ YoungestIsTrue(id) => YoungestIsTrue(id)'
                  /\ StoredIsTrue(id) => StoredIsTrue(id)'
        <3>1. \A id : Whole(id)' = Whole(id)
            BY <1>1, Zenon DEF Whole
        <3>2. \A id : YoungestIsTrue(id) => YoungestIsTrue(id)'
            BY <3>1 DEF YoungestIsTrue
        <3>3. \A id : StoredIsTrue(id) => StoredIsTrue(id)'
            BY DEF StoredIsTrue, Delivering
        <3> QED
            BY <3>1, <3>2, <3>3, Zenon
    <2> QED
        BY <1>1, <2>1, Zenon DEF MouseInv, ButtonsArrive
<1> QED
    BY <1>2, <1>3, <1>4 DEF MouseInv

-----------------------------------------------------------------------------
(* The ring-2 service.                                                     *)

\* A caller inside the service is alone there.
LEMMA AloneInside ==
    ASSUME MouseInv, NEW c \in Caller, pc[c] # "idle"
    PROVE  \A d \in Caller : d # c => pc[d] = "idle"
    BY Zenon DEF MouseInv, LockIsExclusive

\* What a caller moves: itself, to a step, with its variables l.
Moves(c, to, l) ==
    /\ to \in Step /\ pc' = [pc EXCEPT ![c] = to] /\ lock' = (to # "idle")
    /\ l \in LocalType /\ local' = [local EXCEPT ![c] = l] /\ l.missed \subseteq local[c].missed
    /\ \A d \in Caller : d # c => pc[d] = "idle"
    /\ UNCHANGED <<machine, device, connected>>
    /\ events' \in EventsType /\ consumer' \in ConsumerType

\* The buttons, for a caller that is alone.
Arrives(c, to, l) ==
    \A id \in Controller :
        /\ id \notin connected => consumer'.buttons[id] = 0
        /\ id \in connected =>
              /\ YoungestIsTrue(id)'
              /\ Whole(id)' = {} =>
                    \/ /\ to \in {"deliver", "store"} /\ l.packet.controller = id
                       /\ l.packet.buttons = device[id].buttons
                    \/ /\ to \in {"deliver", "store"} => l.packet.controller # id
                       /\ consumer'.buttons[id] \in {0, device[id].buttons}

\* The packets a caller leaves behind it, and the one it takes along.
Leaves(c, to, l) ==
    /\ LossesAreCounted'
    /\ \A k \in Waiting' : events'.packets[k] \in Packet
    /\ to = "advance" => events'.head # events'.tail /\ l.packet = events'.packets[events'.tail]
    /\ to \in {"advance", "deliver", "store"} => l.packet \in Packet
    /\ to \in {"deliver", "store"} => l.packet.whole
    /\ consumer'.observed_dropped = events'.dropped /\ to # "discard" =>
          /\ \A k \in Waiting' : Live(events'.packets[k])
          /\ to \in {"advance", "deliver", "store"} => Live(l.packet)
          /\ Arrives(c, to, l)
    /\ to \in {"read", "advance", "deliver"} =>
          \A k \in Waiting' : events'.packets[k].controller \in l.missed \/ Live(events'.packets[k])
    /\ to \in {"advance", "deliver"} => l.packet.controller \in l.missed \/ Live(l.packet)

\* A step of the service that does both keeps the invariant.
LEMMA ServiceStep ==
    ASSUME MouseInv, NEW c \in Caller, NEW to, NEW l, Moves(c, to, l), Leaves(c, to, l)
    PROVE  MouseInv'
<1> USE DEF Moves, Leaves
<1>1. TypeOK
    BY DEF MouseInv
<1>2. /\ pc' \in [Caller -> Step] /\ local' \in [Caller -> LocalType]
      /\ pc'[c] = to /\ local'[c] = l
      /\ \A d \in Caller : d # c => pc'[d] = "idle" /\ local'[d] = local[d]
    BY <1>1 DEF TypeOK
<1>3. TypeOK'
    BY <1>1, <1>2 DEF TypeOK
<1>4. LockIsExclusive'
    BY <1>2, Zenon DEF LockIsExclusive
<1>5. \A q : Live(q)' <=> Live(q)
    BY DEF Live
<1>6. PacketsAreReal' /\ PacketIsStable'
    BY <1>2 DEF PacketsAreReal, PacketIsStable, Holding
<1>7. Current' => consumer'.observed_dropped = events'.dropped /\ to # "discard"
    BY <1>2 DEF Current
<1>8. AllAreLive'
    BY <1>2, <1>5, <1>7 DEF AllAreLive, Holding
<1>9. ButtonsArrive'
    <2> SUFFICES ASSUME Current', NEW id \in Controller
                 PROVE  /\ id \notin connected => consumer'.buttons[id] = 0
                        /\ id \in connected =>
                              YoungestIsTrue(id)' /\ (Whole(id)' = {} => StoredIsTrue(id)')
        BY Zenon DEF ButtonsArrive
    <2>1. ASSUME \/ /\ to \in {"deliver", "store"} /\ l.packet.controller = id
                    /\ l.packet.buttons = device[id].buttons
                 \/ /\ to \in {"deliver", "store"} => l.packet.controller # id
                    /\ consumer'.buttons[id] \in {0, device[id].buttons}
          PROVE  StoredIsTrue(id)'
        BY <1>2, <2>1, Zenon DEF StoredIsTrue, Delivering
    <2> QED
        BY <1>7, <2>1, Zenon DEF Arrives
<1>10. ReadersAreSafe'
    <2> SUFFICES ASSUME NEW d \in Caller
                 PROVE  /\ local'[d].missed \cap connected = {}
                        /\ pc'[d] \in {"read", "advance", "deliver"} =>
                              \A k \in Waiting' : \/ events'.packets[k].controller \in local'[d].missed
                                                  \/ Live(events'.packets[k])
                        /\ pc'[d] \in {"advance", "deliver"} =>
                              local'[d].packet.controller \in local'[d].missed \/ Live(local'[d].packet)
        BY <1>5 DEF ReadersAreSafe
    <2>1. \A e \in Caller : local[e].missed \cap connected = {}
        BY DEF MouseInv, ReadersAreSafe
    <2> QED
        BY <1>2, <2>1
<1> QED
    BY <1>3, <1>4, <1>6, <1>8, <1>9, <1>10 DEF MouseInv

LEMMA SameRing ==
    ASSUME UNCHANGED <<events, device>>
    PROVE  /\ Waiting' = Waiting
           /\ \A id : Whole(id)' = Whole(id) /\ (YoungestIsTrue(id) => YoungestIsTrue(id)')
<1>1. Waiting' = Waiting
    BY Zenon DEF Waiting
<1>2. \A id : Whole(id)' = Whole(id)
    BY <1>1, Zenon DEF Whole
<1>3. \A id : YoungestIsTrue(id) => YoungestIsTrue(id)'
    BY <1>2 DEF YoungestIsTrue
<1> QED
    BY <1>1, <1>2, <1>3, Zenon

\* What a caller that is alone knows once every loss has been acted on.
LEMMA CurrentInside ==
    ASSUME MouseInv, NEW c \in Caller, \A d \in Caller : d # c => pc[d] = "idle",
           consumer.observed_dropped = events.dropped, pc[c] # "discard"
    PROVE  /\ \A k \in Waiting : Live(events.packets[k])
           /\ Holding(c) => Live(local[c].packet)
           /\ \A id \in Controller :
                 /\ id \notin connected => consumer.buttons[id] = 0
                 /\ id \in connected =>
                       /\ YoungestIsTrue(id)
                       /\ Whole(id) = {} =>
                             \/ /\ Delivering(c) /\ local[c].packet.controller = id
                                /\ local[c].packet.buttons = device[id].buttons
                             \/ /\ Delivering(c) => local[c].packet.controller # id
                                /\ consumer.buttons[id] \in {0, device[id].buttons}
<1>1. Current
    BY DEF Current
<1>2. /\ \A k \in Waiting : Live(events.packets[k])
      /\ Holding(c) => Live(local[c].packet)
    BY <1>1 DEF MouseInv, AllAreLive
<1>3. ASSUME NEW id \in Controller, StoredIsTrue(id)
      PROVE  \/ /\ Delivering(c) /\ local[c].packet.controller = id
                /\ local[c].packet.buttons = device[id].buttons
             \/ /\ Delivering(c) => local[c].packet.controller # id
                /\ consumer.buttons[id] \in {0, device[id].buttons}
    BY <1>3 DEF StoredIsTrue, Delivering
<1>4. \A id \in Controller :
         /\ id \notin connected => consumer.buttons[id] = 0
         /\ id \in connected => YoungestIsTrue(id) /\ (Whole(id) = {} => StoredIsTrue(id))
    BY <1>1, Zenon DEF MouseInv, ButtonsArrive
<1> QED
    BY <1>2, <1>3, <1>4, Zenon

LEMMA EnterKeeps ==
    ASSUME MouseInv, NEW c \in Caller, mouse_driver_service(c)
    PROVE  MouseInv'
<1>1. PICK op \in {"read", "query", "bad"} :
         /\ At(c, "idle", IF op = "bad" THEN "return" ELSE "stale")
         /\ local' = [local EXCEPT ![c] = [Fresh EXCEPT !.op = op, !.remaining = MOUSE_QUEUE_SIZE]]
    BY Zenon DEF mouse_driver_service
<1> DEFINE l == [Fresh EXCEPT !.op = op, !.remaining = MOUSE_QUEUE_SIZE]
           to == IF op = "bad" THEN "return" ELSE "stale"
<1>2. l \in LocalType /\ l.missed = {}
    <2>1. Fresh \in LocalType /\ Fresh.missed = {}
        BY DEF Fresh, LocalType, Slot
    <2>2. MOUSE_QUEUE_SIZE \in Int
        BY MouseAssumption
    <2> QED
        BY <2>1, <2>2, Zenon DEF LocalType
<1>3. /\ ~lock /\ lock' = TRUE /\ local' = [local EXCEPT ![c] = l] /\ pc' = [pc EXCEPT ![c] = to]
      /\ UNCHANGED <<machine, device, connected, events, consumer>>
    BY <1>1, Zenon DEF mouse_driver_service, usb, At
<1>4. to \in {"return", "stale"} /\ to \in Step /\ lock' = (to # "idle")
    BY <1>3, Zenon DEF Step
<1> HIDE DEF l, to
<1>5. \A d \in Caller : pc[d] = "idle"
    BY <1>3 DEF MouseInv, LockIsExclusive
<1>6. events' \in EventsType /\ consumer' \in ConsumerType /\ LossesAreCounted'
      /\ \A k \in Waiting' : events'.packets[k] \in Packet
    BY <1>3, SameRing DEF MouseInv, TypeOK, LossesAreCounted, PacketsAreReal
<1>7. ASSUME consumer'.observed_dropped = events'.dropped
      PROVE  /\ \A k \in Waiting' : Live(events'.packets[k])
             /\ \A id \in Controller :
                   /\ id \notin connected => consumer'.buttons[id] = 0
                   /\ id \in connected =>
                         /\ YoungestIsTrue(id)'
                         /\ Whole(id)' = {} => consumer'.buttons[id] \in {0, device[id].buttons}
    BY <1>3, <1>5, <1>7, SameRing, CurrentInside, Zenon DEF Delivering
<1>8. Moves(c, to, l)
    BY <1>2, <1>3, <1>4, <1>5, <1>6, <1>7, Zenon DEF Moves
<1>9. Leaves(c, to, l)
    BY <1>2, <1>3, <1>4, <1>5, <1>6, <1>7 DEF Leaves, Arrives
<1> QED
    BY <1>8, <1>9, ServiceStep

\* What every step of a caller inside the service starts from.
LEMMA Inside ==
    ASSUME MouseInv, NEW c \in Caller, pc[c] # "idle"
    PROVE  /\ lock = TRUE /\ (\A d \in Caller : d # c => pc[d] = "idle")
           /\ local[c] \in LocalType /\ local = [local EXCEPT ![c] = local[c]]
           /\ events \in EventsType /\ consumer \in ConsumerType
           /\ local[c].missed \cap connected = {}
    BY AloneInside DEF MouseInv, TypeOK, LockIsExclusive, ReadersAreSafe

LEMMA ReleaseKeeps ==
    ASSUME MouseInv, NEW c \in Caller, release_stale_buttons(c)
    PROVE  MouseInv'
<1> DEFINE n == local[c].id
           l == [local[c] EXCEPT !.id = n + 1]
           to == pc'[c]
           b == [consumer.buttons EXCEPT ![n] = IF n \in connected THEN @ ELSE 0]
<1>1. /\ pc[c] = "stale" /\ pc \in [Caller -> Step]
      /\ UNCHANGED pc \/ pc' = [pc EXCEPT ![c] = "check"]
      /\ local' = [local EXCEPT ![c].id = n + 1]
      /\ consumer' = [consumer EXCEPT !.buttons[n] = IF n \in connected THEN @ ELSE 0]
      /\ UNCHANGED <<machine, device, connected, events, lock>>
    BY Zenon DEF release_stale_buttons, At, usb, MouseInv, TypeOK
<1>2. to \in {"stale", "check"} /\ pc' = [pc EXCEPT ![c] = to] /\ to \in Step
    BY <1>1 DEF Step
<1> HIDE DEF to
<1>3. /\ lock = TRUE /\ (\A d \in Caller : d # c => pc[d] = "idle")
      /\ local[c] \in LocalType /\ events \in EventsType /\ consumer \in ConsumerType
    BY <1>1, Inside, Zenon
<1>4. local' = [local EXCEPT ![c] = l]
    BY <1>1, Zenon
<1>5. l \in LocalType /\ l.missed = local[c].missed
    <2>1. n + 1 \in Nat
        BY <1>3 DEF LocalType
    <2> HIDE DEF n
    <2> QED
        BY <1>3, <2>1, Zenon DEF LocalType
<1>6. consumer.buttons \in [Controller -> 0 .. 7] /\ 0 \in 0 .. 7
    BY <1>3 DEF ConsumerType
<1>7. /\ b \in [Controller -> 0 .. 7]
      /\ \A id \in Controller : b[id] = consumer.buttons[id] \/ (id \notin connected /\ b[id] = 0)
    BY <1>6, Zenon
<1>8. /\ consumer' \in ConsumerType /\ consumer'.buttons = b
      /\ consumer'.observed_dropped = consumer.observed_dropped
    <2>1. consumer' = [consumer EXCEPT !.buttons = b]
        BY <1>1, Zenon
    <2> HIDE DEF b
    <2> QED
        BY <1>3, <1>7, <2>1, Zenon DEF ConsumerType
<1> HIDE DEF l, n, b
<1>9. LossesAreCounted' /\ (\A k \in Waiting' : events'.packets[k] \in Packet)
    BY <1>1, <1>8, SameRing DEF MouseInv, LossesAreCounted, PacketsAreReal
<1>10. ASSUME consumer'.observed_dropped = events'.dropped
       PROVE  /\ \A k \in Waiting' : Live(events'.packets[k])
              /\ \A id \in Controller :
                    /\ id \notin connected => consumer'.buttons[id] = 0
                    /\ id \in connected =>
                          /\ YoungestIsTrue(id)'
                          /\ Whole(id)' = {} => consumer'.buttons[id] \in {0, device[id].buttons}
    BY <1>1, <1>3, <1>7, <1>8, <1>10, SameRing, CurrentInside DEF Delivering
<1>11. Moves(c, to, l)
    BY <1>1, <1>2, <1>3, <1>4, <1>5, <1>8, <1>9, <1>10, Zenon DEF Moves
<1>12. Leaves(c, to, l)
    BY <1>1, <1>2, <1>3, <1>4, <1>5, <1>8, <1>9, <1>10 DEF Leaves, Arrives
<1> QED
    BY <1>11, <1>12, ServiceStep

LEMMA CheckKeeps ==
    ASSUME MouseInv, NEW c \in Caller, check_dropped(c)
    PROVE  MouseInv'
<1> DEFINE to == IF consumer.observed_dropped # events.dropped THEN "observe"
                 ELSE IF local[c].op = "read" THEN "read" ELSE "return"
<1>1. /\ pc[c] = "check" /\ pc' = [pc EXCEPT ![c] = to]
      /\ UNCHANGED <<machine, device, connected, events, consumer, lock, local>>
    BY Zenon DEF check_dropped, At, usb
<1>2. /\ to \in {"observe", "read", "return"} /\ to \in Step
      /\ to = "read" => consumer.observed_dropped = events.dropped
    BY DEF Step
<1> HIDE DEF to
<1>3. /\ lock = TRUE /\ (\A d \in Caller : d # c => pc[d] = "idle")
      /\ local[c] \in LocalType /\ local = [local EXCEPT ![c] = local[c]]
      /\ events \in EventsType /\ consumer \in ConsumerType
    BY <1>1, Inside, Zenon
<1>4. LossesAreCounted' /\ (\A k \in Waiting' : events'.packets[k] \in Packet)
    BY <1>1, SameRing DEF MouseInv, LossesAreCounted, PacketsAreReal
<1>5. ASSUME consumer.observed_dropped = events.dropped
      PROVE  /\ \A k \in Waiting' : Live(events'.packets[k])
             /\ \A id \in Controller :
                   /\ id \notin connected => consumer'.buttons[id] = 0
                   /\ id \in connected =>
                         /\ YoungestIsTrue(id)'
                         /\ Whole(id)' = {} => consumer'.buttons[id] \in {0, device[id].buttons}
    BY <1>1, <1>3, <1>5, SameRing, CurrentInside DEF Delivering
<1>6. Moves(c, to, local[c])
    BY <1>1, <1>2, <1>3, <1>4, <1>5, Zenon DEF Moves
<1>7. Leaves(c, to, local[c])
    BY <1>1, <1>2, <1>3, <1>4, <1>5 DEF Leaves, Arrives
<1> QED
    BY <1>6, <1>7, ServiceStep

LEMMA ObserveKeeps ==
    ASSUME MouseInv, NEW c \in Caller, observe(c)
    PROVE  MouseInv'
<1>1. /\ pc[c] = "observe" /\ pc' = [pc EXCEPT ![c] = "discard"] /\ "discard" \in Step
      /\ consumer' = [consumer EXCEPT !.observed_dropped = events.dropped]
      /\ UNCHANGED <<machine, device, connected, events, lock, local>>
    BY Zenon DEF observe, At, usb, Step
<1>2. /\ lock = TRUE /\ (\A d \in Caller : d # c => pc[d] = "idle")
      /\ local[c] \in LocalType /\ local = [local EXCEPT ![c] = local[c]]
      /\ events \in EventsType /\ consumer \in ConsumerType
    BY <1>1, Inside, Zenon
<1>3. consumer' \in ConsumerType /\ consumer'.observed_dropped = events.dropped
      /\ events.dropped \in Nat
    BY <1>1, <1>2 DEF ConsumerType, EventsType
<1>4. LossesAreCounted' /\ (\A k \in Waiting' : events'.packets[k] \in Packet)
    BY <1>1, <1>3, SameRing DEF MouseInv, LossesAreCounted, PacketsAreReal
<1>5. Moves(c, "discard", local[c])
    BY <1>1, <1>2, <1>3, <1>4, Zenon DEF Moves
<1>6. Leaves(c, "discard", local[c])
    BY <1>1, <1>2, <1>3, <1>4 DEF Leaves, Arrives
<1> QED
    BY <1>5, <1>6, ServiceStep

LEMMA DiscardKeeps ==
    ASSUME MouseInv, NEW c \in Caller, discard(c)
    PROVE  MouseInv'
<1>1. /\ pc[c] = "discard" /\ pc' = [pc EXCEPT ![c] = "return"] /\ "return" \in Step
      /\ events' = [events EXCEPT !.tail = events.head]
      /\ consumer' = [consumer EXCEPT !.buttons = Quiet]
      /\ UNCHANGED <<machine, device, connected, lock, local>>
    BY Zenon DEF discard, At, usb, Step
<1>2. /\ lock = TRUE /\ (\A d \in Caller : d # c => pc[d] = "idle")
      /\ local[c] \in LocalType /\ local = [local EXCEPT ![c] = local[c]]
      /\ events \in EventsType /\ consumer \in ConsumerType
    BY <1>1, Inside, Zenon
<1>3. /\ events' \in EventsType /\ events'.dropped = events.dropped
      /\ events'.head = events'.tail /\ events'.head \in Place
    BY <1>1, <1>2 DEF EventsType
<1>4. /\ consumer' \in ConsumerType /\ (\A id \in Controller : consumer'.buttons[id] = 0)
      /\ consumer'.observed_dropped = consumer.observed_dropped
    BY <1>1, <1>2 DEF ConsumerType, Quiet
<1>5. Waiting' = {} /\ LossesAreCounted'
    BY <1>3, <1>4, EmptyRing DEF MouseInv, LossesAreCounted, Waiting
<1>6. \A id : YoungestIsTrue(id)'
    BY <1>5, Zenon DEF YoungestIsTrue, Whole
<1>7. Moves(c, "return", local[c])
    BY <1>1, <1>2, <1>3, <1>4, <1>5, <1>6, Zenon DEF Moves
<1>8. Leaves(c, "return", local[c])
    BY <1>1, <1>2, <1>3, <1>4, <1>5, <1>6 DEF Leaves, Arrives
<1> QED
    BY <1>7, <1>8, ServiceStep

LEMMA ReturnKeeps ==
    ASSUME MouseInv, NEW c \in Caller, return(c)
    PROVE  MouseInv'
<1>1. /\ pc[c] = "return" /\ pc' = [pc EXCEPT ![c] = "idle"] /\ "idle" \in Step
      /\ lock' = FALSE /\ local' = [local EXCEPT ![c] = Fresh]
      /\ UNCHANGED <<machine, device, connected, events, consumer>>
    BY Zenon DEF return, At, usb, Step
<1>2. /\ \A d \in Caller : d # c => pc[d] = "idle"
      /\ events \in EventsType /\ consumer \in ConsumerType
    BY <1>1, Inside, Zenon
<1>3. Fresh \in LocalType /\ Fresh.missed = {}
    BY DEF Fresh, LocalType, Slot
<1>4. LossesAreCounted' /\ (\A k \in Waiting' : events'.packets[k] \in Packet)
    BY <1>1, SameRing, Zenon DEF MouseInv, LossesAreCounted, PacketsAreReal
<1>5. ASSUME consumer'.observed_dropped = events'.dropped
      PROVE  /\ \A k \in Waiting' : Live(events'.packets[k])
             /\ \A id \in Controller :
                   /\ id \notin connected => consumer'.buttons[id] = 0
                   /\ id \in connected =>
                         /\ YoungestIsTrue(id)'
                         /\ Whole(id)' = {} => consumer'.buttons[id] \in {0, device[id].buttons}
    BY <1>1, <1>2, <1>5, SameRing, CurrentInside, Zenon DEF Delivering
<1>6. Moves(c, "idle", Fresh)
    BY <1>1, <1>2, <1>3, <1>4, <1>5, Zenon DEF Moves
<1>7. Leaves(c, "idle", Fresh)
    BY <1>1, <1>2, <1>3, <1>4, <1>5 DEF Leaves, Arrives
<1> QED
    BY <1>6, <1>7, ServiceStep

LEMMA ReadKeeps ==
    ASSUME MouseInv, NEW c \in Caller, read(c)
    PROVE  MouseInv'
<1> DEFINE p == events.packets[events.tail]
           l == [local[c] EXCEPT !.packet = p]
<1>1. /\ pc[c] = "read"
      /\ \/ /\ events.tail # events.head /\ pc' = [pc EXCEPT ![c] = "advance"]
            /\ local' = [local EXCEPT ![c] = l]
         \/ pc' = [pc EXCEPT ![c] = "return"] /\ UNCHANGED local
      /\ UNCHANGED <<machine, device, connected, events, consumer, lock>>
    BY Zenon DEF read, At, usb
<1>2. /\ lock = TRUE /\ (\A d \in Caller : d # c => pc[d] = "idle")
      /\ local[c] \in LocalType /\ local = [local EXCEPT ![c] = local[c]]
      /\ events \in EventsType /\ consumer \in ConsumerType
    BY <1>1, Inside, Zenon
<1>3. /\ LossesAreCounted' /\ (\A k \in Waiting' : events'.packets[k] \in Packet)
      /\ \A k \in Waiting' : events'.packets[k].controller \in local[c].missed \/ Live(events'.packets[k])
    BY <1>1, SameRing DEF MouseInv, LossesAreCounted, PacketsAreReal, ReadersAreSafe
<1>4. ASSUME consumer'.observed_dropped = events'.dropped
      PROVE  /\ \A k \in Waiting' : Live(events'.packets[k])
             /\ \A id \in Controller :
                   /\ id \notin connected => consumer'.buttons[id] = 0
                   /\ id \in connected =>
                         /\ YoungestIsTrue(id)'
                         /\ Whole(id)' = {} => consumer'.buttons[id] \in {0, device[id].buttons}
    BY <1>1, <1>2, <1>4, SameRing, CurrentInside DEF Delivering
<1>5. CASE pc' = [pc EXCEPT ![c] = "return"] /\ UNCHANGED local
    <2>1. Moves(c, "return", local[c])
        BY <1>1, <1>2, <1>5, Zenon DEF Moves, Step
    <2>2. Leaves(c, "return", local[c])
        BY <1>3, <1>4, Zenon DEF Leaves, Arrives
    <2> QED
        BY <2>1, <2>2, ServiceStep
<1>6. CASE /\ events.tail # events.head /\ pc' = [pc EXCEPT ![c] = "advance"]
           /\ local' = [local EXCEPT ![c] = l]
    <2>1. events.tail \in Waiting' /\ p \in Packet /\ events'.packets[events'.tail] = p
        <3>1. events.tail \in Waiting
            BY <1>2, <1>6, TakePlaces DEF Waiting, EventsType
        <3> QED
            BY <1>1, <1>3, <3>1, SameRing
    <2> HIDE DEF p
    <2>2. l \in LocalType /\ l.packet = p /\ l.missed = local[c].missed
        BY <1>2, <2>1 DEF LocalType, Slot
    <2> HIDE DEF l
    <2>3. Moves(c, "advance", l)
        BY <1>1, <1>2, <1>6, <2>2, Zenon DEF Moves, Step
    <2>4. Leaves(c, "advance", l)
        BY <1>1, <1>3, <1>4, <1>6, <2>1, <2>2, Zenon DEF Leaves, Arrives
    <2> QED
        BY <2>3, <2>4, ServiceStep
<1> QED
    BY <1>1, <1>5, <1>6

\* The place is given back.  When the packet was the only whole one of its mouse, it
\* was the youngest, and the caller now carries its buttons.
LEMMA AdvanceKeeps ==
    ASSUME MouseInv, NEW c \in Caller, advance(c)
    PROVE  MouseInv'
<1> DEFINE p == local[c].packet
           l == [local[c] EXCEPT !.remaining = @ - 1]
           to == IF p.whole THEN "deliver" ELSE "read"
           t == events.tail
           u == (events.tail + 1) % Size
<1>1. /\ pc[c] = "advance" /\ pc' = [pc EXCEPT ![c] = to]
      /\ events' = [events EXCEPT !.tail = u]
      /\ local' = [local EXCEPT ![c] = l]
      /\ UNCHANGED <<machine, device, connected, consumer, lock>>
    BY Zenon DEF advance, At, usb, Size
<1>2. /\ lock = TRUE /\ (\A d \in Caller : d # c => pc[d] = "idle")
      /\ local[c] \in LocalType /\ events \in EventsType /\ consumer \in ConsumerType
    BY <1>1, Inside, Zenon
<1>3. /\ events.head # t /\ p = events.packets[t] /\ p \in Packet
      /\ t \in Place /\ events.head \in Place /\ u \in Place
    <2>1. t \in Place /\ events.head \in Place
        BY <1>2 DEF EventsType
    <2> QED
        BY <1>1, <2>1, NextPlace DEF MouseInv, PacketIsStable, PacketsAreReal, Holding
<1>4. /\ to \in {"deliver", "read"} /\ to \in Step /\ (to = "deliver" <=> p.whole)
    BY DEF Step
<1>5. l \in LocalType /\ l.packet = p /\ l.missed = local[c].missed
    <2>1. local[c].remaining - 1 \in Int
        BY <1>2 DEF LocalType
    <2> QED
        BY <1>2, <2>1, Zenon DEF LocalType
<1>6. /\ events' \in EventsType /\ events'.head = events.head /\ events'.tail = u
      /\ events'.packets = events.packets /\ events'.dropped = events.dropped
    <2> HIDE DEF u
    <2> QED
        BY <1>1, <1>2, <1>3, Zenon DEF EventsType
<1>7. /\ t \in Waiting /\ Waiting \subseteq Place
      /\ \A k \in Place : k \in Waiting' <=> k \in Waiting /\ k # t
      /\ \A k \in Waiting' : Age(u, k) = Age(t, k) - 1
      /\ Age(t, t) = 0 /\ \A k \in Place : Age(t, k) \in Nat
    BY <1>3, <1>6, TakePlaces DEF Waiting
<1>8. Waiting' \subseteq Place
    BY DEF Waiting
<1> HIDE DEF p, l, to, t, u
<1>9. LossesAreCounted' /\ (\A k \in Waiting' : events'.packets[k] \in Packet)
    BY <1>1, <1>6, <1>7, <1>8 DEF MouseInv, LossesAreCounted, PacketsAreReal
<1>10. /\ \A k \in Waiting' : events'.packets[k].controller \in l.missed \/ Live(events'.packets[k])
       /\ p.controller \in l.missed \/ Live(p)
    BY <1>1, <1>5, <1>6, <1>7, <1>8 DEF MouseInv, ReadersAreSafe, p
<1>11. ASSUME consumer'.observed_dropped = events'.dropped
       PROVE  /\ \A k \in Waiting' : Live(events'.packets[k])
              /\ Live(p) /\ Arrives(c, to, l)
    <2>1. consumer.observed_dropped = events.dropped
        BY <1>1, <1>6, <1>11
    <2>2. /\ \A k \in Waiting : Live(events.packets[k])
          /\ Live(p)
          /\ \A id \in Controller :
                /\ id \notin connected => consumer.buttons[id] = 0
                /\ id \in connected =>
                      /\ YoungestIsTrue(id)
                      /\ Whole(id) = {} => consumer.buttons[id] \in {0, device[id].buttons}
        BY <1>1, <1>2, <2>1, CurrentInside DEF Delivering, Holding, p
    <2>3. ASSUME NEW id \in connected
          PROVE  /\ YoungestIsTrue(id)'
                 /\ Whole(id)' = {} =>
                       \/ to = "deliver" /\ p.controller = id /\ p.buttons = device[id].buttons
                       \/ /\ to = "deliver" => p.controller # id
                          /\ consumer.buttons[id] \in {0, device[id].buttons}
        <3>1. id \in Controller
            BY <2>3 DEF MouseInv, TypeOK
        <3>2. \A k \in Place : k \in Whole(id)' <=> k \in Whole(id) /\ k # t
            BY <1>6, <1>7, <1>8, Zenon DEF Whole
        <3>3. Whole(id) \subseteq Place /\ Whole(id)' \subseteq Waiting'
            BY <1>7 DEF Whole
        <3>4. YoungestIsTrue(id)'
            <4> SUFFICES ASSUME NEW k \in Whole(id)',
                                \A j \in Whole(id)' : Age(u, j) <= Age(u, k)
                         PROVE  events.packets[k].buttons = device[id].buttons
                BY <1>1, <1>6, Zenon DEF YoungestIsTrue
            <4>1. k \in Whole(id) /\ k \in Place
                BY <1>8, <3>2, <3>3
            <4>2. ASSUME NEW j \in Whole(id) PROVE Age(t, j) <= Age(t, k)
                <5>1. CASE j = t
                    BY <1>7, <4>1, <5>1
                <5>2. CASE j # t
                    BY <1>7, <3>2, <3>3, <4>1, <5>2
                <5> QED
                    BY <5>1, <5>2
            <4> QED
                BY <2>2, <2>3, <3>1, <4>1, <4>2, Zenon DEF YoungestIsTrue, t
        <3>5. ASSUME Whole(id)' = {}, t \in Whole(id)
              PROVE  to = "deliver" /\ p.controller = id /\ p.buttons = device[id].buttons
            <4>1. \A j \in Whole(id) : j = t
                BY <3>2, <3>3, <3>5
            <4>2. Age(t, t) <= Age(t, t)
                BY <1>7
            <4>3. events.packets[t].buttons = device[id].buttons
                BY <2>2, <2>3, <3>1, <3>5, <4>1, <4>2, Zenon DEF YoungestIsTrue, t
            <4> QED
                BY <1>3, <1>4, <3>5, <4>3 DEF Whole
        <3>6. ASSUME Whole(id)' = {}, t \notin Whole(id)
              PROVE  /\ to = "deliver" => p.controller # id
                     /\ consumer.buttons[id] \in {0, device[id].buttons}
            <4>1. Whole(id) = {}
                BY <3>2, <3>3, <3>6
            <4>2. ~(p.controller = id /\ p.whole)
                BY <1>3, <1>7, <3>6 DEF Whole
            <4> QED
                BY <1>4, <2>2, <2>3, <3>1, <4>1, <4>2
        <3> QED
            BY <3>4, <3>5, <3>6
    <2>4. Arrives(c, to, l)
        BY <1>1, <1>4, <1>5, <2>2, <2>3 DEF Arrives
    <2> QED
        BY <1>6, <1>7, <1>8, <2>2, <2>4
<1>12. Moves(c, to, l)
    BY <1>1, <1>2, <1>4, <1>5, <1>6, Zenon DEF Moves
<1>13. Leaves(c, to, l)
    BY <1>3, <1>4, <1>5, <1>9, <1>10, <1>11, Zenon DEF Leaves
<1> QED
    BY <1>12, <1>13, ServiceStep

LEMMA DeliverKeeps ==
    ASSUME MouseInv, NEW c \in Caller, deliver(c)
    PROVE  MouseInv'
<1> DEFINE p == local[c].packet
           to == IF p.controller \in connected THEN "store" ELSE "read"
<1>1. /\ pc[c] = "deliver" /\ pc' = [pc EXCEPT ![c] = to]
      /\ UNCHANGED <<machine, device, connected, events, consumer, lock, local>>
    BY Zenon DEF deliver, At, usb
<1>2. /\ lock = TRUE /\ (\A d \in Caller : d # c => pc[d] = "idle")
      /\ local[c] \in LocalType /\ local = [local EXCEPT ![c] = local[c]]
      /\ events \in EventsType /\ consumer \in ConsumerType
    BY <1>1, Inside, Zenon
<1>3. to \in {"store", "read"} /\ to \in Step /\ (to = "store" <=> p.controller \in connected)
    BY DEF Step
<1> HIDE DEF to
<1>4. /\ LossesAreCounted' /\ (\A k \in Waiting' : events'.packets[k] \in Packet)
      /\ \A k \in Waiting' : events'.packets[k].controller \in local[c].missed \/ Live(events'.packets[k])
      /\ p \in Packet /\ p.whole
    BY <1>1, SameRing, Zenon DEF MouseInv, LossesAreCounted, PacketsAreReal, ReadersAreSafe, Holding
<1>5. ASSUME consumer.observed_dropped = events.dropped
      PROVE  /\ \A k \in Waiting' : Live(events'.packets[k])
             /\ Live(p) /\ Arrives(c, to, local[c])
    <2>1. /\ \A k \in Waiting : Live(events.packets[k])
          /\ Live(p)
          /\ \A id \in Controller :
                /\ id \notin connected => consumer.buttons[id] = 0
                /\ id \in connected =>
                      /\ YoungestIsTrue(id)
                      /\ Whole(id) = {} =>
                            \/ p.controller = id /\ p.buttons = device[id].buttons
                            \/ p.controller # id /\ consumer.buttons[id] \in {0, device[id].buttons}
        BY <1>1, <1>2, <1>5, CurrentInside DEF Delivering, Holding
    <2>2. to = "store"
        BY <1>3, <2>1, Zenon DEF Live
    <2>3. Arrives(c, to, local[c])
        BY <1>1, <2>1, <2>2, SameRing DEF Arrives
    <2> QED
        BY <1>1, <2>1, <2>3, SameRing, Zenon
<1>6. Moves(c, to, local[c])
    BY <1>1, <1>2, <1>3, Zenon DEF Moves
<1>7. Leaves(c, to, local[c])
    BY <1>1, <1>3, <1>4, <1>5, Zenon DEF Leaves
<1> QED
    BY <1>6, <1>7, ServiceStep

LEMMA StoreKeeps ==
    ASSUME MouseInv, NEW c \in Caller, store(c)
    PROVE  MouseInv'
<1> DEFINE p == local[c].packet
           b == [consumer.buttons EXCEPT ![p.controller] = p.buttons]
<1>1. /\ pc[c] = "store" /\ pc' = [pc EXCEPT ![c] = "return"] /\ "return" \in Step
      /\ consumer' = [consumer EXCEPT !.buttons = b]
      /\ UNCHANGED <<machine, device, connected, events, lock, local>>
    BY Zenon DEF store, At, usb, Step
<1>2. /\ lock = TRUE /\ (\A d \in Caller : d # c => pc[d] = "idle")
      /\ local[c] \in LocalType /\ local = [local EXCEPT ![c] = local[c]]
      /\ events \in EventsType /\ consumer \in ConsumerType
    BY <1>1, Inside, Zenon
<1>3. p \in Packet
    BY <1>1 DEF MouseInv, PacketsAreReal, Holding
<1>4. /\ b \in [Controller -> 0 .. 7] /\ b[p.controller] = p.buttons
      /\ \A id \in Controller : id # p.controller => b[id] = consumer.buttons[id]
    BY <1>2, <1>3 DEF ConsumerType, Packet
<1> HIDE DEF b
<1>5. /\ consumer' \in ConsumerType /\ consumer'.buttons = b
      /\ consumer'.observed_dropped = consumer.observed_dropped
    BY <1>1, <1>2, <1>4, Zenon DEF ConsumerType
<1>6. LossesAreCounted' /\ (\A k \in Waiting' : events'.packets[k] \in Packet)
    BY <1>1, <1>5, SameRing DEF MouseInv, LossesAreCounted, PacketsAreReal
<1>7. ASSUME consumer'.observed_dropped = events'.dropped
      PROVE  (\A k \in Waiting' : Live(events'.packets[k])) /\ Arrives(c, "return", local[c])
    <2>1. /\ \A k \in Waiting : Live(events.packets[k])
          /\ Live(p)
          /\ \A id \in Controller :
                /\ id \notin connected => consumer.buttons[id] = 0
                /\ id \in connected =>
                      /\ YoungestIsTrue(id)
                      /\ Whole(id) = {} =>
                            \/ p.controller = id /\ p.buttons = device[id].buttons
                            \/ p.controller # id /\ consumer.buttons[id] \in {0, device[id].buttons}
        BY <1>1, <1>2, <1>5, <1>7, CurrentInside DEF Delivering, Holding
    <2>2. p.controller \in connected
        BY <2>1 DEF Live
    <2>3. Arrives(c, "return", local[c])
        BY <1>1, <1>4, <1>5, <2>1, <2>2, SameRing DEF Arrives
    <2> QED
        BY <1>1, <2>1, <2>3, SameRing
<1>8. Moves(c, "return", local[c])
    BY <1>1, <1>2, <1>5, Zenon DEF Moves
<1>9. Leaves(c, "return", local[c])
    BY <1>6, <1>7, Zenon DEF Leaves
<1> QED
    BY <1>8, <1>9, ServiceStep

LEMMA MouseStep == MouseInv /\ [Next]_vars => MouseInv'
<1> SUFFICES ASSUME MouseInv, [Next]_vars PROVE MouseInv'
    OBVIOUS
<1>1. ASSUME mouse_cursor_drain \/ graphics_enter \/ graphics_leave \/ UNCHANGED vars
      PROVE  UNCHANGED <<machine, device, connected, events, consumer, lock, pc, local>>
    BY <1>1, Zenon DEF mouse_cursor_drain, graphics_enter, graphics_leave, vars, usb
<1> QED
    BY <1>1, UnrelatedKeeps, ReportKeeps, ConnectKeeps, DisconnectKeeps, EnterKeeps, ReleaseKeeps,
       CheckKeeps, ObserveKeeps, DiscardKeeps, ReadKeeps, AdvanceKeeps, DeliverKeeps, StoreKeeps,
       ReturnKeeps, Zenon DEF Next

-----------------------------------------------------------------------------
\* The invariant of the event ring and its callers, for any number of callers, mice
\* and places, and any reports.
THEOREM MouseInvariant == Spec => []MouseInv
<1> QED
    BY MouseInit, MouseStep, PTL DEF Spec

\* The interrupt side, which takes no lock, never reuses the place a caller reads
\* (mouse_queue_report, mouse_process_request).
THEOREM PacketStaysStable == Spec => []PacketIsStable
<1>1. MouseInv => PacketIsStable
    BY DEF MouseInv
<1> QED
    BY MouseInvariant, <1>1, PTL

\* However reports, losses, unplugging and callers interleave, no button stays down that
\* the mouse has released (mouse_process_request).
THEOREM NoButtonSticks == Spec => []NoStuckButton
<1>1. MouseInv => NoStuckButton
    <2> SUFFICES ASSUME MouseInv, \A c \in Caller : pc[c] = "idle", events.head = events.tail,
                        consumer.observed_dropped = events.dropped,
                        NEW id \in Controller, consumer.buttons[id] # 0
                 PROVE  id \in connected /\ consumer.buttons[id] = device[id].buttons
        BY DEF NoStuckButton
    <2>1. Current
        BY DEF Current
    <2>2. Waiting = {}
        BY EmptyRing DEF Waiting, MouseInv, TypeOK, EventsType
    <2>3. id \in connected /\ StoredIsTrue(id)
        BY <2>1, <2>2 DEF MouseInv, ButtonsArrive, Whole
    <2> QED
        BY <2>3 DEF StoredIsTrue, Delivering
<1> QED
    BY MouseInvariant, <1>1, PTL

\* An event that is handed to a process was sent in the stream that is active now
\* (mouse_process_request, mouse_receive).
THEOREM DeliveredStaysCurrent == Spec => DeliveredIsCurrent
<1>1. ASSUME MouseInv, [Next]_vars, NEW c \in Caller, pc[c] = "deliver", pc'[c] = "store"
      PROVE  LET p == local[c].packet
             IN  p.controller \in connected /\ p.gen = device[p.controller].gen
    <2>1. pc \in [Caller -> Step]
        BY <1>1 DEF MouseInv, TypeOK
    <2>2. local[c].packet.controller \in connected
        <3>1. ASSUME NEW d \in Caller, deliver(d) PROVE local[c].packet.controller \in connected
            BY <1>1, <2>1, <3>1 DEF deliver, At
        <3>2. ASSUME NEW d \in Caller, NEW to, pc' = [pc EXCEPT ![d] = to], to # "store"
              PROVE  FALSE
            BY <1>1, <2>1, <3>2
        <3>3. ASSUME NEW d \in Caller,
                     \/ mouse_driver_service(d) \/ release_stale_buttons(d) \/ check_dropped(d)
                     \/ observe(d) \/ discard(d) \/ read(d) \/ advance(d) \/ store(d) \/ return(d)
              PROVE  UNCHANGED pc \/ \E to : pc' = [pc EXCEPT ![d] = to] /\ to # "store"
            <4>1. CASE mouse_driver_service(d)
                BY <4>1, Zenon DEF mouse_driver_service, At
            <4>2. CASE release_stale_buttons(d)
                BY <4>2 DEF release_stale_buttons, At
            <4>3. CASE check_dropped(d)
                <5> DEFINE to == IF consumer.observed_dropped # events.dropped THEN "observe"
                                 ELSE IF local[d].op = "read" THEN "read" ELSE "return"
                <5>1. pc' = [pc EXCEPT ![d] = to] /\ to # "store"
                    BY <4>3 DEF check_dropped, At
                <5> HIDE DEF to
                <5> QED
                    BY <5>1, Zenon
            <4>4. CASE observe(d) \/ discard(d) \/ store(d) \/ return(d)
                BY <4>4 DEF observe, discard, store, return, At
            <4>5. CASE read(d)
                BY <4>5 DEF read, At
            <4>6. CASE advance(d)
                <5> DEFINE to == IF local[d].packet.whole THEN "deliver" ELSE "read"
                <5>1. pc' = [pc EXCEPT ![d] = to] /\ to # "store"
                    BY <4>6 DEF advance, At
                <5> QED
                    BY <5>1, Zenon
            <4> QED
                BY <3>3, <4>1, <4>2, <4>3, <4>4, <4>5, <4>6
        <3>4. ~UNCHANGED pc
            BY <1>1
        <3>5. \E d \in Caller : \/ mouse_driver_service(d) \/ release_stale_buttons(d)
                                \/ check_dropped(d) \/ observe(d) \/ discard(d) \/ read(d)
                                \/ advance(d) \/ deliver(d) \/ store(d) \/ return(d)
            BY <1>1, <3>4, Zenon DEF Next, vars, report_data, report_connected, report_disconnected,
               mouse_cursor_drain, graphics_enter, graphics_leave
        <3> QED
            BY <3>1, <3>2, <3>3, <3>4, <3>5, Zenon
    <2>3. local[c].packet.controller \in local[c].missed \/ Live(local[c].packet)
        BY <1>1 DEF MouseInv, ReadersAreSafe
    <2>4. local[c].missed \cap connected = {}
        BY <1>1 DEF MouseInv, ReadersAreSafe
    <2> QED
        BY <2>2, <2>3, <2>4 DEF Live
<1>2. MouseInv /\ [Next]_vars =>
          [\A c \in Caller :
             pc[c] = "deliver" /\ pc'[c] = "store" =>
                 LET p == local[c].packet
                 IN  p.controller \in connected /\ p.gen = device[p.controller].gen]_vars
    BY <1>1
<1> QED
    BY MouseInvariant, <1>2, PTL DEF Spec, DeliveredIsCurrent

-----------------------------------------------------------------------------
(* What a filter keeps.                                                    *)

Motion == [controller : Controller \cup {Cancelled}, gen : Nat]

Walk(s, S, n, f) == f = [i \in 0 .. n |-> IF i = 0 THEN <<>> ELSE Kept(f[i - 1], s[i], S)]
WalkOf(s, S) == CHOOSE f : Walk(s, S, Len(s), f)

\* f has what is kept of each prefix.
Keeps(s, S, n, f) == f[0] = <<>> /\ \A i \in 0 .. n - 1 : f[i + 1] = Kept(f[i], s[i + 1], S)

\* Two filters decide alike on two sequences.
Alike(s, S, t, T, n) ==
    \A i \in 0 .. n - 1 : \A d : Kept(d, s[i + 1], S) = Kept(d, t[i + 1], T)

\* The recursion of the filter has a solution.
LEMMA WalkExists ==
    ASSUME NEW s, NEW S
    PROVE  \A n \in Nat : \E f : Walk(s, S, n, f)
<1> DEFINE N == {n \in Nat : \E f : Walk(s, S, n, f)}
<1>1. 0 \in N
    <2>1. Walk(s, S, 0, [i \in 0 .. 0 |-> <<>>])
        BY DEF Walk
    <2> QED
        BY <2>1
<1>2. ASSUME NEW n \in Nat, n \in N PROVE n + 1 \in N
    <2>1. PICK f : Walk(s, S, n, f)
        BY <1>2
    <2> DEFINE longer == [i \in 0 .. n + 1 |-> IF i = n + 1 THEN Kept(f[n], s[i], S) ELSE f[i]]
    <2>2. \A i \in 0 .. n + 1 : longer[i] = IF i = 0 THEN <<>> ELSE Kept(longer[i - 1], s[i], S)
        BY <2>1 DEF Walk
    <2>3. Walk(s, S, n + 1, longer)
        BY <2>2 DEF Walk
    <2> QED
        BY <2>3
<1> HIDE DEF N
<1>3. Nat \subseteq N
    BY <1>1, <1>2, NaturalsByCounting
<1> QED
    BY <1>3 DEF N

\* The filter keeps one packet after the other.
LEMMA OfKeeps ==
    ASSUME NEW s, NEW S, NEW n \in Nat, n = Len(s)
    PROVE  \E f : Keeps(s, S, n, f) /\ Of(s, S) = f[n]
<1>1. Walk(s, S, Len(s), WalkOf(s, S))
    BY WalkExists, Zenon DEF WalkOf
<1>2. Of(s, S) = WalkOf(s, S)[Len(s)]
    BY Zenon DEF Of, Walk, WalkOf
<1>3. PICK f : Walk(s, S, n, f) /\ Of(s, S) = f[n]
    BY <1>1, <1>2
<1>4. f[0] = <<>>
    BY <1>3 DEF Walk
<1>5. ASSUME NEW i \in 0 .. n - 1 PROVE f[i + 1] = Kept(f[i], s[i + 1], S)
    <2>1. i + 1 \in 0 .. n /\ i + 1 # 0 /\ (i + 1) - 1 = i
        OBVIOUS
    <2>2. f[i + 1] = Kept(f[(i + 1) - 1], s[i + 1], S)
        BY <1>3, <2>1 DEF Walk
    <2> QED
        BY <2>1, <2>2
<1> QED
    BY <1>3, <1>4, <1>5 DEF Keeps

\* Two filters that decide alike keep the same.
LEMMA KeepsAlike ==
    ASSUME NEW s, NEW S, NEW t, NEW T, NEW n \in Nat, NEW f, NEW g,
           Keeps(s, S, n, f), Keeps(t, T, n, g), Alike(s, S, t, T, n)
    PROVE  f[n] = g[n]
<1> DEFINE N == {i \in Nat : i <= n => f[i] = g[i]}
<1>1. 0 \in N
    BY DEF Keeps
<1>2. ASSUME NEW i \in Nat, i \in N PROVE i + 1 \in N
    <2> SUFFICES ASSUME i + 1 <= n PROVE f[i + 1] = g[i + 1]
        OBVIOUS
    <2>1. i \in 0 .. n - 1 /\ f[i] = g[i]
        BY <1>2
    <2>2. f[i + 1] = Kept(f[i], s[i + 1], S) /\ g[i + 1] = Kept(g[i], t[i + 1], T)
        BY <2>1, Zenon DEF Keeps
    <2> QED
        BY <2>1, <2>2, Zenon DEF Alike
<1> HIDE DEF N
<1>3. Nat \subseteq N
    BY <1>1, <1>2, NaturalsByCounting
<1> QED
    BY <1>3 DEF N

\* So do filters of whole sequences.
LEMMA OfAlike ==
    ASSUME NEW s, NEW S, NEW t, NEW T, NEW n \in Nat, n = Len(s), n = Len(t),
           Alike(s, S, t, T, n)
    PROVE  Of(s, S) = Of(t, T)
<1>1. PICK f : Keeps(s, S, n, f) /\ Of(s, S) = f[n]
    BY OfKeeps, Zenon
<1>2. PICK g : Keeps(t, T, n, g) /\ Of(t, T) = g[n]
    BY OfKeeps
<1>3. f[n] = g[n]
    BY <1>1, <1>2, KeepsAlike
<1> QED
    BY <1>1, <1>2, <1>3

\* Nothing is kept of nothing.
LEMMA OfNone ==
    ASSUME NEW s, NEW S, Len(s) = 0
    PROVE  Of(s, S) = <<>>
<1>1. PICK f : Keeps(s, S, 0, f) /\ Of(s, S) = f[0]
    BY OfKeeps
<1> QED
    BY <1>1 DEF Keeps

\* One packet more.
LEMMA OfMore ==
    ASSUME NEW s, NEW t, NEW S, NEW n \in Nat, n = Len(t), n + 1 = Len(s),
           \A i \in 1 .. n : s[i] = t[i]
    PROVE  Of(s, S) = Kept(Of(t, S), s[n + 1], S)
<1>1. PICK f : Keeps(s, S, n + 1, f) /\ Of(s, S) = f[n + 1]
    BY OfKeeps
<1>2. PICK g : Keeps(t, S, n, g) /\ Of(t, S) = g[n]
    BY OfKeeps
<1>3. Keeps(s, S, n, f) /\ f[n + 1] = Kept(f[n], s[n + 1], S)
    BY <1>1 DEF Keeps
<1>4. Alike(s, S, t, S, n)
    <2>1. \A i \in 0 .. n - 1 : s[i + 1] = t[i + 1]
        OBVIOUS
    <2> QED
        BY <2>1, Zenon DEF Alike
<1>5. f[n] = g[n]
    BY <1>2, <1>3, <1>4, KeepsAlike
<1> QED
    BY <1>1, <1>2, <1>3, <1>5

\* What is kept are packets.
LEMMA KeptType ==
    ASSUME NEW s \in Seq(Motion), NEW S, NEW n \in Nat, n = Len(s), NEW f, Keeps(s, S, n, f)
    PROVE  \A i \in 0 .. n : f[i] \in Seq(Motion)
<1> DEFINE N == {i \in Nat : i <= n => f[i] \in Seq(Motion)}
<1>1. 0 \in N
    <2>1. f[0] = <<>> /\ <<>> \in Seq(Motion)
        BY DEF Keeps
    <2> QED
        BY <2>1, Zenon
<1>2. ASSUME NEW i \in Nat, i \in N PROVE i + 1 \in N
    <2> SUFFICES ASSUME i + 1 <= n PROVE f[i + 1] \in Seq(Motion)
        OBVIOUS
    <2>1. i \in 0 .. n - 1 /\ f[i] \in Seq(Motion) /\ s[i + 1] \in Motion
        BY <1>2
    <2>2. f[i + 1] = Kept(f[i], s[i + 1], S)
        BY <2>1, Zenon DEF Keeps
    <2> QED
        BY <2>1, <2>2 DEF Kept
<1> HIDE DEF N
<1>3. Nat \subseteq N
    BY <1>1, <1>2, NaturalsByCounting
<1> QED
    BY <1>3 DEF N

\* The result of a filter.
LEMMA OfType ==
    ASSUME NEW s \in Seq(Motion), NEW S
    PROVE  Of(s, S) \in Seq(Motion)
<1>1. PICK n \in Nat : n = Len(s) /\ n \in 0 .. n
    OBVIOUS
<1>2. PICK f : Keeps(s, S, n, f) /\ Of(s, S) = f[n]
    BY <1>1, OfKeeps
<1>3. \A i \in 0 .. n : f[i] \in Seq(Motion)
    BY <1>1, <1>2, KeptType, Zenon
<1> QED
    BY <1>1, <1>2, <1>3, Zenon

\* Nothing is left of a sequence without its elements.
LEMMA NothingLeft ==
    ASSUME NEW o \in Seq(Motion)
    PROVE  SubSeq(o, Len(o) + 1, Len(o)) = <<>>
    OBVIOUS

\* A sequence from its first to its last element.
LEMMA WholeSequence ==
    ASSUME NEW s \in Seq(Motion)
    PROVE  SubSeq(s, 1, Len(s)) = s
    OBVIOUS

\* An element of a sequence.
LEMMA MotionAt ==
    ASSUME NEW s \in Seq(Motion), NEW n, n = Len(s), NEW i \in 0 .. n - 1
    PROVE  s[i + 1] \in Motion
    OBVIOUS

\* Filtering what a filter has kept.
LEMMA OfOf ==
    ASSUME NEW s \in Seq(Motion), NEW S, NEW t, NEW T, NEW n \in Nat, n = Len(s), n = Len(t),
           T \subseteq S, Alike(s, T, t, T, n)
    PROVE  Of(Of(s, S), T) = Of(t, T)
<1>1. PICK f : Keeps(s, S, n, f) /\ Of(s, S) = f[n]
    BY OfKeeps, Zenon
<1>2. PICK g : Keeps(t, T, n, g) /\ Of(t, T) = g[n]
    BY OfKeeps
<1>3. \A i \in 0 .. n : f[i] \in Seq(Motion)
    BY <1>1, KeptType, Zenon
<1> DEFINE N == {i \in Nat : i <= n => Of(f[i], T) = g[i]}
<1>4. 0 \in N
    <2>1. f[0] = <<>> /\ g[0] = <<>> /\ Len(<<>>) = 0
        BY <1>1, <1>2 DEF Keeps
    <2> QED
        BY <2>1, OfNone
<1>5. ASSUME NEW i \in Nat, i \in N PROVE i + 1 \in N
    <2> SUFFICES ASSUME i + 1 <= n PROVE Of(f[i + 1], T) = g[i + 1]
        OBVIOUS
    <2>1. i \in 0 .. n - 1 /\ i \in 0 .. n /\ Of(f[i], T) = g[i] /\ f[i] \in Seq(Motion)
        BY <1>3, <1>5
    <2>2. PICK p : p = s[i + 1]
        BY Zenon
    <2>3. f[i + 1] = Kept(f[i], p, S) /\ g[i + 1] = Kept(g[i], p, T)
        BY <1>1, <1>2, <2>1, <2>2, Zenon DEF Keeps, Alike
    <2>4. CASE p.controller \in S
        <3>1. PICK a, b : a \in Seq(Motion) /\ a = f[i] /\ b = f[i + 1] /\ b = Append(a, p)
            BY <2>1, <2>3, <2>4, Zenon DEF Kept
        <3>2. p \in Motion
            BY <2>1, <2>2, MotionAt, Zenon
        <3>3. /\ Len(a) \in Nat /\ Len(b) = Len(a) + 1 /\ b[Len(a) + 1] = p
              /\ \A j \in 1 .. Len(a) : b[j] = a[j]
            BY <3>1, <3>2
        <3>4. Of(b, T) = Kept(Of(a, T), b[Len(a) + 1], T)
            BY <3>3, OfMore
        <3> QED
            BY <2>1, <2>3, <3>1, <3>3, <3>4, Zenon
    <2>5. CASE p.controller \notin S
        BY <2>1, <2>3, <2>5, Zenon DEF Kept
    <2> QED
        BY <2>4, <2>5
<1> HIDE DEF N
<1>6. Nat \subseteq N
    BY <1>4, <1>5, NaturalsByCounting
<1> QED
    BY <1>1, <1>2, <1>6 DEF N

-----------------------------------------------------------------------------
(* The cursor ring.                                                        *)

CSize == MOUSE_CURSOR_QUEUE_SIZE
CPlace == 0 .. CSize - 1
CursorType == [head : CPlace, tail : CPlace, dropped : Nat,
               packets : [CPlace -> Motion \cup {<<>>}]]

\* How many packets wait, and the place of the i-th, without remainders.
Waits(head, tail) == IF tail <= head THEN head - tail ELSE head - tail + CSize
PlaceOf(tail, i) == IF tail + i - 1 < CSize THEN tail + i - 1 ELSE tail + i - 1 - CSize

\* A number just above or below the ring.
LEMMA Wraps ==
    ASSUME NEW size \in Nat \ {0}, NEW i \in 0 .. size - 1
    PROVE  i % size = i /\ (i + size) % size = i /\ (i - size) % size = i
<1>1. i % size = i
    OBVIOUS
<1>2. (i + size) % size = i
    OBVIOUS
<1>3. (i - size) % size = i
    OBVIOUS
<1> QED
    BY <1>1, <1>2, <1>3

\* The ring has at least two places.
LEMMA CSizeIsNatural == CSize \in Nat /\ CSize >= 2
    BY MouseAssumption DEF CSize

\* How many packets wait.
LEMMA RingLength ==
    ASSUME NEW head \in CPlace, NEW tail \in CPlace
    PROVE  /\ (head - tail) % CSize = Waits(head, tail)
           /\ Waits(head, tail) \in 0 .. CSize - 1
<1>1. CASE tail <= head
    <2>1. head - tail \in CPlace
        BY <1>1, CSizeIsNatural DEF CPlace
    <2>2. (head - tail) % CSize = head - tail
        BY <2>1, CSizeIsNatural, Wraps DEF CPlace
    <2> QED
        BY <1>1, <2>1, <2>2 DEF Waits, CPlace
<1>2. CASE ~(tail <= head)
    <2>1. PICK k \in CPlace : k = head - tail + CSize /\ head - tail = k - CSize
        BY <1>2, CSizeIsNatural DEF CPlace
    <2>2. (k - CSize) % CSize = k
        BY CSizeIsNatural, Wraps DEF CPlace
    <2> QED
        BY <1>2, <2>1, <2>2 DEF Waits, CPlace
<1> QED
    BY <1>1, <1>2

\* Where the i-th waits.
LEMMA RingPlace ==
    ASSUME NEW tail \in CPlace, NEW i \in 1 .. CSize
    PROVE  (tail + i - 1) % CSize = PlaceOf(tail, i) /\ PlaceOf(tail, i) \in CPlace
<1>1. CASE tail + i - 1 < CSize
    <2>1. tail + i - 1 \in CPlace
        BY <1>1, CSizeIsNatural DEF CPlace
    <2>2. (tail + i - 1) % CSize = tail + i - 1
        BY <2>1, CSizeIsNatural, Wraps DEF CPlace
    <2> QED
        BY <1>1, <2>1, <2>2 DEF PlaceOf
<1>2. CASE ~(tail + i - 1 < CSize)
    <2>1. PICK k \in CPlace : k = tail + i - 1 - CSize /\ tail + i - 1 = k + CSize
        BY <1>2, CSizeIsNatural DEF CPlace
    <2>2. (k + CSize) % CSize = k
        BY CSizeIsNatural, Wraps DEF CPlace
    <2> QED
        BY <1>2, <2>1, <2>2 DEF PlaceOf
<1> QED
    BY <1>1, <1>2

\* The place after a place.
LEMMA NextCPlace ==
    ASSUME NEW i \in CPlace
    PROVE  /\ (i + 1) % CSize = IF i + 1 = CSize THEN 0 ELSE i + 1
           /\ (i + 1) % CSize \in CPlace
    BY CSizeIsNatural, RingNext DEF CPlace

\* A packet that is put waits behind the others.
LEMMA RingPut ==
    ASSUME NEW head \in CPlace, NEW tail \in CPlace, NEW next \in CPlace,
           next = (head + 1) % CSize, next # tail
    PROVE  /\ Waits(next, tail) = Waits(head, tail) + 1 /\ next # head
           /\ PlaceOf(tail, Waits(head, tail) + 1) = head
           /\ \A i \in 1 .. Waits(head, tail) : PlaceOf(tail, i) # head
<1>1. next = IF head + 1 = CSize THEN 0 ELSE head + 1
    BY NextCPlace, Zenon
<1>2. PICK n \in 0 .. CSize - 1 : n = Waits(head, tail)
    BY RingLength
<1>3. next # head /\ Waits(next, tail) = n + 1
    BY <1>1, <1>2, CSizeIsNatural DEF Waits, CPlace
<1>4. PlaceOf(tail, n + 1) = head
    BY <1>2, CSizeIsNatural DEF Waits, PlaceOf, CPlace
<1>5. ASSUME NEW i \in 1 .. n PROVE PlaceOf(tail, i) # head
    BY <1>2, CSizeIsNatural DEF Waits, PlaceOf, CPlace
<1> QED
    BY <1>2, <1>3, <1>4, <1>5

\* Behind the last packet is the head.
LEMMA RingEnd ==
    ASSUME NEW head \in CPlace, NEW tail \in CPlace
    PROVE  (tail + Waits(head, tail)) % CSize = head /\ Waits(head, head) = 0
<1>1. PICK i \in 1 .. CSize : i = Waits(head, tail) + 1
    BY RingLength, CSizeIsNatural
<1>2. tail + Waits(head, tail) = tail + i - 1
    BY <1>1, RingLength DEF CPlace
<1>3. PlaceOf(tail, i) = head
    BY <1>1, CSizeIsNatural DEF Waits, PlaceOf, CPlace
<1> QED
    BY <1>2, <1>3, RingPlace DEF Waits, CPlace

\* The packets that wait, place by place.
LEMMA PendingIs ==
    ASSUME NEW r \in CursorType, NEW n, n = Waits(r.head, r.tail)
    PROVE  /\ n \in 0 .. CSize - 1 /\ n \in Nat /\ Len(Pending(r, CSize)) = n
           /\ Pending(r, CSize) = [i \in 1 .. n |-> r.packets[PlaceOf(r.tail, i)]]
           /\ \A i \in 1 .. n : Pending(r, CSize)[i] = r.packets[PlaceOf(r.tail, i)]
<1>1. r.head \in CPlace /\ r.tail \in CPlace
    BY DEF CursorType
<1>2. n \in 0 .. CSize - 1 /\ n \in Nat /\ (r.head - r.tail) % CSize = n
    BY <1>1, RingLength
<1>3. \A i \in 1 .. n : (r.tail + i - 1) % CSize = PlaceOf(r.tail, i)
    BY <1>1, <1>2, RingPlace, CSizeIsNatural
<1>4. Pending(r, CSize) = [i \in 1 .. n |-> r.packets[(r.tail + i - 1) % CSize]]
    BY <1>2, Zenon DEF Pending
<1>5. Pending(r, CSize) = [i \in 1 .. n |-> r.packets[PlaceOf(r.tail, i)]]
    BY <1>3, <1>4, Zenon
<1> QED
    BY <1>2, <1>5

\* The packets that wait are of connected mice, or cancelled.
OfMice(r, C) ==
    \A i \in 1 .. Waits(r.head, r.tail) :
        /\ r.packets[PlaceOf(r.tail, i)] \in Motion
        /\ r.packets[PlaceOf(r.tail, i)].controller \in C \cup {Cancelled}

CursorInv == cursor \in CursorType /\ OfMice(cursor, connected) /\ CursorOwesExactly

\* The packets that wait are a sequence of motions.
LEMMA QueueType ==
    ASSUME NEW r \in CursorType, NEW C, OfMice(r, C)
    PROVE  Pending(r, CSize) \in Seq(Motion)
<1> DEFINE at(i) == r.packets[PlaceOf(r.tail, i)]
<1>1. PICK n \in Nat : n = Waits(r.head, r.tail) /\ Pending(r, CSize) = [i \in 1 .. n |-> at(i)]
    BY PendingIs
<1>2. \A i \in 1 .. n : at(i) \in Motion
    BY <1>1, Zenon DEF OfMice
<1> HIDE DEF at
<1>3. [i \in 1 .. n |-> at(i)] \in Seq(Motion)
    BY <1>2
<1> QED
    BY <1>1, <1>3, Zenon

\* What putting a packet into the cursor ring does.
LEMMA PutMotion ==
    ASSUME NEW r \in CursorType, NEW p \in Motion, NEW e, e = put(r, CSize, p)
    PROVE  /\ e \in CursorType /\ e.tail = r.tail
           /\ \/ e.head = r.head /\ e.packets = r.packets
              \/ /\ (r.head + 1) % CSize # r.tail /\ e.head = (r.head + 1) % CSize
                 /\ e.packets = [r.packets EXCEPT ![r.head] = p]
<1>1. /\ r.head \in CPlace /\ r.tail \in CPlace /\ r.dropped \in Nat /\ r.dropped + 1 \in Nat
      /\ r.packets \in [CPlace -> Motion \cup {<<>>}]
    BY DEF CursorType
<1>2. (r.head + 1) % CSize \in CPlace
    BY <1>1, CSizeIsNatural, RingNext DEF CPlace
<1>3. CASE (r.head + 1) % CSize = r.tail
    <2>1. e = [r EXCEPT !.dropped = @ + 1]
        BY <1>3, Zenon DEF put
    <2> QED
        BY <1>1, <2>1, Zenon DEF CursorType
<1>4. CASE (r.head + 1) % CSize # r.tail
    <2> DEFINE next == (r.head + 1) % CSize
    <2>1. e = [r EXCEPT !.packets[r.head] = p, !.head = next]
        BY <1>4, Zenon DEF put
    <2> HIDE DEF next
    <2>2. [r.packets EXCEPT ![r.head] = p] \in [CPlace -> Motion \cup {<<>>}]
        BY <1>1, Zenon
    <2>3. /\ e.packets = [r.packets EXCEPT ![r.head] = p]
          /\ e.head = next /\ e.tail = r.tail /\ e.dropped = r.dropped
        BY <1>1, <2>1, Zenon DEF CursorType
    <2>4. e \in CursorType
        BY <1>1, <1>2, <2>1, <2>2, Zenon DEF CursorType, next
    <2> QED
        BY <1>4, <2>3, <2>4 DEF next
<1> QED
    BY <1>3, <1>4, Zenon

\* Rings with the same packets.
LEMMA SamePackets ==
    ASSUME NEW r, NEW e, e.head = r.head, e.tail = r.tail, e.packets = r.packets
    PROVE  /\ Pending(e, CSize) = Pending(r, CSize)
           /\ \A C : OfMice(r, C) => OfMice(e, C)
    BY Zenon DEF Pending, OfMice

\* A packet that is put is kept behind the others.
LEMMA PutKeeps ==
    ASSUME NEW r \in CursorType, NEW e \in CursorType, NEW p \in Motion, NEW C,
           e.tail = r.tail, (r.head + 1) % CSize # r.tail, e.head = (r.head + 1) % CSize,
           e.packets = [r.packets EXCEPT ![r.head] = p], p.controller \in C, OfMice(r, C)
    PROVE  /\ OfMice(e, C) /\ e.head # r.head
           /\ Of(Pending(e, CSize), C) = Append(Of(Pending(r, CSize), C), p)
<1>1. /\ r.head \in CPlace /\ r.tail \in CPlace /\ e.head \in CPlace
      /\ r.packets \in [CPlace -> Motion \cup {<<>>}]
    BY DEF CursorType
<1>2. PICK n \in Nat : n = Waits(r.head, r.tail) /\ n \in 0 .. CSize - 1
    BY <1>1, RingLength
<1>3. /\ Waits(e.head, e.tail) = n + 1 /\ e.head # r.head /\ PlaceOf(r.tail, n + 1) = r.head
      /\ \A i \in 1 .. n : PlaceOf(r.tail, i) # r.head
    BY <1>1, <1>2, RingPut
<1>4. \A i \in 1 .. n + 1 : PlaceOf(r.tail, i) \in CPlace
    <2>1. \A i \in 1 .. n + 1 : i \in 1 .. CSize
        BY <1>2, CSizeIsNatural
    <2> QED
        BY <1>1, <2>1, RingPlace, Zenon
<1>5. /\ e.packets[PlaceOf(e.tail, n + 1)] = p
      /\ \A i \in 1 .. n : e.packets[PlaceOf(e.tail, i)] = r.packets[PlaceOf(r.tail, i)]
    <2>1. \A i \in 1 .. n : i \in 1 .. n + 1
        BY <1>2
    <2>2. e.packets[r.head] = p /\ \A k \in CPlace : k # r.head => e.packets[k] = r.packets[k]
        BY <1>1, Zenon
    <2> QED
        BY <1>3, <1>4, <2>1, <2>2, Zenon
<1>6. OfMice(e, C)
    <2> SUFFICES ASSUME NEW i \in 1 .. n + 1
                 PROVE  /\ e.packets[PlaceOf(e.tail, i)] \in Motion
                        /\ e.packets[PlaceOf(e.tail, i)].controller \in C \cup {Cancelled}
        BY <1>3, Zenon DEF OfMice
    <2>1. i = n + 1 \/ i \in 1 .. n
        BY <1>2
    <2> QED
        BY <1>2, <1>5, <2>1, Zenon DEF OfMice
<1>7. /\ Len(Pending(r, CSize)) = n /\ Len(Pending(e, CSize)) = n + 1
      /\ Pending(e, CSize)[n + 1] = p
      /\ \A i \in 1 .. n : Pending(e, CSize)[i] = Pending(r, CSize)[i]
    <2>1. n + 1 \in 1 .. n + 1 /\ \A i \in 1 .. n : i \in 1 .. n + 1
        BY <1>2
    <2>2. Len(Pending(r, CSize)) = n
          /\ \A i \in 1 .. n : Pending(r, CSize)[i] = r.packets[PlaceOf(r.tail, i)]
        BY <1>2, PendingIs, Zenon
    <2>3. Len(Pending(e, CSize)) = n + 1
          /\ \A i \in 1 .. n + 1 : Pending(e, CSize)[i] = e.packets[PlaceOf(e.tail, i)]
        BY <1>3, PendingIs, Zenon
    <2> QED
        BY <1>5, <2>1, <2>2, <2>3, Zenon
<1>8. PICK s, t : s = Pending(e, CSize) /\ t = Pending(r, CSize)
    BY Zenon
<1>9. n = Len(t) /\ n + 1 = Len(s) /\ s[n + 1] = p /\ \A i \in 1 .. n : s[i] = t[i]
    BY <1>7, <1>8, Zenon
<1>10. Of(s, C) = Kept(Of(t, C), s[n + 1], C)
    BY <1>9, OfMore
<1> QED
    BY <1>3, <1>6, <1>8, <1>9, <1>10, Zenon DEF Kept

-----------------------------------------------------------------------------
(* Motion is shown once.                                                   *)

\* At the start nothing waits and nothing is owed.
LEMMA CursorInit == Init => CursorInv
<1> SUFFICES ASSUME Init PROVE CursorInv
    OBVIOUS
<1>1. /\ cursor = [head |-> 0, tail |-> 0, dropped |-> 0, packets |-> [i \in CPlace |-> <<>>]]
      /\ 0 \in CPlace /\ owed = <<>>
    BY CSizeIsNatural DEF Init, Ring, CPlace, CSize
<1>2. [i \in CPlace |-> <<>>] \in [CPlace -> Motion \cup {<<>>}]
    BY Zenon
<1>3. cursor \in CursorType
    BY <1>1, <1>2 DEF CursorType
<1>4. Waits(cursor.head, cursor.tail) = 0
    BY <1>1 DEF Waits
<1>5. Len(Pending(cursor, CSize)) = 0
    BY <1>3, <1>4, PendingIs
<1>6. CursorOwesExactly
    BY <1>1, <1>5, OfNone DEF CursorOwesExactly, CSize
<1>7. OfMice(cursor, connected)
    BY <1>4 DEF OfMice
<1> QED
    BY <1>3, <1>6, <1>7 DEF CursorInv

\* Steps that leave the ring and the connections alone.
LEMMA CursorSame ==
    ASSUME CursorInv, UNCHANGED <<cursor, connected, owed>>
    PROVE  CursorInv'
    BY Zenon DEF CursorInv, CursorOwesExactly, OfMice

\* A report arrives: its motion is owed exactly when the ring takes it.
LEMMA ReportOwes ==
    ASSUME MouseInv, CursorInv, NEW id \in Controller, report_data(id)
    PROVE  CursorInv'
<1> DEFINE p == [controller |-> id, gen |-> device[id].gen]
<1>1. /\ id \in connected /\ connected' = connected
      /\ cursor' = put(cursor, CSize, p) \/ cursor' = cursor
      /\ owed' = IF cursor'.head # cursor.head THEN Append(owed, p) ELSE owed
    BY Zenon DEF report_data, mouse_cursor_enqueue, CSize
<1>2. p \in Motion /\ p.controller = id
    BY DEF MouseInv, TypeOK, DeviceType, Motion
<1> HIDE DEF p
<1>3. cursor \in CursorType /\ OfMice(cursor, connected)
      /\ Of(Pending(cursor, CSize), connected) = owed
    BY Zenon DEF CursorInv, CursorOwesExactly, CSize
<1>4. CASE cursor' = cursor
    BY <1>1, <1>4, CursorSame, Zenon
<1>5. CASE cursor' = put(cursor, CSize, p)
    <2>1. /\ cursor' \in CursorType /\ cursor'.tail = cursor.tail
          /\ \/ cursor'.head = cursor.head /\ cursor'.packets = cursor.packets
             \/ /\ (cursor.head + 1) % CSize # cursor.tail
                /\ cursor'.head = (cursor.head + 1) % CSize
                /\ cursor'.packets = [cursor.packets EXCEPT ![cursor.head] = p]
        BY <1>2, <1>3, <1>5, PutMotion, Zenon
    <2>2. CASE cursor'.head = cursor.head /\ cursor'.packets = cursor.packets
        <3>1. Pending(cursor', CSize) = Pending(cursor, CSize) /\ OfMice(cursor', connected)
            BY <1>3, <2>1, <2>2, SamePackets, Zenon
        <3> QED
            BY <1>1, <1>3, <2>1, <2>2, <3>1, Zenon DEF CursorInv, CursorOwesExactly, OfMice, CSize
    <2>3. CASE /\ (cursor.head + 1) % CSize # cursor.tail
               /\ cursor'.head = (cursor.head + 1) % CSize
               /\ cursor'.packets = [cursor.packets EXCEPT ![cursor.head] = p]
        <3>1. /\ OfMice(cursor', connected) /\ cursor'.head # cursor.head
              /\ Of(Pending(cursor', CSize), connected) =
                    Append(Of(Pending(cursor, CSize), connected), p)
            BY <1>1, <1>2, <1>3, <2>1, <2>3, PutKeeps, Zenon
        <3> QED
            BY <1>1, <1>3, <2>1, <3>1, Zenon DEF CursorInv, CursorOwesExactly, OfMice, CSize
    <2> QED
        BY <2>1, <2>2, <2>3
<1> QED
    BY <1>1, <1>4, <1>5

\* 255 is no controller.
LEMMA CancelledIsNone == Cancelled \notin Controller
    BY MouseAssumption DEF Controller, Cancelled

\* A stream starts: none of its motions waits yet.
LEMMA ConnectOwes ==
    ASSUME CursorInv, NEW id \in Controller, report_connected(id)
    PROVE  CursorInv'
<1>1. id \notin connected /\ connected' = connected \cup {id} /\ UNCHANGED <<cursor, owed>>
    BY Zenon DEF report_connected
<1>2. cursor \in CursorType /\ OfMice(cursor, connected)
      /\ Of(Pending(cursor, CSize), connected) = owed
    BY Zenon DEF CursorInv, CursorOwesExactly, CSize
<1>3. PICK n \in Nat : /\ n = Waits(cursor.head, cursor.tail) /\ Len(Pending(cursor, CSize)) = n
                       /\ \A i \in 1 .. n : Pending(cursor, CSize)[i] =
                                                cursor.packets[PlaceOf(cursor.tail, i)]
    BY <1>2, PendingIs, Zenon
<1>4. PICK s : s = Pending(cursor, CSize) /\ Len(s) = n
    BY <1>3, Zenon
<1>5. \A i \in 1 .. n : s[i].controller # id
    BY <1>1, <1>2, <1>3, <1>4, CancelledIsNone, Zenon DEF OfMice
<1>6. \A i \in 0 .. n - 1 : i + 1 \in 1 .. n
    OBVIOUS
<1>7. PICK C : C = connected'
    BY Zenon
<1>8. Alike(s, connected, s, C, n)
    <2> SUFFICES ASSUME NEW i \in 0 .. n - 1
                 PROVE  \A d : Kept(d, s[i + 1], connected) = Kept(d, s[i + 1], C)
        BY Zenon DEF Alike
    <2>1. s[i + 1].controller # id
        BY <1>5, <1>6, Zenon
    <2> QED
        BY <1>1, <1>7, <2>1 DEF Kept
<1>10. Of(s, connected) = Of(s, C)
    BY <1>4, <1>8, OfAlike
<1>9. OfMice(cursor', connected')
    BY <1>1, <1>2, Zenon DEF OfMice
<1> QED
    BY <1>1, <1>2, <1>4, <1>7, <1>9, <1>10, Zenon DEF CursorInv, CursorOwesExactly, OfMice, CSize

\* Cancelling in place: the packets of one controller get another number, those of
\* the others stay.
LEMMA CancelIs ==
    ASSUME cursor \in CursorType, OfMice(cursor, connected), NEW id \in Controller,
           NEW e, e = mouse_cursor_cancel(id)
    PROVE  /\ e \in CursorType /\ e.head = cursor.head /\ e.tail = cursor.tail
           /\ \A i \in 1 .. Waits(cursor.head, cursor.tail) :
                 LET p == cursor.packets[PlaceOf(cursor.tail, i)]
                 IN  e.packets[PlaceOf(cursor.tail, i)] =
                        IF p.controller = id THEN [p EXCEPT !.controller = Cancelled] ELSE p
<1>1. /\ cursor.head \in CPlace /\ cursor.tail \in CPlace /\ cursor.dropped \in Nat
      /\ cursor.packets \in [CPlace -> Motion \cup {<<>>}]
    BY DEF CursorType
<1>2. PICK n \in Nat : n = Waits(cursor.head, cursor.tail) /\ n \in 0 .. CSize - 1
    BY <1>1, RingLength
<1>11. n = (cursor.head - cursor.tail) % CSize
    BY <1>1, <1>2, RingLength
<1>12. cursor.tail \in Int /\ CSize \in Nat /\ n \in Nat /\ n <= CSize - 1
    BY <1>1, <1>2, CSizeIsNatural DEF CPlace
<1> DEFINE waiting == {(cursor.tail + i) % CSize : i \in 0 .. n - 1}
           new(k) == IF k \in waiting /\ cursor.packets[k].controller = id
                     THEN [cursor.packets[k] EXCEPT !.controller = Cancelled]
                     ELSE cursor.packets[k]
<1>3. e = [cursor EXCEPT !.packets = [k \in CPlace |-> new(k)]]
    <2>1. DOMAIN cursor.packets = CPlace
        BY <1>1
    <2> QED
        BY <1>11, <2>1 DEF mouse_cursor_cancel, CSize
<1>4. \A k \in waiting : \E i \in 1 .. n : k = PlaceOf(cursor.tail, i)
    <2> SUFFICES ASSUME NEW j \in 0 .. n - 1
                 PROVE  \E i \in 1 .. n : (cursor.tail + j) % CSize = PlaceOf(cursor.tail, i)
        OBVIOUS
    <2>1. j + 1 \in 1 .. CSize /\ j + 1 \in 1 .. n /\ cursor.tail + (j + 1) - 1 = cursor.tail + j
        BY <1>12
    <2>2. (cursor.tail + (j + 1) - 1) % CSize = PlaceOf(cursor.tail, j + 1)
        BY <1>1, <2>1, RingPlace, Zenon
    <2> QED
        BY <2>1, <2>2
<1>5. \A i \in 1 .. n : PlaceOf(cursor.tail, i) \in waiting /\ PlaceOf(cursor.tail, i) \in CPlace
    <2> TAKE i \in 1 .. n
    <2>1. i \in 1 .. CSize /\ i - 1 \in 0 .. n - 1 /\ cursor.tail + i - 1 = cursor.tail + (i - 1)
        BY <1>12
    <2>2. /\ (cursor.tail + i - 1) % CSize = PlaceOf(cursor.tail, i)
          /\ PlaceOf(cursor.tail, i) \in CPlace
        BY <1>1, <2>1, RingPlace, Zenon
    <2> QED
        BY <2>1, <2>2
<1> HIDE DEF waiting
<1>6. \A k \in waiting : cursor.packets[k] \in Motion
    BY <1>2, <1>4, Zenon DEF OfMice
<1>7. \A k \in CPlace : new(k) \in Motion \cup {<<>>}
    <2> SUFFICES ASSUME NEW k \in CPlace PROVE new(k) \in Motion \cup {<<>>}
        OBVIOUS
    <2>1. ASSUME NEW p \in Motion PROVE [p EXCEPT !.controller = Cancelled] \in Motion
        BY Zenon DEF Motion
    <2> QED
        BY <1>1, <1>6, <2>1, Zenon
<1>8. [k \in CPlace |-> new(k)] \in [CPlace -> Motion \cup {<<>>}]
    BY <1>7, Zenon
<1>9. /\ e \in CursorType /\ e.head = cursor.head /\ e.tail = cursor.tail
      /\ e.packets = [k \in CPlace |-> new(k)]
    <2> HIDE DEF new
    <2>1. PICK f : f = [k \in CPlace |-> new(k)] /\ f \in [CPlace -> Motion \cup {<<>>}]
        BY <1>8, Zenon
    <2>2. e = [cursor EXCEPT !.packets = f]
        BY <1>3, <2>1, Zenon
    <2>3. e \in CursorType /\ e.head = cursor.head /\ e.tail = cursor.tail /\ e.packets = f
        BY <1>1, <2>1, <2>2, Zenon DEF CursorType
    <2> QED
        BY <2>1, <2>3, Zenon
<1>10. \A i \in 1 .. n : e.packets[PlaceOf(cursor.tail, i)] =
            IF cursor.packets[PlaceOf(cursor.tail, i)].controller = id
            THEN [cursor.packets[PlaceOf(cursor.tail, i)] EXCEPT !.controller = Cancelled]
            ELSE cursor.packets[PlaceOf(cursor.tail, i)]
    BY <1>5, <1>9, Zenon
<1> QED
    BY <1>2, <1>9, <1>10, Zenon

\* A stream ends: its motions are no longer owed, nor kept.
LEMMA DisconnectOwes ==
    ASSUME CursorInv, connected \subseteq Controller, NEW id \in Controller,
           report_disconnected(id)
    PROVE  CursorInv'
<1>1. PICK C : /\ C = connected' /\ C = connected \ {id} /\ owed' = Of(owed, C)
               /\ cursor' = mouse_cursor_cancel(id)
    BY Zenon DEF report_disconnected
<1>2. cursor \in CursorType /\ OfMice(cursor, connected)
      /\ Of(Pending(cursor, CSize), connected) = owed
    BY Zenon DEF CursorInv, CursorOwesExactly, CSize
<1>3. PICK n \in Nat : n = Waits(cursor.head, cursor.tail)
    BY <1>2, PendingIs, Zenon
<1> DEFINE at(i) == cursor.packets[PlaceOf(cursor.tail, i)]
<1>4. PICK e : e = cursor'
    BY Zenon
<1>5. /\ e \in CursorType /\ e.head = cursor.head /\ e.tail = cursor.tail
      /\ \A i \in 1 .. n : e.packets[PlaceOf(cursor.tail, i)] =
              IF at(i).controller = id THEN [at(i) EXCEPT !.controller = Cancelled] ELSE at(i)
    BY <1>1, <1>2, <1>3, <1>4, CancelIs
<1>6. PICK s, t : s = Pending(cursor, CSize) /\ t = Pending(e, CSize)
    BY Zenon
<1>7. /\ Len(s) = n /\ Len(t) = n
      /\ \A i \in 1 .. n : s[i] = at(i) /\ t[i] = e.packets[PlaceOf(cursor.tail, i)]
    <2>1. Len(s) = n /\ \A i \in 1 .. n : s[i] = at(i)
        BY <1>2, <1>3, <1>6, PendingIs, Zenon
    <2>2. n = Waits(e.head, e.tail)
        BY <1>3, <1>5, Zenon
    <2>3. Len(t) = n /\ \A i \in 1 .. n : t[i] = e.packets[PlaceOf(e.tail, i)]
        BY <1>5, <1>6, <2>2, PendingIs, Zenon
    <2> QED
        BY <1>5, <2>1, <2>3, Zenon
<1>8. \A i \in 1 .. n : s[i] \in Motion /\ s[i].controller \in connected \cup {Cancelled}
    BY <1>2, <1>3, <1>7, Zenon DEF OfMice
<1>9. s \in Seq(Motion)
    BY <1>2, <1>6, QueueType, Zenon
<1>10. ASSUME NEW p \in Motion, p.controller \in connected \cup {Cancelled}, NEW q,
              q = IF p.controller = id THEN [p EXCEPT !.controller = Cancelled] ELSE p
       PROVE  /\ q \in Motion /\ q.controller \in C \cup {Cancelled}
              /\ \A d : Kept(d, p, C) = Kept(d, q, C)
    <2>1. CASE p.controller = id
        <3>1. q \in Motion /\ q.controller = Cancelled
            BY <1>10, <2>1, Zenon DEF Motion
        <3>2. Cancelled \notin C /\ id \notin C
            BY <1>1, CancelledIsNone, Zenon
        <3> QED
            BY <2>1, <3>1, <3>2, Zenon DEF Kept
    <2>2. CASE p.controller # id
        BY <1>1, <1>10, <2>2, Zenon
    <2> QED
        BY <2>1, <2>2
<1>11. \A i \in 1 .. n : /\ t[i] \in Motion /\ t[i].controller \in C \cup {Cancelled}
                         /\ \A d : Kept(d, s[i], C) = Kept(d, t[i], C)
    <2> SUFFICES ASSUME NEW i \in 1 .. n
                 PROVE  /\ t[i] \in Motion /\ t[i].controller \in C \cup {Cancelled}
                        /\ \A d : Kept(d, s[i], C) = Kept(d, t[i], C)
        OBVIOUS
    <2>1. PICK p \in Motion : p = s[i] /\ p.controller \in connected \cup {Cancelled}
        BY <1>8, Zenon
    <2>2. t[i] = IF p.controller = id THEN [p EXCEPT !.controller = Cancelled] ELSE p
        BY <1>5, <1>7, <2>1, Zenon
    <2> QED
        BY <1>10, <2>1, <2>2
<1>12. Alike(s, C, t, C, n)
    <2>1. \A i \in 0 .. n - 1 : i + 1 \in 1 .. n
        OBVIOUS
    <2> QED
        BY <1>11, <2>1, Zenon DEF Alike
<1>13. Of(Of(s, connected), C) = Of(t, C)
    <2>1. C \subseteq connected
        BY <1>1, Zenon
    <2> QED
        BY <1>7, <1>9, <1>12, <2>1, OfOf
<1>14. OfMice(e, C)
    <2>1. Waits(e.head, e.tail) = n
        BY <1>3, <1>5, Zenon
    <2>2. \A i \in 1 .. n : e.packets[PlaceOf(e.tail, i)] = t[i]
        BY <1>5, <1>7, Zenon
    <2>3. \A i \in 1 .. n : t[i] \in Motion /\ t[i].controller \in C \cup {Cancelled}
        BY <1>11, Zenon
    <2> QED
        BY <2>1, <2>2, <2>3, Zenon DEF OfMice
<1> QED
    BY <1>1, <1>2, <1>4, <1>5, <1>6, <1>13, <1>14, Zenon DEF CursorInv, CursorOwesExactly, OfMice,
        CSize

\* The display takes all that is owed, or nothing: one batch has place for the
\* whole ring.
LEMMA DrainOwes ==
    ASSUME CursorInv, mouse_cursor_drain
    PROVE  CursorInv'
<1>1. cursor \in CursorType /\ OfMice(cursor, connected)
      /\ Of(Pending(cursor, CSize), connected) = owed
    BY Zenon DEF CursorInv, CursorOwesExactly, CSize
<1>2. PICK n \in Nat : /\ n = Waits(cursor.head, cursor.tail) /\ n \in 0 .. CSize - 1
                       /\ n = Len(Pending(cursor, CSize))
    BY <1>1, PendingIs, Zenon
<1>3. PICK s : s = Pending(cursor, CSize) /\ n = Len(s)
    BY <1>2, Zenon
<1>4. s \in Seq(Motion)
    BY <1>1, <1>3, QueueType, Zenon
<1>5. Scanned = s
    <2>1. Scanned = SubSeq(s, 1, Min({n, I915_CURSOR_BATCH}))
        BY <1>3, Zenon DEF Scanned, CSize
    <2>2. n <= I915_CURSOR_BATCH /\ I915_CURSOR_BATCH \in Nat
        BY <1>2, CSizeIsNatural, MouseAssumption DEF CSize
    <2>3. Min({n, I915_CURSOR_BATCH}) = n
        BY <2>2 DEF Min
    <2>4. SubSeq(s, 1, n) = s
        BY <1>3, <1>4, WholeSequence, Zenon
    <2> QED
        BY <2>1, <2>3, <2>4, Zenon
<1>6. motions = owed
    BY <1>1, <1>3, <1>5, Zenon DEF motions
<1>7. /\ cursor' = [cursor EXCEPT !.tail = (cursor.tail + n) % CSize]
      /\ owed' = SubSeq(owed, Len(owed) + 1, Len(owed)) /\ connected' = connected
    BY <1>3, <1>5, <1>6, Zenon DEF mouse_cursor_drain, usb, CSize
<1>8. owed' = <<>>
    <2>1. owed \in Seq(Motion)
        BY <1>1, <1>3, <1>4, OfType, Zenon
    <2> QED
        BY <1>7, <2>1, NothingLeft, Zenon
<1>9. cursor.head \in CPlace /\ cursor.tail \in CPlace
    BY <1>1 DEF CursorType
<1>10. (cursor.tail + n) % CSize = cursor.head /\ Waits(cursor.head, cursor.head) = 0
    BY <1>2, <1>9, RingEnd, Zenon
<1>11. PICK e : e = cursor' /\ e = [cursor EXCEPT !.tail = cursor.head]
    BY <1>7, <1>10, Zenon
<1>12. e \in CursorType /\ Waits(e.head, e.tail) = 0
    BY <1>1, <1>9, <1>10, <1>11, Zenon DEF CursorType
<1>13. Of(Pending(e, CSize), connected) = <<>>
    <2>1. Len(Pending(e, CSize)) = 0
        BY <1>12, PendingIs, Zenon
    <2> QED
        BY <2>1, OfNone, Zenon
<1>14. OfMice(e, connected)
    BY <1>12 DEF OfMice
<1> QED
    BY <1>7, <1>8, <1>11, <1>12, <1>13, <1>14, Zenon DEF CursorInv, CursorOwesExactly, OfMice, CSize

\* Every step keeps the ring and what is owed in agreement.
LEMMA CursorStep == MouseInv /\ CursorInv /\ [Next]_vars => CursorInv'
<1> SUFFICES ASSUME MouseInv, CursorInv, [Next]_vars PROVE CursorInv'
    OBVIOUS
<1>1. connected \subseteq Controller
    BY DEF MouseInv, TypeOK
<1>2. ASSUME graphics_enter \/ graphics_leave \/ UNCHANGED vars
      PROVE  UNCHANGED <<cursor, connected, owed>>
    BY <1>2, Zenon DEF graphics_enter, graphics_leave, vars, usb
<1>3. ASSUME NEW c \in Caller,
             \/ mouse_driver_service(c) \/ release_stale_buttons(c) \/ check_dropped(c)
             \/ observe(c) \/ discard(c) \/ read(c) \/ advance(c)
             \/ deliver(c) \/ store(c) \/ return(c)
      PROVE  UNCHANGED <<cursor, connected, owed>>
    BY <1>3, Zenon DEF mouse_driver_service, release_stale_buttons, check_dropped, observe, discard,
       read, advance, deliver, store, return, usb
<1> QED
    BY <1>1, <1>2, <1>3, CursorSame, ReportOwes, ConnectOwes, DisconnectOwes, DrainOwes, Zenon
        DEF Next

\* Every motion the cursor ring takes is shown exactly once and in order, unless its
\* mouse goes first: what waits of connected mice is what is owed
\* (mouse_cursor_enqueue, mouse_cursor_cancel, mouse_cursor_drain).
THEOREM MotionIsShownOnce == Spec => []CursorOwesExactly
<1>1. CursorInv => CursorOwesExactly
    BY DEF CursorInv
<1> QED
    BY MouseInvariant, CursorInit, CursorStep, <1>1, PTL DEF Spec

=============================================================================
