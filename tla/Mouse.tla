------------------------------- MODULE Mouse -------------------------------
(***************************************************************************)
(* The mouse path above the USB host: reports arrive in interrupt context  *)
(* and go to two rings, the event queue a ring-2 service decodes for       *)
(* processes, and the kernel-only cursor queue the timer drains into the   *)
(* display.  Mice are unplugged and plugged in again while both are in use.*)
(*                                                                         *)
(* mouse_receive and mouse_cursor_service run with interrupts off and are  *)
(* single steps.  The ring-2 service runs with interrupts on: each of its  *)
(* accesses to state the interrupt side writes is a step.                  *)
(***************************************************************************)
EXTENDS Integers, Sequences, FiniteSetsExt

CONSTANTS
    Caller,                     \* tasks that call the ring-2 service
    MOUSE_CONTROLLER_COUNT,     \* 4
    MOUSE_QUEUE_SIZE,           \* 32
    MOUSE_CURSOR_QUEUE_SIZE,    \* 64
    I915_CURSOR_BATCH,          \* 64
    Machine                     \* graphics: did intel915_initialize find its device?
                                \* callers: the tasks that call; reports: what the mice
                                \* send; max_reports, max_connections: bounds on the
                                \* reports sent and the streams started in a behaviour

\* The controller of a cancelled packet.
Cancelled == 255

ASSUME MouseAssumption ==
    /\ \A m \in Machine :
          /\ m.graphics \in BOOLEAN /\ m.callers \subseteq Caller
          /\ m.reports \subseteq [buttons : 0 .. 7, moves : BOOLEAN, whole : BOOLEAN]
          /\ {m.max_reports, m.max_connections} \subseteq Nat
    /\ MOUSE_CONTROLLER_COUNT \in 0 .. Cancelled
    /\ MOUSE_QUEUE_SIZE \in Nat \ {0, 1} /\ MOUSE_CURSOR_QUEUE_SIZE \in Nat \ {0, 1}
    /\ I915_CURSOR_BATCH \in Nat /\ I915_CURSOR_BATCH >= MOUSE_CURSOR_QUEUE_SIZE - 1

Controller == 0 .. MOUSE_CONTROLLER_COUNT - 1

VARIABLES
    machine,    \* which machine it is
    device,     \* per controller: connections so far, buttons last reported
    sent,       \* reports sent
    connected,  \* controllers with an active stream
    events,     \* the event ring: head, tail, packets, dropped
    consumer,   \* ring 2's own state: observed_dropped, buttons
    lock,       \* the ring-2 lock
    pc, local,  \* where each caller is; its operation and variables
    cursor,     \* the cursor ring: head, tail, packets, dropped
    owed,       \* motions taken into the cursor ring, not yet shown or cancelled
    display     \* the graphics driver: busy lock, desktop drawn

usb == <<machine, device, sent, connected>>
vars == <<usb, events, consumer, lock, pc, local, cursor, owed, display>>

Ring(size) == [head |-> 0, tail |-> 0, dropped |-> 0,
               packets |-> [i \in 0 .. size - 1 |-> <<>>]]

\* The packets from tail to head, oldest first.
Pending(ring, size) ==
    [i \in 1 .. (ring.head - ring.tail) % size |-> ring.packets[(ring.tail + i - 1) % size]]

\* The packets of s whose controller is in S, in order: p is kept behind done.
Kept(done, p, S) == IF p.controller \in S THEN Append(done, p) ELSE done
Of(s, S) ==
    LET kept[i \in 0 .. Len(s)] == IF i = 0 THEN <<>> ELSE Kept(kept[i - 1], s[i], S)
    IN  kept[Len(s)]

\* The producer's side of both rings: a full ring drops the packet and counts.
put(ring, size, packet) ==
    IF (ring.head + 1) % size = ring.tail
    THEN [ring EXCEPT !.dropped = @ + 1]
    ELSE [ring EXCEPT !.packets[ring.head] = packet, !.head = (ring.head + 1) % size]

-----------------------------------------------------------------------------
(* mouse_receive: the USB host's callback, interrupts off.                 *)

\* A report goes to the event ring whatever its length, and to the cursor ring
\* when it is whole and moves.
mouse_cursor_enqueue(id, r) ==
    IF r.whole /\ r.moves
    THEN cursor' = put(cursor, MOUSE_CURSOR_QUEUE_SIZE,
                       [controller |-> id, gen |-> device[id].gen])
    ELSE UNCHANGED cursor

report_data(id) ==
    \E r \in machine.reports :
        /\ id \in connected /\ sent < machine.max_reports
        /\ sent' = sent + 1
        /\ device' = [device EXCEPT ![id].buttons = IF r.whole THEN r.buttons ELSE @]
        /\ events' = put(events, MOUSE_QUEUE_SIZE,
                         [controller |-> id, gen |-> device[id].gen,
                          whole |-> r.whole, buttons |-> r.buttons])
        /\ mouse_cursor_enqueue(id, r)
        /\ owed' = IF cursor'.head # cursor.head
                   THEN Append(owed, [controller |-> id, gen |-> device[id].gen])
                   ELSE owed
        /\ UNCHANGED <<machine, connected, consumer, lock, pc, local, display>>

\* A stream starts.  The kernel task starts one at least two of its own turns
\* after the stream before it ended, and every task has had a turn in between:
\* a caller that was inside the service when the stream ended has left it.
report_connected(id) ==
    /\ id \notin connected
    /\ MapThenSumSet(LAMBDA i : device[i].gen, Controller) < machine.max_connections
    /\ \A c \in Caller : id \notin local[c].missed
    /\ connected' = connected \cup {id}
    /\ device' = [device EXCEPT ![id] = [gen |-> @.gen + 1, buttons |-> 0]]
    /\ UNCHANGED <<machine, sent, events, consumer, lock, pc, local, cursor, owed, display>>

\* The motions of one controller are taken out of the cursor ring in place.
mouse_cursor_cancel(id) ==
    LET waiting == {(cursor.tail + i) % MOUSE_CURSOR_QUEUE_SIZE :
                        i \in 0 .. ((cursor.head - cursor.tail) % MOUSE_CURSOR_QUEUE_SIZE) - 1}
    IN  [cursor EXCEPT !.packets =
            [i \in DOMAIN @ |->
                IF i \in waiting /\ @[i].controller = id
                THEN [@[i] EXCEPT !.controller = Cancelled]
                ELSE @[i]]]

\* Mutant: queued events survive the disconnection.
disconnect_keeps_events(id) ==
    /\ id \in connected
    /\ connected' = connected \ {id}
    /\ cursor' = mouse_cursor_cancel(id)
    /\ owed' = Of(owed, connected \ {id})
    /\ local' = [c \in Caller |->
                    IF pc[c] = "idle" THEN local[c]
                    ELSE [local[c] EXCEPT !.missed = @ \cup {id}]]
    /\ UNCHANGED <<machine, device, sent, events, consumer, lock, pc, display>>

\* A stream ends: the event ring is invalidated by counting a loss.
report_disconnected(id) ==
    /\ id \in connected
    /\ connected' = connected \ {id}
    /\ events' = [events EXCEPT !.dropped = @ + 1]
    /\ cursor' = mouse_cursor_cancel(id)
    /\ owed' = Of(owed, connected \ {id})
    /\ local' = [c \in Caller |->
                    IF pc[c] = "idle" THEN local[c]
                    ELSE [local[c] EXCEPT !.missed = @ \cup {id}]]
    /\ UNCHANGED <<machine, device, sent, consumer, lock, pc, display>>

-----------------------------------------------------------------------------
(* The cursor: drained by the timer and by the kernel task, interrupts off.*)

\* The packets one drain looks at, and the motions it submits.
Scanned ==
    LET waiting == Pending(cursor, MOUSE_CURSOR_QUEUE_SIZE)
    IN  SubSeq(waiting, 1, Min({Len(waiting), I915_CURSOR_BATCH}))
motions == Of(Scanned, connected)

\* The submission is refused while the graphics driver holds its lock, and
\* before the desktop is drawn.
intel915_cursor_flush == ~display.busy /\ display.drawn

\* Mutant: a refused batch is forgotten.
drain_forgets_refused ==
    /\ Scanned # <<>>
    /\ cursor' = [cursor EXCEPT !.tail = (@ + Len(Scanned)) % MOUSE_CURSOR_QUEUE_SIZE]
    /\ owed' = IF intel915_cursor_flush
               THEN SubSeq(owed, Len(motions) + 1, Len(owed)) ELSE owed
    /\ UNCHANGED <<usb, events, consumer, lock, pc, local, display>>

\* A batch that is refused stays queued.
mouse_cursor_drain ==
    /\ Scanned # <<>>
    /\ motions = <<>> \/ intel915_cursor_flush
    /\ cursor' = [cursor EXCEPT !.tail = (@ + Len(Scanned)) % MOUSE_CURSOR_QUEUE_SIZE]
    /\ owed' = SubSeq(owed, Len(motions) + 1, Len(owed))
    /\ UNCHANGED <<usb, events, consumer, lock, pc, local, display>>

\* The ring-1 driver, which can be preempted while it holds its lock.
graphics_enter ==
    /\ machine.graphics /\ ~display.busy
    /\ display' = [display EXCEPT !.busy = TRUE]
    /\ UNCHANGED <<usb, events, consumer, lock, pc, local, cursor, owed>>

graphics_leave ==
    /\ display.busy
    /\ \E drawn \in {display.drawn, TRUE} : display' = [busy |-> FALSE, drawn |-> drawn]
    /\ UNCHANGED <<usb, events, consumer, lock, pc, local, cursor, owed>>

-----------------------------------------------------------------------------
(* The ring-2 service.                                                     *)

Fresh == [op |-> "none", id |-> 0, remaining |-> 0, packet |-> <<>>, missed |-> {}]
Quiet == [id \in Controller |-> 0]

At(c, from, to) == pc[c] = from /\ pc' = [pc EXCEPT ![c] = to]

\* Mutant: the lock is not looked at.
service_without_exchange(c) ==
    /\ c \in machine.callers
    /\ lock' = TRUE
    /\ \E op \in {"read", "query", "bad"} :
        /\ At(c, "idle", IF op = "bad" THEN "return" ELSE "stale")
        /\ local' = [local EXCEPT ![c] = [Fresh EXCEPT !.op = op, !.remaining = MOUSE_QUEUE_SIZE]]
    /\ UNCHANGED <<usb, events, consumer, cursor, owed, display>>

\* The exchange finds the lock free; a caller that finds it taken returns
\* MOUSE_BUSY at once.  A bad operation returns without touching the queue; the
\* queries, for buttons and for devices, differ in their answer only.
mouse_driver_service(c) ==
    /\ c \in machine.callers /\ ~lock
    /\ lock' = TRUE
    /\ \E op \in {"read", "query", "bad"} :
        /\ At(c, "idle", IF op = "bad" THEN "return" ELSE "stale")
        /\ local' = [local EXCEPT ![c] = [Fresh EXCEPT !.op = op, !.remaining = MOUSE_QUEUE_SIZE]]
    /\ UNCHANGED <<usb, events, consumer, cursor, owed, display>>

\* The buttons of the controllers without a stream are released, one by one.
release_stale_buttons(c) ==
    LET id == local[c].id
    IN  /\ IF id + 1 < MOUSE_CONTROLLER_COUNT
           THEN pc[c] = "stale" /\ UNCHANGED pc
           ELSE At(c, "stale", "check")
        /\ local' = [local EXCEPT ![c].id = id + 1]
        /\ consumer' = [consumer EXCEPT !.buttons[id] = IF id \in connected THEN @ ELSE 0]
        /\ UNCHANGED <<usb, events, lock, cursor, owed, display>>

check_dropped(c) ==
    /\ At(c, "check", IF consumer.observed_dropped # events.dropped THEN "observe"
                      ELSE IF local[c].op = "read" THEN "read" ELSE "return")
    /\ UNCHANGED <<usb, events, consumer, lock, local, cursor, owed, display>>

observe(c) ==
    /\ At(c, "observe", "discard")
    /\ consumer' = [consumer EXCEPT !.observed_dropped = events.dropped]
    /\ UNCHANGED <<usb, events, lock, local, cursor, owed, display>>

\* Mutant: the buttons are kept when events were lost.
discard_keeps_buttons(c) ==
    /\ At(c, "discard", "return")
    /\ events' = [events EXCEPT !.tail = events.head]
    /\ UNCHANGED <<usb, consumer, lock, local, cursor, owed, display>>

\* MOUSE_EVENT_LOST: the queue is emptied and every button released.
discard(c) ==
    /\ At(c, "discard", "return")
    /\ events' = [events EXCEPT !.tail = events.head]
    /\ consumer' = [consumer EXCEPT !.buttons = Quiet]
    /\ UNCHANGED <<usb, lock, local, cursor, owed, display>>

read(c) ==
    /\ IF local[c].remaining # 0 /\ events.tail # events.head
       THEN /\ At(c, "read", "advance")
            /\ local' = [local EXCEPT ![c].packet = events.packets[events.tail]]
       ELSE At(c, "read", "return") /\ UNCHANGED local
    /\ UNCHANGED <<usb, events, consumer, lock, cursor, owed, display>>

\* The place is given back; a short report counts as malformed.
advance(c) ==
    /\ At(c, "advance", IF local[c].packet.whole THEN "deliver" ELSE "read")
    /\ events' = [events EXCEPT !.tail = (@ + 1) % MOUSE_QUEUE_SIZE]
    /\ local' = [local EXCEPT ![c].remaining = @ - 1]
    /\ UNCHANGED <<usb, consumer, lock, cursor, owed, display>>

\* An event of a controller whose stream has ended is skipped.
deliver(c) ==
    /\ At(c, "deliver", IF local[c].packet.controller \in connected THEN "store" ELSE "read")
    /\ UNCHANGED <<usb, events, consumer, lock, local, cursor, owed, display>>

store(c) ==
    /\ At(c, "store", "return")
    /\ consumer' = [consumer EXCEPT !.buttons[local[c].packet.controller] =
                                        local[c].packet.buttons]
    /\ UNCHANGED <<usb, events, lock, local, cursor, owed, display>>

return(c) ==
    /\ At(c, "return", "idle")
    /\ lock' = FALSE
    /\ local' = [local EXCEPT ![c] = Fresh]
    /\ UNCHANGED <<usb, events, consumer, cursor, owed, display>>

Init ==
    /\ machine \in Machine
    /\ device = [id \in Controller |-> [gen |-> 0, buttons |-> 0]]
    /\ sent = 0
    /\ connected = {}
    /\ events = Ring(MOUSE_QUEUE_SIZE)
    /\ consumer = [observed_dropped |-> 0, buttons |-> Quiet]
    /\ lock = FALSE
    /\ pc = [c \in Caller |-> "idle"]
    /\ local = [c \in Caller |-> Fresh]
    /\ cursor = Ring(MOUSE_CURSOR_QUEUE_SIZE)
    /\ owed = <<>>
    /\ display = [busy |-> FALSE, drawn |-> FALSE]

Next ==
    \/ \E id \in Controller :
          report_data(id) \/ report_connected(id) \/ report_disconnected(id)
    \/ mouse_cursor_drain
    \/ graphics_enter
    \/ graphics_leave
    \/ \E c \in Caller :
          \/ mouse_driver_service(c) \/ release_stale_buttons(c) \/ check_dropped(c)
          \/ observe(c) \/ discard(c) \/ read(c) \/ advance(c)
          \/ deliver(c) \/ store(c) \/ return(c)

Spec == Init /\ [][Next]_vars

-----------------------------------------------------------------------------
(* Properties.                                                             *)

\* A packet the service has read is still the oldest of the ring when it gives
\* the place back, and is still what the interrupt wrote: the producer, which
\* takes no lock, never reuses a place the service is reading.
PacketIsStable ==
    \A c \in Caller : pc[c] = "advance" =>
        /\ events.head # events.tail
        /\ local[c].packet = events.packets[events.tail]

\* Queued movement is invalidated across a reconnection: an event handed to a
\* process was sent in the stream that is active now.
DeliveredIsCurrent ==
    [][\A c \in Caller :
          pc[c] = "deliver" /\ pc'[c] = "store" =>
              LET p == local[c].packet
              IN  p.controller \in connected /\ p.gen = device[p.controller].gen]_vars

\* No button is left pressed: once the service has acted on every loss and
\* consumed every report, a button that the mouse reported released, or whose
\* mouse is gone, is up.
NoStuckButton ==
    /\ \A c \in Caller : pc[c] = "idle"
    /\ events.head = events.tail
    /\ consumer.observed_dropped = events.dropped
    => \A id \in Controller :
          consumer.buttons[id] # 0 =>
              id \in connected /\ consumer.buttons[id] = device[id].buttons

\* Motion is shown exactly once and in order: the live packets of the cursor
\* ring are the motions still owed to the display, through refused batches,
\* overflow, and disconnections that cancel motions in the middle of the ring.
CursorOwesExactly ==
    Of(Pending(cursor, MOUSE_CURSOR_QUEUE_SIZE), connected) = owed

=============================================================================
