------------------------------ MODULE Keyboard ------------------------------
(***************************************************************************)
(* The keyboard path: a typist and a PS/2 controller that sends Set-1      *)
(* bytes one interrupt at a time, the IRQ handler that fills the ring      *)
(* queue in ring 0, and the ring-2 service that decodes it.                *)
(*                                                                         *)
(* The service runs in the calling task with interrupts enabled, so a byte *)
(* can arrive, or another task can call, between any two of its accesses   *)
(* to the shared page.  Each access the other side can observe is a step.  *)
(***************************************************************************)
EXTENDS Integers, FiniteSets, Sequences

CONSTANTS
    Caller,                 \* tasks that call the service
    Typist,                 \* the typists: keys by their decoded ID, pause: Pause as
                            \* well, losses: bound on the bytes that get lost
    KEYBOARD_QUEUE_SIZE     \* 256

\* The IDs Set 1 has keys for: the break codes of 96, 97, 224 and 225 would be
\* the prefix bytes, and 170 and 182 are the fake shifts.
KeyId == ((1 .. 126) \cup (129 .. 254)) \ {96, 97, 170, 182, 224, 225}

ASSUME KeyboardAssumption ==
    /\ Typist \subseteq [keys : SUBSET KeyId, pause : BOOLEAN, losses : Nat]
    /\ KEYBOARD_QUEUE_SIZE \in Nat /\ KEYBOARD_QUEUE_SIZE >= 2

VARIABLES
    typist,             \* who types
    phys,               \* keys the typist holds down
    wire,               \* bytes of the current key event still to be sent
    head, tail, bytes,  \* the ring queue
    dropped,            \* bytes the producer could not deliver
    observed_dropped,   \* the value the service last acted on
    dec,                \* the decoder: down, down_count, extended, pause_remaining
    lock,               \* the consumer lock
    pc, local,          \* where each caller is, and its byte and remaining
    fifo                \* the bytes accepted and not yet consumed, in order

keyboard == <<typist, phys, wire>>
queue == <<head, tail, bytes, dropped, fifo>>
vars == <<keyboard, queue, observed_dropped, dec, lock, pc, local>>

E0 == 224
E1 == 225

\* What the keyboard sends for a key: Set-1 make and break codes, behind E0
\* for the keys whose ID is 128 and up.
make(k)  == IF k < 128 THEN <<k>> ELSE <<E0, k - 128>>
break(k) == IF k < 128 THEN <<k + 128>> ELSE <<E0, k>>
pause    == <<E1, 29, 69, E1, 157, 197>>

Succ(i) == (i + 1) % KEYBOARD_QUEUE_SIZE

-----------------------------------------------------------------------------
(* The keyboard.                                                           *)

Type(keys, sequence) ==
    /\ wire = <<>>
    /\ phys' = keys
    /\ wire' = sequence
    /\ UNCHANGED <<typist, queue, observed_dropped, dec, lock, pc, local>>

\* A key goes down, repeats while it is held, or goes up.
key_event ==
    \/ \E k \in typist.keys : Type(phys \cup {k}, make(k))
    \/ \E k \in phys : Type(phys \ {k}, break(k))
    \/ typist.pause /\ Type(phys, pause)

\* Mutant: the handler does not check for a full queue.
irq_overruns ==
    /\ wire # <<>>
    /\ wire' = Tail(wire)
    /\ bytes' = [bytes EXCEPT ![head] = Head(wire)]
    /\ head' = Succ(head)
    /\ fifo' = Append(fifo, Head(wire))
    /\ UNCHANGED <<typist, phys, tail, dropped, observed_dropped, dec, lock, pc, local>>

\* IRQ 31h.  The byte is lost when the controller reports a parity or timeout
\* error, or when the queue is full.
ps2_keyboard_interrupt ==
    /\ wire # <<>>
    /\ wire' = Tail(wire)
    /\ \/ /\ dropped < typist.losses
          /\ dropped' = dropped + 1
          /\ UNCHANGED <<head, bytes, fifo>>
       \/ /\ Succ(head) # tail
          /\ bytes' = [bytes EXCEPT ![head] = Head(wire)]
          /\ head' = Succ(head)
          /\ fifo' = Append(fifo, Head(wire))
          /\ UNCHANGED dropped
    /\ UNCHANGED <<typist, phys, tail, observed_dropped, dec, lock, pc, local>>

-----------------------------------------------------------------------------
(* The decoder.                                                            *)

Cleared == [down |-> {}, down_count |-> 0, extended |-> FALSE, pause_remaining |-> 0]

\* Mutant: Pause is taken for a sequence of four bytes in all.
decode_short_pause(d, byte) ==
    LET key  == (byte % 128) + IF d.extended THEN 128 ELSE 0
        done == [d EXCEPT !.extended = FALSE]
    IN  IF d.pause_remaining # 0 THEN [d EXCEPT !.pause_remaining = @ - 1]
        ELSE IF byte = E1 THEN [done EXCEPT !.pause_remaining = 3]
        ELSE IF byte = E0 THEN [d EXCEPT !.extended = TRUE]
        ELSE IF byte < 128 /\ key \notin d.down
        THEN [done EXCEPT !.down = @ \cup {key}, !.down_count = @ + 1]
        ELSE IF byte >= 128 /\ key \in d.down
        THEN [done EXCEPT !.down = @ \ {key}, !.down_count = @ - 1]
        ELSE done

\* Bytes that follow E1 are swallowed; E0 marks the next byte; the fake shifts
\* of Print Screen and the codes 0 and 7Fh change no key.
keyboard_decode_byte(d, byte) ==
    LET base == byte % 128
        key  == base + IF d.extended THEN 128 ELSE 0
        done == [d EXCEPT !.extended = FALSE]
    IN  IF d.pause_remaining # 0 THEN [d EXCEPT !.pause_remaining = @ - 1]
        ELSE IF byte = E1 THEN [done EXCEPT !.pause_remaining = 5]
        ELSE IF byte = E0 THEN [d EXCEPT !.extended = TRUE]
        ELSE IF (d.extended /\ base \in {42, 54}) \/ key \in {0, 127} THEN done
        ELSE IF byte < 128 /\ key \notin d.down
        THEN [done EXCEPT !.down = @ \cup {key}, !.down_count = @ + 1]
        ELSE IF byte >= 128 /\ key \in d.down
        THEN [done EXCEPT !.down = @ \ {key}, !.down_count = @ - 1]
        ELSE done

-----------------------------------------------------------------------------
(* The service: acquire, check, observe, discard, read, advance, release.  *)

At(c, from, to) == pc[c] = from /\ pc' = [pc EXCEPT ![c] = to]

\* The exchange that finds the lock free; the caller spins until then.
acquire(c) ==
    /\ At(c, "idle", "check")
    /\ ~lock
    /\ lock' = TRUE
    /\ local' = [local EXCEPT ![c].remaining = KEYBOARD_QUEUE_SIZE]
    /\ UNCHANGED <<keyboard, queue, observed_dropped, dec>>

check_dropped(c) ==
    /\ At(c, "check", IF observed_dropped # dropped THEN "observe" ELSE "read")
    /\ UNCHANGED <<keyboard, queue, observed_dropped, dec, lock, local>>

observe(c) ==
    /\ At(c, "observe", "discard")
    /\ observed_dropped' = dropped
    /\ UNCHANGED <<keyboard, queue, dec, lock, local>>

\* Mutant: the queue is emptied but the keys stay down.
discard_keeps_keys(c) ==
    /\ At(c, "discard", "read")
    /\ tail' = head
    /\ fifo' = <<>>
    /\ UNCHANGED <<keyboard, head, bytes, dropped, observed_dropped, dec, lock, local>>

\* Every key up, the decoder reset, the queue emptied.
discard(c) ==
    /\ At(c, "discard", "read")
    /\ dec' = Cleared
    /\ tail' = head
    /\ fifo' = <<>>
    /\ UNCHANGED <<keyboard, head, bytes, dropped, observed_dropped, lock, local>>

\* Mutant: the loop runs while there is input.
read_unbounded(c) ==
    /\ IF tail # head
       THEN /\ At(c, "read", "advance")
            /\ local' = [local EXCEPT ![c] = [byte |-> bytes[tail],
                                              remaining |-> KEYBOARD_QUEUE_SIZE]]
       ELSE At(c, "read", "release") /\ UNCHANGED local
    /\ UNCHANGED <<keyboard, queue, observed_dropped, dec, lock>>

\* The loop condition and the read of the oldest byte.
read(c) ==
    /\ IF local[c].remaining # 0 /\ tail # head
       THEN At(c, "read", "advance") /\ local' = [local EXCEPT ![c].byte = bytes[tail]]
       ELSE At(c, "read", "release") /\ UNCHANGED local
    /\ UNCHANGED <<keyboard, queue, observed_dropped, dec, lock>>

\* The place is given back to the producer and the byte decoded.
advance(c) ==
    /\ At(c, "advance", "read")
    /\ tail' = Succ(tail)
    /\ fifo' = IF fifo = <<>> THEN <<>> ELSE Tail(fifo)
    /\ dec' = keyboard_decode_byte(dec, local[c].byte)
    /\ local' = [local EXCEPT ![c].remaining = @ - 1]
    /\ UNCHANGED <<keyboard, head, bytes, dropped, observed_dropped, lock>>

\* The answer is taken from the decoded state and the lock released.
release(c) ==
    /\ At(c, "release", "idle")
    /\ lock' = FALSE
    /\ local' = [local EXCEPT ![c] = [byte |-> 0, remaining |-> 0]]
    /\ UNCHANGED <<keyboard, queue, observed_dropped, dec>>

\* One step of a caller that is inside the service.
inside(c) ==
    \/ check_dropped(c) \/ observe(c) \/ discard(c)
    \/ read(c) \/ advance(c) \/ release(c)

Init ==
    /\ typist \in Typist
    /\ phys = {} /\ wire = <<>>
    /\ head = 0 /\ tail = 0 /\ bytes = [i \in 0 .. KEYBOARD_QUEUE_SIZE - 1 |-> 0]
    /\ dropped = 0 /\ observed_dropped = 0
    /\ dec = Cleared
    /\ lock = FALSE
    /\ pc = [c \in Caller |-> "idle"]
    /\ local = [c \in Caller |-> [byte |-> 0, remaining |-> 0]]
    /\ fifo = <<>>

Next ==
    \/ key_event
    \/ ps2_keyboard_interrupt
    \/ \E c \in Caller : acquire(c) \/ inside(c)

Spec == Init /\ [][Next]_vars

\* The scheduler gives every task the processor again and again, so a caller
\* inside the service takes its next step.
FairSpec == Spec /\ \A c \in Caller : WF_vars(inside(c))

-----------------------------------------------------------------------------
(* Properties.                                                             *)

\* The ring from tail to head is the accepted bytes in the order of their
\* interrupts, and a byte the service has read is still the oldest one when it
\* advances: the handler, which never takes the lock, does not overwrite it.
QueueIsFifo ==
    /\ Len(fifo) = (head - tail) % KEYBOARD_QUEUE_SIZE
    /\ \A i \in 1 .. Len(fifo) : bytes[(tail + i - 1) % KEYBOARD_QUEUE_SIZE] = fifo[i]
    /\ \A c \in Caller : pc[c] = "advance" => fifo # <<>> /\ local[c].byte = Head(fifo)

\* Everything sent has been decoded, and every loss has been acted on.
Settled ==
    /\ wire = <<>>
    /\ head = tail
    /\ observed_dropped = dropped
    /\ \A c \in Caller : pc[c] = "idle"

\* What keyboard_process_queue promises: no key is left down after the typist
\* has let go of everything, whatever bytes were lost, and down_count, which
\* answers "is any key down", says so.
NoStuckKey == Settled /\ phys = {} => dec.down = {} /\ dec.down_count = 0

\* Without losses the decoded keys are the keys held, through prefixes, keys
\* that share a base code, repeats and Pause, and down_count is their number.
DecodedIsTrue ==
    Settled /\ dropped = 0 => dec.down = phys /\ dec.down_count = Cardinality(phys)

\* A caller leaves the service however fast input arrives, so the others'
\* spinning ends.
LockIsReleased == \A c \in Caller : pc[c] # "idle" ~> pc[c] = "idle"

=============================================================================
