--------------------------- MODULE KeyboardProofs ---------------------------
(***************************************************************************)
(* That the keyboard queue is a first-in first-out queue under every       *)
(* interleaving of the interrupt and the callers, and what the decoded     *)
(* keys are worth, with and without lost bytes.                            *)
(*                                                                         *)
(* The decoder's invariant looks ahead: the bytes queued and on the wire,  *)
(* decoded from the present state on, lead to the keys that are held.      *)
(* "Decoded from the present state on" is said by the existence of the     *)
(* states in between (Traced), which needs no recursion.                   *)
(***************************************************************************)
EXTENDS Keyboard, KernelLemmas, FiniteSetTheorems, TLAPS

Size == KEYBOARD_QUEUE_SIZE
Place == 0 .. Size - 1
Byte == 0 .. 255

Step == {"idle", "check", "observe", "discard", "read", "advance", "release"}
DecoderType == [down : SUBSET Byte, down_count : Int, extended : BOOLEAN, pause_remaining : Nat]
LocalType == [byte : Byte, remaining : Int]

TypeOK ==
    /\ typist \in Typist /\ phys \in SUBSET typist.keys /\ wire \in Seq(Byte)
    /\ head \in Place /\ tail \in Place /\ bytes \in [Place -> Byte]
    /\ dropped \in Nat /\ observed_dropped \in Nat
    /\ dec \in DecoderType
    /\ lock \in BOOLEAN
    /\ pc \in [Caller -> Step] /\ local \in [Caller -> LocalType]
    /\ fifo \in Seq(Byte)

\* A caller inside the service has the lock, and is alone there.
LockIsExclusive ==
    \A c \in Caller : pc[c] # "idle" => lock /\ \A d \in Caller : pc[d] # "idle" => d = c

\* The ring without a remainder: its length, and the place of its i-th byte.
Length(h, t) == IF t <= h THEN h - t ELSE h - t + Size
PlaceOf(t, i) == IF t + i - 1 < Size THEN t + i - 1 ELSE t + i - 1 - Size

RingIsFifo ==
    /\ Len(fifo) = Length(head, tail)
    /\ \A i \in 1 .. Len(fifo) : bytes[PlaceOf(tail, i)] = fifo[i]

ReadIsOldest == \A c \in Caller : pc[c] = "advance" => fifo # <<>> /\ local[c].byte = fifo[1]

FifoInv == TypeOK /\ LockIsExclusive /\ RingIsFifo /\ ReadIsOldest

-----------------------------------------------------------------------------
(* The ring.                                                               *)

LEMMA SizeIsNatural == Size \in Nat /\ Size >= 2
    BY KeyboardAssumption DEF Size

LEMMA SuccOf ==
    ASSUME NEW i \in Place
    PROVE  Succ(i) = (IF i + 1 = Size THEN 0 ELSE i + 1) /\ Succ(i) \in Place
    BY SizeIsNatural, RingNext DEF Place, Succ, Size

LEMMA RingRemainder ==
    ASSUME NEW h \in Place, NEW t \in Place
    PROVE  /\ (h - t) % Size = Length(h, t)
           /\ \A i \in 1 .. Size : (t + i - 1) % Size = PlaceOf(t, i)
<1>1. (h - t) % Size = Length(h, t)
    <2>1. CASE t <= h
        <3>1. h - t \in 0 .. Size - 1
            BY <2>1, SizeIsNatural DEF Place
        <3> QED
            BY <2>1, <3>1, SizeIsNatural DEF Length
    <2>2. CASE ~(t <= h)
        <3>1. h - t + Size \in 0 .. Size - 1
            BY <2>2, SizeIsNatural DEF Place
        <3> DEFINE a == h - t + Size
        <3>2. (a - Size) % Size = a
            BY <3>1, SizeIsNatural
        <3>3. a - Size = h - t
            BY SizeIsNatural DEF Place
        <3> QED
            BY <2>2, <3>2, <3>3 DEF Length
    <2> QED
        BY <2>1, <2>2
<1>2. ASSUME NEW i \in 1 .. Size PROVE (t + i - 1) % Size = PlaceOf(t, i)
    <2>1. CASE t + i - 1 < Size
        <3>1. t + i - 1 \in 0 .. Size - 1
            BY <2>1, SizeIsNatural DEF Place
        <3> QED
            BY <2>1, <3>1, SizeIsNatural DEF PlaceOf
    <2>2. CASE ~(t + i - 1 < Size)
        <3> DEFINE a == t + i - 1 - Size
        <3>1. a \in 0 .. Size - 1 /\ a + Size = t + i - 1
            BY <2>2, SizeIsNatural DEF Place
        <3>2. (a + Size) % Size = a
            BY <3>1, SizeIsNatural
        <3> QED
            BY <2>2, <3>1, <3>2 DEF PlaceOf
    <2> QED
        BY <2>1, <2>2
<1> QED
    BY <1>1, <1>2

\* A byte that is put goes to the end, into a place that holds none.
LEMMA PutPlace ==
    ASSUME NEW h \in Place, NEW t \in Place, Succ(h) # t
    PROVE  /\ Length(h, t) \in Nat /\ Length(Succ(h), t) = Length(h, t) + 1
           /\ PlaceOf(t, Length(h, t) + 1) = h
           /\ \A i \in 1 .. Length(h, t) : PlaceOf(t, i) \in Place /\ PlaceOf(t, i) # h
    BY SuccOf, SizeIsNatural DEF Length, PlaceOf, Place

\* Taking the oldest byte moves the others up.
LEMMA TakePlace ==
    ASSUME NEW h \in Place, NEW t \in Place, h # t
    PROVE  /\ Length(h, t) \in Nat \ {0} /\ Length(h, Succ(t)) = Length(h, t) - 1
           /\ PlaceOf(t, 1) = t
           /\ \A i \in 1 .. Length(h, t) - 1 : PlaceOf(Succ(t), i) = PlaceOf(t, i + 1)
    BY SuccOf, SizeIsNatural DEF Length, PlaceOf, Place

LEMMA FifoIsQueue == FifoInv => QueueIsFifo
<1> SUFFICES ASSUME FifoInv PROVE QueueIsFifo
    OBVIOUS
<1>1. head \in Place /\ tail \in Place /\ fifo \in Seq(Byte) /\ Len(fifo) \in Nat
    BY DEF FifoInv, TypeOK
<1>2. Len(fifo) = (head - tail) % KEYBOARD_QUEUE_SIZE /\ Len(fifo) < Size
    <2>1. Len(fifo) = Length(head, tail)
        BY DEF FifoInv, RingIsFifo
    <2>2. Length(head, tail) < Size
        BY <1>1, SizeIsNatural DEF Length, Place
    <2>3. (head - tail) % Size = Length(head, tail)
        BY <1>1, RingRemainder
    <2> QED
        BY <2>1, <2>2, <2>3 DEF Size
<1>3. ASSUME NEW i \in 1 .. Len(fifo)
      PROVE  bytes[(tail + i - 1) % KEYBOARD_QUEUE_SIZE] = fifo[i]
    <2>1. i \in 1 .. Size
        BY <1>1, <1>2, <1>3, SizeIsNatural
    <2>2. (tail + i - 1) % KEYBOARD_QUEUE_SIZE = PlaceOf(tail, i)
        BY <1>1, <2>1, RingRemainder DEF Size
    <2> QED
        BY <2>2, <1>3 DEF FifoInv, RingIsFifo
<1>4. ASSUME NEW c \in Caller, pc[c] = "advance" PROVE fifo # <<>> /\ local[c].byte = Head(fifo)
    BY <1>1, <1>4 DEF FifoInv, ReadIsOldest
<1> QED
    BY <1>2, <1>3, <1>4 DEF QueueIsFifo

-----------------------------------------------------------------------------
(* The queue.                                                              *)

LEMMA FifoInit == Init => FifoInv
<1> SUFFICES ASSUME Init PROVE FifoInv
    OBVIOUS
<1>1. 0 \in Place /\ bytes \in [Place -> Byte]
    BY SizeIsNatural DEF Init, Place, Size, Byte
<1>2. dec \in DecoderType
    BY DEF Init, DecoderType, Cleared
<1>3. pc \in [Caller -> Step] /\ local \in [Caller -> LocalType]
    BY DEF Init, Step, LocalType, Byte
<1>4. TypeOK
    <2>1. wire \in Seq(Byte) /\ fifo \in Seq(Byte)
        BY DEF Init
    <2>2. typist \in Typist /\ phys \in SUBSET typist.keys /\ lock \in BOOLEAN
        BY Zenon DEF Init
    <2>3. dropped \in Nat /\ observed_dropped \in Nat /\ head \in Place /\ tail \in Place
        BY <1>1 DEF Init
    <2> QED
        BY <1>1, <1>2, <1>3, <2>1, <2>2, <2>3 DEF TypeOK
<1>5. LockIsExclusive /\ ReadIsOldest
    BY DEF Init, LockIsExclusive, ReadIsOldest
<1>6. RingIsFifo
    BY SizeIsNatural DEF Init, RingIsFifo, Length
<1> QED
    BY <1>4, <1>5, <1>6 DEF FifoInv

LEMMA SequenceIsBytes ==
    ASSUME NEW k \in KeyId
    PROVE  make(k) \in Seq(Byte) /\ break(k) \in Seq(Byte)
<1>1. k \in 1 .. 126 \/ k \in 129 .. 254
    BY DEF KeyId
<1>2. ASSUME NEW b \in Byte, NEW b2 \in Byte PROVE <<b>> \in Seq(Byte) /\ <<b, b2>> \in Seq(Byte)
    OBVIOUS
<1>3. E0 \in Byte
    BY DEF E0, Byte
<1>4. CASE k \in 1 .. 126
    <2>1. k \in Byte /\ k + 128 \in Byte /\ k < 128
        BY <1>4 DEF Byte
    <2> QED
        BY <1>2, <2>1 DEF make, break
<1>5. CASE k \in 129 .. 254
    <2>1. k \in Byte /\ k - 128 \in Byte /\ ~(k < 128)
        BY <1>5 DEF Byte
    <2> QED
        BY <1>2, <1>3, <2>1 DEF make, break
<1> QED
    BY <1>1, <1>4, <1>5

\* A decoder with these fields.
Decoder(down, count, extended, remaining) ==
    [down |-> down, down_count |-> count, extended |-> extended, pause_remaining |-> remaining]

LEMMA DecoderIsTyped ==
    ASSUME NEW down \in SUBSET Byte, NEW count \in Int, NEW extended \in BOOLEAN, NEW remaining \in Nat
    PROVE  Decoder(down, count, extended, remaining) \in DecoderType
    BY DEF Decoder, DecoderType

LEMMA DecoderIsItsFields ==
    ASSUME NEW d \in DecoderType
    PROVE  /\ d.down \in SUBSET Byte /\ d.down_count \in Int
           /\ d.extended \in BOOLEAN /\ d.pause_remaining \in Nat
           /\ d = Decoder(d.down, d.down_count, d.extended, d.pause_remaining)
    BY DEF Decoder, DecoderType

LEMMA SetExtended ==
    ASSUME NEW D, NEW n, NEW e, NEW p, NEW v
    PROVE  [Decoder(D, n, e, p) EXCEPT !.extended = v] = Decoder(D, n, v, p)
    BY SMT DEF Decoder

LEMMA SetRemaining ==
    ASSUME NEW D, NEW n, NEW e, NEW p, NEW v
    PROVE  [Decoder(D, n, e, p) EXCEPT !.pause_remaining = v] = Decoder(D, n, e, v)
    BY SMT DEF Decoder

LEMMA SetDown ==
    ASSUME NEW D, NEW n, NEW e, NEW p, NEW v
    PROVE  [Decoder(D, n, e, p) EXCEPT !.down = v] = Decoder(v, n, e, p)
    BY SMT DEF Decoder

LEMMA SetCount ==
    ASSUME NEW D, NEW n, NEW e, NEW p, NEW v
    PROVE  [Decoder(D, n, e, p) EXCEPT !.down_count = v] = Decoder(D, v, e, p)
    BY SMT DEF Decoder

\* The same for a decoder that is not written out.
LEMMA DecoderReset ==
    ASSUME NEW d \in DecoderType, NEW v
    PROVE  [d EXCEPT !.extended = v] = Decoder(d.down, d.down_count, v, d.pause_remaining)
<1>1. PICK D, n, e, p : d = Decoder(D, n, e, p)
    BY DecoderIsItsFields
<1>2. d.down = D /\ d.down_count = n /\ d.pause_remaining = p
    BY <1>1 DEF Decoder
<1>3. [Decoder(D, n, e, p) EXCEPT !.extended = v] = Decoder(D, n, v, p)
    BY SetExtended
<1> QED
    BY <1>1, <1>2, <1>3, Zenon

KeyOf(d, byte) == (byte % 128) + IF d.extended THEN 128 ELSE 0
Ignored(d, byte) == (d.extended /\ byte % 128 \in {42, 54}) \/ KeyOf(d, byte) \in {0, 127}

LEMMA KeyIsByte ==
    ASSUME NEW d \in DecoderType, NEW byte \in Byte
    PROVE  KeyOf(d, byte) \in Byte
    BY DEF DecoderType, Byte, KeyOf

LEMMA DecodeSwallows ==
    ASSUME NEW d \in DecoderType, NEW byte \in Byte, d.pause_remaining # 0
    PROVE  keyboard_decode_byte(d, byte)
           = Decoder(d.down, d.down_count, d.extended, d.pause_remaining - 1)
    BY DEF DecoderType, keyboard_decode_byte, Decoder

LEMMA DecodePrefix ==
    ASSUME NEW d \in DecoderType, d.pause_remaining = 0
    PROVE  /\ keyboard_decode_byte(d, E1) = Decoder(d.down, d.down_count, FALSE, 5)
           /\ keyboard_decode_byte(d, E0) = Decoder(d.down, d.down_count, TRUE, 0)
<1>2. [d EXCEPT !.extended = TRUE] = Decoder(d.down, d.down_count, TRUE, 0)
    BY DecoderReset, Zenon
<1>3. [d EXCEPT !.extended = FALSE] = Decoder(d.down, d.down_count, FALSE, 0)
    BY DecoderReset, Zenon
<1>4. [[d EXCEPT !.extended = FALSE] EXCEPT !.pause_remaining = 5] = Decoder(d.down, d.down_count, FALSE, 5)
    <2> DEFINE f == FALSE
    <2>1. [d EXCEPT !.extended = FALSE] = Decoder(d.down, d.down_count, f, 0)
        BY <1>3
    <2> HIDE DEF f
    <2>2. [Decoder(d.down, d.down_count, f, 0) EXCEPT !.pause_remaining = 5]
          = Decoder(d.down, d.down_count, f, 5)
        BY SetRemaining
    <2>3. [[d EXCEPT !.extended = FALSE] EXCEPT !.pause_remaining = 5] = Decoder(d.down, d.down_count, f, 5)
        BY <2>1, <2>2, Zenon
    <2> QED
        BY <2>3, Zenon DEF f
<1>5. E0 # E1
    BY DEF E0, E1
<1>6. keyboard_decode_byte(d, E1) = [[d EXCEPT !.extended = FALSE] EXCEPT !.pause_remaining = 5]
    BY Zenon DEF keyboard_decode_byte
<1>7. keyboard_decode_byte(d, E0) = [d EXCEPT !.extended = TRUE]
    BY <1>5, Zenon DEF keyboard_decode_byte
<1> QED
    BY <1>2, <1>4, <1>6, <1>7

\* A byte that is no prefix, by what it does to the set of keys.
LEMMA DecodeKey ==
    ASSUME NEW d \in DecoderType, NEW byte \in Byte, d.pause_remaining = 0,
           byte # E0, byte # E1
    PROVE  /\ Ignored(d, byte) =>
              keyboard_decode_byte(d, byte) = Decoder(d.down, d.down_count, FALSE, 0)
           /\ ~Ignored(d, byte) /\ byte < 128 =>
              keyboard_decode_byte(d, byte) =
              Decoder(d.down \cup {KeyOf(d, byte)},
                      IF KeyOf(d, byte) \in d.down THEN d.down_count ELSE d.down_count + 1, FALSE, 0)
           /\ ~Ignored(d, byte) /\ byte >= 128 =>
              keyboard_decode_byte(d, byte) =
              Decoder(d.down \ {KeyOf(d, byte)},
                      IF KeyOf(d, byte) \in d.down THEN d.down_count - 1 ELSE d.down_count, FALSE, 0)
<1> DEFINE key == KeyOf(d, byte)
           ignored == Ignored(d, byte)
           done == [d EXCEPT !.extended = FALSE]
<1>1. keyboard_decode_byte(d, byte) =
           IF ignored THEN done
           ELSE IF byte < 128 /\ key \notin d.down
           THEN [done EXCEPT !.down = done.down \cup {key}, !.down_count = done.down_count + 1]
           ELSE IF byte >= 128 /\ key \in d.down
           THEN [done EXCEPT !.down = done.down \ {key}, !.down_count = done.down_count - 1]
           ELSE done
    BY Zenon DEF keyboard_decode_byte, KeyOf, Ignored
<1>2. done = Decoder(d.down, d.down_count, FALSE, 0)
    BY DecoderReset, Zenon
<1> HIDE DEF key, ignored, done
<1>3. done.down = d.down /\ done.down_count = d.down_count
    BY <1>2 DEF Decoder
<1>4. ASSUME NEW D, NEW n PROVE [done EXCEPT !.down = D, !.down_count = n] = Decoder(D, n, FALSE, 0)
    <2> DEFINE f == FALSE
    <2>1. done = Decoder(d.down, d.down_count, f, 0)
        BY <1>2
    <2> HIDE DEF f
    <2>2. [Decoder(d.down, d.down_count, f, 0) EXCEPT !.down = D, !.down_count = n]
          = Decoder(D, n, f, 0)
        <3>1. [Decoder(d.down, d.down_count, f, 0) EXCEPT !.down = D] = Decoder(D, d.down_count, f, 0)
            BY SetDown
        <3>2. [Decoder(D, d.down_count, f, 0) EXCEPT !.down_count = n] = Decoder(D, n, f, 0)
            BY SetCount
        <3>3. [Decoder(d.down, d.down_count, f, 0) EXCEPT !.down = D, !.down_count = n]
              = [[Decoder(d.down, d.down_count, f, 0) EXCEPT !.down = D] EXCEPT !.down_count = n]
            BY Zenon
        <3> QED
            BY <3>1, <3>2, <3>3, Zenon
    <2>3. [done EXCEPT !.down = D, !.down_count = n] = Decoder(D, n, f, 0)
        BY <2>1, <2>2, Zenon
    <2> QED
        BY <2>3, Zenon DEF f
<1>5. keyboard_decode_byte(d, byte) =
           IF ignored THEN Decoder(d.down, d.down_count, FALSE, 0)
           ELSE IF byte < 128 /\ key \notin d.down
           THEN Decoder(d.down \cup {key}, d.down_count + 1, FALSE, 0)
           ELSE IF byte >= 128 /\ key \in d.down
           THEN Decoder(d.down \ {key}, d.down_count - 1, FALSE, 0)
           ELSE Decoder(d.down, d.down_count, FALSE, 0)
    <2>1. CASE ignored
        BY <1>1, <1>2, <2>1, Zenon
    <2>2. CASE ~ignored /\ byte < 128 /\ key \notin d.down
        BY <1>1, <1>3, <1>4, <2>2, Zenon
    <2>3. CASE ~ignored /\ ~(byte < 128 /\ key \notin d.down) /\ byte >= 128 /\ key \in d.down
        BY <1>1, <1>3, <1>4, <2>3, Zenon
    <2>4. CASE ~ignored /\ ~(byte < 128 /\ key \notin d.down) /\ ~(byte >= 128 /\ key \in d.down)
        BY <1>1, <1>2, <2>4, Zenon
    <2> QED
        BY <2>1, <2>2, <2>3, <2>4, Zenon
<1>6. /\ key \in d.down => d.down \cup {key} = d.down
      /\ key \notin d.down => d.down \ {key} = d.down
      /\ ~(byte < 128 /\ byte >= 128) /\ (byte < 128 \/ byte >= 128)
    <2>1. byte \in Int
        BY DEF Byte
    <2> QED
        BY <2>1
<1>7. ignored => keyboard_decode_byte(d, byte) = Decoder(d.down, d.down_count, FALSE, 0)
    BY <1>5, Zenon
<1>8. ASSUME ~ignored, byte < 128
      PROVE  keyboard_decode_byte(d, byte) =
             Decoder(d.down \cup {key}, IF key \in d.down THEN d.down_count ELSE d.down_count + 1, FALSE, 0)
    BY <1>5, <1>6, <1>8, Zenon
<1>9. ASSUME ~ignored, byte >= 128
      PROVE  keyboard_decode_byte(d, byte) =
             Decoder(d.down \ {key}, IF key \in d.down THEN d.down_count - 1 ELSE d.down_count, FALSE, 0)
    BY <1>5, <1>6, <1>9, Zenon
<1> QED
    BY <1>7, <1>8, <1>9, Zenon DEF key, ignored

LEMMA DecodeType ==
    ASSUME NEW d \in DecoderType, NEW byte \in Byte
    PROVE  keyboard_decode_byte(d, byte) \in DecoderType
<1>0. /\ d.down \in SUBSET Byte /\ d.down_count \in Int /\ d.extended \in BOOLEAN
      /\ d.pause_remaining \in Nat
    BY DecoderIsItsFields
<1>1. CASE d.pause_remaining # 0
    <2>1. d.pause_remaining - 1 \in Nat
        BY <1>0, <1>1
    <2> QED
        BY <1>0, <1>1, <2>1, DecodeSwallows, DecoderIsTyped
<1>2. CASE d.pause_remaining = 0 /\ byte \in {E0, E1}
    <2>1. Decoder(d.down, d.down_count, FALSE, 5) \in DecoderType
        BY <1>0, DecoderIsTyped, Zenon
    <2>2. Decoder(d.down, d.down_count, TRUE, 0) \in DecoderType
        BY <1>0, DecoderIsTyped, Zenon
    <2>3. byte = E0 \/ byte = E1
        BY <1>2
    <2> QED
        BY <1>2, <2>1, <2>2, <2>3, DecodePrefix, Zenon
<1>3. CASE d.pause_remaining = 0 /\ byte \notin {E0, E1}
    <2> DEFINE key == KeyOf(d, byte)
    <2>1. key \in Byte
        BY KeyIsByte
    <2> HIDE DEF key
    <2>2. d.down \cup {key} \in SUBSET Byte /\ d.down \ {key} \in SUBSET Byte
        BY <1>0, <2>1
    <2>3. d.down_count + 1 \in Int /\ d.down_count - 1 \in Int
        BY <1>0
    <2>4. /\ Decoder(d.down, d.down_count, FALSE, 0) \in DecoderType
          /\ Decoder(d.down \cup {key}, d.down_count, FALSE, 0) \in DecoderType
          /\ Decoder(d.down \cup {key}, d.down_count + 1, FALSE, 0) \in DecoderType
          /\ Decoder(d.down \ {key}, d.down_count, FALSE, 0) \in DecoderType
          /\ Decoder(d.down \ {key}, d.down_count - 1, FALSE, 0) \in DecoderType
        BY <1>0, <2>2, <2>3, DecoderIsTyped, Zenon
    <2>5. byte # E0 /\ byte # E1 /\ (byte < 128 \/ byte >= 128)
        BY <1>3 DEF Byte
    <2> QED
        BY <1>3, <2>4, <2>5, DecodeKey, Zenon DEF key
<1> QED
    BY <1>1, <1>2, <1>3

LEMMA TypeKeeps ==
    ASSUME FifoInv, key_event
    PROVE  FifoInv'
<1>1. PICK keys \in SUBSET typist.keys, s \in Seq(Byte) : Type(keys, s)
    <2>1. typist \in Typist /\ phys \in SUBSET typist.keys
        BY DEF FifoInv, TypeOK
    <2>2. pause \in Seq(Byte)
        BY DEF pause, Byte, E1
    <2>3. typist.keys \subseteq KeyId
        BY <2>1, KeyboardAssumption
    <2> QED
        BY <2>1, <2>2, <2>3, SequenceIsBytes, Zenon DEF key_event
<1> QED
    BY <1>1 DEF Type, FifoInv, TypeOK, LockIsExclusive, RingIsFifo, ReadIsOldest, queue

LEMMA AppendFifo ==
    ASSUME NEW s \in Seq(Byte), NEW b \in Byte
    PROVE  /\ Append(s, b) \in Seq(Byte) /\ Len(Append(s, b)) = Len(s) + 1 /\ Len(s) \in Nat
           /\ Append(s, b)[Len(s) + 1] = b /\ \A i \in 1 .. Len(s) : Append(s, b)[i] = s[i]
    OBVIOUS

LEMMA TailFifo ==
    ASSUME NEW s \in Seq(Byte), s # <<>>
    PROVE  /\ Tail(s) \in Seq(Byte) /\ Len(Tail(s)) = Len(s) - 1 /\ Len(s) \in Nat \ {0}
           /\ Head(s) = s[1] /\ Head(s) \in Byte /\ \A i \in 1 .. Len(s) - 1 : Tail(s)[i] = s[i + 1]
    OBVIOUS

LEMMA InterruptKeeps ==
    ASSUME FifoInv, ps2_keyboard_interrupt
    PROVE  FifoInv'
<1>1. TypeOK /\ wire # <<>> /\ wire \in Seq(Byte) /\ Head(wire) \in Byte /\ Tail(wire) \in Seq(Byte)
    BY TailFifo DEF FifoInv, TypeOK, ps2_keyboard_interrupt
<1>2. CASE dropped' = dropped + 1 /\ UNCHANGED <<head, bytes, fifo>>
    BY <1>1, <1>2 DEF ps2_keyboard_interrupt, FifoInv, TypeOK, LockIsExclusive, RingIsFifo, ReadIsOldest
<1>3. CASE /\ Succ(head) # tail /\ bytes' = [bytes EXCEPT ![head] = Head(wire)]
           /\ head' = Succ(head) /\ fifo' = Append(fifo, Head(wire)) /\ UNCHANGED dropped
    <2>1. head \in Place /\ tail \in Place /\ bytes \in [Place -> Byte] /\ fifo \in Seq(Byte)
        BY <1>1 DEF TypeOK
    <2>2. Succ(head) \in Place
        BY <2>1, SuccOf
    <2>3. /\ fifo' \in Seq(Byte) /\ Len(fifo') = Len(fifo) + 1 /\ Len(fifo) \in Nat
          /\ fifo'[Len(fifo) + 1] = Head(wire) /\ \A i \in 1 .. Len(fifo) : fifo'[i] = fifo[i]
        BY <1>1, <1>3, <2>1, AppendFifo
    <2>4. TypeOK'
        BY <1>1, <1>3, <2>1, <2>2, <2>3 DEF TypeOK, ps2_keyboard_interrupt
    <2>5. LockIsExclusive'
        BY DEF FifoInv, LockIsExclusive, ps2_keyboard_interrupt
    <2>6. tail' = tail /\ Len(fifo) = Length(head, tail)
        BY DEF ps2_keyboard_interrupt, FifoInv, RingIsFifo
    <2>7. /\ Length(head', tail) = Len(fifo) + 1 /\ PlaceOf(tail, Len(fifo) + 1) = head
          /\ \A i \in 1 .. Len(fifo) : PlaceOf(tail, i) \in Place /\ PlaceOf(tail, i) # head
        BY <1>3, <2>1, <2>6, PutPlace
    <2>8. ASSUME NEW i \in 1 .. Len(fifo') PROVE bytes'[PlaceOf(tail, i)] = fifo'[i]
        <3>1. CASE i = Len(fifo) + 1
            BY <1>3, <2>1, <2>3, <2>7, <3>1
        <3>2. CASE i \in 1 .. Len(fifo)
            <4>1. bytes[PlaceOf(tail, i)] = fifo[i]
                BY <3>2 DEF FifoInv, RingIsFifo
            <4>2. PlaceOf(tail, i) \in Place /\ PlaceOf(tail, i) # head /\ fifo'[i] = fifo[i]
                BY <2>7, <2>3, <3>2
            <4> QED
                BY <1>3, <2>1, <4>1, <4>2
        <3> QED
            BY <2>3, <2>8, <3>1, <3>2
    <2>9. RingIsFifo'
        <3>1. Len(fifo') = Length(head', tail')
            BY <2>3, <2>6, <2>7
        <3>2. \A i \in 1 .. Len(fifo') : bytes'[PlaceOf(tail', i)] = fifo'[i]
            BY <2>6, <2>8
        <3> QED
            BY <3>1, <3>2 DEF RingIsFifo, Length, PlaceOf
    <2>10. ReadIsOldest'
        <3>1. pc' = pc /\ local' = local
            BY DEF ps2_keyboard_interrupt
        <3>2. fifo # <<>> => fifo' # <<>> /\ fifo'[1] = fifo[1]
            BY <2>1, <2>3
        <3> QED
            BY <3>1, <3>2 DEF FifoInv, ReadIsOldest
    <2> QED
        BY <2>4, <2>5, <2>9, <2>10 DEF FifoInv
<1> QED
    BY <1>2, <1>3 DEF ps2_keyboard_interrupt

\* A caller inside the service goes on with the lock, and is alone there.
LEMMA InsideKeepsLock ==
    ASSUME TypeOK, LockIsExclusive, NEW c \in Caller, NEW from \in Step \ {"idle"},
           NEW to \in Step, At(c, from, to), lock' = lock
    PROVE  /\ LockIsExclusive' /\ pc' \in [Caller -> Step] /\ pc'[c] = to
           /\ \A o \in Caller \ {c} : pc[o] = "idle" /\ pc'[o] = "idle"
    BY DEF TypeOK, LockIsExclusive, At

LEMMA AcquireKeeps ==
    ASSUME FifoInv, NEW c \in Caller, acquire(c)
    PROVE  FifoInv'
<1>1. TypeOK /\ LockIsExclusive /\ RingIsFifo /\ \A o \in Caller : pc[o] = "idle"
    BY DEF FifoInv, LockIsExclusive, acquire
<1>2. pc' = [pc EXCEPT ![c] = "check"]
    BY DEF acquire, At
<1>3. TypeOK'
    <2>1. local' \in [Caller -> LocalType]
        BY <1>1, SizeIsNatural DEF acquire, TypeOK, LocalType, Size
    <2>2. pc' \in [Caller -> Step]
        BY <1>1, <1>2 DEF TypeOK, Step
    <2> QED
        BY <1>1, <2>1, <2>2 DEF acquire, TypeOK, keyboard, queue
<1>4. LockIsExclusive' /\ ReadIsOldest'
    BY <1>1, <1>2 DEF LockIsExclusive, ReadIsOldest, TypeOK, acquire
<1>5. RingIsFifo'
    BY <1>1 DEF RingIsFifo, acquire, queue
<1> QED
    BY <1>3, <1>4, <1>5 DEF FifoInv

LEMMA CheckKeeps ==
    ASSUME FifoInv, NEW c \in Caller, check_dropped(c) \/ observe(c)
    PROVE  FifoInv'
<1>1. PICK from \in {"check", "observe"}, to \in {"observe", "read", "discard"} : At(c, from, to)
    BY DEF check_dropped, observe
<1>2. lock' = lock /\ local' = local /\ UNCHANGED keyboard /\ UNCHANGED queue /\ dec' = dec
      /\ (observed_dropped' = observed_dropped \/ observed_dropped' = dropped)
    BY DEF check_dropped, observe
<1>3. TypeOK /\ LockIsExclusive
    BY DEF FifoInv
<1>4. /\ LockIsExclusive' /\ pc' \in [Caller -> Step] /\ pc'[c] = to
      /\ \A o \in Caller \ {c} : pc[o] = "idle" /\ pc'[o] = "idle"
    <2>1. from \in Step \ {"idle"} /\ to \in Step
        BY DEF Step
    <2> QED
        BY <1>1, <1>2, <1>3, <2>1, InsideKeepsLock
<1>5. TypeOK'
    BY <1>2, <1>3, <1>4 DEF TypeOK, keyboard, queue
<1>6. ReadIsOldest'
    BY <1>4 DEF ReadIsOldest
<1>7. RingIsFifo'
    BY <1>2 DEF FifoInv, RingIsFifo, queue
<1> QED
    BY <1>4, <1>5, <1>6, <1>7 DEF FifoInv

LEMMA DiscardKeeps ==
    ASSUME FifoInv, NEW c \in Caller, discard(c)
    PROVE  FifoInv'
<1>1. TypeOK /\ LockIsExclusive /\ At(c, "discard", "read") /\ lock' = lock
    BY DEF FifoInv, discard
<1>2. /\ LockIsExclusive' /\ pc' \in [Caller -> Step] /\ pc'[c] = "read"
      /\ \A o \in Caller \ {c} : pc[o] = "idle" /\ pc'[o] = "idle"
    BY <1>1, InsideKeepsLock DEF Step
<1>3. TypeOK'
    <2>1. fifo' \in Seq(Byte)
        BY DEF discard
    <2>2. dec' \in DecoderType
        BY DEF discard, Cleared, DecoderType
    <2> QED
        BY <1>1, <1>2, <2>1, <2>2 DEF TypeOK, keyboard, discard
<1>4. ReadIsOldest'
    BY <1>2 DEF ReadIsOldest
<1>5. RingIsFifo'
    BY <1>1, SizeIsNatural DEF RingIsFifo, discard, Length, TypeOK, Place
<1> QED
    BY <1>2, <1>3, <1>4, <1>5 DEF FifoInv

LEMMA ReadKeeps ==
    ASSUME FifoInv, NEW c \in Caller, read(c)
    PROVE  FifoInv'
<1>1. /\ TypeOK /\ LockIsExclusive /\ RingIsFifo /\ lock' = lock
      /\ UNCHANGED keyboard /\ UNCHANGED queue /\ dec' = dec
      /\ observed_dropped' = observed_dropped
    BY DEF FifoInv, read
<1>2. PICK to \in {"advance", "release"} : At(c, "read", to)
    BY DEF read
<1>3. /\ LockIsExclusive' /\ pc' \in [Caller -> Step] /\ pc'[c] = to
      /\ \A o \in Caller \ {c} : pc[o] = "idle" /\ pc'[o] = "idle"
    <2>1. to \in Step /\ "read" \in Step \ {"idle"}
        BY DEF Step
    <2> QED
        BY <1>1, <1>2, <2>1, InsideKeepsLock
<1>4. tail \in Place /\ head \in Place /\ bytes \in [Place -> Byte] /\ bytes[tail] \in Byte
    BY <1>1 DEF TypeOK
<1>5. RingIsFifo'
    BY <1>1 DEF RingIsFifo, queue
<1>6. CASE local' = [local EXCEPT ![c].byte = bytes[tail]] /\ tail # head
    <2>1. local' \in [Caller -> LocalType] /\ local'[c].byte = bytes[tail]
        BY <1>1, <1>4, <1>6 DEF TypeOK, LocalType
    <2>2. TypeOK'
        BY <1>1, <1>3, <2>1 DEF TypeOK, keyboard, queue
    <2>3. Length(head, tail) \in Nat \ {0} /\ PlaceOf(tail, 1) = tail
        BY <1>4, <1>6, TakePlace
    <2>4. Len(fifo) \in Nat \ {0} /\ fifo # <<>> /\ bytes[PlaceOf(tail, 1)] = fifo[1]
        BY <1>1, <2>3 DEF RingIsFifo
    <2>5. ReadIsOldest'
        <3>1. fifo' = fifo
            BY <1>1 DEF queue
        <3> QED
            BY <1>3, <2>1, <2>3, <2>4, <3>1 DEF ReadIsOldest
    <2> QED
        BY <1>3, <1>5, <2>2, <2>5 DEF FifoInv
<1>7. CASE local' = local /\ At(c, "read", "release")
    <2>1. TypeOK'
        BY <1>1, <1>3, <1>7 DEF TypeOK, keyboard, queue
    <2>2. ReadIsOldest'
        BY <1>1, <1>3, <1>7 DEF ReadIsOldest, At, TypeOK
    <2> QED
        BY <1>3, <1>5, <2>1, <2>2 DEF FifoInv
<1> QED
    BY <1>6, <1>7 DEF read

LEMMA AdvanceKeeps ==
    ASSUME FifoInv, NEW c \in Caller, advance(c)
    PROVE  FifoInv' /\ fifo # <<>> /\ local[c].byte = Head(fifo) /\ fifo' = Tail(fifo)
<1>1. /\ TypeOK /\ LockIsExclusive /\ lock' = lock /\ At(c, "advance", "read")
      /\ UNCHANGED keyboard /\ head' = head /\ bytes' = bytes /\ dropped' = dropped
      /\ observed_dropped' = observed_dropped /\ tail' = Succ(tail)
    BY DEF FifoInv, advance
<1>2. /\ LockIsExclusive' /\ pc' \in [Caller -> Step] /\ pc'[c] = "read"
      /\ \A o \in Caller \ {c} : pc[o] = "idle" /\ pc'[o] = "idle"
    BY <1>1, InsideKeepsLock DEF Step
<1>3. tail \in Place /\ head \in Place /\ bytes \in [Place -> Byte] /\ Succ(tail) \in Place
    BY <1>1, SuccOf DEF TypeOK
<1>4. fifo # <<>> /\ local[c].byte = fifo[1]
    BY <1>1 DEF FifoInv, ReadIsOldest, At
<1>5. /\ Tail(fifo) \in Seq(Byte) /\ Len(Tail(fifo)) = Len(fifo) - 1 /\ Len(fifo) \in Nat \ {0}
      /\ Head(fifo) = fifo[1] /\ Head(fifo) \in Byte
      /\ \A i \in 1 .. Len(fifo) - 1 : Tail(fifo)[i] = fifo[i + 1]
    BY <1>1, <1>4, TailFifo DEF TypeOK
<1>6. fifo' = Tail(fifo)
    BY <1>4 DEF advance
<1>7. TypeOK'
    <2>1. dec' \in DecoderType
        BY <1>1, <1>4, <1>5, DecodeType DEF TypeOK, advance
    <2>2. local' \in [Caller -> LocalType]
        BY <1>1 DEF TypeOK, LocalType, advance
    <2> QED
        BY <1>1, <1>2, <1>3, <1>5, <1>6, <2>1, <2>2 DEF TypeOK, keyboard
<1>8. ReadIsOldest'
    BY <1>2 DEF ReadIsOldest
<1>9. RingIsFifo'
    <2>1. Len(fifo) = Length(head, tail) /\ \A i \in 1 .. Len(fifo) : bytes[PlaceOf(tail, i)] = fifo[i]
        BY DEF FifoInv, RingIsFifo
    <2>2. head # tail
        BY <1>3, <1>5, <2>1 DEF Length, Place
    <2>3. /\ Length(head, Succ(tail)) = Length(head, tail) - 1
          /\ \A i \in 1 .. Length(head, tail) - 1 : PlaceOf(Succ(tail), i) = PlaceOf(tail, i + 1)
        BY <1>3, <2>2, TakePlace
    <2>4. Len(fifo') = Length(head', tail')
        BY <1>1, <1>5, <1>6, <2>1, <2>3
    <2>5. ASSUME NEW i \in 1 .. Len(fifo') PROVE bytes'[PlaceOf(tail', i)] = fifo'[i]
        <3>1. i \in 1 .. Len(fifo) - 1 /\ i + 1 \in 1 .. Len(fifo)
            BY <1>5, <1>6
        <3> QED
            BY <1>1, <1>5, <1>6, <2>1, <2>3, <3>1
    <2> QED
        BY <2>4, <2>5 DEF RingIsFifo, Length, PlaceOf
<1> QED
    BY <1>2, <1>4, <1>5, <1>6, <1>7, <1>8, <1>9 DEF FifoInv

LEMMA ReleaseKeeps ==
    ASSUME FifoInv, NEW c \in Caller, release(c)
    PROVE  FifoInv'
<1>1. TypeOK /\ LockIsExclusive /\ pc[c] = "release" /\ pc' = [pc EXCEPT ![c] = "idle"]
    BY DEF FifoInv, release, At
<1>2. \A o \in Caller : pc'[o] = "idle"
    BY <1>1 DEF LockIsExclusive, TypeOK
<1>3. TypeOK'
    <2>1. local' \in [Caller -> LocalType]
        BY <1>1 DEF release, TypeOK, LocalType, Byte
    <2>2. pc' \in [Caller -> Step]
        BY <1>1 DEF TypeOK, Step
    <2> QED
        BY <1>1, <2>1, <2>2, Zenon DEF release, TypeOK, keyboard, queue
<1>4. LockIsExclusive' /\ ReadIsOldest'
    BY <1>2 DEF LockIsExclusive, ReadIsOldest
<1>5. RingIsFifo'
    BY DEF FifoInv, RingIsFifo, release, queue
<1> QED
    BY <1>3, <1>4, <1>5 DEF FifoInv

LEMMA FifoStep == FifoInv /\ [Next]_vars => FifoInv'
<1> SUFFICES ASSUME FifoInv, [Next]_vars PROVE FifoInv'
    OBVIOUS
<1>1. CASE key_event
    BY <1>1, TypeKeeps
<1>2. CASE ps2_keyboard_interrupt
    BY <1>2, InterruptKeeps
<1>3. ASSUME NEW c \in Caller, acquire(c) PROVE FifoInv'
    BY <1>3, AcquireKeeps
<1>4. ASSUME NEW c \in Caller, inside(c) PROVE FifoInv'
    BY <1>4, CheckKeeps, DiscardKeeps, ReadKeeps, AdvanceKeeps, ReleaseKeeps, SMTT(30) DEF inside
<1>5. CASE UNCHANGED vars
    BY <1>5 DEF vars, keyboard, queue, FifoInv, TypeOK, LockIsExclusive, RingIsFifo, ReadIsOldest
<1> QED
    BY <1>1, <1>2, <1>3, <1>4, <1>5 DEF Next

\* Whatever bytes arrive while callers are inside the service, and however the
\* callers interleave, the ring is the accepted bytes in order and the byte
\* keyboard_process_queue has read is the oldest when it moves the tail.
THEOREM QueueStaysFifo == Spec => []QueueIsFifo
<1>1. Spec => []FifoInv
    BY FifoInit, FifoStep, PTL DEF Spec
<1> QED
    BY <1>1, FifoIsQueue, PTL

-----------------------------------------------------------------------------
(* The decoder over a sequence of bytes.                                   *)

\* Decoding s takes the decoder from d to e, through the states st.
Traces(d, s, e, st) ==
    /\ st \in [1 .. Len(s) + 1 -> DecoderType]
    /\ st[1] = d /\ st[Len(s) + 1] = e
    /\ \A i \in 1 .. Len(s) : st[i + 1] = keyboard_decode_byte(st[i], s[i])
Traced(d, s, e) == \E st : Traces(d, s, e, st)

LEMMA TraceEmpty ==
    ASSUME NEW d \in DecoderType
    PROVE  Traced(d, <<>>, d) /\ \A e : Traced(d, <<>>, e) => e = d
<1>1. Traces(d, <<>>, d, [i \in 1 .. 1 |-> d])
    BY DEF Traces
<1>2. Traced(d, <<>>, d)
    BY <1>1 DEF Traced
<1>3. ASSUME NEW e, Traced(d, <<>>, e) PROVE e = d
    <2>1. PICK st : Traces(d, <<>>, e, st)
        BY <1>3 DEF Traced
    <2> QED
        BY <2>1 DEF Traces
<1> QED
    BY <1>2, <1>3

LEMMA TraceAppend ==
    ASSUME NEW d, NEW e, NEW s \in Seq(Byte), NEW b \in Byte, Traced(d, s, e)
    PROVE  Traced(d, Append(s, b), keyboard_decode_byte(e, b)) /\ e \in DecoderType
<1>1. PICK st : Traces(d, s, e, st)
    BY DEF Traced
<1>2. Len(s) \in Nat /\ e \in DecoderType
    BY <1>1 DEF Traces
<1> DEFINE f == keyboard_decode_byte(e, b)
           n == Len(s)
           next == [i \in 1 .. n + 2 |-> IF i = n + 2 THEN f ELSE st[i]]
<1>3. f \in DecoderType
    BY <1>2, DecodeType
<1>4. /\ Len(Append(s, b)) = n + 1 /\ Append(s, b)[n + 1] = b
      /\ \A i \in 1 .. n : Append(s, b)[i] = s[i]
    BY AppendFifo
<1>5. /\ st \in [1 .. n + 1 -> DecoderType] /\ st[1] = d /\ st[n + 1] = e
      /\ \A i \in 1 .. n : st[i + 1] = keyboard_decode_byte(st[i], s[i])
    BY <1>1 DEF Traces
<1>6. n \in Nat /\ f = keyboard_decode_byte(e, b)
    BY <1>2
<1> HIDE DEF f, n
<1>7. next \in [1 .. n + 2 -> DecoderType] /\ next[1] = d /\ next[n + 2] = f
    BY <1>3, <1>5, <1>6
<1>8. ASSUME NEW i \in 1 .. n + 1
      PROVE  next[i + 1] = keyboard_decode_byte(next[i], Append(s, b)[i])
    <2>1. CASE i = n + 1
        <3>1. next[i + 1] = f /\ next[i] = e
            BY <2>1, <1>5, <1>6
        <3> QED
            BY <3>1, <2>1, <1>4, <1>6
    <2>2. CASE i \in 1 .. n
        <3>1. next[i + 1] = st[i + 1] /\ next[i] = st[i]
            BY <2>2, <1>6
        <3> QED
            BY <3>1, <2>2, <1>4, <1>5
    <2>3. i = n + 1 \/ i \in 1 .. n
        BY <1>6
    <2> HIDE DEF next
    <2> QED
        BY <2>1, <2>2, <2>3, Zenon
<1>9. Traces(d, Append(s, b), f, next)
    <2> HIDE DEF next
    <2>1. (n + 1) + 1 = n + 2
        BY <1>6
    <2> QED
        BY <1>4, <1>7, <1>8, <2>1 DEF Traces
<1> QED
    BY <1>2, <1>9 DEF Traced, f

LEMMA TraceTail ==
    ASSUME NEW d, NEW e, NEW s \in Seq(Byte), s # <<>>, Traced(d, s, e)
    PROVE  Traced(keyboard_decode_byte(d, Head(s)), Tail(s), e)
<1>1. PICK st : Traces(d, s, e, st)
    BY DEF Traced
<1> DEFINE n == Len(s)
           rest == [i \in 1 .. n |-> st[i + 1]]
<1>2. /\ n \in Nat \ {0} /\ Len(Tail(s)) = n - 1 /\ Head(s) = s[1]
      /\ \A i \in 1 .. n - 1 : Tail(s)[i] = s[i + 1]
    BY TailFifo
<1>3. /\ st \in [1 .. n + 1 -> DecoderType] /\ st[1] = d /\ st[n + 1] = e
      /\ \A i \in 1 .. n : st[i + 1] = keyboard_decode_byte(st[i], s[i])
    BY <1>1 DEF Traces
<1> HIDE DEF n
<1>4. rest \in [1 .. n -> DecoderType] /\ rest[1] = st[2] /\ rest[n] = e
    BY <1>2, <1>3
<1>5. st[2] = keyboard_decode_byte(d, Head(s))
    BY <1>2, <1>3
<1>6. ASSUME NEW i \in 1 .. n - 1
      PROVE  rest[i + 1] = keyboard_decode_byte(rest[i], Tail(s)[i])
    <2>1. rest[i + 1] = st[(i + 1) + 1] /\ rest[i] = st[i + 1] /\ i + 1 \in 1 .. n
        BY <1>2
    <2> QED
        BY <2>1, <1>2, <1>3
<1>7. Traces(keyboard_decode_byte(d, Head(s)), Tail(s), e, rest)
    <2> HIDE DEF rest
    <2>1. (n - 1) + 1 = n
        BY <1>2
    <2> QED
        BY <1>2, <1>4, <1>5, <1>6, <2>1, Zenon DEF Traces
<1> QED
    BY <1>7 DEF Traced

LEMMA ConcatOne ==
    ASSUME NEW s \in Seq(Byte), NEW b \in Byte
    PROVE  s \o <<b>> = Append(s, b)
    OBVIOUS

LEMMA ConcatTwo ==
    ASSUME NEW s \in Seq(Byte), NEW a \in Byte, NEW b \in Byte
    PROVE  s \o <<a, b>> = Append(Append(s, a), b)
    OBVIOUS

LEMMA MoveByte ==
    ASSUME NEW s \in Seq(Byte), NEW w \in Seq(Byte), w # <<>>
    PROVE  Append(s, Head(w)) \o Tail(w) = s \o w
    OBVIOUS

LEMMA TakeByte ==
    ASSUME NEW s \in Seq(Byte), NEW w \in Seq(Byte), s # <<>>
    PROVE  s \o w \in Seq(Byte) /\ s \o w # <<>> /\ Head(s \o w) = Head(s) /\ Tail(s \o w) = Tail(s) \o w
    OBVIOUS

\* The decoder between two key events: no prefix is pending, and down_count is
\* the number of keys that are down.
Countable(d) ==
    /\ d \in DecoderType /\ IsFiniteSet(d.down)
    /\ d.down_count = Cardinality(d.down) /\ d.pause_remaining = 0
Whole(d) == Countable(d) /\ d.extended = FALSE

LEMMA ClearedIsWhole == Whole(Cleared) /\ Cleared.down = {}
    BY FS_EmptySet DEF Whole, Countable, Cleared, DecoderType

\* A key's byte after its prefix, if it has one.
LEMMA KeyDecoded ==
    ASSUME NEW d, Countable(d), NEW byte \in Byte, byte # E0, byte # E1, ~Ignored(d, byte)
    PROVE  /\ Whole(keyboard_decode_byte(d, byte))
           /\ byte < 128 => keyboard_decode_byte(d, byte).down = d.down \cup {KeyOf(d, byte)}
           /\ byte >= 128 => keyboard_decode_byte(d, byte).down = d.down \ {KeyOf(d, byte)}
<1>1. /\ d \in DecoderType /\ IsFiniteSet(d.down) /\ d.down_count = Cardinality(d.down)
      /\ d.pause_remaining = 0
    BY DEF Countable
<1> DEFINE e == keyboard_decode_byte(d, byte)
           key == KeyOf(d, byte)
<1>2. e \in DecoderType
    BY <1>1, DecodeType
<1>3. CASE byte < 128
    <2>1. e = Decoder(d.down \cup {key}, IF key \in d.down THEN d.down_count ELSE d.down_count + 1, FALSE, 0)
        BY <1>1, <1>3, DecodeKey, Zenon
    <2> HIDE DEF e, key
    <2>2. /\ e.down = d.down \cup {key} /\ e.extended = FALSE /\ e.pause_remaining = 0
          /\ e.down_count = IF key \in d.down THEN d.down_count ELSE d.down_count + 1
        BY <2>1 DEF Decoder
    <2>3. /\ IsFiniteSet(d.down \cup {key})
          /\ Cardinality(d.down \cup {key}) = IF key \in d.down THEN Cardinality(d.down) ELSE Cardinality(d.down) + 1
        BY <1>1, FS_AddElement, Zenon
    <2>4. Whole(e)
        BY <1>1, <1>2, <2>2, <2>3, Zenon DEF Whole, Countable
    <2>5. ~(byte >= 128)
        BY <1>3 DEF Byte
    <2> QED
        BY <1>3, <2>2, <2>4, <2>5 DEF e, key
<1>4. CASE byte >= 128
    <2>1. e = Decoder(d.down \ {key}, IF key \in d.down THEN d.down_count - 1 ELSE d.down_count, FALSE, 0)
        BY <1>1, <1>4, DecodeKey, Zenon
    <2> HIDE DEF e, key
    <2>2. /\ e.down = d.down \ {key} /\ e.extended = FALSE /\ e.pause_remaining = 0
          /\ e.down_count = IF key \in d.down THEN d.down_count - 1 ELSE d.down_count
        BY <2>1 DEF Decoder
    <2>3. /\ IsFiniteSet(d.down \ {key})
          /\ Cardinality(d.down \ {key}) = IF key \in d.down THEN Cardinality(d.down) - 1 ELSE Cardinality(d.down)
        BY <1>1, FS_RemoveElement, Zenon
    <2>4. Whole(e)
        BY <1>1, <1>2, <2>2, <2>3, Zenon DEF Whole, Countable
    <2>5. ~(byte < 128)
        BY <1>4 DEF Byte
    <2> QED
        BY <1>4, <2>2, <2>4, <2>5 DEF e, key
<1>5. byte < 128 \/ byte >= 128
    BY DEF Byte
<1> QED
    BY <1>3, <1>4, <1>5

LEMMA PrefixDecoded ==
    ASSUME NEW d, Whole(d)
    PROVE  /\ Countable(keyboard_decode_byte(d, E0))
           /\ keyboard_decode_byte(d, E0).down = d.down
           /\ keyboard_decode_byte(d, E0).extended = TRUE
<1>1. /\ d \in DecoderType /\ IsFiniteSet(d.down) /\ d.down_count = Cardinality(d.down)
      /\ d.pause_remaining = 0
    BY DEF Whole, Countable
<1> DEFINE e == keyboard_decode_byte(d, E0)
<1>2. e = Decoder(d.down, d.down_count, TRUE, 0)
    BY <1>1, DecodePrefix, Zenon
<1>3. e \in DecoderType
    BY <1>1, DecodeType DEF Byte, E0
<1> HIDE DEF e
<1>4. e.down = d.down /\ e.down_count = d.down_count /\ e.extended = TRUE /\ e.pause_remaining = 0
    BY <1>2 DEF Decoder
<1>5. Countable(e)
    BY <1>1, <1>3, <1>4 DEF Countable
<1> QED
    BY <1>4, <1>5 DEF e

\* The bytes of a key, at the end of what there is to decode, do that to the key.
LEMMA MakeTraced ==
    ASSUME NEW d, NEW e, NEW s \in Seq(Byte), Traced(d, s, e), Whole(e), NEW k \in KeyId
    PROVE  \E f : Traced(d, s \o make(k), f) /\ Whole(f) /\ f.down = e.down \cup {k}
<1>1. CASE k < 128
    <2> DEFINE b == k
               f == keyboard_decode_byte(e, b)
    <2>1. b \in Byte /\ b # E0 /\ b # E1 /\ b % 128 = k /\ k \notin {0, 127} /\ b < 128
        BY <1>1 DEF KeyId, Byte, E0, E1
    <2>2. make(k) = <<b>>
        BY <1>1 DEF make
    <2> HIDE DEF b
    <2>3. KeyOf(e, b) = k /\ ~Ignored(e, b) /\ Countable(e)
        BY <2>1 DEF Whole, KeyOf, Ignored, KeyId
    <2>4. Whole(f) /\ f.down = e.down \cup {k}
        BY <2>1, <2>3, KeyDecoded
    <2>5. Traced(d, s \o <<b>>, f)
        BY <2>1, TraceAppend, ConcatOne, Zenon
    <2> QED
        BY <2>2, <2>4, <2>5
<1>2. CASE ~(k < 128)
    <2> DEFINE b == k - 128
               p == keyboard_decode_byte(e, E0)
               f == keyboard_decode_byte(p, b)
    <2>1. /\ b \in Byte /\ b # E0 /\ b # E1 /\ (b % 128) + 128 = k /\ k \notin {0, 127}
          /\ b % 128 \notin {42, 54} /\ b < 128
        BY <1>2 DEF KeyId, Byte, E0, E1
    <2>2. make(k) = <<E0, b>>
        BY <1>2 DEF make
    <2> HIDE DEF b
    <2>3. Countable(p) /\ p.down = e.down /\ p.extended = TRUE
        BY PrefixDecoded, Zenon
    <2>4. Traced(d, Append(s, E0), p) /\ Append(s, E0) \in Seq(Byte) /\ E0 \in Byte
        BY TraceAppend DEF E0, Byte
    <2> HIDE DEF p
    <2>5. KeyOf(p, b) = k /\ ~Ignored(p, b)
        BY <2>1, <2>3 DEF KeyOf, Ignored
    <2>6. Whole(f) /\ f.down = e.down \cup {k}
        BY <2>1, <2>3, <2>5, KeyDecoded
    <2>7. Traced(d, Append(Append(s, E0), b), f)
        BY <2>1, <2>4, TraceAppend, Zenon
    <2>8. s \o <<E0, b>> = Append(Append(s, E0), b)
        BY <2>1, <2>4, ConcatTwo
    <2> HIDE DEF f
    <2> QED
        BY <2>2, <2>6, <2>7, <2>8, Zenon
<1> QED
    BY <1>1, <1>2

LEMMA BreakTraced ==
    ASSUME NEW d, NEW e, NEW s \in Seq(Byte), Traced(d, s, e), Whole(e), NEW k \in KeyId
    PROVE  \E f : Traced(d, s \o break(k), f) /\ Whole(f) /\ f.down = e.down \ {k}
<1>1. CASE k < 128
    <2> DEFINE b == k + 128
               f == keyboard_decode_byte(e, b)
    <2>1. b \in Byte /\ b # E0 /\ b # E1 /\ b % 128 = k /\ k \notin {0, 127} /\ b >= 128
        BY <1>1 DEF KeyId, Byte, E0, E1
    <2>2. break(k) = <<b>>
        BY <1>1 DEF break
    <2> HIDE DEF b
    <2>3. KeyOf(e, b) = k /\ ~Ignored(e, b) /\ Countable(e)
        BY <2>1 DEF Whole, KeyOf, Ignored, KeyId
    <2>4. Whole(f) /\ f.down = e.down \ {k}
        BY <2>1, <2>3, KeyDecoded
    <2>5. Traced(d, s \o <<b>>, f)
        BY <2>1, TraceAppend, ConcatOne, Zenon
    <2> QED
        BY <2>2, <2>4, <2>5
<1>2. CASE ~(k < 128)
    <2> DEFINE b == k
               p == keyboard_decode_byte(e, E0)
               f == keyboard_decode_byte(p, b)
    <2>1. /\ b \in Byte /\ b # E0 /\ b # E1 /\ (b % 128) + 128 = k /\ k \notin {0, 127}
          /\ b % 128 \notin {42, 54} /\ b >= 128
        BY <1>2 DEF KeyId, Byte, E0, E1
    <2>2. break(k) = <<E0, b>>
        BY <1>2 DEF break
    <2> HIDE DEF b
    <2>3. Countable(p) /\ p.down = e.down /\ p.extended = TRUE
        BY PrefixDecoded, Zenon
    <2>4. Traced(d, Append(s, E0), p) /\ Append(s, E0) \in Seq(Byte) /\ E0 \in Byte
        BY TraceAppend DEF E0, Byte
    <2> HIDE DEF p
    <2>5. KeyOf(p, b) = k /\ ~Ignored(p, b)
        BY <2>1, <2>3 DEF KeyOf, Ignored
    <2>6. Whole(f) /\ f.down = e.down \ {k}
        BY <2>1, <2>3, <2>5, KeyDecoded
    <2>7. Traced(d, Append(Append(s, E0), b), f)
        BY <2>1, <2>4, TraceAppend, Zenon
    <2>8. s \o <<E0, b>> = Append(Append(s, E0), b)
        BY <2>1, <2>4, ConcatTwo
    <2> HIDE DEF f
    <2> QED
        BY <2>2, <2>6, <2>7, <2>8, Zenon
<1> QED
    BY <1>1, <1>2

\* The decoder with r more bytes to swallow.
Swallowing(D, n, r) == Decoder(D, n, FALSE, r)

\* The bytes after E1 are swallowed, all five of them.
LEMMA SwallowTraced ==
    ASSUME NEW d, NEW s \in Seq(Byte), NEW D \in SUBSET Byte, NEW n \in Int, NEW r \in Nat \ {0},
           Traced(d, s, Swallowing(D, n, r)), NEW b \in Byte
    PROVE  Traced(d, Append(s, b), Swallowing(D, n, r - 1)) /\ Append(s, b) \in Seq(Byte)
<1>1. Swallowing(D, n, r) \in DecoderType
    BY DecoderIsTyped, Zenon DEF Swallowing
<1>2. /\ Swallowing(D, n, r).down = D /\ Swallowing(D, n, r).down_count = n
      /\ Swallowing(D, n, r).extended = FALSE /\ Swallowing(D, n, r).pause_remaining = r
    BY DEF Decoder, Swallowing
<1>3. Traced(d, Append(s, b), keyboard_decode_byte(Swallowing(D, n, r), b)) /\ Append(s, b) \in Seq(Byte)
    BY TraceAppend
<1>4. keyboard_decode_byte(Swallowing(D, n, r), b)
      = Decoder(Swallowing(D, n, r).down, Swallowing(D, n, r).down_count, Swallowing(D, n, r).extended,
                Swallowing(D, n, r).pause_remaining - 1)
    BY <1>1, <1>2, DecodeSwallows
<1>5. keyboard_decode_byte(Swallowing(D, n, r), b) = Decoder(D, n, FALSE, r - 1)
    BY <1>2, <1>4, Zenon
<1> QED
    BY <1>3, <1>5, Zenon DEF Swallowing

LEMMA SixTraced ==
    ASSUME NEW d, NEW e, NEW s \in Seq(Byte), Traced(d, s, e), Whole(e),
           NEW b \in Byte, NEW c \in Byte, NEW x \in Byte, NEW y \in Byte, NEW z \in Byte
    PROVE  \E f : Traced(d, s \o <<E1, b, c, x, y, z>>, f) /\ Whole(f) /\ f.down = e.down
<1>1. /\ e \in DecoderType /\ e.down \in SUBSET Byte /\ e.down_count \in Int /\ e.pause_remaining = 0
      /\ e.extended = FALSE /\ e = Decoder(e.down, e.down_count, e.extended, e.pause_remaining)
    BY DecoderIsItsFields DEF Whole, Countable
<1>2. E1 \in Byte
    BY DEF E1, Byte
<1> DEFINE D == e.down
           n == e.down_count
           s1 == Append(s, E1)
           s2 == Append(s1, b)
           s3 == Append(s2, c)
           s4 == Append(s3, x)
           s5 == Append(s4, y)
           s6 == Append(s5, z)
<1>3. s \o <<E1, b, c, x, y, z>> = s6
    BY <1>2, SMTT(30)
<1>4. s1 \in Seq(Byte) /\ Traced(d, s1, Swallowing(D, n, 5))
    <2>1. keyboard_decode_byte(e, E1) = Swallowing(D, n, 5)
        BY <1>1, DecodePrefix, Zenon DEF Swallowing
    <2>2. Traced(d, s1, keyboard_decode_byte(e, E1))
        BY <1>2, TraceAppend
    <2> QED
        BY <1>2, <2>1, <2>2
<1>0. D \in SUBSET Byte /\ n \in Int /\ e = Swallowing(D, n, 0)
    <2>1. D \in SUBSET Byte /\ n \in Int
        BY <1>1
    <2>2. e = Swallowing(D, n, 0)
        BY <1>1 DEF Swallowing, Decoder
    <2> QED
        BY <2>1, <2>2
<1> HIDE DEF s1, D, n
<1> SUFFICES ASSUME \A q \in Seq(Byte), v \in Byte, r \in Nat \ {0} : Traced(d, q, Swallowing(D, n, r))
                      => Append(q, v) \in Seq(Byte) /\ Traced(d, Append(q, v), Swallowing(D, n, r - 1))
             PROVE  \E f : Traced(d, s \o <<E1, b, c, x, y, z>>, f) /\ Whole(f) /\ f.down = e.down
    BY <1>0, SwallowTraced
<1>5. s2 \in Seq(Byte) /\ Traced(d, s2, Swallowing(D, n, 4))
    BY <1>2, <1>4, 5 - 1 = 4, 5 \in Nat \ {0}
<1> HIDE DEF s2
<1>6. s3 \in Seq(Byte) /\ Traced(d, s3, Swallowing(D, n, 3))
    BY <1>2, <1>5, 4 - 1 = 3, 4 \in Nat \ {0}
<1> HIDE DEF s3
<1>7. s4 \in Seq(Byte) /\ Traced(d, s4, Swallowing(D, n, 2))
    BY <1>2, <1>6, 3 - 1 = 2, 3 \in Nat \ {0}
<1> HIDE DEF s4
<1>8. s5 \in Seq(Byte) /\ Traced(d, s5, Swallowing(D, n, 1))
    BY <1>2, <1>7, 2 - 1 = 1, 2 \in Nat \ {0}
<1> HIDE DEF s5
<1>9. s6 \in Seq(Byte) /\ Traced(d, s6, Swallowing(D, n, 0))
    BY <1>2, <1>8, 1 - 1 = 0, 1 \in Nat \ {0}
<1> HIDE DEF s6
<1>10. Traced(d, s \o <<E1, b, c, x, y, z>>, e)
    BY <1>0, <1>3, <1>9, Zenon
<1> QED
    BY <1>10

LEMMA PauseTraced ==
    ASSUME NEW d, NEW e, NEW s \in Seq(Byte), Traced(d, s, e), Whole(e)
    PROVE  \E f : Traced(d, s \o pause, f) /\ Whole(f) /\ f.down = e.down
<1>1. 29 \in Byte /\ 69 \in Byte /\ E1 \in Byte /\ 157 \in Byte /\ 197 \in Byte
    BY DEF E1, Byte
<1> QED
    BY <1>1, SixTraced DEF pause

-----------------------------------------------------------------------------
(* What is still to be decoded.                                            *)

\* A typist whose keys send one byte per event.
Plain(t) == ~t.pause /\ t.keys \subseteq 1 .. 126

\* No loss waits to be acted on.
Current == observed_dropped = dropped /\ \A c \in Caller : pc[c] # "discard"

\* Decoding everything that is queued or on its way leaves no key down that is
\* up, and without losses exactly the keys held.
Fits(d, keys, n) == Whole(d) /\ d.down \subseteq keys /\ (n = 0 => d.down = keys)
Owed(d, s, keys, n) == \E e : Traced(d, s, e) /\ Fits(e, keys, n)

WireIsPlain ==
    Plain(typist) =>
        \/ wire = <<>>
        \/ \E k \in typist.keys : (wire = <<k>> /\ k \in phys) \/ wire = <<k + 128>>

LossesAreSeen ==
    /\ observed_dropped <= dropped /\ dropped <= typist.losses
    /\ \A c \in Caller : pc[c] \in {"observe", "discard"} => dropped > 0

OwedIsTrue == Current /\ (dropped = 0 \/ Plain(typist)) => Owed(dec, fifo \o wire, phys, dropped)

DecodeInv == FifoInv /\ WireIsPlain /\ LossesAreSeen /\ OwedIsTrue

LEMMA TypistIsTyped ==
    ASSUME TypeOK
    PROVE  /\ typist.keys \subseteq KeyId /\ typist.pause \in BOOLEAN /\ typist.losses \in Nat
           /\ phys \subseteq KeyId /\ phys \subseteq typist.keys
    BY KeyboardAssumption DEF TypeOK

LEMMA DecodeInit == Init => DecodeInv
<1> SUFFICES ASSUME Init PROVE DecodeInv
    OBVIOUS
<1>1. FifoInv /\ TypeOK
    BY FifoInit DEF FifoInv
<1>2. WireIsPlain
    BY DEF Init, WireIsPlain
<1>3. LossesAreSeen
    BY <1>1, TypistIsTyped DEF Init, LossesAreSeen
<1>4. OwedIsTrue
    <2>1. fifo \o wire = <<>> /\ dec = Cleared /\ phys = {}
        BY DEF Init
    <2>2. Traced(dec, <<>>, dec) /\ Fits(dec, {}, dropped)
        BY <2>1, TraceEmpty, ClearedIsWhole DEF Whole, Countable, Fits
    <2> QED
        BY <2>1, <2>2 DEF OwedIsTrue, Owed
<1> QED
    BY <1>1, <1>2, <1>3, <1>4 DEF DecodeInv

\* The steps of a caller that neither decode nor act on a loss.
LEMMA QuietKeeps ==
    ASSUME DecodeInv, FifoInv', UNCHANGED <<typist, phys, wire, fifo, dec, dropped>>,
           observed_dropped' = observed_dropped \/ observed_dropped' = dropped,
           \A o \in Caller : pc'[o] \in {"observe", "discard"} => dropped > 0,
           Current' => Current
    PROVE  DecodeInv'
<1>1. TypeOK /\ dropped \in Nat
    BY DEF DecodeInv, FifoInv, TypeOK
<1>2. WireIsPlain'
    BY Zenon DEF DecodeInv, WireIsPlain, Plain
<1>3. LossesAreSeen'
    BY <1>1, TypistIsTyped DEF DecodeInv, LossesAreSeen
<1>4. OwedIsTrue'
    <2>1. OwedIsTrue
        BY DEF DecodeInv
    <2>2. ASSUME Current', dropped' = 0 \/ Plain(typist') PROVE Owed(dec', fifo' \o wire', phys', dropped')
        BY <2>1, <2>2 DEF OwedIsTrue
    <2> QED
        BY <2>2 DEF OwedIsTrue, Owed, Plain
<1> QED
    BY <1>2, <1>3, <1>4 DEF DecodeInv

LEMMA QuietSteps ==
    ASSUME DecodeInv, NEW c \in Caller,
           acquire(c) \/ check_dropped(c) \/ observe(c) \/ read(c) \/ release(c)
    PROVE  DecodeInv'
<1>1. FifoInv /\ TypeOK /\ LockIsExclusive /\ LossesAreSeen /\ pc \in [Caller -> Step]
    BY DEF DecodeInv, FifoInv, TypeOK
<1>2. FifoInv'
    BY <1>1, AcquireKeeps, CheckKeeps, ReadKeeps, ReleaseKeeps
<1>3. /\ UNCHANGED <<typist, phys, wire, fifo, dec, dropped>>
      /\ observed_dropped' = observed_dropped \/ observed_dropped' = dropped
    BY DEF acquire, check_dropped, observe, read, release, keyboard, queue
<1>4. dropped \in Nat /\ observed_dropped \in Nat /\ observed_dropped <= dropped
    BY <1>1 DEF TypeOK, LossesAreSeen
<1>5. \A o \in Caller : pc'[o] \in {"observe", "discard"} => dropped > 0
    <2>1. ASSUME NEW o \in Caller \ {c} PROVE pc'[o] = pc[o]
        BY <1>1 DEF acquire, check_dropped, observe, read, release, At
    <2>2. pc'[c] \in {"observe", "discard"} => dropped > 0
        <3>1. CASE check_dropped(c)
            BY <1>1, <1>4, <3>1 DEF check_dropped, At
        <3>2. CASE observe(c)
            BY <1>1, <3>2 DEF observe, At, LossesAreSeen
        <3>3. CASE acquire(c) \/ read(c) \/ release(c)
            BY <1>1, <3>3 DEF acquire, read, release, At
        <3> QED
            BY <3>1, <3>2, <3>3
    <2> QED
        BY <1>1, <2>1, <2>2 DEF LossesAreSeen
<1>6. Current' => Current
    <2>1. CASE observe(c)
        BY <1>1, <2>1 DEF observe, At, Current
    <2>2. CASE acquire(c) \/ check_dropped(c) \/ read(c) \/ release(c)
        <3>1. observed_dropped' = observed_dropped /\ pc[c] # "discard"
              /\ \A o \in Caller \ {c} : pc'[o] = pc[o]
            BY <1>1, <2>2 DEF acquire, check_dropped, read, release, At
        <3> QED
            BY <1>3, <3>1 DEF Current
    <2> QED
        BY <2>1, <2>2
<1> QED
    BY <1>2, <1>3, <1>5, <1>6, QuietKeeps

LEMMA ConcatEmpty ==
    ASSUME NEW s \in Seq(Byte)
    PROVE  s \o <<>> = s /\ <<>> \o s = s
    OBVIOUS

LEMMA TypingDecodes ==
    ASSUME DecodeInv, key_event
    PROVE  DecodeInv'
<1>1. FifoInv /\ TypeOK /\ FifoInv' /\ fifo \in Seq(Byte) /\ wire = <<>>
    <2>1. FifoInv /\ TypeOK
        BY Zenon DEF DecodeInv, FifoInv
    <2>2. fifo \in Seq(Byte)
        BY <2>1 DEF TypeOK
    <2>3. wire = <<>>
        BY Zenon DEF key_event, Type
    <2> QED
        BY <2>1, <2>2, <2>3, TypeKeeps, Zenon
<1>2. UNCHANGED <<typist, fifo, dec, dropped, observed_dropped, pc>>
    BY Zenon DEF key_event, Type, queue
<1>3. typist.keys \subseteq KeyId /\ phys \subseteq KeyId /\ phys \subseteq typist.keys
    BY <1>1, TypistIsTyped
<1>4. LossesAreSeen'
    BY <1>2 DEF DecodeInv, LossesAreSeen
<1>5. WireIsPlain'
    <2> SUFFICES ASSUME Plain(typist)
                 PROVE  \E k \in typist.keys : (wire' = <<k>> /\ k \in phys') \/ wire' = <<k + 128>>
        BY <1>2, Zenon DEF WireIsPlain, Plain
    <2>1. ASSUME NEW k \in typist.keys PROVE make(k) = <<k>> /\ break(k) = <<k + 128>>
        BY DEF Plain, make, break
    <2>2. CASE \E k \in typist.keys : Type(phys \cup {k}, make(k))
        BY <2>1, <2>2 DEF Type
    <2>3. CASE \E k \in phys : Type(phys \ {k}, break(k))
        BY <1>3, <2>1, <2>3 DEF Type
    <2> QED
        BY <2>2, <2>3 DEF key_event, Plain
<1>6. OwedIsTrue'
    <2> SUFFICES ASSUME Current, dropped = 0 \/ Plain(typist)
                 PROVE  Owed(dec, fifo \o wire', phys', dropped)
        BY <1>2 DEF OwedIsTrue, Current, Plain, Owed
    <2>1. PICK e : Traced(dec, fifo, e) /\ Fits(e, phys, dropped)
        BY <1>1, ConcatEmpty DEF DecodeInv, OwedIsTrue, Owed
    <2>2. Whole(e) /\ e.down \subseteq phys /\ (dropped = 0 => e.down = phys)
        BY <2>1 DEF Fits
    <2>3. ASSUME NEW k \in typist.keys, Type(phys \cup {k}, make(k))
          PROVE  Owed(dec, fifo \o wire', phys', dropped)
        <3>1. k \in KeyId /\ phys' = phys \cup {k} /\ wire' = make(k)
            BY <1>3, <2>3 DEF Type
        <3>2. PICK f : Traced(dec, fifo \o make(k), f) /\ Whole(f) /\ f.down = e.down \cup {k}
            BY <1>1, <2>1, <2>2, <3>1, MakeTraced, SMTT(30)
        <3>3. Fits(f, phys', dropped)
            BY <2>2, <3>1, <3>2 DEF Fits
        <3> QED
            BY <3>1, <3>2, <3>3 DEF Owed
    <2>4. ASSUME NEW k \in phys, Type(phys \ {k}, break(k))
          PROVE  Owed(dec, fifo \o wire', phys', dropped)
        <3>1. k \in KeyId /\ phys' = phys \ {k} /\ wire' = break(k)
            BY <1>3, <2>4, SMTT(30) DEF Type
        <3>2. PICK f : Traced(dec, fifo \o break(k), f) /\ Whole(f) /\ f.down = e.down \ {k}
            BY <1>1, <2>1, <2>2, <3>1, BreakTraced
        <3>3. Fits(f, phys', dropped)
            BY <2>2, <3>1, <3>2 DEF Fits
        <3> QED
            BY <3>1, <3>2, <3>3 DEF Owed
    <2>5. ASSUME Type(phys, pause)
          PROVE  Owed(dec, fifo \o wire', phys', dropped)
        <3>1. phys' = phys /\ wire' = pause
            BY <2>5 DEF Type
        <3>2. PICK f : Traced(dec, fifo \o pause, f) /\ Whole(f) /\ f.down = e.down
            BY <1>1, <2>1, <2>2, PauseTraced
        <3>3. Fits(f, phys', dropped)
            BY <2>2, <3>1, <3>2 DEF Fits
        <3> QED
            BY <3>1, <3>2, <3>3 DEF Owed
    <2> QED
        BY <2>3, <2>4, <2>5, Zenon DEF key_event
<1> QED
    BY <1>1, <1>4, <1>5, <1>6, SMTT(30) DEF DecodeInv

LEMMA InterruptDecodes ==
    ASSUME DecodeInv, ps2_keyboard_interrupt
    PROVE  DecodeInv'
<1>1. /\ FifoInv /\ FifoInv' /\ TypeOK /\ fifo \in Seq(Byte) /\ wire \in Seq(Byte)
      /\ wire # <<>> /\ wire' = Tail(wire)
    BY InterruptKeeps DEF DecodeInv, FifoInv, TypeOK, ps2_keyboard_interrupt
<1>2. UNCHANGED <<typist, phys, dec, observed_dropped, pc>>
    BY DEF ps2_keyboard_interrupt
<1>3. WireIsPlain'
    <2> SUFFICES ASSUME Plain(typist) PROVE wire' = <<>>
        BY <1>2, Zenon DEF WireIsPlain, Plain
    <2>1. PICK b : wire = <<b>>
        BY <1>1 DEF DecodeInv, WireIsPlain
    <2> QED
        BY <1>1, <2>1
<1>4. dropped \in Nat /\ observed_dropped \in Nat /\ observed_dropped <= dropped /\ typist.losses \in Nat
    BY <1>1, TypistIsTyped, Zenon DEF TypeOK, DecodeInv, LossesAreSeen
<1>5. CASE dropped < typist.losses /\ dropped' = dropped + 1
    <2>1. LossesAreSeen'
        BY <1>2, <1>4, <1>5 DEF DecodeInv, LossesAreSeen
    <2>2. ~(observed_dropped' = dropped')
        BY <1>2, <1>4, <1>5
    <2>3. OwedIsTrue'
        BY <2>2 DEF OwedIsTrue, Current
    <2> QED
        BY <1>1, <1>3, <2>1, <2>3 DEF DecodeInv
<1>6. CASE fifo' = Append(fifo, Head(wire)) /\ dropped' = dropped
    <2>1. LossesAreSeen'
        BY <1>2, <1>6 DEF DecodeInv, LossesAreSeen
    <2>2. fifo' \o wire' = fifo \o wire
        BY <1>1, <1>6, MoveByte, SMTT(30)
    <2>3. OwedIsTrue'
        BY <1>2, <1>6, <2>2, Zenon DEF DecodeInv, OwedIsTrue, Current, Plain, Owed
    <2> QED
        BY <1>1, <1>3, <2>1, <2>3 DEF DecodeInv
<1> QED
    BY <1>5, <1>6, SMTT(30) DEF ps2_keyboard_interrupt

\* One key event after everything has been forgotten.
LEMMA AloneTraced ==
    ASSUME NEW k \in KeyId
    PROVE  /\ \E f : Traced(Cleared, make(k), f) /\ Whole(f) /\ f.down = {k}
           /\ \E f : Traced(Cleared, break(k), f) /\ Whole(f) /\ f.down = {}
<1>1. PICK d : d = Cleared /\ Whole(d) /\ d.down = {} /\ d \in DecoderType
    BY ClearedIsWhole DEF Whole, Countable
<1>2. PICK s \in Seq(Byte) : s = <<>>
    <2>1. <<>> \in Seq(Byte)
        OBVIOUS
    <2> QED
        BY <2>1, Zenon
<1>3. Traced(d, s, d)
    BY <1>1, <1>2, TraceEmpty
<1>4. Whole(d)
    BY <1>1
<1>5. s \o make(k) = make(k) /\ s \o break(k) = break(k)
    BY <1>2, SequenceIsBytes, ConcatEmpty
<1>6. \E f : Traced(d, s \o make(k), f) /\ Whole(f) /\ f.down = d.down \cup {k}
    BY <1>3, <1>4, MakeTraced
<1>7. \E f : Traced(d, s \o break(k), f) /\ Whole(f) /\ f.down = d.down \ {k}
    BY <1>3, <1>4, BreakTraced
<1>8. d.down \cup {k} = {k} /\ d.down \ {k} = {}
    BY <1>1
<1> QED
    BY <1>1, <1>5, <1>6, <1>7, <1>8, Zenon

LEMMA DiscardDecodes ==
    ASSUME DecodeInv, NEW c \in Caller, discard(c)
    PROVE  DecodeInv'
<1>1. /\ FifoInv /\ FifoInv' /\ TypeOK /\ wire \in Seq(Byte) /\ pc \in [Caller -> Step]
      /\ fifo' = <<>> /\ dec' = Cleared /\ pc[c] = "discard" /\ pc' = [pc EXCEPT ![c] = "read"]
    BY DiscardKeeps, Zenon DEF DecodeInv, FifoInv, TypeOK, discard, At
<1>2. UNCHANGED <<typist, phys, wire, dropped, observed_dropped>>
    BY DEF discard, keyboard
<1>3. dropped > 0 /\ dropped \in Nat
    BY <1>1 DEF DecodeInv, LossesAreSeen, TypeOK
<1>4. WireIsPlain'
    BY <1>2, Zenon DEF DecodeInv, WireIsPlain, Plain
<1>5. LossesAreSeen'
    BY <1>1, <1>2 DEF DecodeInv, LossesAreSeen
<1>6. OwedIsTrue'
    <2> DEFINE True == \E e : Traced(Cleared, wire, e) /\ Fits(e, phys, dropped)
    <2>0. Whole(Cleared) /\ Cleared.down = {} /\ Cleared \in DecoderType
        BY ClearedIsWhole DEF Whole, Countable
    <2>1. Traced(Cleared, <<>>, Cleared) /\ <<>> \in Seq(Byte)
        BY <2>0, TraceEmpty
    <2>2. ASSUME wire = <<>> PROVE True
        <3>1. Fits(Cleared, phys, dropped)
            BY <1>3, <2>0 DEF Fits
        <3> QED
            BY <2>1, <2>2, <3>1
    <2>3. ASSUME NEW k \in typist.keys, Plain(typist), (wire = <<k>> /\ k \in phys) \/ wire = <<k + 128>>
          PROVE  True
        <3>1. k \in KeyId /\ k \in 1 .. 126
            BY <1>1, <2>3, TypistIsTyped, Zenon DEF Plain
        <3>2. make(k) = <<k>> /\ break(k) = <<k + 128>>
            BY <3>1 DEF make, break
        <3>3. PICK f : Traced(Cleared, wire, f) /\ Whole(f) /\ f.down \subseteq phys
            BY <2>3, <3>1, <3>2, AloneTraced
        <3>4. Fits(f, phys, dropped)
            BY <1>3, <3>3 DEF Fits
        <3> QED
            BY <3>3, <3>4
    <2>5. Plain(typist) => True
        BY <2>2, <2>3 DEF DecodeInv, WireIsPlain
    <2>6. fifo' \o wire' = wire
        BY <1>1, <1>2, ConcatEmpty
    <2>7. True => Owed(dec', fifo' \o wire', phys', dropped')
        BY <1>1, <1>2, <2>6, Zenon DEF Owed
    <2>8. ~(dropped' = 0) /\ typist' = typist
        BY <1>2, <1>3
    <2> HIDE DEF True
    <2> QED
        BY <2>5, <2>7, <2>8 DEF OwedIsTrue, Owed, Plain
<1> QED
    BY <1>1, <1>4, <1>5, <1>6, SMTT(30) DEF DecodeInv

LEMMA AdvanceDecodes ==
    ASSUME DecodeInv, NEW c \in Caller, advance(c)
    PROVE  DecodeInv'
<1>1. /\ FifoInv /\ FifoInv' /\ TypeOK /\ wire \in Seq(Byte) /\ fifo \in Seq(Byte)
      /\ fifo # <<>> /\ fifo' = Tail(fifo) /\ dec' = keyboard_decode_byte(dec, Head(fifo))
    BY AdvanceKeeps, Zenon DEF DecodeInv, FifoInv, TypeOK, advance
<1>2. UNCHANGED <<typist, phys, wire, dropped, observed_dropped>>
    BY DEF advance, keyboard
<1>3. pc \in [Caller -> Step] /\ pc[c] = "advance" /\ pc' = [pc EXCEPT ![c] = "read"]
    BY <1>1 DEF advance, At, TypeOK
<1>4. WireIsPlain'
    BY <1>2, Zenon DEF DecodeInv, WireIsPlain, Plain
<1>5. LossesAreSeen'
    BY <1>2, <1>3 DEF DecodeInv, LossesAreSeen
<1>6. OwedIsTrue'
    <2> SUFFICES ASSUME Current, dropped = 0 \/ Plain(typist)
                 PROVE  Owed(dec', fifo' \o wire, phys, dropped)
        BY <1>2, <1>3 DEF OwedIsTrue, Current, Plain, Owed
    <2>1. PICK e : Traced(dec, fifo \o wire, e) /\ Fits(e, phys, dropped)
        BY DEF DecodeInv, OwedIsTrue, Owed
    <2>2. /\ fifo \o wire \in Seq(Byte) /\ fifo \o wire # <<>>
          /\ Head(fifo \o wire) = Head(fifo) /\ Tail(fifo \o wire) = Tail(fifo) \o wire
        BY <1>1, TakeByte
    <2>3. Traced(keyboard_decode_byte(dec, Head(fifo)), Tail(fifo) \o wire, e)
        <3>1. Traced(keyboard_decode_byte(dec, Head(fifo \o wire)), Tail(fifo \o wire), e)
            BY <2>1, <2>2, TraceTail, Zenon
        <3> QED
            BY <2>2, <3>1, Zenon
    <2> QED
        BY <1>1, <2>1, <2>3, Zenon DEF Owed
<1> QED
    BY <1>1, <1>4, <1>5, <1>6 DEF DecodeInv

LEMMA DecodeStep == DecodeInv /\ [Next]_vars => DecodeInv'
<1> SUFFICES ASSUME DecodeInv, [Next]_vars PROVE DecodeInv'
    OBVIOUS
<1>1. CASE key_event
    BY <1>1, TypingDecodes
<1>2. CASE ps2_keyboard_interrupt
    BY <1>2, InterruptDecodes
<1>3. ASSUME NEW c \in Caller, acquire(c) PROVE DecodeInv'
    BY <1>3, QuietSteps
<1>4. ASSUME NEW c \in Caller, inside(c) PROVE DecodeInv'
    BY <1>4, QuietSteps, DiscardDecodes, AdvanceDecodes DEF inside
<1>5. CASE UNCHANGED vars
    <2>1. FifoInv'
        BY <1>5, FifoStep DEF DecodeInv
    <2>2. pc' = pc /\ observed_dropped' = observed_dropped /\ dropped' = dropped
        BY <1>5 DEF vars, queue
    <2>3. UNCHANGED <<typist, phys, wire, fifo, dec, dropped>>
        BY <1>5 DEF vars, queue, keyboard
    <2>4. Current' => Current
        BY <2>2 DEF Current
    <2>5. \A o \in Caller : pc'[o] \in {"observe", "discard"} => dropped > 0
        BY <2>2 DEF DecodeInv, LossesAreSeen
    <2> QED
        BY <2>1, <2>2, <2>3, <2>4, <2>5, QuietKeeps
<1> QED
    BY <1>1, <1>2, <1>3, <1>4, <1>5 DEF Next

\* Once everything is decoded and every loss acted on, the decoder is what the
\* invariant promises of the bytes still owed.
LEMMA SettledFits ==
    ASSUME DecodeInv, Settled, dropped = 0 \/ Plain(typist)
    PROVE  Fits(dec, phys, dropped)
<1>1. TypeOK /\ fifo \in Seq(Byte) /\ wire = <<>> /\ dec \in DecoderType /\ head = tail
    BY DEF DecodeInv, FifoInv, TypeOK, Settled
<1>2. fifo = <<>>
    <2>1. Len(fifo) = 0
        BY <1>1, SizeIsNatural DEF DecodeInv, FifoInv, RingIsFifo, Length, TypeOK, Place
    <2> QED
        BY <1>1, <2>1, SMTT(30)
<1>3. Current
    BY DEF Settled, Current
<1>4. PICK e : Traced(dec, fifo \o wire, e) /\ Fits(e, phys, dropped)
    BY <1>3 DEF DecodeInv, OwedIsTrue, Owed
<1>5. fifo \o wire = <<>>
    BY <1>1, <1>2
<1>6. e = dec
    BY <1>1, <1>4, <1>5, TraceEmpty
<1> QED
    BY <1>4, <1>6, SMTT(30)

\* Whatever the typist presses, holds and releases, and however the interrupts
\* and the callers interleave, as long as no byte is lost the keys
\* keyboard_decode_byte has down are the keys held, and down_count counts them.
THEOREM DecodingStaysTrue == Spec => []DecodedIsTrue
<1>1. Spec => []DecodeInv
    BY DecodeInit, DecodeStep, PTL DEF Spec
<1>2. DecodeInv => DecodedIsTrue
    <2> SUFFICES ASSUME DecodeInv, Settled, dropped = 0
                 PROVE  dec.down = phys /\ dec.down_count = Cardinality(phys)
        BY DEF DecodedIsTrue
    <2> QED
        BY SettledFits DEF Fits, Whole, Countable
<1> QED
    BY <1>1, <1>2, PTL

\* When every typist whose bytes may get lost has keys of one byte only, no
\* loss leaves a key down: keyboard_process_queue forgets all keys, and what it
\* decodes afterwards is about keys that are really down.
THEOREM NoKeySticks ==
    ASSUME \A t \in Typist : t.losses > 0 => Plain(t)
    PROVE  Spec => []NoStuckKey
<1>1. Spec => []DecodeInv
    BY DecodeInit, DecodeStep, PTL DEF Spec
<1>2. DecodeInv => NoStuckKey
    <2> SUFFICES ASSUME DecodeInv, Settled, phys = {}
                 PROVE  dec.down = {} /\ dec.down_count = 0
        BY SMTT(30) DEF NoStuckKey
    <2>1. dropped \in Nat /\ typist.losses \in Nat /\ dropped <= typist.losses /\ typist \in Typist
        BY TypistIsTyped DEF DecodeInv, FifoInv, TypeOK, LossesAreSeen
    <2>2. dropped = 0 \/ Plain(typist)
        BY <2>1
    <2>3. Whole(dec) /\ dec.down \subseteq {}
        BY <2>2, SettledFits DEF Fits
    <2>4. dec.down = {}
        BY <2>3
    <2> QED
        BY <2>3, <2>4, FS_EmptySet DEF Whole, Countable
<1> QED
    BY <1>1, <1>2, PTL

=============================================================================
