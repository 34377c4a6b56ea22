---------------------------- MODULE DisplayProofs ----------------------------
(***************************************************************************)
(* Proofs about the graphics driver and the panic path, for every firmware *)
(* state, screen size, batch of motions and number of processes.           *)
(***************************************************************************)
EXTENDS Panic, KernelLemmas

-----------------------------------------------------------------------------
(* Arithmetic.                                                             *)

LEMMA SmallWord == \A n \in 0 .. WORD - 1 : uint32(n) = n
  BY WordAssumption DEF uint32, MiB

\* A coordinate within the screen.
Clamp(n, limit) == IF n < 0 THEN 0 ELSE IF n >= limit THEN limit - 1 ELSE n

\* intel915_move_axis adds without overflow and clamps, for every motion a
\* signed word can hold, the least included, whose negation is no signed word.
THEOREM MoveAxisClamps ==
    ASSUME NEW limit \in Nat, 1 <= limit, limit <= 2048, NEW position \in 0 .. limit - 1,
           NEW delta \in int32
    PROVE  /\ intel915_move_axis(position, delta, limit) = Clamp(position + delta, limit)
           /\ intel915_move_axis(position, delta, limit) \in 0 .. limit - 1
<1>1. WORD \div 2 \in Nat /\ WORD \div 2 < WORD /\ WORD \div 2 > 2048
    BY WordAssumption DEF MiB
<1>2. ~(limit = 0 \/ limit > 2048) /\ ~(position >= limit) /\ delta \in Int
    BY <1>1 DEF int32
<1>3. CASE delta < 0
    <2>1. -delta \in 0 .. WORD - 1
        BY <1>1, <1>3, WordAssumption DEF MiB, int32
    <2>2. uint32(-delta) = -delta
        BY <2>1, SmallWord
    <2>3. intel915_move_axis(position, delta, limit)
              = IF -delta > position THEN 0 ELSE position - (-delta)
        BY <1>2, <1>3, <2>1, <2>2 DEF intel915_move_axis
    <2> QED
        BY <1>2, <1>3, <2>3 DEF Clamp
<1>4. CASE delta >= 0
    <2>1. intel915_move_axis(position, delta, limit)
              = IF delta >= limit - position THEN limit - 1 ELSE position + delta
        BY <1>2, <1>4 DEF intel915_move_axis
    <2> QED
        BY <1>2, <1>4, <2>1 DEF Clamp
<1> QED
    BY <1>2, <1>3, <1>4

\* Where a cursor may be.
Screen == (0 .. fw.width - 1) \X (0 .. fw.height - 1)

\* at is where the first n motions take the cursor.
Path(motions, n, at) ==
    at = [i \in 0 .. n |-> IF i = 0 THEN hdr.position ELSE move(at[i - 1], motions[i])]

\* A recursion over the motions defines a function.
LEMMA PathExists ==
    ASSUME NEW motions
    PROVE  \A n \in Nat : \E at : Path(motions, n, at)
<1> DEFINE S == {n \in Nat : \E at : Path(motions, n, at)}
<1>1. 0 \in S
    <2>1. Path(motions, 0, [i \in 0 .. 0 |-> hdr.position])
        BY DEF Path
    <2> QED
        BY <2>1
<1>2. ASSUME NEW n \in Nat, n \in S PROVE n + 1 \in S
    <2>1. PICK at : Path(motions, n, at)
        BY <1>2
    <2> DEFINE longer == [i \in 0 .. n + 1 |-> IF i = n + 1 THEN move(at[n], motions[i]) ELSE at[i]]
    <2>2. \A i \in 0 .. n + 1 :
             longer[i] = IF i = 0 THEN hdr.position ELSE move(longer[i - 1], motions[i])
        BY <2>1 DEF Path
    <2>3. Path(motions, n + 1, longer)
        BY <2>2 DEF Path
    <2> QED
        BY <2>3
<1> HIDE DEF S
<1>3. Nat \subseteq S
    BY <1>1, <1>2, NaturalsByCounting
<1> QED
    BY <1>3 DEF S

\* A screen that intel915_mode_layout accepts, and more.
Sized == /\ fw.width \in Nat /\ 1 <= fw.width /\ fw.width <= 2048
         /\ fw.height \in Nat /\ 1 <= fw.height /\ fw.height <= 2048
PathOf(motions) == CHOOSE at : Path(motions, Len(motions), at)

\* One motion keeps the cursor on the screen.
LEMMA MoveStays ==
    ASSUME Sized, NEW a \in Screen, NEW m \in int32 \X int32
    PROVE  move(a, m) \in Screen
<1>1. PICK x \in 0 .. fw.width - 1, y \in 0 .. fw.height - 1 : a = <<x, y>>
    BY DEF Screen
<1>2. PICK dx \in int32, dy \in int32 : m = <<dx, dy>>
    OBVIOUS
<1>3. /\ intel915_move_axis(x, dx, fw.width) \in 0 .. fw.width - 1
      /\ intel915_move_axis(y, dy, fw.height) \in 0 .. fw.height - 1
    BY MoveAxisClamps DEF Sized
<1>4. move(a, m) = <<intel915_move_axis(x, dx, fw.width), intel915_move_axis(y, dy, fw.height)>>
    BY <1>1, <1>2 DEF move
<1> QED
    BY <1>3, <1>4 DEF Screen

\* So does every batch, however long and however far.
LEMMA MovedStays ==
    ASSUME NEW motions \in Motion, Sized, hdr.position \in Screen
    PROVE  Moved(motions) \in Screen
<1>0. motions \in Seq(int32 \X int32)
    BY FirmwareAssumption
<1>2. Len(motions) \in Nat /\ DOMAIN motions = 1 .. Len(motions)
    BY <1>0
<1>6. Path(motions, Len(motions), PathOf(motions))
    BY <1>2, PathExists, Zenon DEF PathOf
<1>7. Moved(motions) = PathOf(motions)[Len(motions)]
    BY Zenon DEF Moved, Path, PathOf
<1>1. PICK at : Path(motions, Len(motions), at) /\ Moved(motions) = at[Len(motions)]
    BY <1>6, <1>7
<1> DEFINE S == {n \in Nat : n <= Len(motions) => at[n] \in Screen}
<1>3. 0 \in S
    BY <1>1, <1>2 DEF Path
<1>4. ASSUME NEW n \in Nat, n \in S PROVE n + 1 \in S
    <2> SUFFICES ASSUME n + 1 <= Len(motions) PROVE at[n + 1] \in Screen
        OBVIOUS
    <2>1. n + 1 \in 0 .. Len(motions) /\ at[n] \in Screen
        BY <1>2, <1>4
    <2>2. at[n + 1] = move(at[n], motions[n + 1])
        BY <1>1, <2>1 DEF Path
    <2>3. motions[n + 1] \in int32 \X int32
        BY <1>0, <1>2, <2>1
    <2> QED
        BY <2>1, <2>2, <2>3, MoveStays
<1> HIDE DEF S
<1>5. Nat \subseteq S
    BY <1>3, <1>4, NaturalsByCounting
<1> QED
    BY <1>1, <1>2, <1>5 DEF S

\* A supported mode has a pitch of whole cache lines that holds a row.
LEMMA PitchHolds ==
    ASSUME NEW width \in Nat, 320 <= width, width <= 2048
    PROVE  /\ Pitch(width) \in Nat /\ 4 * width <= Pitch(width) /\ Pitch(width) <= 8192
           /\ Pitch(width) % 64 = 0 /\ Pitch(width) % 4 = 0
<1>1. uint32(width * 4 + 63) = width * 4 + 63
    BY SmallWord, WordAssumption DEF MiB
<1> QED
    BY <1>1 DEF Pitch, align_down

LEMMA Product ==
    ASSUME NEW m \in Nat, NEW n \in Nat, m <= 8192, n <= 2048
    PROVE  m * n \in Nat /\ m * n <= 8192 * 2048
<1>1. m * n <= 8192 * n
    OBVIOUS
<1> QED
    BY <1>1

\* And a framebuffer of whole pages that holds the rows: no product overflows.
LEMMA BytesHolds ==
    ASSUME NEW width \in Nat, 320 <= width, width <= 2048,
           NEW height \in Nat, 200 <= height, height <= 2048
    PROVE  Bytes(width, height) \in Nat /\ Pitch(width) * height <= Bytes(width, height)
<1>1. PICK P \in Nat : P = Pitch(width) /\ P <= 8192
    BY PitchHolds
<1>2. P * height \in Nat /\ P * height <= 8192 * 2048
    BY <1>1, Product
<1>3. uint32(P * height + 4095) = P * height + 4095
    <2>1. P * height + 4095 \in 0 .. WORD - 1
        BY <1>2, WordAssumption DEF MiB
    <2> QED
        BY <2>1, SmallWord
<1>4. \A n \in Nat : align_down(n + 4095, 4096) \in Nat /\ n <= align_down(n + 4095, 4096)
    BY DEF align_down
<1>5. Bytes(width, height) = align_down(P * height + 4095, 4096)
    BY <1>1, <1>3 DEF Bytes
<1> QED
    BY <1>1, <1>2, <1>4, <1>5

\* The second pixel the driver reads back lies inside the framebuffer.
THEOREM ProbeIsInside ==
    ASSUME NEW width \in Nat, NEW height \in Nat, intel915_mode_layout(width, height)
    PROVE  probe(width, height) \in Nat /\ 4 * probe(width, height) < Bytes(width, height)
<1>1. 320 <= width /\ width <= 2048 /\ 200 <= height /\ height <= 2048
    BY DEF intel915_mode_layout
<1>2. PICK Q \in Nat : Pitch(width) = 4 * Q /\ width <= Q
    <2>1. Pitch(width) \in Nat /\ 4 * width <= Pitch(width) /\ Pitch(width) % 4 = 0
        BY <1>1, PitchHolds
    <2>2. Pitch(width) \div 4 \in Nat /\ Pitch(width) = 4 * (Pitch(width) \div 4)
          /\ width <= Pitch(width) \div 4
        BY <2>1
    <2> QED
        BY <2>2
<1> DEFINE row == (height - 16) \div 2 + 4
           column == (width - 12) \div 2 + 2
<1>3. row \in Nat /\ row + 1 <= height /\ column \in Nat /\ column < width
    BY <1>1
<1>4. probe(width, height) = row * Q + column
    <2>1. Pitch(width) \div 4 = Q
        BY <1>2
    <2> QED
        BY <1>3, <2>1 DEF probe, I915_CURSOR_HEIGHT, I915_CURSOR_WIDTH
<1> HIDE DEF row, column
<1>5. row * Q + column < height * Q /\ row * Q \in Nat /\ height * Q \in Nat
    <2>1. (row + 1) * Q = row * Q + Q /\ row * Q \in Nat /\ height * Q \in Nat
        BY <1>1, <1>2, <1>3
    <2>2. (row + 1) * Q <= height * Q
        BY <1>1, <1>2, <1>3
    <2> QED
        BY <1>1, <1>2, <1>3, <2>1, <2>2
<1>6. 4 * (height * Q) <= Bytes(width, height) /\ Bytes(width, height) \in Nat
    <2>1. Pitch(width) * height <= Bytes(width, height) /\ Bytes(width, height) \in Nat
        BY <1>1, BytesHolds
    <2>2. Pitch(width) * height = 4 * (height * Q)
        BY <1>1, <1>2
    <2> QED
        BY <2>1, <2>2
<1> QED
    BY <1>3, <1>4, <1>5, <1>6, SMTT(30)

\* In a supported mode the scene fits the ring with its gap, whatever the
\* aperture: COMMAND_OVERFLOW does not happen.
THEOREM SceneFits ==
    ASSUME NEW width \in Nat, NEW height \in Nat, intel915_mode_layout(width, height),
           NEW aperture \in {128 * MiB, 256 * MiB}
    PROVE  intel915_build_scene(1024, width, height, aperture - 16 * MiB) = 40
<1>1. Bytes(width, height) \in Nat /\ Bytes(width, height) <= 8 * MiB
    <2>1. 320 <= width /\ width <= 2048 /\ 200 <= height /\ height <= 2048
        BY DEF intel915_mode_layout
    <2>2. Bytes(width, height) \in Nat
        BY <2>1, BytesHolds
    <2> QED
        BY <2>2 DEF intel915_mode_layout, I915_FB_MAX_SIZE
<1>2. (aperture - 16 * MiB) % 4096 = 0 /\ aperture - 16 * MiB <= 240 * MiB
    BY SMT DEF MiB
<1> QED
    BY <1>1, <1>2, SMT DEF intel915_build_scene, MiB

\* Eight bytes whose first and last are mapped are all mapped: a range that is
\* not longer than a page touches no third one.
THEOREM FrameIsMapped ==
    ASSUME NEW frame \in 0 .. WORD - 1, panic_range_is_mapped(frame, 8)
    PROVE  \A i \in 0 .. 7 : frame + i < WORD /\ page(frame + i) \in Mapped
<1>1. frame + 7 < WORD
    <2>1. CASE frame + 7 >= WORD
        <3>1. uint32(frame + 7) = frame + 7 - WORD
            BY <2>1, WordAssumption DEF MiB, uint32
        <3> QED
            BY <2>1, <3>1, WordAssumption DEF MiB, panic_range_is_mapped
    <2> QED
        BY <2>1, WordAssumption DEF MiB
<1>2. uint32(frame + 7) = frame + 7
    BY <1>1, SmallWord, WordAssumption DEF MiB
<1>3. page(frame) \in Mapped /\ page(frame + 7) \in Mapped
    BY <1>2, WordAssumption DEF MiB, panic_range_is_mapped
<1>4. \A i \in 0 .. 7 : page(frame + i) = page(frame) \/ page(frame + i) = page(frame + 7)
    BY DEF page
<1> QED
    BY <1>1, <1>3, <1>4, WordAssumption DEF MiB

-----------------------------------------------------------------------------
(* The takeover of the display and the way back.                           *)

\* What the firmware shows, and what a panic must leave of the native display.
Untouched == display = [plane |-> [p \in Pipe |-> PlaneOf(fw.plane[p])],
                        cursor |-> [p \in Pipe |-> NoCursor], vga |-> fw.vga]
NativeOff == display.vga /\ \A p \in Pipe : ~display.plane[p].on /\ ~display.cursor[p].on

Error == {"ALREADY_STARTED", "ENGINE_BUSY", "COMMAND_OVERFLOW", "GPU_TIMEOUT", "BAD_PIXELS",
          "CURSOR_FAILED"}
HdrShape ==
    /\ hdr = [present |-> hdr.present, owner |-> hdr.owner, status |-> hdr.status,
              stage |-> hdr.stage, busy |-> hdr.busy, pipe |-> hdr.pipe,
              position |-> hdr.position, cursor_enabled |-> hdr.cursor_enabled]
    /\ hdr.stage \in 0 .. 6
Early == {"wait_ring", "wait_stop", "submit", "complete", "verify"}
Place == Early \cup {"idle", "draw", "program", "release"}
CallOK == call \in [Process -> [pc : Place, step : Nat]]
Alone(c) == \A d \in Process \ {c} : call[d].pc = "idle"

\* One process at a time is inside the service; the stage says truly whether it
\* has begun to write to the display, and never goes back below 5.
DisplayInv ==
    /\ HdrShape
    /\ CallOK
    /\ \A c \in Process : call[c].pc # "idle" =>
          /\ Alone(c)
          /\ hdr.busy /\ hdr.present /\ kernel \in {"running", "panic"}
          /\ call[c].pc \in Early => hdr.stage < 5
          /\ call[c].pc = "program" => hdr.stage = 5
    /\ hdr.stage >= 5 => hdr.present
    /\ kernel = "running" /\ hdr.status = "DRAWN" => hdr.stage = 6
    /\ kernel \in {"start", "devices", "graphics"} => hdr.stage = 0 /\ hdr.status # "DRAWN"
    /\ kernel = "desktop" => hdr.stage = 1 /\ hdr.status = "READY"
    /\ hdr.stage < 5 => Untouched

LEMMA DisplayInit == Init => DisplayInv
<1> SUFFICES ASSUME Init PROVE DisplayInv
    OBVIOUS
<1>1. HdrShape /\ hdr.stage = 0 /\ hdr.status = "NOT_FOUND" /\ kernel = "start"
    <2>1. hdr = [present |-> FALSE, owner |-> 0, status |-> "NOT_FOUND", stage |-> 0,
                 busy |-> FALSE, pipe |-> 0, position |-> <<0, 0>>, cursor_enabled |-> FALSE]
        BY DEF Init, GInit
    <2>2. hdr.stage \in 0 .. 6
        BY <2>1
    <2> QED
        BY <2>1, <2>2 DEF Init, HdrShape
<1>2. CallOK /\ \A c \in Process : call[c].pc = "idle"
    BY DEF Init, GInit, CallOK, Place
<1>3. Untouched
    BY DEF Init, GInit, Untouched
<1> QED
    BY <1>1, <1>2, <1>3 DEF DisplayInv

\* A step inside the service of a process that holds the lock.
LEMMA DisplayService ==
    ASSUME DisplayInv, NEW c \in Process, service(c)
    PROVE  DisplayInv'
<1>1. kernel = "running" /\ UNCHANGED <<fw, kernel>> /\ call[c].pc # "idle"
    BY DEF service, release, draw_desktop, build_and_stop, set_up_ring, submit, wait_complete,
           verify, take_over, At
<1>2. /\ HdrShape /\ CallOK /\ Alone(c) /\ hdr.busy /\ hdr.present
      /\ call[c].pc \in Early => hdr.stage < 5
      /\ call[c].pc = "program" => hdr.stage = 5
      /\ hdr.status = "DRAWN" => hdr.stage = 6
      /\ hdr.stage < 5 => Untouched
    BY <1>1 DEF DisplayInv
<1>0. HdrShape
    BY <1>2
\* What it leaves to be shown of a step.
<1>3. ASSUME CallOK', Alone(c)', HdrShape', hdr'.present = hdr.present,
             call'[c].pc # "idle" => hdr'.busy = hdr.busy,
             hdr'.stage < 5 => hdr.stage < 5 /\ UNCHANGED display,
             call'[c].pc \in Early => hdr'.stage < 5,
             call'[c].pc = "program" => hdr'.stage = 5,
             hdr'.status = "DRAWN" => hdr'.stage = 6
      PROVE  DisplayInv'
    <2>1. hdr'.stage < 5 => Untouched'
        BY <1>1, <1>2, <1>3 DEF Untouched
    <2>2. \A d \in Process : call'[d].pc # "idle" => d = c
        BY <1>3 DEF Alone
    <2>3. kernel' = "running" /\ hdr'.present /\ (call'[c].pc # "idle" => hdr'.busy)
        BY <1>1, <1>2, <1>3, Zenon
    <2> QED
        BY <1>3, <2>1, <2>2, <2>3, SMTT(30) DEF DisplayInv
\* An error is reported, wherever it is met.
<1>4. ASSUME Goto(c, "release"), hdr' = [hdr EXCEPT !.status = hdr'.status],
             hdr'.status # "DRAWN", UNCHANGED display
      PROVE  DisplayInv'
    <2>1. HdrShape' /\ hdr'.present = hdr.present /\ hdr'.stage = hdr.stage /\ hdr'.busy = hdr.busy
        BY <1>2, <1>4, Zenon DEF HdrShape
    <2>2. CallOK' /\ Alone(c)' /\ call'[c].pc = "release"
        BY <1>2, <1>4 DEF Goto, CallOK, Alone, Place, Early
    <2> QED
        BY <1>3, <1>4, <2>1, <2>2 DEF Early
<1>5. ASSUME NEW error \in Error, hdr' = [hdr EXCEPT !.status = error]
      PROVE  hdr' = [hdr EXCEPT !.status = hdr'.status] /\ hdr'.status = error
    <2>1. hdr'.status = error
        BY <1>0, <1>5 DEF HdrShape
    <2> QED
        BY <1>5, <2>1
\* Before the takeover the stage is below 5, and stays so.
<1>6. ASSUME NEW n \in 0 .. 4, hdr' = [hdr EXCEPT !.stage = n]
      PROVE  HdrShape' /\ hdr'.present = hdr.present /\ hdr'.stage < 5
             /\ hdr'.busy = hdr.busy /\ hdr'.status = hdr.status
    BY <1>0, <1>6 DEF HdrShape
<1>7. ASSUME CallOK', Alone(c)', call'[c].pc \in Early, UNCHANGED display, hdr.stage < 5,
             HdrShape', hdr'.present = hdr.present, hdr'.stage < 5, hdr'.busy = hdr.busy,
             hdr'.status = hdr.status
      PROVE  DisplayInv'
    <2>1. call'[c].pc # "program" /\ hdr.status # "DRAWN"
        BY <1>2, <1>7 DEF Early
    <2> QED
        BY <1>3, <1>7, <2>1
<1>8. CASE release(c)
    <2>1. HdrShape' /\ hdr'.present = hdr.present /\ hdr'.stage = hdr.stage
          /\ hdr'.status = hdr.status
        <3>1. hdr' = [hdr EXCEPT !.busy = FALSE]
            BY <1>8 DEF release
        <3> QED
            BY <1>0, <3>1, Zenon DEF HdrShape
    <2>2. CallOK' /\ Alone(c)' /\ call'[c].pc = "idle" /\ UNCHANGED display
        BY <1>2, <1>8 DEF release, Goto, CallOK, Alone, Place, Early
    <2> QED
        BY <1>2, <1>3, <2>1, <2>2, SMTT(30) DEF Early
<1>9. CASE draw_desktop(c)
    <2>1. CASE driver_error(c, "ALREADY_STARTED") /\ UNCHANGED display
        BY <1>4, <1>5, <2>1 DEF driver_error, Error
    <2>2. CASE /\ hdr.stage = 1 /\ hdr' = [hdr EXCEPT !.stage = 2] /\ Goto(c, "wait_ring")
               /\ UNCHANGED display
        <3>1. CallOK' /\ Alone(c)' /\ call'[c].pc = "wait_ring"
            BY <1>2, <2>2 DEF Goto, CallOK, Alone, Place, Early
        <3> QED
            BY <1>6, <1>7, <2>2, <3>1 DEF Early
    <2> QED
        BY <1>9, <2>1, <2>2, Zenon DEF draw_desktop, first_attempt
<1>10. CASE build_and_stop(c)
    <2>1. CASE driver_error(c, "ENGINE_BUSY") /\ UNCHANGED display
        BY <1>4, <1>5, <2>1 DEF driver_error, Error
    <2>2. CASE driver_error(c, "COMMAND_OVERFLOW") /\ UNCHANGED display
        BY <1>4, <1>5, <2>2 DEF driver_error, Error
    <2>3. CASE call[c].pc = "wait_ring" /\ Goto(c, "wait_stop") /\ UNCHANGED <<hdr, display>>
        <3>1. CallOK' /\ Alone(c)' /\ call'[c].pc = "wait_stop"
            BY <1>2, <2>3 DEF Goto, CallOK, Alone, Place, Early
        <3>2. hdr.stage < 5 /\ HdrShape'
            BY <1>2, <2>3 DEF Early, HdrShape
        <3> QED
            BY <1>7, <2>3, <3>1, <3>2 DEF Early
    <2> QED
        <3>1. call[c].pc = "wait_ring" /\ UNCHANGED display
            BY <1>10 DEF build_and_stop, At
        <3>2. \/ driver_error(c, "ENGINE_BUSY") \/ driver_error(c, "COMMAND_OVERFLOW")
              \/ Goto(c, "wait_stop") /\ UNCHANGED hdr
            BY <1>10 DEF build_and_stop
        <3> QED
            BY <2>1, <2>2, <2>3, <3>1, <3>2, Zenon
<1>11. CASE set_up_ring(c)
    <2>1. CASE driver_error(c, "ENGINE_BUSY") /\ UNCHANGED display
        BY <1>4, <1>5, <2>1 DEF driver_error, Error
    <2>2. CASE call[c].pc = "wait_stop" /\ Goto(c, "submit") /\ UNCHANGED <<hdr, display>>
        <3>1. CallOK' /\ Alone(c)' /\ call'[c].pc = "submit"
            BY <1>2, <2>2 DEF Goto, CallOK, Alone, Place, Early
        <3>2. hdr.stage < 5 /\ HdrShape'
            BY <1>2, <2>2 DEF Early, HdrShape
        <3> QED
            BY <1>7, <2>2, <3>1, <3>2, SMTT(30) DEF Early
    <2> QED
        BY <1>11, <2>1, <2>2, Zenon DEF set_up_ring, At
<1>12. CASE submit(c)
    <2>1. hdr.stage < 5 /\ Goto(c, "complete") /\ UNCHANGED display
          /\ hdr' = [hdr EXCEPT !.stage = 3]
        BY <1>2, <1>12 DEF submit, At, Early
    <2>2. CallOK' /\ Alone(c)' /\ call'[c].pc = "complete"
        BY <1>2, <2>1 DEF Goto, CallOK, Alone, Place, Early
    <2> QED
        BY <1>6, <1>7, <2>1, <2>2 DEF Early
<1>13. CASE wait_complete(c)
    <2>1. CASE driver_error(c, "GPU_TIMEOUT") /\ UNCHANGED display
        BY <1>4, <1>5, <2>1 DEF driver_error, Error
    <2>2. CASE /\ call[c].pc = "complete" /\ hdr' = [hdr EXCEPT !.stage = 4]
               /\ Goto(c, "verify") /\ UNCHANGED display
        <3>1. CallOK' /\ Alone(c)' /\ call'[c].pc = "verify"
            BY <1>2, <2>2 DEF Goto, CallOK, Alone, Place, Early
        <3>2. hdr.stage < 5
            BY <1>2, <2>2 DEF Early
        <3> QED
            BY <1>6, <1>7, <2>2, <3>1, <3>2 DEF Early
    <2> QED
        BY <1>13, <2>1, <2>2, Zenon DEF wait_complete, At
<1>14. CASE verify(c)
    <2>1. CASE driver_error(c, "BAD_PIXELS") /\ UNCHANGED display
        BY <1>4, <1>5, <2>1 DEF driver_error, Error
    <2>2. CASE /\ call[c].pc = "verify" /\ hdr' = [hdr EXCEPT !.stage = 5]
               /\ call' = [call EXCEPT ![c].pc = "program", ![c].step = 1]
        <3>1. CallOK' /\ Alone(c)' /\ call'[c].pc = "program"
            BY <1>2, <2>2, ZenonT(30) DEF CallOK, Alone, Place, Early
        <3>2. HdrShape' /\ hdr'.present = hdr.present /\ hdr'.stage = 5
              /\ hdr'.busy = hdr.busy /\ hdr'.status = hdr.status
            BY <1>0, <2>2 DEF HdrShape
        <3>3. hdr.status # "DRAWN"
            BY <1>2, <2>2 DEF Early
        <3> QED
            BY <1>3, <3>1, <3>2, <3>3, SMTT(30) DEF Early
    <2> QED
        BY <1>14, <2>1, <2>2, Zenon DEF verify, At
<1>15. CASE take_over(c)
    <2>1. call[c].pc = "program" /\ hdr.stage = 5 /\ hdr.status # "DRAWN"
        BY <1>2, <1>15 DEF take_over, At
    <2>2. CASE driver_error(c, "CURSOR_FAILED") /\ UNCHANGED display
        BY <1>4, <1>5, <2>2 DEF driver_error, Error
    <2>3. CASE /\ hdr' = [hdr EXCEPT !.cursor_enabled = TRUE, !.stage = 6, !.status = "DRAWN"]
               /\ Goto(c, "release")
        <3>1. HdrShape' /\ hdr'.present = hdr.present /\ hdr'.stage = 6 /\ hdr'.busy = hdr.busy
            <4>1. hdr' = [present |-> hdr.present, owner |-> hdr.owner, status |-> "DRAWN",
                          stage |-> 6, busy |-> hdr.busy, pipe |-> hdr.pipe,
                          position |-> hdr.position, cursor_enabled |-> TRUE]
                BY <1>0, <2>3, Zenon DEF HdrShape
            <4>2. hdr'.stage \in 0 .. 6
                BY <4>1
            <4> QED
                BY <4>1, <4>2 DEF HdrShape
        <3>2. CallOK' /\ Alone(c)' /\ call'[c].pc = "release"
            BY <1>2, <2>3 DEF Goto, CallOK, Alone, Place, Early
        <3> QED
            BY <1>3, <3>1, <3>2 DEF Early
    <2>4. CASE \E at : /\ hdr' = [hdr EXCEPT !.position = at]
                       /\ call' = [call EXCEPT ![c].step = call[c].step + 1]
        <3>1. HdrShape' /\ hdr'.present = hdr.present /\ hdr'.stage = 5
              /\ hdr'.busy = hdr.busy /\ hdr'.status = hdr.status
            BY <1>2, <2>1, <2>4, Zenon DEF HdrShape
        <3>2. CallOK' /\ Alone(c)' /\ call'[c].pc = "program"
            BY <1>2, <2>1, <2>4 DEF CallOK, Alone, Place, Early
        <3> QED
            BY <1>3, <2>1, <3>1, <3>2 DEF Early
    <2> QED
        BY <1>15, <2>2, <2>3, <2>4, Zenon DEF take_over
<1> QED
    BY <1>8, <1>9, <1>10, <1>11, <1>12, <1>13, <1>14, <1>15, SMTT(30) DEF service

\* The other steps of the driver, and those of the GPU.
LEMMA DisplayGraphics ==
    ASSUME DisplayInv, graphics
    PROVE  DisplayInv'
<1>0. HdrShape /\ CallOK
    BY DEF DisplayInv
\* While nobody is inside the service.
<1>7. ASSUME UNCHANGED <<fw, call, display>>, \A c \in Process : call[c].pc = "idle", HdrShape',
             hdr'.stage = hdr.stage \/ (hdr.stage < 5 /\ hdr'.stage < 5),
             hdr'.stage >= 5 => hdr'.present,
             kernel' \in {"running", "panic", "desktop"},
             kernel' = "running" /\ hdr'.status = "DRAWN" => hdr'.stage = 6,
             kernel' = "desktop" => hdr'.stage = 1 /\ hdr'.status = "READY"
      PROVE  DisplayInv'
    <2>1. hdr'.stage < 5 => Untouched'
        BY <1>7 DEF DisplayInv, Untouched
    <2>2. CallOK' /\ \A c \in Process : call'[c].pc = "idle"
        BY <1>0, <1>7 DEF CallOK
    <2> QED
        BY <1>7, <2>1, <2>2, SMTT(30) DEF DisplayInv
<1>1. CASE intel915_initialize
    <2>1. UNCHANGED <<fw, call, display>> /\ kernel = "graphics"
        BY <1>1 DEF intel915_initialize
    <2>2. hdr.stage = 0 /\ hdr.status # "DRAWN" /\ \A c \in Process : call[c].pc = "idle"
        BY <2>1 DEF DisplayInv
    <2>3. CASE UNCHANGED hdr /\ kernel' \in {"running", "panic"}
        BY <1>0, <1>7, <2>1, <2>2, <2>3, SMTT(30) DEF HdrShape
    <2>4. ASSUME NEW error, graphics_failure(error)
          PROVE  DisplayInv'
        <3>1. PICK present : hdr' = [hdr EXCEPT !.status = error, !.present = present]
            BY <2>4, Zenon DEF graphics_failure
        <3>2. HdrShape' /\ hdr'.stage = hdr.stage /\ kernel' = "panic"
            BY <1>0, <2>4, <3>1, Zenon DEF HdrShape, graphics_failure
        <3> QED
            BY <1>7, <2>1, <2>2, <3>2, SMTT(30)
    <2>5. CASE /\ kernel' = "desktop"
               /\ hdr' = [hdr EXCEPT !.present = TRUE, !.pipe = output_pipe(fw),
                                     !.status = "READY", !.stage = 1]
        <3>1. hdr' = [present |-> TRUE, owner |-> hdr.owner, status |-> "READY",
                      stage |-> 1, busy |-> hdr.busy, pipe |-> output_pipe(fw),
                      position |-> hdr.position, cursor_enabled |-> hdr.cursor_enabled]
            BY <1>0, <2>5, Zenon DEF HdrShape
        <3>2. hdr'.stage \in 0 .. 6 /\ hdr'.stage = 1 /\ hdr'.status = "READY"
            BY <3>1
        <3>3. HdrShape'
            BY <3>1, <3>2 DEF HdrShape
        <3> QED
            BY <1>7, <2>1, <2>2, <2>5, <3>2, <3>3
    <2> QED
        BY <1>1, <2>3, <2>4, <2>5, Zenon DEF intel915_initialize
<1>2. CASE \E c \in Process : intel915_claim_desktop(c)
    <2>1. PICK c \in Process : intel915_claim_desktop(c)
        BY <1>2
    <2>2. UNCHANGED <<fw, call, display>> /\ kernel = "desktop"
          /\ kernel' \in {"running", "panic"}
        BY <2>1 DEF intel915_claim_desktop
    <2>3. UNCHANGED hdr \/ hdr' = [hdr EXCEPT !.owner = c]
        BY <2>1 DEF intel915_claim_desktop
    <2>4. HdrShape' /\ hdr'.stage = hdr.stage /\ hdr'.status = hdr.status
        BY <1>0, <2>3 DEF HdrShape
    <2>5. hdr.stage = 1 /\ hdr.status = "READY" /\ \A d \in Process : call[d].pc = "idle"
        BY <2>2 DEF DisplayInv
    <2> QED
        BY <1>7, <2>2, <2>4, <2>5, SMTT(30)
<1>3. CASE \E c \in Process : service(c)
    BY <1>3, DisplayService
<1>4. CASE \E c \in Process, operation \in 0 .. 1 : intel915_driver_service(c, operation)
    <2>1. PICK c \in Process, operation \in 0 .. 1 : intel915_driver_service(c, operation)
        BY <1>4
    <2>2. UNCHANGED <<fw, kernel, display>> /\ hdr.present /\ ~hdr.busy /\ kernel = "running"
          /\ hdr' = [hdr EXCEPT !.busy = TRUE]
        BY <2>1 DEF intel915_driver_service, At
    <2>3. HdrShape' /\ hdr'.stage = hdr.stage /\ hdr'.status = hdr.status
          /\ hdr'.present = hdr.present /\ hdr'.busy = TRUE
        BY <1>0, <2>2, Zenon DEF HdrShape
    <2>4. PICK pc \in {"draw", "release"} : call' = [call EXCEPT ![c].pc = pc]
        BY <2>1, Zenon DEF intel915_driver_service, Goto
    <2>5. \A d \in Process : call[d].pc = "idle"
        BY <2>2 DEF DisplayInv
    <2>6. CallOK' /\ Alone(c)' /\ call'[c].pc = pc
        BY <1>0, <2>4, <2>5 DEF CallOK, Alone, Place
    <2>7. \A d \in Process : call'[d].pc # "idle" => d = c
        BY <2>6 DEF Alone
    <2>8. hdr'.stage < 5 => Untouched'
        BY <2>2, <2>3 DEF DisplayInv, Untouched
    <2>9. pc \notin Early /\ pc # "program"
        BY DEF Early
    <2> QED
        BY <2>2, <2>3, <2>6, <2>7, <2>8, <2>9, SMTT(30) DEF DisplayInv
<1>5. CASE \E motions \in Motion : intel915_cursor_flush(motions)
    <2>1. PICK motions \in Motion : intel915_cursor_flush(motions)
        BY <1>5
    <2>2. UNCHANGED <<fw, kernel, call>> /\ kernel = "running" /\ hdr.stage = 6 /\ ~hdr.busy
          /\ hdr' = [hdr EXCEPT !.position = Moved(motions)]
        BY <2>1 DEF intel915_cursor_flush, DisplayInv
    <2>3. HdrShape' /\ hdr'.stage = hdr.stage /\ hdr'.status = hdr.status
          /\ hdr'.present = hdr.present /\ hdr'.busy = hdr.busy
        BY <1>0, <2>2 DEF HdrShape
    <2>4. CallOK' /\ \A c \in Process : call'[c].pc = "idle"
        BY <2>2 DEF DisplayInv, CallOK
    <2> QED
        BY <2>2, <2>3, <2>4, SMTT(30) DEF DisplayInv
<1>6. CASE firmware_done \/ engine_step
    <2>1. UNCHANGED <<fw, kernel, hdr, call, display>>
        BY <1>6, Zenon DEF firmware_done, engine_step
    <2> QED
        BY <2>1, SMTT(30) DEF DisplayInv, HdrShape, CallOK, Alone, Untouched
<1> QED
    BY <1>1, <1>2, <1>3, <1>4, <1>5, <1>6 DEF graphics

\* The stages of a panic, and what is true of the screen in each.
Coloured == {"font", "glyphs", "unblank", "report", "trace", "halted"}
Readable == {"unblank", "report", "trace", "halted"}

\* The entries of the DAC that vga_restore_palette rewrites have their colours.
LowColours(dac) == \A e \in 0 .. 15 : dac[e] = e

PanicInv ==
    /\ panic = [step |-> panic.step, nested |-> panic.nested,
                depth |-> panic.depth, frame |-> panic.frame]
    /\ vga = [mode |-> vga.mode, palette |-> vga.palette, visible |-> vga.visible,
              font |-> vga.font, text |-> vga.text]
    /\ kernel # "panic" => panic.step = "display"
    /\ panic.step # "display" /\ hdr.stage >= 5 => NativeOff
    /\ font \in {"none", "startup"}
    /\ font = "none" => vga.font = "startup" /\ kernel \in {"start", "panic"}
    /\ kernel = "start" => font = "none"
    /\ panic.step \in Coloured => LowColours(vga.palette)
    /\ panic.step \in Coloured \ {"glyphs"} => vga.mode = "text"
    /\ panic.step = "glyphs" => font = "startup"
    /\ panic.step \in Readable => vga.font = "startup"
    /\ panic.step \in {"report", "trace", "halted"} => vga.visible = TRUE
    /\ panic.step \in {"trace", "halted"} => vga.text = "report"

LEMMA PanicInit == Init => PanicInv
  BY DEF Init, PanicInv, Coloured, Readable

\* In a panic nothing of the driver moves but the GPU, outside one nothing of
\* the panic.
LEMMA PanicStep ==
    ASSUME DisplayInv, PanicInv, [Next]_vars
    PROVE  DisplayInv' /\ PanicInv'
<1>1. ASSUME UNCHANGED <<fw, hdr, call, display>>, UNCHANGED kernel \/ kernel' = "panic"
      PROVE  DisplayInv'
    BY <1>1 DEF DisplayInv, HdrShape, CallOK, Alone, Untouched
<1>2. CASE UNCHANGED vars
    BY <1>1, <1>2 DEF vars, gvars, pvars, PanicInv, NativeOff
<1>3. CASE graphics /\ UNCHANGED pvars
    <2>1. kernel = "panic" => UNCHANGED <<hdr, display, kernel>>
        BY <1>3, Zenon DEF graphics, intel915_initialize, intel915_claim_desktop, service, release,
                    draw_desktop, build_and_stop, set_up_ring, submit, wait_complete, verify,
                    take_over, intel915_driver_service, intel915_cursor_flush, firmware_done,
                    engine_step, At
    <2>2. kernel # "panic" => /\ kernel' = "start" <=> kernel = "start"
                              /\ kernel # "start" => kernel' # "start"
        BY <1>3, Zenon DEF graphics, intel915_initialize, intel915_claim_desktop, service, release,
                    draw_desktop, build_and_stop, set_up_ring, submit, wait_complete, verify,
                    take_over, intel915_driver_service, intel915_cursor_flush, firmware_done,
                    engine_step, At, graphics_failure
    <2>3. PanicInv'
        BY <1>3, <2>1, <2>2, SMTT(30) DEF pvars, PanicInv, NativeOff
    <2> QED
        BY <1>3, <2>3, DisplayGraphics, SMTT(30)
<1>4. CASE vga_capture_startup_font \/ initialize_devices
    <2>1. UNCHANGED <<fw, hdr, call, display, panic, vga>>
        BY <1>4 DEF vga_capture_startup_font, initialize_devices, pvars
    <2>2. kernel \in {"start", "devices"} /\ kernel' \in {"devices", "graphics"}
          /\ (font' = vga.font \/ UNCHANGED font)
        BY <1>4 DEF vga_capture_startup_font, initialize_devices, pvars
    <2>3. DisplayInv'
        BY <2>1, <2>2, SMTT(30) DEF DisplayInv, HdrShape, CallOK, Alone, Untouched
    <2>4. font' = "startup"
        BY <1>4 DEF vga_capture_startup_font, initialize_devices, pvars, PanicInv
    <2> QED
        BY <2>1, <2>2, <2>3, <2>4, SMTT(30) DEF PanicInv, NativeOff, Coloured, Readable
<1>5. CASE vm86_program
    <2>1. UNCHANGED <<gvars, font, panic>> /\ kernel = "running"
        BY <1>5 DEF vm86_program
    <2>2. vga' = [mode |-> vga'.mode, palette |-> vga'.palette, visible |-> vga'.visible,
                  font |-> vga'.font, text |-> vga'.text]
        BY <1>5 DEF vm86_program
    <2> QED
        BY <1>1, <2>1, <2>2 DEF gvars, PanicInv, NativeOff, Coloured, Readable
<1>6. CASE kernel_panic
    BY <1>1, <1>6, SMTT(30) DEF kernel_panic, pvars, PanicInv, NativeOff
<1>7. CASE nested_exception
    <2>1. UNCHANGED <<gvars, vga, font>> /\ panic'.step = "display" /\ kernel = "panic"
          /\ panic' = [step |-> panic'.step, nested |-> panic'.nested,
                       depth |-> panic'.depth, frame |-> panic'.frame]
        BY <1>7, Zenon DEF nested_exception, PanicInv
    <2> QED
        BY <1>1, <2>1 DEF gvars, PanicInv, Coloured, Readable
<1>8. ASSUME NEW from, NEW to, Step(from, to)
      PROVE  /\ panic'.step = to /\ panic.step = from /\ kernel = "panic"
             /\ panic' = [step |-> panic'.step, nested |-> panic'.nested,
                          depth |-> panic'.depth, frame |-> panic'.frame]
    BY <1>8 DEF Step, PanicInv
<1>9. CASE intel915_restore_text_display
    <2>1. /\ UNCHANGED <<fw, kernel, call, vga, font>> /\ display' = restored(display)
          /\ hdr' = [hdr EXCEPT !.cursor_enabled = hdr.stage < 5 /\ @]
        BY <1>9 DEF intel915_restore_text_display
    <2>2. HdrShape' /\ hdr'.stage = hdr.stage /\ hdr'.status = hdr.status
          /\ hdr'.present = hdr.present /\ hdr'.busy = hdr.busy
        BY <2>1 DEF DisplayInv, HdrShape
    <2>3. ASSUME hdr.stage >= 5
          PROVE  NativeOff'
        <3>1. hdr.present /\ ~(hdr.stage < 5)
            BY <2>3 DEF DisplayInv, HdrShape
        <3>5. takeover_begun
            BY <2>3, <3>1 DEF takeover_begun
        <3>2. display' = [plane |-> [p \in Pipe |-> [control |-> FALSE, on |-> FALSE,
                                                     base |-> fw.plane[p]]],
                          cursor |-> [p \in Pipe |->
                                         [NoCursor EXCEPT !.position = display.cursor[p].position,
                                                          !.shown = display.cursor[p].position]],
                          vga |-> TRUE]
            BY <2>1, <3>1, <3>5, Zenon DEF restored
        <3>3. display'.vga /\ \A p \in Pipe : ~display'.plane[p].on
            BY <3>2, Zenon
        <3>4. \A p \in Pipe : ~display'.cursor[p].on
            BY <3>2, Zenon DEF NoCursor
        <3> QED
            BY <3>3, <3>4, SMTT(30) DEF NativeOff
    <2>4. hdr.stage < 5 => UNCHANGED display
        <3>1. hdr.stage < 5 => ~takeover_begun
            BY DEF takeover_begun, DisplayInv, HdrShape
        <3> QED
            BY <2>1, <3>1, Zenon DEF restored
    <2>5. DisplayInv'
        <3>1. hdr'.stage < 5 => Untouched'
            BY <2>1, <2>2, <2>4, SMTT(30) DEF DisplayInv, Untouched
        <3>2. CallOK' /\ (\A c \in Process : Alone(c) => Alone(c)')
            BY <2>1 DEF DisplayInv, CallOK, Alone
        <3> QED
            BY <2>1, <2>2, <3>1, <3>2, SMTT(30) DEF DisplayInv
    <2>6. panic'.step = "mode" /\ kernel = "panic"
          /\ panic' = [step |-> panic'.step, nested |-> panic'.nested,
                       depth |-> panic'.depth, frame |-> panic'.frame]
        BY <1>8, <1>9, SMTT(30) DEF intel915_restore_text_display
    <2> QED
        BY <2>1, <2>2, <2>3, <2>5, <2>6 DEF PanicInv, Coloured, Readable
\* A step of the panic that changes the VGA only.
<1>17. ASSUME UNCHANGED <<gvars, font>>, kernel = "panic",
              panic' = [step |-> panic'.step, nested |-> panic'.nested,
                        depth |-> panic'.depth, frame |-> panic'.frame],
              vga' = [mode |-> vga'.mode, palette |-> vga'.palette, visible |-> vga'.visible,
                      font |-> vga'.font, text |-> vga'.text],
              panic.step # "display",
              font = "none" => vga'.font = "startup",
              panic'.step \in Coloured => LowColours(vga'.palette),
              panic'.step \in Coloured \ {"glyphs"} => vga'.mode = "text",
              panic'.step = "glyphs" => font = "startup",
              panic'.step \in Readable => vga'.font = "startup",
              panic'.step \in {"report", "trace", "halted"} => vga'.visible = TRUE,
              panic'.step \in {"trace", "halted"} => vga'.text = "report"
       PROVE  DisplayInv' /\ PanicInv'
    <2>1. DisplayInv' /\ UNCHANGED <<hdr, display, kernel, font>>
        BY <1>1, <1>17, SMTT(30) DEF gvars
    <2> QED
        BY <1>17, <2>1, Zenon DEF PanicInv, NativeOff
<1>18. vga = [mode |-> vga.mode, palette |-> vga.palette, visible |-> vga.visible,
              font |-> vga.font, text |-> vga.text]
    BY DEF PanicInv
<1>10. CASE vga_restore_text_mode
    <2>1. UNCHANGED <<gvars, font>> /\ Step("mode", "font")
        BY <1>10 DEF vga_restore_text_mode
    <2>2. vga' = [mode |-> "text", palette |-> vga_restore_palette(vga.palette), visible |-> FALSE,
                  font |-> vga.font, text |-> vga.text]
        BY <1>10, <1>18, Zenon DEF vga_restore_text_mode
    <2>3. /\ vga' = [mode |-> vga'.mode, palette |-> vga'.palette, visible |-> vga'.visible,
                     font |-> vga'.font, text |-> vga'.text]
          /\ vga'.mode = "text" /\ LowColours(vga'.palette) /\ vga'.font = vga.font
        <3>1. LowColours(vga_restore_palette(vga.palette))
            BY DEF LowColours, vga_restore_palette, Dac
        <3> QED
            BY <2>2, <3>1, Zenon
    <2>4. font = "none" => vga.font = "startup"
        BY DEF PanicInv
    <2>5. /\ panic.step = "mode" /\ panic'.step = "font" /\ kernel = "panic"
          /\ panic' = [step |-> panic'.step, nested |-> panic'.nested,
                       depth |-> panic'.depth, frame |-> panic'.frame]
        BY <1>8, <2>1
    <2> QED
        BY <1>17, <2>1, <2>3, <2>4, <2>5, Zenon DEF Readable
<1>11. CASE vga_begin_font_access
    <2>1. UNCHANGED <<gvars, font>>
        BY <1>11 DEF vga_begin_font_access
    <2>2. CASE font = "none"
        <3>0. Step("font", "unblank") /\ UNCHANGED vga
            BY <1>11, <2>2, Zenon DEF vga_begin_font_access
        <3>2. /\ panic.step = "font" /\ panic'.step = "unblank" /\ kernel = "panic"
              /\ panic' = [step |-> panic'.step, nested |-> panic'.nested,
                           depth |-> panic'.depth, frame |-> panic'.frame]
            BY <1>8, <3>0
        <3>1. vga.font = "startup" /\ LowColours(vga.palette) /\ vga.mode = "text"
            BY <2>2, <3>2, SMTT(30) DEF PanicInv, Coloured
        <3> QED
            BY <1>17, <1>18, <2>1, <2>2, <3>0, <3>1, <3>2, Zenon
    <2>3. CASE font # "none"
        <3>0. Step("font", "glyphs") /\ vga' = [vga EXCEPT !.mode = "font"]
            BY <1>11, <2>3, Zenon DEF vga_begin_font_access
        <3>3. /\ panic.step = "font" /\ panic'.step = "glyphs" /\ kernel = "panic"
              /\ panic' = [step |-> panic'.step, nested |-> panic'.nested,
                           depth |-> panic'.depth, frame |-> panic'.frame]
            BY <1>8, <3>0
        <3>1. font = "startup" /\ LowColours(vga.palette)
            BY <2>3, <3>3 DEF PanicInv, Coloured
        <3>2. /\ vga' = [mode |-> vga'.mode, palette |-> vga'.palette, visible |-> vga'.visible,
                         font |-> vga'.font, text |-> vga'.text]
              /\ vga'.palette = vga.palette
            BY <1>18, <3>0
        <3> QED
            BY <1>17, <2>1, <2>3, <3>1, <3>2, <3>3, Zenon DEF Readable
    <2> QED
        BY <2>2, <2>3
<1>12. CASE vga_restore_startup_font
    <2>1. UNCHANGED <<gvars, font>> /\ Step("glyphs", "unblank")
          /\ vga' = [vga EXCEPT !.font = font, !.mode = "text"]
        BY <1>12 DEF vga_restore_startup_font
    <2>2. font = "startup" /\ LowColours(vga.palette)
        BY <1>8, <2>1 DEF PanicInv, Coloured
    <2>3. vga' = [mode |-> "text", palette |-> vga.palette, visible |-> vga.visible,
                  font |-> "startup", text |-> vga.text]
        BY <1>18, <2>1, <2>2, Zenon
    <2>4. /\ vga' = [mode |-> vga'.mode, palette |-> vga'.palette, visible |-> vga'.visible,
                     font |-> vga'.font, text |-> vga'.text]
          /\ vga'.mode = "text" /\ vga'.palette = vga.palette /\ vga'.font = "startup"
        BY <2>3
    <2>5. /\ panic.step = "glyphs" /\ panic'.step = "unblank" /\ kernel = "panic"
          /\ panic' = [step |-> panic'.step, nested |-> panic'.nested,
                       depth |-> panic'.depth, frame |-> panic'.frame]
        BY <1>8, <2>1
    <2> QED
        BY <1>17, <2>1, <2>2, <2>4, <2>5, Zenon
<1>13. CASE unblank
    <2>1. UNCHANGED <<gvars, font>> /\ Step("unblank", "report")
          /\ vga' = [vga EXCEPT !.visible = TRUE]
        BY <1>13 DEF unblank
    <2>2. vga.font = "startup" /\ LowColours(vga.palette) /\ vga.mode = "text"
        BY <1>8, <2>1 DEF PanicInv, Coloured, Readable
    <2>3. /\ vga' = [mode |-> vga'.mode, palette |-> vga'.palette, visible |-> vga'.visible,
                     font |-> vga'.font, text |-> vga'.text]
          /\ vga'.mode = vga.mode /\ vga'.palette = vga.palette /\ vga'.font = vga.font
          /\ vga'.visible = TRUE
        BY <1>18, <2>1, Zenon
    <2>4. /\ panic.step = "unblank" /\ panic'.step = "report" /\ kernel = "panic"
          /\ panic' = [step |-> panic'.step, nested |-> panic'.nested,
                       depth |-> panic'.depth, frame |-> panic'.frame]
        BY <1>8, <2>1
    <2> QED
        BY <1>17, <2>1, <2>2, <2>3, <2>4, Zenon
<1>14. CASE panic_put_text
    <2>1. UNCHANGED <<gvars, font>> /\ Step("report", "trace")
        BY <1>14 DEF panic_put_text
    <2>2. vga' = [vga EXCEPT !.text = "report"]
        BY <1>8, <1>14, <2>1, SMTT(30) DEF panic_put_text, panic_put_character, PanicInv, Coloured
    <2> QED
        BY <1>1, <1>8, <2>1, <2>2 DEF gvars, PanicInv, NativeOff, Coloured, Readable
<1>15. CASE panic_put_backtrace
    <2>1. UNCHANGED <<gvars, vga, font>> /\ kernel = "panic" /\ panic'.step = panic.step
          /\ panic' = [step |-> panic'.step, nested |-> panic'.nested,
                       depth |-> panic'.depth, frame |-> panic'.frame]
        BY <1>15, Zenon DEF panic_put_backtrace, PanicInv
    <2> QED
        BY <1>1, <2>1, Zenon DEF gvars, PanicInv, NativeOff
<1>16. CASE halt
    <2>1. UNCHANGED <<gvars, vga, font>> /\ Step("trace", "halted")
        BY <1>16 DEF halt
    <2> QED
        BY <1>1, <1>8, <2>1 DEF gvars, PanicInv, NativeOff, Coloured, Readable
<1> QED
    BY <1>2, <1>3, <1>4, <1>5, <1>6, <1>7, <1>9, <1>10, <1>11, <1>12, <1>13, <1>14, <1>15,
       <1>16, SMTT(30)
    DEF Next, panicking

\* The colours that are shown through the first 16 entries of the DAC.
LEMMA LowIsShown ==
    ASSUME LowColours(vga.palette), NEW colour \in 0 .. 5 \cup {7}
    PROVE  shown_colour(vga, colour) = colour
<1>1. mode3_attribute(colour) = colour
    BY DEF mode3_attribute
<1>2. colour \in 0 .. 15
    OBVIOUS
<1> QED
    BY <1>1, <1>2, Zenon DEF shown_colour, LowColours

\* A panic always ends with its report on a text screen of mode 3 with the
\* startup font, the native display off if it was on, and the colours below 8
\* but brown as they should be, wherever in the takeover it comes and whatever
\* VM86 programs did to the VGA.
THEOREM PanicAlwaysReturns == Spec => []PanicReturnsToText
<1>1. Init => DisplayInv /\ PanicInv
    BY DisplayInit, PanicInit
<1>2. (DisplayInv /\ PanicInv) /\ [Next]_vars => (DisplayInv /\ PanicInv)'
    BY PanicStep
<1>3. DisplayInv /\ PanicInv => PanicReturnsToText
    <2> SUFFICES ASSUME DisplayInv, PanicInv, panic.step = "halted"
                 PROVE  PanicReturnsToText
        BY Zenon DEF PanicReturnsToText
    <2>1. /\ vga.mode = "text" /\ vga.visible /\ vga.font = "startup" /\ vga.text = "report"
          /\ LowColours(vga.palette)
        BY Zenon DEF PanicInv, Coloured, Readable
    <2>2. \A colour \in 0 .. 5 \cup {7} : shown_colour(vga, colour) = colour
        BY <2>1, LowIsShown, Zenon
    <2>3. hdr.stage >= 5 => NativeOff
        BY Zenon DEF PanicInv
    <2>4. hdr.stage < 5 => Untouched
        BY Zenon DEF DisplayInv
    <2> QED
        BY <2>1, <2>2, <2>3, <2>4, Zenon DEF PanicReturnsToText, Untouched, NativeOff
<1> QED
    BY <1>1, <1>2, <1>3, PTL DEF Spec

-----------------------------------------------------------------------------
(* The registers of the display.                                           *)

\* The registers of a plane and of a cursor, and of both pipes.
PlaneRec(c, o, b) == [control |-> c, on |-> o, base |-> b]
CursorRec(c, o, a, s) == [control |-> c, on |-> o, position |-> a, shown |-> s]

Shape(d) ==
    /\ d = [plane |-> d.plane, cursor |-> d.cursor, vga |-> d.vga]
    /\ d.plane = [p \in Pipe |-> d.plane[p]] /\ d.cursor = [p \in Pipe |-> d.cursor[p]]
    /\ \A p \in Pipe : \E c, o, b : d.plane[p] = PlaneRec(c, o, b)
    /\ \A p \in Pipe : \E c, o, a, s : d.cursor[p] = CursorRec(c, o, a, s)

\* e is d with another plane, or cursor, on pipe p.
PlaneTo(d, p, r, e) == e = [d EXCEPT !.plane = [d.plane EXCEPT ![p] = r]]
CursorTo(d, p, r, e) == e = [d EXCEPT !.cursor = [d.cursor EXCEPT ![p] = r]]

\* A plane that is set changes nothing else.
LEMMA PlaneSet ==
    ASSUME NEW d, Shape(d), NEW p \in Pipe, NEW c, NEW o, NEW b, NEW e,
           PlaneTo(d, p, PlaneRec(c, o, b), e)
    PROVE  /\ Shape(e) /\ e.plane[p] = PlaneRec(c, o, b)
           /\ e.cursor = d.cursor /\ e.vga = d.vga
           /\ \A q \in Pipe : q # p => e.plane[q] = d.plane[q]
<1>1. e = [plane |-> [d.plane EXCEPT ![p] = PlaneRec(c, o, b)], cursor |-> d.cursor, vga |-> d.vga]
    BY Zenon DEF Shape, PlaneTo
<1>2. /\ e.plane = [d.plane EXCEPT ![p] = PlaneRec(c, o, b)] /\ e.cursor = d.cursor /\ e.vga = d.vga
    BY <1>1
<1>3. /\ e.plane = [q \in Pipe |-> e.plane[q]] /\ e.plane[p] = PlaneRec(c, o, b)
      /\ \A q \in Pipe : q # p => e.plane[q] = d.plane[q]
    BY <1>2, Zenon DEF Shape
<1>4. ASSUME NEW q \in Pipe PROVE \E cc, oo, bb : e.plane[q] = PlaneRec(cc, oo, bb)
    <2>1. CASE q = p
        BY <1>3, <2>1
    <2>2. CASE q # p
        <3>1. e.plane[q] = d.plane[q]
            BY <1>3, <2>2, Zenon
        <3>2. \E cc, oo, bb : d.plane[q] = PlaneRec(cc, oo, bb)
            BY Zenon DEF Shape
        <3> QED
            BY <3>1, <3>2, Zenon
    <2> QED
        BY <2>1, <2>2, Zenon
<1>5. Shape(e)
    BY <1>1, <1>2, <1>3, <1>4 DEF Shape
<1> QED
    BY <1>2, <1>3, <1>5, Zenon

\* Nor does a cursor.
LEMMA CursorSet ==
    ASSUME NEW d, Shape(d), NEW p \in Pipe, NEW c, NEW o, NEW a, NEW s, NEW e,
           CursorTo(d, p, CursorRec(c, o, a, s), e)
    PROVE  /\ Shape(e) /\ e.cursor[p] = CursorRec(c, o, a, s)
           /\ e.plane = d.plane /\ e.vga = d.vga
           /\ \A q \in Pipe : q # p => e.cursor[q] = d.cursor[q]
<1>1. e = [plane |-> d.plane, cursor |-> [d.cursor EXCEPT ![p] = CursorRec(c, o, a, s)],
           vga |-> d.vga]
    BY Zenon DEF Shape, CursorTo
<1>2. /\ e.cursor = [d.cursor EXCEPT ![p] = CursorRec(c, o, a, s)]
      /\ e.plane = d.plane /\ e.vga = d.vga
    BY <1>1
<1>3. /\ e.cursor = [q \in Pipe |-> e.cursor[q]] /\ e.cursor[p] = CursorRec(c, o, a, s)
      /\ \A q \in Pipe : q # p => e.cursor[q] = d.cursor[q]
    BY <1>2, Zenon DEF Shape
<1>4. ASSUME NEW q \in Pipe PROVE \E cc, oo, aa, ss : e.cursor[q] = CursorRec(cc, oo, aa, ss)
    <2>1. CASE q = p
        BY <1>3, <2>1
    <2>2. CASE q # p
        <3>1. e.cursor[q] = d.cursor[q]
            BY <1>3, <2>2, Zenon
        <3>2. \E cc, oo, aa, ss : d.cursor[q] = CursorRec(cc, oo, aa, ss)
            BY Zenon DEF Shape
        <3> QED
            BY <3>1, <3>2, Zenon
    <2> QED
        BY <2>1, <2>2, Zenon
<1>5. Shape(e)
    BY <1>1, <1>2, <1>3, <1>4 DEF Shape
<1> QED
    BY <1>2, <1>3, <1>5

\* What each write does: a control value waits for the base.
LEMMA ControlWrite ==
    ASSUME NEW d, Shape(d), NEW p \in Pipe, NEW v, NEW e,
           e = write_register(d, Write("control", p, v))
    PROVE  /\ Shape(e) /\ e.plane[p].control = v
           /\ e.cursor = d.cursor /\ e.vga = d.vga
<1>1. PICK c, o, b : d.plane[p] = PlaneRec(c, o, b)
    BY DEF Shape
<1>2. /\ Write("control", p, v).reg = "control" /\ Write("control", p, v).pipe = p
      /\ Write("control", p, v).value = v
    BY DEF Write
<1>3. e = [d EXCEPT !.plane[p].control = v]
    BY <1>2, Zenon DEF write_register
<1>4. e = [d EXCEPT !.plane = [d.plane EXCEPT ![p] = [d.plane[p] EXCEPT !.control = v]]]
    BY <1>3, Zenon
<1>5. [d.plane[p] EXCEPT !.control = v] = PlaneRec(v, o, b)
    BY <1>1 DEF PlaneRec
<1>6. PlaneTo(d, p, PlaneRec(v, o, b), e)
    BY <1>4, <1>5, Zenon DEF PlaneTo
<1>7. /\ Shape(e) /\ e.plane[p] = PlaneRec(v, o, b) /\ e.cursor = d.cursor /\ e.vga = d.vga
      /\ \A q \in Pipe : q # p => e.plane[q] = d.plane[q]
    BY <1>6, PlaneSet
<1> QED
    BY <1>7 DEF PlaneRec

\* The base arms the plane.
LEMMA BaseWrite ==
    ASSUME NEW d, Shape(d), NEW p \in Pipe, NEW v, NEW e,
           e = write_register(d, Write("base", p, v))
    PROVE  /\ Shape(e) /\ e.plane[p].control = d.plane[p].control
           /\ e.plane[p].on = d.plane[p].control /\ e.plane[p].base = v
           /\ e.cursor = d.cursor /\ e.vga = d.vga
<1>1. PICK c, o, b : d.plane[p] = PlaneRec(c, o, b)
    BY DEF Shape
<1>2. /\ Write("base", p, v).reg = "base" /\ Write("base", p, v).pipe = p
      /\ Write("base", p, v).value = v
    BY DEF Write
<1>3. e = [d EXCEPT !.plane[p] = [d.plane[p] EXCEPT !.on = d.plane[p].control, !.base = v]]
    BY <1>2, Zenon DEF write_register
<1>4. PICK r : r = [d.plane[p] EXCEPT !.on = d.plane[p].control, !.base = v]
    BY Zenon
<1>5. r = PlaneRec(c, c, v)
    <2>1. PICK old : old = d.plane[p]
        BY Zenon
    <2>2. r = [old EXCEPT !.on = old.control, !.base = v]
        BY <1>4, <2>1, Zenon
    <2>3. old = PlaneRec(c, o, b)
        BY <1>1, <2>1, Zenon
    <2>4. old.control = c
        BY <2>3 DEF PlaneRec
    <2>5. r = [old EXCEPT !.on = c, !.base = v]
        BY <2>2, <2>4, Zenon
    <2> QED
        BY <2>3, <2>5, Zenon DEF PlaneRec
<1>6. PICK k : k = c
    OBVIOUS
<1>7. PlaneTo(d, p, PlaneRec(c, k, v), e)
    BY <1>3, <1>4, <1>5, <1>6, Zenon DEF PlaneTo
<1>8. /\ Shape(e) /\ e.plane[p] = PlaneRec(c, k, v) /\ e.cursor = d.cursor /\ e.vga = d.vga
    BY <1>7, PlaneSet
<1> QED
    BY <1>1, <1>6, <1>8 DEF PlaneRec

\* The VGA plane is off at once.
LEMMA VgaWrite ==
    ASSUME NEW d, Shape(d), NEW p \in Pipe, NEW v, NEW e,
           e = write_register(d, Write("vga", p, v))
    PROVE  /\ Shape(e) /\ e.vga = v /\ e.plane = d.plane /\ e.cursor = d.cursor
<1>2. /\ Write("vga", p, v).reg = "vga" /\ Write("vga", p, v).pipe = p
      /\ Write("vga", p, v).value = v
    BY DEF Write
<1>3. e = [d EXCEPT !.vga = v]
    BY <1>2, Zenon DEF write_register
<1>4. e = [plane |-> d.plane, cursor |-> d.cursor, vga |-> v]
    BY <1>3, Zenon DEF Shape
<1> QED
    BY <1>4 DEF Shape

\* The control value and the position of a cursor wait for its base.
LEMMA CursorControlWrite ==
    ASSUME NEW d, Shape(d), NEW p \in Pipe, NEW v, NEW e,
           e = write_register(d, Write("cursor_control", p, v))
    PROVE  /\ Shape(e) /\ e.plane = d.plane /\ e.vga = d.vga
           /\ e.cursor[p].control = v /\ e.cursor[p].on = d.cursor[p].on
           /\ e.cursor[p].position = d.cursor[p].position
           /\ \A q \in Pipe : q # p => e.cursor[q] = d.cursor[q]
<1>1. PICK c, o, a, s : d.cursor[p] = CursorRec(c, o, a, s)
    BY DEF Shape
<1>2. /\ Write("cursor_control", p, v).reg = "cursor_control"
      /\ Write("cursor_control", p, v).pipe = p
      /\ Write("cursor_control", p, v).value = v
    BY DEF Write
<1>3. e = [d EXCEPT !.cursor[p].control = v]
    BY <1>2, Zenon DEF write_register
<1>4. e = [d EXCEPT !.cursor = [d.cursor EXCEPT ![p] = [d.cursor[p] EXCEPT !.control = v]]]
    BY <1>3, Zenon
<1>5. [d.cursor[p] EXCEPT !.control = v] = CursorRec(v, o, a, s)
    BY <1>1 DEF CursorRec
<1>6. CursorTo(d, p, CursorRec(v, o, a, s), e)
    BY <1>4, <1>5, Zenon DEF CursorTo
<1>7. /\ Shape(e) /\ e.cursor[p] = CursorRec(v, o, a, s) /\ e.plane = d.plane /\ e.vga = d.vga
      /\ \A q \in Pipe : q # p => e.cursor[q] = d.cursor[q]
    BY <1>6, CursorSet
<1> QED
    BY <1>1, <1>7 DEF CursorRec

\* The position is not shown yet.
LEMMA CursorPositionWrite ==
    ASSUME NEW d, Shape(d), NEW p \in Pipe, NEW v, NEW e,
           e = write_register(d, Write("cursor_position", p, v))
    PROVE  /\ Shape(e) /\ e.plane = d.plane /\ e.vga = d.vga
           /\ e.cursor[p].control = d.cursor[p].control /\ e.cursor[p].on = d.cursor[p].on
           /\ e.cursor[p].position = v
           /\ \A q \in Pipe : q # p => e.cursor[q] = d.cursor[q]
<1>1. PICK c, o, a, s : d.cursor[p] = CursorRec(c, o, a, s)
    BY DEF Shape
<1>2. /\ Write("cursor_position", p, v).reg = "cursor_position"
      /\ Write("cursor_position", p, v).pipe = p
      /\ Write("cursor_position", p, v).value = v
    BY DEF Write
<1>3. e = [d EXCEPT !.cursor[p].position = v]
    BY <1>2, Zenon DEF write_register
<1>4. e = [d EXCEPT !.cursor = [d.cursor EXCEPT ![p] = [d.cursor[p] EXCEPT !.position = v]]]
    BY <1>3, Zenon
<1>5. [d.cursor[p] EXCEPT !.position = v] = CursorRec(c, o, v, s)
    BY <1>1 DEF CursorRec
<1>6. CursorTo(d, p, CursorRec(c, o, v, s), e)
    BY <1>4, <1>5, Zenon DEF CursorTo
<1>7. /\ Shape(e) /\ e.cursor[p] = CursorRec(c, o, v, s) /\ e.plane = d.plane /\ e.vga = d.vga
      /\ \A q \in Pipe : q # p => e.cursor[q] = d.cursor[q]
    BY <1>6, CursorSet
<1> QED
    BY <1>1, <1>7 DEF CursorRec

\* The base arms both.
LEMMA CursorBaseWrite ==
    ASSUME NEW d, Shape(d), NEW p \in Pipe, NEW v, NEW e,
           e = write_register(d, Write("cursor_base", p, v))
    PROVE  /\ Shape(e) /\ e.plane = d.plane /\ e.vga = d.vga
           /\ e.cursor[p].control = d.cursor[p].control /\ e.cursor[p].on = d.cursor[p].control
           /\ e.cursor[p].position = d.cursor[p].position
           /\ e.cursor[p].shown = d.cursor[p].position
           /\ \A q \in Pipe : q # p => e.cursor[q] = d.cursor[q]
<1>1. PICK c, o, a, s : d.cursor[p] = CursorRec(c, o, a, s)
    BY DEF Shape
<1>2. /\ Write("cursor_base", p, v).reg = "cursor_base" /\ Write("cursor_base", p, v).pipe = p
      /\ Write("cursor_base", p, v).value = v
    BY DEF Write
<1>3. e = [d EXCEPT !.cursor[p] = [d.cursor[p] EXCEPT !.on = d.cursor[p].control,
                                                  !.shown = d.cursor[p].position]]
    BY <1>2, Zenon DEF write_register
<1>4. PICK r : r = [d.cursor[p] EXCEPT !.on = d.cursor[p].control, !.shown = d.cursor[p].position]
    BY Zenon
<1>5. r = CursorRec(c, c, a, a)
    <2>1. PICK old : old = d.cursor[p]
        BY Zenon
    <2>2. r = [old EXCEPT !.on = old.control, !.shown = old.position]
        BY <1>4, <2>1, Zenon
    <2>3. old = CursorRec(c, o, a, s)
        BY <1>1, <2>1, Zenon
    <2>4. old.control = c /\ old.position = a
        BY <2>3 DEF CursorRec
    <2>5. r = [old EXCEPT !.on = c, !.shown = a]
        BY <2>2, <2>4, Zenon
    <2> QED
        BY <2>3, <2>5, Zenon DEF CursorRec
<1>6. PICK k, t : k = c /\ t = a
    OBVIOUS
<1>7. CursorTo(d, p, CursorRec(c, k, a, t), e)
    BY <1>3, <1>4, <1>5, <1>6, Zenon DEF CursorTo
<1>8. /\ Shape(e) /\ e.cursor[p] = CursorRec(c, k, a, t) /\ e.plane = d.plane /\ e.vga = d.vga
      /\ \A q \in Pipe : q # p => e.cursor[q] = d.cursor[q]
    BY <1>7, CursorSet
<1> QED
    BY <1>1, <1>6, <1>8 DEF CursorRec

\* The timer arms position and control in one step.
LEMMA ShowEffect ==
    ASSUME NEW d, Shape(d), NEW p \in Pipe, NEW v, NEW e, e = show(d, p, v)
    PROVE  /\ Shape(e) /\ e.plane = d.plane /\ e.vga = d.vga
           /\ e.cursor[p].control = d.cursor[p].control /\ e.cursor[p].on = d.cursor[p].control
           /\ e.cursor[p].shown = v
           /\ \A q \in Pipe : q # p => e.cursor[q] = d.cursor[q]
<1>1. PICK c, o, b, s : d.cursor[p] = CursorRec(c, o, b, s)
    BY DEF Shape
<1>3. e = [d EXCEPT !.cursor[p] = [d.cursor[p] EXCEPT !.position = v, !.shown = v,
                                                  !.on = d.cursor[p].control]]
    BY Zenon DEF show
<1>4. PICK r : r = [d.cursor[p] EXCEPT !.position = v, !.shown = v, !.on = d.cursor[p].control]
    BY Zenon
<1>5. r = CursorRec(c, c, v, v)
    <2>1. PICK old : old = d.cursor[p]
        BY Zenon
    <2>2. r = [old EXCEPT !.position = v, !.shown = v, !.on = old.control]
        BY <1>4, <2>1, Zenon
    <2>3. old = CursorRec(c, o, b, s)
        BY <1>1, <2>1, Zenon
    <2>4. old.control = c
        BY <2>3 DEF CursorRec
    <2>5. r = [old EXCEPT !.position = v, !.shown = v, !.on = c]
        BY <2>2, <2>4, Zenon
    <2> QED
        BY <2>3, <2>5, Zenon DEF CursorRec
<1>6. PICK k, a, t : k = c /\ a = v /\ t = v
    OBVIOUS
<1>7. CursorTo(d, p, CursorRec(c, k, a, t), e)
    BY <1>3, <1>4, <1>5, <1>6, Zenon DEF CursorTo
<1>8. /\ Shape(e) /\ e.cursor[p] = CursorRec(c, k, a, t) /\ e.plane = d.plane /\ e.vga = d.vga
      /\ \A q \in Pipe : q # p => e.cursor[q] = d.cursor[q]
    BY <1>7, CursorSet, SMTT(30)
<1> QED
    BY <1>1, <1>6, <1>8 DEF CursorRec

\* What the first k - 1 writes have achieved: first the native plane, then VGA.
PlaneProgress(k, p, d) ==
    /\ k > 5 => d.plane[p].control = TRUE
    /\ k > 6 => d.plane[p].on = TRUE /\ d.plane[p].base = "window"
    /\ k > 7 => d.vga = FALSE

\* The cursor of the other pipe goes dark.
OtherProgress(k, p, d) ==
    \A q \in Pipe : q # p =>
        /\ k > 8 + 2 * q => d.cursor[q].control = FALSE
        /\ k > 9 + 2 * q => d.cursor[q].on = FALSE

\* The desktop's cursor is placed and switched on.
CursorProgress(k, p, d, at) ==
    /\ k > 13 => d.cursor[p].control = TRUE
    /\ k > 14 => d.cursor[p].position = Centre(fw) /\ at = Centre(fw)
    /\ k > 15 => d.cursor[p].on = TRUE /\ d.cursor[p].shown = Centre(fw)

\* The takeover as far as its first k - 1 writes have brought it.
Progress(k, p, d, at) ==
    PlaneProgress(k, p, d) /\ OtherProgress(k, p, d) /\ CursorProgress(k, p, d, at)

\* After the last write the other cursor is off.
LEMMA OtherIsDark ==
    ASSUME NEW p \in Pipe, NEW d, OtherProgress(16, p, d)
    PROVE  \A q \in Pipe : q # p => d.cursor[q].on = FALSE
<1>1. \A q \in Pipe : 16 > 9 + 2 * q
    BY DEF Pipe
<1> QED
    BY <1>1, Zenon DEF OtherProgress

\* The fifteen writes, one by one.
LEMMA ProgramWrites ==
    ASSUME NEW p \in Pipe
    PROVE  /\ Len(program(p, fw)) = 15
           /\ program(p, fw)[1] = Write("control", 0, FALSE)
           /\ program(p, fw)[2] = Write("base", 0, fw.plane[0])
           /\ program(p, fw)[3] = Write("control", 1, FALSE)
           /\ program(p, fw)[4] = Write("base", 1, fw.plane[1])
           /\ program(p, fw)[5] = Write("control", p, TRUE)
           /\ program(p, fw)[6] = Write("base", p, "window")
           /\ program(p, fw)[7] = Write("vga", p, FALSE)
           /\ program(p, fw)[8] = Write("cursor_control", 0, FALSE)
           /\ program(p, fw)[9] = Write("cursor_base", 0, 0)
           /\ program(p, fw)[10] = Write("cursor_control", 1, FALSE)
           /\ program(p, fw)[11] = Write("cursor_base", 1, 0)
           /\ program(p, fw)[12] = Write("cursor_base", p, 0)
           /\ program(p, fw)[13] = Write("cursor_control", p, TRUE)
           /\ program(p, fw)[14] = Write("cursor_position", p, Centre(fw))
           /\ program(p, fw)[15] = Write("cursor_base", p, 0)
  BY Zenon DEF program

\* One write takes the display one step further.
LEMMA ProgressStep ==
    ASSUME NEW p \in Pipe, NEW k \in 1 .. 15, NEW d, Shape(d), NEW at, Progress(k, p, d, at), NEW e,
           e = write_register(d, program(p, fw)[k]), NEW to,
           to = IF program(p, fw)[k].reg = "cursor_position" THEN Centre(fw) ELSE at
    PROVE  Shape(e) /\ Progress(k + 1, p, e, to)
<1>0. 0 \in Pipe /\ 1 \in Pipe /\ p \in {0, 1} /\ Pipe = {0, 1}
    BY DEF Pipe
<1>1. PICK no, yes : no = FALSE /\ yes = TRUE
    BY Zenon
<1>v. 0 # 1
    OBVIOUS
<1>p. PlaneProgress(k, p, d) /\ OtherProgress(k, p, d) /\ CursorProgress(k, p, d, at)
    BY Zenon DEF Progress
\* What is not due yet, and what stays once it is in place.
<1>q. k <= 4 => PlaneProgress(k + 1, p, e)
    BY SMTT(30) DEF PlaneProgress
<1>r. k >= 8 /\ e.plane = d.plane /\ e.vga = d.vga => PlaneProgress(k + 1, p, e)
    BY <1>p, SMTT(30) DEF PlaneProgress
<1>s. k <= 7 => OtherProgress(k + 1, p, e)
    BY <1>0, SMTT(30) DEF OtherProgress
<1>t. k >= 12 /\ (\A r \in Pipe : r # p => e.cursor[r] = d.cursor[r]) => OtherProgress(k + 1, p, e)
    BY <1>0, <1>p, SMTT(30) DEF OtherProgress
<1>u. k <= 12 => CursorProgress(k + 1, p, e, to)
    BY SMTT(30) DEF CursorProgress
<1>2. k = 15 => to = at
    <2>1. Write("cursor_base", p, 0).reg = "cursor_base"
        BY SMTT(30) DEF Write
    <2> QED
        BY <2>1, ProgramWrites, Zenon
<1>3. CASE k \in 1 .. 4
    <2>1. \E q \in Pipe : \E v : \/ e = write_register(d, Write("control", q, v))
                                \/ e = write_register(d, Write("base", q, v))
        <3>1. k = 1 \/ k = 2 \/ k = 3 \/ k = 4
            BY <1>3
        <3>2. /\ program(p, fw)[1] = Write("control", 0, FALSE)
              /\ program(p, fw)[2] = Write("base", 0, fw.plane[0])
              /\ program(p, fw)[3] = Write("control", 1, FALSE)
              /\ program(p, fw)[4] = Write("base", 1, fw.plane[1])
            BY ProgramWrites, Zenon
        <3> QED
            BY <1>0, <3>1, <3>2, Zenon
    <2>2. Shape(e)
        BY <2>1, ControlWrite, BaseWrite
    <2>3. k <= 4 /\ k <= 7 /\ k <= 12
        BY <1>3
    <2> QED
        BY <2>2, <2>3, <1>q, <1>s, <1>u, Zenon DEF Progress
<1>4. CASE k = 5
    <2>1. e = write_register(d, Write("control", p, yes))
        BY <1>1, <1>4, ProgramWrites, Zenon
    <2>2. Shape(e) /\ e.plane[p].control = yes
        BY <2>1, ControlWrite
    <2>3. e.plane[p].control = TRUE
        BY <1>1, <2>2, Zenon
    <2>4. PlaneProgress(k + 1, p, e) /\ k <= 7 /\ k <= 12
        BY <1>4, <2>3, SMTT(30) DEF PlaneProgress
    <2> QED
        BY <2>2, <2>4, <1>s, <1>u, Zenon DEF Progress
<1>5. CASE k = 6
    <2>1. e = write_register(d, Write("base", p, "window"))
        BY <1>5, ProgramWrites, Zenon
    <2>2. /\ Shape(e) /\ e.plane[p].control = d.plane[p].control
          /\ e.plane[p].on = d.plane[p].control /\ e.plane[p].base = "window"
        BY <2>1, BaseWrite, SMTT(30)
    <2>3. d.plane[p].control = TRUE
        BY <1>5, <1>p, SMTT(30) DEF PlaneProgress
    <2>4. e.plane[p].control = TRUE /\ e.plane[p].on = TRUE
        BY <2>2, <2>3, Zenon
    <2>5. PlaneProgress(k + 1, p, e) /\ k <= 7 /\ k <= 12
        BY <1>5, <2>2, <2>4, SMTT(60) DEF PlaneProgress
    <2> QED
        BY <2>2, <2>5, <1>s, <1>u, Zenon DEF Progress
<1>6. CASE k = 7
    <2>1. e = write_register(d, Write("vga", p, no))
        BY <1>1, <1>6, ProgramWrites, Zenon
    <2>2. Shape(e) /\ e.vga = no /\ e.plane = d.plane
        BY <2>1, VgaWrite, SMTT(30)
    <2>3. d.plane[p].control = TRUE /\ d.plane[p].on = TRUE /\ d.plane[p].base = "window"
        BY <1>6, <1>p, SMTT(30) DEF PlaneProgress
    <2>4. /\ e.plane[p].control = TRUE /\ e.plane[p].on = TRUE /\ e.plane[p].base = "window"
          /\ e.vga = FALSE
        BY <1>1, <2>2, <2>3, Zenon
    <2>5. PlaneProgress(k + 1, p, e)
        BY <2>4, Zenon DEF PlaneProgress
    <2>6. k <= 7 /\ k <= 12
        BY <1>6
    <2> QED
        BY <2>2, <2>5, <2>6, <1>s, <1>u, Zenon DEF Progress
\* The cursors.
<1>7. ASSUME NEW q \in Pipe, e = write_register(d, Write("cursor_control", q, no))
      PROVE  /\ Shape(e) /\ e.plane = d.plane /\ e.vga = d.vga
             /\ e.cursor[q].control = no /\ e.cursor[q].on = d.cursor[q].on
             /\ \A r \in Pipe : r # q => e.cursor[r] = d.cursor[r]
    BY <1>7, CursorControlWrite, SMTT(60)
<1>8. ASSUME NEW q \in Pipe, e = write_register(d, Write("cursor_base", q, 0))
      PROVE  /\ Shape(e) /\ e.plane = d.plane /\ e.vga = d.vga
             /\ e.cursor[q].control = d.cursor[q].control /\ e.cursor[q].on = d.cursor[q].control
             /\ e.cursor[q].position = d.cursor[q].position
             /\ e.cursor[q].shown = d.cursor[q].position
             /\ \A r \in Pipe : r # q => e.cursor[r] = d.cursor[r]
    BY <1>8, CursorBaseWrite, SMTT(60)
<1>9. CASE k = 8
    <2>1. e = write_register(d, Write("cursor_control", 0, no))
        BY <1>1, <1>9, ProgramWrites, Zenon
    <2>2. /\ Shape(e) /\ e.plane = d.plane /\ e.vga = d.vga /\ e.cursor[0].control = FALSE
          /\ e.cursor[1] = d.cursor[1]
        BY <1>0, <1>1, <1>7, <1>v, <2>1, Zenon
    <2>3. OtherProgress(k + 1, p, e)
        <3>1. ~(k + 1 > 9 + 2 * 0) /\ ~(k + 1 > 8 + 2 * 1) /\ ~(k + 1 > 9 + 2 * 1)
            BY <1>9
        <3> QED
            BY <1>0, <2>2, <3>1, Zenon DEF OtherProgress
    <2>4. k >= 8 /\ k <= 12
        BY <1>9
    <2> QED
        BY <2>2, <2>3, <2>4, <1>r, <1>u, Zenon DEF Progress
<1>10. CASE k = 9
    <2>1. e = write_register(d, Write("cursor_base", 0, 0))
        BY <1>10, ProgramWrites, Zenon
    <2>2. /\ Shape(e) /\ e.plane = d.plane /\ e.vga = d.vga
          /\ e.cursor[0].control = d.cursor[0].control /\ e.cursor[0].on = d.cursor[0].control
          /\ e.cursor[1] = d.cursor[1]
        BY <1>0, <1>8, <1>v, <2>1, Zenon
    <2>3. OtherProgress(k + 1, p, e)
        BY <1>0, <1>p, <1>10, <2>2, SMTT(30) DEF OtherProgress
    <2>4. k >= 8 /\ k <= 12
        BY <1>10
    <2> QED
        BY <2>2, <2>3, <2>4, <1>r, <1>u, Zenon DEF Progress
<1>11. CASE k = 10
    <2>1. e = write_register(d, Write("cursor_control", 1, no))
        BY <1>1, <1>11, ProgramWrites, Zenon
    <2>2. /\ Shape(e) /\ e.plane = d.plane /\ e.vga = d.vga /\ e.cursor[1].control = FALSE
          /\ e.cursor[0] = d.cursor[0]
        BY <1>0, <1>1, <1>7, <1>v, <2>1, Zenon
    <2>3. OtherProgress(k + 1, p, e)
        BY <1>0, <1>p, <1>11, <2>2, SMTT(30) DEF OtherProgress
    <2>4. k >= 8 /\ k <= 12
        BY <1>11
    <2> QED
        BY <2>2, <2>3, <2>4, <1>r, <1>u, Zenon DEF Progress
<1>12. CASE k = 11
    <2>1. e = write_register(d, Write("cursor_base", 1, 0))
        BY <1>12, ProgramWrites, Zenon
    <2>2. /\ Shape(e) /\ e.plane = d.plane /\ e.vga = d.vga
          /\ e.cursor[1].control = d.cursor[1].control /\ e.cursor[1].on = d.cursor[1].control
          /\ e.cursor[0] = d.cursor[0]
        BY <1>0, <1>8, <1>v, <2>1, Zenon
    <2>3. OtherProgress(k + 1, p, e)
        BY <1>0, <1>p, <1>12, <2>2, SMTT(30) DEF OtherProgress
    <2>4. k >= 8 /\ k <= 12
        BY <1>12
    <2> QED
        BY <2>2, <2>3, <2>4, <1>r, <1>u, Zenon DEF Progress
<1>13. CASE k = 12
    <2>1. e = write_register(d, Write("cursor_base", p, 0))
        BY <1>13, ProgramWrites, Zenon
    <2>2. /\ Shape(e) /\ e.plane = d.plane /\ e.vga = d.vga
          /\ \A r \in Pipe : r # p => e.cursor[r] = d.cursor[r]
        BY <1>8, <2>1, Zenon
    <2>3. k >= 8 /\ k >= 12 /\ k <= 12
        BY <1>13
    <2> QED
        BY <2>2, <2>3, <1>r, <1>t, <1>u, Zenon DEF Progress
<1>14. CASE k = 13
    <2>1. e = write_register(d, Write("cursor_control", p, yes))
        BY <1>1, <1>14, ProgramWrites, Zenon
    <2>2. /\ Shape(e) /\ e.plane = d.plane /\ e.vga = d.vga /\ e.cursor[p].control = yes
          /\ \A r \in Pipe : r # p => e.cursor[r] = d.cursor[r]
        BY <2>1, CursorControlWrite
    <2>3. e.cursor[p].control = TRUE
        BY <1>1, <2>2, Zenon
    <2>4. k >= 8 /\ k >= 12 /\ ~(k + 1 > 14) /\ ~(k + 1 > 15)
        BY <1>14
    <2>5. CursorProgress(k + 1, p, e, to)
        BY <2>3, <2>4, Zenon DEF CursorProgress
    <2> QED
        BY <2>2, <2>4, <2>5, <1>r, <1>t, Zenon DEF Progress
<1>15. CASE k = 14
    <2>0. PICK centre : centre = Centre(fw)
        BY Zenon
    <2>1. e = write_register(d, Write("cursor_position", p, centre)) /\ to = centre
        <3>1. Write("cursor_position", p, Centre(fw)).reg = "cursor_position"
            BY Zenon DEF Write
        <3> QED
            BY <1>15, <2>0, <3>1, ProgramWrites, Zenon
    <2>2. /\ Shape(e) /\ e.plane = d.plane /\ e.vga = d.vga
          /\ e.cursor[p].control = d.cursor[p].control /\ e.cursor[p].position = centre
          /\ \A r \in Pipe : r # p => e.cursor[r] = d.cursor[r]
        BY <2>1, CursorPositionWrite, SMTT(30)
    <2>3. d.cursor[p].control = TRUE
        BY <1>15, <1>p, SMTT(30) DEF CursorProgress
    <2>4. k >= 8 /\ k >= 12 /\ ~(k + 1 > 15)
        BY <1>15
    <2>5. CursorProgress(k + 1, p, e, to)
        BY <2>0, <2>1, <2>2, <2>3, <2>4, Zenon DEF CursorProgress
    <2> QED
        BY <2>2, <2>4, <2>5, <1>r, <1>t, Zenon DEF Progress
<1>16. CASE k = 15
    <2>1. e = write_register(d, Write("cursor_base", p, 0))
        BY <1>16, ProgramWrites, Zenon
    <2>2. /\ Shape(e) /\ e.plane = d.plane /\ e.vga = d.vga
          /\ e.cursor[p].control = d.cursor[p].control /\ e.cursor[p].on = d.cursor[p].control
          /\ e.cursor[p].position = d.cursor[p].position
          /\ e.cursor[p].shown = d.cursor[p].position
          /\ \A r \in Pipe : r # p => e.cursor[r] = d.cursor[r]
        BY <1>8, <2>1, Zenon
    <2>3. d.cursor[p].control = TRUE /\ d.cursor[p].position = Centre(fw) /\ at = Centre(fw)
        BY <1>16, <1>p, SMTT(30) DEF CursorProgress
    <2>4. k >= 8 /\ k >= 12
        BY <1>16
    <2>5. CursorProgress(k + 1, p, e, to)
        BY <1>2, <1>16, <2>2, <2>3, Zenon DEF CursorProgress
    <2> QED
        BY <2>2, <2>4, <2>5, <1>r, <1>t, Zenon DEF Progress
<1>17. \/ k \in 1 .. 4 \/ k = 5 \/ k = 6 \/ k = 7 \/ k = 8 \/ k = 9 \/ k = 10 \/ k = 11 \/ k = 12
       \/ k = 13 \/ k = 14 \/ k = 15
    OBVIOUS
<1> QED
    BY <1>3, <1>4, <1>5, <1>6, <1>9, <1>10, <1>11, <1>12, <1>13, <1>14, <1>15, <1>16, <1>17, Zenon

-----------------------------------------------------------------------------
(* The engine, and the desktop that is shown.                              *)

\* intel915_initialize found nothing wrong.
Supported == setup_error(fw) = "NONE"

\* The driver was set up for this firmware; the ring is ours only when it was
\* found empty, and the takeover begins only when both pixels are drawn.
EngineInv ==
    /\ fw \in Firmware
    /\ gpu = [work |-> gpu.work, ring |-> gpu.ring, completion |-> gpu.completion, fb |-> gpu.fb]
    /\ EngineIsIdle
    /\ hdr.stage >= 1 => Supported /\ hdr.pipe = output_pipe(fw)
    /\ \A c \in Process : call[c].pc \in Early => hdr.stage >= 1
    /\ gpu.ring = "ours" => Supported
    /\ hdr.stage >= 5 => gpu.fb \in {"middle", "drawn"}

\* The desktop and its cursor are on the screen.
Shown ==
    /\ display.vga = FALSE
    /\ display.plane[hdr.pipe].on = TRUE /\ display.plane[hdr.pipe].base = "window"
    /\ \A q \in Pipe : q # hdr.pipe => display.cursor[q].on = FALSE
    /\ display.cursor[hdr.pipe].control = TRUE /\ display.cursor[hdr.pipe].on = TRUE
    /\ display.cursor[hdr.pipe].shown = hdr.position
    /\ hdr.position \in Screen

\* A takeover under way has achieved what its step says, and a finished one is
\* shown; a panic restores the display under both.
TakeInv ==
    /\ kernel # "panic" => Shape(display)
    /\ \A c \in Process : kernel = "running" /\ call[c].pc = "program" =>
          call[c].step \in 1 .. 16 /\ Progress(call[c].step, hdr.pipe, display, hdr.position)
    /\ kernel = "running" /\ hdr.status = "DRAWN" => Shown

\* A field of the header that is set changes no other.
LEMMA HdrStatus ==
    ASSUME HdrShape, NEW v, hdr' = [hdr EXCEPT !.status = v]
    PROVE  /\ hdr'.stage = hdr.stage /\ hdr'.pipe = hdr.pipe /\ hdr'.position = hdr.position
           /\ hdr'.status = v
  BY DEF HdrShape

\* The stage.
LEMMA HdrStage ==
    ASSUME HdrShape, NEW v, hdr' = [hdr EXCEPT !.stage = v]
    PROVE  /\ hdr'.stage = v /\ hdr'.pipe = hdr.pipe /\ hdr'.position = hdr.position
           /\ hdr'.status = hdr.status
  BY DEF HdrShape

\* The lock.
LEMMA HdrBusy ==
    ASSUME HdrShape, NEW v, hdr' = [hdr EXCEPT !.busy = v]
    PROVE  /\ hdr'.stage = hdr.stage /\ hdr'.pipe = hdr.pipe /\ hdr'.position = hdr.position
           /\ hdr'.status = hdr.status
  BY DEF HdrShape

\* The position.
LEMMA HdrPosition ==
    ASSUME HdrShape, NEW v, hdr' = [hdr EXCEPT !.position = v]
    PROVE  /\ hdr'.stage = hdr.stage /\ hdr'.pipe = hdr.pipe /\ hdr'.position = v
           /\ hdr'.status = hdr.status
  BY DEF HdrShape

\* A process that goes on moves no other.
LEMMA CallGoto ==
    ASSUME CallOK, NEW c \in Process, NEW pc, Goto(c, pc)
    PROVE  /\ call'[c].pc = pc /\ call'[c].step = call[c].step
           /\ \A d \in Process : d # c => call'[d] = call[d]
  BY DEF CallOK, Goto

\* What leaves engine, stage and pipe alone keeps EngineInv.
LEMMA EngineStays ==
    ASSUME EngineInv, UNCHANGED <<fw, gpu>>, hdr'.stage = hdr.stage, hdr'.pipe = hdr.pipe,
           \A d \in Process : call'[d].pc \in Early => hdr.stage >= 1
    PROVE  EngineInv'
  BY DEF EngineInv, EngineIsIdle, Supported

\* What leaves display, pipe and position alone, and begins no takeover, keeps
\* TakeInv.
LEMMA TakeStays ==
    ASSUME TakeInv, UNCHANGED <<fw, display>>, kernel' # "panic" => kernel # "panic",
           hdr'.pipe = hdr.pipe, hdr'.position = hdr.position,
           \A d \in Process : kernel' = "running" /\ call'[d].pc = "program"
                                  => kernel = "running" /\ call'[d] = call[d],
           kernel' = "running" /\ hdr'.status = "DRAWN"
               => kernel = "running" /\ hdr.status = "DRAWN"
    PROVE  TakeInv'
<1>1. (kernel # "panic" => Shape(display))'
    BY SMTT(30) DEF TakeInv, Shape
<1>2. ASSUME NEW d \in Process, kernel' = "running" /\ call'[d].pc = "program"
      PROVE  (call[d].step \in 1 .. 16 /\ Progress(call[d].step, hdr.pipe, display, hdr.position))'
    <2>1. kernel = "running" /\ call[d].pc = "program" /\ call'[d].step = call[d].step
        BY <1>2
    <2>2. call[d].step \in 1 .. 16 /\ Progress(call[d].step, hdr.pipe, display, hdr.position)
        BY <2>1, Zenon DEF TakeInv
    <2> QED
        BY <2>1, <2>2, Zenon DEF Progress, PlaneProgress, OtherProgress, CursorProgress
<1>3. kernel' = "running" /\ hdr'.status = "DRAWN" => Shown'
    BY Zenon DEF TakeInv, Shown, Screen
<1> QED
    BY <1>1, <1>2, <1>3 DEF TakeInv

\* The modes that are accepted.
LEMMA ModeIsSmall ==
    ASSUME NEW width \in Nat, NEW height \in Nat, intel915_mode_layout(width, height)
    PROVE  320 <= width /\ width <= 2048 /\ 200 <= height /\ height <= 2048
  BY DEF intel915_mode_layout

\* On a supported system the cursor fits the screen, and all outputs that are on
\* are fed by the pipe that is taken over.
LEMMA CentreIsInside ==
    ASSUME fw \in Firmware, Supported
    PROVE  /\ Sized /\ Centre(fw) \in Screen /\ output_pipe(fw) \in Pipe /\ ~window_conflict(fw)
           /\ \A p \in {fw.lvds, fw.adpa} \ {Off} : p = output_pipe(fw)
<1>1. /\ output_pipe(fw) # Off /\ intel915_mode_layout(fw.width, fw.height) /\ ~window_conflict(fw)
    BY DEF Supported, setup_error
<1>2. /\ fw.lvds \in Pipe \cup {Off} /\ fw.adpa \in Pipe \cup {Off}
      /\ fw.width \in Nat /\ fw.height \in Nat
    BY FirmwareAssumption
<1>3. 320 <= fw.width /\ fw.width <= 2048 /\ 200 <= fw.height /\ fw.height <= 2048
    BY <1>1, <1>2, ModeIsSmall
<1>4. Sized
    BY <1>2, <1>3 DEF Sized
<1>5. Centre(fw) \in Screen
    BY <1>2, <1>3 DEF Centre, Screen, I915_CURSOR_WIDTH, I915_CURSOR_HEIGHT
<1>6. /\ output_pipe(fw) \in Pipe
      /\ \A p \in {fw.lvds, fw.adpa} \ {Off} : p = output_pipe(fw)
    BY <1>1, <1>2 DEF output_pipe
<1> QED
    BY <1>1, <1>4, <1>5, <1>6

\* A step inside the service.
LEMMA TakeService ==
    ASSUME DisplayInv, EngineInv, TakeInv, NEW c \in Process, service(c)
    PROVE  EngineInv' /\ TakeInv'
<1>1. kernel = "running" /\ UNCHANGED <<fw, kernel>> /\ call[c].pc # "idle"
    BY DEF service, release, draw_desktop, build_and_stop, set_up_ring, submit, wait_complete,
           verify, take_over, At
<1>2. /\ HdrShape /\ CallOK
      /\ \A d \in Process : d # c => call[d].pc = "idle"
      /\ call[c].pc \in Early => hdr.stage < 5 /\ hdr.stage >= 1
      /\ call[c].pc = "program" => hdr.stage = 5
      /\ hdr.status = "DRAWN" => hdr.stage = 6
    BY <1>1 DEF DisplayInv, EngineInv, Alone
<1>3. "idle" \notin Early /\ "release" \notin Early /\ "program" \notin Early /\ "draw" \notin Early
    BY DEF Early
\* The display stays, and the stage; the call goes on, not to the takeover.
<1>4. ASSUME NEW pc, pc # "program", pc \in Early => call[c].pc \in Early, Goto(c, pc),
             UNCHANGED <<display, gpu>>, hdr'.stage = hdr.stage, hdr'.pipe = hdr.pipe,
             hdr'.position = hdr.position, hdr'.status = "DRAWN" => hdr.status = "DRAWN"
      PROVE  EngineInv' /\ TakeInv'
    <2>1. call'[c].pc = pc /\ \A d \in Process : d # c => call'[d] = call[d]
        BY <1>2, <1>4, CallGoto
    <2>2. \A d \in Process : call'[d].pc \in Early => hdr.stage >= 1
        BY <1>2, <1>3, <1>4, <2>1
    <2>3. EngineInv'
        BY <1>1, <1>4, <2>2, EngineStays
    <2>4. TakeInv'
        BY <1>1, <1>4, <2>1, TakeStays
    <2> QED
        BY <2>3, <2>4
<1>5. ASSUME NEW error, error # "DRAWN", driver_error(c, error), UNCHANGED <<display, gpu>>
      PROVE  EngineInv' /\ TakeInv'
    <2>1. /\ hdr'.stage = hdr.stage /\ hdr'.pipe = hdr.pipe /\ hdr'.position = hdr.position
          /\ hdr'.status = error /\ Goto(c, "release")
        BY <1>2, <1>5, HdrStatus DEF driver_error
    <2> QED
        BY <1>3, <1>4, <1>5, <2>1
\* The stage goes up, but not to the takeover.
<1>6. ASSUME NEW n \in 1 .. 4, NEW pc \in Early, hdr.stage \in 1 .. 4,
             hdr' = [hdr EXCEPT !.stage = n], Goto(c, pc), UNCHANGED display,
             UNCHANGED gpu \/ gpu' = [gpu EXCEPT !.work = "submitted"]
      PROVE  EngineInv' /\ TakeInv'
    <2>1. /\ hdr'.stage = n /\ hdr'.pipe = hdr.pipe /\ hdr'.position = hdr.position
          /\ hdr'.status = hdr.status
        BY <1>2, <1>6, HdrStage
    <2>2. call'[c].pc = pc /\ \A d \in Process : d # c => call'[d] = call[d]
        BY <1>2, <1>6, CallGoto
    <2>3. TakeInv'
        BY <1>1, <1>3, <1>6, <2>1, <2>2, TakeStays
    <2>4. /\ gpu' = [work |-> gpu'.work, ring |-> gpu'.ring, completion |-> gpu'.completion,
                     fb |-> gpu'.fb]
          /\ gpu'.ring = gpu.ring /\ (gpu'.work = gpu.work \/ gpu'.work = "submitted")
        BY <1>6 DEF EngineInv
    <2>5. EngineInv'
        BY <1>1, <1>6, <2>1, <2>4 DEF EngineInv, EngineIsIdle, Supported
    <2> QED
        BY <2>3, <2>5
<1>7. CASE release(c)
    <2>1. Goto(c, "idle") /\ UNCHANGED <<display, gpu>> /\ hdr' = [hdr EXCEPT !.busy = FALSE]
        BY <1>7 DEF release
    <2>2. /\ hdr'.stage = hdr.stage /\ hdr'.pipe = hdr.pipe /\ hdr'.position = hdr.position
          /\ hdr'.status = hdr.status
        BY <1>2, <2>1, HdrBusy
    <2> QED
        BY <1>3, <1>4, <2>1, <2>2
<1>8. CASE draw_desktop(c)
    <2>1. CASE driver_error(c, "ALREADY_STARTED")
        BY <1>5, <1>8, <2>1 DEF draw_desktop
    <2>2. CASE first_attempt /\ hdr' = [hdr EXCEPT !.stage = 2] /\ Goto(c, "wait_ring")
        <3>1. hdr.stage \in 1 .. 4 /\ "wait_ring" \in Early /\ UNCHANGED <<display, gpu>>
            BY <1>8, <2>2 DEF first_attempt, Early, draw_desktop
        <3> QED
            BY <1>6, <2>2, <3>1
    <2> QED
        BY <1>8, <2>1, <2>2, Zenon DEF draw_desktop
<1>9. CASE build_and_stop(c)
    <2>1. UNCHANGED <<display, gpu>> /\ call[c].pc = "wait_ring" /\ call[c].pc \in Early
        BY <1>9 DEF build_and_stop, At, Early
    <2>2. \/ driver_error(c, "ENGINE_BUSY") \/ driver_error(c, "COMMAND_OVERFLOW")
          \/ Goto(c, "wait_stop") /\ UNCHANGED hdr
        BY <1>9 DEF build_and_stop
    <2> QED
        BY <1>4, <1>5, <2>1, <2>2
<1>10. CASE set_up_ring(c)
    <2>0. /\ call[c].pc = "wait_stop" /\ call[c].pc \in Early /\ "submit" \in Early
          /\ UNCHANGED display
        BY <1>10 DEF set_up_ring, At, Early
    <2>1. CASE driver_error(c, "ENGINE_BUSY") /\ UNCHANGED gpu
        BY <1>5, <2>0, <2>1
    <2>2. CASE /\ mode_idle \/ ring_empty
               /\ gpu' = [gpu EXCEPT !.ring = "ours", !.completion = FALSE]
               /\ Goto(c, "submit") /\ UNCHANGED hdr
        <3>1. call'[c].pc = "submit" /\ \A d \in Process : d # c => call'[d] = call[d]
            BY <1>2, <2>2, CallGoto
        <3>2. TakeInv'
            BY <1>1, <2>0, <2>2, <3>1, TakeStays
        <3>3. gpu' = [work |-> gpu.work, ring |-> "ours", completion |-> FALSE, fb |-> gpu.fb]
            BY <2>2, Zenon DEF EngineInv
        <3>4. /\ gpu' = [work |-> gpu'.work, ring |-> gpu'.ring, completion |-> gpu'.completion,
                         fb |-> gpu'.fb]
              /\ gpu'.fb = gpu.fb /\ gpu'.work = "idle"
            BY <2>2, <3>3, Zenon DEF ring_empty, mode_idle
        <3>5. hdr.stage >= 1 /\ hdr'.stage = hdr.stage /\ hdr'.pipe = hdr.pipe
            BY <1>2, <2>0, <2>2
        <3>6. EngineInv'
            BY <1>1, <3>4, <3>5 DEF EngineInv, EngineIsIdle, Supported
        <3> QED
            BY <3>2, <3>6
    <2> QED
        BY <1>10, <2>1, <2>2, Zenon DEF set_up_ring
<1>11. CASE submit(c)
    <2>1. /\ call[c].pc \in Early /\ "complete" \in Early /\ UNCHANGED display
          /\ hdr' = [hdr EXCEPT !.stage = 3] /\ gpu' = [gpu EXCEPT !.work = "submitted"]
          /\ Goto(c, "complete")
        BY <1>11 DEF submit, At, Early
    <2>2. hdr.stage \in 1 .. 4
        BY <1>2, <2>1 DEF HdrShape
    <2> QED
        BY <1>6, <2>1, <2>2
<1>12. CASE wait_complete(c)
    <2>1. call[c].pc \in Early /\ "verify" \in Early /\ UNCHANGED <<display, gpu>>
        BY <1>12 DEF wait_complete, At, Early
    <2>2. hdr.stage \in 1 .. 4
        BY <1>2, <2>1 DEF HdrShape
    <2>3. driver_error(c, "GPU_TIMEOUT") \/ (hdr' = [hdr EXCEPT !.stage = 4] /\ Goto(c, "verify"))
        BY <1>12, Zenon DEF wait_complete
    <2> QED
        BY <1>5, <1>6, <2>1, <2>2, <2>3
<1>13. CASE verify(c)
    <2>1. call[c].pc \in Early /\ UNCHANGED <<display, gpu>>
        BY <1>13 DEF verify, At, Early
    <2>2. CASE driver_error(c, "BAD_PIXELS")
        BY <1>5, <2>1, <2>2
    <2>3. CASE /\ pixels_drawn /\ hdr' = [hdr EXCEPT !.stage = 5]
               /\ call' = [call EXCEPT ![c].pc = "program", ![c].step = 1]
        <3>1. /\ hdr'.stage = 5 /\ hdr'.pipe = hdr.pipe /\ hdr'.position = hdr.position
              /\ hdr'.status = hdr.status
            BY <1>2, <2>3, HdrStage
        <3>2. /\ call'[c].pc = "program" /\ call'[c].step = 1
              /\ \A d \in Process : d # c => call'[d] = call[d]
            BY <1>2, <2>3, Zenon DEF CallOK
        <3>3. EngineInv'
            BY <1>1, <1>2, <1>3, <2>1, <2>3, <3>1, <3>2, SMTT(30)
            DEF EngineInv, EngineIsIdle, Supported, pixels_drawn
        <3>4. hdr'.status # "DRAWN"
            BY <1>2, <2>1, <3>1, SMTT(30) DEF HdrShape
        <3>5. TakeInv'
            <4>1. Shape(display)'
                BY <1>1, <2>1 DEF TakeInv, Shape
            <4>2. (Progress(1, hdr.pipe, display, hdr.position))'
                <5>1. PlaneProgress(1, hdr.pipe, display)'
                    BY DEF PlaneProgress
                <5>2. OtherProgress(1, hdr.pipe, display)'
                    BY DEF OtherProgress, Pipe
                <5>3. CursorProgress(1, hdr.pipe, display, hdr.position)'
                    BY DEF CursorProgress
                <5> QED
                    BY <5>1, <5>2, <5>3, Zenon DEF Progress
            <4>3. \A d \in Process : call'[d].pc = "program" => d = c
                BY <1>2, <3>2
            <4>4. call'[c].step \in 1 .. 16
                BY <3>2
            <4> QED
                BY <3>2, <3>4, <4>1, <4>2, <4>3, <4>4, Zenon DEF TakeInv
        <3> QED
            BY <3>3, <3>5
    <2> QED
        BY <1>13, <2>2, <2>3, Zenon DEF verify
<1>14. CASE take_over(c)
    <2>1. /\ call[c].pc = "program" /\ hdr.stage = 5 /\ hdr.status # "DRAWN" /\ UNCHANGED gpu
        BY <1>2, <1>14, SMTT(30) DEF take_over, At
    <2>2. /\ hdr.pipe = output_pipe(fw) /\ hdr.pipe \in Pipe /\ Centre(fw) \in Screen
          /\ Len(program(hdr.pipe, fw)) = 15
        <3>1. fw \in Firmware /\ Supported /\ hdr.pipe = output_pipe(fw)
            BY <2>1 DEF EngineInv
        <3>2. hdr.pipe \in Pipe /\ Centre(fw) \in Screen
            BY <3>1, CentreIsInside, SMTT(30)
        <3> QED
            BY <3>1, <3>2, ProgramWrites, Zenon
    <2>3. /\ call[c].step \in 1 .. 16 /\ Shape(display)
          /\ Progress(call[c].step, hdr.pipe, display, hdr.position)
        BY <1>1, <2>1 DEF TakeInv
    <2>4. CASE driver_error(c, "CURSOR_FAILED") /\ UNCHANGED display
        BY <1>5, <2>1, <2>4, SMTT(30)
    <2>5. CASE /\ call[c].step > Len(program(hdr.pipe, fw))
               /\ hdr' = [hdr EXCEPT !.cursor_enabled = TRUE, !.stage = 6, !.status = "DRAWN"]
               /\ Goto(c, "release") /\ UNCHANGED display
        <3>1. hdr' = [present |-> hdr.present, owner |-> hdr.owner, status |-> "DRAWN",
                      stage |-> 6, busy |-> hdr.busy, pipe |-> hdr.pipe,
                      position |-> hdr.position, cursor_enabled |-> TRUE]
            BY <1>2, <2>5, Zenon DEF HdrShape
        <3>2. hdr'.stage = 6 /\ hdr'.pipe = hdr.pipe /\ hdr'.position = hdr.position
            BY <3>1
        <3>3. call'[c].pc = "release" /\ \A d \in Process : d # c => call'[d] = call[d]
            BY <1>2, <2>5, CallGoto
        <3>4. \A d \in Process : call'[d].pc \notin Early /\ call'[d].pc # "program"
            BY <1>2, <1>3, <3>3
        <3>5. EngineInv'
            BY <1>1, <2>1, <3>2, <3>4 DEF EngineInv, EngineIsIdle, Supported
        <3>6. Progress(16, hdr.pipe, display, hdr.position)
            BY <2>2, <2>3, <2>5, SMTT(30)
        <3>7. Shown
            <4>2. /\ PlaneProgress(16, hdr.pipe, display) /\ OtherProgress(16, hdr.pipe, display)
                  /\ CursorProgress(16, hdr.pipe, display, hdr.position)
                BY <3>6, Zenon DEF Progress
            <4>3. /\ display.vga = FALSE
                  /\ display.plane[hdr.pipe].on = TRUE /\ display.plane[hdr.pipe].base = "window"
                BY <4>2, SMTT(30) DEF PlaneProgress
            <4>4. \A q \in Pipe : q # hdr.pipe => display.cursor[q].on = FALSE
                BY <2>2, <4>2, OtherIsDark, Zenon
            <4>5. /\ display.cursor[hdr.pipe].control = TRUE /\ display.cursor[hdr.pipe].on = TRUE
                  /\ display.cursor[hdr.pipe].shown = Centre(fw) /\ hdr.position = Centre(fw)
                BY <4>2, SMTT(30) DEF CursorProgress
            <4>6. hdr.position \in Screen /\ display.cursor[hdr.pipe].shown = hdr.position
                BY <2>2, <4>5
            <4> QED
                BY <4>3, <4>4, <4>5, <4>6, Zenon DEF Shown
        <3>8. Shown' /\ Shape(display)'
            BY <1>1, <2>3, <2>5, <3>2, <3>7 DEF Shown, Screen, Shape
        <3> QED
            BY <3>4, <3>5, <3>8, Zenon DEF TakeInv
    <2>6. CASE /\ call[c].step <= Len(program(hdr.pipe, fw))
               /\ display' = write_register(display, program(hdr.pipe, fw)[call[c].step])
               /\ call' = [call EXCEPT ![c].step = call[c].step + 1]
               /\ hdr' = [hdr EXCEPT !.position =
                             IF program(hdr.pipe, fw)[call[c].step].reg = "cursor_position"
                             THEN Centre(fw) ELSE @]
        <3>1. PICK to : to = IF program(hdr.pipe, fw)[call[c].step].reg = "cursor_position"
                             THEN Centre(fw) ELSE hdr.position
            BY Zenon
        <3>2. PICK k \in 1 .. 15 : k = call[c].step
            BY <2>2, <2>3, <2>6
        <3>3. PICK d : d = display /\ Shape(d) /\ Progress(k, hdr.pipe, d, hdr.position)
            BY <2>3, <3>2
        <3>4. PICK e : e = display'
            BY Zenon
        <3>5. /\ e = write_register(d, program(hdr.pipe, fw)[k])
              /\ to = IF program(hdr.pipe, fw)[k].reg = "cursor_position" THEN Centre(fw)
                                                                         ELSE hdr.position
            BY <2>6, <3>1, <3>2, <3>3, <3>4, Zenon
        <3>6. Shape(e) /\ Progress(k + 1, hdr.pipe, e, to)
            BY <2>2, <3>3, <3>5, ProgressStep, Zenon
        <3>7. hdr' = [hdr EXCEPT !.position = to]
            BY <2>6, <3>1, Zenon
        <3>8. /\ hdr'.stage = hdr.stage /\ hdr'.pipe = hdr.pipe /\ hdr'.position = to
              /\ hdr'.status = hdr.status
            BY <1>2, <3>7, HdrPosition
        <3>9. /\ call'[c].pc = "program" /\ call'[c].step = k + 1
              /\ \A d_1 \in Process : d_1 # c => call'[d_1] = call[d_1]
            BY <1>2, <2>1, <2>6, <3>2, Zenon DEF CallOK
        <3>10. EngineInv'
            <4>1. \A d_1 \in Process : call'[d_1].pc \in Early => hdr.stage >= 1
                BY <2>1, SMTT(30)
            <4> QED
                BY <1>1, <2>1, <3>8, <4>1, EngineStays, Zenon
        <3>11. Shape(display)' /\ (Progress(k + 1, hdr.pipe, display, hdr.position))'
            <4>1. Shape(display)'
                BY <3>4, <3>6, SMTT(30) DEF Shape
            <4>2. /\ PlaneProgress(k + 1, hdr.pipe, e) /\ OtherProgress(k + 1, hdr.pipe, e)
                  /\ CursorProgress(k + 1, hdr.pipe, e, to)
                BY <3>6, Zenon DEF Progress
            <4>3. PlaneProgress(k + 1, hdr.pipe, display)'
                BY <3>4, <3>8, <4>2, Zenon DEF PlaneProgress
            <4>4. OtherProgress(k + 1, hdr.pipe, display)'
                BY <3>4, <3>8, <4>2, Zenon DEF OtherProgress
            <4>5. CursorProgress(k + 1, hdr.pipe, display, hdr.position)'
                BY <1>1, <3>4, <3>8, <4>2, Zenon DEF CursorProgress
            <4> QED
                BY <4>1, <4>3, <4>4, <4>5, Zenon DEF Progress
        <3>12. TakeInv'
            <4>1. \A d_1 \in Process : call'[d_1].pc = "program" => d_1 = c
                BY <1>2, <3>9, Zenon
            <4>2. k + 1 \in 1 .. 16
                OBVIOUS
            <4>3. hdr'.status # "DRAWN"
                BY <2>1, <3>8, Zenon
            <4> QED
                BY <3>9, <3>11, <4>1, <4>2, <4>3, Zenon DEF TakeInv
        <3> QED
            BY <3>10, <3>12
    <2> QED
        BY <1>14, <2>4, <2>5, <2>6, Zenon DEF take_over
<1> QED
    BY <1>7, <1>8, <1>9, <1>10, <1>11, <1>12, <1>13, <1>14, SMTT(30) DEF service

\* The other steps of the driver, and those of the GPU.
LEMMA TakeGraphics ==
    ASSUME DisplayInv, EngineInv, TakeInv, graphics
    PROVE  EngineInv' /\ TakeInv'
<1>0. HdrShape /\ CallOK
    BY Zenon DEF DisplayInv
\* While nobody is inside the service, and nothing is shown.
<1>7. ASSUME UNCHANGED <<fw, call, display, gpu>>, \A c \in Process : call[c].pc = "idle",
             kernel # "panic", kernel' = "running" => hdr'.status # "DRAWN",
             hdr'.stage >= 1 => Supported /\ hdr'.pipe = output_pipe(fw),
             hdr'.stage \in 0 .. 4
      PROVE  EngineInv' /\ TakeInv'
    <2>1. \A c \in Process : call'[c].pc = "idle" /\ call'[c].pc \notin Early
        BY <1>7 DEF Early
    <2>2. EngineInv'
        BY <1>7, <2>1, SMTT(30) DEF EngineInv, EngineIsIdle, Supported
    <2>3. TakeInv'
        BY <1>7, <2>1 DEF TakeInv, Shape
    <2> QED
        BY <2>2, <2>3
<1>1. CASE intel915_initialize
    <2>1. UNCHANGED <<fw, call, display, gpu>> /\ kernel = "graphics"
        BY <1>1, SMTT(30) DEF intel915_initialize
    <2>2. hdr.stage = 0 /\ hdr.status # "DRAWN" /\ \A c \in Process : call[c].pc = "idle"
        BY <2>1, Zenon DEF DisplayInv
    <2>3. CASE UNCHANGED hdr /\ kernel' \in {"running", "panic"}
        BY <1>7, <2>1, <2>2, <2>3
    <2>4. ASSUME NEW error, graphics_failure(error)
          PROVE  EngineInv' /\ TakeInv'
        <3>1. PICK present : hdr' = [hdr EXCEPT !.status = error, !.present = present]
            BY <2>4, Zenon DEF graphics_failure
        <3>2. hdr'.stage = hdr.stage /\ kernel' = "panic"
            BY <1>0, <2>4, <3>1, Zenon DEF HdrShape, graphics_failure
        <3> QED
            BY <1>7, <2>1, <2>2, <3>2
    <2>5. CASE /\ setup_error(fw) = "NONE" /\ kernel' = "desktop"
               /\ hdr' = [hdr EXCEPT !.present = TRUE, !.pipe = output_pipe(fw),
                                     !.status = "READY", !.stage = 1]
        <3>1. hdr' = [present |-> TRUE, owner |-> hdr.owner, status |-> "READY",
                      stage |-> 1, busy |-> hdr.busy, pipe |-> output_pipe(fw),
                      position |-> hdr.position, cursor_enabled |-> hdr.cursor_enabled]
            BY <1>0, <2>5, Zenon DEF HdrShape
        <3>2. hdr'.stage = 1 /\ hdr'.status = "READY" /\ hdr'.pipe = output_pipe(fw)
            BY <3>1
        <3>3. Supported
            BY <2>5, SMTT(30) DEF Supported
        <3> QED
            BY <1>7, <2>1, <2>2, <2>5, <3>2, <3>3
    <2> QED
        BY <1>1, <2>3, <2>4, <2>5, Zenon DEF intel915_initialize
<1>2. CASE \E c \in Process : intel915_claim_desktop(c)
    <2>1. PICK c \in Process : intel915_claim_desktop(c)
        BY <1>2
    <2>2. UNCHANGED <<fw, call, display, gpu>> /\ kernel = "desktop"
        BY <2>1 DEF intel915_claim_desktop
    <2>3. UNCHANGED hdr \/ hdr' = [hdr EXCEPT !.owner = c]
        BY <2>1 DEF intel915_claim_desktop
    <2>4. hdr'.stage = hdr.stage /\ hdr'.status = hdr.status /\ hdr'.pipe = hdr.pipe
        BY <1>0, <2>3 DEF HdrShape
    <2>5. hdr.stage = 1 /\ hdr.status = "READY" /\ \A d \in Process : call[d].pc = "idle"
        BY <2>2 DEF DisplayInv
    <2>6. Supported /\ hdr.pipe = output_pipe(fw)
        BY <2>5 DEF EngineInv
    <2> QED
        BY <1>7, <2>2, <2>4, <2>5, <2>6
<1>3. CASE \E c \in Process : service(c)
    BY <1>3, TakeService
<1>4. CASE \E c \in Process, operation \in 0 .. 1 : intel915_driver_service(c, operation)
    <2>1. PICK c \in Process, operation \in 0 .. 1 : intel915_driver_service(c, operation)
        BY <1>4
    <2>2. UNCHANGED <<fw, kernel, display, gpu>> /\ kernel = "running"
          /\ hdr' = [hdr EXCEPT !.busy = TRUE]
        BY <2>1 DEF intel915_driver_service, At
    <2>3. PICK pc \in {"draw", "release"} : Goto(c, pc)
        BY <2>1, Zenon DEF intel915_driver_service
    <2>4. /\ hdr'.stage = hdr.stage /\ hdr'.pipe = hdr.pipe /\ hdr'.position = hdr.position
          /\ hdr'.status = hdr.status
        BY <1>0, <2>2, HdrBusy
    <2>5. call'[c].pc = pc /\ \A d \in Process : d # c => call'[d] = call[d]
        BY <1>0, <2>3, CallGoto
    <2>6. pc \notin Early /\ pc # "program"
        BY DEF Early
    <2>7. \A d \in Process : call'[d].pc \in Early => hdr.stage >= 1
        BY <2>5, <2>6 DEF EngineInv
    <2>8. EngineInv'
        BY <2>2, <2>4, <2>7, EngineStays
    <2>9. TakeInv'
        BY <2>2, <2>4, <2>5, <2>6, TakeStays
    <2> QED
        BY <2>8, <2>9
<1>5. CASE \E motions \in Motion : intel915_cursor_flush(motions)
    <2>1. PICK motions \in Motion : intel915_cursor_flush(motions)
        BY <1>5
    <2>2. PICK to : to = Moved(motions)
        BY Zenon
    <2>3. /\ UNCHANGED <<fw, kernel, call, gpu>> /\ kernel = "running" /\ hdr.status = "DRAWN"
          /\ ~hdr.busy /\ hdr' = [hdr EXCEPT !.position = to]
          /\ display' = show(display, hdr.pipe, to)
        BY <2>1, <2>2, Zenon DEF intel915_cursor_flush
    <2>4. hdr.stage = 6 /\ \A c \in Process : call[c].pc = "idle"
        BY <2>3 DEF DisplayInv
    <2>5. /\ hdr'.stage = hdr.stage /\ hdr'.pipe = hdr.pipe /\ hdr'.position = to
          /\ hdr'.status = hdr.status
        BY <1>0, <2>3, HdrPosition
    <2>6. EngineInv'
        BY <2>3, <2>4, <2>5, EngineStays
    <2>7. fw \in Firmware /\ Supported /\ hdr.pipe = output_pipe(fw) /\ Shown /\ Shape(display)
        BY <2>3, <2>4 DEF EngineInv, TakeInv
    <2>8. Sized /\ hdr.pipe \in Pipe
        BY <2>7, CentreIsInside, SMTT(30)
    <2>9. to \in Screen
        BY <2>2, <2>7, <2>8, MovedStays, Zenon DEF Shown
    <2>10. PICK d, e : d = display /\ e = display' /\ Shape(d) /\ e = show(d, hdr.pipe, to)
        BY <2>3, <2>7, Zenon
    <2>11. /\ Shape(e) /\ e.plane = d.plane /\ e.vga = d.vga
           /\ e.cursor[hdr.pipe].control = d.cursor[hdr.pipe].control
           /\ e.cursor[hdr.pipe].on = d.cursor[hdr.pipe].control
           /\ e.cursor[hdr.pipe].shown = to
           /\ \A q \in Pipe : q # hdr.pipe => e.cursor[q] = d.cursor[q]
        BY <2>8, <2>10, ShowEffect
    <2>12. Shown'
        BY <2>3, <2>5, <2>7, <2>9, <2>10, <2>11, SMTT(30) DEF Shown, Screen
    <2>13. Shape(display)'
        <3>1. Shape(e) /\ display' = e
            BY <2>10, <2>11, Zenon
        <3> QED
            BY <3>1 DEF Shape
    <2>14. TakeInv'
        BY <2>3, <2>4, <2>12, <2>13 DEF TakeInv
    <2> QED
        BY <2>6, <2>14
<1>6. CASE firmware_done \/ engine_step
    <2>1. UNCHANGED <<fw, kernel, hdr, call, display>>
        BY <1>6, Zenon DEF firmware_done, engine_step
    <2>2. TakeInv'
        BY <2>1, TakeStays, SMTT(30)
    <2>3. EngineInv'
        BY <1>6, <2>1, Zenon DEF EngineInv, EngineIsIdle, Supported, firmware_done, engine_step
    <2> QED
        BY <2>2, <2>3
<1> QED
    BY <1>1, <1>2, <1>3, <1>4, <1>5, <1>6, SMTT(30) DEF graphics

\* The system starts so.
LEMMA EngineInit == Init => EngineInv /\ TakeInv /\ PanicReadsMapped
<1> SUFFICES ASSUME Init PROVE EngineInv /\ TakeInv /\ PanicReadsMapped
    BY Zenon
<1>1. /\ fw \in Firmware /\ hdr.stage = 0 /\ hdr.status = "NOT_FOUND" /\ kernel = "start"
      /\ \A c \in Process : call[c].pc = "idle"
    BY Zenon DEF Init, GInit
<1>2. PICK work, ring : /\ gpu = [work |-> work, ring |-> ring, completion |-> FALSE, fb |-> "old"]
                        /\ ring # "ours"
    <2>1. \A b : (IF b THEN "firmware" ELSE "off") # "ours"
        OBVIOUS
    <2> QED
        BY <2>1, Zenon DEF Init, GInit
<1>3. EngineInv
    BY <1>1, <1>2 DEF EngineInv, EngineIsIdle, Early
<1>4. Shape(display)
    <2>1. display = [plane |-> [p \in Pipe |-> PlaneOf(fw.plane[p])],
                     cursor |-> [p \in Pipe |-> NoCursor], vga |-> fw.vga]
        BY Zenon DEF Init, GInit
    <2>2. /\ display = [plane |-> display.plane, cursor |-> display.cursor, vga |-> display.vga]
          /\ display.plane = [p \in Pipe |-> display.plane[p]]
          /\ display.cursor = [p \in Pipe |-> display.cursor[p]]
          /\ \A p \in Pipe : display.plane[p] = PlaneOf(fw.plane[p]) /\ display.cursor[p] = NoCursor
        BY <2>1
    <2>3. \A place : \E c, o, b : PlaneOf(place) = PlaneRec(c, o, b)
        BY Zenon DEF PlaneOf, PlaneRec
    <2>4. \E c, o, a, s : NoCursor = CursorRec(c, o, a, s)
        BY Zenon DEF NoCursor, CursorRec
    <2>5. \A p \in Pipe : \E c, o, b : display.plane[p] = PlaneRec(c, o, b)
        <3> SUFFICES ASSUME NEW p \in Pipe
                     PROVE  \E c, o, b : display.plane[p] = PlaneRec(c, o, b)
            OBVIOUS
        <3>1. display.plane[p] = PlaneOf(fw.plane[p])
            BY <2>2
        <3> QED
            BY <2>3, <3>1
    <2>6. \A p \in Pipe : \E c, o, a, s : display.cursor[p] = CursorRec(c, o, a, s)
        <3>1. \A p \in Pipe : display.cursor[p] = NoCursor
            BY <2>2
        <3> QED
            BY <2>4, <3>1
    <2> QED
        BY <2>2, <2>5, <2>6, Zenon DEF Shape
<1>5. TakeInv
    BY <1>1, <1>4 DEF TakeInv
<1>6. PanicReadsMapped
    BY DEF Init, PanicReadsMapped
<1> QED
    BY <1>3, <1>5, <1>6

\* The steps of the kernel and of the panic leave the driver where it is; only
\* the walk reads frames, each one checked.
LEMMA TakeStep ==
    ASSUME DisplayInv, PanicInv, EngineInv, TakeInv, PanicReadsMapped, [Next]_vars
    PROVE  EngineInv' /\ TakeInv' /\ PanicReadsMapped'
<1>1. ASSUME UNCHANGED gvars
      PROVE  EngineInv' /\ TakeInv'
    <2>1. UNCHANGED <<fw, kernel, hdr, call, display, gpu>>
        BY <1>1 DEF gvars
    <2>2. EngineInv'
        BY <2>1 DEF EngineInv, EngineIsIdle, Supported
    <2>3. TakeInv'
        BY <2>1, TakeStays
    <2> QED
        BY <2>2, <2>3
<1>2. ASSUME panic'.depth = panic.depth, panic'.frame = panic.frame
      PROVE  PanicReadsMapped'
    BY <1>2 DEF PanicReadsMapped
<1>3. panic = [step |-> panic.step, nested |-> panic.nested,
               depth |-> panic.depth, frame |-> panic.frame]
    BY DEF PanicInv
<1>4. ASSUME NEW from, NEW to, Step(from, to)
      PROVE  PanicReadsMapped'
    <2>1. panic' = [panic EXCEPT !.step = to]
        BY <1>4 DEF Step
    <2>2. panic'.depth = panic.depth /\ panic'.frame = panic.frame
        BY <1>3, <2>1
    <2> QED
        BY <1>2, <2>2
<1>5. CASE UNCHANGED vars
    BY <1>1, <1>2, <1>5 DEF vars, pvars
<1>6. CASE graphics /\ UNCHANGED pvars
    BY <1>2, <1>6, TakeGraphics DEF pvars
<1>7. CASE vga_capture_startup_font \/ initialize_devices \/ kernel_panic
    <2>1. /\ UNCHANGED <<fw, hdr, call, display, gpu, panic>> /\ kernel # "panic"
          /\ kernel' # "running"
        BY <1>7 DEF vga_capture_startup_font, initialize_devices, kernel_panic, pvars
    <2>2. EngineInv'
        BY <2>1 DEF EngineInv, EngineIsIdle, Supported
    <2>3. TakeInv'
        BY <2>1, TakeStays
    <2> QED
        BY <1>2, <2>1, <2>2, <2>3
<1>8. CASE vm86_program
    BY <1>1, <1>2, <1>8 DEF vm86_program
<1>9. CASE nested_exception
    <2>1. UNCHANGED gvars
          /\ panic' = [panic EXCEPT !.step = "display", !.nested = @ + 1, !.depth = 0, !.frame = 0]
        BY <1>9 DEF nested_exception
    <2>2. panic'.depth = 0
        BY <1>3, <2>1, Zenon
    <2>3. PanicReadsMapped'
        BY <2>2 DEF PanicReadsMapped
    <2> QED
        BY <1>1, <2>1, <2>3
<1>10. CASE intel915_restore_text_display
    <2>1. /\ UNCHANGED <<fw, kernel, call, gpu>> /\ Step("display", "mode") /\ kernel = "panic"
          /\ hdr' = [hdr EXCEPT !.cursor_enabled = hdr.stage < 5 /\ @]
        BY <1>10 DEF intel915_restore_text_display, Step
    <2>2. hdr'.stage = hdr.stage /\ hdr'.pipe = hdr.pipe
        BY <2>1 DEF DisplayInv, HdrShape
    <2>3. EngineInv'
        BY <2>1, <2>2 DEF EngineInv, EngineIsIdle, Supported
    <2>4. TakeInv'
        BY <2>1 DEF TakeInv
    <2> QED
        BY <1>4, <2>1, <2>3, <2>4
<1>11. CASE panic_put_backtrace
    <2>1. UNCHANGED gvars
        BY <1>11 DEF panic_put_backtrace
    <2>2. PICK next \in Frame : /\ panic_range_is_mapped(next, 8)
                                /\ panic' = [panic EXCEPT !.depth = @ + 1, !.frame = next]
        BY <1>11, Zenon DEF panic_put_backtrace
    <2>3. panic'.frame = next
        BY <1>3, <2>2, Zenon
    <2>4. \A i \in 0 .. 7 : page(next + i) \in Mapped
        BY <2>2, PanicAssumption, FrameIsMapped
    <2>5. PanicReadsMapped'
        BY <2>3, <2>4 DEF PanicReadsMapped
    <2> QED
        BY <1>1, <2>1, <2>5
<1>12. CASE vga_restore_text_mode \/ vga_begin_font_access \/ vga_restore_startup_font \/ unblank
            \/ panic_put_text \/ halt
    <2>1. UNCHANGED gvars /\ \E from, to : Step(from, to)
        BY <1>12, Zenon DEF vga_restore_text_mode, vga_begin_font_access, vga_restore_startup_font,
                            unblank, panic_put_text, halt
    <2> QED
        BY <1>1, <1>4, <2>1
<1> QED
    BY <1>5, <1>6, <1>7, <1>8, <1>9, <1>10, <1>11, <1>12, Zenon DEF Next, panicking

-----------------------------------------------------------------------------
(* The GPU has finished before the display is touched.                     *)

\* Where the stage is while the ring is set up, and while the pixels are read.
Setup == {"wait_ring", "wait_stop", "submit"}
Placed(pc, stage) == /\ pc \in Setup => stage < 4
                     /\ pc = "verify" => stage >= 4

\* From stage 4 on the completion word is stored and the engine is idle.
FinishInv ==
    /\ \A c \in Process : Placed(call[c].pc, hdr.stage)
    /\ hdr.stage >= 4 => gpu.completion /\ gpu.work = "idle"

LEMMA FinishInit == Init => FinishInv
<1> SUFFICES ASSUME Init PROVE FinishInv
    OBVIOUS
<1>1. hdr.stage = 0 /\ \A c \in Process : call[c].pc = "idle"
    BY Zenon DEF Init, GInit
<1> QED
    BY <1>1 DEF FinishInv, Placed, Setup

\* What leaves engine and stage alone, and goes on to none of these places.
LEMMA FinishStays ==
    ASSUME FinishInv, UNCHANGED gpu, hdr'.stage = hdr.stage,
           \A d \in Process : \/ call'[d].pc = call[d].pc
                              \/ call'[d].pc \in {"idle", "draw", "release", "program"}
    PROVE  FinishInv'
<1>1. \A stage : \A pc \in {"idle", "draw", "release", "program"} : Placed(pc, stage)
    BY DEF Placed, Setup
<1>2. \A d \in Process : Placed(call'[d].pc, hdr'.stage)
    BY <1>1, Zenon DEF FinishInv
<1> QED
    BY <1>2, Zenon DEF FinishInv

\* A step inside the service.
LEMMA FinishService ==
    ASSUME DisplayInv, EngineInv, FinishInv, NEW c \in Process, service(c)
    PROVE  FinishInv'
<1>1. call[c].pc # "idle"
    BY DEF service, release, draw_desktop, build_and_stop, set_up_ring, submit, wait_complete,
           verify, take_over, At
<1>2. HdrShape /\ CallOK /\ \A d \in Process : d # c => call[d].pc = "idle"
    BY <1>1 DEF DisplayInv, Alone
\* Where the process goes, and at which stage.
<1>3. ASSUME NEW pc, call'[c].pc = pc, \A d \in Process : d # c => call'[d] = call[d],
             Placed(pc, hdr'.stage), hdr'.stage >= 4 => gpu'.completion /\ gpu'.work = "idle"
      PROVE  FinishInv'
    <2>1. Placed("idle", hdr'.stage)
        BY DEF Placed, Setup
    <2>2. \A d \in Process : Placed(call'[d].pc, hdr'.stage)
        BY <1>2, <1>3, <2>1, Zenon
    <2> QED
        BY <1>3, <2>2, Zenon DEF FinishInv
<1>4. ASSUME NEW error, driver_error(c, error), UNCHANGED gpu
      PROVE  FinishInv'
    <2>1. hdr'.stage = hdr.stage
        BY <1>2, <1>4, HdrStatus DEF driver_error
    <2>2. call'[c].pc = "release" /\ \A d \in Process : d # c => call'[d] = call[d]
        BY <1>2, <1>4, CallGoto DEF driver_error
    <2> QED
        BY <1>4, <2>1, <2>2, FinishStays
<1>5. CASE release(c)
    <2>1. hdr'.stage = hdr.stage /\ UNCHANGED gpu
        BY <1>2, <1>5, HdrBusy DEF release
    <2>2. call'[c].pc = "idle" /\ \A d \in Process : d # c => call'[d] = call[d]
        BY <1>2, <1>5, CallGoto DEF release
    <2> QED
        BY <2>1, <2>2, FinishStays
<1>6. CASE draw_desktop(c)
    <2>1. CASE driver_error(c, "ALREADY_STARTED")
        BY <1>4, <1>6, <2>1 DEF draw_desktop
    <2>2. CASE hdr' = [hdr EXCEPT !.stage = 2] /\ Goto(c, "wait_ring")
        <3>1. hdr'.stage = 2
            BY <1>2, <2>2, HdrStage
        <3>2. call'[c].pc = "wait_ring" /\ \A d \in Process : d # c => call'[d] = call[d]
            BY <1>2, <2>2, CallGoto
        <3>3. Placed("wait_ring", hdr'.stage) /\ ~(hdr'.stage >= 4)
            BY <3>1 DEF Placed
        <3> QED
            BY <1>3, <3>2, <3>3
    <2> QED
        BY <1>6, <2>1, <2>2, Zenon DEF draw_desktop
<1>7. CASE build_and_stop(c)
    <2>1. UNCHANGED gpu /\ call[c].pc \in Setup
        BY <1>7 DEF build_and_stop, At, Setup
    <2>2. CASE Goto(c, "wait_stop") /\ UNCHANGED hdr
        <3>1. call'[c].pc = "wait_stop" /\ \A d \in Process : d # c => call'[d] = call[d]
            BY <1>2, <2>2, CallGoto
        <3>2. hdr.stage < 4 /\ hdr.stage \in 0 .. 6
            BY <1>2, <2>1 DEF FinishInv, Placed, HdrShape
        <3>3. Placed("wait_stop", hdr'.stage) /\ ~(hdr'.stage >= 4)
            BY <2>2, <3>2 DEF Placed
        <3> QED
            BY <1>3, <3>1, <3>3
    <2>3. \/ driver_error(c, "ENGINE_BUSY") \/ driver_error(c, "COMMAND_OVERFLOW")
          \/ Goto(c, "wait_stop") /\ UNCHANGED hdr
        BY <1>7 DEF build_and_stop
    <2> QED
        BY <1>4, <2>1, <2>2, <2>3
<1>8. CASE set_up_ring(c)
    <2>1. call[c].pc \in Setup
        BY <1>8 DEF set_up_ring, At, Setup
    <2>2. CASE driver_error(c, "ENGINE_BUSY") /\ UNCHANGED gpu
        BY <1>4, <2>2
    <2>3. CASE Goto(c, "submit") /\ UNCHANGED hdr
        <3>1. call'[c].pc = "submit" /\ \A d \in Process : d # c => call'[d] = call[d]
            BY <1>2, <2>3, CallGoto
        <3>2. hdr.stage < 4 /\ hdr.stage \in 0 .. 6
            BY <1>2, <2>1 DEF FinishInv, Placed, HdrShape
        <3>3. Placed("submit", hdr'.stage) /\ ~(hdr'.stage >= 4)
            BY <2>3, <3>2 DEF Placed
        <3> QED
            BY <1>3, <3>1, <3>3
    <2> QED
        BY <1>8, <2>2, <2>3, Zenon DEF set_up_ring
<1>9. CASE submit(c)
    <2>1. hdr' = [hdr EXCEPT !.stage = 3] /\ Goto(c, "complete")
        BY <1>9 DEF submit
    <2>2. hdr'.stage = 3
        BY <1>2, <2>1, HdrStage
    <2>3. call'[c].pc = "complete" /\ \A d \in Process : d # c => call'[d] = call[d]
        BY <1>2, <2>1, CallGoto
    <2>4. Placed("complete", hdr'.stage) /\ ~(hdr'.stage >= 4)
        BY <2>2 DEF Placed, Setup
    <2> QED
        BY <1>3, <2>3, <2>4
<1>10. CASE wait_complete(c)
    <2>1. UNCHANGED gpu
        BY <1>10 DEF wait_complete
    <2>2. CASE /\ gpu.completion /\ ring_empty
               /\ hdr' = [hdr EXCEPT !.stage = 4] /\ Goto(c, "verify")
        <3>1. hdr'.stage = 4
            BY <1>2, <2>2, HdrStage
        <3>2. call'[c].pc = "verify" /\ \A d \in Process : d # c => call'[d] = call[d]
            BY <1>2, <2>2, CallGoto
        <3>3. Placed("verify", hdr'.stage)
            BY <3>1 DEF Placed, Setup
        <3>4. gpu'.completion /\ gpu'.work = "idle"
            BY <2>1, <2>2, Zenon DEF ring_empty
        <3> QED
            BY <1>3, <3>2, <3>3, <3>4, Zenon
    <2> QED
        BY <1>4, <1>10, <2>1, <2>2, Zenon DEF wait_complete
<1>11. CASE verify(c)
    <2>1. UNCHANGED gpu /\ call[c].pc = "verify"
        BY <1>11 DEF verify, At
    <2>2. CASE /\ hdr' = [hdr EXCEPT !.stage = 5]
               /\ call' = [call EXCEPT ![c].pc = "program", ![c].step = 1]
        <3>1. call'[c].pc = "program" /\ \A d \in Process : d # c => call'[d] = call[d]
            BY <1>2, <2>2, Zenon DEF CallOK
        <3>2. Placed("program", hdr'.stage)
            BY DEF Placed, Setup
        <3>3. hdr.stage >= 4
            BY <2>1, Zenon DEF FinishInv, Placed
        <3>4. gpu'.completion /\ gpu'.work = "idle"
            BY <2>1, <3>3, Zenon DEF FinishInv
        <3> QED
            BY <1>3, <3>1, <3>2, <3>4, Zenon
    <2> QED
        BY <1>4, <1>11, <2>1, <2>2, Zenon DEF verify
<1>12. CASE take_over(c)
    <2>1. UNCHANGED gpu /\ call[c].pc = "program" /\ hdr.stage = 5
        BY <1>1, <1>12, Zenon DEF take_over, At, DisplayInv
    <2>2. gpu'.completion /\ gpu'.work = "idle"
        <3>1. hdr.stage >= 4
            BY <2>1
        <3> QED
            BY <2>1, <3>1, Zenon DEF FinishInv
    <2>3. /\ call'[c].pc \in {"program", "release"}
          /\ \A d \in Process : d # c => call'[d] = call[d]
        <3>1. \/ \E n : call' = [call EXCEPT ![c].step = n]
              \/ Goto(c, "release")
            BY <1>12, Zenon DEF take_over, driver_error
        <3>2. CASE \E n : call' = [call EXCEPT ![c].step = n]
            <4>1. PICK n : call' = [call EXCEPT ![c].step = n]
                BY <3>2, Zenon
            <4>2. call'[c] = [call[c] EXCEPT !.step = n]
                BY <1>2, <4>1, Zenon DEF CallOK
            <4>3. call'[c].pc = call[c].pc
                BY <1>2, <4>2 DEF CallOK
            <4>4. \A d \in Process : d # c => call'[d] = call[d]
                BY <1>2, <4>1, Zenon DEF CallOK
            <4> QED
                BY <2>1, <4>3, <4>4
        <3>3. CASE Goto(c, "release")
            BY <1>2, <3>3, CallGoto
        <3> QED
            BY <3>1, <3>2, <3>3
    <2>4. \A pc \in {"program", "release"} : Placed(pc, hdr'.stage)
        BY DEF Placed, Setup
    <2> QED
        BY <1>3, <2>2, <2>3, <2>4, Zenon
<1> QED
    BY <1>5, <1>6, <1>7, <1>8, <1>9, <1>10, <1>11, <1>12, Zenon DEF service

\* Every other step.
LEMMA FinishStep ==
    ASSUME DisplayInv, EngineInv, FinishInv, [Next]_vars
    PROVE  FinishInv'
<1>0. HdrShape /\ CallOK
    BY Zenon DEF DisplayInv
<1>1. CASE UNCHANGED <<hdr, call, gpu>>
    BY <1>1, FinishStays, Zenon
<1>2. CASE \E c \in Process : service(c)
    BY <1>2, FinishService
<1>3. CASE intel915_initialize
    <2>1. UNCHANGED <<call, gpu>> /\ hdr.stage = 0 /\ \A c \in Process : call[c].pc = "idle"
        BY <1>3, Zenon DEF intel915_initialize, DisplayInv
    <2>2. UNCHANGED hdr \/ \E status, present, pipe :
              \/ hdr' = [hdr EXCEPT !.status = status, !.present = present]
              \/ hdr' = [hdr EXCEPT !.present = present, !.pipe = pipe, !.status = status,
                                    !.stage = 1]
        BY <1>3, Zenon DEF intel915_initialize, graphics_failure
    <2>3. hdr'.stage = 0 \/ hdr'.stage = 1
        BY <1>0, <2>1, <2>2, Zenon DEF HdrShape
    <2> QED
        BY <2>1, <2>3 DEF FinishInv, Placed, Setup
<1>4. CASE \E c \in Process : intel915_claim_desktop(c)
    <2>1. PICK c \in Process : intel915_claim_desktop(c)
        BY <1>4
    <2>2. UNCHANGED <<call, gpu>> /\ (UNCHANGED hdr \/ hdr' = [hdr EXCEPT !.owner = c])
        BY <2>1, Zenon DEF intel915_claim_desktop
    <2>3. hdr'.stage = hdr.stage
        BY <1>0, <2>2 DEF HdrShape
    <2> QED
        BY <2>2, <2>3, FinishStays, Zenon
<1>5. CASE \E c \in Process, operation \in 0 .. 1 : intel915_driver_service(c, operation)
    <2>1. PICK c \in Process, operation \in 0 .. 1 : intel915_driver_service(c, operation)
        BY <1>5
    <2>2. UNCHANGED gpu /\ hdr' = [hdr EXCEPT !.busy = TRUE]
        BY <2>1 DEF intel915_driver_service
    <2>3. PICK pc \in {"draw", "release"} : Goto(c, pc)
        BY <2>1, Zenon DEF intel915_driver_service
    <2>4. hdr'.stage = hdr.stage
        BY <1>0, <2>2, HdrBusy
    <2>5. call'[c].pc = pc /\ \A d \in Process : d # c => call'[d] = call[d]
        BY <1>0, <2>3, CallGoto
    <2> QED
        BY <2>2, <2>4, <2>5, FinishStays
<1>6. CASE \E motions \in Motion : intel915_cursor_flush(motions)
    <2>1. PICK to : hdr' = [hdr EXCEPT !.position = to] /\ UNCHANGED <<call, gpu>>
        BY <1>6, Zenon DEF intel915_cursor_flush
    <2>2. hdr'.stage = hdr.stage
        BY <1>0, <2>1, HdrPosition
    <2> QED
        BY <2>1, <2>2, FinishStays, Zenon
\* The engine moves only while it is not idle.
<1>7. CASE firmware_done \/ engine_step
    <2>1. UNCHANGED <<hdr, call>> /\ gpu.work # "idle"
        BY <1>7, Zenon DEF firmware_done, engine_step
    <2>2. ~(hdr'.stage >= 4)
        BY <2>1, Zenon DEF FinishInv
    <2> QED
        BY <2>1, <2>2, Zenon DEF FinishInv
<1>8. CASE intel915_restore_text_display
    <2>1. UNCHANGED <<call, gpu>> /\ hdr' = [hdr EXCEPT !.cursor_enabled = hdr.stage < 5 /\ @]
        BY <1>8 DEF intel915_restore_text_display
    <2>2. hdr'.stage = hdr.stage
        BY <1>0, <2>1 DEF HdrShape
    <2> QED
        BY <2>1, <2>2, FinishStays, Zenon
<1>9. \/ UNCHANGED <<hdr, call, gpu>> \/ graphics \/ intel915_restore_text_display
    BY Zenon DEF Next, panicking, vars, gvars, pvars, vga_capture_startup_font,
       initialize_devices, vm86_program, kernel_panic, nested_exception, vga_restore_text_mode,
       vga_begin_font_access, vga_restore_startup_font, unblank, panic_put_text,
       panic_put_backtrace, halt
<1> QED
    BY <1>1, <1>2, <1>3, <1>4, <1>5, <1>6, <1>7, <1>8, <1>9, Zenon DEF graphics

\* Everything that is inductive about the display.
ScreenInv == DisplayInv /\ PanicInv /\ EngineInv /\ TakeInv /\ PanicReadsMapped /\ FinishInv

\* And it always holds.
LEMMA ScreenInvariant == Spec => []ScreenInv
<1>1. Init => ScreenInv
    BY DisplayInit, PanicInit, EngineInit, FinishInit DEF ScreenInv
<1>2. ScreenInv /\ [Next]_vars => ScreenInv'
    BY PanicStep, TakeStep, FinishStep DEF ScreenInv
<1> QED
    BY <1>1, <1>2, PTL DEF Spec

\* The ring registers and the GTT never change under an engine that still
\* executes the commands of the firmware, however the GPU and the service
\* interleave.
THEOREM EngineIdle == Spec => []EngineIsIdle
<1>1. ScreenInv => EngineIsIdle
    BY DEF ScreenInv, EngineInv
<1> QED
    BY <1>1, ScreenInvariant, PTL

\* From the change of the GTT until the GPU has finished and has drawn both
\* pixels that are read back, the firmware's picture stays and no plane reads the
\* window whose GTT entries the driver sets.
THEOREM TakeoverAlwaysEarned == Spec => []TakeoverIsEarned
<1>1. ScreenInv => TakeoverIsEarned
    <2> SUFFICES ASSUME ScreenInv, gpu.ring = "ours", ~Observed
                 PROVE  /\ display.vga = fw.vga
                        /\ \A p \in Pipe : display.plane[p].on => display.plane[p].base # "window"
        BY Zenon DEF TakeoverIsEarned
    <2>0. hdr.stage \in 0 .. 6 /\ ~(hdr.stage >= 5)
        <3>1. hdr.stage >= 5 => hdr.stage >= 4
            BY DEF ScreenInv, DisplayInv, HdrShape
        <3>2. hdr.stage >= 5 => Observed
            BY <3>1, Zenon DEF ScreenInv, EngineInv, FinishInv, Observed
        <3> QED
            BY <3>2 DEF ScreenInv, DisplayInv, HdrShape
    <2>1. hdr.stage < 5 /\ Supported /\ fw \in Firmware
        BY <2>0 DEF ScreenInv, EngineInv
    <2>2. Untouched
        BY <2>1 DEF ScreenInv, DisplayInv
    <2>3. ~window_conflict(fw)
        BY <2>1, CentreIsInside
    <2>4. \A p \in Pipe : display.plane[p].base = fw.plane[p]
        BY <2>2, Zenon DEF Untouched, PlaneOf
    <2>5. display.vga = fw.vga
        BY <2>2, Zenon DEF Untouched
    <2> QED
        BY <2>3, <2>4, <2>5 DEF window_conflict
<1> QED
    BY <1>1, ScreenInvariant, PTL

\* A desktop that is told DRAWN is on every output that is switched on.
THEOREM DesktopShown == Spec => []DesktopIsShown
<1>1. ScreenInv => DesktopIsShown
    <2> SUFFICES ASSUME ScreenInv, kernel = "running", hdr.status = "DRAWN"
                 PROVE  /\ ~display.vga
                        /\ \A p \in {fw.lvds, fw.adpa} \ {Off} :
                              display.plane[p].on /\ display.plane[p].base = "window"
        BY SMTT(30) DEF DesktopIsShown
    <2>1. Shown /\ hdr.stage = 6
        BY Zenon DEF ScreenInv, TakeInv, DisplayInv
    <2>2. fw \in Firmware /\ Supported /\ hdr.pipe = output_pipe(fw)
        BY <2>1 DEF ScreenInv, EngineInv
    <2>3. \A p \in {fw.lvds, fw.adpa} \ {Off} : p = hdr.pipe
        BY <2>2, CentreIsInside, SMTT(30)
    <2> QED
        BY <2>1, <2>3 DEF Shown
<1> QED
    BY <1>1, ScreenInvariant, PTL

\* The cursor is where the header says, on the screen and on one pipe only,
\* whatever motions come and whenever the lock refuses them.
THEOREM CursorMatchesHeader == Spec => []CursorMatches
<1>1. ScreenInv => CursorMatches
    <2> SUFFICES ASSUME ScreenInv, kernel = "running", hdr.status = "DRAWN"
                 PROVE  /\ display.cursor[hdr.pipe].on /\ ~display.cursor[1 - hdr.pipe].on
                        /\ display.cursor[hdr.pipe].shown = hdr.position
                        /\ hdr.position \in (0 .. fw.width - 1) \X (0 .. fw.height - 1)
        BY DEF CursorMatches
    <2>1. Shown /\ hdr.stage = 6
        BY Zenon DEF ScreenInv, TakeInv, DisplayInv
    <2>2. fw \in Firmware /\ Supported /\ hdr.pipe = output_pipe(fw)
        BY <2>1 DEF ScreenInv, EngineInv
    <2>3. hdr.pipe \in Pipe
        BY <2>2, CentreIsInside, Zenon
    <2>4. 1 - hdr.pipe \in Pipe /\ 1 - hdr.pipe # hdr.pipe
        BY <2>3 DEF Pipe
    <2> QED
        BY <2>1, <2>4, Zenon DEF Shown, Screen
<1> QED
    BY <1>1, ScreenInvariant, PTL

\* The backtrace of a panic, and of a panic inside it, reads mapped memory only.
THEOREM PanicReadsSafely == Spec => []PanicReadsMapped
<1>1. ScreenInv => PanicReadsMapped
    BY DEF ScreenInv
<1> QED
    BY <1>1, ScreenInvariant, PTL

=============================================================================
