--------------------------- MODULE Intel915Layout ---------------------------
(***************************************************************************)
(* The arithmetic of the graphics driver, which the native tests exercise  *)
(* with a few values: where the cursor goes, how large the framebuffer is, *)
(* what is written into the command ring, which pages the cursor gets.     *)
(*                                                                         *)
(* Unsigned words have WORD values.  WORD is 2^32 in the code; the proofs  *)
(* need no more of it than WordAssumption.                                 *)
(***************************************************************************)
EXTENDS Integers, Sequences

CONSTANT WORD

MiB == 1024 * 1024

ASSUME WordAssumption == WORD \in Nat /\ WORD % 2 = 0 /\ WORD >= 512 * MiB

uint32(n) == n % WORD
int32 == -(WORD \div 2) .. (WORD \div 2) - 1

\* One coordinate of the cursor after one motion.  The distance of a negative
\* motion is its negation as an unsigned word.
intel915_move_axis(position, delta, limit) ==
    LET from == IF position >= limit THEN limit - 1 ELSE position
        distance == uint32(-delta)
    IN  IF limit = 0 \/ limit > 2048 THEN 0
        ELSE IF delta < 0 THEN (IF distance > from THEN 0 ELSE from - distance)
        ELSE (IF delta >= limit - from THEN limit - 1 ELSE from + delta)

\* x & ~(n - 1) for a power of two n.
align_down(x, n) == (x \div n) * n

I915_FB_MAX_SIZE == 8 * MiB
I915_CURSOR_WIDTH == 12
I915_CURSOR_HEIGHT == 16

Pitch(width) == align_down(uint32(width * 4 + 63), 64)
Bytes(width, height) == align_down(uint32(Pitch(width) * height + 4095), 4096)

\* Whether a mode is supported; its pitch and size are Pitch and Bytes.
intel915_mode_layout(width, height) ==
    /\ width \in 320 .. 2048 /\ height \in 200 .. 2048
    /\ Bytes(width, height) <= I915_FB_MAX_SIZE

\* The commands for one rectangle over the whole screen: six words, four for
\* the flush and the completion, in words of an even number.  Zero when they
\* do not leave the last words of the ring free.
intel915_build_scene(capacity, width, height, framebuffer_gtt) ==
    IF /\ intel915_mode_layout(width, height)
       /\ framebuffer_gtt % 4096 = 0
       /\ framebuffer_gtt <= 256 * MiB - Bytes(width, height)
       /\ capacity \in 14 .. 1024
    THEN 4 * 10 ELSE 0

\* The second pixel that is read back, an index into words.
probe(width, height) ==
    ((height - I915_CURSOR_HEIGHT) \div 2 + 4) * (Pitch(width) \div 4)
        + (width - I915_CURSOR_WIDTH) \div 2 + 2

=============================================================================
