------------------------------ MODULE Intel915 ------------------------------
(***************************************************************************)
(* The graphics driver: what the kernel sets up at boot, the service of    *)
(* ring 1 that has the GPU draw the desktop and then takes the display     *)
(* over, the cursor that the timer moves, and the return to VGA text.      *)
(*                                                                         *)
(* Boot code and the cursor path run with interrupts off and are single    *)
(* steps.  The ring-1 service is preemptible: each of its writes to a      *)
(* display register is a step, so the timer, a panic of anybody else and   *)
(* the GPU come between any two of them.  A poll gives up after POLL_LIMIT *)
(* reads; here it may give up whenever the condition does not hold.        *)
(***************************************************************************)
EXTENDS Intel915Layout

CONSTANTS
    Process,    \* the processes that call the driver, by TSS selector
    Firmware,   \* the states in which the firmware can leave the hardware
    Motion      \* batches of cursor motions, sequences of <<dx, dy>>

Pipe == 0 .. 1
Off == -1

\* gpu: PCI function present; decode: BARs and stolen memory as expected; lvds,
\* adpa: the pipe of each output, or Off; running: the pipes that run; plane:
\* where each display plane reads; ring: the firmware's ring is on and has work,
\* is off, or was switched off with commands left in it.
ASSUME FirmwareAssumption ==
    /\ Firmware \subseteq [gpu : BOOLEAN, decode : BOOLEAN, gtt : {"off", "conflict", "ok"},
                           lvds : Pipe \cup {Off}, adpa : Pipe \cup {Off},
                           running : SUBSET Pipe, width : Nat, height : Nat,
                           aperture : {128 * MiB, 256 * MiB},
                           plane : [Pipe -> {"off", "stolen", "window"}],
                           ring : {"on", "off", "left"}, vga : BOOLEAN]
    /\ Process \subseteq Nat \ {0}
    /\ Motion \subseteq Seq(int32 \X int32)

VARIABLES
    fw,         \* what the firmware left
    kernel,     \* where the kernel is: boot steps, "running", "panic"
    hdr,        \* struct intel915_shared, and whether panic_state points to it
    call,       \* per process: where in the service it is
    display,    \* planes, cursors and the VGA plane
    gpu         \* the engine: its work, its ring, the GTT, the framebuffer

gvars == <<fw, kernel, hdr, call, display, gpu>>

\* A plane or a cursor takes its control value when its base is written.
PlaneOf(place) == [control |-> place # "off", on |-> place # "off", base |-> place]
NoCursor == [control |-> FALSE, on |-> FALSE, position |-> <<0, 0>>, shown |-> <<0, 0>>]

-----------------------------------------------------------------------------
(* Boot.                                                                   *)

\* Mutant: the other output is not looked at.
output_pipe_First(f) == IF f.lvds # Off THEN f.lvds ELSE f.adpa

\* The pipe to take over, or Off: two outputs on different pipes are refused.
output_pipe(f) ==
    CASE f.lvds = Off -> f.adpa
      [] f.adpa # Off /\ f.adpa # f.lvds -> Off
      [] OTHER -> f.lvds

window_conflict(f) == \E p \in Pipe : f.plane[p] = "window"

\* The last 16 MiB of the aperture.
framebuffer_gtt(f) == f.aperture - 16 * MiB

\* What intel915_initialize finds wrong, in its order.
setup_error(f) ==
    CASE f.gtt = "off" -> "NO_GTT"
      [] f.gtt = "conflict" -> "BAD_MEMORY"
      [] output_pipe(f) = Off -> "NO_DISPLAY"
      [] output_pipe(f) \notin f.running -> "NO_DISPLAY"
      [] ~intel915_mode_layout(f.width, f.height) -> "UNSUPPORTED_MODE"
      [] window_conflict(f) -> "GTT_CONFLICT"
      [] OTHER -> "NONE"

\* graphics_failure; panic_state is set before the last two checks.
graphics_failure(error) ==
    /\ kernel' = "panic"
    /\ hdr' = [hdr EXCEPT !.status = error,
                          !.present = error \in {"GTT_CONFLICT", "NO_SELECTOR"}]

\* Memory, descriptors and the entry gate may also be refused.
intel915_initialize ==
    /\ kernel = "graphics"
    /\ \/ /\ ~fw.gpu
          /\ kernel' = "running" /\ UNCHANGED hdr
       \/ /\ fw.gpu
          /\ kernel' = "panic" /\ UNCHANGED hdr
       \/ /\ fw.gpu /\ fw.decode /\ setup_error(fw) # "NONE"
          /\ graphics_failure(setup_error(fw))
       \/ /\ fw.gpu /\ fw.decode /\ setup_error(fw) = "NONE"
          /\ graphics_failure("NO_SELECTOR")
       \/ /\ fw.gpu /\ fw.decode /\ setup_error(fw) = "NONE"
          /\ kernel' = "desktop"
          /\ hdr' = [hdr EXCEPT !.present = TRUE, !.pipe = output_pipe(fw),
                                !.status = "READY", !.stage = 1]
    /\ UNCHANGED <<fw, call, display, gpu>>

\* desktop_create: the claim is of a READY driver without an owner.
intel915_claim_desktop(c) ==
    /\ kernel = "desktop"
    /\ IF hdr.status = "READY" /\ hdr.owner = 0
       THEN kernel' = "running" /\ hdr' = [hdr EXCEPT !.owner = c]
       ELSE kernel' = "panic" /\ UNCHANGED hdr
    /\ UNCHANGED <<fw, call, display, gpu>>

-----------------------------------------------------------------------------
(* The GPU.  It may stop for good at any point.  That an engine whose ring *)
(* is empty executes nothing any more is assumed of it, as the code does.  *)

firmware_done ==
    /\ gpu.work = "firmware"
    /\ gpu' = [gpu EXCEPT !.work = "idle"]
    /\ UNCHANGED <<fw, kernel, hdr, call, display>>

\* It fills the framebuffer from its first pixel over the one in the middle to
\* its last, or writes elsewhere from some point on; then it stores the completion
\* word, and then the ring is empty.
engine_step ==
    /\ \/ /\ gpu.work = "submitted"
          /\ \E fb \in {gpu.fb} \cup (IF gpu.fb = "old" THEN {"first"} ELSE {}) :
                gpu' = [gpu EXCEPT !.work = "filling", !.fb = fb]
       \/ /\ gpu.work = "filling"
          /\ \E fb \in {gpu.fb} \cup (IF gpu.fb = "first" THEN {"middle", "drawn"} ELSE {}) :
                gpu' = [gpu EXCEPT !.work = "flushing", !.fb = fb]
       \/ /\ gpu.work = "flushing"
          /\ gpu' = [gpu EXCEPT !.work = "completed", !.completion = TRUE]
       \/ /\ gpu.work = "completed"
          /\ gpu' = [gpu EXCEPT !.work = "idle"]
    /\ UNCHANGED <<fw, kernel, hdr, call, display>>

-----------------------------------------------------------------------------
(* The ring-1 service.                                                     *)

At(c, pc) == kernel = "running" /\ call[c].pc = pc
Goto(c, pc) == call' = [call EXCEPT ![c].pc = pc]

\* A caller that is not the owner, an unknown operation, and one that finds the
\* lock taken are refused, which changes nothing.  What is not drawing, or is a
\* repetition of it, only reads the header.
intel915_driver_service(c, operation) ==
    /\ At(c, "idle") /\ hdr.present
    /\ hdr.owner # 0 /\ c = hdr.owner /\ ~hdr.busy
    /\ hdr' = [hdr EXCEPT !.busy = TRUE]
    /\ Goto(c, IF operation = 0 /\ hdr.status # "DRAWN" THEN "draw" ELSE "release")
    /\ UNCHANGED <<fw, kernel, display, gpu>>

release(c) ==
    /\ At(c, "release")
    /\ hdr' = [hdr EXCEPT !.busy = FALSE]
    /\ Goto(c, "idle")
    /\ UNCHANGED <<fw, kernel, display, gpu>>

driver_error(c, error) == hdr' = [hdr EXCEPT !.status = error] /\ Goto(c, "release")

\* Mutant: a failed attempt may be repeated.
first_attempt_Retry == hdr.status # "DRAWN"

first_attempt == hdr.status = "READY" /\ hdr.stage = 1

\* draw_desktop: one attempt ever.
draw_desktop(c) ==
    /\ At(c, "draw")
    /\ \/ ~first_attempt /\ driver_error(c, "ALREADY_STARTED")
       \/ /\ first_attempt
          /\ hdr' = [hdr EXCEPT !.stage = 2]
          /\ Goto(c, "wait_ring")
    /\ UNCHANGED <<fw, kernel, display, gpu>>

\* Mutant: the ring is not looked at.
ring_empty_Assumed == TRUE

\* HEAD is TAIL.  In a ring that is off they need not meet.
ring_empty == gpu.work = "idle" /\ ~(gpu.ring = "off" /\ fw.ring = "left")

\* Mutant: the wait has no limit.
gives_up_Never == FALSE

\* wait_for_ring has read the ring POLL_LIMIT times and it is not empty.
gives_up == ~ring_empty

\* MODE_IDLE: the stopped parser executes nothing, whatever the ring holds.
mode_idle == gpu.work = "idle"

\* A ring that the firmware left on must run empty.  The scene is built in the
\* memory of the ring, and the parser is stopped.
build_and_stop(c) ==
    /\ At(c, "wait_ring")
    /\ \/ /\ gpu.ring # "off" /\ gives_up
          /\ driver_error(c, "ENGINE_BUSY")
       \/ /\ gpu.ring = "off" \/ ring_empty
          /\ IF intel915_build_scene(1024, fw.width, fw.height, framebuffer_gtt(fw)) = 0
             THEN driver_error(c, "COMMAND_OVERFLOW")
             ELSE Goto(c, "wait_stop") /\ UNCHANGED hdr
    /\ UNCHANGED <<fw, kernel, display, gpu>>

\* MODE_IDLE is enough, and where it does not come an empty ring is.  The ring is
\* switched off, the GTT and the ring registers are set, the parser goes on with
\* an empty ring.
set_up_ring(c) ==
    /\ At(c, "wait_stop")
    /\ \/ gives_up /\ driver_error(c, "ENGINE_BUSY") /\ UNCHANGED gpu
       \/ /\ mode_idle \/ ring_empty
          /\ gpu' = [gpu EXCEPT !.ring = "ours", !.completion = FALSE]
          /\ Goto(c, "submit") /\ UNCHANGED hdr
    /\ UNCHANGED <<fw, kernel, display>>

submit(c) ==
    /\ At(c, "submit")
    /\ hdr' = [hdr EXCEPT !.stage = 3]
    /\ gpu' = [gpu EXCEPT !.work = "submitted"]
    /\ Goto(c, "complete")
    /\ UNCHANGED <<fw, kernel, display>>

\* The completion word, then the empty ring; each poll has its limit.
wait_complete(c) ==
    /\ At(c, "complete")
    /\ \/ ~gpu.completion /\ driver_error(c, "GPU_TIMEOUT")
       \/ gpu.completion /\ gives_up /\ driver_error(c, "GPU_TIMEOUT")
       \/ /\ gpu.completion /\ ring_empty
          /\ hdr' = [hdr EXCEPT !.stage = 4]
          /\ Goto(c, "verify")
    /\ UNCHANGED <<fw, kernel, display, gpu>>

\* Mutant: the first pixel is enough.
pixels_drawn_First == gpu.fb # "old"

\* The first pixel and one in the middle of the screen; no other is read.
pixels_drawn == gpu.fb \in {"middle", "drawn"}

verify(c) ==
    /\ At(c, "verify")
    /\ \/ ~pixels_drawn /\ driver_error(c, "BAD_PIXELS")
       \/ /\ pixels_drawn
          /\ hdr' = [hdr EXCEPT !.stage = 5]
          /\ call' = [call EXCEPT ![c].pc = "program", ![c].step = 1]
    /\ UNCHANGED <<fw, kernel, display, gpu>>

-----------------------------------------------------------------------------
(* The display is taken over.                                              *)

Write(reg, pipe, value) == [reg |-> reg, pipe |-> pipe, value |-> value]

Centre(f) == <<(f.width - I915_CURSOR_WIDTH) \div 2, (f.height - I915_CURSOR_HEIGHT) \div 2>>

\* The writes in their order: both planes off, ours on, VGA off; both cursors
\* off, ours on.
program(p, f) ==
    <<Write("control", 0, FALSE), Write("base", 0, f.plane[0]),
      Write("control", 1, FALSE), Write("base", 1, f.plane[1]),
      Write("control", p, TRUE), Write("base", p, "window"), Write("vga", p, FALSE),
      Write("cursor_control", 0, FALSE), Write("cursor_base", 0, 0),
      Write("cursor_control", 1, FALSE), Write("cursor_base", 1, 0),
      Write("cursor_base", p, 0), Write("cursor_control", p, TRUE),
      Write("cursor_position", p, Centre(f)), Write("cursor_base", p, 0)>>

write_register(d, w) ==
    LET plane == d.plane[w.pipe]
        cursor == d.cursor[w.pipe]
    IN  CASE w.reg = "control" -> [d EXCEPT !.plane[w.pipe].control = w.value]
          [] w.reg = "base" ->
                [d EXCEPT !.plane[w.pipe] = [plane EXCEPT !.on = plane.control, !.base = w.value]]
          [] w.reg = "vga" -> [d EXCEPT !.vga = w.value]
          [] w.reg = "cursor_control" -> [d EXCEPT !.cursor[w.pipe].control = w.value]
          [] w.reg = "cursor_position" -> [d EXCEPT !.cursor[w.pipe].position = w.value]
          [] w.reg = "cursor_base" ->
                [d EXCEPT !.cursor[w.pipe] = [cursor EXCEPT !.on = cursor.control,
                                                            !.shown = cursor.position]]

\* One write; the last one is read back, and the cursor may turn out not to work.
take_over(c) ==
    /\ At(c, "program")
    /\ LET writes == program(hdr.pipe, fw)
           step == call[c].step
       IN  \/ /\ step <= Len(writes)
              /\ display' = write_register(display, writes[step])
              /\ call' = [call EXCEPT ![c].step = step + 1]
              /\ hdr' = [hdr EXCEPT !.position = IF writes[step].reg = "cursor_position"
                                                 THEN Centre(fw) ELSE @]
           \/ /\ step > Len(writes)
              /\ driver_error(c, "CURSOR_FAILED")
              /\ UNCHANGED display
           \/ /\ step > Len(writes)
              /\ hdr' = [hdr EXCEPT !.cursor_enabled = TRUE, !.stage = 6, !.status = "DRAWN"]
              /\ Goto(c, "release")
              /\ UNCHANGED display
    /\ UNCHANGED <<fw, kernel, gpu>>

-----------------------------------------------------------------------------
(* The kernel's own paths to the display.                                  *)

\* Where a batch takes the cursor; at[i] is where it is after i motions.
move(at, m) == <<intel915_move_axis(at[1], m[1], fw.width),
                 intel915_move_axis(at[2], m[2], fw.height)>>
Moved(motions) ==
    LET at[i \in 0 .. Len(motions)] ==
            IF i = 0 THEN hdr.position ELSE move(at[i - 1], motions[i])
    IN  at[Len(motions)]

\* Mutant: the new position is not armed.
show_Unarmed(d, p, at) == [d EXCEPT !.cursor[p].position = at]
show(d, p, at) ==
    [d EXCEPT !.cursor[p] = [d.cursor[p] EXCEPT !.position = at, !.shown = at,
                                                !.on = d.cursor[p].control]]

\* intel915_update_cursor, from the timer: refused while ring 1 holds the lock.
intel915_cursor_flush(motions) ==
    /\ kernel = "running" /\ hdr.present
    /\ ~hdr.busy /\ hdr.status = "DRAWN" /\ hdr.cursor_enabled
    /\ Moved(motions) # hdr.position
    /\ display' = show(display, hdr.pipe, Moved(motions))
    /\ hdr' = [hdr EXCEPT !.position = Moved(motions)]
    /\ UNCHANGED <<fw, kernel, call, gpu>>

\* Mutant: only a finished takeover is undone.
takeover_begun_Finished == hdr.present /\ hdr.stage >= 6

takeover_begun == hdr.present /\ hdr.stage >= 5

\* intel915_restore_text_display, what a panic does first.
restored(d) ==
    IF ~takeover_begun THEN d
    ELSE [plane |-> [p \in Pipe |-> [control |-> FALSE, on |-> FALSE, base |-> fw.plane[p]]],
          cursor |-> [p \in Pipe |-> [NoCursor EXCEPT !.position = d.cursor[p].position,
                                                      !.shown = d.cursor[p].position]],
          vga |-> TRUE]

-----------------------------------------------------------------------------
GInit ==
    /\ fw \in Firmware
    /\ hdr = [present |-> FALSE, owner |-> 0, status |-> "NOT_FOUND", stage |-> 0,
              busy |-> FALSE, pipe |-> 0, position |-> <<0, 0>>, cursor_enabled |-> FALSE]
    /\ call = [c \in Process |-> [pc |-> "idle", step |-> 0]]
    /\ display = [plane |-> [p \in Pipe |-> PlaneOf(fw.plane[p])],
                  cursor |-> [p \in Pipe |-> NoCursor], vga |-> fw.vga]
    /\ gpu = [work |-> IF fw.ring = "on" THEN "firmware" ELSE "idle",
              ring |-> IF fw.ring = "on" THEN "firmware" ELSE "off",
              completion |-> FALSE, fb |-> "old"]

\* The steps of a process inside the service.
service(c) ==
    \/ release(c) \/ draw_desktop(c) \/ build_and_stop(c) \/ set_up_ring(c) \/ submit(c)
    \/ wait_complete(c) \/ verify(c) \/ take_over(c)

graphics ==
    \/ intel915_initialize
    \/ \E c \in Process : intel915_claim_desktop(c) \/ service(c)
    \/ \E c \in Process, operation \in 0 .. 1 : intel915_driver_service(c, operation)
    \/ \E motions \in Motion : intel915_cursor_flush(motions)
    \/ firmware_done
    \/ engine_step

=============================================================================
