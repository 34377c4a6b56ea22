------------------------------- MODULE Panic -------------------------------
(***************************************************************************)
(* kernel_main up to the running system, and the way out of it: a panic    *)
(* brings the VGA text screen back, whoever has the display, and reports.  *)
(*                                                                         *)
(* A panic runs with interrupts off, but an exception or an NMI inside it  *)
(* starts another one from the beginning.  VM86 programs have all ports    *)
(* and the memory of the VGA, so they may leave it in any state; what they *)
(* load into the DAC the panic takes back only in part.                    *)
(***************************************************************************)
EXTENDS Intel915

CONSTANTS
    PANIC_BACKTRACE_DEPTH,  \* 10
    Frame,                  \* the words found where a frame pointer is expected
    Mapped,                 \* the pages that are mapped
    Reload,                 \* the sets of DAC entries that VM86 programs load
    MAX_NESTED              \* bound on the exceptions inside panics

Dac == 0 .. 63
Other == 16

ASSUME PanicAssumption ==
    /\ PANIC_BACKTRACE_DEPTH \in Nat \ {0} /\ MAX_NESTED \in Nat
    /\ Frame \subseteq 0 .. WORD - 1 /\ Mapped \subseteq Nat
    /\ Reload \subseteq SUBSET Dac

VARIABLES
    vga,        \* mode of the registers, palette (the DAC: the text colour in
                \* each entry, or Other), visible, font, text
    font,       \* startup_font: the copy in memory
    panic       \* step of the panic, exceptions in it, the backtrace

pvars == <<vga, font, panic>>
vars == <<gvars, pvars>>

-----------------------------------------------------------------------------
(* kernel_main.                                                            *)

\* First of all the font is read from plane 2 of the VGA.
vga_capture_startup_font ==
    /\ kernel = "start"
    /\ font' = vga.font
    /\ kernel' = "devices"
    /\ UNCHANGED <<fw, hdr, call, display, gpu, vga, panic>>

\* Exceptions, keyboard, mouse, storage, USB and audio, which can all panic.
initialize_devices ==
    /\ kernel = "devices"
    /\ kernel' = "graphics"
    /\ UNCHANGED <<fw, hdr, call, display, gpu, pvars>>

\* A VM86 program writes to the VGA.
vm86_program ==
    /\ kernel = "running"
    /\ \E mode \in {"text", "graphics", "font"}, whole \in BOOLEAN :
       \E loaded \in Reload :
          vga' = [mode |-> mode, visible |-> whole,
                  palette |-> [e \in Dac |-> IF e \in loaded THEN Other ELSE vga.palette[e]],
                  font |-> IF whole THEN vga.font ELSE "damaged", text |-> "other"]
    /\ UNCHANGED <<gvars, font, panic>>

-----------------------------------------------------------------------------
(* The panic.                                                              *)

\* A check that fails, or an exception of the kernel or of a driver.
kernel_panic ==
    /\ kernel # "panic"
    /\ kernel' = "panic"
    /\ UNCHANGED <<fw, hdr, call, display, gpu, pvars>>

\* exception_dispatch is installed after the font is captured.
nested_exception ==
    /\ kernel = "panic" /\ font # "none" /\ panic.nested < MAX_NESTED
    /\ panic' = [panic EXCEPT !.step = "display", !.nested = @ + 1, !.depth = 0, !.frame = 0]
    /\ UNCHANGED <<gvars, vga, font>>

Step(from, to) ==
    /\ kernel = "panic" /\ panic.step = from
    /\ panic' = [panic EXCEPT !.step = to]

intel915_restore_text_display ==
    /\ Step("display", "mode")
    /\ display' = restored(display)
    /\ hdr' = [hdr EXCEPT !.cursor_enabled = hdr.stage < 5 /\ @]
    /\ UNCHANGED <<fw, kernel, call, gpu, vga, font>>

\* The DAC entry that a text colour selects in mode 3.
mode3_attribute(colour) ==
    CASE colour = 6 -> 20
      [] colour >= 8 -> 48 + colour
      [] OTHER -> colour

\* What the screen shows for a text colour.
shown_colour(v, colour) == v.palette[mode3_attribute(colour)]

\* The first 16 entries of the DAC get the 16 text colours.
vga_restore_palette(dac) == [e \in Dac |-> IF e < 16 THEN e ELSE dac[e]]

\* Sequencer, CRTC, graphics and attribute registers of mode 3, output blanked,
\* then the palette.
vga_restore_text_mode ==
    /\ Step("mode", "font")
    /\ vga' = [vga EXCEPT !.mode = "text", !.palette = vga_restore_palette(@), !.visible = FALSE]
    /\ UNCHANGED <<gvars, font>>

\* The font of a system that never captured it is the firmware's.
vga_begin_font_access ==
    /\ Step("font", IF font = "none" THEN "unblank" ELSE "glyphs")
    /\ vga' = IF font = "none" THEN vga ELSE [vga EXCEPT !.mode = "font"]
    /\ UNCHANGED <<gvars, font>>

vga_restore_startup_font ==
    /\ Step("glyphs", "unblank")
    /\ vga' = [vga EXCEPT !.font = font, !.mode = "text"]
    /\ UNCHANGED <<gvars, font>>

unblank ==
    /\ Step("unblank", "report")
    /\ vga' = [vga EXCEPT !.visible = TRUE]
    /\ UNCHANGED <<gvars, font>>

\* What is written to the text memory goes into the text when the registers say
\* so, else over the glyphs.
panic_put_character(v) == IF v.mode = "text" THEN [v EXCEPT !.text = "report"]
                                             ELSE [v EXCEPT !.font = "damaged"]

\* The screen is cleared and the report written.
panic_put_text ==
    /\ Step("report", "trace")
    /\ vga' = panic_put_character(vga)
    /\ UNCHANGED <<gvars, font>>

page(address) == address \div 4096

\* Mutant: only the first byte is looked at.
panic_range_is_mapped_First(address, size) == size = 0 \/ page(address) \in Mapped

\* The first and the last byte of the range, which does not wrap.
panic_range_is_mapped(address, size) ==
    LET last == uint32(address + size - 1)
    IN  size = 0 \/ (last >= address /\ page(address) \in Mapped /\ page(last) \in Mapped)

\* One frame of the call stack: its two words are read, and the walk goes on
\* upwards.  Other panics report no call stack.
panic_put_backtrace ==
    /\ kernel = "panic" /\ panic.step = "trace"
    /\ \E next \in Frame :
          /\ panic.depth + 1 < PANIC_BACKTRACE_DEPTH
          /\ panic.depth = 0 \/ next > panic.frame
          /\ next % 4 = 0 /\ panic_range_is_mapped(next, 8)
          /\ panic' = [panic EXCEPT !.depth = @ + 1, !.frame = next]
    /\ UNCHANGED <<gvars, vga, font>>

halt ==
    /\ Step("trace", "halted")
    /\ UNCHANGED <<gvars, vga, font>>

-----------------------------------------------------------------------------
\* The DAC as the BIOS leaves it in mode 3: each colour where its attribute
\* selects it.
bios_dac ==
    [e \in Dac |-> CASE e \in 0 .. 5 \cup {7} -> e
                     [] e = 20 -> 6
                     [] e >= 56 -> e - 48
                     [] OTHER -> Other]

Init ==
    /\ GInit
    /\ kernel = "start"
    /\ vga = [mode |-> "text", palette |-> bios_dac, visible |-> TRUE,
              font |-> "startup", text |-> "other"]
    /\ font = "none"
    /\ panic = [step |-> "display", nested |-> 0, depth |-> 0, frame |-> 0]

panicking ==
    \/ intel915_restore_text_display \/ vga_restore_text_mode \/ vga_begin_font_access
    \/ vga_restore_startup_font \/ unblank \/ panic_put_text \/ panic_put_backtrace \/ halt

Next ==
    \/ graphics /\ UNCHANGED pvars
    \/ vga_capture_startup_font \/ initialize_devices
    \/ vm86_program
    \/ kernel_panic \/ nested_exception \/ panicking

Spec == Init /\ [][Next]_vars

\* A process inside the service is a task, and every task runs again and again
\* (Scheduler.EveryTaskRuns).  Nothing is assumed of the GPU.
FairSpec ==
    /\ Spec
    /\ \A c \in Process : WF_vars(service(c) /\ UNCHANGED pvars)

-----------------------------------------------------------------------------
(* Properties.                                                             *)

\* Wherever a panic interrupts the takeover of the display, and whatever VM86
\* programs did to the VGA, its report ends up in the text memory of a text
\* screen: once the takeover has begun native planes and cursors off and the VGA
\* plane on, before it the display as the firmware left it; always mode 3, the
\* font, output enabled, and the colours that select one of the DAC entries 0 to
\* 15, the report's background among them.  Its foreground, white, selects entry
\* 63, which a VM86 program can have changed for good.
PanicReturnsToText ==
    panic.step = "halted" =>
        /\ hdr.stage >= 5 => /\ display.vga
                             /\ \A p \in Pipe : ~display.plane[p].on /\ ~display.cursor[p].on
        /\ hdr.stage < 5 => display = [plane |-> [p \in Pipe |-> PlaneOf(fw.plane[p])],
                                       cursor |-> [p \in Pipe |-> NoCursor], vga |-> fw.vga]
        /\ vga.mode = "text" /\ vga.visible /\ vga.font = "startup" /\ vga.text = "report"
        /\ \A colour \in 0 .. 5 \cup {7} : shown_colour(vga, colour) = colour

\* The GPU has finished, and the two pixels that are read back are drawn.
Observed == gpu.completion /\ gpu.work = "idle" /\ gpu.fb \in {"middle", "drawn"}

\* "Do not replace VGA until an actual GPU write has been observed": from the
\* moment the GTT is changed until the GPU has finished and has drawn the first
\* pixel and the middle one, no plane reads the window that the driver maps, and
\* the firmware's picture stays.  The rest of the picture is not looked at.
TakeoverIsEarned ==
    gpu.ring = "ours" /\ ~Observed =>
        /\ display.vga = fw.vga
        /\ \A p \in Pipe : display.plane[p].on => display.plane[p].base # "window"

\* "Stop the parser before replacing RAM": the ring registers and the GTT never
\* change under an engine that still executes the firmware's commands.
EngineIsIdle == gpu.ring = "ours" => gpu.work # "firmware"

\* A desktop that is told DRAWN is on every output that is switched on.
DesktopIsShown ==
    kernel = "running" /\ hdr.status = "DRAWN" =>
        /\ ~display.vga
        /\ \A p \in {fw.lvds, fw.adpa} \ {Off} :
              display.plane[p].on /\ display.plane[p].base = "window"

\* The cursor on the screen is where the header says, on the screen, on one pipe
\* only: through motions that overshoot an edge, and armed each time.
CursorMatches ==
    kernel = "running" /\ hdr.status = "DRAWN" =>
        /\ display.cursor[hdr.pipe].on /\ ~display.cursor[1 - hdr.pipe].on
        /\ display.cursor[hdr.pipe].shown = hdr.position
        /\ hdr.position \in (0 .. fw.width - 1) \X (0 .. fw.height - 1)

\* The backtrace reads mapped memory only: walking a damaged stack faults at no
\* frame.  (The dump of instruction bytes, which asks for each byte, is left out.)
PanicReadsMapped ==
    panic.depth > 0 => \A i \in 0 .. 7 : page(panic.frame + i) \in Mapped

\* The lock of the driver is released though the GPU may hang at any point: the
\* cursor is not lost to a call that never ends.
ServiceReturns == \A c \in Process : call[c].pc # "idle" ~> call[c].pc = "idle" \/ kernel = "panic"

=============================================================================
