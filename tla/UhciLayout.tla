----------------------------- MODULE UhciLayout -----------------------------
(***************************************************************************)
(* The arithmetic of the UHCI driver: the interrupt a controller is wired  *)
(* to, the words of a transfer descriptor, how often a mouse is asked for  *)
(* reports, and what is written to a port register.                        *)
(***************************************************************************)
EXTENDS Integers

\* Four bits of a word.
nibble(word, i) == (word \div 16 ^ i) % 16

\* The I/O APIC input of USB function 0 .. 3 behind its PCI pin, or -1: the pin
\* selects one of the lines PIRQ A .. H.  supported: the IDs of the chipset and of
\* the controller are those of an ICH6.
uhci_resolve_gsi(supported, function, pin, d29ip, d29ir) ==
    IF /\ supported /\ function < 4
       /\ pin \in 1 .. 4 /\ nibble(d29ip, function) = pin
       /\ nibble(d29ir, pin - 1) < 8
    THEN 16 + nibble(d29ir, pin - 1) ELSE -1

\* A length goes into a descriptor as its predecessor in eleven bits.
length_field(length) == (length - 1) % 2048

\* The token of a descriptor, as its low 21 bits (PID, device address, endpoint
\* and toggle) and its high 11 bits (length).
IN_PID == 105
OUT_PID == 225
SETUP_PID == 45

TOKEN_ERROR == [low |-> 2097151, high |-> 2047]

uhci_token(pid, address, endpoint, toggle, length) ==
    IF /\ pid \in {IN_PID, OUT_PID, SETUP_PID} /\ address <= 127 /\ endpoint <= 15
       /\ toggle <= 1 /\ length <= 64
    THEN [low |-> pid + 256 * address + 32768 * endpoint + 524288 * toggle,
          high |-> length_field(length)]
    ELSE TOKEN_ERROR

\* The length of a transfer that is over, -1 for one that failed, -2 for one
\* that is still active.
uhci_completed_length(active, errors, field, requested) ==
    LET actual == (field + 1) % 2048
    IN  IF active THEN -2
        ELSE IF errors \/ actual > requested THEN -1 ELSE actual

\* What is asked for, at most the period the endpoint names.
USB_MOUSE_FULL_SPEED_INTERVAL_MS == 1

usb_mouse_poll_interval(low_speed, advertised_ms) ==
    IF advertised_ms \notin 1 .. 255 THEN 0
    ELSE IF ~low_speed /\ advertised_ms > USB_MOUSE_FULL_SPEED_INTERVAL_MS
    THEN USB_MOUSE_FULL_SPEED_INTERVAL_MS ELSE advertised_ms

\* Doubled from 1 as long as it fits, which is at most seven times.
doubled(n, ms) == IF n * 2 <= ms THEN n * 2 ELSE n

uhci_interval(ms) ==
    IF ms \notin 1 .. 255 THEN 0
    ELSE doubled(doubled(doubled(doubled(doubled(doubled(doubled(1,
             ms), ms), ms), ms), ms), ms), ms)

\* Is the queue head of the reports in the list of this frame?  The controller
\* goes round a list of 1024 frames.
scheduled(frame, interval) == (frame % 1024) % interval = 0

-----------------------------------------------------------------------------
(* The port register, as the set of its bits.                              *)

\* The bits that are cleared by writing them.
CHANGES == {"connect_change", "enable_change", "overcurrent_change"}

uhci_port_update(previous, clear, set) == (previous \ (CHANGES \cup clear)) \cup set

\* The value that acknowledges the changes seen in a register.
acknowledge(value) == uhci_port_update(value, {}, {}) \cup (value \cap CHANGES)

\* The change bits of a register after a write.
changes_after(register, written) == (register \cap CHANGES) \ written

=============================================================================
