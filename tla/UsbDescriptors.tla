--------------------------- MODULE UsbDescriptors ---------------------------
(***************************************************************************)
(* The two parsers of USB configurations: the mouse driver's, which wants  *)
(* a boot mouse, and the boot loader's, which wants a mass storage device. *)
(* A configuration is [header, configuration, items]: is its header valid, *)
(* the value that selects it, and the descriptors that follow.  An item    *)
(* has a type, a size class (broken: less than two bytes or past the end,  *)
(* short: too small for its type) and the fields of its type.              *)
(***************************************************************************)
EXTENDS Integers, Sequences
LOCAL INSTANCE SequencesExt

NOTHING == [number |-> -1]

Valid(config) == config.header /\ config.configuration # 0

-----------------------------------------------------------------------------
(* usb_mouse_find_interface.                                               *)

boot_mouse(d) == d.alternate = 0 /\ d.class = "hid_boot_mouse"

MouseStart == [ok |-> TRUE, candidate |-> FALSE, number |-> 0, have |-> FALSE,
               endpoints |-> 0, expected |-> 0, found |-> NOTHING]

mouse_endpoint_ok(d, low) ==
    /\ d.endpoint # 0 /\ ~d.reserved
    /\ d.packet \in 3 .. (IF low THEN 8 ELSE 64)
    /\ d.interval # 0 /\ (low => d.interval >= 10)

mouse_interface(s, d) ==
    IF d.size = "short" \/ (s.have /\ s.endpoints # s.expected)
    THEN [s EXCEPT !.ok = FALSE]
    ELSE [s EXCEPT !.have = TRUE, !.endpoints = 0, !.expected = d.endpoints,
                   !.number = d.number, !.candidate = boot_mouse(d)]

mouse_endpoint(s, d, low) ==
    IF d.size = "short" \/ ~s.have \/ s.endpoints + 1 > s.expected
    THEN [s EXCEPT !.ok = FALSE]
    ELSE LET counted == [s EXCEPT !.endpoints = @ + 1]
         IN  IF ~(s.candidate /\ s.found = NOTHING /\ d.in /\ d.transfer = "interrupt")
             THEN counted
             ELSE IF ~mouse_endpoint_ok(d, low) THEN [s EXCEPT !.ok = FALSE]
             ELSE [counted EXCEPT !.found =
                      [number |-> s.number, endpoint |-> d.endpoint,
                       packet |-> d.packet, interval |-> d.interval]]

mouse_item(s, d, low) ==
    IF ~s.ok THEN s
    ELSE IF d.size = "broken" \/ d.type \in {"device", "configuration"}
    THEN [s EXCEPT !.ok = FALSE]
    ELSE IF d.type = "interface" THEN mouse_interface(s, d)
    ELSE IF d.type = "endpoint" THEN mouse_endpoint(s, d, low) ELSE s

\* The result -1, 0 or 1, and the endpoint that was selected.
usb_mouse_find_interface(config, low) ==
    LET s == FoldLeft(LAMBDA r, d : mouse_item(r, d, low), MouseStart, config.items)
    IN  IF ~Valid(config) \/ ~s.ok \/ (s.have /\ s.endpoints # s.expected)
        THEN [result |-> -1, selected |-> NOTHING]
        ELSE [result |-> IF s.found = NOTHING THEN 0 ELSE 1, selected |-> s.found]

-----------------------------------------------------------------------------
(* boot_parse_usb_configuration.                                           *)

storage_interface(d) ==
    d.alternate = 0 /\ d.endpoints = 2 /\ d.class = "bulk_only_storage"

\* over: "no" while the loop runs, then "failed" or "done".
StorageStart == [over |-> "no", storage |-> FALSE, number |-> 0, in |-> 0, out |-> 0]

storage_endpoint_ok(d) ==
    d.transfer = "bulk" /\ d.endpoint # 0 /\ ~d.reserved /\ d.packet = 512

Complete(s) == s.storage /\ s.in # 0 /\ s.out # 0

storage_item(s, d) ==
    LET failed == [s EXCEPT !.over = "failed"]
    IN  IF s.over # "no" THEN s
        ELSE IF d.size = "broken" THEN failed
        ELSE IF d.type = "interface"
        THEN IF d.size = "short" THEN failed
             ELSE IF Complete(s) THEN [s EXCEPT !.over = "done"]
             ELSE [over |-> "no", storage |-> storage_interface(d), number |-> d.number,
                   in |-> 0, out |-> 0]
        ELSE IF d.type = "endpoint" /\ s.storage
        THEN IF \/ d.size = "short" \/ ~storage_endpoint_ok(d)
                \/ (IF d.in THEN s.in ELSE s.out) # 0
             THEN failed
             ELSE IF d.in THEN [s EXCEPT !.in = d.endpoint] ELSE [s EXCEPT !.out = d.endpoint]
        ELSE s

\* The interface with its two endpoints, or NOTHING.
boot_parse_usb_configuration(config) ==
    LET s == FoldLeft(storage_item, StorageStart, config.items)
    IN  IF Valid(config) /\ s.over # "failed" /\ Complete(s)
        THEN [number |-> s.number, in |-> s.in, out |-> s.out] ELSE NOTHING

=============================================================================
