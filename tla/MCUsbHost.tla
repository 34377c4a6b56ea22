------------------------------ MODULE MCUsbHost ------------------------------
(***************************************************************************)
(* Instances of UsbHost for TLC, and the configuration parsers compared    *)
(* with what they should find, over all short configurations made of a few *)
(* telling descriptors.                                                    *)
(***************************************************************************)
EXTENDS UsbHost, UsbDescriptors, FiniteSets

Interface(n, class, endpoints) ==
    [type |-> "interface", size |-> "full", number |-> n, alternate |-> 0,
     class |-> class, endpoints |-> endpoints]

Endpoint(n, in, transfer, packet) ==
    [type |-> "endpoint", size |-> "full", endpoint |-> n, reserved |-> FALSE,
     in |-> in, transfer |-> transfer, packet |-> packet, interval |-> 10]

Configurations(items, n) ==
    {[header |-> TRUE, configuration |-> 1, items |-> s] :
        s \in UNION {[1 .. k -> items] : k \in 0 .. n}}

\* The interface an item of a configuration belongs to, 0 before the first one.
Owner(s, k) ==
    LET before == {j \in 1 .. k : s[j].type = "interface"}
    IN  IF before = {} THEN 0 ELSE CHOOSE j \in before : \A i \in before : i <= j

\* The endpoints of an interface.
Of(s, i) == {k \in DOMAIN s : s[k].type = "endpoint" /\ Owner(s, k) = i}

First(set) == CHOOSE k \in set : \A j \in set : k <= j

-----------------------------------------------------------------------------
MouseItems ==
    {Interface(1, "hid_boot_mouse", 1), Interface(2, "hid_boot_mouse", 2),
     Interface(3, "keyboard", 1), [Interface(4, "hid_boot_mouse", 1) EXCEPT !.alternate = 1],
     Endpoint(1, TRUE, "interrupt", 8), Endpoint(2, TRUE, "interrupt", 4),
     Endpoint(3, FALSE, "interrupt", 8), Endpoint(4, TRUE, "interrupt", 2),
     [type |-> "hid", size |-> "full"], [type |-> "configuration", size |-> "full"]}

\* usb_mouse_find_interface accepts a configuration when every interface has the
\* endpoints it announces, no descriptor is out of place and the first interrupt-IN
\* endpoint of a boot mouse is usable, and selects that one: neither a keyboard on
\* the same device nor an alternate setting is taken for the mouse.
ASSUME MouseParserIsRight ==
    \A c \in Configurations(MouseItems, 5) :
        LET s == c.items
            wanted == {k \in DOMAIN s :
                         /\ s[k].type = "endpoint" /\ s[k].in /\ s[k].transfer = "interrupt"
                         /\ Owner(s, k) # 0
                         /\ s[Owner(s, k)].class = "hid_boot_mouse"
                         /\ s[Owner(s, k)].alternate = 0}
            accepted == /\ Of(s, 0) = {}
                        /\ \A k \in DOMAIN s : s[k].type # "configuration"
                        /\ \A i \in DOMAIN s : s[i].type = "interface" =>
                               Cardinality(Of(s, i)) = s[i].endpoints
                        /\ wanted # {} => s[First(wanted)].packet >= 3
            found == usb_mouse_find_interface(c, TRUE)
        IN  IF ~accepted THEN found.result = -1
            ELSE IF wanted = {} THEN found.result = 0
            ELSE LET k == First(wanted)
                 IN  /\ found.result = 1
                     /\ found.selected.number = s[Owner(s, k)].number
                     /\ found.selected.endpoint = s[k].endpoint

-----------------------------------------------------------------------------
StorageItems ==
    {Interface(1, "bulk_only_storage", 2), Interface(2, "bulk_only_storage", 2),
     Interface(3, "keyboard", 2), Endpoint(1, TRUE, "bulk", 512),
     Endpoint(2, FALSE, "bulk", 512), Endpoint(3, TRUE, "interrupt", 8),
     [type |-> "hid", size |-> "full"], [type |-> "hid", size |-> "broken"]}

\* boot_parse_usb_configuration finds the first storage interface that has both
\* endpoints, and takes the endpoints from that interface, provided that nothing up
\* to its end is malformed; it stops there, whatever follows.
ASSUME StorageParserIsRight ==
    \A c \in Configurations(StorageItems, 5) :
        LET s == c.items
            storage == {i \in DOMAIN s : s[i].type = "interface"
                                            /\ s[i].class = "bulk_only_storage"}
            in(i) == {k \in Of(s, i) : s[k].in}
            out(i) == Of(s, i) \ in(i)
            sound(i) == /\ \A k \in Of(s, i) : s[k].transfer = "bulk"
                        /\ Cardinality(in(i)) <= 1 /\ Cardinality(out(i)) <= 1
            complete == {i \in storage : in(i) # {} /\ out(i) # {}}
            found == boot_parse_usb_configuration(c)
        IN  IF complete = {} THEN found = NOTHING
            ELSE LET i == First(complete)
                     part == {k \in DOMAIN s : Owner(s, k) <= i}
                 IN  IF /\ \A j \in storage : j <= i => sound(j)
                        /\ \A k \in part : s[k].size # "broken"
                     THEN found = [number |-> s[i].number,
                                   in |-> s[First(in(i))].endpoint,
                                   out |-> s[First(out(i))].endpoint]
                     ELSE found = NOTHING

=============================================================================
