----------------------------- MODULE UhciProofs -----------------------------
(***************************************************************************)
(* Theorems about the UHCI driver: its encodings (UhciLayout), and the     *)
(* stream of reports of UsbHost for any number of devices plugged in and   *)
(* any number of faults.                                                   *)
(***************************************************************************)
EXTENDS UhciLayout, UsbHost, TLAPS

LEMMA NibbleBounds == \A word \in Nat, i \in 0 .. 3 : nibble(word, i) \in 0 .. 15
<1> SUFFICES ASSUME NEW word \in Nat, NEW i \in 0 .. 3 PROVE nibble(word, i) \in 0 .. 15
    OBVIOUS
<1>1. i \in {0, 1, 2, 3}
    BY SMT
<1>2. 16 ^ i \in {16 ^ 0, 16 ^ 1, 16 ^ 2, 16 ^ 3}
    BY <1>1, Zenon
<1>3. 16 ^ i \in {1, 16, 256, 4096}
    BY <1>2, SMT
<1> QED
    BY <1>3, SMT DEF nibble

\* Whatever the routing registers hold, an accepted interrupt is one of the eight
\* PIRQ inputs 16 .. 23: the handler's vectors and the counters of unclaimed
\* interrupts, which are indexed with it, have a place for it.
THEOREM RouteIsInside ==
    ASSUME NEW supported \in BOOLEAN, NEW function \in 0 .. 3, NEW pin \in Nat,
           NEW d29ip \in Nat, NEW d29ir \in Nat,
           uhci_resolve_gsi(supported, function, pin, d29ip, d29ir) # -1
    PROVE  uhci_resolve_gsi(supported, function, pin, d29ip, d29ir) \in 16 .. 23
<1> DEFINE pirq == nibble(d29ir, pin - 1)
<1>1. pin \in 1 .. 4 /\ pirq < 8
      /\ uhci_resolve_gsi(supported, function, pin, d29ip, d29ir) = 16 + pirq
    BY DEF uhci_resolve_gsi
<1>2. pirq \in 0 .. 15
    BY <1>1, NibbleBounds
<1> HIDE DEF pirq
<1> QED
    BY <1>1, <1>2

\* The controller reads from the token what the driver put in: no field runs into
\* the next one, and no token is the value that stands for an error, also for a
\* packet without data, whose length field has all bits set.
THEOREM TokenIsRead ==
    ASSUME NEW pid \in {IN_PID, OUT_PID, SETUP_PID}, NEW address \in 0 .. 127,
           NEW endpoint \in 0 .. 15, NEW toggle \in 0 .. 1, NEW length \in 0 .. 64
    PROVE  LET token == uhci_token(pid, address, endpoint, toggle, length)
           IN  /\ token # TOKEN_ERROR
               /\ token.low \in 0 .. 2 ^ 21 - 1 /\ token.high \in 0 .. 2 ^ 11 - 1
               /\ token.low % 256 = pid
               /\ (token.low \div 256) % 128 = address
               /\ (token.low \div 32768) % 16 = endpoint
               /\ (token.low \div 524288) % 2 = toggle
               /\ token.high = length_field(length)
<1> DEFINE token == uhci_token(pid, address, endpoint, toggle, length)
           low == pid + 256 * address + 32768 * endpoint + 524288 * toggle
<1>1. length_field(length) \in 0 .. 2 ^ 11 - 1
    BY SMT DEF length_field
<1>2. pid \in 0 .. 254
    BY SMT DEF IN_PID, OUT_PID, SETUP_PID
<1>3. token = [low |-> low, high |-> length_field(length)]
    BY SMT DEF uhci_token
<1> HIDE DEF token
<1>4. low \in 0 .. 2 ^ 21 - 2
    BY <1>2, SMT
<1>5. low % 256 = pid
    BY <1>2, SMT
<1>6. (low \div 256) % 128 = address
    BY <1>2, SMT
<1>7. (low \div 32768) % 16 = endpoint
    BY <1>2, SMT
<1>8. (low \div 524288) % 2 = toggle
    BY <1>2, SMT
<1> HIDE DEF low
<1>9. token # TOKEN_ERROR
    BY <1>3, <1>4, SMT DEF TOKEN_ERROR
<1> QED
    BY <1>1, <1>3, <1>4, <1>5, <1>6, <1>7, <1>8, <1>9, SMT DEF token

\* A completed length is the number of bytes transferred, none included, and more
\* bytes than were asked for, which would not fit the buffer, are an error.
THEOREM LengthIsExact ==
    ASSUME NEW bytes \in 0 .. 2047, NEW requested \in 0 .. 64
    PROVE  uhci_completed_length(FALSE, FALSE, length_field(bytes), requested)
               = IF bytes <= requested THEN bytes ELSE -1
<1>1. (length_field(bytes) + 1) % 2048 = bytes
    BY DEF length_field
<1> QED
    BY <1>1 DEF uhci_completed_length

LEMMA Powers ==
    ASSUME NEW ms \in 1 .. 255
    PROVE  /\ uhci_interval(ms) \in {1, 2, 4, 8, 16, 32, 64, 128}
           /\ uhci_interval(ms) <= ms /\ ms < 2 * uhci_interval(ms)
<1> DEFINE Reached(n, power) == /\ n \in {1, 2, 4, 8, 16, 32, 64, 128} /\ n <= ms
                                /\ ms < 2 * n \/ n = power
           a == doubled(1, ms)
           b == doubled(a, ms)
           c == doubled(b, ms)
           d == doubled(c, ms)
           e == doubled(d, ms)
           f == doubled(e, ms)
           g == doubled(f, ms)
<1>0. uhci_interval(ms) = g
    BY DEF uhci_interval
<1>1. Reached(a, 2)
    BY SMT DEF doubled
<1> HIDE DEF a
<1>2. Reached(b, 4)
    BY <1>1, SMT DEF doubled
<1> HIDE DEF b
<1>3. Reached(c, 8)
    BY <1>2, SMT DEF doubled
<1> HIDE DEF c
<1>4. Reached(d, 16)
    BY <1>3, SMT DEF doubled
<1> HIDE DEF d
<1>5. Reached(e, 32)
    BY <1>4, SMT DEF doubled
<1> HIDE DEF e
<1>6. Reached(f, 64)
    BY <1>5, SMT DEF doubled
<1> HIDE DEF f
<1>7. Reached(g, 128)
    BY <1>6, SMT DEF doubled
<1> HIDE DEF g
<1> QED
    BY <1>0, <1>7, SMT

LEMMA Periodic ==
    ASSUME NEW n \in {1, 2, 4, 8, 16, 32, 64, 128}, NEW frame \in Nat
    PROVE  scheduled(frame, n) <=> frame % n = 0
  BY DEF scheduled

\* A mouse is asked for reports at least as often as its endpoint demands, and at
\* equal distances, also where the list of frames starts again; the distance is
\* more than half of the period asked for.
THEOREM PollIsRegular ==
    ASSUME NEW low_speed \in BOOLEAN, NEW advertised_ms \in 1 .. 255
    PROVE  LET ms == usb_mouse_poll_interval(low_speed, advertised_ms)
               interval == uhci_interval(ms)
           IN  /\ interval \in 1 .. advertised_ms /\ ms < 2 * interval
               /\ \A frame \in Nat : scheduled(frame, interval) <=> frame % interval = 0
<1> DEFINE ms == usb_mouse_poll_interval(low_speed, advertised_ms)
           interval == uhci_interval(ms)
<1>1. ms \in 1 .. 255 /\ ms <= advertised_ms
    BY DEF usb_mouse_poll_interval, USB_MOUSE_FULL_SPEED_INTERVAL_MS
<1> HIDE DEF ms
<1>2. /\ interval \in {1, 2, 4, 8, 16, 32, 64, 128}
      /\ interval <= ms /\ ms < 2 * interval
    BY <1>1, Powers
<1> HIDE DEF interval
<1>3. \A frame \in Nat : scheduled(frame, interval) <=> frame % interval = 0
    BY <1>2, Periodic
<1>4. interval \in 1 .. advertised_ms
    BY <1>1, <1>2
<1> QED
    BY <1>2, <1>3, <1>4 DEF ms, interval

\* A step that changes a port (reset, enable, disable) keeps every change bit, and
\* an acknowledgement clears the changes that were seen and no other: a device that
\* is replaced between the read of the register and the write is still noticed.
THEOREM ChangeIsKept ==
    ASSUME NEW seen, NEW register, NEW clear, NEW set, set \cap CHANGES = {}
    PROVE  /\ changes_after(register, uhci_port_update(seen, clear, set))
                  = register \cap CHANGES
           /\ changes_after(register, acknowledge(seen))
                  = (register \cap CHANGES) \ seen
<1> HIDE DEF CHANGES
<1> QED
    BY Zenon DEF changes_after, uhci_port_update, acknowledge

-----------------------------------------------------------------------------
(* The stream.  The types of the driver's state, the inductive invariant,  *)
(* and what one service of the controller does to a stream.                *)

DmaType == [td : {"idle", "active", "done", "error"}, qh : BOOLEAN, writeback : BOOLEAN,
            usbint : BOOLEAN, hcerror : BOOLEAN]
HostType == [status : {"ready", "disconnected", "transfer_error", "controller_error"},
             active : BOOLEAN, port : Port, toggle : {0, 1},
             port_status : [Port -> BOOLEAN], generation : [Port -> Nat]]
StateType == [dma : DmaType, host : HostType, open : BOOLEAN, claimed : BOOLEAN]
PortType == [dev : Nat, change : BOOLEAN, enabled : BOOLEAN]
TaskType == [pc : {"idle", "scan", "reset", "configure", "start"}, port : Port,
             active : BOOLEAN]

TypeOK ==
    /\ port \in [Port -> PortType] /\ mouse \in SUBSET Nat /\ plugs \in Nat
    /\ dtoggle \in {0, 1}
    /\ dma \in DmaType
    /\ host \in HostType /\ cdev \in Nat /\ open \in BOOLEAN
    /\ line \in [late : BOOLEAN, streak : Nat, masked : BOOLEAN]
    /\ task \in TaskType

\* Devices get numbers that no device had before.
NumbersAreFresh ==
    /\ \A p \in Port : port[p].dev <= plugs
    /\ \A d \in mouse : d \in 1 .. plugs
    /\ cdev <= plugs

\* A stream belongs to a ready controller, the mouse driver knows of it, and while
\* its port is enabled the device in it is the one that was configured.
StreamIsOwned ==
    host.active =>
        /\ host.status = "ready" /\ open /\ cdev # 0 /\ dma.td # "idle"
        /\ port[host.port].enabled => port[host.port].dev = cdev

\* There is no stream while a device is being configured.  Once it is, its toggle
\* is 0 and it is the one in its port, unless the port has been disabled.
ProbeIsAlone ==
    /\ task.pc \in {"configure", "start"} => ~host.active
    /\ task.pc = "start" =>
          /\ dtoggle = 0 /\ cdev # 0
          /\ port[task.port].enabled => port[task.port].dev = cdev

UsbInv == TypeOK /\ NumbersAreFresh /\ StreamIsOwned /\ ProbeIsAlone /\ TogglesAgree

\* What the controller may be doing to an active stream on a line of its own: a TD
\* that waits is linked and has requested no interrupt yet, and as long as the write
\* of the queue head is under way, nothing calls the handler.
LinkIsSafe ==
    host.active =>
        /\ dma.td = "active" => dma.qh /\ ~dma.writeback /\ ~dma.usbint
        /\ dma.writeback => dma.td = "done" /\ ~dma.usbint /\ ~line.late

-----------------------------------------------------------------------------
\* What a service of the controller does to a stream it leaves active: the device
\* was found in place, and the TD either left alone or armed with the other toggle.
Kept(s, r) ==
    r.host.active =>
        /\ s.host.active /\ r.host.port = s.host.port
        /\ r.host.status = s.host.status /\ r.open = s.open
        /\ ~Gone(port[s.host.port]) /\ ~r.dma.usbint
        /\ \/ /\ s.dma.td = "active" /\ r.dma.td = "active"
              /\ r.dma.qh = s.dma.qh /\ r.host.toggle = s.host.toggle
           \/ /\ s.dma.td \in {"done", "idle"} /\ r.dma.td = "active"
              /\ r.dma.qh /\ r.host.toggle = 1 - s.host.toggle

LEMMA ServiceKeepsStream ==
    ASSUME NEW s \in StateType, s.host.active => s.host.status = "ready",
           port \in [Port -> PortType]
    PROVE  LET r == service_controller(s)
           IN  /\ r \in StateType
               /\ r.dma.writeback = s.dma.writeback
               /\ r.host.active => ~s.dma.hcerror
               /\ Kept(s, r)
<1> DEFINE acked == [s EXCEPT !.dma.usbint = FALSE, !.claimed = s.dma.usbint]
           at    == port[s.host.port]
           seen  == [acked EXCEPT !.host.port_status[s.host.port] = at.dev # 0]
           unlinked == [seen EXCEPT !.dma.qh = FALSE]
<1>1. acked \in StateType /\ acked.host = s.host /\ acked.open = s.open
      /\ acked.dma = [s.dma EXCEPT !.usbint = FALSE]
    BY Zenon DEF StateType, DmaType
<1>2. seen \in StateType /\ seen.dma = acked.dma /\ seen.open = s.open
      /\ seen.host \in HostType
      /\ seen.host.status = s.host.status /\ seen.host.active = s.host.active
      /\ seen.host.port = s.host.port /\ seen.host.toggle = s.host.toggle
    <2>1. (at.dev # 0) \in BOOLEAN /\ s.host \in HostType /\ s.host.port \in Port
        BY DEF StateType, HostType
    <2> HIDE DEF at
    <2>2. [s.host.port_status EXCEPT ![s.host.port] = at.dev # 0] \in [Port -> BOOLEAN]
        BY <2>1, Zenon DEF HostType
    <2>3. seen.host = [s.host EXCEPT !.port_status = [@ EXCEPT ![s.host.port] = at.dev # 0]]
          /\ seen.dma = acked.dma /\ seen.open = s.open
        BY <1>1, Zenon DEF StateType
    <2>4. [s.host EXCEPT !.port_status = [@ EXCEPT ![s.host.port] = at.dev # 0]] \in HostType
        BY <2>1, <2>2, Zenon DEF HostType
    <2> QED
        BY <1>1, <2>1, <2>2, <2>3, <2>4, Zenon DEF StateType, HostType
<1> HIDE DEF acked, seen
<1>3. unlinked \in StateType /\ unlinked.host = seen.host /\ unlinked.open = s.open
      /\ unlinked.dma.writeback = seen.dma.writeback
    BY <1>2, Zenon DEF StateType, DmaType
<1>4. ASSUME NEW t \in StateType,
             NEW status \in {"disconnected", "transfer_error", "controller_error"}
      PROVE  /\ Lost(t, status) \in StateType
             /\ ~Lost(t, status).host.active /\ Lost(t, status).dma = t.dma
    BY Zenon DEF StateType, HostType, Lost
<1> DEFINE armed == [seen EXCEPT !.host.toggle = 1 - @, !.dma.td = "active", !.dma.qh = TRUE,
                                 !.claimed = TRUE]
<1>5. /\ armed \in StateType /\ armed.open = s.open
      /\ armed.host.active = s.host.active /\ armed.host.port = s.host.port
      /\ armed.host.status = s.host.status /\ armed.host.toggle = 1 - s.host.toggle
      /\ armed.dma.td = "active" /\ armed.dma.qh /\ armed.dma.usbint = seen.dma.usbint
      /\ armed.dma.writeback = seen.dma.writeback
    <2>1. seen.host.toggle \in {0, 1}
        BY <1>2 DEF HostType
    <2>2. 1 - seen.host.toggle \in {0, 1}
        BY <2>1
    <2> QED
        BY <1>2, <2>2, Zenon DEF StateType, HostType, DmaType
<1>6. /\ acked.dma.usbint = FALSE /\ acked.dma.td = s.dma.td /\ acked.dma.qh = s.dma.qh
      /\ acked.dma.writeback = s.dma.writeback
    BY <1>1, Zenon DEF StateType, DmaType
<1> DEFINE reset == [acked EXCEPT !.dma.hcerror = FALSE]
<1>7. reset \in StateType /\ reset.dma.writeback = s.dma.writeback
    BY <1>1, <1>6, Zenon DEF StateType, DmaType
<1> DEFINE r == service_controller(s)
<1> DEFINE halted == Lost(reset, "controller_error")
           pulled == Lost(unlinked, "disconnected")
           broken == Lost(unlinked, "transfer_error")
<1>8. /\ halted \in StateType /\ ~halted.host.active /\ halted.dma = reset.dma
      /\ pulled \in StateType /\ ~pulled.host.active /\ pulled.dma = unlinked.dma
      /\ broken \in StateType /\ ~broken.host.active /\ broken.dma = unlinked.dma
    BY <1>3, <1>4, <1>7, Zenon
<1>9. r = IF s.host.status = "controller_error" THEN s
          ELSE IF s.dma.hcerror THEN halted
          ELSE IF ~s.host.active THEN acked
          ELSE IF Gone(at) THEN pulled
          ELSE IF s.dma.td = "active" THEN seen
          ELSE IF s.dma.td = "error" THEN broken
          ELSE armed
    BY Zenon DEF service_controller, acked, seen
<1> HIDE DEF r, armed, unlinked, reset, halted, pulled, broken
<1>10. s.dma.td \in {"idle", "active", "done", "error"}
    BY DEF StateType, DmaType
<1>11. \/ r = s /\ s.host.status = "controller_error"
       \/ r = acked /\ ~s.host.active
       \/ r = halted \/ r = pulled \/ r = broken
       \/ /\ s.host.active /\ ~s.dma.hcerror /\ ~Gone(at)
          /\ \/ r = seen /\ s.dma.td = "active"
             \/ r = armed /\ s.dma.td \in {"idle", "done"}
    BY <1>9, <1>10, Zenon
<1>12. CASE r = s /\ s.host.status = "controller_error"
    BY <1>12, Zenon DEF r, Kept
<1>13. CASE r = acked /\ ~s.host.active
    BY <1>1, <1>6, <1>13, Zenon DEF r, Kept
<1>14. CASE r = halted \/ r = pulled \/ r = broken
    BY <1>2, <1>3, <1>6, <1>7, <1>8, <1>14, Zenon DEF r, Kept
<1>15. CASE /\ s.host.active /\ ~s.dma.hcerror /\ ~Gone(at)
            /\ \/ r = seen /\ s.dma.td = "active"
               \/ r = armed /\ s.dma.td \in {"idle", "done"}
    BY <1>2, <1>5, <1>6, <1>15, Zenon DEF r, Kept
<1> QED
    BY <1>11, <1>12, <1>13, <1>14, <1>15

LEMMA StopsWriting ==
    ASSUME NEW s \in StateType
    PROVE  /\ stop(s) \in StateType /\ stop(s).host = s.host /\ stop(s).open = s.open
           /\ ~stop(s).dma.writeback
           /\ stop(s).dma.td = s.dma.td /\ stop(s).dma.hcerror = s.dma.hcerror
    BY Zenon DEF stop, StateType, DmaType

LEMMA ClearsStatus ==
    ASSUME NEW s \in StateType
    PROVE  /\ Cleared(s) \in StateType /\ Cleared(s).host = s.host /\ Cleared(s).open = s.open
           /\ ~Cleared(s).dma.usbint
           /\ Cleared(s).dma.td = s.dma.td /\ Cleared(s).dma.qh = s.dma.qh
           /\ Cleared(s).dma.writeback = s.dma.writeback
    BY Zenon DEF Cleared, StateType, DmaType

LEMMA RecoverLeavesStream ==
    ASSUME NEW s \in StateType, s.host.active => s.host.status = "ready"
    PROVE  /\ Recover(s) \in StateType
           /\ s.host.active => Recover(s) = s
           /\ ~s.host.active => ~Recover(s).host.active
<1> DEFINE c == Cleared(stop(s))
<1>1. c \in StateType /\ c.host = s.host
    BY StopsWriting, ClearsStatus, Zenon
<1> HIDE DEF c
<1>2. [c EXCEPT !.dma.qh = FALSE, !.dma.td = "idle", !.host.status = "ready"] \in StateType
      /\ [c EXCEPT !.dma.qh = FALSE, !.dma.td = "idle", !.host.status = "ready"].host.active
            = s.host.active
    BY <1>1, Zenon DEF StateType, DmaType, HostType
<1> QED
    BY <1>2, Zenon DEF Recover, c

\* The same for a poll, which leaves no write of the queue head under way when it has
\* armed the TD.
LEMMA PollKeepsStream ==
    ASSUME NEW s \in StateType, s.host.active => s.host.status = "ready",
           port \in [Port -> PortType]
    PROVE  LET r == poll_schedule(s)
           IN  /\ r \in StateType /\ Kept(s, r)
               /\ r.host.active => r.dma.writeback = (s.dma.writeback /\ s.dma.td = "active")
<1> DEFINE paused == s.host.active /\ s.dma.td # "active"
           t == IF paused THEN stop(s) ELSE s
           u == service_controller(t)
<1>1. /\ t \in StateType /\ t.host = s.host /\ t.open = s.open /\ t.dma.td = s.dma.td
      /\ paused => ~t.dma.writeback
      /\ ~paused => t = s
    BY StopsWriting, Zenon
<1> HIDE DEF t
<1>2. u \in StateType /\ u.dma.writeback = t.dma.writeback /\ Kept(t, u)
    BY <1>1, ServiceKeepsStream, Zenon
<1> HIDE DEF u
<1>3. u.host.active => u.host.status = "ready"
    BY <1>1, <1>2, Zenon DEF Kept
<1>4. /\ Recover(u) \in StateType
      /\ u.host.active => Recover(u) = u
      /\ ~u.host.active => ~Recover(u).host.active
    BY <1>2, <1>3, RecoverLeavesStream, Zenon
<1>5. poll_schedule(s) = Recover(u)
    BY Zenon DEF poll_schedule, u, t
<1>6. ASSUME u.host.active
      PROVE  Kept(s, u) /\ u.dma.writeback = (s.dma.writeback /\ s.dma.td = "active")
    <2>1. s.dma.writeback \in BOOLEAN /\ t.dma.writeback \in BOOLEAN
        BY <1>1 DEF StateType, DmaType
    <2>2. CASE paused
        BY <1>1, <1>2, <1>6, <2>1, <2>2, Zenon DEF Kept
    <2>3. CASE ~paused
        BY <1>1, <1>2, <1>6, <2>1, <2>3, Zenon DEF Kept
    <2> QED
        BY <2>2, <2>3
<1> QED
    BY <1>4, <1>5, <1>6, Zenon DEF Kept

-----------------------------------------------------------------------------
LEMMA UsbInit == Init => UsbInv /\ LinkIsSafe
<1> SUFFICES ASSUME Init PROVE UsbInv /\ LinkIsSafe
    OBVIOUS
<1>1. TypeOK
    BY Zenon DEF Init, TypeOK, PortType, DmaType, HostType, TaskType, Port
<1> QED
    BY <1>1 DEF Init, UsbInv, NumbersAreFresh, StreamIsOwned, ProbeIsAlone, TogglesAgree, LinkIsSafe

LEMMA PlugKeeps ==
    ASSUME UsbInv, NEW p \in Port, plug(p)
    PROVE  UsbInv'
<1> DEFINE new == [dev |-> plugs + 1, change |-> TRUE, enabled |-> FALSE]
<1>1. /\ new \in PortType /\ plugs' = plugs + 1 /\ plugs' \in Nat
      /\ mouse' \in SUBSET Nat /\ \A d \in mouse' : d \in 1..plugs'
    BY DEF UsbInv, TypeOK, NumbersAreFresh, PortType, plug
<1>2. port' = [port EXCEPT ![p] = new] /\ port[p].dev = 0
      /\ UNCHANGED <<dtoggle, dma, host, cdev, open, line, task>>
    BY DEF plug, driver
<1>3. /\ port' \in [Port -> PortType]
      /\ \A q \in Port : port'[q] = IF q = p THEN new ELSE port[q]
    BY <1>1, <1>2 DEF UsbInv, TypeOK
<1>4. /\ new.dev = plugs + 1 /\ ~new.enabled
      /\ cdev \in Nat /\ cdev <= plugs
      /\ \A q \in Port : port[q].dev \in Nat /\ port[q].dev <= plugs
    BY DEF UsbInv, TypeOK, PortType, NumbersAreFresh
<1> HIDE DEF new
<1>5. new.dev # cdev /\ cdev <= plugs' /\ \A q \in Port : port'[q].dev <= plugs'
    <2>1. new.dev # cdev /\ cdev <= plugs' /\ new.dev <= plugs'
        BY <1>1, <1>4, plugs \in Nat DEF UsbInv, TypeOK
    <2>2. ASSUME NEW q \in Port PROVE port[q].dev <= plugs'
        BY <1>1, <1>4, plugs \in Nat DEF UsbInv, TypeOK
    <2> QED
        BY <1>3, <2>1, <2>2, Zenon
<1>6. host.port \in Port /\ task.port \in Port
    BY DEF UsbInv, TypeOK, HostType, TaskType
<1>7. TypeOK' /\ NumbersAreFresh'
    BY <1>1, <1>2, <1>3, <1>5 DEF UsbInv, TypeOK, NumbersAreFresh
<1>8. StreamIsOwned' /\ ProbeIsAlone' /\ TogglesAgree'
    BY <1>2, <1>3, <1>4, <1>5, <1>6, Zenon DEF UsbInv, StreamIsOwned, ProbeIsAlone, TogglesAgree
<1> QED
    BY <1>7, <1>8 DEF UsbInv

LEMMA UnplugKeeps ==
    ASSUME UsbInv, NEW p \in Port, unplug(p)
    PROVE  UsbInv'
<1> DEFINE new == [dev |-> 0, change |-> TRUE, enabled |-> FALSE]
<1>1. /\ new \in PortType /\ port' = [port EXCEPT ![p] = new] /\ new.dev = 0 /\ ~new.enabled
      /\ UNCHANGED <<mouse, plugs, dtoggle, dma, host, cdev, open, line, task>>
    BY DEF unplug, driver, PortType
<1> HIDE DEF new
<1>2. /\ port' \in [Port -> PortType]
      /\ \A q \in Port : port'[q] = IF q = p THEN new ELSE port[q]
    BY <1>1 DEF UsbInv, TypeOK
<1>3. host.port \in Port /\ task.port \in Port /\ plugs \in Nat
    BY DEF UsbInv, TypeOK, HostType, TaskType
<1>4. TypeOK' /\ NumbersAreFresh'
    BY <1>1, <1>2, <1>3 DEF UsbInv, TypeOK, NumbersAreFresh
<1>5. StreamIsOwned' /\ ProbeIsAlone'
    BY <1>1, <1>2, <1>3, Zenon DEF UsbInv, StreamIsOwned, ProbeIsAlone
<1>6. TogglesAgree'
    BY <1>1, <1>2, <1>3, Zenon DEF UsbInv, StreamIsOwned, TogglesAgree
<1> QED
    BY <1>4, <1>5, <1>6 DEF UsbInv

\* The controller's own steps.
LEMMA ControllerKeeps ==
    ASSUME UsbInv, td_completes \/ qh_written \/ td_fails \/ controller_fails
    PROVE  UsbInv'
<1>1. /\ UNCHANGED <<port, mouse, plugs, host, cdev, open, line, task>>
      /\ dma \in DmaType /\ dtoggle \in {0, 1} /\ host.toggle \in {0, 1}
    <2>1. UNCHANGED <<port, mouse, plugs, host, cdev, open, line, task>>
        BY Zenon DEF td_completes, qh_written, td_fails, controller_fails, hardware, driver
    <2> QED
        BY <2>1 DEF UsbInv, TypeOK, HostType
<1>2. NumbersAreFresh'
    BY <1>1, Zenon DEF UsbInv, NumbersAreFresh
<1>3. CASE td_completes
    <2>1. /\ dma' \in DmaType /\ dma'.td = "done" /\ dtoggle' = 1 - dtoggle
          /\ host.active /\ dtoggle = host.toggle /\ dma.td = "active"
        BY <1>1, <1>3, Zenon DEF td_completes, DmaType, Scheduled
    <2>2. dtoggle' \in {0, 1} /\ dtoggle' # host.toggle
        BY <1>1, <2>1
    <2> QED
        BY <1>1, <1>2, <2>1, <2>2, Zenon
        DEF UsbInv, TypeOK, StreamIsOwned, ProbeIsAlone, TogglesAgree
<1>4. CASE td_fails
    <2>1. /\ dma' \in DmaType /\ dma'.td = "error" /\ dtoggle' = dtoggle
          /\ host.active /\ dma.td = "active"
        BY <1>1, <1>4, Zenon DEF td_fails, DmaType, Scheduled
    <2> QED
        BY <1>1, <1>2, <2>1, Zenon
        DEF UsbInv, TypeOK, StreamIsOwned, ProbeIsAlone, TogglesAgree
<1>5. CASE qh_written \/ controller_fails
    <2>1. dma' \in DmaType /\ dma'.td = dma.td /\ dtoggle' = dtoggle
        BY <1>1, <1>5, Zenon DEF qh_written, controller_fails, hardware, DmaType
    <2> QED
        BY <1>1, <1>2, <2>1, Zenon
        DEF UsbInv, TypeOK, StreamIsOwned, ProbeIsAlone, TogglesAgree
<1> QED
    BY <1>3, <1>4, <1>5

\* The driver's state as one record, and what holds of it.
LEMMA StateIsTyped ==
    ASSUME UsbInv
    PROVE  /\ State \in StateType /\ State.dma = dma /\ State.host = host /\ State.open = open
           /\ State.host.active => State.host.status = "ready"
           /\ port \in [Port -> PortType] /\ host.port \in Port
<1>1. dma \in DmaType /\ host \in HostType /\ open \in BOOLEAN
    BY DEF UsbInv, TypeOK
<1> QED
    BY <1>1, Zenon DEF State, StateType, UsbInv, TypeOK, StreamIsOwned, HostType

\* A stream that a service of the controller kept is still owned, by the same device.
LEMMA KeptIsOwned ==
    ASSUME UsbInv, NEW r \in StateType, Kept(State, r),
           dma' = r.dma, open' = r.open, host'.active = r.host.active,
           host'.status = r.host.status, host'.port = r.host.port, host'.toggle = r.host.toggle,
           \A q \in Port : port'[q].dev = port[q].dev /\ port'[q].enabled = port[q].enabled,
           UNCHANGED <<cdev, dtoggle>>
    PROVE  StreamIsOwned' /\ TogglesAgree'
<1> SUFFICES ASSUME host'.active PROVE StreamIsOwned' /\ TogglesAgree'
    BY Zenon DEF StreamIsOwned, TogglesAgree
<1>1. /\ host.active /\ host'.port = host.port /\ host.port \in Port /\ host'.status = host.status
      /\ open' = open /\ dma'.td = "active"
      /\ \/ dma.td = "active" /\ host'.toggle = host.toggle
         \/ dma.td \in {"done", "idle"} /\ host'.toggle = 1 - host.toggle
    BY StateIsTyped, Zenon DEF Kept
<1>2. StreamIsOwned'
    BY <1>1, Zenon DEF UsbInv, StreamIsOwned
<1>3. dtoggle \in {0, 1} /\ host.toggle \in {0, 1} /\ dma.td # "idle"
    BY <1>1 DEF UsbInv, TypeOK, HostType, StreamIsOwned
<1>4. ASSUME port'[host'.port].dev = cdev' PROVE dtoggle' = host'.toggle
    BY <1>1, <1>3, <1>4 DEF UsbInv, TogglesAgree
<1> QED
    BY <1>1, <1>2, <1>4, Zenon DEF TogglesAgree

LEMMA InterruptKeeps ==
    ASSUME UsbInv, usb_host_interrupt
    PROVE  UsbInv'
<1> DEFINE r == service_controller(State)
<1>1. r \in StateType /\ Kept(State, r)
    BY StateIsTyped, ServiceKeepsStream, Zenon
<1>2. /\ dma' = r.dma /\ host' = r.host /\ open' = r.open
      /\ UNCHANGED <<port, mouse, plugs, dtoggle, cdev, task>>
    BY Zenon DEF usb_host_interrupt, hardware
<1>3. line' \in [late : BOOLEAN, streak : Nat, masked : BOOLEAN]
    <2>1. /\ line \in [late : BOOLEAN, streak : Nat, masked : BOOLEAN]
          /\ line.streak + 1 \in Nat /\ 0 \in Nat
          /\ (line.streak + 1 >= UNCLAIMED_LIMIT) \in BOOLEAN
        BY DEF UsbInv, TypeOK
    <2>2. \/ line' = [line EXCEPT !.late = FALSE, !.streak = 0]
          \/ line' = [late |-> FALSE, streak |-> line.streak + 1,
                      masked |-> line.streak + 1 >= UNCLAIMED_LIMIT]
        BY Zenon DEF usb_host_interrupt
    <2>3. CASE line' = [line EXCEPT !.late = FALSE, !.streak = 0]
        BY <2>1, <2>3, Zenon
    <2>4. CASE line' = [late |-> FALSE, streak |-> line.streak + 1,
                        masked |-> line.streak + 1 >= UNCLAIMED_LIMIT]
        BY <2>1, <2>4, SMT
    <2> QED
        BY <2>2, <2>3, <2>4
<1> HIDE DEF r
<1>4. TypeOK' /\ NumbersAreFresh'
    BY <1>1, <1>2, <1>3, Zenon DEF UsbInv, TypeOK, NumbersAreFresh, StateType
<1>5. StreamIsOwned' /\ TogglesAgree'
    BY <1>1, <1>2, KeptIsOwned, Zenon
<1>6. ProbeIsAlone'
    BY <1>1, <1>2, StateIsTyped, Zenon DEF Kept, UsbInv, ProbeIsAlone
<1> QED
    BY <1>4, <1>5, <1>6 DEF UsbInv

\* A request that has been latched, or not, leaves the line of its type.
LEMMA LatchedIsTyped == UsbInv => Latched \in [late : BOOLEAN, streak : Nat, masked : BOOLEAN]
<1> SUFFICES ASSUME UsbInv PROVE Latched \in [late : BOOLEAN, streak : Nat, masked : BOOLEAN]
    OBVIOUS
<1>1. line \in [late : BOOLEAN, streak : Nat, masked : BOOLEAN]
      /\ (line.late \/ (~line.masked /\ Requests)) \in BOOLEAN
    BY DEF UsbInv, TypeOK
<1> QED
    BY <1>1, Zenon DEF Latched

LEMMA PollKeeps ==
    ASSUME UsbInv, usb_host_poll
    PROVE  UsbInv'
<1> DEFINE r == poll_schedule(State)
           dead == r.host.status = "controller_error"
           scanned == [r.host EXCEPT !.port_status = [p \in Port |-> port[p].dev # 0],
                                     !.generation = [p \in Port |-> next_generation(p)]]
<1>1. r \in StateType /\ Kept(State, r)
    BY StateIsTyped, PollKeepsStream, Zenon
<1>2. /\ dma' = r.dma /\ open' = r.open /\ line' = Latched
      /\ host' = (IF dead THEN r.host ELSE scanned)
      /\ port' = (IF dead THEN port ELSE [p \in Port |-> [port[p] EXCEPT !.change = FALSE]])
      /\ task'.pc \in {"idle", "scan"} /\ task' \in TaskType
      /\ UNCHANGED <<mouse, plugs, dtoggle, cdev>>
    <2>1. /\ dma' = r.dma /\ open' = r.open /\ line' = Latched
          /\ host' = (IF dead THEN r.host ELSE scanned)
          /\ port' = (IF dead THEN port ELSE [p \in Port |-> [port[p] EXCEPT !.change = FALSE]])
          /\ \E due \in BOOLEAN :
                task' = [pc |-> IF due THEN "scan" ELSE "idle", port |-> 0,
                         active |-> due /\ r.host.active]
          /\ UNCHANGED <<mouse, plugs, dtoggle, cdev>>
        BY Zenon DEF usb_host_poll
    <2> HIDE DEF r
    <2>2. PICK due \in BOOLEAN :
             task' = [pc |-> IF due THEN "scan" ELSE "idle", port |-> 0,
                      active |-> due /\ r.host.active]
        BY <2>1
    <2>3. task'.pc \in {"idle", "scan"} /\ task' \in TaskType
        BY <2>2 DEF TaskType, Port
    <2> QED
        BY <2>1, <2>3
<1> HIDE DEF r
<1>3. /\ scanned \in HostType
      /\ scanned.active = r.host.active /\ scanned.status = r.host.status
      /\ scanned.port = r.host.port /\ scanned.toggle = r.host.toggle
    <2>1. /\ [p \in Port |-> port[p].dev # 0] \in [Port -> BOOLEAN]
          /\ [p \in Port |-> next_generation(p)] \in [Port -> Nat]
          /\ r.host \in HostType
        BY <1>1 DEF next_generation, UsbInv, TypeOK, HostType, StateType
    <2> QED
        BY <2>1, Zenon DEF HostType
<1>4. /\ port' \in [Port -> PortType]
      /\ \A q \in Port : port'[q].dev = port[q].dev /\ port'[q].enabled = port[q].enabled
    <2>1. port \in [Port -> PortType]
        BY DEF UsbInv, TypeOK
    <2>2. \A q \in Port : /\ [port[q] EXCEPT !.change = FALSE] \in PortType
                          /\ [port[q] EXCEPT !.change = FALSE].dev = port[q].dev
                          /\ [port[q] EXCEPT !.change = FALSE].enabled = port[q].enabled
        BY <2>1, Zenon DEF PortType
    <2> QED
        BY <1>2, <2>1, <2>2, Zenon
<1>5. /\ host' \in HostType /\ host'.active = r.host.active /\ host'.status = r.host.status
      /\ host'.port = r.host.port /\ host'.toggle = r.host.toggle
    BY <1>1, <1>2, <1>3, Zenon DEF StateType
<1>6. TypeOK' /\ NumbersAreFresh'
    <2>1. dma' \in DmaType /\ open' \in BOOLEAN
        BY <1>1, <1>2, Zenon DEF StateType
    <2>2. line' \in [late : BOOLEAN, streak : Nat, masked : BOOLEAN]
        BY <1>2, LatchedIsTyped, Zenon
    <2>3. TypeOK'
        BY <1>2, <1>4, <1>5, <2>1, <2>2, Zenon DEF UsbInv, TypeOK
    <2> QED
        BY <1>2, <1>4, <2>3, Zenon DEF UsbInv, NumbersAreFresh
<1>7. StreamIsOwned' /\ TogglesAgree'
    BY <1>1, <1>2, <1>4, <1>5, KeptIsOwned, Zenon
<1>8. ProbeIsAlone'
    BY <1>2 DEF ProbeIsAlone
<1> QED
    BY <1>6, <1>7, <1>8 DEF UsbInv

\* The scan goes on with the next port, or ends.
LEMMA NextPortIsTyped ==
    ASSUME NEW t \in TaskType
    PROVE  NextPort(t) \in TaskType /\ NextPort(t).pc \in {"idle", "scan"}
<1>1. [t EXCEPT !.pc = "scan", !.port = 1] \in TaskType
      /\ [t EXCEPT !.pc = "scan", !.port = 1].pc = "scan"
    BY Zenon DEF TaskType, Port
<1>2. [pc |-> "idle", port |-> 0, active |-> FALSE] \in TaskType
    BY DEF TaskType, Port
<1> QED
    BY <1>1, <1>2, Zenon DEF NextPort

LEMMA ScanKeeps ==
    ASSUME UsbInv, scan
    PROVE  UsbInv'
<1>1. /\ UNCHANGED <<port, mouse, plugs, dtoggle, dma, host, cdev, open, line>>
      /\ task' = [task EXCEPT !.pc = "reset"] \/ task' = NextPort(task)
    BY Zenon DEF scan, hardware, driver
<1>2. task \in TaskType
    BY DEF UsbInv, TypeOK
<1>3. task' \in TaskType /\ task'.pc \in {"idle", "scan", "reset"}
    BY <1>1, <1>2, NextPortIsTyped, Zenon DEF TaskType
<1>4. TypeOK' /\ NumbersAreFresh' /\ StreamIsOwned' /\ TogglesAgree'
    BY <1>1, <1>3, Zenon DEF UsbInv, TypeOK, NumbersAreFresh, StreamIsOwned, TogglesAgree
<1>5. ProbeIsAlone'
    BY <1>3 DEF ProbeIsAlone
<1> QED
    BY <1>4, <1>5 DEF UsbInv

\* Disabling ports moves no device, enables nothing and leaves a stream alone.
LEMMA DisableKeeps ==
    ASSUME UsbInv, NEW ports \in SUBSET Port, NEW h \in HostType, disable_port(ports, h)
    PROVE  /\ port' \in [Port -> PortType]
           /\ \A q \in Port : /\ port'[q].dev = port[q].dev
                              /\ port'[q].enabled => port[q].enabled
           /\ host.active => UNCHANGED port
           /\ host' \in HostType /\ host'.active = h.active /\ host'.status = h.status
           /\ host'.port = h.port /\ host'.toggle = h.toggle
<1>1. port \in [Port -> PortType] /\ h.port_status \in [Port -> BOOLEAN]
    BY DEF UsbInv, TypeOK, HostType
<1>2. CASE host.active
    BY <1>1, <1>2, Zenon DEF disable_port
<1>3. CASE ~host.active
    <2> DEFINE status == [q \in Port |-> IF q \in ports THEN port[q].dev # 0 ELSE h.port_status[q]]
    <2>1. host' = [h EXCEPT !.port_status = status]
          /\ port' = [q \in Port |-> IF q \in ports THEN [port[q] EXCEPT !.enabled = FALSE]
                                     ELSE port[q]]
        BY <1>3, Zenon DEF disable_port
    <2>2. status \in [Port -> BOOLEAN]
        BY <1>1, Zenon
    <2> HIDE DEF status
    <2>3. \A q \in Port : /\ [port[q] EXCEPT !.enabled = FALSE] \in PortType
                          /\ [port[q] EXCEPT !.enabled = FALSE].dev = port[q].dev
                          /\ ~[port[q] EXCEPT !.enabled = FALSE].enabled
        BY <1>1, Zenon DEF PortType
    <2>4. /\ host' \in HostType /\ host'.active = h.active /\ host'.status = h.status
          /\ host'.port = h.port /\ host'.toggle = h.toggle
        BY <2>1, <2>2, Zenon DEF HostType
    <2>5. /\ port' \in [Port -> PortType]
          /\ \A q \in Port : /\ port'[q].dev = port[q].dev
                             /\ port'[q].enabled => port[q].enabled
        BY <1>1, <2>1, <2>3, Zenon
    <2> QED
        BY <1>3, <2>4, <2>5
<1> QED
    BY <1>2, <1>3

LEMMA ResetKeeps ==
    ASSUME UsbInv, reset_port
    PROVE  UsbInv' /\ (host'.active => UNCHANGED host)
<1> DEFINE p == task.port
           ok == host.status = "ready" /\ ~host.active /\ port[p].dev # 0
<1>1. /\ UNCHANGED <<mouse, plugs, dtoggle, dma, cdev, open, line>>
      /\ ok => /\ port' = [q \in Port |-> [port[q] EXCEPT !.enabled = (q = p)]]
               /\ host' = [host EXCEPT !.port_status = [q \in Port |-> port[q].dev # 0]]
               /\ task' = [task EXCEPT !.pc = "configure"]
      /\ ~ok => disable_port(Port, host) /\ task' = NextPort(task)
    BY Zenon DEF reset_port
<1>2. task \in TaskType /\ host \in HostType /\ port \in [Port -> PortType] /\ host.port \in Port
    BY DEF UsbInv, TypeOK, HostType
<1>3. CASE ok
    <2>1. host' \in HostType /\ ~host'.active
        <3>1. [q \in Port |-> port[q].dev # 0] \in [Port -> BOOLEAN]
            OBVIOUS
        <3> QED
            BY <1>1, <1>2, <1>3, <3>1, Zenon DEF HostType
    <2>2. port' \in [Port -> PortType] /\ \A q \in Port : port'[q].dev = port[q].dev
        <3> DEFINE only(q) == [port[q] EXCEPT !.enabled = (q = p)]
        <3>1. \A q \in Port : only(q) \in PortType /\ only(q).dev = port[q].dev
            <4> SUFFICES ASSUME NEW q \in Port
                         PROVE  only(q) \in PortType /\ only(q).dev = port[q].dev
                OBVIOUS
            <4>1. (q = p) \in BOOLEAN /\ port[q] \in PortType
                BY <1>2
            <4> QED
                BY <4>1, Zenon DEF PortType
        <3>2. port' = [q \in Port |-> only(q)]
            BY <1>1, <1>3
        <3> HIDE DEF only
        <3> QED
            BY <3>1, <3>2
    <2>3. task' \in TaskType /\ task'.pc = "configure"
        BY <1>1, <1>2, <1>3, Zenon DEF TaskType
    <2> QED
        BY <1>1, <2>1, <2>2, <2>3
        DEF UsbInv, TypeOK, NumbersAreFresh, StreamIsOwned, ProbeIsAlone, TogglesAgree
<1>4. CASE ~ok
    <2>1. task' \in TaskType /\ task'.pc \in {"idle", "scan"}
        BY <1>1, <1>2, <1>4, NextPortIsTyped, Zenon
    <2>2. /\ port' \in [Port -> PortType]
          /\ \A q \in Port : /\ port'[q].dev = port[q].dev
                             /\ port'[q].enabled => port[q].enabled
          /\ host' \in HostType /\ host'.active = host.active /\ host'.status = host.status
          /\ host'.port = host.port /\ host'.toggle = host.toggle
        BY <1>1, <1>2, <1>4, DisableKeeps, Zenon
    <2>3. TypeOK' /\ NumbersAreFresh'
        BY <1>1, <2>1, <2>2, Zenon DEF UsbInv, TypeOK, NumbersAreFresh
    <2>4. StreamIsOwned' /\ TogglesAgree'
        BY <1>1, <1>2, <2>2, Zenon DEF UsbInv, StreamIsOwned, TogglesAgree
    <2>5. host'.active => UNCHANGED host
        BY <1>1, <1>4, <2>2, Zenon DEF disable_port
    <2> QED
        BY <2>1, <2>3, <2>4, <2>5 DEF UsbInv, ProbeIsAlone
<1> QED
    BY <1>3, <1>4

LEMMA ConfigureKeeps ==
    ASSUME UsbInv, configure
    PROVE  UsbInv' /\ ~host'.active
<1> DEFINE p == task.port
           answers == control.ok /\ port[p].dev \in mouse /\ port[p].enabled
<1>1. /\ UNCHANGED <<mouse, plugs, open>> /\ dma' = control.dma /\ line' = control.line
      /\ task.pc = "configure"
      /\ \/ /\ answers /\ dtoggle' = 0 /\ cdev' = port[p].dev
            /\ task' = [task EXCEPT !.pc = "start"]
            /\ UNCHANGED <<port, host>>
         \/ /\ disable_port({p}, control.host) /\ task' = NextPort(task)
            /\ UNCHANGED <<dtoggle, cdev>>
    BY Zenon DEF configure
<1>2. /\ task \in TaskType /\ host \in HostType /\ port \in [Port -> PortType]
      /\ p \in Port /\ ~host.active
    BY <1>1 DEF UsbInv, TypeOK, TaskType, ProbeIsAlone
<1>3. /\ control.dma \in DmaType /\ control.host \in HostType /\ ~control.host.active
      /\ control.line \in [late : BOOLEAN, streak : Nat, masked : BOOLEAN]
    <2> DEFINE failed_host == [host EXCEPT !.status = "controller_error"]
    <2>1. failed_host \in HostType /\ ~failed_host.active
        BY <1>2, Zenon DEF HostType
    <2>2. Cleared(State).dma \in DmaType
        BY ClearsStatus, StateIsTyped, Zenon DEF StateType
    <2>3. /\ control.dma = dma \/ control.dma = Cleared(State).dma
          /\ control.host = host \/ control.host = failed_host
          /\ control.line = line \/ control.line = Latched
        BY Zenon DEF control
    <2> QED
        BY <1>2, <2>1, <2>2, <2>3, LatchedIsTyped, Zenon DEF UsbInv, TypeOK
<1>4. CASE answers /\ dtoggle' = 0 /\ cdev' = port[p].dev /\ task' = [task EXCEPT !.pc = "start"]
           /\ UNCHANGED <<port, host>>
    <2>1. cdev' \in Nat /\ cdev' # 0 /\ cdev' <= plugs
        BY <1>2, <1>4 DEF UsbInv, TypeOK, NumbersAreFresh, PortType
    <2>2. task' \in TaskType /\ task'.port = p
        BY <1>2, <1>4, Zenon DEF TaskType
    <2> QED
        BY <1>1, <1>2, <1>3, <1>4, <2>1, <2>2
        DEF UsbInv, TypeOK, NumbersAreFresh, StreamIsOwned, ProbeIsAlone, TogglesAgree
<1>5. CASE disable_port({p}, control.host) /\ task' = NextPort(task) /\ UNCHANGED <<dtoggle, cdev>>
    <2>1. task' \in TaskType /\ task'.pc \in {"idle", "scan"}
        BY <1>2, <1>5, NextPortIsTyped, Zenon
    <2>2. /\ port' \in [Port -> PortType] /\ \A q \in Port : port'[q].dev = port[q].dev
          /\ host' \in HostType /\ ~host'.active
        BY <1>2, <1>3, <1>5, DisableKeeps, {p} \in SUBSET Port, Zenon
    <2> QED
        BY <1>1, <1>3, <1>5, <2>1, <2>2
        DEF UsbInv, TypeOK, NumbersAreFresh, StreamIsOwned, ProbeIsAlone, TogglesAgree
<1> QED
    BY <1>1, <1>4, <1>5, Zenon

LEMMA StartKeeps ==
    ASSUME UsbInv, start_interrupt
    PROVE  /\ UsbInv'
           /\ host'.active => ~host.active /\ dma'.qh /\ ~dma'.writeback /\ ~dma'.usbint
<1> DEFINE p == task.port
           ok == host.status = "ready" /\ ~host.active /\ port[p].dev # 0 /\ port[p].enabled
           halted == Cleared(stop(State))
<1>1. /\ UNCHANGED <<mouse, plugs, dtoggle, cdev>> /\ task.pc = "start"
      /\ ok => /\ host' = [host EXCEPT !.active = TRUE, !.port = p, !.toggle = 0]
               /\ open' = TRUE
               /\ dma' = [halted.dma EXCEPT !.td = "active", !.qh = TRUE]
               /\ line' = Latched
               /\ port' = [port EXCEPT ![p].change = FALSE]
               /\ task' = NextPort([task EXCEPT !.active = TRUE])
      /\ ~ok => disable_port({p}, host) /\ task' = NextPort(task) /\ UNCHANGED <<open, dma, line>>
    BY Zenon DEF start_interrupt, Start
<1>2. /\ task \in TaskType /\ host \in HostType /\ port \in [Port -> PortType] /\ p \in Port
      /\ ~host.active /\ dtoggle = 0 /\ cdev # 0 /\ (port[p].enabled => port[p].dev = cdev)
    BY <1>1 DEF UsbInv, TypeOK, TaskType, ProbeIsAlone
<1>3. CASE ok
    <2>1. halted.dma \in DmaType /\ ~halted.dma.usbint /\ ~halted.dma.writeback
        <3>1. stop(State) \in StateType /\ ~stop(State).dma.writeback
            BY StateIsTyped, StopsWriting, Zenon
        <3>2. halted \in StateType /\ ~halted.dma.usbint /\ ~halted.dma.writeback
            BY <3>1, ClearsStatus, Zenon
        <3> QED
            BY <3>2, Zenon DEF StateType
    <2> HIDE DEF halted
    <2>2. /\ dma' \in DmaType /\ dma'.td = "active" /\ dma'.qh /\ ~dma'.writeback /\ ~dma'.usbint
        BY <1>1, <1>3, <2>1, Zenon DEF DmaType
    <2>3. /\ host' \in HostType /\ host'.active /\ host'.port = p /\ host'.toggle = 0
          /\ host'.status = "ready"
        BY <1>1, <1>2, <1>3, Zenon DEF HostType
    <2>4. /\ port' \in [Port -> PortType]
          /\ \A q \in Port : port'[q].dev = port[q].dev /\ port'[q].enabled = port[q].enabled
        <3>1. \A q \in Port : /\ [port[q] EXCEPT !.change = FALSE] \in PortType
                              /\ [port[q] EXCEPT !.change = FALSE].dev = port[q].dev
                              /\ [port[q] EXCEPT !.change = FALSE].enabled = port[q].enabled
            BY <1>2, Zenon DEF PortType
        <3> QED
            BY <1>1, <1>2, <1>3, <3>1, Zenon
    <2>5. task' \in TaskType /\ task'.pc \in {"idle", "scan"}
        <3>1. [task EXCEPT !.active = TRUE] \in TaskType
            BY <1>2, Zenon DEF TaskType
        <3> QED
            BY <1>1, <1>3, <3>1, NextPortIsTyped, Zenon
    <2>6. TypeOK' /\ NumbersAreFresh'
        BY <1>1, <1>3, <2>2, <2>3, <2>4, <2>5, LatchedIsTyped, Zenon DEF UsbInv, TypeOK, NumbersAreFresh
    <2>7. StreamIsOwned' /\ TogglesAgree' /\ ProbeIsAlone'
        BY <1>1, <1>2, <1>3, <2>2, <2>3, <2>4, <2>5 DEF StreamIsOwned, TogglesAgree, ProbeIsAlone
    <2> QED
        BY <1>2, <2>2, <2>6, <2>7 DEF UsbInv
<1>4. CASE ~ok
    <2>1. task' \in TaskType /\ task'.pc \in {"idle", "scan"}
        BY <1>1, <1>2, <1>4, NextPortIsTyped, Zenon
    <2>2. /\ port' \in [Port -> PortType] /\ \A q \in Port : port'[q].dev = port[q].dev
          /\ host' \in HostType /\ ~host'.active
        BY <1>1, <1>2, <1>4, DisableKeeps, {p} \in SUBSET Port, Zenon
    <2> QED
        BY <1>1, <1>4, <2>1, <2>2
        DEF UsbInv, TypeOK, NumbersAreFresh, StreamIsOwned, ProbeIsAlone, TogglesAgree
<1> QED
    BY <1>3, <1>4

\* Every step keeps the invariant of the stream.
LEMMA UsbStep == UsbInv /\ [Next]_vars => UsbInv'
<1> SUFFICES ASSUME UsbInv, [Next]_vars PROVE UsbInv'
    OBVIOUS
<1>1. CASE Next
    BY <1>1, PlugKeeps, UnplugKeeps, ControllerKeeps, InterruptKeeps, PollKeeps, ScanKeeps,
       ResetKeeps, ConfigureKeeps, StartKeeps, Zenon DEF Next, service
<1>2. CASE UNCHANGED vars
    BY <1>2, Zenon DEF vars, hardware, driver, UsbInv, TypeOK, NumbersAreFresh, StreamIsOwned,
       ProbeIsAlone, TogglesAgree
<1> QED
    BY <1>1, <1>2

\* On a line of its own, every step keeps the link of an active stream safe.
LEMMA LinkStep ==
    ASSUME ~SharedLine, UsbInv, LinkIsSafe, [Next]_vars
    PROVE  LinkIsSafe'
<1> SUFFICES ASSUME host'.active PROVE LinkIsSafe'
    BY Zenon DEF LinkIsSafe
<1>1. dma \in DmaType
    BY DEF UsbInv, TypeOK
<1>2. ASSUME NEW p \in Port, plug(p) \/ unplug(p) PROVE LinkIsSafe'
    BY <1>2, Zenon DEF plug, unplug, driver, LinkIsSafe
<1>3. CASE td_completes
    <2>1. /\ dma'.td = "done" /\ dma'.usbint = dma.usbint /\ ~line'.late
          /\ host.active /\ dma.td = "active"
        BY <1>1, <1>3, Zenon DEF td_completes, Scheduled, driver, DmaType
    <2> QED
        BY <2>1 DEF LinkIsSafe
<1>4. CASE qh_written
    <2>1. dma'.td = dma.td /\ ~dma'.writeback /\ dma.writeback /\ UNCHANGED host
        BY <1>1, <1>4, Zenon DEF qh_written, driver, DmaType
    <2> QED
        BY <2>1, Zenon DEF LinkIsSafe
<1>5. CASE td_fails
    <2>1. dma'.td = "error" /\ dma.td = "active" /\ dma'.writeback = dma.writeback /\ UNCHANGED host
        BY <1>1, <1>5, Zenon DEF td_fails, Scheduled, driver, DmaType
    <2> QED
        BY <2>1 DEF LinkIsSafe
<1>6. CASE controller_fails
    <2>1. /\ dma'.td = dma.td /\ dma'.qh = dma.qh /\ dma'.writeback = dma.writeback
          /\ dma'.usbint = dma.usbint /\ UNCHANGED <<host, line>>
        BY <1>1, <1>6, Zenon DEF controller_fails, driver, DmaType
    <2> QED
        BY <2>1, Zenon DEF LinkIsSafe
<1>7. CASE usb_host_interrupt
    <2> DEFINE r == service_controller(State)
    <2>1. /\ dma' = r.dma /\ host' = r.host
          /\ line.late \/ dma.usbint \/ dma.hcerror
        BY <1>7, Zenon DEF usb_host_interrupt, Requests
    <2>2. /\ r.dma.writeback = dma.writeback /\ ~dma.hcerror /\ Kept(State, r)
        BY <2>1, StateIsTyped, ServiceKeepsStream, Zenon
    <2> HIDE DEF r
    <2>3. /\ host.active /\ r.dma.td = "active" /\ ~r.dma.usbint
          /\ (dma.td = "active" /\ r.dma.qh = dma.qh) \/ r.dma.qh
        BY <2>1, <2>2, StateIsTyped, Zenon DEF Kept
    <2> QED
        BY <2>1, <2>2, <2>3, Zenon DEF LinkIsSafe
<1>8. CASE usb_host_poll
    <2> DEFINE r == poll_schedule(State)
    <2>1. /\ r \in StateType /\ Kept(State, r)
          /\ r.host.active => r.dma.writeback = (dma.writeback /\ dma.td = "active")
        BY StateIsTyped, PollKeepsStream, Zenon
    <2>2. dma' = r.dma /\ r.host.active
        <3>1. /\ dma' = r.dma
              /\ \/ host' = r.host
                 \/ host' = [r.host EXCEPT
                               !.port_status = [p \in Port |-> port[p].dev # 0],
                               !.generation = [p \in Port |-> next_generation(p)]]
            BY <1>8, Zenon DEF usb_host_poll
        <3> HIDE DEF r
        <3>2. r.host \in HostType
            BY <2>1 DEF StateType
        <3> QED
            BY <3>1, <3>2, Zenon DEF HostType
    <2> HIDE DEF r
    <2>3. /\ host.active /\ r.dma.td = "active" /\ ~r.dma.usbint
          /\ (dma.td = "active" /\ r.dma.qh = dma.qh) \/ r.dma.qh
        BY <2>1, <2>2, StateIsTyped, Zenon DEF Kept
    <2> QED
        BY <2>1, <2>2, <2>3, Zenon DEF LinkIsSafe
<1>9. CASE scan \/ UNCHANGED vars
    BY <1>9, Zenon DEF scan, driver, vars, LinkIsSafe
<1>10. CASE reset_port
    <2>1. UNCHANGED <<dma, host, line>>
        BY <1>10, ResetKeeps, Zenon DEF reset_port
    <2> QED
        BY <2>1, Zenon DEF LinkIsSafe
<1>11. CASE configure
    BY <1>11, ConfigureKeeps
<1>12. CASE start_interrupt
    BY <1>12, StartKeeps, Zenon DEF LinkIsSafe
<1> QED
    BY <1>2, <1>3, <1>4, <1>5, <1>6, <1>7, <1>8, <1>9, <1>10, <1>11, <1>12, Zenon DEF Next, service

\* A report is collected from the configured device only.
LEMMA ReportStep ==
    ASSUME UsbInv, [Next]_vars, host.active, host'.active, host'.toggle # host.toggle
    PROVE  open /\ port[host.port].dev = cdev /\ port[host.port].enabled
<1>1. CASE usb_host_interrupt
    <2> DEFINE r == service_controller(State)
    <2>1. host' = r.host /\ Kept(State, r)
        BY <1>1, StateIsTyped, ServiceKeepsStream, Zenon DEF usb_host_interrupt
    <2> HIDE DEF r
    <2>2. ~Gone(port[host.port])
        BY <2>1, StateIsTyped, Zenon DEF Kept
    <2> QED
        BY <2>2, Zenon DEF Gone, UsbInv, StreamIsOwned
<1>2. CASE usb_host_poll
    <2> DEFINE r == poll_schedule(State)
    <2>1. r \in StateType /\ Kept(State, r)
        BY StateIsTyped, PollKeepsStream, Zenon
    <2>2. r.host.active
        <3>1. \/ host' = r.host
              \/ host' = [r.host EXCEPT
                            !.port_status = [p \in Port |-> port[p].dev # 0],
                            !.generation = [p \in Port |-> next_generation(p)]]
            BY <1>2, Zenon DEF usb_host_poll
        <3> HIDE DEF r
        <3>2. r.host \in HostType
            BY <2>1 DEF StateType
        <3> QED
            BY <3>1, <3>2, Zenon DEF HostType
    <2> HIDE DEF r
    <2>3. ~Gone(port[host.port])
        BY <2>1, <2>2, StateIsTyped, Zenon DEF Kept
    <2> QED
        BY <2>3, Zenon DEF Gone, UsbInv, StreamIsOwned
<1>3. ASSUME NEW p \in Port PROVE ~plug(p) /\ ~unplug(p)
    BY <1>3, Zenon DEF plug, unplug, driver
<1>4. ~td_completes /\ ~qh_written /\ ~td_fails /\ ~controller_fails
    BY Zenon DEF td_completes, qh_written, td_fails, controller_fails, driver
<1>5. ~scan /\ ~UNCHANGED vars
    BY Zenon DEF scan, driver, vars
<1>6. ~reset_port /\ ~configure /\ ~start_interrupt
    BY ResetKeeps, ConfigureKeeps, StartKeeps, Zenon
<1> QED
    BY <1>1, <1>2, <1>3, <1>4, <1>5, <1>6, Zenon DEF Next, service

-----------------------------------------------------------------------------
\* The invariant of the stream, on which the theorems below rest.
THEOREM UsbInvariant == Spec => []UsbInv
<1> QED
    BY UsbInit, UsbStep, PTL DEF Spec

\* Whatever is plugged, unplugged, lost and recovered, and however interrupts and
\* polls interleave, the stream and the device agree on the data toggle
\* (usb_host_service_controller, usb_uhci_start_interrupt).
THEOREM TogglesAlwaysAgree == Spec => []TogglesAgree
<1>1. UsbInv => TogglesAgree
    BY DEF UsbInv
<1> QED
    BY UsbInvariant, <1>1, PTL

\* On an interrupt line of its own, a TD that waits is reachable and stays so: the
\* poll that stops the controller never meets a write of the queue head that would
\* unlink the TD it arms.
THEOREM StreamStaysArmed == Spec /\ ~SharedLine => []StreamIsArmed
<1>1. UsbInv /\ LinkIsSafe => StreamIsArmed
    BY DEF LinkIsSafe, StreamIsArmed
<1>2. ASSUME ~SharedLine PROVE Spec => []StreamIsArmed
    <2>1. UsbInv /\ LinkIsSafe /\ [Next]_vars => UsbInv' /\ LinkIsSafe'
        BY <1>2, UsbStep, LinkStep
    <2> QED
        BY UsbInit, <1>1, <2>1, PTL DEF Spec
<1> QED
    BY <1>2

\* Only the device that was configured, still in its port and known to the mouse
\* driver, has its report passed on.
THEOREM ReportsAreFromDevice == Spec => ReportIsFromDevice
<1>1. UsbInv /\ [Next]_vars =>
          [host.active /\ host'.active /\ host'.toggle # host.toggle =>
              open /\ port[host.port].dev = cdev /\ port[host.port].enabled]_vars
    BY ReportStep
<1> QED
    BY UsbInvariant, <1>1, PTL DEF Spec, ReportIsFromDevice

=============================================================================
