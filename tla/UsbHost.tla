------------------------------- MODULE UsbHost -------------------------------
(***************************************************************************)
(* One UHCI controller with its two root ports: the interrupt handler and  *)
(* the kernel task's poll that both collect reports, recovery from a lost  *)
(* device, and the hotplug scan that finds and configures a mouse, while   *)
(* devices come and go and the controller's DMA runs on its own.           *)
(*                                                                         *)
(* Routines between irq_save and irq_restore are single steps; the scan    *)
(* runs with interrupts on, and is split wherever the handler can run.     *)
(***************************************************************************)
EXTENDS Integers

CONSTANTS
    SharedLine,         \* does another device use the same interrupt line?
    UNCLAIMED_LIMIT,    \* unclaimed interrupts before the line is masked (32)
    MAX_PLUGS,          \* bound on the devices plugged in during a behaviour
    MAX_FAULTS          \* bound on failing transfers and controller errors

ASSUME UsbAssumption ==
    /\ SharedLine \in BOOLEAN
    /\ UNCLAIMED_LIMIT \in Nat \ {0}
    /\ MAX_PLUGS \in Nat /\ MAX_FAULTS \in Nat

Port == {0, 1}

VARIABLES
    port,       \* the port registers: device (0 if none), change and enable bits
    mouse,      \* devices, by number, that are boot mice
    plugs,      \* devices plugged in so far
    faults,     \* faults so far
    dtoggle,    \* the data toggle of the configured device
    dma,        \* what the controller works on: td, qh, writeback, and its
                \* status register: usbint, hcerror
    host,       \* the driver: status, active, port, toggle, port_status, generation
    cdev,       \* the device the stream was configured for
    open,       \* has the mouse driver been told of a stream?
    line,       \* the interrupt line: late, streak, masked
    hotplug,    \* per port: connected, generation, attempted, status = STREAMING
    task,       \* the kernel task: pc, port, active
    failed      \* ghost, per port: the device the last probe failed for

hardware == <<port, mouse, plugs, faults, dtoggle>>
driver == <<host, cdev, open, line>>
vars == <<hardware, dma, driver, hotplug, task, failed>>

-----------------------------------------------------------------------------
(* The devices and the controller.                                         *)

plug(p) ==
    /\ port[p].dev = 0 /\ plugs < MAX_PLUGS
    /\ plugs' = plugs + 1
    /\ port' = [port EXCEPT ![p] = [dev |-> plugs + 1, change |-> TRUE, enabled |-> FALSE]]
    /\ mouse' \in {mouse, mouse \cup {plugs + 1}}
    /\ UNCHANGED <<faults, dtoggle, dma, driver, hotplug, task, failed>>

unplug(p) ==
    /\ port[p].dev # 0
    /\ port' = [port EXCEPT ![p] = [dev |-> 0, change |-> TRUE, enabled |-> FALSE]]
    /\ UNCHANGED <<mouse, plugs, faults, dtoggle, dma, driver, hotplug, task, failed>>

Scheduled == dma.qh /\ dma.td = "active" /\ host.active /\ ~dma.hcerror
Answers == port[host.port].dev = cdev /\ port[host.port].enabled

\* The device has a report.  The TD is retired before the queue head that
\* points at it.  An interrupt that is already latched is delivered before
\* the next frame.
td_completes ==
    /\ Scheduled /\ Answers /\ dtoggle = host.toggle /\ ~line.late
    /\ dma' = [dma EXCEPT !.td = "done", !.writeback = TRUE]
    /\ dtoggle' = 1 - dtoggle
    /\ UNCHANGED <<port, mouse, plugs, faults, driver, hotplug, task, failed>>

\* The queue head is written, and the frame ends with an interrupt.
qh_written ==
    /\ dma.writeback
    /\ dma' = [dma EXCEPT !.qh = FALSE, !.writeback = FALSE, !.usbint = TRUE]
    /\ UNCHANGED <<hardware, driver, hotplug, task, failed>>

\* Nobody answers, or the transfer fails: the queue head keeps its place.
td_fails ==
    /\ Scheduled
    /\ Answers => faults < MAX_FAULTS
    /\ faults' = IF Answers THEN faults + 1 ELSE faults
    /\ dma' = [dma EXCEPT !.td = "error", !.usbint = TRUE]
    /\ UNCHANGED <<port, mouse, plugs, dtoggle, driver, hotplug, task, failed>>

\* A host system or process error halts the controller.
controller_fails ==
    /\ faults < MAX_FAULTS /\ host.status # "controller_error"
    /\ faults' = faults + 1
    /\ dma' = [dma EXCEPT !.hcerror = TRUE]
    /\ UNCHANGED <<port, mouse, plugs, dtoggle, driver, hotplug, task, failed>>

-----------------------------------------------------------------------------
(* The host driver.  s = [dma, host, open, claimed].                       *)

State == [dma |-> dma, host |-> host, open |-> open, claimed |-> FALSE]

\* Mutant: only the connection bit is looked at.
gone_if_empty(at) == at.dev = 0

\* Is the device of a stream no longer the one that was configured?
Gone(at) == at.dev = 0 \/ ~at.enabled \/ at.change

\* The stream ends, and the mouse driver hears of it.
Lost(s, status) ==
    [s EXCEPT !.host.status = status, !.host.active = FALSE, !.open = FALSE,
              !.claimed = TRUE]

\* Acknowledge; give up on a failed controller; end the stream of a device that
\* is gone, was replaced or failed; otherwise pass the report on and arm the
\* TD again with the other toggle.
service_controller(s) ==
    LET acked == [s EXCEPT !.dma.usbint = FALSE, !.claimed = s.dma.usbint]
        at    == port[s.host.port]
        seen  == [acked EXCEPT !.host.port_status[s.host.port] = at.dev # 0]
        unlinked == [seen EXCEPT !.dma.qh = FALSE]
    IN  IF s.host.status = "controller_error" THEN s
        ELSE IF s.dma.hcerror
        THEN Lost([acked EXCEPT !.dma.hcerror = FALSE], "controller_error")
        ELSE IF ~s.host.active THEN acked
        ELSE IF Gone(at) THEN Lost(unlinked, "disconnected")
        ELSE IF s.dma.td = "active" THEN seen
        ELSE IF s.dma.td = "error" THEN Lost(unlinked, "transfer_error")
        ELSE [seen EXCEPT !.host.toggle = 1 - @, !.dma.td = "active", !.dma.qh = TRUE,
                          !.claimed = TRUE]

\* Does this controller request an interrupt?
Requests == dma.usbint \/ dma.hcerror

\* The handler, for an interrupt of this controller, one that was latched before
\* its cause was acknowledged, or one of another device on the line, which that
\* device's own driver claims.  An interrupt nobody claims counts against the line.
usb_host_interrupt ==
    LET s == service_controller(State)
        own == line.late \/ Requests
    IN  /\ ~line.masked
        /\ own \/ SharedLine
        /\ dma' = s.dma /\ host' = s.host /\ open' = s.open
        /\ line' = IF s.claimed \/ ~own
                   THEN [line EXCEPT !.late = FALSE, !.streak = 0]
                   ELSE [late |-> FALSE, streak |-> line.streak + 1,
                         masked |-> line.streak + 1 >= UNCLAIMED_LIMIT]
        /\ UNCHANGED <<hardware, cdev, hotplug, task, failed>>

\* A stopped controller has finished writing its queue heads.
stop(s) == IF s.dma.writeback
           THEN [s EXCEPT !.dma.qh = FALSE, !.dma.writeback = FALSE] ELSE s

\* Every status bit is cleared while interrupts are off: a request of this
\* controller has already been latched, and is delivered when they are on.
Cleared(s) == [s EXCEPT !.dma.usbint = FALSE, !.dma.hcerror = FALSE]
Latched == [line EXCEPT !.late = @ \/ (~line.masked /\ Requests)]

\* A controller that lost its stream is stopped, emptied and ready again.
Recover(s) ==
    IF s.host.status \in {"disconnected", "transfer_error"}
    THEN [Cleared(stop(s)) EXCEPT !.dma.qh = FALSE, !.dma.td = "idle",
                                  !.host.status = "ready"]
    ELSE s

\* Mutant: a completed TD is collected without stopping the controller.
poll_without_stop(s) == Recover(service_controller(s))

\* What a poll does to the schedule: collect a completed TD with the controller
\* stopped, then recover.
poll_schedule(s) ==
    LET paused == s.host.active /\ s.dma.td # "active"
    IN  Recover(service_controller(IF paused THEN stop(s) ELSE s))

\* A change bit that is found set counts as one generation of the port.
next_generation(p) == host.generation[p] + IF port[p].change THEN 1 ELSE 0

\* The poll, the first part of usb_mouse_service.  hotplug_due, a clock, decides
\* whether a scan follows.
usb_host_poll ==
    LET s == poll_schedule(State)
        dead == s.host.status = "controller_error"
    IN  /\ task.pc = "idle"
        /\ dma' = s.dma /\ open' = s.open
        /\ host' = IF dead THEN s.host
                   ELSE [s.host EXCEPT
                           !.port_status = [p \in Port |-> port[p].dev # 0],
                           !.generation = [p \in Port |-> next_generation(p)]]
        /\ port' = IF dead THEN port
                   ELSE [p \in Port |-> [port[p] EXCEPT !.change = FALSE]]
        /\ line' = Latched
        /\ \E due \in BOOLEAN :
              task' = [pc |-> IF due THEN "scan" ELSE "idle", port |-> 0,
                       active |-> due /\ s.host.active]
        /\ UNCHANGED <<mouse, plugs, faults, dtoggle, cdev, hotplug, failed>>

-----------------------------------------------------------------------------
(* The hotplug scan of usb_mouse_service, one port after the other.        *)

NextPort(t) == IF t.port = 0 THEN [t EXCEPT !.pc = "scan", !.port = 1]
               ELSE [pc |-> "idle", port |-> 0, active |-> FALSE]

\* Mutant: the port is still marked as tried.
forget_status_only(h) == [h EXCEPT !.streaming = FALSE]

\* A stream that ended is forgotten: if its device is still there, the port
\* counts as changed.
Forget(h) == [h EXCEPT !.streaming = FALSE, !.connected = FALSE, !.attempted = FALSE]

Attempt(h) == [h EXCEPT !.attempted = TRUE, !.streaming = FALSE]

\* The bookkeeping of a port, with what the poll returned.  A change is given
\* until the next scan to settle.
scan ==
    LET p == task.port
        h == IF hotplug[p].streaming /\ ~task.active THEN Forget(hotplug[p])
             ELSE hotplug[p]
        ready == host.status = "ready"
        changed == h.connected # host.port_status[p] \/ h.generation # host.generation[p]
        probe == ready /\ ~changed /\ h.connected /\ ~task.active /\ ~h.attempted
    IN  /\ task.pc = "scan"
        /\ hotplug' = [hotplug EXCEPT ![p] =
               IF ready /\ changed
               THEN [connected |-> host.port_status[p], generation |-> host.generation[p],
                     attempted |-> FALSE, streaming |-> h.streaming /\ host.port_status[p]]
               ELSE IF probe THEN Attempt(h) ELSE h]
        /\ task' = IF probe THEN [task EXCEPT !.pc = "reset"] ELSE NextPort(task)
        /\ UNCHANGED <<hardware, dma, driver, failed>>

\* usb_uhci_disable_port for a set of ports; h is the driver's state.
disable_port(ports, h) ==
    IF host.active THEN UNCHANGED port /\ host' = h
    ELSE /\ port' = [q \in Port |-> IF q \in ports THEN [port[q] EXCEPT !.enabled = FALSE]
                                    ELSE port[q]]
         /\ host' = [h EXCEPT !.port_status =
                        [q \in Port |-> IF q \in ports THEN port[q].dev # 0 ELSE @[q]]]

\* Both ports are disabled, so that one device answers at address 0, and this
\* one is reset and enabled.  A probe of a device whose arrival has not been
\* counted yet is no verdict on it.
reset_port ==
    LET p == task.port
        ok == host.status = "ready" /\ ~host.active /\ port[p].dev # 0
    IN  /\ task.pc = "reset"
        /\ failed' = [failed EXCEPT ![p] = IF port[p].change THEN 0 ELSE port[p].dev]
        /\ IF ok
           THEN /\ port' = [q \in Port |-> [port[q] EXCEPT !.enabled = (q = p)]]
                /\ host' = [host EXCEPT !.port_status = [q \in Port |-> port[q].dev # 0]]
                /\ task' = [task EXCEPT !.pc = "configure"]
           ELSE disable_port(Port, host) /\ task' = NextPort(task)
        /\ UNCHANGED <<mouse, plugs, faults, dtoggle, dma, cdev, open, line, hotplug>>

\* A control transfer, with interrupts off.  It is refused unless the controller
\* is ready; one that is made clears the status bits, and a controller error it
\* finds there is final.
control ==
    IF host.status # "ready" \/ host.active
    THEN [ok |-> FALSE, dma |-> dma, line |-> line, host |-> host]
    ELSE [ok |-> ~dma.hcerror, dma |-> Cleared(State).dma, line |-> Latched,
          host |-> IF dma.hcerror THEN [host EXCEPT !.status = "controller_error"] ELSE host]

\* The requests of a probe: descriptors, address, configuration, boot protocol.
\* Configuring a device resets its toggle.
configure ==
    LET p == task.port
        answers == control.ok /\ port[p].dev \in mouse /\ port[p].enabled
    IN  /\ task.pc = "configure"
        /\ dma' = control.dma
        /\ line' = control.line
        /\ \/ /\ answers
              /\ dtoggle' = 0 /\ cdev' = port[p].dev
              /\ task' = [task EXCEPT !.pc = "start"]
              /\ UNCHANGED <<port, faults, host>>
           \/ /\ answers => faults < MAX_FAULTS
              /\ faults' = IF answers THEN faults + 1 ELSE faults
              /\ disable_port({p}, control.host)
              /\ task' = NextPort(task)
              /\ UNCHANGED <<dtoggle, cdev>>
        /\ UNCHANGED <<mouse, plugs, open, hotplug, failed>>

\* usb_uhci_start_interrupt, and the failure path of the probe.
Start(toggle) ==
    LET p == task.port
        ok == host.status = "ready" /\ ~host.active /\ port[p].dev # 0 /\ port[p].enabled
    IN  /\ task.pc = "start"
        /\ IF ok
           THEN /\ host' = [host EXCEPT !.active = TRUE, !.port = p, !.toggle = toggle]
                /\ open' = TRUE
                /\ dma' = [Cleared(stop(State)).dma EXCEPT !.td = "active", !.qh = TRUE]
                /\ line' = Latched
                /\ port' = [port EXCEPT ![p].change = FALSE]
                /\ hotplug' = [hotplug EXCEPT ![p].streaming = TRUE]
                /\ failed' = [failed EXCEPT ![p] = 0]
                /\ task' = NextPort([task EXCEPT !.active = TRUE])
           ELSE /\ disable_port({p}, host) /\ task' = NextPort(task)
                /\ UNCHANGED <<open, dma, line, hotplug, failed>>
        /\ UNCHANGED <<mouse, plugs, faults, dtoggle, cdev>>

\* Mutant: the toggle of the stream before is kept.
start_keeps_toggle == Start(host.toggle)

start_interrupt == Start(0)

service == usb_host_poll \/ scan \/ reset_port \/ configure \/ start_interrupt

\* What usb_mouse_initialize leaves on a machine that starts without a mouse: both
\* ports have been probed in vain.  A mouse that is there at boot is configured by
\* the same usb_mouse_probe_port, here taken when it is plugged in.
Init ==
    /\ port = [p \in Port |-> [dev |-> 0, change |-> FALSE, enabled |-> FALSE]]
    /\ mouse = {} /\ plugs = 0 /\ faults = 0 /\ dtoggle = 0
    /\ dma = [td |-> "idle", qh |-> FALSE, writeback |-> FALSE,
              usbint |-> FALSE, hcerror |-> FALSE]
    /\ host = [status |-> "ready", active |-> FALSE, port |-> 0, toggle |-> 0,
               port_status |-> [p \in Port |-> FALSE], generation |-> [p \in Port |-> 0]]
    /\ cdev = 0
    /\ open = FALSE
    /\ line = [late |-> FALSE, streak |-> 0, masked |-> FALSE]
    /\ hotplug = [p \in Port |-> [connected |-> FALSE, generation |-> 0,
                                  attempted |-> TRUE, streaming |-> FALSE]]
    /\ task = [pc |-> "idle", port |-> 0, active |-> FALSE]
    /\ failed = [p \in Port |-> 0]

Next ==
    \/ \E p \in Port : plug(p) \/ unplug(p)
    \/ td_completes \/ qh_written \/ td_fails \/ controller_fails
    \/ usb_host_interrupt
    \/ service

Spec == Init /\ [][Next]_vars

\* The kernel task has its turn again and again, and a scan is due again and
\* again; interrupts need not arrive at all.
FairSpec ==
    /\ Spec
    /\ WF_vars(service)
    /\ SF_vars(usb_host_poll /\ task'.pc = "scan")

-----------------------------------------------------------------------------
(* Properties.                                                             *)

\* The stream and the device agree on the data toggle, through recovery and
\* re-enumeration: a disagreement loses every second report or stops the
\* stream for good.
TogglesAgree ==
    host.active /\ port[host.port].dev = cdev =>
        (dtoggle = host.toggle <=> dma.td # "done")

\* A TD that waits for a report is reachable from the schedule, and no write of
\* the queue head is under way that will unlink it: a stream never goes silent
\* because it was armed under the controller's hands.
StreamIsArmed == host.active /\ dma.td = "active" => dma.qh /\ ~dma.writeback

\* A report is passed on only while the mouse driver knows of the stream and the
\* device that was configured is still in its port, not when another one has
\* taken its place.
ReportIsFromDevice ==
    [][host.active /\ host'.active /\ host'.toggle # host.toggle =>
          open /\ port[host.port].dev = cdev /\ port[host.port].enabled]_vars

\* A mouse that stays plugged in is streaming sooner or later, or another one
\* on this controller is, or its probe failed, or the controller is dead: no
\* order of disconnections, errors, scans and lost interrupts forgets a port.
MouseEventuallyStreams ==
    \A p \in Port :
        port[p].dev \in mouse ~>
            \/ host.active /\ open
            \/ port[p].dev \notin mouse
            \/ failed[p] = port[p].dev
            \/ host.status = "controller_error"

=============================================================================
