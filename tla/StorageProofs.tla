---------------------------- MODULE StorageProofs ----------------------------
(***************************************************************************)
(* For every number of ports, every set of devices and requests: outside a *)
(* transfer the controller sees no descriptor, at most one device can      *)
(* answer to the address the transport uses, and the range checks agree.   *)
(* The data toggles of the driver and of the disk stay in step across      *)
(* errors and enumerations; from that, a request that succeeds has got     *)
(* exactly its blocks, a kernel that is entered was read exactly, and what *)
(* discovery settled is never opened again.                                *)
(***************************************************************************)
EXTENDS Storage, TLAPS

\* The driver's side of the schedule: it is on only while a transfer is polled,
\* and its status only until transfer() has seen it go off.
ScheduleInv ==
    /\ hc \in [mapped : BOOLEAN, run : BOOLEAN, ase : BOOLEAN, ass : BOOLEAN]
    /\ xfer = "none" => ~hc.ase /\ ~hc.ass
    /\ xfer # "armed" => ~hc.ase

\* A controller without a schedule.
Halted(mapped, run) == [mapped |-> mapped, run |-> run, ase |-> FALSE, ass |-> FALSE]

LEMMA HaltedRecord ==
    ASSUME NEW mapped \in BOOLEAN, NEW run \in BOOLEAN
    PROVE  /\ Halted(mapped, run) \in [mapped : BOOLEAN, run : BOOLEAN, ase : BOOLEAN, ass : BOOLEAN]
           /\ ~Halted(mapped, run).ase /\ ~Halted(mapped, run).ass
  BY DEF Halted

LEMMA ScheduleInit == Init => ScheduleInv
  BY DEF Init, BInit, ScheduleInv

LEMMA ScheduleEnvironment == ScheduleInv /\ environment => ScheduleInv'
<1> SUFFICES ASSUME ScheduleInv, environment PROVE ScheduleInv'
    OBVIOUS
<1>1. CASE \E p \in Port : unplug(p) \/ \E kind \in Pluggable : plug(p, kind)
    BY <1>1 DEF ScheduleInv, unplug, plug, software
<1>2. CASE schedule_off
    BY <1>2, Zenon DEF ScheduleInv, schedule_off, software
<1>3. CASE transfer_error \/ transfer_done
    BY <1>3 DEF ScheduleInv, transfer_error, transfer_done, software
<1> QED
    BY <1>1, <1>2, <1>3 DEF environment

LEMMA ScheduleTransport == ScheduleInv /\ transport => ScheduleInv'
<1> SUFFICES ASSUME ScheduleInv, transport PROVE ScheduleInv'
    OBVIOUS
<1>1. CASE submit
    BY <1>1, Zenon DEF ScheduleInv, submit
<1>2. CASE poll
    BY <1>2, Zenon DEF ScheduleInv, poll
<1>3. CASE schedule_stuck \/ refused
    BY <1>3 DEF ScheduleInv, schedule_stuck, refused, hardware
<1>4. CASE enumerate_storage
    BY <1>4 DEF ScheduleInv, enumerate_storage, quiet
<1>5. CASE scsi
    BY <1>5 DEF ScheduleInv, scsi, quiet
<1>6. CASE start_controller
    <2>1. UNCHANGED xfer /\ (UNCHANGED hc \/ hc' = Halted(TRUE, TRUE))
        BY <1>6, Zenon DEF start_controller, Halted
    <2> QED
        BY <2>1, HaltedRecord, Zenon DEF ScheduleInv
<1>7. CASE scan_port \/ storage_ready
    BY <1>7 DEF ScheduleInv, scan_port, storage_ready
<1>8. CASE no_usb_disk
    <2>1. UNCHANGED xfer /\ (UNCHANGED hc \/ hc' = Halted(FALSE, FALSE))
        BY <1>8, Zenon DEF no_usb_disk, Halted
    <2> QED
        BY <2>1, HaltedRecord, Zenon DEF ScheduleInv
<1>9. CASE ata_read
    BY <1>9 DEF ScheduleInv, ata_read
<1> QED
    BY <1>1, <1>2, <1>3, <1>4, <1>5, <1>6, <1>7, <1>8, <1>9 DEF transport

LEMMA ScheduleLoader == ScheduleInv /\ loader => ScheduleInv'
<1> SUFFICES ASSUME ScheduleInv, loader PROVE ScheduleInv'
    OBVIOUS
<1>1. CASE find_ide_disk \/ matches_boot_image \/ load_image
    BY <1>1, Zenon DEF ScheduleInv, find_ide_disk, matches_boot_image, load_image, hardware
<1>2. CASE bootstrap_done
    BY <1>2, Zenon DEF ScheduleInv, bootstrap_done, stop_controller
<1> QED
    BY <1>1, <1>2 DEF loader

LEMMA ScheduleService ==
    ASSUME ScheduleInv,
           \/ storage_initialize \/ discover_storage \/ discover_usb \/ discover_ata
           \/ storage_lookup \/ storage_read \/ leave_storage
           \/ storage_refresh_usb_companions
           \/ \E r \in Request : storage_syscall(r)
    PROVE  ScheduleInv'
<1>1. CASE storage_initialize
    BY <1>1, Zenon DEF ScheduleInv, storage_initialize
<1>2. CASE discover_storage \/ discover_usb \/ discover_ata
    BY <1>2 DEF ScheduleInv, discover_storage, discover_usb, discover_ata, hardware
<1>3. CASE storage_lookup \/ storage_read \/ leave_storage
    BY <1>3, SMTT(30) DEF ScheduleInv, storage_lookup, storage_read, leave_storage, hardware
<1>4. CASE storage_refresh_usb_companions
    BY <1>4, Zenon DEF ScheduleInv, storage_refresh_usb_companions, software
<1>5. CASE \E r \in Request : storage_syscall(r)
    BY <1>5 DEF ScheduleInv, storage_syscall, hardware
<1> QED
    BY <1>1, <1>2, <1>3, <1>4, <1>5

LEMMA ScheduleStep == ScheduleInv /\ [Next]_vars => ScheduleInv'
<1> SUFFICES ASSUME ScheduleInv, [Next]_vars PROVE ScheduleInv'
    OBVIOUS
<1>1. CASE UNCHANGED vars
    BY <1>1 DEF vars, bvars, software, hardware, ScheduleInv
<1>2. CASE Next
    BY <1>2, ScheduleEnvironment, ScheduleTransport, ScheduleLoader, ScheduleService
       DEF Next, running
<1> QED
    BY <1>1, <1>2

\* No descriptor or buffer is touched while the controller can see it,
\* whatever the devices do and however often transfers time out.
THEOREM TransferQuiesces == Spec => []NoLiveReuse
<1>1. ScheduleInv => NoLiveReuse
    BY DEF ScheduleInv, NoLiveReuse
<1> QED
    BY <1>1, ScheduleInit, ScheduleStep, PTL DEF Spec

-----------------------------------------------------------------------------
(* At most one port is enabled: while ports are tried, the one tried.      *)

\* The fields of the program's record.
CpuShape ==
    cpu = [at |-> cpu.at, port |-> cpu.port, phase |-> cpu.phase, attempt |-> cpu.attempt,
           result |-> cpu.result, lba |-> cpu.lba, blocks |-> cpu.blocks]

PortType == [kind : Kind, enabled : BOOLEAN, companion : BOOLEAN]
NoneEnabled == \A p \in Port : ~port[p].enabled

RespondInv ==
    /\ CpuShape
    /\ port \in [Port -> PortType]
    /\ OneResponder
    /\ cpu.at \in PortLoop => \A p \in Port : port[p].enabled => p = cpu.port
    /\ cpu.at = "scan" => NoneEnabled
    /\ ~kernel /\ cpu.at \in {"search", "none"} => NoneEnabled

\* Goto and Read make records of this shape, and keep the port in the loop.
LEMMA GotoFields ==
    ASSUME NEW at
    PROVE  /\ Goto(at) = [at |-> at, port |-> Goto(at).port, phase |-> 1, attempt |-> 0,
                          result |-> 0, lba |-> 0, blocks |-> 0]
           /\ Goto(at).at = at
           /\ at \in PortLoop => Goto(at).port = cpu.port
  BY DEF Goto

LEMMA RespondInit == Init => RespondInv
<1> SUFFICES ASSUME Init PROVE RespondInv
    OBVIOUS
<1>1. CpuShape
    BY DEF Init, BInit, CpuShape
<1>2. PICK kinds \in Plugged :
         port = [p \in Port |-> [kind |-> kinds[p], enabled |-> FALSE, companion |-> FALSE]]
    BY Zenon DEF Init, BInit
<1>3. kinds \in [Port -> Kind]
    BY BootAssumption
<1>4. port \in [Port -> PortType] /\ NoneEnabled
    BY <1>2, <1>3 DEF PortType, NoneEnabled
<1> QED
    BY <1>1, <1>4 DEF RespondInv, OneResponder, NoneEnabled

\* A step that enables no port.
LEMMA RespondKeeps ==
    ASSUME RespondInv, CpuShape', port' \in [Port -> PortType],
           \A p \in Port : port'[p].enabled => port[p].enabled,
           \/ cpu'.at \notin PortLoop \cup {"search", "none"}
           \/ kernel' /\ cpu'.at \in {"search", "none"}
           \/ NoneEnabled
           \/ NoneEnabled'
           \/ cpu'.at \in PortLoop \ {"scan"} /\ cpu.at \in PortLoop /\ cpu'.port = cpu.port
    PROVE  RespondInv'
<1>1. OneResponder'
    BY DEF RespondInv, OneResponder
<1>2. cpu'.at \in PortLoop => \A p \in Port : port'[p].enabled => p = cpu'.port
    BY DEF RespondInv, NoneEnabled, PortLoop
<1>3. cpu'.at = "scan" \/ (~kernel' /\ cpu'.at \in {"search", "none"}) => NoneEnabled'
    BY DEF NoneEnabled, PortLoop
<1> QED
    BY <1>1, <1>2, <1>3 DEF RespondInv

LEMMA GiveUp ==
    ASSUME RespondInv, cpu.at \in PortLoop, give_up
    PROVE  RespondInv'
<1>1. port' = [port EXCEPT ![cpu.port].enabled = FALSE]
    BY DEF give_up
<1>2. /\ port' \in [Port -> PortType]
      /\ \A p \in Port : port'[p].enabled => port[p].enabled /\ p # cpu.port
    BY <1>1, Zenon DEF RespondInv, PortType
<1>3. NoneEnabled'
    BY <1>2 DEF RespondInv, NoneEnabled
<1>4. CpuShape'
    BY GotoFields DEF give_up, CpuShape, Goto
<1> QED
    BY <1>2, <1>3, <1>4, RespondKeeps

LEMMA Handoff ==
    ASSUME RespondInv, NEW keep, storage_handoff_ports(keep)
    PROVE  /\ port' \in [Port -> PortType]
           /\ \A p \in Port : port'[p].enabled => port[p].enabled
<1>1. CASE UNCHANGED port
    BY <1>1 DEF RespondInv
<1>2. CASE port' = [p \in Port |-> IF p = keep THEN port[p]
                       ELSE [port[p] EXCEPT !.enabled = FALSE, !.companion = TRUE]]
    <2>1. ASSUME NEW p \in Port
          PROVE  port'[p] \in PortType /\ (port'[p].enabled => port[p].enabled)
        BY <1>2, Zenon DEF RespondInv, PortType
    <2> QED
        BY <1>2, <2>1, Zenon
<1> QED
    BY <1>1, <1>2, Zenon DEF storage_handoff_ports

LEMMA RespondEnvironment == RespondInv /\ environment => RespondInv'
<1> SUFFICES ASSUME RespondInv, environment PROVE RespondInv'
    OBVIOUS
<1>1. UNCHANGED <<cpu, kernel>>
    BY DEF environment, unplug, plug, schedule_off, transfer_error, transfer_done, software
<1>2. /\ port' \in [Port -> PortType]
      /\ \A p \in Port : port'[p].enabled => port[p].enabled
    <2>1. ASSUME NEW p \in Port, unplug(p)
          PROVE  port' \in [Port -> PortType] /\ \A q \in Port : port'[q].enabled => port[q].enabled
        BY <2>1 DEF unplug, RespondInv, PortType, Kind
    <2>2. ASSUME NEW p \in Port, NEW kind \in Pluggable, plug(p, kind)
          PROVE  port' \in [Port -> PortType] /\ \A q \in Port : port'[q].enabled => port[q].enabled
        BY <2>2, BootAssumption DEF plug, RespondInv, PortType
    <2>3. CASE schedule_off \/ transfer_error \/ transfer_done
        BY <2>3 DEF schedule_off, transfer_error, transfer_done, RespondInv
    <2> QED
        BY <2>1, <2>2, <2>3 DEF environment
<1>3. CpuShape'
    BY <1>1 DEF RespondInv, CpuShape
<1> QED
    BY <1>1, <1>2, <1>3 DEF RespondInv, OneResponder, NoneEnabled

\* A step of the program that leaves the ports alone and stays at its place,
\* or leaves the loop over the ports.
LEMMA PortsUnchanged ==
    ASSUME RespondInv, UNCHANGED port, CpuShape',
           \/ cpu'.at \notin PortLoop \cup {"search", "none"}
           \/ kernel' /\ cpu'.at \in {"search", "none"}
           \/ NoneEnabled
           \/ cpu'.at \in PortLoop \ {"scan"} /\ cpu.at \in PortLoop /\ cpu'.port = cpu.port
    PROVE  RespondInv'
  BY RespondKeeps DEF RespondInv, NoneEnabled

\* fail, Goto and Read at the program's record.
LEMMA GotoShape ==
    ASSUME NEW at, cpu' = Goto(at)
    PROVE  CpuShape' /\ cpu'.at = at /\ (at \in PortLoop => cpu'.port = cpu.port)
  BY DEF Goto, CpuShape

LEMMA ReadShape ==
    ASSUME NEW at, NEW lba, NEW blocks, cpu' = Read(at, lba, blocks)
    PROVE  CpuShape' /\ cpu'.at = at /\ (at \in PortLoop => cpu'.port = cpu.port)
  BY Zenon DEF Goto, Read, CpuShape

LEMMA ResultShape ==
    ASSUME RespondInv, NEW r, Result(r)
    PROVE  CpuShape' /\ cpu'.at = cpu.at /\ cpu'.port = cpu.port
  BY Zenon DEF RespondInv, Result, CpuShape

LEMMA FailKeeps ==
    ASSUME RespondInv, UNCHANGED port, fail
    PROVE  RespondInv'
<1>1. CpuShape' /\ cpu'.at = "halted"
    BY GotoShape DEF fail
<1> QED
    BY <1>1, PortsUnchanged DEF PortLoop

\* A step that changes only the phase, attempt or result of the program's record.
LEMMA StaysKeeps ==
    ASSUME RespondInv, UNCHANGED <<port, kernel>>, CpuShape',
           cpu'.at = cpu.at, cpu'.port = cpu.port
    PROVE  RespondInv'
  BY DEF RespondInv, OneResponder, NoneEnabled

LEMMA RespondEnumerate ==
    ASSUME RespondInv, enumerate_storage
    PROVE  RespondInv'
<1>1. cpu.at = "enumerate" /\ UNCHANGED kernel
    BY DEF enumerate_storage
<1>2. CASE give_up
    BY <1>1, <1>2, GiveUp DEF PortLoop
<1>3. CASE next_configuration
    <2>1. CASE give_up
        BY <2>1, <1>2
    <2>2. CASE cpu' = [cpu EXCEPT !.phase = 3, !.attempt = @ + 1] /\ UNCHANGED port
        <3>1. CpuShape' /\ cpu'.at = cpu.at /\ cpu'.port = cpu.port
            BY <2>2, Zenon DEF RespondInv, CpuShape
        <3> QED
            BY <1>1, <2>2, <3>1, StaysKeeps
    <2> QED
        BY <1>3, <2>1, <2>2 DEF next_configuration
<1>4. CASE cpu' = Goto("ready") /\ UNCHANGED port
    BY <1>1, <1>4, GotoShape, PortsUnchanged DEF PortLoop
<1>5. CASE cpu' = [cpu EXCEPT !.phase = @ + 1] /\ UNCHANGED port
    <2>1. CpuShape' /\ cpu'.at = cpu.at /\ cpu'.port = cpu.port
        BY <1>5 DEF RespondInv, CpuShape
    <2> QED
        BY <1>1, <1>5, <2>1, StaysKeeps
<1> QED
    BY <1>2, <1>3, <1>4, <1>5 DEF enumerate_storage

LEMMA RespondScsi ==
    ASSUME RespondInv, scsi
    PROVE  RespondInv'
<1>1. UNCHANGED <<port, kernel>>
    BY DEF scsi
<1>2. CpuShape' /\ cpu'.at = cpu.at /\ cpu'.port = cpu.port
    <2>1. CASE \E r : Result(r)
        BY <2>1, ResultShape
    <2>2. ASSUME NEW ph, cpu' = [cpu EXCEPT !.phase = ph]
          PROVE  CpuShape' /\ cpu'.at = cpu.at /\ cpu'.port = cpu.port
        BY <2>2 DEF RespondInv, CpuShape
    <2> QED
        BY <2>1, <2>2 DEF scsi
<1> QED
    BY <1>1, <1>2, StaysKeeps

LEMMA RespondStart ==
    ASSUME RespondInv, start_controller
    PROVE  RespondInv'
<1>1. cpu.at = "search" /\ UNCHANGED kernel
    BY Zenon DEF start_controller
<1>2. CASE fail /\ UNCHANGED port
    BY <1>2, FailKeeps
<1>3. CASE cpu' = Goto("none") /\ UNCHANGED port
    <2>1. CpuShape' /\ cpu'.at = "none"
        BY <1>3, GotoShape
    <2> QED
        BY <1>1, <1>3, <2>1, PortsUnchanged DEF RespondInv
<1>4. CASE /\ port' = [p \in Port |-> [port[p] EXCEPT !.enabled = FALSE, !.companion = FALSE]]
           /\ cpu' = [Goto("scan") EXCEPT !.port = 1]
    <2>1. ASSUME NEW p \in Port PROVE port'[p] \in PortType /\ ~port'[p].enabled
        BY <1>4, Zenon DEF RespondInv, PortType
    <2>2. port' \in [Port -> PortType] /\ NoneEnabled'
        BY <1>4, <2>1, Zenon DEF NoneEnabled
    <2>3. CpuShape'
        BY <1>4, Zenon DEF CpuShape, Goto
    <2> QED
        BY <2>2, <2>3, RespondKeeps, SMTT(30) DEF NoneEnabled
<1> QED
    BY <1>2, <1>3, <1>4, Zenon DEF start_controller

LEMMA RespondScan ==
    ASSUME RespondInv, scan_port
    PROVE  RespondInv'
<1>1. cpu.at = "scan" /\ UNCHANGED kernel /\ NoneEnabled
    BY DEF scan_port, RespondInv
<1>2. CASE fail /\ UNCHANGED port
    BY <1>2, FailKeeps
<1>3. CASE cpu' = [Goto("scan") EXCEPT !.port = cpu.port + 1] /\ UNCHANGED port
    <2>1. CpuShape'
        BY <1>3 DEF CpuShape, Goto
    <2> QED
        BY <1>1, <1>3, <2>1, PortsUnchanged
<1>4. CASE port' = [port EXCEPT ![cpu.port].enabled = TRUE] /\ cpu' = Goto("enumerate")
    <2>1. CpuShape' /\ cpu'.at = "enumerate" /\ cpu'.port = cpu.port
        BY <1>4, GotoShape DEF PortLoop
    <2>2. ASSUME NEW p \in Port
          PROVE  port'[p] \in PortType /\ (port'[p].enabled => p = cpu.port)
        BY <1>1, <1>4, Zenon DEF RespondInv, PortType, NoneEnabled
    <2>3. port' \in [Port -> PortType]
        BY <1>4, <2>2, Zenon DEF RespondInv
    <2> QED
        BY <2>1, <2>2, <2>3 DEF RespondInv, OneResponder
<1> QED
    BY <1>2, <1>3, <1>4 DEF scan_port

LEMMA RespondNoDisk ==
    ASSUME RespondInv, no_usb_disk
    PROVE  RespondInv'
<1>1. cpu.at = "scan" /\ NoneEnabled
    BY DEF no_usb_disk, RespondInv
<1>2. CASE fail /\ UNCHANGED port
    BY <1>2, FailKeeps
<1>3. CASE storage_handoff_ports(0) /\ cpu' = Goto("none")
    BY <1>1, <1>3, Handoff, GotoShape, RespondKeeps
<1> QED
    BY <1>2, <1>3 DEF no_usb_disk

LEMMA RespondReady ==
    ASSUME RespondInv, storage_ready
    PROVE  RespondInv'
<1>1. cpu.at \in {"ready", "sense", "capacity"} /\ UNCHANGED kernel
    BY DEF storage_ready
<1>2. CASE give_up
    BY <1>1, <1>2, GiveUp DEF PortLoop
<1>3. ASSUME NEW at \in {"ready", "sense"}, NEW n,
             cpu' = [Goto(at) EXCEPT !.attempt = n], UNCHANGED port
      PROVE  RespondInv'
    <2>1. CpuShape' /\ cpu'.at = at /\ cpu'.port = cpu.port
        BY <1>3 DEF CpuShape, Goto, PortLoop
    <2> QED
        BY <1>1, <1>3, <2>1, PortsUnchanged DEF PortLoop
<1>4. CASE cpu' = Goto("capacity") /\ UNCHANGED port
    BY <1>1, <1>4, GotoShape, PortsUnchanged DEF PortLoop
<1>5. CASE storage_handoff_ports(cpu.port) /\ cpu' = Goto("found")
    BY <1>5, Handoff, GotoShape, RespondKeeps DEF PortLoop
<1>6. CASE storage_handoff_ports(cpu.port) /\ cpu' = Read("match0", 0, 1)
    BY <1>1, <1>6, Handoff, ReadShape, RespondKeeps DEF PortLoop
<1> QED
    BY <1>2, <1>3, <1>4, <1>5, <1>6 DEF storage_ready

LEMMA RespondTransport == RespondInv /\ transport => RespondInv'
<1> SUFFICES ASSUME RespondInv, transport PROVE RespondInv'
    OBVIOUS
<1>1. CASE submit \/ poll
    BY <1>1, StaysKeeps DEF submit, poll, RespondInv, CpuShape
<1>2. CASE schedule_stuck
    BY <1>2, FailKeeps DEF schedule_stuck, hardware
<1>3. CASE refused \/ ata_read
    <2>1. UNCHANGED <<port, kernel>> /\ \E r : Result(r)
        BY <1>3 DEF refused, ata_read, hardware
    <2> QED
        BY <2>1, ResultShape, StaysKeeps
<1> QED
    BY <1>1, <1>2, <1>3, RespondEnumerate, RespondScsi, RespondStart, RespondScan,
       RespondNoDisk, RespondReady DEF transport

LEMMA NextDrive ==
    ASSUME RespondInv, UNCHANGED port, next_drive,
           NoneEnabled \/ cpu.at \in PortLoop
    PROVE  RespondInv'
<1>1. CASE fail
    BY <1>1, FailKeeps
<1>2. CASE cpu' = Read("match0", 0, 1)
    BY <1>2, ReadShape, PortsUnchanged DEF PortLoop
<1> QED
    BY <1>1, <1>2 DEF next_drive

LEMMA RespondLoader == RespondInv /\ loader => RespondInv'
<1> SUFFICES ASSUME RespondInv, loader PROVE RespondInv'
    OBVIOUS
<1>1. CASE find_ide_disk
    BY <1>1, NextDrive DEF find_ide_disk, hardware, RespondInv
<1>2. ASSUME NEW i, NEW loaded, cpu' = load_next(i, loaded), UNCHANGED port
      PROVE  RespondInv'
    <2>1. CpuShape' /\ cpu'.at = "load"
        BY <1>2, ReadShape DEF load_next
    <2> QED
        BY <1>2, <2>1, PortsUnchanged DEF PortLoop
<1>3. CASE matches_boot_image
    <2>1. cpu.at \in {"match0", "match5"}
        BY <1>3 DEF matches_boot_image
    <2>2. CASE cpu' = Read("match5", 5, 1) /\ UNCHANGED port
        BY <2>1, <2>2, ReadShape, PortsUnchanged DEF PortLoop
    <2>3. CASE give_up
        BY <2>1, <2>3, GiveUp DEF PortLoop
    <2>4. CASE next_drive /\ UNCHANGED port
        BY <2>1, <2>4, NextDrive DEF PortLoop
    <2> QED
        BY <1>2, <1>3, <2>2, <2>3, <2>4 DEF matches_boot_image
<1>4. CASE load_image
    <2>1. UNCHANGED port
        BY <1>4, Zenon DEF load_image, hardware
    <2>2. CASE cpu' = Goto("stop")
        BY <2>1, <2>2, GotoShape, PortsUnchanged DEF PortLoop
    <2> QED
        BY <1>2, <1>4, <2>1, <2>2, FailKeeps, Zenon DEF load_image
<1>5. CASE bootstrap_done
    <2>1. UNCHANGED port
        BY <1>5 DEF bootstrap_done
    <2>2. CASE cpu' = Goto("entered")
        BY <2>1, <2>2, GotoShape, PortsUnchanged DEF PortLoop
    <2> QED
        BY <1>5, <2>1, <2>2, FailKeeps DEF bootstrap_done
<1> QED
    BY <1>1, <1>3, <1>4, <1>5 DEF loader

\* The service runs in the kernel only.
ServiceAt == {"idle", "returned", "discover", "discover_ata", "lookup", "read"}
ServiceInv == cpu.at \in ServiceAt => kernel

\* Transport and loader never go to a place of the service.
LEMMA TransportAt ==
    ASSUME RespondInv, transport \/ loader
    PROVE  UNCHANGED kernel /\ (cpu'.at = cpu.at \/ cpu'.at \notin ServiceAt)
<1>1. UNCHANGED kernel
    BY Zenon DEF transport, loader, submit, poll, schedule_stuck, refused, enumerate_storage, scsi,
           start_controller, scan_port, no_usb_disk, storage_ready, ata_read,
           find_ide_disk, matches_boot_image, load_image, bootstrap_done
<1> DEFINE Elsewhere == cpu'.at = cpu.at \/ cpu'.at \notin ServiceAt
<1>2. ASSUME NEW at, at \notin ServiceAt, cpu' = Goto(at) PROVE Elsewhere
    BY <1>2, GotoShape
<1>3. fail => Elsewhere
    BY <1>2 DEF fail, ServiceAt
<1>4. ASSUME NEW at, NEW lba, NEW blocks, at \notin ServiceAt, cpu' = Read(at, lba, blocks)
      PROVE  Elsewhere
    BY <1>4, ReadShape
<1>5. ASSUME NEW at, NEW n, at \notin ServiceAt,
             cpu' = [Goto(at) EXCEPT !.port = n] \/ cpu' = [Goto(at) EXCEPT !.attempt = n]
      PROVE  Elsewhere
    BY <1>5 DEF Goto
<1>6. give_up => Elsewhere
    BY <1>5 DEF give_up, Goto, ServiceAt
<1>7. ASSUME NEW r, Result(r) PROVE Elsewhere
    BY <1>7, ResultShape
<1>8. ASSUME NEW n, cpu' = [cpu EXCEPT !.phase = n] PROVE Elsewhere
    BY <1>8 DEF RespondInv, CpuShape
<1>9. next_configuration => Elsewhere
    <2>1. cpu' = [cpu EXCEPT !.phase = 3, !.attempt = @ + 1] => Elsewhere
        BY DEF RespondInv, CpuShape
    <2> QED
        BY <1>6, <2>1 DEF next_configuration
<1>10. next_drive => Elsewhere
    BY <1>3, <1>4 DEF next_drive, ServiceAt
<1>11. ASSUME NEW i, NEW loaded, cpu' = load_next(i, loaded) PROVE Elsewhere
    BY <1>4, <1>11 DEF load_next, ServiceAt
<1>12. CASE submit \/ poll
    BY <1>12 DEF submit, poll
<1>13. CASE schedule_stuck \/ refused \/ ata_read
    BY <1>3, <1>7, <1>13 DEF schedule_stuck, refused, ata_read
<1>14. CASE enumerate_storage
    BY <1>2, <1>6, <1>8, <1>9, <1>14 DEF enumerate_storage, ServiceAt
<1>15. CASE scsi
    BY <1>7, <1>8, <1>15 DEF scsi
<1>16. CASE start_controller \/ no_usb_disk
    <2>1. fail \/ cpu' = Goto("none") \/ cpu' = [Goto("scan") EXCEPT !.port = 1]
        BY <1>16, Zenon DEF start_controller, no_usb_disk
    <2>2. "none" \notin ServiceAt /\ "scan" \notin ServiceAt
        BY DEF ServiceAt
    <2>3. cpu' = Goto("none") => Elsewhere
        BY <1>2, <2>2
    <2>4. cpu' = [Goto("scan") EXCEPT !.port = 1] => Elsewhere
        BY <1>5, <2>2, Zenon
    <2> QED
        BY <1>1, <1>3, <2>1, <2>3, <2>4, Zenon
<1>17. CASE scan_port
    BY <1>2, <1>3, <1>5, <1>17, Zenon DEF scan_port, ServiceAt
<1>18. CASE storage_ready
    BY <1>2, <1>4, <1>5, <1>6, <1>18, SMTT(30) DEF storage_ready, ServiceAt
<1>19. CASE find_ide_disk \/ matches_boot_image
    BY <1>4, <1>6, <1>10, <1>11, <1>19 DEF find_ide_disk, matches_boot_image, ServiceAt
<1>20. CASE load_image \/ bootstrap_done
    <2>1. \/ fail \/ \E i, n : cpu' = load_next(i, n)
          \/ cpu' = Goto("stop") \/ cpu' = Goto("entered")
        BY <1>20, Zenon DEF load_image, bootstrap_done
    <2>2. "stop" \notin ServiceAt /\ "entered" \notin ServiceAt
        BY DEF ServiceAt
    <2> QED
        BY <1>1, <1>2, <1>3, <1>11, <2>1, <2>2, Zenon
<1> QED
    BY <1>1, <1>12, <1>13, <1>14, <1>15, <1>16, <1>17, <1>18, <1>19, <1>20, SMTT(30) DEF transport, loader

\* The steps of the service itself.
LEMMA RespondService ==
    ASSUME RespondInv, ServiceInv,
           \/ storage_initialize \/ discover_storage \/ discover_usb \/ discover_ata
           \/ storage_lookup \/ storage_read \/ leave_storage
           \/ storage_refresh_usb_companions
           \/ \E r \in Request : storage_syscall(r)
    PROVE  RespondInv' /\ ServiceInv'
<1>1. ASSUME UNCHANGED port, kernel',
             \/ \E at : cpu' = Goto(at) /\ at \notin PortLoop
             \/ \E lba, blocks : cpu' = Read("read", lba, blocks)
      PROVE  RespondInv' /\ ServiceInv'
    <2>1. CpuShape' /\ cpu'.at \notin PortLoop
        BY <1>1, GotoShape, ReadShape DEF PortLoop
    <2> QED
        BY <1>1, <2>1, PortsUnchanged DEF ServiceInv
<1>2. ASSUME NEW code, Return(code) PROVE \E at : cpu' = Goto(at) /\ at \notin PortLoop
    BY <1>2 DEF Return, PortLoop
<1>3. CASE storage_initialize
    BY <1>1, <1>3 DEF storage_initialize, PortLoop
<1>4. CASE discover_storage \/ discover_usb \/ discover_ata
    BY <1>1, <1>4 DEF discover_storage, discover_usb, discover_ata, hardware, PortLoop,
                      ServiceInv, ServiceAt
<1>5. CASE storage_lookup \/ storage_read \/ leave_storage
    BY <1>1, <1>2, <1>5 DEF storage_lookup, storage_read, leave_storage, hardware, PortLoop,
                            ServiceInv, ServiceAt
<1>6. CASE \E r \in Request : storage_syscall(r)
    <2>1. UNCHANGED <<port, kernel>> /\ cpu.at = "idle"
        BY <1>6 DEF storage_syscall, hardware
    <2>2. \E at : cpu' = Goto(at) /\ at \notin PortLoop
        BY <1>2, <1>6 DEF storage_syscall, PortLoop
    <2> QED
        BY <1>1, <2>1, <2>2 DEF ServiceInv, ServiceAt
<1>7. CASE storage_refresh_usb_companions
    <2>1. UNCHANGED <<cpu, kernel>>
        BY <1>7, Zenon DEF storage_refresh_usb_companions, software
    <2>2. ASSUME NEW p \in Port
          PROVE  port'[p] \in PortType /\ (port'[p].enabled => port[p].enabled)
        BY <1>7, Zenon DEF storage_refresh_usb_companions, RespondInv, PortType
    <2>3. port' \in [Port -> PortType]
        BY <1>7, <2>2, Zenon DEF storage_refresh_usb_companions
    <2> QED
        BY <2>1, <2>2, <2>3, SMTT(30) DEF RespondInv, CpuShape, OneResponder, NoneEnabled, ServiceInv
<1> QED
    BY <1>3, <1>4, <1>5, <1>6, <1>7

LEMMA ServiceInit == Init => ServiceInv
<1>1. Init => cpu.at = "search"
    BY DEF Init, BInit
<1> QED
    BY <1>1 DEF ServiceInv, ServiceAt

LEMMA RespondStep == RespondInv /\ ServiceInv /\ [Next]_vars => RespondInv' /\ ServiceInv'
<1> SUFFICES ASSUME RespondInv, ServiceInv, [Next]_vars PROVE RespondInv' /\ ServiceInv'
    OBVIOUS
<1>1. CASE UNCHANGED vars
    BY <1>1 DEF vars, bvars, software, hardware, RespondInv, CpuShape, OneResponder,
                NoneEnabled, ServiceInv
<1>2. CASE environment
    <2>1. UNCHANGED <<cpu, kernel>>
        BY <1>2 DEF environment, unplug, plug, schedule_off, transfer_error,
                    transfer_done, software
    <2> QED
        BY <1>2, <2>1, RespondEnvironment DEF ServiceInv
<1>3. CASE transport \/ loader
    BY <1>3, RespondTransport, RespondLoader, TransportAt DEF ServiceInv
<1> QED
    BY <1>1, <1>2, <1>3, RespondService DEF Next, running

\* Address 1 has one owner, for any number of ports and any devices in them.
THEOREM OneAnswer == Spec => []OneResponder
<1>1. RespondInv => OneResponder
    BY DEF RespondInv
<1> QED
    BY <1>1, RespondInit, ServiceInit, RespondStep, PTL DEF Spec

\* A range that storage_read admits lies below the capacity of its device, and
\* usb_read (for a disk with that last block) and ata_read (for a drive whose
\* capacity storage_identify_capacity has limited) do not refuse it: STORAGE_IO_ERROR
\* always means that the device failed.
THEOREM AdmittedRangesAreRead ==
    \A capacity \in Nat, lba \in Nat, blocks \in Nat :
        storage_valid_range(capacity, lba, blocks) =>
            /\ lba + blocks <= capacity
            /\ usb_range(capacity - 1, lba, blocks)
            /\ capacity = storage_identify_capacity(capacity) => ata_range(lba, blocks)
  BY StorageAssumption, BootAssumption
     DEF storage_valid_range, usb_range, ata_range, storage_identify_capacity, LBA28

-----------------------------------------------------------------------------
(* What the boot loader has put into memory.                               *)

\* Where the program goes, and what its record then holds.
LEMMA GotoPlace ==
    ASSUME NEW at, cpu' = Goto(at)
    PROVE  /\ cpu'.at = at /\ cpu'.phase = 1 /\ cpu'.result = 0
           /\ cpu'.lba = 0 /\ cpu'.blocks = 0
  BY DEF Goto

LEMMA ReadPlace ==
    ASSUME NEW at, NEW lba, NEW blocks, cpu' = Read(at, lba, blocks)
    PROVE  cpu'.at = at /\ cpu'.phase = 1 /\ cpu'.lba = lba /\ cpu'.blocks = blocks
  BY Zenon DEF Goto, Read

LEMMA ResultPlace ==
    ASSUME CpuShape, NEW r, Result(r)
    PROVE  /\ cpu'.at = cpu.at /\ cpu'.phase = RESULT /\ cpu'.result = r
           /\ cpu'.lba = cpu.lba /\ cpu'.blocks = cpu.blocks
  BY Zenon DEF Result, CpuShape

LEMMA PhasePlace ==
    ASSUME CpuShape, NEW n, cpu' = [cpu EXCEPT !.phase = n]
    PROVE  /\ cpu'.at = cpu.at /\ cpu'.phase = n /\ cpu'.port = cpu.port
           /\ cpu'.lba = cpu.lba /\ cpu'.blocks = cpu.blocks
  BY DEF CpuShape

LEMMA ScanPlace ==
    ASSUME NEW n, cpu' = [Goto("scan") EXCEPT !.port = n]
    PROVE  cpu'.at = "scan" /\ cpu'.phase = 1
  BY DEF Goto

LEMMA AttemptPlace ==
    ASSUME NEW at, NEW n, cpu' = [Goto(at) EXCEPT !.attempt = n]
    PROVE  cpu'.at = at /\ cpu'.phase = 1
  BY DEF Goto

LEMMA GiveUpPlace ==
    ASSUME give_up
    PROVE  cpu'.at = "scan" /\ cpu'.phase = 1 /\ usb' = Unused
  BY DEF give_up, Goto

LEMMA ConfigurationPlace ==
    ASSUME CpuShape, next_configuration
    PROVE  \/ give_up
           \/ /\ cpu'.at = cpu.at /\ cpu'.phase = 3 /\ cpu'.port = cpu.port
              /\ UNCHANGED <<usb, port, device>>
<1>1. ASSUME cpu' = [cpu EXCEPT !.phase = 3, !.attempt = @ + 1]
      PROVE  cpu'.at = cpu.at /\ cpu'.phase = 3 /\ cpu'.port = cpu.port
    BY <1>1, Zenon DEF CpuShape
<1> QED
    BY <1>1 DEF next_configuration

LEMMA LoadPlace ==
    ASSUME NEW i, NEW loaded, cpu' = load_next(i, loaded)
    PROVE  cpu'.at = "load" /\ cpu'.phase = 1
  BY ReadPlace, Zenon DEF load_next

Exact(i) == mem[i] = Blocks("ours", IMAGE[i].lba, IMAGE[i].sectors)
LoaderAt == {"match0", "match5", "load", "stop", "entered"}

\* A payload counts as loaded only after its checksum was compared, and the
\* loader has a controller to stop for as long as one may run.
LoadInv ==
    /\ mem = [i \in 1 .. 2 |-> mem[i]]
    /\ cpu.at # "halted" => Len(mem[1]) < IMAGE[1].sectors \/ Exact(1)
    /\ cpu.at \in {"stop", "entered"} => Exact(1) /\ Exact(2)
    /\ cpu.at = "entered" => ~hc.run /\ ~hc.ass
    /\ ~kernel /\ ~hc.mapped => ~hc.run /\ ~hc.ass
    /\ ~kernel /\ backend = 0 /\ cpu.at \in PortLoop \cup Scsi => hc.mapped
    /\ ~kernel => backend \in Nat
    /\ cpu.at \in LoaderAt => ~kernel
    /\ cpu.at = "found" => kernel

LEMMA LoadInit == Init => LoadInv
<1> SUFFICES ASSUME Init PROVE LoadInv
    OBVIOUS
<1>1. /\ kernel = FALSE /\ cpu.at = "search" /\ backend = 0 /\ mem = <<<<>>, <<>>>>
      /\ hc = [mapped |-> FALSE, run |-> FALSE, ase |-> FALSE, ass |-> FALSE]
    BY Zenon DEF Init, BInit
<1>2. mem = [i \in 1 .. 2 |-> mem[i]] /\ Len(mem[1]) = 0
    BY <1>1
<1>3. ~hc.run /\ ~hc.ass
    BY <1>1
<1>4. 0 < IMAGE[1].sectors
    BY BootAssumption
<1> QED
    BY <1>1, <1>2, <1>3, <1>4 DEF LoadInv, PortLoop, Scsi, LoaderAt

\* A step that loads nothing and leaves the controller alone.
LEMMA LoadKeeps ==
    ASSUME LoadInv, UNCHANGED <<mem, kernel, hc>>,
           cpu'.at # "halted" => cpu.at # "halted",
           cpu'.at \notin {"stop", "entered"},
           cpu'.at = "found" => kernel,
           cpu'.at \in LoaderAt => ~kernel,
           ~kernel => backend' \in Nat,
           ~kernel /\ backend' = 0 /\ cpu'.at \in PortLoop \cup Scsi => hc.mapped
    PROVE  LoadInv'
  BY DEF LoadInv, Exact

\* The same for one that stays where it is.
LEMMA LoadStays ==
    ASSUME LoadInv, UNCHANGED <<mem, kernel, backend, hc>>, cpu'.at = cpu.at
    PROVE  LoadInv'
  BY DEF LoadInv, Exact

LEMMA LoadFails ==
    ASSUME LoadInv, UNCHANGED <<kernel, backend, hc>>, fail,
           mem' = [i \in 1 .. 2 |-> mem'[i]]
    PROVE  LoadInv'
<1>1. cpu'.at = "halted"
    BY GotoPlace DEF fail
<1> QED
    BY <1>1 DEF LoadInv, LoaderAt, PortLoop, Scsi

LEMMA LoadEnvironment == LoadInv /\ ScheduleInv /\ environment => LoadInv'
<1> SUFFICES ASSUME LoadInv, ScheduleInv, environment PROVE LoadInv'
    OBVIOUS
<1>1. UNCHANGED software
    BY DEF environment, unplug, plug, schedule_off, transfer_error, transfer_done
<1>2. UNCHANGED hc \/ (hc'.mapped = hc.mapped /\ hc'.run = hc.run /\ ~hc'.ass)
    <2>1. CASE schedule_off
        BY <2>1, Zenon DEF schedule_off, ScheduleInv
    <2>2. CASE ~schedule_off
        BY <2>2 DEF environment, unplug, plug, transfer_error, transfer_done
    <2> QED
        BY <2>1, <2>2
<1> QED
    BY <1>1, <1>2 DEF LoadInv, software, Exact

LEMMA LoadTransport ==
    ASSUME LoadInv, ScheduleInv, RespondInv, transport
    PROVE  LoadInv'
<1> USE DEF PortLoop, Scsi, LoaderAt
<1>1. CASE submit
    <2>1. /\ UNCHANGED <<cpu, mem, kernel, backend>>
          /\ backend = 0 /\ cpu.at \in Control \cup Scsi
        BY <1>1 DEF submit
    <2>2. hc'.mapped = hc.mapped /\ hc'.run = hc.run
        BY <1>1, Zenon DEF submit, ScheduleInv
    <2> QED
        BY <2>1, <2>2 DEF LoadInv, Exact, Control
<1>2. CASE poll
    <2>1. UNCHANGED <<cpu, mem, kernel, backend>>
        BY <1>2 DEF poll
    <2>2. hc'.mapped = hc.mapped /\ hc'.run = hc.run /\ hc'.ass = hc.ass
        BY <1>2, Zenon DEF poll, ScheduleInv
    <2> QED
        BY <2>1, <2>2 DEF LoadInv, Exact
<1>3. CASE schedule_stuck
    BY <1>3, LoadFails, Zenon DEF schedule_stuck, hardware, LoadInv
<1>4. CASE refused \/ ata_read
    <2>1. UNCHANGED <<mem, kernel, backend, hc>> /\ \E r : Result(r)
        BY <1>4 DEF refused, ata_read, hardware
    <2> QED
        BY <2>1, ResultPlace, LoadStays DEF RespondInv
<1>5. CASE enumerate_storage
    <2>1. UNCHANGED <<mem, kernel, backend, hc>> /\ cpu.at = "enumerate"
        BY <1>5 DEF enumerate_storage
    <2>2. cpu'.at \in {"scan", "enumerate", "ready"}
        BY <1>5, <2>1, GiveUpPlace, ConfigurationPlace, GotoPlace, PhasePlace, SMTT(30)
           DEF enumerate_storage, RespondInv
    <2> QED
        BY <2>1, <2>2, LoadKeeps, Zenon DEF LoadInv
<1>6. CASE scsi
    <2>1. UNCHANGED <<mem, kernel, backend, hc>>
        BY <1>6 DEF scsi
    <2>2. cpu'.at = cpu.at
        BY <1>6, ResultPlace, PhasePlace DEF scsi, RespondInv
    <2> QED
        BY <2>1, <2>2, LoadStays
<1>7. CASE start_controller
    <2>1. UNCHANGED <<mem, kernel, backend>> /\ cpu.at = "search"
        BY <1>7, Zenon DEF start_controller
    <2>2. CASE fail /\ UNCHANGED hc
        BY <2>1, <2>2, LoadFails DEF LoadInv
    <2>3. CASE cpu' = Goto("none") /\ UNCHANGED hc
        BY <2>1, <2>3, GotoPlace, LoadKeeps DEF LoadInv
    <2>4. CASE hc' = Halted(TRUE, TRUE) /\ cpu' = [Goto("scan") EXCEPT !.port = 1]
        <3>1. cpu'.at = "scan"
            BY <2>4, ScanPlace, Zenon
        <3>2. hc'.mapped
            BY <2>4, SMTT(30) DEF Halted
        <3> QED
            BY <2>1, <3>1, <3>2 DEF LoadInv, Exact
    <2> QED
        BY <1>7, <2>2, <2>3, <2>4, Zenon DEF start_controller, Halted
<1>8. CASE scan_port
    <2>1. UNCHANGED <<mem, kernel, backend, hc>> /\ cpu.at = "scan"
        BY <1>8 DEF scan_port
    <2>2. fail \/ cpu'.at \in {"scan", "enumerate"}
        BY <1>8, ScanPlace, GotoPlace, SMTT(30) DEF scan_port
    <2> QED
        BY <2>1, <2>2, LoadFails, LoadKeeps, Zenon DEF LoadInv
<1>9. CASE no_usb_disk
    <2>1. UNCHANGED <<mem, kernel, backend>> /\ cpu.at = "scan"
        BY <1>9 DEF no_usb_disk
    <2>2. CASE fail /\ UNCHANGED hc
        BY <2>1, <2>2, LoadFails DEF LoadInv
    <2>3. CASE hc' = Halted(FALSE, FALSE) /\ cpu' = Goto("none")
        <3>1. cpu'.at = "none"
            BY <2>3, GotoPlace
        <3>2. ~hc'.run /\ ~hc'.ass
            BY <2>3 DEF Halted
        <3> QED
            BY <2>1, <3>1, <3>2 DEF LoadInv, Exact
    <2> QED
        BY <1>9, <2>2, <2>3, Zenon DEF no_usb_disk, Halted
<1>10. CASE storage_ready
    <2>1. UNCHANGED <<mem, kernel, backend, hc>> /\ cpu.at \in {"ready", "sense", "capacity"}
        BY <1>10 DEF storage_ready
    <2>2. \/ cpu'.at \in {"scan", "ready", "sense", "capacity"}
          \/ cpu'.at = IF kernel THEN "found" ELSE "match0"
        BY <1>10, GiveUpPlace, AttemptPlace, GotoPlace, ReadPlace, SMTT(30) DEF storage_ready
    <2> QED
        BY <2>1, <2>2, LoadKeeps, Zenon DEF LoadInv
<1> QED
    BY <1>1, <1>2, <1>3, <1>4, <1>5, <1>6, <1>7, <1>8, <1>9, <1>10 DEF transport

LEMMA LoadLoader ==
    ASSUME LoadInv, ScheduleInv, RespondInv, loader
    PROVE  LoadInv'
<1> USE DEF PortLoop, Scsi, LoaderAt
<1>1. ASSUME ~kernel, UNCHANGED <<mem, kernel, hc>>, cpu.at # "halted", next_drive
      PROVE  LoadInv'
    <2>1. CASE fail /\ UNCHANGED backend
        BY <1>1, <2>1, LoadFails, Zenon DEF LoadInv
    <2>2. CASE backend' = backend + 1 /\ cpu' = Read("match0", 0, 1)
        <3>1. cpu'.at = "match0" /\ backend' \in Nat /\ backend' # 0
            BY <1>1, <2>2, ReadPlace DEF LoadInv
        <3> QED
            BY <1>1, <3>1, LoadKeeps
    <2> QED
        BY <1>1, <2>1, <2>2 DEF next_drive
<1>2. CASE find_ide_disk
    BY <1>1, <1>2 DEF find_ide_disk, hardware
<1>3. CASE matches_boot_image
    <2>1. UNCHANGED <<mem, kernel, hc>> /\ cpu.at \in {"match0", "match5"} /\ ~kernel
        BY <1>3 DEF matches_boot_image, LoadInv
    <2>2. CASE next_drive
        BY <1>1, <2>1, <2>2
    <2>3. CASE UNCHANGED backend /\ cpu'.at \in {"match5", "load", "scan"}
        BY <2>1, <2>3, LoadKeeps, Zenon DEF LoadInv
    <2> QED
        BY <1>3, <2>2, <2>3, ReadPlace, LoadPlace, GiveUpPlace, SMTT(30) DEF matches_boot_image
<1>4. CASE load_image
    <2> DEFINE i == IF Len(mem[1]) < IMAGE[1].sectors THEN 1 ELSE 2
               payload == mem[i] \o buffer
    <2>1. UNCHANGED <<kernel, backend, hc>> /\ cpu.at = "load" /\ ~kernel
        BY <1>4, Zenon DEF load_image, hardware, LoadInv
    <2>2. CASE fail /\ UNCHANGED mem
        BY <2>1, <2>2, LoadFails, Zenon DEF LoadInv
    <2>3. CASE mem' = [mem EXCEPT ![i] = payload]
        <3> HIDE DEF payload
        <3>1. i \in 1 .. 2 /\ (i = 1 <=> Len(mem[1]) < IMAGE[1].sectors)
            OBVIOUS
        <3> HIDE DEF i
        <3>2. /\ mem' = [j \in 1 .. 2 |-> mem'[j]] /\ mem'[i] = payload
              /\ \A j \in 1 .. 2 : j # i => mem'[j] = mem[j]
            BY <2>3, <3>1, Zenon DEF LoadInv
        <3>3. CASE fail
            BY <2>1, <3>2, <3>3, LoadFails
        <3>4. CASE Len(payload) < IMAGE[i].sectors /\ cpu' = load_next(i, Len(payload))
            <4>1. cpu'.at = "load"
                BY <3>4, LoadPlace
            <4>2. Len(mem'[1]) < IMAGE[1].sectors \/ Exact(1)'
                BY <2>1, <3>1, <3>2, <3>4 DEF LoadInv, Exact
            <4> QED
                BY <2>1, <3>2, <4>1, <4>2 DEF LoadInv
        <3>5. CASE crc_matches(i, payload) /\ cpu' = IF i = 1 THEN load_next(2, 0) ELSE Goto("stop")
            <4>1. Exact(1)' /\ (i = 2 => Exact(2)')
                <5>1. mem'[i] = Blocks("ours", IMAGE[i].lba, IMAGE[i].sectors)
                    BY <3>2, <3>5 DEF crc_matches
                <5>2. CASE i = 1
                    BY <5>1, <5>2 DEF Exact
                <5>3. CASE i = 2
                    <6>1. mem'[1] = mem[1] /\ Exact(1)
                        BY <2>1, <3>1, <3>2, <5>3 DEF LoadInv
                    <6> QED
                        BY <5>1, <5>3, <6>1 DEF Exact
                <5> QED
                    BY <3>1, <5>2, <5>3
            <4>2. cpu'.at = IF i = 1 THEN "load" ELSE "stop"
                BY <3>5, LoadPlace, GotoPlace
            <4>3. cpu'.at = "stop" => Exact(2)'
                BY <3>1, <4>1, <4>2
            <4> QED
                BY <2>1, <3>2, <4>1, <4>2, <4>3 DEF LoadInv
        <3> QED
            BY <1>4, <2>3, <3>3, <3>4, <3>5, Zenon DEF load_image, i, payload
    <2> QED
        BY <1>4, <2>2, <2>3, Zenon DEF load_image
<1>5. CASE bootstrap_done
    <2>1. UNCHANGED <<mem, kernel, backend>> /\ cpu.at = "stop" /\ ~kernel
        BY <1>5 DEF bootstrap_done, LoadInv
    <2>2. CASE fail /\ UNCHANGED hc
        BY <2>1, <2>2, LoadFails DEF LoadInv
    <2>3. CASE stop_controller /\ cpu' = Goto("entered")
        <3>1. cpu'.at = "entered"
            BY <2>3, GotoPlace
        <3>2. hc.mapped => ~hc'.run /\ ~hc'.ass
            BY <2>3, Zenon DEF stop_controller, ScheduleInv
        <3>3. ~hc.mapped => UNCHANGED hc
            BY <2>3 DEF stop_controller
        <3>4. ~hc'.run /\ ~hc'.ass
            BY <2>1, <3>2, <3>3 DEF LoadInv
        <3> QED
            BY <2>1, <3>1, <3>4 DEF LoadInv, Exact
    <2> QED
        BY <1>5, <2>2, <2>3 DEF bootstrap_done
<1> QED
    BY <1>2, <1>3, <1>4, <1>5 DEF loader

\* The service runs in the kernel.
LEMMA LoadService ==
    ASSUME LoadInv, ScheduleInv, ServiceInv, CpuShape,
           \/ storage_initialize \/ discover_storage \/ discover_usb \/ discover_ata
           \/ storage_lookup \/ storage_read \/ leave_storage
           \/ storage_refresh_usb_companions
           \/ \E r \in Request : storage_syscall(r)
    PROVE  LoadInv'
<1>1. CASE storage_initialize
    <2>1. kernel' = TRUE /\ UNCHANGED mem /\ cpu.at = "entered" /\ cpu'.at \in {"search", "idle"}
        BY <1>1, GotoPlace DEF storage_initialize
    <2> QED
        BY <2>1, Zenon DEF LoadInv, Exact, LoaderAt
<1>2. ASSUME kernel, UNCHANGED <<kernel, mem, hc>>, cpu.at # "halted",
             cpu'.at \in ServiceAt \cup {"search"}
      PROVE  LoadInv'
    BY <1>2, LoadKeeps DEF LoaderAt, ServiceAt
<1>3. ASSUME NEW code, Return(code) PROVE cpu'.at = "returned"
    BY <1>3, GotoPlace DEF Return
<1>4. CASE discover_storage \/ discover_usb \/ discover_ata
    <2>1. kernel /\ UNCHANGED <<kernel, mem, hc>> /\ cpu.at # "halted"
        BY <1>4 DEF discover_storage, discover_usb, discover_ata, hardware, ServiceInv, ServiceAt
    <2>2. cpu'.at \in ServiceAt \cup {"search"}
        BY <1>4, GotoPlace DEF discover_storage, discover_usb, discover_ata, ServiceAt
    <2> QED
        BY <1>2, <2>1, <2>2
<1>5. CASE storage_lookup \/ storage_read \/ leave_storage
    <2>1. kernel /\ UNCHANGED <<kernel, mem, hc>> /\ cpu.at # "halted"
        BY <1>5, Zenon DEF storage_lookup, storage_read, leave_storage, hardware, ServiceInv, ServiceAt
    <2>2. cpu'.at \in ServiceAt \cup {"search"}
        BY <1>3, <1>5, GotoPlace, ReadPlace DEF storage_lookup, storage_read, leave_storage, ServiceAt
    <2> QED
        BY <1>2, <2>1, <2>2
<1>6. CASE \E r \in Request : storage_syscall(r)
    <2>1. kernel /\ UNCHANGED <<kernel, mem, hc>> /\ cpu.at # "halted"
        BY <1>6 DEF storage_syscall, hardware, ServiceInv, ServiceAt
    <2>2. cpu'.at \in ServiceAt \cup {"search"}
        BY <1>3, <1>6, GotoPlace DEF storage_syscall, ServiceAt
    <2> QED
        BY <1>2, <2>1, <2>2
<1>7. CASE storage_refresh_usb_companions
    BY <1>7, LoadStays, Zenon DEF storage_refresh_usb_companions, software
<1> QED
    BY <1>1, <1>4, <1>5, <1>6, <1>7

LEMMA LoadStep ==
    LoadInv /\ ScheduleInv /\ RespondInv /\ ServiceInv /\ [Next]_vars => LoadInv'
<1> SUFFICES ASSUME LoadInv, ScheduleInv, RespondInv, ServiceInv, [Next]_vars PROVE LoadInv'
    OBVIOUS
<1>1. CASE UNCHANGED vars
    BY <1>1, LoadStays DEF vars, bvars, software, hardware
<1>2. CASE Next
    BY <1>2, LoadEnvironment, LoadTransport, LoadLoader, LoadService
       DEF Next, running, RespondInv
<1> QED
    BY <1>1, <1>2

\* The kernel is entered only with both payloads in memory as the manifest
\* describes them and with the controller stopped: for every image, however it
\* is split into reads, and whatever disks, drives and failures came before.
THEOREM KernelIsWhole == Spec => []KernelStartsClean
<1> DEFINE IInv == ScheduleInv /\ RespondInv /\ ServiceInv /\ LoadInv
<1>1. Init => IInv
    BY ScheduleInit, RespondInit, ServiceInit, LoadInit
<1>2. IInv /\ [Next]_vars => IInv'
    BY ScheduleStep, RespondStep, LoadStep
<1>3. IInv => KernelStartsClean
    <2> SUFFICES ASSUME LoadInv, cpu.at = "entered", NEW i \in 1 .. 2
                 PROVE  ~hc.run /\ ~hc.ass /\ Exact(i)
        BY DEF KernelStartsClean, Exact
    <2>1. i = 1 \/ i = 2
        OBVIOUS
    <2> QED
        BY <2>1 DEF LoadInv
<1> QED
    BY <1>1, <1>2, <1>3, PTL DEF Spec

-----------------------------------------------------------------------------
(* The ports that are enabled and the devices in them.                     *)

\* The record of a device and its changes, one or two fields at a time.
Dev(a, i, o, d) == [address |-> a, in |-> i, out |-> o, padded |-> d]
DeviceShape ==
    /\ device = [p \in Port |-> device[p]]
    /\ \A p \in Port : \E a, i, o, d : device[p] = Dev(a, i, o, d)

LEMMA DevFields ==
    ASSUME NEW a, NEW i, NEW o, NEW d
    PROVE  /\ Dev(a, i, o, d).address = a /\ Dev(a, i, o, d).in = i
           /\ Dev(a, i, o, d).out = o /\ Dev(a, i, o, d).padded = d
  BY DEF Dev

\* One field of one device changes.
LEMMA DeviceAddress ==
    ASSUME DeviceShape, NEW p \in Port, NEW v, device' = [device EXCEPT ![p].address = v]
    PROVE  /\ DeviceShape'
           /\ device'[p].in = device[p].in /\ device'[p].out = device[p].out /\ device'[p].padded = device[p].padded
           /\ \A q \in Port : q # p => device'[q] = device[q]
<1>1. PICK a, i, o, d : device[p] = Dev(a, i, o, d)
    BY DEF DeviceShape
<1>2. device' = [device EXCEPT ![p] = [device[p] EXCEPT !.address = v]]
    BY Zenon DEF DeviceShape
<1>3. [device[p] EXCEPT !.address = v] = Dev(v, i, o, d)
    BY <1>1 DEF Dev
<1>4. device' = [device EXCEPT ![p] = Dev(v, i, o, d)]
    BY <1>2, <1>3, Zenon
<1>5. /\ DeviceShape' /\ device'[p] = Dev(v, i, o, d)
      /\ \A q \in Port : q # p => device'[q] = device[q]
    BY <1>4 DEF DeviceShape
<1> QED
    BY <1>1, <1>5, DevFields

LEMMA DeviceOut ==
    ASSUME DeviceShape, NEW p \in Port, NEW v, device' = [device EXCEPT ![p].out = v]
    PROVE  /\ DeviceShape'
           /\ device'[p].out = v /\ device'[p].in = device[p].in /\ device'[p].padded = device[p].padded
           /\ \A q \in Port : q # p => device'[q] = device[q]
<1>1. PICK a, i, o, d : device[p] = Dev(a, i, o, d)
    BY DEF DeviceShape
<1>2. device' = [device EXCEPT ![p] = [device[p] EXCEPT !.out = v]]
    BY Zenon DEF DeviceShape
<1>3. [device[p] EXCEPT !.out = v] = Dev(a, i, v, d)
    BY <1>1 DEF Dev
<1>4. device' = [device EXCEPT ![p] = Dev(a, i, v, d)]
    BY <1>2, <1>3, Zenon
<1>5. /\ DeviceShape' /\ device'[p] = Dev(a, i, v, d)
      /\ \A q \in Port : q # p => device'[q] = device[q]
    BY <1>4 DEF DeviceShape
<1> QED
    BY <1>1, <1>5, DevFields

LEMMA DeviceConfigured ==
    ASSUME DeviceShape, NEW p \in Port,
           device' = [device EXCEPT ![p].in = 0, ![p].out = 0]
    PROVE  /\ DeviceShape'
           /\ device'[p].in = 0 /\ device'[p].out = 0 /\ device'[p].padded = device[p].padded
           /\ \A q \in Port : q # p => device'[q] = device[q]
<1>1. PICK a, i, o, d : device[p] = Dev(a, i, o, d)
    BY DEF DeviceShape
<1>2. device' = [device EXCEPT ![p] = [device[p] EXCEPT !.in = 0, !.out = 0]]
    BY Zenon DEF DeviceShape
<1>3. [device[p] EXCEPT !.in = 0, !.out = 0] = [[device[p] EXCEPT !.in = 0] EXCEPT !.out = 0]
    BY Zenon
<1>4. [device[p] EXCEPT !.in = 0] = Dev(a, 0, o, d)
    BY <1>1 DEF Dev
<1>5. [Dev(a, 0, o, d) EXCEPT !.out = 0] = Dev(a, 0, 0, d)
    BY DEF Dev
<1>6. device' = [device EXCEPT ![p] = Dev(a, 0, 0, d)]
    BY <1>2, <1>3, <1>4, <1>5, Zenon
<1>7. /\ DeviceShape' /\ device'[p] = Dev(a, 0, 0, d)
      /\ \A q \in Port : q # p => device'[q] = device[q]
    BY <1>6 DEF DeviceShape
<1>8. device'[p].in = 0 /\ device'[p].out = 0 /\ device'[p].padded = device[p].padded
    BY <1>1, <1>7, DevFields
<1> QED
    BY <1>7, <1>8, Zenon

LEMMA DeviceIn ==
    ASSUME DeviceShape, NEW p \in Port, NEW v, NEW w,
           device' = [device EXCEPT ![p].in = v, ![p].padded = w]
    PROVE  /\ DeviceShape'
           /\ device'[p].in = v /\ device'[p].padded = w /\ device'[p].out = device[p].out
           /\ \A q \in Port : q # p => device'[q] = device[q]
<1>1. PICK a, i, o, d : device[p] = Dev(a, i, o, d)
    BY DEF DeviceShape
<1>2. device' = [device EXCEPT ![p] = [device[p] EXCEPT !.in = v, !.padded = w]]
    BY Zenon DEF DeviceShape
<1>3. [device[p] EXCEPT !.in = v, !.padded = w] = [[device[p] EXCEPT !.in = v] EXCEPT !.padded = w]
    BY Zenon
<1>4. [device[p] EXCEPT !.in = v] = Dev(a, v, o, d)
    BY <1>1 DEF Dev
<1>5. [Dev(a, v, o, d) EXCEPT !.padded = w] = Dev(a, v, o, w)
    BY DEF Dev
<1>6. device' = [device EXCEPT ![p] = Dev(a, v, o, w)]
    BY <1>2, <1>3, <1>4, <1>5, Zenon
<1>7. /\ DeviceShape' /\ device'[p] = Dev(a, v, o, w)
      /\ \A q \in Port : q # p => device'[q] = device[q]
    BY <1>6 DEF DeviceShape
<1>8. device'[p].in = v /\ device'[p].padded = w /\ device'[p].out = device[p].out
    BY <1>1, <1>7, DevFields
<1> QED
    BY <1>7, <1>8, Zenon

LEMMA FreshRecord == (\E a, i, o, d : Fresh = Dev(a, i, o, d)) /\ Fresh.in = 0 /\ Fresh.out = 0
  BY Zenon DEF Fresh, Dev

LEMMA DeviceFresh ==
    ASSUME DeviceShape, NEW p \in Port, device' = [device EXCEPT ![p] = Fresh]
    PROVE  /\ DeviceShape' /\ device'[p].in = 0 /\ device'[p].out = 0
           /\ \A q \in Port : q # p => device'[q] = device[q]
<1>1. /\ device' = [q \in Port |-> device'[q]] /\ device'[p] = Fresh
      /\ \A q \in Port : q # p => device'[q] = device[q]
    BY DEF DeviceShape
<1>2. ASSUME NEW q \in Port PROVE \E a, i, o, d : device'[q] = Dev(a, i, o, d)
    <2>1. CASE q = p
        <3>1. PICK a, i, o, d : Fresh = Dev(a, i, o, d)
            BY FreshRecord
        <3> QED
            BY <1>1, <2>1, <3>1
    <2>2. CASE q # p
        <3>1. PICK a, i, o, d : device[q] = Dev(a, i, o, d)
            BY DEF DeviceShape
        <3> QED
            BY <1>1, <2>2, <3>1
    <2> QED
        BY <2>1, <2>2
<1>3. DeviceShape'
    BY <1>1, <1>2, Zenon DEF DeviceShape
<1> QED
    BY <1>1, <1>3, FreshRecord, Zenon

LEMMA AllFresh ==
    ASSUME device = [p \in Port |-> Fresh]
    PROVE  DeviceShape
<1>1. device = [p \in Port |-> device[p]]
    BY Zenon
<1>2. ASSUME NEW p \in Port PROVE \E a, i, o, d : device[p] = Dev(a, i, o, d)
    BY FreshRecord, Zenon
<1> QED
    BY <1>1, <1>2, Zenon DEF DeviceShape

\* No device that can answer is exchanged.
PortsStay ==
    \A p \in Port : port'[p].enabled =>
        port[p].enabled /\ port'[p].kind = port[p].kind /\ device'[p] = device[p]

\* Past SET_CONFIGURATION the enabled port is that of a disk.
DiskInv ==
    /\ DeviceShape
    /\ cpu.at = "enumerate" => cpu.phase \in Int
    /\ \A p \in Port : port[p].enabled =>
          /\ port[p].kind \in {"camera"} \cup Disk
          /\ \/ cpu.at \notin {"enumerate", "halted"}
             \/ cpu.at = "enumerate" /\ cpu.phase = 5
             => port[p].kind \in Disk

LEMMA DiskKeeps ==
    ASSUME DiskInv, DeviceShape', PortsStay,
           cpu'.at = "enumerate" => cpu'.phase \in Int,
           \/ cpu'.at = cpu.at /\ cpu'.phase = cpu.phase
           \/ cpu'.at = "halted"
           \/ cpu'.at = "enumerate" /\ cpu'.phase # 5
           \/ cpu.at \notin {"enumerate", "halted"}
           \/ cpu.at = "enumerate" /\ cpu.phase = 5
    PROVE  DiskInv'
<1>1. ASSUME NEW p \in Port, port'[p].enabled
      PROVE  /\ port'[p].kind \in {"camera"} \cup Disk
             /\ (\/ cpu'.at \notin {"enumerate", "halted"}
                 \/ cpu'.at = "enumerate" /\ cpu'.phase = 5) => port'[p].kind \in Disk
    <2>1. port[p].enabled /\ port'[p].kind = port[p].kind
        BY <1>1 DEF PortsStay
    <2> QED
        BY <2>1, Zenon DEF DiskInv
<1> QED
    BY <1>1 DEF DiskInv

LEMMA NoneStay ==
    ASSUME NoneEnabled'
    PROVE  PortsStay
  BY DEF NoneEnabled, PortsStay

LEMMA DiskNone ==
    ASSUME NoneEnabled', DeviceShape', cpu'.at # "enumerate"
    PROVE  DiskInv'
  BY DEF NoneEnabled, DiskInv

LEMMA DiskInit == Init => DiskInv
<1> SUFFICES ASSUME Init PROVE DiskInv
    OBVIOUS
<1>1. PICK kinds \in Plugged :
         port = [p \in Port |-> [kind |-> kinds[p], enabled |-> FALSE, companion |-> FALSE]]
    BY Zenon DEF Init, BInit
<1>2. \A p \in Port : ~port[p].enabled
    BY <1>1
<1>3. DeviceShape
    BY AllFresh, Zenon DEF Init, BInit
<1>4. cpu.at = "search"
    BY Zenon DEF Init, BInit
<1> QED
    BY <1>2, <1>3, <1>4 DEF DiskInv

\* give_up leaves no port enabled.
LEMMA GiveUpDevices ==
    ASSUME RespondInv, DeviceShape, cpu.at \in PortLoop, give_up
    PROVE  NoneEnabled' /\ DeviceShape'
<1>1. port' = [port EXCEPT ![cpu.port].enabled = FALSE]
    BY DEF give_up
<1>2. \A p \in Port : port'[p].enabled => port[p].enabled /\ p # cpu.port
    BY <1>1, Zenon DEF RespondInv, PortType
<1>3. NoneEnabled'
    BY <1>2 DEF RespondInv, NoneEnabled
<1>4. CASE cpu.port \in Port
    BY <1>3, <1>4, DeviceFresh, Zenon DEF give_up
<1>5. CASE cpu.port \notin Port
    BY <1>3, <1>5 DEF give_up, DeviceShape
<1> QED
    BY <1>4, <1>5

LEMMA HandoffStays ==
    ASSUME RespondInv, NEW keep, storage_handoff_ports(keep), UNCHANGED device
    PROVE  PortsStay
<1>1. CASE UNCHANGED port
    BY <1>1 DEF PortsStay
<1>2. CASE port' = [p \in Port |-> IF p = keep THEN port[p]
                       ELSE [port[p] EXCEPT !.enabled = FALSE, !.companion = TRUE]]
    <2>1. ASSUME NEW p \in Port, port'[p].enabled
          PROVE  port[p].enabled /\ port'[p].kind = port[p].kind
        BY <1>2, <2>1, Zenon DEF RespondInv, PortType
    <2> QED
        BY <2>1 DEF PortsStay
<1> QED
    BY <1>1, <1>2, Zenon DEF storage_handoff_ports

LEMMA DiskEnvironment ==
    ASSUME DiskInv, RespondInv, environment
    PROVE  DiskInv' /\ (~transfer_done => PortsStay)
<1>1. UNCHANGED cpu
    BY DEF environment, unplug, plug, schedule_off, transfer_error, transfer_done, software
<1>2. ASSUME NEW p \in Port, unplug(p) PROVE PortsStay /\ DeviceShape'
    <2>1. DeviceShape' /\ \A q \in Port : q # p => device'[q] = device[q]
        BY <1>2, DeviceFresh, Zenon DEF unplug, DiskInv
    <2>2. ~port'[p].enabled /\ \A q \in Port : q # p => port'[q] = port[q]
        BY <1>2 DEF unplug, RespondInv
    <2> QED
        BY <2>1, <2>2 DEF PortsStay
<1>3. ASSUME NEW p \in Port, NEW kind \in Pluggable, plug(p, kind) PROVE PortsStay /\ DeviceShape'
    <2>1. DeviceShape' /\ \A q \in Port : q # p => device'[q] = device[q]
        BY <1>3, DeviceFresh, Zenon DEF plug, DiskInv
    <2>2. port[p].kind = "none"
        BY <1>3 DEF plug
    <2>3. ~port[p].enabled
        BY <2>2 DEF DiskInv, Disk
    <2>4. port'[p].enabled = port[p].enabled /\ \A q \in Port : q # p => port'[q] = port[q]
        BY <1>3, Zenon DEF plug, RespondInv, PortType
    <2> QED
        BY <2>1, <2>3, <2>4, Zenon DEF PortsStay
<1>4. ASSUME schedule_off \/ transfer_error PROVE PortsStay /\ DeviceShape'
    BY <1>4 DEF schedule_off, transfer_error, PortsStay, DiskInv, DeviceShape
<1>5. CASE transfer_done
    <2>1. PICK p \in Port : control_done(p) \/ cbw_done(p) \/ data_done(p) \/ csw_done(p)
        BY <1>5, Zenon DEF transfer_done, Responding
    <2>2. DeviceShape
        BY DEF DiskInv
    <2>3. ASSUME control_done(p) PROVE DeviceShape'
        <3>1. CASE device' = [device EXCEPT ![p].address = 1]
            BY <2>2, <3>1, DeviceAddress, Zenon
        <3>2. CASE UNCHANGED device
            BY <2>2, <3>2 DEF DeviceShape
        <3>3. CASE device' = [device EXCEPT ![p].in = 0, ![p].out = 0]
            BY <2>2, <3>3, DeviceConfigured, Zenon
        <3>4. CASE cpu.phase = 2
            BY <2>3, <3>1, <3>4 DEF control_done
        <3>5. CASE cpu.phase = 5
            <4>1. cpu.phase # 2
                BY <3>5
            <4> QED
                BY <2>3, <3>3, <3>5, <4>1, Zenon DEF control_done
        <3>6. CASE cpu.phase # 2 /\ cpu.phase # 5
            BY <2>3, <3>2, <3>6, Zenon DEF control_done
        <3> QED
            BY <3>4, <3>5, <3>6
    <2>4. ASSUME cbw_done(p) PROVE DeviceShape'
        BY <2>2, <2>4, DeviceOut, Zenon DEF cbw_done
    <2>5. ASSUME data_done(p) PROVE DeviceShape'
        <3>1. \E v, w : device' = [device EXCEPT ![p].in = v, ![p].padded = w]
            BY <2>5, Zenon DEF data_done
        <3> QED
            BY <2>2, <3>1, DeviceIn, Zenon
    <2>6. ASSUME csw_done(p) PROVE DeviceShape'
        <3>1. \E v, w : device' = [device EXCEPT ![p].in = v, ![p].padded = w]
            BY <2>6, Zenon DEF csw_done
        <3> QED
            BY <2>2, <3>1, DeviceIn, Zenon
    <2>7. DeviceShape'
        BY <2>1, <2>3, <2>4, <2>5, <2>6
    <2>8. UNCHANGED port
        BY <1>5 DEF transfer_done
    <2> QED
        BY <1>1, <1>5, <2>7, <2>8 DEF DiskInv
<1>6. ~transfer_done => PortsStay /\ DeviceShape'
    BY <1>2, <1>3, <1>4 DEF environment
<1>7. cpu'.at = "enumerate" => cpu'.phase \in Int
    BY <1>1 DEF DiskInv
<1> QED
    BY <1>1, <1>5, <1>6, <1>7, DiskKeeps

-----------------------------------------------------------------------------
(* The data toggles of the transport and of the disk.                      *)

UsbShape == usb = [address |-> usb.address, in |-> usb.in, out |-> usb.out, dead |-> usb.dead]

\* The transport has addressed the device and may use it.
Live == usb.address = 1 /\ ~usb.dead /\ cpu.at # "enumerate"

Agree(p) == device[p].in = usb.in /\ device[p].out = usb.out

\* The device is ahead by the transfer the program has not yet taken note of.
Ahead(p) ==
    /\ cpu.phase = CBW => device[p].in = usb.in /\ device[p].out = 1 - usb.out
    /\ cpu.phase = DATA => device[p].in = toggled(packets) /\ device[p].out = usb.out
    /\ cpu.phase = CSW => device[p].in = 1 - usb.in /\ device[p].out = usb.out

InStep(p) ==
    /\ cpu.at = "enumerate" => device[p].in = 0 /\ device[p].out = 0
    /\ Live /\ (xfer = "none" \/ qtd \in {"active", "error"}) => Agree(p)
    /\ Live /\ cpu.at # "halted" /\ xfer # "none" /\ qtd = "done" => Ahead(p)

BulkInv ==
    /\ UsbShape
    /\ xfer # "none" /\ cpu.at # "halted" =>
          backend = 0 /\ (cpu.at \in Control \/ (cpu.at \in Scsi /\ cpu.phase # RESULT))
    /\ xfer = "succeeded" => qtd \in {"done", "short"}
    /\ xfer # "none" => ~usb.dead
    /\ cpu.at = "enumerate" => usb.in = 0 /\ usb.out = 0
    /\ \A p \in Port : port[p].enabled => InStep(p)

LEMMA BulkInit == Init => BulkInv
<1> SUFFICES ASSUME Init PROVE BulkInv
    OBVIOUS
<1>1. PICK kinds \in Plugged :
         port = [p \in Port |-> [kind |-> kinds[p], enabled |-> FALSE, companion |-> FALSE]]
    BY Zenon DEF Init, BInit
<1>2. \A p \in Port : ~port[p].enabled
    BY <1>1
<1>3. usb = Unused /\ xfer = "none" /\ cpu.at = "search"
    BY Zenon DEF Init, BInit
<1>4. UsbShape
    BY <1>3 DEF UsbShape, Unused
<1> QED
    BY <1>2, <1>3, <1>4 DEF BulkInv

\* The program goes on outside a transfer, at the first phase of what is next.
Elsewhere ==
    /\ cpu.at \notin {"enumerate", "halted"} /\ cpu'.at # "enumerate" /\ cpu'.phase = 1
    /\ xfer = "none" /\ xfer' = "none" /\ UNCHANGED answer
    /\ UNCHANGED usb \/ usb' = Unused
    /\ DeviceShape' /\ PortsStay

\* Where a program that is not in a transfer is.
LEMMA OutsideTransfer ==
    ASSUME BulkInv,
           \/ cpu.at \notin Control \cup Scsi \cup {"halted"}
           \/ cpu.at \in Scsi /\ cpu.phase = RESULT
    PROVE  xfer = "none"
  BY DEF BulkInv, Control, Scsi

LEMMA ElsewhereTransport ==
    ASSUME RespondInv, DiskInv, BulkInv,
           \/ start_controller \/ no_usb_disk \/ storage_ready
           \/ scan_port /\ cpu'.at # "enumerate"
    PROVE  Elsewhere
<1>1. CASE start_controller
    <2>1. UNCHANGED <<xfer, usb, answer>> /\ cpu.at = "search"
        BY <1>1, Zenon DEF start_controller
    <2>2. xfer = "none"
        BY <2>1, OutsideTransfer DEF Control, Scsi
    <2>3. cpu'.at # "enumerate" /\ cpu'.phase = 1
        <3>1. cpu' = Goto("none") \/ cpu' = Goto("halted") \/ cpu' = [Goto("scan") EXCEPT !.port = 1]
            BY <1>1, Zenon DEF start_controller, fail
        <3> QED
            BY <3>1, GotoPlace, ScanPlace
    <2>4. CASE UNCHANGED <<port, device>>
        BY <2>1, <2>2, <2>3, <2>4 DEF Elsewhere, PortsStay, DiskInv, DeviceShape
    <2>5. CASE /\ port' = [p \in Port |-> [port[p] EXCEPT !.enabled = FALSE, !.companion = FALSE]]
               /\ device' = [p \in Port |-> Fresh]
        <3>1. ASSUME NEW p \in Port PROVE ~port'[p].enabled
            BY <2>5, Zenon DEF RespondInv, PortType
        <3>2. PortsStay
            BY <3>1 DEF PortsStay
        <3>3. DeviceShape'
            <4>1. device' = [p \in Port |-> device'[p]]
                BY <2>5, Zenon
            <4>2. ASSUME NEW p \in Port PROVE \E a, i, o, d : device'[p] = Dev(a, i, o, d)
                <5>1. device'[p] = Fresh
                    BY <2>5, Zenon
                <5>2. PICK a, i, o, d : Fresh = Dev(a, i, o, d)
                    BY FreshRecord
                <5> QED
                    BY <5>1, <5>2
            <4> QED
                BY <4>1, <4>2, Zenon DEF DeviceShape
        <3> QED
            BY <2>1, <2>2, <2>3, <3>2, <3>3 DEF Elsewhere
    <2> QED
        BY <1>1, <2>4, <2>5, Zenon DEF start_controller
<1>2. CASE no_usb_disk
    <2>1. UNCHANGED <<xfer, usb, answer, device>> /\ cpu.at = "scan"
        BY <1>2, Zenon DEF no_usb_disk
    <2>2. xfer = "none"
        BY <2>1, OutsideTransfer DEF Control, Scsi
    <2>3. cpu'.at # "enumerate" /\ cpu'.phase = 1
        BY <1>2, GotoPlace DEF no_usb_disk, fail
    <2>4. PortsStay
        <3>1. CASE UNCHANGED port
            BY <2>1, <3>1 DEF PortsStay
        <3>2. CASE storage_handoff_ports(0)
            BY <2>1, <3>2, HandoffStays
        <3> QED
            BY <1>2, <3>1, <3>2, Zenon DEF no_usb_disk
    <2> QED
        BY <2>1, <2>2, <2>3, <2>4 DEF Elsewhere, DiskInv, DeviceShape
<1>3. CASE storage_ready
    <2>1. UNCHANGED <<xfer, answer>> /\ cpu.at \in {"ready", "sense", "capacity"} /\ cpu.phase = RESULT
        BY <1>3, Zenon DEF storage_ready
    <2>2. xfer = "none"
        BY <2>1, OutsideTransfer DEF Control, Scsi
    <2>3. cpu'.at # "enumerate" /\ cpu'.phase = 1
        BY <1>3, GiveUpPlace, AttemptPlace, GotoPlace, ReadPlace, SMTT(30) DEF storage_ready
    <2>4. CASE give_up
        <3>1. NoneEnabled' /\ DeviceShape' /\ usb' = Unused
            BY <2>1, <2>4, GiveUpDevices, GiveUpPlace, Zenon DEF DiskInv, PortLoop
        <3> QED
            BY <2>1, <2>2, <2>3, <3>1, NoneStay DEF Elsewhere
    <2>5. CASE UNCHANGED <<usb, port, device>>
        BY <2>1, <2>2, <2>3, <2>5 DEF Elsewhere, PortsStay, DiskInv, DeviceShape
    <2>6. CASE storage_handoff_ports(cpu.port) /\ UNCHANGED <<usb, device>>
        BY <2>1, <2>2, <2>3, <2>6, HandoffStays DEF Elsewhere, DiskInv, DeviceShape
    <2> QED
        BY <1>3, <2>4, <2>5, <2>6, Zenon DEF storage_ready
<1>4. CASE scan_port /\ cpu'.at # "enumerate"
    <2>1. UNCHANGED <<xfer, answer>> /\ cpu.at = "scan"
        BY <1>4 DEF scan_port
    <2>2. xfer = "none"
        BY <2>1, OutsideTransfer DEF Control, Scsi
    <2>3. cpu'.phase = 1 /\ UNCHANGED <<usb, port, device>>
        BY <1>4, ScanPlace, GotoPlace, SMTT(30) DEF scan_port, fail
    <2> QED
        BY <1>4, <2>1, <2>2, <2>3 DEF Elsewhere, PortsStay, DiskInv, DeviceShape
<1> QED
    BY <1>1, <1>2, <1>3, <1>4

LEMMA ElsewhereLoader ==
    ASSUME RespondInv, DiskInv, BulkInv, loader
    PROVE  Elsewhere
<1>1. UNCHANGED <<xfer, answer>>
    BY Zenon DEF loader, find_ide_disk, matches_boot_image, load_image, bootstrap_done, hardware
<1>2. \/ cpu.at \in {"none", "stop"}
      \/ cpu.at \in {"match0", "match5", "load"} /\ cpu.phase = RESULT
    BY Zenon DEF loader, find_ide_disk, matches_boot_image, load_image, bootstrap_done
<1>3. xfer = "none"
    BY <1>2, OutsideTransfer DEF Control, Scsi
<1>4. cpu'.at # "enumerate" /\ cpu'.phase = 1
    <2>1. next_drive => cpu'.at # "enumerate" /\ cpu'.phase = 1
        BY GotoPlace, ReadPlace DEF next_drive, fail
    <2>2. CASE find_ide_disk \/ matches_boot_image
        BY <2>1, <2>2, ReadPlace, LoadPlace, GiveUpPlace, SMTT(30) DEF find_ide_disk, matches_boot_image
    <2>3. CASE load_image
        <3>1. \/ fail
              \/ \E i, n : cpu' = load_next(i, n)
              \/ cpu' = Goto("stop")
            BY <2>3, Zenon DEF load_image
        <3> QED
            BY <3>1, GotoPlace, LoadPlace, SMTT(30) DEF fail
    <2>4. CASE bootstrap_done
        BY <2>4, GotoPlace DEF bootstrap_done, fail
    <2> QED
        BY <2>2, <2>3, <2>4 DEF loader
<1>5. CASE matches_boot_image /\ give_up
    <2>1. cpu.at \in PortLoop
        BY <1>5 DEF PortLoop, matches_boot_image
    <2>2. NoneEnabled' /\ DeviceShape' /\ usb' = Unused
        BY <1>5, <2>1, GiveUpDevices, GiveUpPlace DEF DiskInv
    <2> QED
        BY <1>1, <1>2, <1>3, <1>4, <2>2, NoneStay DEF Elsewhere
<1>6. CASE UNCHANGED <<usb, port, device>>
    BY <1>1, <1>2, <1>3, <1>4, <1>6 DEF Elsewhere, PortsStay, DiskInv, DeviceShape
<1> QED
    BY <1>5, <1>6, Zenon DEF loader, find_ide_disk, matches_boot_image, load_image, bootstrap_done, hardware

LEMMA ElsewhereService ==
    ASSUME DiskInv, BulkInv,
           \/ storage_initialize \/ discover_storage \/ discover_usb \/ discover_ata
           \/ storage_lookup \/ storage_read \/ leave_storage
           \/ \E r \in Request : storage_syscall(r)
    PROVE  Elsewhere
<1>1. ASSUME NEW code, Return(code) PROVE cpu'.at = "returned" /\ cpu'.phase = 1
    BY <1>1, GotoPlace DEF Return
<1>2. CASE storage_initialize
    <2>1. UNCHANGED <<xfer, answer, port, device>> /\ usb' = Unused /\ cpu.at = "entered"
        BY <1>2, Zenon DEF storage_initialize
    <2>2. cpu'.at # "enumerate" /\ cpu'.phase = 1
        BY <1>2, GotoPlace DEF storage_initialize
    <2>3. xfer = "none"
        BY <2>1, OutsideTransfer DEF Control, Scsi
    <2> QED
        BY <2>1, <2>2, <2>3 DEF Elsewhere, PortsStay, DiskInv, DeviceShape
<1>3. ASSUME UNCHANGED <<xfer, answer, usb, port, device>>, cpu'.at # "enumerate", cpu'.phase = 1,
             \/ cpu.at \notin Control \cup Scsi \cup {"halted"}
             \/ cpu.at = "read" /\ cpu.phase = RESULT
      PROVE  Elsewhere
    <2>1. xfer = "none" /\ cpu.at \notin {"enumerate", "halted"}
        BY <1>3, OutsideTransfer DEF Control, Scsi
    <2> QED
        BY <1>3, <2>1 DEF Elsewhere, PortsStay, DiskInv, DeviceShape
<1>4. CASE discover_storage \/ discover_usb \/ discover_ata
    <2>1. UNCHANGED <<xfer, answer, usb, port, device>>
        BY <1>4 DEF discover_storage, discover_usb, discover_ata, hardware
    <2>2. cpu'.at # "enumerate" /\ cpu'.phase = 1
        BY <1>4, GotoPlace DEF discover_storage, discover_usb, discover_ata
    <2>3. cpu.at \in {"discover", "found", "none", "discover_ata"}
        BY <1>4, Zenon DEF discover_storage, discover_usb, discover_ata
    <2> QED
        BY <1>3, <2>1, <2>2, <2>3 DEF Control, Scsi
<1>5. CASE storage_lookup \/ storage_read \/ leave_storage
    <2>1. UNCHANGED <<xfer, answer, usb, port, device>>
        BY <1>5, Zenon DEF storage_lookup, storage_read, leave_storage, hardware
    <2>2. cpu'.at # "enumerate" /\ cpu'.phase = 1
        BY <1>1, <1>5, GotoPlace, ReadPlace DEF storage_lookup, storage_read, leave_storage
    <2>3. cpu.at \in {"lookup", "returned"} \/ (cpu.at = "read" /\ cpu.phase = RESULT)
        BY <1>5, Zenon DEF storage_lookup, storage_read, leave_storage
    <2> QED
        BY <1>3, <2>1, <2>2, <2>3 DEF Control, Scsi
<1>6. CASE \E r \in Request : storage_syscall(r)
    <2>1. UNCHANGED <<xfer, answer, usb, port, device>> /\ cpu.at = "idle"
        BY <1>6 DEF storage_syscall, hardware
    <2>2. cpu'.at # "enumerate" /\ cpu'.phase = 1
        BY <1>1, <1>6, GotoPlace DEF storage_syscall
    <2> QED
        BY <1>3, <2>1, <2>2 DEF Control, Scsi
<1> QED
    BY <1>2, <1>4, <1>5, <1>6

LEMMA DiskElsewhere ==
    ASSUME DiskInv, Elsewhere
    PROVE  DiskInv'
  BY DiskKeeps DEF Elsewhere

LEMMA BulkElsewhere ==
    ASSUME BulkInv, Elsewhere
    PROVE  BulkInv'
<1>1. xfer = "none" /\ xfer' = "none" /\ cpu.at # "enumerate" /\ cpu'.at # "enumerate"
    BY DEF Elsewhere
<1>2. UsbShape'
    BY DEF Elsewhere, BulkInv, UsbShape, Unused
<1>3. ASSUME NEW p \in Port, port'[p].enabled PROVE InStep(p)'
    <2>1. port[p].enabled /\ device'[p] = device[p]
        BY <1>3, Zenon DEF Elsewhere, PortsStay
    <2>2. InStep(p)
        BY <2>1 DEF BulkInv
    <2>3. CASE UNCHANGED usb
        BY <1>1, <2>1, <2>2, <2>3, Zenon DEF InStep, Live, Agree
    <2>4. CASE usb' = Unused
        <3>1. usb'.address = 0
            BY <2>4 DEF Unused
        <3> QED
            BY <1>1, <3>1 DEF InStep, Live
    <2> QED
        BY <2>3, <2>4 DEF Elsewhere
<1> QED
    BY <1>1, <1>2, <1>3 DEF BulkInv

LEMMA SamePorts ==
    ASSUME DiskInv, UNCHANGED <<port, device>>
    PROVE  DeviceShape' /\ PortsStay
  BY DEF DiskInv, DeviceShape, PortsStay

\* Nothing of the transport changes.
LEMMA BulkStays ==
    ASSUME BulkInv, PortsStay, UNCHANGED <<usb, xfer, backend, cpu, qtd>>
    PROVE  BulkInv'
<1>1. ASSUME NEW p \in Port, port'[p].enabled PROVE InStep(p)'
    <2>1. port[p].enabled /\ device'[p] = device[p]
        BY <1>1 DEF PortsStay
    <2>2. InStep(p)
        BY <2>1 DEF BulkInv
    <2> QED
        BY <2>1, <2>2, Zenon DEF InStep, Live, Agree, Ahead, toggled, packets
<1> QED
    BY <1>1, Zenon DEF BulkInv, UsbShape

\* The one step that enables a port.
LEMMA ScanEnables ==
    ASSUME RespondInv, DiskInv, scan_port, cpu'.at = "enumerate"
    PROVE  /\ cpu'.phase = 1 /\ usb' = Unused /\ DeviceShape'
           /\ UNCHANGED <<xfer, backend, qtd, answer>> /\ cpu.at = "scan"
           /\ \A p \in Port : port'[p].enabled =>
                 /\ port'[p].kind \in {"camera"} \cup Disk
                 /\ device'[p].in = 0 /\ device'[p].out = 0
<1>1. cpu.at = "scan" /\ NoneEnabled /\ UNCHANGED <<xfer, backend, qtd, answer>>
    BY DEF scan_port, RespondInv
<1>2. /\ port[cpu.port].kind \in {"camera"} \cup Disk
      /\ port' = [port EXCEPT ![cpu.port].enabled = TRUE]
      /\ device' = [device EXCEPT ![cpu.port] = Fresh]
      /\ usb' = Unused /\ cpu' = Goto("enumerate")
    <2>1. ~fail /\ cpu' # [Goto("scan") EXCEPT !.port = cpu.port + 1]
        BY GotoPlace, ScanPlace DEF fail
    <2> QED
        BY <2>1, Zenon DEF scan_port
<1>3. cpu'.phase = 1
    BY <1>2, GotoPlace
<1>4. ASSUME NEW p \in Port, port'[p].enabled
      PROVE  p = cpu.port /\ port'[p].kind = port[p].kind
    BY <1>1, <1>2, <1>4, Zenon DEF RespondInv, PortType, NoneEnabled
<1>5. CASE cpu.port \in Port
    <2>1. DeviceShape' /\ device'[cpu.port].in = 0 /\ device'[cpu.port].out = 0
        BY <1>2, <1>5, DeviceFresh, Zenon DEF DiskInv
    <2> QED
        BY <1>1, <1>2, <1>3, <1>4, <2>1
<1>6. CASE cpu.port \notin Port
    <2>1. DeviceShape'
        BY <1>2, <1>6 DEF DiskInv, DeviceShape
    <2> QED
        BY <1>1, <1>2, <1>3, <1>4, <1>6, <2>1
<1> QED
    BY <1>5, <1>6, Zenon

LEMMA DiskTransport ==
    ASSUME DiskInv, RespondInv, BulkInv, transport
    PROVE  DiskInv'
<1>1. CASE submit \/ poll
    BY <1>1, SamePorts, DiskKeeps DEF submit, poll, DiskInv
<1>2. CASE schedule_stuck
    <2>1. UNCHANGED <<port, device>> /\ cpu'.at = "halted"
        BY <1>2, GotoPlace DEF schedule_stuck, fail, hardware
    <2> QED
        BY <2>1, SamePorts, DiskKeeps
<1>3. CASE refused \/ ata_read \/ scsi
    <2>1. UNCHANGED <<port, device>>
        BY <1>3 DEF refused, ata_read, scsi, hardware
    <2>2. cpu.at \notin {"enumerate", "halted"}
        BY <1>3 DEF refused, ata_read, scsi, Scsi, Reads
    <2>3. cpu'.at = cpu.at
        BY <1>3, ResultPlace, PhasePlace DEF refused, ata_read, scsi, RespondInv
    <2> QED
        BY <2>1, <2>2, <2>3, SamePorts, DiskKeeps
<1>4. CASE enumerate_storage
    <2>1. cpu.at = "enumerate" /\ cpu.phase \in Int
        BY <1>4 DEF enumerate_storage, DiskInv
    <2>2. CASE give_up
        BY <2>1, <2>2, GiveUpDevices, GiveUpPlace, DiskNone, Zenon DEF PortLoop, DiskInv
    <2>3. CASE next_configuration
        <3>1. CASE give_up
            BY <2>2, <3>1
        <3>2. CASE cpu'.at = cpu.at /\ cpu'.phase = 3 /\ UNCHANGED <<port, device>>
            BY <2>1, <3>2, SamePorts, DiskKeeps
        <3> QED
            BY <2>3, <3>1, <3>2, ConfigurationPlace, Zenon DEF RespondInv
    <2>4. CASE /\ cpu.phase = 4 => port[cpu.port].kind # "camera"
               /\ cpu' = IF cpu.phase = 5 THEN Goto("ready") ELSE [cpu EXCEPT !.phase = @ + 1]
               /\ UNCHANGED <<port, device>>
        <3>1. CASE cpu.phase = 5
            <4>1. cpu'.at = "ready"
                BY <2>4, <3>1, GotoPlace
            <4> QED
                BY <2>1, <2>4, <3>1, <4>1, SamePorts, DiskKeeps
        <3>2. CASE cpu.phase # 5
            <4>1. cpu'.at = "enumerate" /\ cpu'.phase = cpu.phase + 1
                BY <2>1, <2>4, <3>2, PhasePlace DEF RespondInv
            <4>2. CASE cpu'.phase # 5
                BY <2>1, <2>4, <4>1, <4>2, SamePorts, DiskKeeps
            <4>3. CASE cpu.phase = 4
                <5>1. ASSUME NEW p \in Port, port'[p].enabled PROVE port'[p].kind \in Disk
                    <6>1. port[p].enabled /\ p = cpu.port /\ port'[p] = port[p]
                        BY <2>1, <2>4, <5>1 DEF RespondInv, PortLoop
                    <6> QED
                        BY <2>4, <4>3, <6>1 DEF DiskInv
                <5> QED
                    BY <2>1, <2>4, <4>1, <5>1, SamePorts DEF DiskInv
            <4> QED
                BY <2>1, <4>1, <4>2, <4>3
        <3> QED
            BY <3>1, <3>2
    <2> QED
        BY <1>4, <2>2, <2>3, <2>4, Zenon DEF enumerate_storage
<1>5. CASE scan_port /\ cpu'.at = "enumerate"
    <2>1. cpu'.phase = 1 /\ DeviceShape'
        BY <1>5, ScanEnables
    <2>2. \A p \in Port : port'[p].enabled => port'[p].kind \in {"camera"} \cup Disk
        BY <1>5, ScanEnables
    <2> QED
        BY <1>5, <2>1, <2>2 DEF DiskInv
<1> QED
    BY <1>1, <1>2, <1>3, <1>4, <1>5, ElsewhereTransport, DiskElsewhere DEF transport

\* A transfer completes: only the device that answered moves its toggles.
LEMMA BulkDone ==
    ASSUME BulkInv, ScheduleInv, RespondInv, DiskInv, transfer_done, cpu.at # "halted"
    PROVE  BulkInv'
<1>1. PICK p \in Responding : control_done(p) \/ cbw_done(p) \/ data_done(p) \/ csw_done(p)
    BY DEF transfer_done
<1>2. /\ p \in Port /\ port[p].enabled /\ DeviceShape /\ InStep(p)
      /\ \A q \in Port : port[q].enabled => q = p
    BY Zenon DEF Responding, BulkInv, DiskInv, RespondInv, OneResponder
<1>3. UNCHANGED <<usb, xfer, backend, cpu, port>> /\ qtd = "active" /\ hc.ass
    BY DEF transfer_done, software
<1>4. xfer # "none" /\ xfer # "succeeded" /\ qtd' \in {"done", "short"}
    BY <1>1, <1>3, Zenon DEF ScheduleInv, BulkInv, control_done, cbw_done, data_done, csw_done
<1>5. SUFFICES InStep(p)'
    BY <1>2, <1>3, <1>4, Zenon DEF BulkInv, UsbShape
<1>6. CASE cpu.at = "enumerate"
    <2>1. control_done(p)
        BY <1>1, <1>6, SMTT(30) DEF cbw_done, data_done, csw_done, Scsi
    <2>2. CASE cpu.phase = 2
        <3>1. device' = [device EXCEPT ![p].address = 1]
            BY <2>1, <2>2 DEF control_done
        <3>2. \E v : device' = [device EXCEPT ![p].address = v]
            BY <3>1, Zenon
        <3>3. device'[p].in = device[p].in /\ device'[p].out = device[p].out
            BY <1>2, <3>2, DeviceAddress
        <3> QED
            BY <1>2, <1>3, <1>6, <3>3, Zenon DEF InStep, Live
    <2>3. CASE cpu.phase = 5
        <3>1. cpu.phase # 2
            BY <2>3
        <3>2. device' = [device EXCEPT ![p].in = 0, ![p].out = 0]
            BY <2>1, <2>3, <3>1, Zenon DEF control_done
        <3>3. device'[p].in = 0 /\ device'[p].out = 0
            BY <1>2, <3>2, DeviceConfigured, Zenon
        <3> QED
            BY <1>3, <1>6, <3>3, Zenon DEF InStep, Live
    <2>4. CASE cpu.phase # 2 /\ cpu.phase # 5
        <3>1. UNCHANGED device
            BY <2>1, <2>4, Zenon DEF control_done
        <3> QED
            BY <1>2, <1>3, <1>6, <3>1, Zenon DEF InStep, Live
    <2> QED
        BY <2>2, <2>3, <2>4
<1>7. CASE cpu.at # "enumerate"
    <2>1. Live => Agree(p)
        BY <1>2, <1>3, Zenon DEF InStep
    <2>2. cbw_done(p) \/ data_done(p) \/ csw_done(p)
        BY <1>1, <1>7 DEF control_done, Control
    <2>3. SUFFICES ASSUME Live, qtd' = "done" PROVE Ahead(p)'
        BY <1>3, <1>4, <1>7, Zenon DEF InStep, Live
    <2>4. CASE cbw_done(p)
        <3>1. device' = [device EXCEPT ![p].out = 1 - device[p].out] /\ cpu.phase = CBW
            BY <2>4 DEF cbw_done
        <3>2. device'[p].in = device[p].in /\ device'[p].out = 1 - device[p].out
            BY <1>2, <3>1, DeviceOut, Zenon
        <3> QED
            BY <1>3, <2>1, <2>3, <3>1, <3>2 DEF Ahead, Agree, CBW, DATA, CSW
    <2>5. CASE data_done(p)
        <3>1. PICK w : device' = [device EXCEPT ![p].in = (device[p].in + packets) % 2, ![p].padded = w]
            BY <2>3, <2>5, Zenon DEF data_done
        <3>2. device'[p].in = (device[p].in + packets) % 2 /\ device'[p].out = device[p].out
            <4> DEFINE v == (device[p].in + packets) % 2
            <4>1. device' = [device EXCEPT ![p].in = v, ![p].padded = w]
                BY <3>1
            <4> HIDE DEF v
            <4>2. device'[p].in = v /\ device'[p].out = device[p].out
                BY <1>2, <4>1, DeviceIn, Zenon
            <4> QED
                BY <4>2, Zenon DEF v
        <3>3. cpu.phase = DATA
            BY <2>5 DEF data_done
        <3>4. cpu' = cpu /\ usb' = usb /\ cpu.phase # CBW /\ cpu.phase # CSW
            BY <1>3, <3>3 DEF CBW, DATA, CSW
        <3>5. toggled(packets)' = toggled(packets)
            BY <3>4, Zenon DEF toggled, packets
        <3>6. device[p].in = usb.in /\ device[p].out = usb.out
            BY <2>1, <2>3, Zenon DEF Agree
        <3>7. device'[p].in = toggled(packets) /\ device'[p].out = usb.out
            BY <3>2, <3>6, Zenon DEF toggled
        <3> QED
            BY <3>4, <3>5, <3>7, Zenon DEF Ahead
    <2>6. CASE csw_done(p)
        <3>1. PICK w : device' = [device EXCEPT ![p].in = 1 - device[p].in, ![p].padded = w]
            BY <2>6, Zenon DEF csw_done
        <3>2. device'[p].in = 1 - device[p].in /\ device'[p].out = device[p].out
            BY <1>2, <3>1, DeviceIn, Zenon
        <3>3. cpu.phase = CSW
            BY <2>6 DEF csw_done
        <3>4. cpu' = cpu /\ usb' = usb /\ cpu.phase # CBW /\ cpu.phase # DATA
            BY <1>3, <3>3 DEF CBW, DATA, CSW
        <3>5. device[p].in = usb.in /\ device[p].out = usb.out
            BY <2>1, <2>3, Zenon DEF Agree
        <3> QED
            BY <3>2, <3>3, <3>4, <3>5, SMTT(30) DEF Ahead
    <2> QED
        BY <2>2, <2>4, <2>5, <2>6
<1> QED
    BY <1>6, <1>7

LEMMA BulkEnvironment ==
    ASSUME BulkInv, ScheduleInv, RespondInv, DiskInv, environment
    PROVE  BulkInv'
<1>1. CASE transfer_done
    BY <1>1, BulkDone DEF environment
<1>2. CASE transfer_error
    <2>1. UNCHANGED <<usb, xfer, backend, cpu, port, device>> /\ qtd = "active" /\ hc.ass /\ qtd' = "error"
        BY <1>2 DEF transfer_error, software
    <2>2. xfer # "none" /\ xfer # "succeeded"
        BY <2>1, SMTT(30) DEF ScheduleInv, BulkInv
    <2>3. ASSUME NEW p \in Port, port'[p].enabled PROVE InStep(p)'
        <3>1. InStep(p)
            BY <2>1, <2>3 DEF BulkInv
        <3> QED
            BY <2>1, <2>2, <3>1, Zenon DEF InStep, Live, Agree
    <2> QED
        BY <2>1, <2>2, <2>3, Zenon DEF BulkInv, UsbShape
<1>3. CASE ~transfer_done /\ ~transfer_error
    <2>1. UNCHANGED <<usb, xfer, backend, cpu, qtd>>
        BY <1>3 DEF environment, unplug, plug, schedule_off, software
    <2> QED
        BY <1>3, <2>1, DiskEnvironment, BulkStays
<1> QED
    BY <1>1, <1>2, <1>3

\* The changes of the transport's record.
LEMMA UsbSet ==
    ASSUME UsbShape, NEW v
    PROVE  /\ usb' = [usb EXCEPT !.dead = v] =>
                 UsbShape' /\ usb'.address = usb.address /\ usb'.in = usb.in /\ usb'.out = usb.out /\ usb'.dead = v
           /\ usb' = [usb EXCEPT !.out = v] =>
                 UsbShape' /\ usb'.address = usb.address /\ usb'.in = usb.in /\ usb'.out = v /\ usb'.dead = usb.dead
           /\ usb' = [usb EXCEPT !.in = v] =>
                 UsbShape' /\ usb'.address = usb.address /\ usb'.in = v /\ usb'.out = usb.out /\ usb'.dead = usb.dead
           /\ usb' = [usb EXCEPT !.address = v] =>
                 UsbShape' /\ usb'.in = usb.in /\ usb'.out = usb.out /\ usb'.dead = usb.dead
  BY DEF UsbShape

LEMMA UsbStatus ==
    ASSUME UsbShape, NEW v, NEW w, usb' = [usb EXCEPT !.in = v, !.dead = w]
    PROVE  UsbShape' /\ usb'.address = usb.address /\ usb'.in = v /\ usb'.out = usb.out /\ usb'.dead = w
<1>1. PICK a, i, o, d : usb = [address |-> a, in |-> i, out |-> o, dead |-> d]
    BY DEF UsbShape
<1>2. usb' = [[usb EXCEPT !.in = v] EXCEPT !.dead = w]
    BY Zenon
<1>3. [usb EXCEPT !.in = v] = [address |-> a, in |-> v, out |-> o, dead |-> d]
    BY <1>1
<1>4. [[address |-> a, in |-> v, out |-> o, dead |-> d] EXCEPT !.dead = w]
        = [address |-> a, in |-> v, out |-> o, dead |-> w]
    OBVIOUS
<1>5. usb' = [address |-> a, in |-> v, out |-> o, dead |-> w]
    BY <1>2, <1>3, <1>4, Zenon
<1> QED
    BY <1>1, <1>5, Zenon DEF UsbShape

\* bulk takes note of a transfer that is complete; any other ends the transport.
LEMMA BulkScsi ==
    ASSUME BulkInv, RespondInv, DiskInv, scsi
    PROVE  BulkInv'
<1>1. /\ cpu.at \in Scsi /\ xfer' = "none" /\ UNCHANGED <<port, device>>
      /\ xfer \in {"succeeded", "failed"}
    BY DEF scsi, quiet
<1>2. cpu'.at = cpu.at /\ cpu.at \notin {"enumerate", "halted"}
    BY <1>1, ResultPlace, PhasePlace DEF scsi, RespondInv, Scsi
<1>3. UsbShape
    BY DEF BulkInv
<1>4. ASSUME UsbShape', \A p \in Port : port[p].enabled => (Live' => Agree(p)')
      PROVE  BulkInv'
    <2>1. ASSUME NEW p \in Port, port'[p].enabled PROVE InStep(p)'
        BY <1>1, <1>2, <1>4, <2>1, Zenon DEF InStep
    <2> QED
        BY <1>1, <1>2, <1>4, <2>1, Zenon DEF BulkInv
<1>5. CASE usb' = [usb EXCEPT !.dead = TRUE]
    <2>1. PICK v : v = TRUE
        OBVIOUS
    <2>2. usb' = [usb EXCEPT !.dead = v]
        BY <1>5, <2>1, Zenon
    <2>3. UsbShape' /\ usb'.dead = v
        BY <1>3, <2>2, UsbSet, Zenon
    <2> QED
        BY <1>4, <2>1, <2>3 DEF Live
<1>6. ASSUME complete, NEW p \in Port, port[p].enabled, Live PROVE Ahead(p)
    <2>1. qtd = "done" /\ xfer = "succeeded"
        BY <1>6 DEF complete, BulkInv
    <2> QED
        BY <1>2, <1>6, <2>1, Zenon DEF BulkInv, InStep
<1>7. CASE complete /\ cpu.phase = CBW /\ usb' = [usb EXCEPT !.out = 1 - @]
    <2>1. usb' = [usb EXCEPT !.out = 1 - usb.out]
        BY <1>7
    <2>2. /\ UsbShape' /\ usb'.address = usb.address /\ usb'.in = usb.in
          /\ usb'.out = 1 - usb.out /\ usb'.dead = usb.dead
        BY <1>3, <2>1, UsbSet, Zenon
    <2>3. ASSUME NEW p \in Port, port[p].enabled, Live' PROVE Agree(p)'
        <3>1. Ahead(p)
            BY <1>2, <1>6, <1>7, <2>2, <2>3 DEF Live
        <3> QED
            BY <1>1, <1>7, <2>2, <3>1 DEF Ahead, Agree
    <2> QED
        BY <1>4, <2>2, <2>3
<1>8. CASE complete /\ cpu.phase = DATA /\ usb' = [usb EXCEPT !.in = toggled(packets)]
    <2>1. /\ UsbShape' /\ usb'.address = usb.address /\ usb'.in = toggled(packets)
          /\ usb'.out = usb.out /\ usb'.dead = usb.dead
        BY <1>3, <1>8, UsbSet, Zenon
    <2>2. ASSUME NEW p \in Port, port[p].enabled, Live' PROVE Agree(p)'
        <3>1. Ahead(p)
            BY <1>2, <1>6, <1>8, <2>1, <2>2 DEF Live
        <3> QED
            BY <1>1, <1>8, <2>1, <3>1 DEF Ahead, Agree
    <2> QED
        BY <1>4, <2>1, <2>2
<1>9. CASE complete /\ cpu.phase = CSW /\ usb' = [usb EXCEPT !.in = 1 - @, !.dead = csw_result = -1]
    <2>1. PICK v, w : v = 1 - usb.in /\ w = (csw_result = -1)
        OBVIOUS
    <2>2. usb' = [usb EXCEPT !.in = v, !.dead = w]
        BY <1>9, <2>1, Zenon
    <2>3. UsbShape' /\ usb'.address = usb.address /\ usb'.in = v /\ usb'.out = usb.out
        BY <1>3, <2>2, UsbStatus, Zenon
    <2>4. ~usb.dead
        BY <1>1 DEF BulkInv
    <2>5. ASSUME NEW p \in Port, port[p].enabled, Live' PROVE Agree(p)'
        <3>1. Ahead(p)
            BY <1>2, <1>6, <1>9, <2>3, <2>4, <2>5 DEF Live
        <3> QED
            BY <1>1, <1>9, <2>1, <2>3, <3>1 DEF Ahead, Agree
    <2> QED
        BY <1>4, <2>3, <2>5
<1> QED
    BY <1>5, <1>7, <1>8, <1>9, Zenon DEF scsi

LEMMA BulkEnumerate ==
    ASSUME BulkInv, RespondInv, DiskInv, enumerate_storage
    PROVE  BulkInv'
<1>1. cpu.at = "enumerate" /\ xfer' = "none" /\ usb.in = 0 /\ usb.out = 0 /\ UsbShape
    BY DEF enumerate_storage, BulkInv
<1>2. CASE give_up
    <2>1. NoneEnabled' /\ usb' = Unused /\ cpu'.at = "scan"
        BY <1>1, <1>2, GiveUpDevices, GiveUpPlace DEF PortLoop, DiskInv
    <2>2. UsbShape'
        BY <2>1, SMTT(30) DEF UsbShape, Unused
    <2> QED
        BY <1>1, <2>1, <2>2, Zenon DEF BulkInv, NoneEnabled
<1>3. ASSUME UNCHANGED <<port, device>>, UsbShape', usb'.in = 0, usb'.out = 0 PROVE BulkInv'
    <2>1. ASSUME NEW p \in Port, port'[p].enabled PROVE InStep(p)'
        <3>1. device'[p].in = 0 /\ device'[p].out = 0
            BY <1>1, <1>3, <2>1, Zenon DEF BulkInv, InStep
        <3> QED
            BY <1>1, <1>3, <3>1, Zenon DEF InStep, Agree
    <2> QED
        BY <1>1, <1>3, <2>1, Zenon DEF BulkInv
<1>4. CASE next_configuration
    BY <1>1, <1>2, <1>3, <1>4, ConfigurationPlace DEF RespondInv, UsbShape
<1>5. CASE /\ usb' = [usb EXCEPT !.address = IF cpu.phase = 2 THEN 1 ELSE @]
           /\ UNCHANGED <<port, device>>
    <2>1. usb' = [usb EXCEPT !.address = IF cpu.phase = 2 THEN 1 ELSE usb.address]
        BY <1>5
    <2>2. UsbShape' /\ usb'.in = usb.in /\ usb'.out = usb.out
        BY <1>1, <2>1, UsbSet, Zenon
    <2> QED
        BY <1>1, <1>3, <1>5, <2>2
<1> QED
    BY <1>2, <1>4, <1>5, Zenon DEF enumerate_storage

LEMMA BulkTransport ==
    ASSUME BulkInv, ScheduleInv, RespondInv, DiskInv, transport
    PROVE  BulkInv'
<1>1. CASE submit
    <2>1. /\ UNCHANGED <<usb, backend, cpu, port, device>> /\ backend = 0 /\ ~usb.dead
          /\ cpu.at \in Control \cup Scsi /\ cpu.phase # RESULT
          /\ xfer = "none" /\ xfer' = "armed" /\ qtd' = "active"
        BY <1>1, SMTT(30) DEF submit
    <2>2. ASSUME NEW p \in Port, port'[p].enabled PROVE InStep(p)'
        <3>1. InStep(p)
            BY <2>1, <2>2 DEF BulkInv
        <3> QED
            BY <2>1, <3>1, Zenon DEF InStep, Live, Agree
    <2> QED
        BY <2>1, <2>2 DEF BulkInv, UsbShape
<1>2. CASE poll
    <2>1. /\ UNCHANGED <<usb, backend, cpu, port, device, qtd>>
          /\ xfer # "none" /\ xfer' # "none"
          /\ xfer' = "succeeded" => qtd \in {"done", "short"}
        BY <1>2, SMTT(30) DEF poll
    <2>2. ASSUME NEW p \in Port, port'[p].enabled PROVE InStep(p)'
        <3>1. InStep(p)
            BY <2>1, <2>2, SMTT(30) DEF BulkInv
        <3> QED
            BY <2>1, <3>1, Zenon DEF InStep, Live, Agree, Ahead, toggled, packets
    <2> QED
        BY <2>1, <2>2 DEF BulkInv, UsbShape
<1>3. CASE schedule_stuck
    <2>1. /\ UNCHANGED <<usb, xfer, backend, port, device, qtd>> /\ xfer # "none"
          /\ cpu'.at = "halted"
        BY <1>3, GotoPlace, SMTT(30) DEF schedule_stuck, hardware, fail
    <2>2. ASSUME NEW p \in Port, port'[p].enabled PROVE InStep(p)'
        <3>1. InStep(p)
            BY <2>1, <2>2, SMTT(30) DEF BulkInv
        <3> QED
            BY <2>1, <3>1, Zenon DEF InStep, Live, Agree, BulkInv
    <2> QED
        BY <2>1, <2>2 DEF BulkInv, UsbShape
<1>4. CASE refused \/ ata_read
    <2>1. UNCHANGED <<usb, xfer, backend, port, device>> /\ cpu.at \in Scsi
        BY <1>4, SMTT(30) DEF refused, ata_read, hardware, Scsi, Reads
    <2>2. cpu'.at = cpu.at /\ cpu.at \notin {"enumerate", "halted"}
        BY <1>4, <2>1, ResultPlace, Zenon DEF refused, ata_read, RespondInv, Scsi
    <2>3. xfer = "none"
        BY <1>4, <2>1, <2>2, SMTT(30) DEF refused, ata_read, BulkInv
    <2>4. ASSUME NEW p \in Port, port'[p].enabled PROVE InStep(p)'
        <3>1. InStep(p)
            BY <2>1, <2>4, SMTT(30) DEF BulkInv
        <3> QED
            BY <2>1, <2>2, <2>3, <3>1, Zenon DEF InStep, Live, Agree
    <2> QED
        BY <2>1, <2>2, <2>3, <2>4, Zenon DEF BulkInv, UsbShape
<1>5. CASE scan_port /\ cpu'.at = "enumerate"
    <2>1. usb' = Unused /\ UNCHANGED xfer /\ cpu.at = "scan"
        BY <1>5, ScanEnables, Zenon
    <2>2. xfer = "none"
        BY <2>1, OutsideTransfer DEF Control, Scsi
    <2>3. ASSUME NEW p \in Port, port'[p].enabled PROVE InStep(p)'
        <3>1. device'[p].in = 0 /\ device'[p].out = 0
            BY <1>5, <2>3, ScanEnables, Zenon
        <3> QED
            BY <1>5, <3>1, Zenon DEF InStep, Live
    <2>4. UsbShape' /\ usb'.in = 0 /\ usb'.out = 0
        BY <2>1, SMTT(30) DEF UsbShape, Unused
    <2> QED
        BY <2>1, <2>2, <2>3, <2>4, Zenon DEF BulkInv
<1> QED
    BY <1>1, <1>2, <1>3, <1>4, <1>5, BulkScsi, BulkEnumerate, ElsewhereTransport, BulkElsewhere
       DEF transport

\* The ports taken from EHCI by the refresh; the disk's port is not one of them.
LEMMA RefreshStays ==
    ASSUME RespondInv, storage_refresh_usb_companions
    PROVE  /\ PortsStay /\ UNCHANGED device /\ cpu.at = "idle"
           /\ UNCHANGED <<cpu, usb, xfer, backend, qtd, answer, buffer, drive, kernel, service>>
<1>1. /\ UNCHANGED device /\ cpu.at = "idle"
      /\ UNCHANGED <<cpu, usb, xfer, backend, qtd, answer, buffer, drive, kernel, service>>
    BY Zenon DEF storage_refresh_usb_companions, software
<1>2. ASSUME NEW p \in Port, port'[p].enabled
      PROVE  port[p].enabled /\ port'[p].kind = port[p].kind
    BY <1>2, Zenon DEF storage_refresh_usb_companions, RespondInv, PortType
<1> QED
    BY <1>1, <1>2, Zenon DEF PortsStay

\* The invariants of the transport and the service together.
TransportInv == ScheduleInv /\ RespondInv /\ ServiceInv /\ DiskInv /\ BulkInv

LEMMA TransportInit == Init => TransportInv
  BY ScheduleInit, RespondInit, ServiceInit, DiskInit, BulkInit DEF TransportInv

LEMMA TransportStep == TransportInv /\ [Next]_vars => TransportInv'
<1> SUFFICES ASSUME TransportInv, [Next]_vars PROVE DiskInv' /\ BulkInv'
    BY ScheduleStep, RespondStep DEF TransportInv
<1> USE DEF TransportInv
<1>1. CASE UNCHANGED vars
    <2>1. UNCHANGED <<usb, xfer, backend, cpu, qtd, port, device>>
        BY <1>1 DEF vars, bvars, software, hardware
    <2>2. cpu'.at = "enumerate" => cpu'.phase \in Int
        BY <2>1, Zenon DEF DiskInv
    <2> QED
        BY <2>1, <2>2, SamePorts, DiskKeeps, BulkStays
<1>2. CASE environment
    BY <1>2, DiskEnvironment, BulkEnvironment
<1>3. CASE transport
    BY <1>3, DiskTransport, BulkTransport
<1>4. CASE loader
    BY <1>4, ElsewhereLoader, DiskElsewhere, BulkElsewhere
<1>5. CASE storage_refresh_usb_companions
    <2>1. PortsStay /\ UNCHANGED <<cpu, usb, xfer, backend, qtd, device>> /\ cpu.at = "idle"
        BY <1>5, RefreshStays
    <2>2. DeviceShape'
        BY <2>1 DEF DiskInv, DeviceShape
    <2> QED
        BY <2>1, <2>2, DiskKeeps, BulkStays
<1> QED
    BY <1>1, <1>2, <1>3, <1>4, <1>5, ElsewhereService, DiskElsewhere, BulkElsewhere
       DEF Next, running

\* Between transfers the toggles of the transport are those of the disk: for
\* reads of any length, any number of ports, and whatever failed before.
THEOREM TogglesStayInStep == Spec => []TogglesAgree
<1>1. TransportInv => TogglesAgree
    BY Zenon DEF TransportInv, BulkInv, InStep, Live, Agree, TogglesAgree
<1> QED
    BY <1>1, TransportInit, TransportStep, PTL DEF Spec

-----------------------------------------------------------------------------
(* What is in the buffer when a read succeeds.                             *)

\* The buffer holds the blocks that the command in progress asked for.
Holds(kind) == buffer = Blocks(kind, cpu.lba, cpu.blocks)

\* A device that did not pad its data has sent all of them.
Delivered == \A p \in Port : port[p].enabled /\ ~device[p].padded => Holds(port[p].kind)

BufferInv ==
    /\ answer \in {"none", "good", "check", "residue", "bad"}
    /\ answer # "none" /\ cpu.at # "halted" =>
          cpu.at \in Scsi /\ cpu.phase = CSW /\ xfer # "none" /\ qtd \in {"done", "short"}
    /\ cpu.at \in Scsi /\ cpu.phase = CSW /\ xfer # "none" /\ qtd = "done" => answer # "none"
    /\ cpu.at \in Reads /\ backend = 0 =>
          /\ cpu.phase = DATA /\ xfer # "none" /\ qtd = "done" => Delivered
          /\ cpu.phase = CSW /\ (xfer = "none" \/ qtd = "active") => Delivered
          /\ answer = "good" => \E kind \in Disk : Holds(kind)
    /\ cpu.at \in Reads /\ cpu.phase = RESULT /\ cpu.result = 1 =>
          \E kind \in IF backend = 0 THEN Disk ELSE {drive[backend]} : Holds(kind)

LEMMA BufferInit == Init => BufferInv
<1> SUFFICES ASSUME Init PROVE BufferInv
    OBVIOUS
<1>1. cpu.at = "search" /\ answer = "none"
    BY Zenon DEF Init, BInit
<1> QED
    BY <1>1, SMTT(30) DEF BufferInv, Scsi, Reads

\* At the first phase of a command, and outside commands, nothing is owed.
LEMMA BufferIdle ==
    ASSUME answer' = "none", cpu'.at \notin Scsi \/ cpu'.phase = 1
    PROVE  BufferInv'
  BY DEF BufferInv, Scsi, Reads, CBW, DATA, CSW, RESULT

LEMMA BufferElsewhere ==
    ASSUME BufferInv, Elsewhere
    PROVE  BufferInv'
<1>1. answer' = "none"
    BY SMTT(30) DEF BufferInv, Elsewhere
<1> QED
    BY <1>1, BufferIdle DEF Elsewhere

\* Nothing that the buffer depends on changes.
LEMMA BufferStays ==
    ASSUME BufferInv, PortsStay, UNCHANGED <<answer, buffer, cpu, xfer, qtd, backend, drive>>
    PROVE  BufferInv'
<1>1. Delivered => Delivered'
    BY Zenon DEF Delivered, Holds, PortsStay
<1> QED
    BY <1>1, SMTT(30) DEF BufferInv, Holds

\* A command that has its result owes what a good one returns.
LEMMA BufferResult ==
    ASSUME answer' = "none", cpu'.phase = RESULT,
           cpu'.at \in Reads /\ cpu'.result = 1 =>
               \E kind \in IF backend' = 0 THEN Disk ELSE {drive'[backend']} : Holds(kind)'
    PROVE  BufferInv'
<1>1. cpu'.phase # CSW /\ cpu'.phase # DATA
    BY DEF CSW, DATA, RESULT
<1> QED
    BY <1>1, Zenon DEF BufferInv

\* A command between two phases owes the data that the data phase brought.
LEMMA BufferPhase ==
    ASSUME answer' = "none", cpu'.phase # RESULT, xfer' = "none" \/ qtd' # "done" \/ cpu'.phase # CSW,
           cpu'.at \in Reads /\ backend' = 0 /\ cpu'.phase = DATA /\ xfer' # "none" /\ qtd' = "done"
               => Delivered',
           cpu'.at \in Reads /\ backend' = 0 /\ cpu'.phase = CSW /\ (xfer' = "none" \/ qtd' = "active")
               => Delivered'
    PROVE  BufferInv'
    BY Zenon DEF BufferInv

\* A command that has its status owes what a good one returns.
LEMMA BufferAnswered ==
    ASSUME answer' \in {"check", "residue", "bad", "good"}, cpu'.at \in Scsi, cpu'.phase = CSW,
           xfer' # "none", qtd' \in {"done", "short"},
           cpu'.at \in Reads /\ backend' = 0 /\ answer' = "good" => \E kind \in Disk : Holds(kind)'
    PROVE  BufferInv'
<1>1. cpu'.phase # RESULT /\ cpu'.phase # DATA /\ qtd' # "active"
    BY DEF CSW, DATA, RESULT
<1>2. answer' \in {"none", "good", "check", "residue", "bad"} /\ answer' # "none"
    OBVIOUS
<1> QED
    BY <1>1, <1>2, Zenon DEF BufferInv

LEMMA BufferDone ==
    ASSUME BufferInv, TransportInv, transfer_done, cpu.at # "halted"
    PROVE  BufferInv'
<1> USE DEF CBW, DATA, CSW, RESULT
<1>1. PICK p \in Responding : control_done(p) \/ cbw_done(p) \/ data_done(p) \/ csw_done(p)
    BY DEF transfer_done
<1>2. /\ p \in Port /\ port[p].enabled /\ DeviceShape
      /\ \A q \in Port : port[q].enabled => q = p
    BY Zenon DEF Responding, TransportInv, DiskInv, RespondInv, OneResponder
<1>3. UNCHANGED <<xfer, backend, cpu, port, drive>> /\ qtd = "active" /\ hc.ass
    BY DEF transfer_done, software
<1>4. xfer # "none" /\ answer = "none"
    BY <1>3 DEF ScheduleInv, BufferInv, TransportInv
<1>5. CASE control_done(p)
    <2>1. cpu'.at \notin Scsi /\ answer' = "none"
        BY <1>3, <1>4, <1>5 DEF control_done, Control, Scsi
    <2> QED
        BY <2>1, BufferIdle
<1>6. CASE cbw_done(p)
    <2>1. cpu'.phase = 1 /\ answer' = "none"
        BY <1>3, <1>4, <1>6 DEF cbw_done
    <2> QED
        BY <2>1, BufferIdle
<1>7. CASE data_done(p)
    <2>1. answer' = "none" /\ cpu.phase = DATA /\ cpu'.phase = DATA
        BY <1>3, <1>4, <1>7 DEF data_done
    <2>2. ASSUME cpu.at \in Reads, qtd' = "done" PROVE Delivered'
        <3>1. CASE device' = [device EXCEPT ![p].in = (device[p].in + packets) % 2, ![p].padded = TRUE]
            <4>1. PICK a, i, o, d : device[p] = Dev(a, i, o, d)
                BY <1>2 DEF DeviceShape
            <4> DEFINE v == (device[p].in + packets) % 2
            <4>2. device'[p] = [device[p] EXCEPT !.in = v, !.padded = TRUE]
                BY <1>2, <3>1, Zenon DEF DeviceShape
            <4>3. [device[p] EXCEPT !.in = v, !.padded = TRUE] = [[device[p] EXCEPT !.in = v] EXCEPT !.padded = TRUE]
                BY Zenon
            <4> HIDE DEF v
            <4>4. [device[p] EXCEPT !.in = v] = Dev(a, v, o, d)
                BY <4>1 DEF Dev
            <4>5. device'[p] = [Dev(a, v, o, d) EXCEPT !.padded = TRUE]
                BY <4>2, <4>3, <4>4, Zenon
            <4>6. device'[p].padded
                BY <4>5, Zenon DEF Dev
            <4> QED
                BY <1>2, <1>3, <4>6, Zenon DEF Delivered
        <3>2. CASE buffer' = IF cpu.at \in Reads THEN Blocks(port[p].kind, cpu.lba, cpu.blocks) ELSE <<Junk>>
            BY <1>2, <1>3, <2>2, <3>2, Zenon DEF Delivered, Holds
        <3> QED
            BY <1>7, <2>2, <3>1, <3>2, Zenon DEF data_done
    <2>3. cpu' = cpu /\ cpu'.phase # RESULT /\ cpu'.phase # CSW
        BY <1>3, <2>1
    <2> QED
        BY <2>1, <2>2, <2>3, BufferPhase, Zenon
<1>8. CASE csw_done(p)
    <2>1. /\ cpu.at \in Scsi /\ cpu.phase = CSW /\ qtd' \in {"done", "short"} /\ UNCHANGED buffer
          /\ answer' \in {"check", "residue", "bad"} \cup (IF device[p].padded THEN {} ELSE {"good"})
        BY <1>8, SMTT(30) DEF csw_done
    <2>2. ASSUME cpu.at \in Reads, backend = 0, answer' = "good" PROVE \E kind \in Disk : Holds(kind)'
        <3>1. ~device[p].padded
            BY <2>1, <2>2, SMTT(30)
        <3>2. Holds(port[p].kind)
            BY <1>2, <1>3, <2>1, <2>2, <3>1, Zenon DEF BufferInv, Delivered
        <3>3. port[p].kind \in Disk
            BY <1>2, <2>2, Zenon DEF TransportInv, DiskInv, Reads
        <3> QED
            BY <1>3, <2>1, <3>2, <3>3, Zenon DEF Holds
    <2>3. answer' \in {"check", "residue", "bad", "good"}
        BY <2>1
    <2> QED
        BY <1>3, <1>4, <2>1, <2>2, <2>3, BufferAnswered, Zenon
<1> QED
    BY <1>1, <1>5, <1>6, <1>7, <1>8

LEMMA BufferEnvironment ==
    ASSUME BufferInv, TransportInv, environment
    PROVE  BufferInv'
<1>1. CASE transfer_done
    BY <1>1, BufferDone DEF environment
<1>2. CASE transfer_error
    <2>1. UNCHANGED <<answer, buffer, cpu, xfer, backend, drive>> /\ qtd = "active" /\ hc.ass /\ qtd' = "error"
        BY <1>2 DEF transfer_error, software
    <2>2. xfer # "none" /\ (cpu.at # "halted" => answer = "none")
        BY <2>1, Zenon DEF ScheduleInv, BufferInv, TransportInv
    <2> QED
        BY <2>1, <2>2, Zenon DEF BufferInv, Holds, environment
<1>3. CASE ~transfer_done /\ ~transfer_error
    <2>1. UNCHANGED <<answer, buffer, cpu, xfer, qtd, backend, drive>>
        BY <1>3 DEF environment, unplug, plug, schedule_off, software
    <2>2. PortsStay
        BY <1>3, DiskEnvironment DEF TransportInv
    <2> QED
        BY <2>1, <2>2, BufferStays
<1> QED
    BY <1>1, <1>2, <1>3

LEMMA BufferScsi ==
    ASSUME BufferInv, TransportInv, scsi
    PROVE  BufferInv'
<1> USE DEF CBW, DATA, CSW, RESULT
<1>1. /\ cpu.at \in Scsi /\ xfer' = "none" /\ answer' = "none" /\ CpuShape
      /\ xfer # "none" /\ UNCHANGED <<port, device, buffer, backend, drive>>
    BY DEF scsi, quiet, TransportInv, RespondInv
<1>2. cpu.at # "halted" /\ backend = 0
    BY <1>1 DEF Scsi, TransportInv, BulkInv
<1>3. complete => qtd = "done"
    BY DEF complete, TransportInv, BulkInv
<1>4. CASE Result(-1)
    <2>1. cpu'.phase = RESULT /\ cpu'.result = -1
        BY <1>1, <1>4, ResultPlace, Zenon
    <2>2. cpu'.result # 1
        BY <2>1
    <2> QED
        BY <1>1, <2>1, <2>2, BufferResult, Zenon
<1>5. CASE cpu' = [cpu EXCEPT !.phase = IF cpu.at = "ready" THEN CSW ELSE DATA]
    <2>1. cpu'.at = cpu.at /\ cpu'.phase = IF cpu.at = "ready" THEN CSW ELSE DATA
        BY <1>1, <1>5, PhasePlace, SMTT(30)
    <2>2. cpu'.phase # RESULT /\ (cpu'.phase = CSW => cpu'.at \notin Reads)
        BY <2>1 DEF Reads
    <2> QED
        BY <1>1, <2>2, BufferPhase, Zenon
<1>6. CASE complete /\ cpu.phase = DATA /\ cpu' = [cpu EXCEPT !.phase = CSW]
    <2>1. /\ cpu'.at = cpu.at /\ cpu'.phase = CSW /\ cpu'.lba = cpu.lba /\ cpu'.blocks = cpu.blocks
        BY <1>1, <1>6, PhasePlace
    <2>2. cpu.at \in Reads => Delivered'
        BY <1>1, <1>2, <1>3, <1>6, <2>1, SMTT(30) DEF BufferInv, Delivered, Holds
    <2>3. cpu'.phase # RESULT /\ cpu'.phase # DATA
        BY <2>1
    <2> QED
        BY <1>1, <2>1, <2>2, <2>3, BufferPhase, Zenon
<1>7. CASE complete /\ cpu.phase = CSW /\ Result(csw_result)
    <2>1. /\ cpu'.at = cpu.at /\ cpu'.phase = RESULT /\ cpu'.result = csw_result
          /\ cpu'.lba = cpu.lba /\ cpu'.blocks = cpu.blocks
        BY <1>1, <1>7, ResultPlace, Zenon
    <2>2. csw_result = 1 => answer = "good"
        BY <1>1, <1>3, <1>7, SMTT(30) DEF csw_result, BufferInv
    <2>3. cpu.at \in Reads /\ csw_result = 1 => \E kind \in Disk : Holds(kind)'
        BY <1>1, <1>2, <2>1, <2>2, Zenon DEF BufferInv, Holds
    <2> QED
        BY <1>1, <1>2, <2>1, <2>3, BufferResult, Zenon
<1> QED
    BY <1>4, <1>5, <1>6, <1>7, Zenon DEF scsi

LEMMA BufferTransport ==
    ASSUME BufferInv, TransportInv, transport
    PROVE  BufferInv'
<1> USE DEF CBW, DATA, CSW, RESULT
<1>1. CASE submit
    <2>1. /\ UNCHANGED <<answer, buffer, cpu, backend, port, device, drive>>
          /\ xfer = "none" /\ xfer' = "armed" /\ qtd' = "active"
        BY <1>1 DEF submit
    <2>2. answer = "none"
        BY <1>1, <2>1, SMTT(30) DEF submit, BufferInv, Control, Scsi
    <2> QED
        BY <2>1, <2>2, Zenon DEF BufferInv, Delivered, Holds
<1>2. CASE poll
    <2>1. /\ UNCHANGED <<answer, buffer, cpu, backend, port, device, drive, qtd>>
          /\ xfer # "none" /\ xfer' # "none"
        BY <1>2 DEF poll
    <2> QED
        BY <2>1, Zenon DEF BufferInv, Delivered, Holds
<1>3. CASE schedule_stuck
    <2>1. UNCHANGED answer /\ cpu'.at = "halted"
        BY <1>3, GotoPlace DEF schedule_stuck, hardware, fail
    <2> QED
        BY <2>1, Zenon DEF BufferInv, Scsi, Reads
<1>4. ASSUME cpu.at \in Scsi, xfer = "none" PROVE answer = "none"
    BY <1>4, SMTT(30) DEF BufferInv, Scsi
<1>5. CASE refused
    <2>1. UNCHANGED <<xfer, answer>> /\ cpu.at \in Scsi /\ xfer = "none"
        BY <1>5, SMTT(30) DEF refused, hardware
    <2>2. cpu'.phase = RESULT /\ cpu'.result = -1
        BY <1>5, ResultPlace, Zenon DEF refused, TransportInv, RespondInv
    <2>3. answer' = "none" /\ cpu'.result # 1
        BY <1>4, <2>1, <2>2
    <2> QED
        BY <2>2, <2>3, BufferResult, Zenon
<1>6. CASE ata_read
    <2>1. UNCHANGED <<xfer, answer, backend, drive>> /\ cpu.at \in Reads /\ cpu.at \in Scsi /\ backend > 0
        BY <1>6 DEF ata_read, Reads, Scsi
    <2>2. xfer = "none" /\ backend # 0
        BY <2>1 DEF TransportInv, BulkInv, Scsi
    <2>3. answer = "none"
        BY <1>4, <2>1, <2>2, SMTT(30)
    <2>4. CASE Result(1) /\ buffer' = Blocks(drive[backend], cpu.lba, cpu.blocks)
        <3>1. cpu'.phase = RESULT /\ cpu'.lba = cpu.lba /\ cpu'.blocks = cpu.blocks
            BY <2>4, ResultPlace, Zenon DEF TransportInv, RespondInv
        <3>2. Holds(drive[backend])'
            BY <2>1, <2>4, <3>1, Zenon DEF Holds
        <3> QED
            BY <2>1, <2>2, <2>3, <3>1, <3>2, Zenon DEF BufferInv
    <2>5. CASE Result(0)
        <3>1. cpu'.phase = RESULT /\ cpu'.result = 0
            BY <2>5, ResultPlace, Zenon DEF TransportInv, RespondInv
        <3>2. answer' = "none" /\ cpu'.result # 1
            BY <2>1, <2>3, <3>1
        <3> QED
            BY <3>1, <3>2, BufferResult, Zenon
    <2> QED
        BY <1>6, <2>4, <2>5 DEF ata_read
<1>7. CASE enumerate_storage
    <2>1. cpu.at = "enumerate" /\ UNCHANGED answer
        BY <1>7 DEF enumerate_storage
    <2>2. answer = "none"
        BY <2>1 DEF BufferInv, Scsi
    <2>3. cpu'.at \in {"scan", "enumerate"} \/ (cpu'.at = "ready" /\ cpu'.phase = 1)
        BY <1>7, <2>1, GiveUpPlace, ConfigurationPlace, GotoPlace, PhasePlace, SMTT(30)
           DEF enumerate_storage, TransportInv, RespondInv
    <2> QED
        BY <2>1, <2>2, <2>3, BufferIdle DEF Scsi
<1>8. CASE scan_port /\ cpu'.at = "enumerate"
    <2>1. cpu.at = "scan" /\ UNCHANGED answer
        BY <1>8, ScanEnables, Zenon DEF TransportInv
    <2>2. answer = "none"
        BY <2>1 DEF BufferInv, Scsi
    <2> QED
        BY <1>8, <2>1, <2>2, BufferIdle DEF Scsi
<1> QED
    BY <1>1, <1>2, <1>3, <1>5, <1>6, <1>7, <1>8, BufferScsi, ElsewhereTransport, BufferElsewhere, SMTT(30)
       DEF transport, TransportInv

LEMMA BufferStep == BufferInv /\ TransportInv /\ [Next]_vars => BufferInv'
<1> SUFFICES ASSUME BufferInv, TransportInv, [Next]_vars PROVE BufferInv'
    OBVIOUS
<1>1. CASE UNCHANGED vars
    <2>1. UNCHANGED <<answer, buffer, cpu, xfer, qtd, backend, drive, port, device>>
        BY <1>1, Zenon DEF vars, bvars, software, hardware
    <2> QED
        BY <2>1, SamePorts, BufferStays DEF TransportInv
<1>2. CASE storage_refresh_usb_companions
    BY <1>2, RefreshStays, BufferStays, SMTT(30) DEF TransportInv
<1> QED
    BY <1>1, <1>2, BufferEnvironment, BufferTransport, ElsewhereLoader, ElsewhereService,
       BufferElsewhere DEF Next, running, TransportInv

-----------------------------------------------------------------------------
(* Requests, and the discovery that is made once.                          *)

\* What is known of the request in progress, and what the last one has got.
RequestInv ==
    /\ cpu.at # "returned" => result # "OK"
    /\ result = "PENDING" \/ cpu.at \in {"lookup", "discover", "discover_ata"} => req \in Request
    /\ cpu.at = "read" =>
          /\ req \in Request /\ backend = req.device
          /\ cpu.lba = req.lba /\ cpu.blocks = req.blocks
          /\ storage_valid_range(CAPACITY, req.lba, req.blocks)
    /\ ReadIsExact

LEMMA RequestInit == Init => RequestInv
<1> SUFFICES ASSUME Init PROVE RequestInv
    OBVIOUS
<1>1. cpu.at = "search" /\ result = "NONE" /\ out = <<>>
    BY Zenon DEF Init, BInit
<1> QED
    BY <1>1, Zenon DEF RequestInv, ReadIsExact

\* Of the program outside the service only a read that goes on matters.
LEMMA RequestKeeps ==
    ASSUME RequestInv, UNCHANGED <<service, drive>>,
           cpu'.at = cpu.at \/ cpu'.at \notin ServiceAt,
           cpu.at = "returned" => cpu'.at = "returned",
           cpu.at = "read" /\ cpu'.at = "read" =>
              UNCHANGED backend /\ cpu'.lba = cpu.lba /\ cpu'.blocks = cpu.blocks
    PROVE  RequestInv'
  BY Zenon DEF RequestInv, ReadIsExact, service, ServiceAt

\* No step of the transport or the loader changes the command of a read.
LEMMA RequestProgram ==
    ASSUME RequestInv, TransportInv, transport \/ loader, UNCHANGED service
    PROVE  RequestInv'
<1>1. cpu'.at = cpu.at \/ cpu'.at \notin ServiceAt
    BY TransportAt DEF TransportInv
<1>2. UNCHANGED drive
    BY Zenon DEF transport, loader, submit, poll, schedule_stuck, refused, enumerate_storage, scsi,
           start_controller, scan_port, no_usb_disk, storage_ready, ata_read,
           find_ide_disk, matches_boot_image, load_image, bootstrap_done
<1>3. cpu.at = "returned" => cpu'.at = "returned"
    <2> SUFFICES ASSUME cpu.at = "returned" PROVE cpu'.at = "returned"
        OBVIOUS
    <2>1. xfer = "none"
        BY OutsideTransfer DEF Control, Scsi, TransportInv
    <2> QED
        BY <2>1, Zenon DEF transport, loader, submit, poll, schedule_stuck, refused, enumerate_storage,
           scsi, start_controller, scan_port, no_usb_disk, storage_ready, ata_read,
           find_ide_disk, matches_boot_image, load_image, bootstrap_done, Control, Scsi, Reads
<1>4. ASSUME cpu.at = "read", cpu'.at = "read"
      PROVE  UNCHANGED backend /\ cpu'.lba = cpu.lba /\ cpu'.blocks = cpu.blocks
    <2>1. submit \/ poll \/ schedule_stuck \/ refused \/ scsi \/ ata_read
        BY <1>4, Zenon DEF transport, loader, enumerate_storage, start_controller, scan_port, no_usb_disk,
           storage_ready, find_ide_disk, matches_boot_image, load_image, bootstrap_done
    <2>2. CASE submit \/ poll
        BY <2>2 DEF submit, poll
    <2>3. CASE schedule_stuck
        BY <1>4, <2>3, GotoPlace DEF schedule_stuck, fail
    <2>4. CASE refused \/ scsi \/ ata_read
        <3>1. UNCHANGED backend
            BY <2>4 DEF refused, scsi, ata_read
        <3>2. CpuShape
            BY DEF TransportInv, RespondInv
        <3>3. cpu'.lba = cpu.lba /\ cpu'.blocks = cpu.blocks
            BY <2>4, <3>2, ResultPlace, PhasePlace, SMTT(30) DEF refused, scsi, ata_read
        <3> QED
            BY <3>1, <3>3
    <2> QED
        BY <2>1, <2>2, <2>3, <2>4, Zenon
<1> QED
    BY <1>1, <1>2, <1>3, <1>4, RequestKeeps, Zenon

\* A refused call: the codes of storage_syscall and storage_lookup.
LEMMA RequestRefused ==
    ASSUME NEW code, code # "OK", code # "PENDING", Return(code), out' = <<>>
    PROVE  RequestInv'
<1>1. cpu'.at = "returned" /\ result' = code
    BY GotoPlace, SMTT(30) DEF Return
<1> QED
    BY <1>1, Zenon DEF RequestInv, ReadIsExact

LEMMA RequestLookup ==
    ASSUME RequestInv, storage_lookup
    PROVE  RequestInv'
<1>1. cpu.at = "lookup" /\ result # "OK" /\ out = <<>> /\ req \in Request /\ UNCHANGED <<req, out, drive>>
    BY Zenon DEF storage_lookup, RequestInv, ReadIsExact
<1>2. ASSUME NEW code, code \in {"NO_DEVICE", "BAD_ARGUMENT", "IO_ERROR"}, Return(code)
      PROVE  RequestInv'
    BY <1>1, <1>2, RequestRefused, SMTT(30)
<1>3. ASSUME req.op # "read", Return("OK") PROVE RequestInv'
    <2>1. cpu'.at = "returned" /\ result' = "OK"
        BY <1>3, GotoPlace, SMTT(30) DEF Return
    <2> QED
        BY <1>1, <1>3, <2>1, Zenon DEF RequestInv, ReadIsExact
<1>4. ASSUME storage_valid_range(CAPACITY, req.lba, req.blocks), UNCHANGED result,
             backend' = req.device, cpu' = Read("read", req.lba, req.blocks)
      PROVE  RequestInv'
    <2>1. cpu'.at = "read" /\ cpu'.lba = req.lba /\ cpu'.blocks = req.blocks
        BY <1>4, ReadPlace, Zenon
    <2> QED
        BY <1>1, <1>4, <2>1, Zenon DEF RequestInv, ReadIsExact
<1> QED
    BY <1>2, <1>3, <1>4, Zenon DEF storage_lookup

LEMMA RequestRead ==
    ASSUME RequestInv, BufferInv, storage_read
    PROVE  RequestInv'
<1>1. /\ cpu.at = "read" /\ cpu.phase = RESULT /\ UNCHANGED <<req, drive>>
      /\ result # "OK" /\ out = <<>> /\ req \in Request /\ backend = req.device
      /\ cpu.lba = req.lba /\ cpu.blocks = req.blocks
      /\ storage_valid_range(CAPACITY, req.lba, req.blocks)
    BY DEF storage_read, RequestInv, ReadIsExact
<1>2. CASE cpu.result # 1
    <2>1. out' = <<>> /\ Return("IO_ERROR")
        BY <1>1, <1>2, SMTT(30) DEF storage_read, copied
    <2> QED
        BY <2>1, RequestRefused
<1>3. CASE cpu.result = 1
    <2>1. out' = buffer /\ cpu'.at = "returned" /\ result' = "OK"
        BY <1>3, GotoPlace, SMTT(30) DEF storage_read, copied, Return
    <2>2. PICK kind \in IF req.device = 0 THEN Disk ELSE {drive[req.device]} :
             buffer = Blocks(kind, req.lba, req.blocks)
        BY <1>1, <1>3, Zenon DEF BufferInv, Holds, Reads
    <2>3. req.lba \in Nat /\ req.blocks \in Nat /\ CAPACITY \in Nat
        BY <1>1, StorageAssumption
    <2>4. req.lba + req.blocks <= CAPACITY
        BY <1>1, <2>3 DEF storage_valid_range
    <2>5. /\ Len(out') = req.blocks
          /\ \A i \in 1 .. req.blocks : out'[i] = Block(kind, req.lba + i - 1)
        BY <2>1, <2>2, <2>3 DEF Blocks
    <2>6. \A lba : Block(kind, lba).lba = lba /\ Block(kind, lba).kind = kind
        BY SMTT(30) DEF Block
    <2>7. \A i \in 1 .. req.blocks : out'[i].lba = req.lba + i - 1 /\ out'[i].kind = kind
        BY <2>5, <2>6
    <2> QED
        BY <1>1, <2>1, <2>2, <2>4, <2>5, <2>7, Zenon DEF RequestInv, ReadIsExact
<1> QED
    BY <1>2, <1>3

LEMMA RequestSyscall ==
    ASSUME RequestInv, NEW r \in Request, storage_syscall(r)
    PROVE  RequestInv'
<1> DEFINE refusal == CASE r.from = "denied" -> "ACCESS_DENIED"
                        [] r.from = "bad_buffer" /\ r.op # "devices" -> "BAD_BUFFER"
                        [] r.op # "devices" /\ r.device >= STORAGE_DEVICE_COUNT -> "BAD_ARGUMENT"
                        [] r.op = "read" /\ r.blocks \notin 1 .. STORAGE_MAX_BLOCKS -> "BAD_ARGUMENT"
                        [] OTHER -> "NONE"
<1>1. refusal \in {"ACCESS_DENIED", "BAD_BUFFER", "BAD_ARGUMENT", "NONE"}
    OBVIOUS
<1>2. /\ req' = r /\ out' = <<>>
      /\ IF refusal # "NONE" THEN Return(refusal)
         ELSE result' = "PENDING" /\ cpu' = Goto(IF svc.discovered THEN "lookup" ELSE "discover")
    BY DEF storage_syscall
<1> HIDE DEF refusal
<1>3. CASE refusal # "NONE"
    BY <1>1, <1>2, <1>3, RequestRefused, SMTT(30)
<1>4. CASE result' = "PENDING" /\ cpu' = Goto(IF svc.discovered THEN "lookup" ELSE "discover")
    <2>1. cpu'.at \in {"lookup", "discover"}
        BY <1>4, GotoPlace
    <2> QED
        BY <1>2, <1>4, <2>1, Zenon DEF RequestInv, ReadIsExact
<1> QED
    BY <1>2, <1>3, <1>4

LEMMA RequestStep == RequestInv /\ BufferInv /\ TransportInv /\ [Next]_vars => RequestInv'
<1> SUFFICES ASSUME RequestInv, BufferInv, TransportInv, [Next]_vars PROVE RequestInv'
    OBVIOUS
<1>1. CASE UNCHANGED vars
    BY <1>1, RequestKeeps DEF vars, bvars, software
<1>2. CASE environment /\ UNCHANGED service
    <2>1. UNCHANGED software
        BY <1>2 DEF environment, unplug, plug, schedule_off, transfer_error, transfer_done
    <2> QED
        BY <1>2, <2>1, RequestKeeps DEF software
<1>3. CASE storage_refresh_usb_companions
    BY <1>3, RefreshStays, RequestKeeps, SMTT(30) DEF TransportInv
<1>4. CASE storage_initialize
    <2>1. UNCHANGED <<req, result, out, drive>> /\ cpu.at = "entered" /\ cpu'.at \in {"search", "idle"}
        BY <1>4, GotoPlace, SMTT(30) DEF storage_initialize
    <2> QED
        BY <2>1, Zenon DEF RequestInv, ReadIsExact
<1>5. CASE discover_storage \/ discover_usb \/ discover_ata
    <2>1. /\ UNCHANGED <<req, result, out, drive>>
          /\ cpu.at \in {"discover", "found", "none", "discover_ata"}
        BY <1>5, Zenon DEF discover_storage, discover_usb, discover_ata
    <2>2. /\ cpu'.at \in {"search", "idle", "discover_ata", "lookup"}
          /\ cpu'.at \in {"discover_ata", "lookup"} =>
                cpu.at \in {"discover", "discover_ata"} \/ result = "PENDING"
        BY <1>5, GotoPlace, SMTT(30) DEF discover_storage, discover_usb, discover_ata
    <2> QED
        BY <2>1, <2>2, Zenon DEF RequestInv, ReadIsExact
<1>6. CASE leave_storage
    <2>1. result' = "NONE" /\ out' = <<>> /\ cpu'.at = "idle"
        BY <1>6, GotoPlace DEF leave_storage
    <2> QED
        BY <2>1, Zenon DEF RequestInv, ReadIsExact
<1> QED
    BY <1>1, <1>2, <1>3, <1>4, <1>5, <1>6, RequestProgram, RequestLookup, RequestRead, RequestSyscall
       DEF Next, running

\* A read that returns STORAGE_OK has delivered the blocks asked for, each of
\* the IDE drive asked for or, for device 0, of a USB disk (OneAnswer is about which),
\* and a call that fails has left the buffer alone: for disks
\* of any capacity, requests of any size, and devices that fail, pad or vanish.
THEOREM ReadsStayExact == Spec => []ReadIsExact
<1>1. Init => TransportInv /\ BufferInv /\ RequestInv
    BY TransportInit, BufferInit, RequestInit
<1>2. TransportInv /\ BufferInv /\ RequestInv /\ [Next]_vars
        => TransportInv' /\ BufferInv' /\ RequestInv'
    BY TransportStep, BufferStep, RequestStep
<1>3. RequestInv => ReadIsExact
    BY DEF RequestInv
<1> QED
    BY <1>1, <1>2, <1>3, PTL DEF Spec

Searching == {"search", "found", "none"} \cup PortLoop
CompanionsShape == \E t, r, k : companions = [target |-> t, ready |-> r, keep |-> k]

\* Once the ports are handed over the search is behind the kernel, and it has
\* taken note of that.
SealInv ==
    /\ CompanionsShape
    /\ svc = [discovered |-> svc.discovered, usb_discovered |-> svc.usb_discovered,
              mask |-> svc.mask, dead |-> svc.dead]
    /\ companions.ready => kernel /\ svc.usb_discovered /\ cpu.at \notin {"search"} \cup PortLoop
    /\ kernel /\ cpu.at \in Searching => svc.usb_discovered

LEMMA SealInit == Init => SealInv
<1> SUFFICES ASSUME Init PROVE SealInv
    OBVIOUS
<1>1. kernel = FALSE /\ companions = [target |-> FALSE, ready |-> FALSE, keep |-> 0]
    BY Zenon DEF Init, BInit
<1>2. CompanionsShape /\ ~companions.ready
    BY <1>1, Zenon DEF CompanionsShape
<1>3. svc = [discovered |-> svc.discovered, usb_discovered |-> svc.usb_discovered,
              mask |-> svc.mask, dead |-> svc.dead]
    BY Zenon DEF Init
<1> QED
    BY <1>1, <1>2, <1>3, SMTT(30) DEF SealInv

\* The search begins at "search" only.
LEMMA SearchPlace ==
    ASSUME RespondInv, transport \/ loader
    PROVE  /\ cpu'.at \in Searching => cpu.at \in Searching
           /\ cpu'.at \in {"search"} \cup PortLoop => cpu.at \in {"search"} \cup PortLoop \/ ~kernel
<1> USE DEF PortLoop, Searching
<1>1. CASE submit \/ poll
    BY <1>1 DEF submit, poll
<1>2. CASE schedule_stuck
    BY <1>2, GotoPlace DEF schedule_stuck, fail
<1>3. CASE refused \/ ata_read \/ scsi
    <2>1. cpu'.at = cpu.at
        BY <1>3, ResultPlace, PhasePlace DEF refused, ata_read, scsi, RespondInv
    <2> QED
        BY <2>1
<1>4. CASE enumerate_storage \/ start_controller \/ scan_port \/ no_usb_disk \/ storage_ready
           \/ matches_boot_image
    BY <1>4, Zenon DEF enumerate_storage, start_controller, scan_port, no_usb_disk, storage_ready,
                matches_boot_image
<1>5. CASE find_ide_disk
    BY <1>5 DEF find_ide_disk
<1>6. CASE load_image \/ bootstrap_done
    <2>1. \/ \E at \in {"halted", "stop", "entered"} : cpu' = Goto(at)
          \/ \E i, loaded : cpu' = load_next(i, loaded)
        BY <1>6, Zenon DEF load_image, bootstrap_done, fail
    <2>2. cpu'.at \in {"halted", "load", "stop", "entered"}
        BY <2>1, GotoPlace, LoadPlace
    <2> QED
        BY <2>2, SMTT(30)
<1> QED
    BY <1>1, <1>2, <1>3, <1>4, <1>5, <1>6, Zenon DEF transport, loader

LEMMA SealProgram ==
    ASSUME SealInv, RespondInv, transport \/ loader, UNCHANGED service
    PROVE  SealInv'
<1>1. UNCHANGED <<kernel, svc>>
    BY TransportAt, Zenon DEF service
<1>2. \/ UNCHANGED companions
      \/ /\ kernel /\ cpu.at \in PortLoop /\ cpu'.at \in {"none", "found"}
         /\ CompanionsShape'
    <2>1. ASSUME NEW keep, storage_handoff_ports(keep)
          PROVE  UNCHANGED companions \/ (kernel /\ CompanionsShape')
        <3>1. ASSUME companions' = [companions EXCEPT !.ready = TRUE, !.keep = keep] PROVE CompanionsShape'
            <4>1. PICK t, r, k : companions = [target |-> t, ready |-> r, keep |-> k]
                BY Zenon DEF SealInv, CompanionsShape
            <4>2. companions' = [target |-> t, ready |-> TRUE, keep |-> keep]
                BY <3>1, <4>1, Zenon
            <4> QED
                BY <4>2, Zenon DEF CompanionsShape
        <3> QED
            BY <2>1, <3>1, Zenon DEF storage_handoff_ports
    <2>2. CASE no_usb_disk
        <3>1. cpu.at \in PortLoop
            BY <2>2, Zenon DEF no_usb_disk, PortLoop
        <3>2. CASE UNCHANGED companions
            BY <3>2
        <3>3. CASE storage_handoff_ports(0) /\ cpu' = Goto("none")
            BY <2>1, <3>1, <3>3, GotoPlace, SMTT(30)
        <3> QED
            BY <2>2, <3>2, <3>3, Zenon DEF no_usb_disk
    <2>3. CASE storage_ready
        <3>1. cpu.at \in PortLoop
            BY <2>3 DEF storage_ready, PortLoop
        <3>2. CASE UNCHANGED companions
            BY <3>2
        <3>3. CASE storage_handoff_ports(cpu.port) /\ kernel /\ cpu' = Goto("found")
            BY <2>1, <3>1, <3>3, GotoPlace
        <3> QED
            BY <2>3, <3>2, <3>3, Zenon DEF storage_ready, storage_handoff_ports
    <2>4. CASE ~no_usb_disk /\ ~storage_ready
        BY <2>4, Zenon DEF transport, loader, submit, poll, schedule_stuck, refused,
           enumerate_storage, scsi, start_controller, scan_port, ata_read,
           find_ide_disk, matches_boot_image, load_image, bootstrap_done
    <2> QED
        BY <2>2, <2>3, <2>4
<1> QED
    BY <1>1, <1>2, SearchPlace, Zenon DEF SealInv, CompanionsShape, Searching, PortLoop

LEMMA SealService ==
    ASSUME SealInv, ServiceInv, LoadInv,
           \/ storage_initialize \/ discover_storage \/ discover_usb \/ discover_ata
           \/ storage_lookup \/ storage_read \/ leave_storage
           \/ \E r \in Request : storage_syscall(r)
    PROVE  SealInv'
<1> USE DEF PortLoop, Searching
<1> DEFINE SvcShape == svc = [discovered |-> svc.discovered, usb_discovered |-> svc.usb_discovered,
                              mask |-> svc.mask, dead |-> svc.dead]
<1>1. CASE storage_initialize
    <2>1. ~kernel /\ ~companions.ready
        BY <1>1 DEF storage_initialize, LoadInv, LoaderAt, SealInv
    <2>2. PICK early \in BOOLEAN :
             /\ companions' = [companions EXCEPT !.target = early]
             /\ svc' = [svc EXCEPT !.usb_discovered = early]
             /\ cpu' = IF early THEN Goto("search") ELSE Goto("idle")
        BY <1>1, Zenon DEF storage_initialize, sealed
    <2>3. CompanionsShape' /\ ~companions'.ready
        BY <2>1, <2>2, Zenon DEF SealInv, CompanionsShape
    <2>4. SvcShape' /\ svc'.usb_discovered = early
        BY <2>2 DEF SealInv
    <2>5. cpu'.at = IF early THEN "search" ELSE "idle"
        BY <2>2, GotoPlace
    <2> QED
        BY <2>3, <2>4, <2>5, Zenon DEF SealInv
<1>2. ASSUME UNCHANGED <<companions, kernel>>, SvcShape', svc'.usb_discovered = svc.usb_discovered,
             cpu'.at \in ServiceAt
      PROVE  SealInv'
    BY <1>2, Zenon DEF SealInv, CompanionsShape, ServiceAt
<1>3. ASSUME NEW code, Return(code) PROVE cpu'.at \in ServiceAt
    BY <1>3, GotoPlace DEF Return, ServiceAt
<1>4. CASE discover_storage
    <2>1. UNCHANGED <<companions, kernel>> /\ cpu.at = "discover"
        BY <1>4, Zenon DEF discover_storage
    <2>2. SvcShape' /\ svc'.usb_discovered
        BY <1>4, Zenon DEF discover_storage, SealInv
    <2>3. cpu'.at = IF svc.usb_discovered THEN "discover_ata" ELSE "search"
        BY <1>4, GotoPlace DEF discover_storage
    <2> QED
        BY <2>1, <2>2, <2>3, Zenon DEF SealInv, CompanionsShape
<1>5. CASE discover_usb \/ discover_ata
    <2>1. UNCHANGED <<companions, kernel>>
        BY <1>5, Zenon DEF discover_usb, discover_ata
    <2>2. \E mask : svc' = [svc EXCEPT !.mask = mask]
        BY <1>5, Zenon DEF discover_usb, discover_ata
    <2>3. SvcShape' /\ svc'.usb_discovered = svc.usb_discovered
        BY <2>2 DEF SealInv
    <2>4. cpu'.at \in ServiceAt
        BY <1>5, GotoPlace DEF discover_usb, discover_ata, ServiceAt
    <2> QED
        BY <1>2, <2>1, <2>3, <2>4, Zenon
<1>6. CASE storage_read
    <2>1. UNCHANGED <<companions, kernel>> /\ cpu'.at \in ServiceAt
        BY <1>3, <1>6, Zenon DEF storage_read
    <2>2. \E dead : svc' = [svc EXCEPT !.dead = dead]
        BY <1>6, Zenon DEF storage_read
    <2>3. SvcShape' /\ svc'.usb_discovered = svc.usb_discovered
        BY <2>2, SMTT(30) DEF SealInv
    <2> QED
        BY <1>2, <2>1, <2>3
<1>7. CASE storage_lookup \/ leave_storage \/ \E r \in Request : storage_syscall(r)
    <2>1. UNCHANGED <<companions, kernel, svc>>
        BY <1>7, Zenon DEF storage_lookup, leave_storage, storage_syscall
    <2>2. cpu'.at \in ServiceAt
        BY <1>3, <1>7, GotoPlace, ReadPlace DEF storage_lookup, leave_storage, storage_syscall, ServiceAt
    <2> QED
        BY <1>2, <2>1, <2>2, Zenon DEF SealInv
<1> QED
    BY <1>1, <1>4, <1>5, <1>6, <1>7, SMTT(30)

LEMMA SealStep ==
    SealInv /\ RespondInv /\ ServiceInv /\ LoadInv /\ [Next]_vars => SealInv'
<1> SUFFICES ASSUME SealInv, RespondInv, ServiceInv, LoadInv, [Next]_vars PROVE SealInv'
    OBVIOUS
<1>1. ASSUME UNCHANGED <<companions, svc, kernel, cpu>> PROVE SealInv'
    BY <1>1, Zenon DEF SealInv, CompanionsShape
<1>2. CASE UNCHANGED vars
    BY <1>1, <1>2 DEF vars, bvars, software, service
<1>3. CASE environment /\ UNCHANGED service
    <2>1. UNCHANGED software
        BY <1>3 DEF environment, unplug, plug, schedule_off, transfer_error, transfer_done
    <2> QED
        BY <1>1, <1>3, <2>1 DEF software, service
<1>4. CASE storage_refresh_usb_companions
    BY <1>1, <1>4, Zenon DEF storage_refresh_usb_companions, software, service
<1> QED
    BY <1>2, <1>3, <1>4, SealProgram, SealService, SMTT(30) DEF Next, running

\* After the hand-over only devices that come and go, and the refresh, change a port.
LEMMA SealedPorts ==
    ASSUME SealInv, RespondInv, LoadInv, [Next]_vars, companions.ready, NEW p \in Port
    PROVE  /\ port[p].companion /\ ~port'[p].companion => port'[p].kind = "none"
           /\ p = companions.keep /\ port'[p] # port[p] => port'[p].kind # port[p].kind
<1>1. kernel /\ cpu.at \notin {"search"} \cup PortLoop
    BY DEF SealInv
<1>2. CASE UNCHANGED port
    BY <1>2, SMTT(30)
<1>3. ASSUME NEW q \in Port, unplug(q)
      PROVE  port'[p] # port[p] => port'[p].kind = "none" /\ port'[p].kind # port[p].kind
    BY <1>3, Zenon DEF unplug, RespondInv
<1>4. ASSUME NEW q \in Port, NEW kind \in Pluggable, plug(q, kind)
      PROVE  port'[p] # port[p] => port'[p].kind # port[p].kind /\ port'[p].companion = port[p].companion
    <2>1. CASE p = q
        <3>1. kind # "none" /\ port[p].kind = "none"
            BY <1>4, <2>1, BootAssumption DEF plug
        <3>2. port'[p].kind = kind /\ port'[p].companion = port[p].companion
            BY <1>4, <2>1, Zenon DEF plug, RespondInv, PortType
        <3> QED
            BY <3>1, <3>2, Zenon
    <2>2. CASE p # q
        BY <1>4, <2>2, SMTT(30) DEF plug, RespondInv
    <2> QED
        BY <2>1, <2>2, Zenon
<1>5. CASE storage_refresh_usb_companions
    <2>1. p = companions.keep => port'[p] = port[p]
        BY <1>5, Zenon DEF storage_refresh_usb_companions
    <2>2. port[p].companion => port'[p].companion
        BY <1>5, Zenon DEF storage_refresh_usb_companions, RespondInv, PortType
    <2> QED
        BY <2>1, <2>2, Zenon
<1>6. CASE transport \/ loader
    <2>1. UNCHANGED port
        BY <1>1, <1>6, Zenon DEF transport, loader, submit, poll, schedule_stuck, refused,
           enumerate_storage, scsi, start_controller, scan_port, no_usb_disk, storage_ready, ata_read,
           find_ide_disk, matches_boot_image, load_image, bootstrap_done, PortLoop, hardware
    <2> QED
        BY <2>1
<1>7. CASE \/ UNCHANGED vars
           \/ storage_initialize \/ discover_storage \/ discover_usb \/ discover_ata
           \/ storage_lookup \/ storage_read \/ leave_storage
           \/ \E r \in Request : storage_syscall(r)
    <2>1. UNCHANGED port
        BY <1>7, Zenon DEF vars, bvars, hardware, storage_initialize, discover_storage, discover_usb,
           discover_ata, storage_lookup, storage_read, leave_storage, storage_syscall
    <2> QED
        BY <2>1
<1>8. CASE environment
    <2>1. CASE schedule_off \/ transfer_error \/ transfer_done
        <3>1. UNCHANGED port
            BY <2>1 DEF schedule_off, transfer_error, transfer_done
        <3> QED
            BY <3>1
    <2> QED
        BY <1>3, <1>4, <1>8, <2>1, Zenon DEF environment
<1> QED
    BY <1>5, <1>6, <1>7, <1>8, Zenon DEF Next, running

\* After the hand-over no request, and no search made for one, takes a port back
\* or touches the port of the disk: only a disconnection does.
THEOREM DiscoveryStaysSealed == Spec => DiscoveryIsSealed
<1> DEFINE IInv == ScheduleInv /\ RespondInv /\ ServiceInv /\ LoadInv /\ SealInv
           Kept == companions.ready => \A p \in Port :
                      /\ port[p].companion /\ ~port'[p].companion => port'[p].kind = "none"
                      /\ p = companions.keep /\ port'[p] # port[p] => port'[p].kind # port[p].kind
<1>1. Init => IInv
    BY ScheduleInit, RespondInit, ServiceInit, LoadInit, SealInit
<1>2. IInv /\ [Next]_vars => IInv'
    BY ScheduleStep, RespondStep, LoadStep, SealStep, SMTT(30)
<1>3. IInv /\ [Next]_vars => [Kept]_vars
    BY SealedPorts, Zenon
<1> QED
    BY <1>1, <1>2, <1>3, PTL DEF Spec, DiscoveryIsSealed

=============================================================================
