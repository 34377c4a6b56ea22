----------------------------- MODULE BootStorage -----------------------------
(***************************************************************************)
(* The polled EHCI mass-storage transport and the boot loader built on it. *)
(*                                                                         *)
(* BootStorage.c is compiled twice: into the boot loader, which looks for  *)
(* the disk it was started from and loads the kernel, and, under           *)
(* KERNEL_STORAGE, into the kernel (module Storage).  kernel tells which.  *)
(* The program runs alone, polling; beside it run the controller's DMA and *)
(* the devices, which answer, fail, stay silent and are unplugged.  A      *)
(* transfer is split where these can interfere: descriptors handed over,   *)
(* poll ended by completion, error or timeout, schedule seen to stop.      *)
(***************************************************************************)
EXTENDS Integers, Sequences

CONSTANTS
    PORTS,              \* root ports of the EHCI controller
    Plugged,            \* what may be in the ports at power-on: [Port -> Kind]
    Pluggable,          \* kinds of device that may be plugged in later
    Drives,             \* what the IDE channels may hold: sequences of Kind
    READY_ATTEMPTS,     \* TEST UNIT READY attempts (30)
    CONFIGURATIONS,     \* configurations of a device
    BLOCKS_PER_READ,    \* blocks in one read (32)
    IMAGE,              \* the two payloads: [lba, sectors]
    MAX_PLUGS           \* bound on the devices plugged in or out

Port == 1 .. PORTS

\* A device: no device, a full-speed one, a high-speed one that is no disk, and
\* disks: with the boot image, with a boot image damaged in its payload, another.
Kind == {"none", "mouse", "camera", "ours", "damaged", "other"}
Disk == {"ours", "damaged", "other"}

ASSUME BootAssumption ==
    /\ PORTS \in Nat /\ READY_ATTEMPTS \in Nat \ {0} /\ CONFIGURATIONS \in Nat \ {0}
    /\ BLOCKS_PER_READ \in Nat \ {0} /\ MAX_PLUGS \in Nat
    /\ Plugged \subseteq [Port -> Kind] /\ Pluggable \subseteq Kind \ {"none"}
    /\ \A d \in Drives : \A i \in DOMAIN d : d[i] \in {"none"} \cup Disk
    /\ \A i \in 1 .. 2 : IMAGE[i].lba \in Nat /\ IMAGE[i].sectors \in Nat \ {0}

VARIABLES
    kernel,     \* is this the copy compiled with KERNEL_STORAGE?
    cpu,        \* the program: at, port, phase, attempt, the result of a command;
                \* lba and blocks of a read
    backend,    \* 0 for USB, or the IDE drive in use
    xfer,       \* transfer(): none, armed, and succeeded or failed after the poll
    usb,        \* usb_address, toggle_in, toggle_out, transport_dead
    hc,         \* the controller: mapped (ehci is set), run (on this program's
                \* schedule), ase (schedule enabled) and ass (schedule status)
    qtd,        \* the last descriptor: idle, active, done, short, error
    port,       \* per port: kind of its device, enabled, companion (PORT_OWNER)
    device,     \* per port: address, in, out (its toggles), padded (the last data)
    answer,     \* CSW_BUFFER: none, good, check, residue, bad
    buffer,     \* TRANSFER_BUFFER: a sequence of blocks
    drive,      \* the IDE drives
    mem,        \* the two payloads as far as they are loaded
    companions, \* Storage.c: companion_target, companions_ready, companion_keep
    plugs       \* changes of the devices so far

software == <<kernel, cpu, backend, xfer, usb, drive, mem, companions>>
hardware == <<hc, qtd, port, device, answer, buffer, plugs>>
bvars == <<software, hardware>>

Block(kind, lba) == [kind |-> kind, lba |-> lba]
Junk == Block("junk", 0)
Blocks(kind, lba, n) == [i \in 1 .. n |-> Block(kind, lba + i - 1)]

-----------------------------------------------------------------------------
(* The transfers the program makes, by where it is.                        *)

Control == {"enumerate"}
Scsi == {"ready", "sense", "capacity", "match0", "match5", "load", "read"}
PortLoop == {"scan", "enumerate", "ready", "sense", "capacity", "match0", "match5"}
Reads == {"match0", "match5", "load", "read"}

\* The phases of a command: the block wrapper out, data in, the status in, and
\* its result, 1, 0 (check condition) or -1 (dead transport), back at the caller.
CBW == 1
DATA == 2
CSW == 3
RESULT == 0

\* Packets of 512 bytes in the data phase.
packets == IF cpu.at \in Reads THEN cpu.blocks ELSE 1

\* The devices that answer to the address in the queue head.
Responding == {p \in Port : port[p].enabled /\ device[p].address = usb.address}

\* The program goes on elsewhere; what it no longer needs is cleared.
Goto(at) == [at |-> at, port |-> IF at \in PortLoop THEN cpu.port ELSE 0,
             phase |-> 1, attempt |-> 0, result |-> 0, lba |-> 0, blocks |-> 0]
Read(at, lba, blocks) == [Goto(at) EXCEPT !.lba = lba, !.blocks = blocks]

\* The variables of the transport as enumerate_storage begins.
Unused == [address |-> 0, in |-> 0, out |-> 0, dead |-> FALSE]

\* A device as its port's reset leaves it.
Fresh == [address |-> 0, in |-> 0, out |-> 0, padded |-> FALSE]

\* fail(): the boot loader halts; the kernel panics.
fail == cpu' = Goto("halted")

-----------------------------------------------------------------------------
(* The controller and the devices.                                         *)

plug(p, kind) ==
    /\ plugs < MAX_PLUGS /\ port[p].kind = "none"
    /\ plugs' = plugs + 1
    /\ port' = [port EXCEPT ![p].kind = kind]
    /\ device' = [device EXCEPT ![p] = Fresh]
    /\ UNCHANGED <<software, hc, qtd, answer, buffer>>

\* The port router gives the port back to EHCI.
unplug(p) ==
    /\ plugs < MAX_PLUGS /\ port[p].kind # "none"
    /\ plugs' = plugs + 1
    /\ port' = [port EXCEPT ![p] = [kind |-> "none", enabled |-> FALSE, companion |-> FALSE]]
    /\ device' = [device EXCEPT ![p] = Fresh]
    /\ UNCHANGED <<software, hc, qtd, answer, buffer>>

\* The schedule status follows the command register, some time after the
\* schedule is disabled.
schedule_off ==
    /\ hc.run /\ hc.ass /\ ~hc.ase
    /\ hc' = [hc EXCEPT !.ass = FALSE]
    /\ UNCHANGED <<software, qtd, port, device, answer, buffer, plugs>>

\* No device answers, or the one that does stalls.
transfer_error ==
    /\ hc.run /\ hc.ass /\ qtd = "active"
    /\ qtd' = "error"
    /\ UNCHANGED <<software, hc, port, device, answer, buffer, plugs>>

\* A control transfer: SET_ADDRESS is the second, SET_CONFIGURATION, which
\* resets the toggles of the bulk endpoints, the last of enumerate_storage.
control_done(p) ==
    /\ cpu.at \in Control
    /\ qtd' \in IF cpu.phase \in {2, 5} THEN {"done"} ELSE {"done", "short"}
    /\ device' = CASE cpu.phase = 2 -> [device EXCEPT ![p].address = 1]
                   [] cpu.phase = 5 -> [device EXCEPT ![p].in = 0, ![p].out = 0]
                   [] OTHER -> device
    /\ UNCHANGED <<answer, buffer>>

cbw_done(p) ==
    /\ cpu.at \in Scsi /\ cpu.phase = CBW /\ device[p].out = usb.out
    /\ qtd' = "done"
    /\ device' = [device EXCEPT ![p].out = 1 - @]
    /\ UNCHANGED <<answer, buffer>>

\* The device sends all of the data, pads it with other bytes to full length,
\* or ends it early.
data_done(p) ==
    LET sent == IF cpu.at \in Reads THEN Blocks(port[p].kind, cpu.lba, cpu.blocks)
                                    ELSE <<Junk>>
        parity(n) == (device[p].in + n) % 2
    IN  /\ cpu.at \in Scsi /\ cpu.phase = DATA /\ device[p].in = usb.in
        /\ \/ /\ qtd' = "done" /\ buffer' = sent
              /\ device' = [device EXCEPT ![p].in = parity(packets), ![p].padded = FALSE]
           \/ /\ qtd' = "done" /\ buffer' = [sent EXCEPT ![Len(sent)] = Junk]
              /\ device' = [device EXCEPT ![p].in = parity(packets), ![p].padded = TRUE]
           \/ /\ qtd' = "short" /\ buffer' = [sent EXCEPT ![Len(sent)] = Junk]
              /\ device' = [device EXCEPT ![p].in = parity(1), ![p].padded = TRUE]
        /\ UNCHANGED answer

\* A device that padded its data says so; any device may report a condition,
\* or send what is no valid status for this command.
csw_done(p) ==
    /\ cpu.at \in Scsi /\ cpu.phase = CSW /\ device[p].in = usb.in
    /\ qtd' \in {"done", "short"}
    /\ answer' \in {"check", "residue", "bad"} \cup (IF device[p].padded THEN {} ELSE {"good"})
    /\ device' = [device EXCEPT ![p].in = 1 - @, ![p].padded = FALSE]
    /\ UNCHANGED buffer

transfer_done ==
    /\ hc.run /\ hc.ass /\ qtd = "active"
    /\ \E p \in Responding : control_done(p) \/ cbw_done(p) \/ data_done(p) \/ csw_done(p)
    /\ UNCHANGED <<software, hc, port, plugs>>

-----------------------------------------------------------------------------
(* transfer, control and bulk.                                             *)

\* The descriptors and the queue head are written and the schedule enabled.
submit ==
    /\ cpu.at \in Control \cup Scsi /\ cpu.phase # RESULT /\ backend = 0
    /\ xfer = "none" /\ ~usb.dead
    /\ xfer' = "armed" /\ qtd' = "active"
    /\ hc' = [hc EXCEPT !.ase = TRUE, !.ass = TRUE]
    /\ UNCHANGED <<kernel, cpu, backend, usb, drive, mem, companions>>
    /\ UNCHANGED <<port, device, answer, buffer, plugs>>

\* The poll ends when the last descriptor is retired, on an error of the host,
\* or after a second.
poll ==
    /\ xfer = "armed"
    /\ xfer' \in {"failed"} \cup (IF qtd \in {"done", "short"} THEN {"succeeded"} ELSE {})
    /\ hc' = [hc EXCEPT !.ase = FALSE]
    /\ UNCHANGED <<kernel, cpu, backend, usb, drive, mem, companions>>
    /\ UNCHANGED <<qtd, port, device, answer, buffer, plugs>>

\* Mutant: the wait for the schedule to stop is forgotten.
quiet_NoWait == xfer \in {"succeeded", "failed"}

\* transfer has seen the schedule stop.
quiet == xfer \in {"succeeded", "failed"} /\ ~hc.ass

\* The schedule does not stop within a second.
schedule_stuck ==
    /\ xfer \in {"succeeded", "failed"} /\ hc.ass
    /\ fail
    /\ UNCHANGED <<kernel, backend, xfer, usb, drive, mem, companions, hardware>>

complete == xfer = "succeeded" /\ qtd # "short"

\* Mutant: the port is left enabled.
give_up_KeepsPort ==
    /\ cpu' = [Goto("scan") EXCEPT !.port = @ + 1]
    /\ usb' = Unused /\ UNCHANGED <<port, device>>

\* The port of a device that is not the one looked for is disabled.  The device
\* is out of reach until a reset, and the transport until enumerate_storage.
give_up ==
    /\ cpu' = [Goto("scan") EXCEPT !.port = @ + 1]
    /\ port' = [port EXCEPT ![cpu.port].enabled = FALSE]
    /\ device' = [device EXCEPT ![cpu.port] = Fresh]
    /\ usb' = Unused

next_configuration ==
    \/ /\ cpu.attempt + 1 < CONFIGURATIONS
       /\ cpu' = [cpu EXCEPT !.phase = 3, !.attempt = @ + 1]
       /\ UNCHANGED <<usb, port, device>>
    \/ cpu.attempt + 1 >= CONFIGURATIONS /\ give_up

\* enumerate_storage: device descriptor, SET_ADDRESS, and for each configuration
\* its header, the whole, and SET_CONFIGURATION if it has a storage interface.
enumerate_storage ==
    /\ cpu.at = "enumerate" /\ quiet
    /\ xfer' = "none" /\ qtd' = "idle"
    /\ \/ give_up /\ (~complete \/ cpu.phase = 1)
       \/ complete /\ cpu.phase \in {3, 4} /\ next_configuration
       \/ /\ complete
          /\ cpu.phase = 4 => port[cpu.port].kind # "camera"
          /\ cpu' = IF cpu.phase = 5 THEN Goto("ready") ELSE [cpu EXCEPT !.phase = @ + 1]
          /\ usb' = [usb EXCEPT !.address = IF cpu.phase = 2 THEN 1 ELSE @]
          /\ UNCHANGED <<port, device>>
    /\ UNCHANGED <<kernel, backend, drive, mem, companions, hc, answer, buffer, plugs>>

Result(r) == cpu' = [cpu EXCEPT !.phase = RESULT, !.result = r]

\* Mutant: the residue is not looked at.
csw_result_IgnoresResidue ==
    CASE answer = "bad" -> -1 [] answer = "check" -> 0 [] OTHER -> 1

\* The status is taken at its word only if it is for this command and complete.
csw_result ==
    CASE answer \in {"bad", "residue"} -> -1 [] answer = "check" -> 0 [] OTHER -> 1

\* Mutant: the toggle changes once per transfer, not per packet.
toggled_AlwaysOne(n) == 1 - usb.in

toggled(n) == (usb.in + n) % 2

\* bulk and scsi: every phase must transfer all its bytes; anything else leaves
\* the transport dead.
scsi ==
    /\ cpu.at \in Scsi /\ cpu.phase # RESULT /\ quiet
    /\ xfer' = "none" /\ qtd' = "idle" /\ answer' = "none"
    /\ \/ /\ ~complete
          /\ usb' = [usb EXCEPT !.dead = TRUE]
          /\ Result(-1)
       \/ /\ complete /\ cpu.phase = CBW
          /\ usb' = [usb EXCEPT !.out = 1 - @]
          /\ cpu' = [cpu EXCEPT !.phase = IF cpu.at = "ready" THEN CSW ELSE DATA]
       \/ /\ complete /\ cpu.phase = DATA
          /\ usb' = [usb EXCEPT !.in = toggled(packets)]
          /\ cpu' = [cpu EXCEPT !.phase = CSW]
       \/ /\ complete /\ cpu.phase = CSW
          /\ usb' = [usb EXCEPT !.in = 1 - @, !.dead = csw_result = -1]
          /\ Result(csw_result)
    /\ UNCHANGED <<kernel, backend, drive, mem, companions, hc, port, device, buffer, plugs>>

\* A dead transport is not used again.
refused ==
    /\ cpu.at \in Scsi /\ cpu.phase = CBW /\ backend = 0 /\ xfer = "none" /\ usb.dead
    /\ Result(-1)
    /\ UNCHANGED <<kernel, backend, xfer, usb, drive, mem, companions, hardware>>

-----------------------------------------------------------------------------
(* find_usb_disk: the ports in turn.                                       *)

\* start_controller gives up on a controller it does not support or that the
\* firmware does not release; it resets all others, which disables their ports,
\* and routes the ports to EHCI.
start_controller ==
    /\ cpu.at = "search"
    /\ \/ /\ cpu' = Goto("none")
          /\ UNCHANGED <<hc, qtd, port, device>>
       \/ fail /\ UNCHANGED <<hc, qtd, port, device>>
       \/ /\ hc' = [mapped |-> TRUE, run |-> TRUE, ase |-> FALSE, ass |-> FALSE]
          /\ qtd' = "idle"
          /\ port' = [p \in Port |-> [port[p] EXCEPT !.enabled = FALSE, !.companion = FALSE]]
          /\ device' = [p \in Port |-> Fresh]
          /\ cpu' = [Goto("scan") EXCEPT !.port = 1]
    /\ UNCHANGED <<kernel, backend, xfer, usb, drive, mem, companions, answer, buffer, plugs>>

\* Only a high-speed device leaves the port enabled after its reset.
scan_port ==
    /\ cpu.at = "scan" /\ cpu.port <= PORTS
    /\ LET p == cpu.port
           next == [Goto("scan") EXCEPT !.port = p + 1]
       IN  \/ /\ port[p].kind = "none" \/ port[p].companion
              /\ cpu' = next
              /\ UNCHANGED <<usb, port, device>>
           \/ /\ port[p].kind # "none" /\ ~port[p].companion
              /\ fail
              /\ UNCHANGED <<usb, port, device>>
           \/ /\ port[p].kind = "mouse" /\ ~port[p].companion
              /\ cpu' = next
              /\ UNCHANGED <<usb, port, device>>
           \/ /\ port[p].kind \in {"camera"} \cup Disk /\ ~port[p].companion
              /\ port' = [port EXCEPT ![p].enabled = TRUE]
              /\ device' = [device EXCEPT ![p] = Fresh]
              /\ usb' = Unused
              /\ cpu' = Goto("enumerate")
    /\ UNCHANGED <<kernel, backend, xfer, drive, mem, companions, hc, qtd, answer, buffer, plugs>>

\* storage_handoff_ports: all ports but keep go to the companion controllers.
storage_handoff_ports(keep) ==
    IF kernel /\ companions.target /\ hc.mapped
    THEN /\ companions' = [companions EXCEPT !.ready = TRUE, !.keep = keep]
         /\ port' = [p \in Port |-> IF p = keep THEN port[p]
                        ELSE [port[p] EXCEPT !.enabled = FALSE, !.companion = TRUE]]
    ELSE UNCHANGED <<companions, port>>

\* Mutant: the schedule is disabled but the controller left running.
stop_controller_KeepsRunning == hc' = [hc EXCEPT !.ase = FALSE]

\* stop_controller: no access to a controller that is not mapped.
stop_controller ==
    hc' = IF hc.mapped THEN [hc EXCEPT !.run = FALSE, !.ase = FALSE, !.ass = FALSE] ELSE hc

no_usb_disk ==
    /\ cpu.at = "scan" /\ cpu.port > PORTS
    /\ \/ fail /\ UNCHANGED <<hc, port, companions>>
       \/ /\ storage_handoff_ports(0)
          /\ hc' = [mapped |-> FALSE, run |-> FALSE, ase |-> FALSE, ass |-> FALSE]
          /\ cpu' = Goto("none")
    /\ UNCHANGED <<kernel, backend, xfer, usb, drive, mem, qtd, device, answer, buffer, plugs>>

\* Mutant: the attempts are not counted.
next_attempt_Endless == cpu.attempt
next_attempt == cpu.attempt + 1

\* storage_ready: TEST UNIT READY until the disk is ready, REQUEST SENSE in
\* between; then its capacity, which may be of no use.
storage_ready ==
    /\ cpu.at \in {"ready", "sense", "capacity"} /\ cpu.phase = RESULT
    /\ \/ /\ \/ cpu.result = -1
             \/ cpu.at = "sense" /\ next_attempt >= READY_ATTEMPTS
             \/ cpu.at = "capacity"
          /\ give_up
          /\ UNCHANGED companions
       \/ /\ \/ /\ cpu.at = "ready" /\ cpu.result = 0
                /\ cpu' = [Goto("sense") EXCEPT !.attempt = cpu.attempt]
             \/ /\ cpu.at = "ready" /\ cpu.result = 1
                /\ cpu' = Goto("capacity")
             \/ /\ cpu.at = "sense" /\ cpu.result # -1 /\ next_attempt < READY_ATTEMPTS
                /\ cpu' = [Goto("ready") EXCEPT !.attempt = next_attempt]
          /\ UNCHANGED <<usb, port, device, companions>>
       \/ /\ cpu.at = "capacity" /\ cpu.result = 1
          /\ storage_handoff_ports(cpu.port)
          /\ cpu' = IF kernel THEN Goto("found") ELSE Read("match0", 0, 1)
          /\ UNCHANGED <<usb, device>>
    /\ UNCHANGED <<kernel, backend, xfer, drive, mem, hc, qtd, answer, buffer, plugs>>

-----------------------------------------------------------------------------
(* The boot loader.                                                        *)

\* ata_read: programmed I/O.  A wait that fails leaves part of the data behind.
ata_read ==
    /\ cpu.at \in Reads /\ cpu.phase # RESULT /\ backend > 0
    /\ \/ /\ drive[backend] # "none"
          /\ Result(1)
          /\ buffer' = Blocks(drive[backend], cpu.lba, cpu.blocks)
       \/ /\ Result(0)
          /\ buffer' = [i \in 1 .. cpu.blocks |-> Junk]
    /\ UNCHANGED <<kernel, backend, xfer, usb, drive, mem, companions>>
    /\ UNCHANGED <<hc, qtd, port, device, answer, plugs>>

\* The next IDE drive.
next_drive ==
    IF backend < Len(drive)
    THEN backend' = backend + 1 /\ cpu' = Read("match0", 0, 1)
    ELSE fail /\ UNCHANGED backend

find_ide_disk ==
    /\ ~kernel /\ cpu.at = "none"
    /\ next_drive
    /\ UNCHANGED <<kernel, xfer, usb, drive, mem, companions, hardware>>

\* load_image asks for at most BLOCKS_PER_READ blocks at a time.
load_next(i, loaded) ==
    Read("load", IMAGE[i].lba + loaded,
         IF IMAGE[i].sectors - loaded > BLOCKS_PER_READ THEN BLOCKS_PER_READ
                                                       ELSE IMAGE[i].sectors - loaded)

\* matches_boot_image compares blocks 0 and 5 with what the firmware loaded.
matches_boot_image ==
    LET hit == cpu.result = 1 /\ buffer[1].kind \in {"ours", "damaged"}
    IN  /\ cpu.at \in {"match0", "match5"} /\ cpu.phase = RESULT
        /\ \/ /\ hit
              /\ cpu' = IF cpu.at = "match0" THEN Read("match5", 5, 1) ELSE load_next(1, 0)
              /\ UNCHANGED <<backend, usb, port, device>>
           \/ ~hit /\ backend = 0 /\ give_up /\ UNCHANGED backend
           \/ ~hit /\ backend > 0 /\ next_drive /\ UNCHANGED <<usb, port, device>>
        /\ UNCHANGED <<kernel, xfer, drive, mem, companions, hc, qtd, answer, buffer, plugs>>

\* The checksum in the manifest is that of the undamaged payload.
crc_matches(i, payload) == payload = Blocks("ours", IMAGE[i].lba, IMAGE[i].sectors)

load_image ==
    LET i       == IF Len(mem[1]) < IMAGE[1].sectors THEN 1 ELSE 2
        payload == mem[i] \o buffer
    IN  /\ cpu.at = "load" /\ cpu.phase = RESULT
        /\ \/ cpu.result # 1 /\ fail /\ UNCHANGED mem
           \/ /\ cpu.result = 1
              /\ mem' = [mem EXCEPT ![i] = payload]
              /\ IF Len(payload) < IMAGE[i].sectors
                 THEN cpu' = load_next(i, Len(payload))
                 ELSE \/ ~crc_matches(i, payload) /\ fail
                      \/ /\ crc_matches(i, payload)
                         /\ cpu' = IF i = 1 THEN load_next(2, 0) ELSE Goto("stop")
        /\ UNCHANGED <<kernel, backend, xfer, usb, drive, companions, hardware>>

\* The last steps of bootstrap_load_images; the high kernel is entered after it.
bootstrap_done ==
    /\ cpu.at = "stop"
    /\ \/ hc.mapped /\ fail /\ UNCHANGED hc
       \/ stop_controller /\ cpu' = Goto("entered")
    /\ UNCHANGED <<kernel, backend, xfer, usb, drive, mem, companions>>
    /\ UNCHANGED <<qtd, port, device, answer, buffer, plugs>>

-----------------------------------------------------------------------------
BInit ==
    /\ kernel = FALSE
    /\ cpu = [at |-> "search", port |-> 1, phase |-> 1, attempt |-> 0, result |-> 0,
              lba |-> 0, blocks |-> 0]
    /\ backend = 0
    /\ xfer = "none"
    /\ usb = Unused
    /\ hc = [mapped |-> FALSE, run |-> FALSE, ase |-> FALSE, ass |-> FALSE]
    /\ qtd = "idle"
    /\ \E kinds \in Plugged :
          port = [p \in Port |-> [kind |-> kinds[p], enabled |-> FALSE, companion |-> FALSE]]
    /\ device = [p \in Port |-> Fresh]
    /\ answer = "none"
    /\ buffer = <<>>
    /\ drive \in Drives
    /\ mem = <<<<>>, <<>>>>
    /\ companions = [target |-> FALSE, ready |-> FALSE, keep |-> 0]
    /\ plugs = 0

\* What happens after fail() does not matter.
environment ==
    /\ cpu.at # "halted"
    /\ \/ \E p \in Port : unplug(p) \/ \E kind \in Pluggable : plug(p, kind)
       \/ schedule_off \/ transfer_error \/ transfer_done

\* What both programs do.
transport ==
    \/ submit \/ poll \/ schedule_stuck \/ refused
    \/ enumerate_storage \/ scsi
    \/ start_controller \/ scan_port \/ no_usb_disk \/ storage_ready
    \/ ata_read

loader ==
    \/ find_ide_disk \/ matches_boot_image \/ load_image \/ bootstrap_done

=============================================================================
