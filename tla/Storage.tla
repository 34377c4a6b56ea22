------------------------------- MODULE Storage -------------------------------
(***************************************************************************)
(* The kernel's storage service on top of the transport of BootStorage:    *)
(* discovery, which happens once and may be made early to hand the ports   *)
(* of an EHCI controller to its UHCI companions, reads by the kernel and   *)
(* by processes, and the return of ports after a disconnection.            *)
(*                                                                         *)
(* A behaviour begins with the boot loader and goes on in the kernel it    *)
(* has loaded.  A call of the service runs with interrupts disabled, so no *)
(* other call interleaves with it: one request is in progress at a time.   *)
(***************************************************************************)
EXTENDS BootStorage

CONSTANTS
    CAPACITY,           \* blocks of every disk
    STORAGE_MAX_BLOCKS, \* blocks in one request (32)
    Request             \* the requests: [from, op, device, lba, blocks]

\* Who asks: the kernel, a process that may read disks, one that may not, and
\* one whose buffer is not its own writable memory.
Caller == {"kernel", "allowed", "denied", "bad_buffer"}

ASSUME StorageAssumption ==
    /\ CAPACITY \in Nat \ {0} /\ STORAGE_MAX_BLOCKS \in 1 .. BLOCKS_PER_READ
    /\ Request \subseteq [from : Caller, op : {"devices", "info", "read"},
                          device : Nat, lba : Nat, blocks : Nat]

VARIABLES
    svc,        \* discovered, usb_discovered, mask (device_mask), dead (ata_dead)
    req,        \* the request in progress
    result,     \* what the service returned for it
    out         \* the buffer of its caller

service == <<svc, req, result, out>>
vars == <<bvars, service>>

\* Device 0 is the USB disk; device d > 0 is IDE drive d, two to a channel.
Device == 0 .. Len(drive)
STORAGE_DEVICE_COUNT == 5
channel(d) == {e \in Device \ {0} : (e - 1) \div 2 = (d - 1) \div 2}

None == [from |-> "kernel", op |-> "none", device |-> 0, lba |-> 0, blocks |-> 0]

-----------------------------------------------------------------------------
(* The kernel starts.  Its copy of the transport has its own variables, and*)
(* it clears the DMA pages.                                                *)

\* Mutant: the early discovery is not remembered.
sealed_Unless(early) == FALSE

\* storage_prepare_usb_companions is discovery ahead of the first request.
sealed(early) == early

storage_initialize ==
    /\ cpu.at = "entered"
    /\ kernel' = TRUE /\ backend' = 0
    /\ usb' = Unused
    /\ hc' = [hc EXCEPT !.mapped = FALSE]
    /\ \E early \in BOOLEAN :
          /\ companions' = [companions EXCEPT !.target = early]
          /\ svc' = [svc EXCEPT !.usb_discovered = sealed(early)]
          /\ cpu' = IF early THEN Goto("search") ELSE Goto("idle")
    /\ buffer' = <<>>
    /\ UNCHANGED <<xfer, drive, mem, qtd, port, device, answer, plugs, req, result, out>>

-----------------------------------------------------------------------------
(* Requests.                                                               *)

Return(code) == result' = code /\ cpu' = Goto("returned")

\* leave_storage: the caller has the result and goes on.
leave_storage ==
    /\ cpu.at = "returned"
    /\ cpu' = Goto("idle") /\ req' = None /\ result' = "NONE" /\ out' = <<>>
    /\ UNCHANGED <<kernel, backend, xfer, usb, drive, mem, companions, hardware, svc>>

\* storage_syscall and the first checks of each call.  A process reads one
\* block at a time.
storage_syscall(r) ==
    LET refusal == CASE r.from = "denied" -> "ACCESS_DENIED"
                     [] r.from = "bad_buffer" /\ r.op # "devices" -> "BAD_BUFFER"
                     [] r.op # "devices" /\ r.device >= STORAGE_DEVICE_COUNT -> "BAD_ARGUMENT"
                     [] r.op = "read" /\ r.blocks \notin 1 .. STORAGE_MAX_BLOCKS -> "BAD_ARGUMENT"
                     [] OTHER -> "NONE"
    IN  /\ cpu.at = "idle"
        /\ r.from # "kernel" => r.blocks = 1
        /\ req' = r /\ out' = <<>>
        /\ IF refusal # "NONE" THEN Return(refusal)
                               ELSE /\ result' = "PENDING"
                                    /\ cpu' = Goto(IF svc.discovered THEN "lookup" ELSE "discover")
        /\ UNCHANGED <<kernel, backend, xfer, usb, drive, mem, companions, hardware, svc>>

\* discover_storage: USB unless that was done early, then ATA; once.
discover_storage ==
    /\ cpu.at = "discover"
    /\ cpu' = Goto(IF svc.usb_discovered THEN "discover_ata" ELSE "search")
    /\ svc' = [svc EXCEPT !.usb_discovered = TRUE, !.discovered = TRUE]
    /\ UNCHANGED <<kernel, backend, xfer, usb, drive, mem, companions, hardware, req, result, out>>

\* The end of discover_usb, called early or for the first request.
discover_usb ==
    /\ kernel /\ cpu.at \in {"found", "none"}
    /\ svc' = [svc EXCEPT !.mask = IF cpu.at = "found" THEN @ \cup {0} ELSE @]
    /\ cpu' = IF result = "PENDING" THEN Goto("discover_ata") ELSE Goto("idle")
    /\ UNCHANGED <<kernel, backend, xfer, usb, drive, mem, companions, hardware, req, result, out>>

\* identify_ata for each drive: it may fail, and overwrites the buffer.
discover_ata ==
    /\ cpu.at = "discover_ata"
    /\ \E found \in SUBSET {d \in Device \ {0} : drive[d] # "none"} :
          svc' = [svc EXCEPT !.mask = @ \cup found]
    /\ buffer' = <<Junk>>
    /\ cpu' = Goto("lookup")
    /\ UNCHANGED <<kernel, backend, xfer, usb, drive, mem, companions>>
    /\ UNCHANGED <<hc, qtd, port, device, answer, plugs, req, result, out>>

storage_valid_range(capacity, lba, blocks) ==
    blocks # 0 /\ blocks <= STORAGE_MAX_BLOCKS /\ lba < capacity /\ blocks <= capacity - lba

\* The transports check again, in other words, before they submit a command; that
\* this never refuses what got so far is theorem AdmittedRangesAreRead.
LBA28 == 16384 * 16384

usb_range(last_block, lba, blocks) ==
    blocks # 0 /\ blocks <= BLOCKS_PER_READ /\ lba <= last_block /\ blocks - 1 <= last_block - lba

ata_range(lba, blocks) ==
    blocks # 0 /\ blocks <= BLOCKS_PER_READ /\ lba <= LBA28 - 1 /\ blocks - 1 <= LBA28 - 1 - lba

\* The capacity in the identification, as far as ata_read can address it.
storage_identify_capacity(blocks) == IF blocks > LBA28 THEN LBA28 ELSE blocks

\* The middle of storage_read, storage_get_info and storage_device_mask.
storage_lookup ==
    /\ cpu.at = "lookup"
    /\ \/ /\ req.op = "devices"
          /\ Return("OK") /\ UNCHANGED backend
       \/ /\ req.op # "devices" /\ req.device \notin svc.mask
          /\ Return("NO_DEVICE") /\ UNCHANGED backend
       \/ /\ req.op = "info" /\ req.device \in svc.mask
          /\ Return("OK") /\ UNCHANGED backend
       \/ /\ req.op = "read" /\ req.device \in svc.mask
          /\ IF ~storage_valid_range(CAPACITY, req.lba, req.blocks)
             THEN Return("BAD_ARGUMENT") /\ UNCHANGED backend
             ELSE IF req.device \in svc.dead
             THEN Return("IO_ERROR") /\ UNCHANGED backend
             ELSE /\ cpu' = Read("read", req.lba, req.blocks)
                  /\ backend' = req.device
                  /\ UNCHANGED result
    /\ UNCHANGED <<kernel, xfer, usb, drive, mem, companions, hardware, svc, req, out>>

copied == IF cpu.result = 1 THEN buffer ELSE out

\* The end of storage_read.  A failure of one drive ends the use of its channel.
storage_read ==
    /\ cpu.at = "read" /\ cpu.phase = RESULT
    /\ out' = copied
    /\ Return(IF cpu.result = 1 THEN "OK" ELSE "IO_ERROR")
    /\ svc' = [svc EXCEPT !.dead = IF cpu.result # 1 /\ backend > 0
                                   THEN @ \cup channel(backend) ELSE @]
    /\ backend' = 0
    /\ UNCHANGED <<kernel, xfer, usb, drive, mem, companions, hardware, req>>

\* Mutant: the bit tested says enabled, not connected.
returned_Enabled(p) == port[p].enabled /\ ~port[p].companion

\* Connected, and given back to EHCI by a disconnection.
returned(p) == port[p].kind # "none" /\ ~port[p].companion

\* usb_host_poll calls this; the port of the disk is left alone.
storage_refresh_usb_companions ==
    LET lost == {p \in Port \ {companions.keep} : returned(p)}
    IN  /\ cpu.at = "idle" /\ companions.ready /\ hc.mapped /\ lost # {}
        /\ port' = [p \in Port |-> IF p \in lost
                        THEN [port[p] EXCEPT !.enabled = FALSE, !.companion = TRUE] ELSE port[p]]
        /\ UNCHANGED <<software, hc, qtd, device, answer, buffer, plugs, service>>

-----------------------------------------------------------------------------
Init ==
    /\ BInit
    /\ svc = [discovered |-> FALSE, usb_discovered |-> FALSE, mask |-> {}, dead |-> {}]
    /\ req = None /\ result = "NONE" /\ out = <<>>

\* The steps of a program that is running; only storage_syscall and the refresh
\* wait for someone to call.
running ==
    \/ (transport \/ loader) /\ UNCHANGED service
    \/ storage_initialize \/ discover_storage \/ discover_usb \/ discover_ata
    \/ storage_lookup \/ storage_read \/ leave_storage

Next ==
    \/ environment /\ UNCHANGED service
    \/ running
    \/ \E r \in Request : storage_syscall(r)
    \/ storage_refresh_usb_companions

Spec == Init /\ [][Next]_vars

\* The program runs; the kernel task's poll comes again and again between the
\* calls of others (Scheduler.EveryTaskRuns).
FairSpec == Spec /\ WF_vars(running) /\ SF_vars(storage_refresh_usb_companions)

-----------------------------------------------------------------------------
(* Properties.                                                             *)

\* bootstrap_load_images returns, and the high kernel is entered, only with both
\* payloads in memory as the manifest describes them, whatever disks were tried
\* before, and with no schedule of the controller left that could write to memory.
KernelStartsClean ==
    cpu.at = "entered" =>
        /\ ~hc.run /\ ~hc.ass
        /\ \A i \in 1 .. 2 : mem[i] = Blocks("ours", IMAGE[i].lba, IMAGE[i].sectors)

\* No descriptor or buffer is touched while the controller can still see it:
\* whenever the program is outside transfer() the schedule is off, also after
\* a timeout whose transfer may complete late.
NoLiveReuse == xfer = "none" => ~hc.ase /\ ~hc.ass

\* Address 1 has one owner: at most one port is enabled, over all ports tried.
OneResponder == \A p, q \in Port : port[p].enabled /\ port[q].enabled => p = q

\* bulk keeps the data toggles in step with those of the disk for as long as the
\* transport is in use, for odd and even numbers of packets.
TogglesAgree ==
    \A p \in Port :
        port[p].enabled /\ usb.address = 1 /\ ~usb.dead /\ xfer = "none" /\ cpu.at # "enumerate"
            => device[p].in = usb.in /\ device[p].out = usb.out

\* A read that returns STORAGE_OK has delivered the blocks asked for, each of
\* the IDE drive named or, for device 0, of a USB disk, all below its capacity; a call
\* that fails has left the buffer alone.  USB disks are not told apart here: that no
\* second one can answer is OneResponder.
ReadIsExact ==
    /\ result # "OK" => out = <<>>
    /\ result = "OK" /\ req.op = "read" =>
          /\ req.lba + req.blocks <= CAPACITY
          /\ Len(out) = req.blocks
          /\ \A i \in 1 .. req.blocks :
                /\ out[i].lba = req.lba + i - 1
                /\ out[i].kind \in IF req.device = 0 THEN Disk ELSE {drive[req.device]}

\* Once the ports are handed over, no request takes one back or touches the
\* disk's port: only a disconnection does.
DiscoveryIsSealed ==
    [][companions.ready => \A p \in Port :
            /\ port[p].companion /\ ~port'[p].companion => port'[p].kind = "none"
            /\ p = companions.keep /\ port'[p] # port[p] => port'[p].kind # port[p].kind]_vars

\* Every wait has its limit and every retry its count: the boot loader enters
\* the kernel or stops, and each request returns or the kernel panics.
StorageReturns == []<>(cpu.at \in {"idle", "halted"})

Stranded(p) ==
    /\ companions.ready /\ p # companions.keep /\ cpu.at # "halted"
    /\ port[p].kind # "none" /\ ~port[p].companion

\* A device plugged into a port that a disconnection gave back to EHCI reaches
\* the companions again, as long as the coordinator keeps the controller.
PortsComeBack == \A p \in Port : (hc.mapped /\ Stranded(p)) ~> ~Stranded(p)

\* "EHCI returns port ownership to itself on disconnect, so the storage
\* coordinator hands connected non-storage ports back to UHCI": also when no
\* USB disk was found.
MouseComesBack == \A p \in Port : Stranded(p) ~> ~Stranded(p)

=============================================================================
