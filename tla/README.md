# A TLA+ model of the kernel

This directory models the parts of the operating system in `src/Development` whose
correctness depends on order: interrupts against tasks, the processor and DMA against
software, failure in the middle of a construction, devices that come and go, a panic in the
middle of anything. TLC checks the models on small instances; TLAPS proves for every instance
the main properties of the scheduler, physical memory and the kernel heap, storage, keyboard,
mouse, the USB host and the display.

## The system

One processor runs hardware tasks (TSS). The boot loader finds the disk it was started from, on
an EHCI controller or an IDE channel, loads two images and enters the high kernel. The kernel
sets up its devices and the desktop process. The LAPIC timer (vector 20h) then switches round
robin between the tasks in a table, with a turn for the kernel's own task after the last one.
The kernel task builds processes with interrupts masked, then idles: it polls USB, scans for
hotplugged mice and halts. A fault in ring 3 or VM86 removes the task, and the next interrupt
destroys it; a fault elsewhere is a panic, which returns to VGA text. Drivers run in rings 1
and 2, called through call gates by ring-3 code, with interrupts on, so they are preempted
anywhere; what they share with interrupt handlers is a ring buffer or a header each, and a lock
among callers. Storage requests run with interrupts masked.

| Part | Source | Modules | Modelled |
| --- | --- | --- | --- |
| Scheduler, exceptions | `Arch/x86/VirtualKernel.asm`, `InterruptHandlers.asm`, `Exceptions.c` | `Scheduler`, `SchedulerProofs` | yes |
| Process construction, loading, destruction | `VirtualKernel.asm`, `DriverGateway.asm` | `Processes` (extends `Scheduler`, `AddressSpace`) | resources and order |
| Slots and address layout | `VirtualKernel.asm`, `Boot/kernel.asm`, `Storage.c` | `AddressSpace`, `SchedulerProofs` | yes |
| Physical memory manager | `VirtualKernel.asm` | `PageAllocator` (abstract), `Pmm`, `MemoryProofs`, `KernelLemmas` | yes |
| Kernel heap, other users of frames | `VirtualKernel.asm`, `Intel915.c` | `KernelHeap` (extends `Pmm`), `Memory` (extends `KernelHeap`), `MemoryProofs` | yes |
| Boot storage: EHCI, mass storage, IDE, loader | `Boot/BootStorage.c` | `BootStorage`, `StorageProofs` | one controller |
| Storage service, port handoff | `Drivers/Storage` | `Storage` (extends `BootStorage`), `StorageProofs` | yes |
| Keyboard | `Drivers/Keyboard` | `Keyboard`, `KeyboardProofs` | handler, queue, decoder, service |
| Mouse service and cursor queue | `Drivers/Usb/MouseDriver.c` | `Mouse`, `MouseProofs` | yes |
| UHCI host, USB mouse, hotplug | `Drivers/Usb/UsbHost.c`, `UsbMouse.c` | `UsbHost`, `UhciLayout`, `UhciProofs`, `UsbDescriptors` | one controller |
| Intel 915 graphics | `Drivers/Intel915` | `Intel915Layout`, `Intel915`, `DisplayProofs`; `Memory` for the cursor's frames | yes |
| Panic, VGA text, start-up order | `Kernel/Panic.c`, `KernelMain.c`, `Drivers/Vga` | `Panic` (extends `Intel915`), `DisplayProofs` | yes |
| Page tables | `VirtualKernel.asm` | `Processes` | ownership only |
| System calls, gateway, bootstrap assembly, audio, C runtime | `User`, `DriverGateway.asm`, `Boot`, `Drivers/Audio`, `Runtime` | none | no, see below |

`PROJECT.json` gives for every definition the lines it models, and lists the hazards of the
code with the properties that cover them.

## How the models correspond to the code

Definitions have the names of the routines they model. What runs with interrupts masked
(handlers, constructors, everything between `irq_save` and `irq_restore`) is one action, unless
hardware runs beside it. What runs with interrupts on is split at each access to state another
party can change, and `pc` says where a caller is. A routine called by several others is an
operator from state to state and the callers are the actions. Definitions under a comment that
begins with "Mutant" are not part of the specification: each is a plausible bug that a property
has to catch.

**Scheduler.** `sched` is `scheduler_task_table`, `_task_count` and `_current_index` (-1 for
0FFFFFFFFh), `tr` the task register, `live`, `tss` and `ptype` the process objects. `jmp_far`
is the processor: a jump to a busy or absent TSS raises an exception in the handler, which is
the state `bad_switch`. `machine = "hung"` is the `hlt` loop of
`exception_terminate_current_fail`. The kernel task holds no pointer to a process that waits to
be reaped; that is true of the callers in the tree and is a guard of `kernel_process_destroy`.

**Processes.** A construction is a record of pools, object under construction and success;
the constructors of both types are compositions of the routines they call, with each failure
path. Pools are counters (heap blocks, frames, page tables) or sets (GDT selectors, slots); the
heap takes a frame to grow and keeps it. A selector is the lowest free one, so selectors
are recycled at once. `pool` ranges over initial pools small enough that each allocation
is in turn the one that fails. `map_page` into the kernel's temporary window cannot fail after
boot, and three LDT selectors of a fresh LDT cannot run out.

**Memory.** `Pmm` implements `PageAllocator`, which grants any free frame while there is one and
refuses only when there is none. `KernelHeap` adds the block list as a sequence of
[addr, size, used] in the allocator's unit of 8 bytes (a header takes two units) and takes its
frames from `Pmm`, one step per page, so that a growth can run out half way. `Memory` adds all
others who take frames, and the search of the graphics driver for four consecutive ones.

**BootStorage** and **Storage.** `BootStorage.c` is compiled into the boot loader and, with
`KERNEL_STORAGE`, into the kernel; a behaviour begins at power-on in the first and goes on in the
second. `cpu.at` is the command the program is in, `cpu.phase` the transfer of that command
(wrapper, data, status, or the control transfers of `enumerate_storage`). A transfer is three
steps: `submit`, `poll` (completion, error or timeout) and the step that has seen the schedule
stop. Between them the controller completes it (`transfer_done`) or fails it, late too, and
devices are plugged and unplugged. `hc` has the command and the status bit of the schedule
separately. Devices keep their own address and toggles; the data they send may be complete, padded
or short. A block is known by its disk and its number, so a stale or wrong buffer is told from
the right one. `fail` halts the loader and panics the kernel; every wait for a register may end
in it.

**Keyboard.** A typist and a keyboard send Set-1 bytes; the handler stores or loses each; the
callers are anywhere in acquire, check, observe, discard, read, advance, release. `fifo` is a
ghost: the accepted bytes not yet consumed. **Mouse** has the same shape with two rings and
mice whose streams start and end. Its ghosts are `owed`, the motions the display has not shown,
and the `gen` number in each packet, which tells streams apart. A stream starts only when every
caller that was inside the service when the previous one ended has left. The code does not
check this. The kernel task starts a stream two scans after the previous one ended, at least
100 ms apart, and round robin gives every task a turn in between; `DeliveredIsCurrent`
depends on this assumption.

**UsbHost.** `dma` is what the controller works on: the TD, whether the queue head points at
it, and `writeback`, the interval between the retirement of the TD and the write of the queue
head. `port` holds the port registers; each device has its own number, so that a replaced
device is a different one. `cdev` and `failed` are ghosts: the device that was configured, and
the one whose probe failed. `line.late` is an interrupt latched before the poll acknowledged its
cause; it is assumed to be delivered before the next frame, as the poll returns with interrupts
on. All requests of a probe are one step: an unplug between two of them has the effect of one
before or after all of them, because it disables the port and `start_interrupt` looks again.

**UhciLayout** has the arithmetic of the UHCI driver; a token is its low 21 and its high 11 bits,
a port register the set of its bits. **UsbDescriptors** has the two parsers of USB configurations,
`usb_mouse_find_interface` and `boot_parse_usb_configuration`, as folds over descriptors; what is
wrong with the size of a descriptor is a field of it. `UsbHost` and `BootStorage` choose the
outcome of parsing (`mouse`, the kind of a device).

**Intel915** and **Panic.** `fw` is the state in which the firmware left the hardware, `hdr` the
shared header, `display` the registers of planes, cursors and VGA plane, `gpu` the engine, which
draws, draws a part (up to the first pixel, or past the middle one), completes late or stops for
good. That an engine whose ring is empty executes nothing is assumed of it: `draw_desktop`
relies on it where `MODE_IDLE` does not come. The ring-1 service is split at every
write to a display register (`program` lists them in order); the timer moves the cursor, and a
panic starts, between any two. A plane or cursor takes its control value when its base is
written, as the hardware does. A poll with `POLL_LIMIT` may give up whenever its condition does
not hold. `Panic` has the order of `kernel_main`, the copy of the VGA font, the restoration of
the text screen step by step, nested exceptions that start it again, and the walk over the stack.
VM86 programs, which have the ports and the memory of the VGA, may leave it in any state.
`vga.palette` is the DAC: which of the 16 text colours each entry holds; `mode3_attribute` says
which entry a colour selects. The
writes of `vga_restore_text_mode` are one step, since a repetition of all of them follows any
interruption. `Intel915Layout` has the arithmetic, with words of `WORD` values.

## What the runs show

| Run | Instance | Result |
| --- | --- | --- |
| `scheduler` | 3 table entries, 3 processes, 3 selectors | Table, count, index, task register and reap pointer agree (`IInv`); no bad switch; the running task is not freed; faulted processes are reaped, every task and the kernel task run |
| `scheduler_vm86` | 2 entries | **Violated**: a VM86 fault stops the machine |
| `processes` | 2 places, 3 objects, 4 descriptors, many pools | No leak or double free, exact bitmaps and process table, no inherited screen; implements `Scheduler` |
| `memory` | 9 frames of RAM, 1 reserved, 3 heap pages of 8 units, a search over 6 frames | Blocks tile the heap and `heap_validate` accepts it; growth suffices; every frame has one owner; implements `PageAllocator` |
| `keyboard` | 2 callers, ring of 3, three typists: 2 losses, 1 loss with two keys, both Control keys and Pause without loss | FIFO under exclusion, no stuck key without prefix, decoded keys are the keys held, a caller leaves the service under endless input |
| `keyboard_prefix` | a key with prefix, 1 loss | **Violated**: a key stays down |
| `mouse` | 2 mice; 2 callers with an event ring of 3, or the display with a cursor ring of 4 | Stable packets, no stuck button, no event of an old stream, every motion shown once and in order |
| `usb` | 2 ports, 2 devices, 1 fault, own line, masked at the first unclaimed interrupt | Toggles agree, the TD stays linked, reports come from the configured device, a mouse that stays is found |
| `usb_shared_line` | 1 device, shared line | **Violated**: the TD is unlinked after it was armed |
| `storage` | 2 ports (another disk before the boot disk, or no disk), 2 IDE drives of one channel or a damaged one, 2 plugs | The kernel is entered with the right images and DMA off; no buffer is reused under the controller; one device answers; toggles agree; reads are exact or fail; ports are handed over once and come back; every request returns |
| `storage_no_disk` | a mouse, no USB disk, one IDE drive | **Violated**: the mouse does not come back |
| `display` | 12 firmware states, 2 processes, overshooting motions, 1 nested exception, VM86 programs that load the DAC entries of the report | A panic ends on a text screen, takeover only after the GPU has finished and both test pixels are drawn, the engine is idle when its ring is replaced, DRAWN is true on every output, cursor and header agree, the stack walk reads mapped memory, the service returns |

`MCUsbHost` also has two assumptions that TLC evaluates at the start of the `usb` runs.
`MouseParserIsRight` and `StorageParserIsRight` compare the parsers with what they should find,
over all configurations of up to five items out of ten and eight kinds of descriptor: enough for
two interfaces with their endpoints and one descriptor out of place.

The four violated properties are what a comment or document of the repository says:

* `UserFaultIsContained`: `exception_terminate_current` reads the owner at `TSS+68h`; a VM86
  TSS keeps it elsewhere and has zeros there.
* `NoStuckKey`: when the byte E0 is lost, or consumed with the queue, the rest of the event
  is decoded as another key whose release never comes.
* `StreamIsArmed`: the poll stops the controller before it arms a TD again, since the queue
  head may not have been written; the handler, called for another device of the line, does not.
* `MouseComesBack`: when no USB disk is found, `find_usb_disk` hands the ports over, then sets
  `ehci` to NULL, and `storage_refresh_usb_companions` returns at once from then on. The next
  disconnection gives the port back to a controller nobody looks at. With a disk the ports do
  come back (`PortsComeBack`).

Two properties of `display` say less than one might expect, because the code does less:

* `PanicReturnsToText` does not say that the report can be read. `vga_restore_palette` rewrites
  the DAC entries 0 to 15 (`VgaTextMode.c:147`), while `mode3_attribute` lets colour 6 select
  entry 14h and colours 8 to 15 the entries 38h to 3Fh. The report is white on red (attribute 4Fh):
  its background comes back, but entry 3Fh keeps what a VM86 program has loaded, so the screen
  is not quite "equivalent to the legacy mode-3 state" (`VgaTextMode.c:160`). And a panic before the
  takeover leaves the display to the firmware, also one that had switched the VGA plane off.
* `TakeoverIsEarned` speaks of the two pixels that `draw_desktop` reads back, the first and one in
  the middle. A GPU that writes elsewhere after these is taken for one that has drawn
  everything; the comment asks for no more than "an actual GPU write" (`Intel915.c:351`).

`CursorMatches` does not depend on the lock: in `intel915_cursor_flush` the status alone keeps the
timer away from a service that is still programming the cursor.

**Bounds.** Tables are filled exactly, and in `processes` there is one object more than places,
so full and empty both occur. Rings are the smallest in which a reader, a waiting packet and an
overflow coexist. In `memory` the RAM has one frame less than a search and the heap can take
together, so that each can starve the other. `BLOCKS_PER_READ` is 2 and the first image has 3
blocks, so that transfers of one and of two packets occur; `READY_ATTEMPTS` and `CONFIGURATIONS`
of 2 give one retry. `MAX_DROPPED`, `MAX_REPORTS`, `MAX_CONNECTIONS`, `MAX_PLUGS`, `MAX_FAULTS`
and `MAX_NESTED` bound counters that only grow; two or three of each suffice for a loss during
the handling of a loss, and for a device replaced while the stream of the first ends; one nested
panic already starts from every step of another. `UNCLAIMED_LIMIT` stands for 32. `WORD` is 2^29
in the run, the largest TLC computes with, and any even number from there on in the proofs. Where
a bound lets a model come to a stop, or the machine may panic or hang, the run does not check for
deadlock; the others do.

**Fairness.** `Scheduler`: the timer is periodic and no task runs forever with interrupts
masked, so `int20_handler` is weakly fair. `Keyboard` and `Intel915`: a caller inside a service is
a scheduled task, weakly fair by the scheduler's `EveryTaskRuns`; the typist and the GPU are not
fair. `UsbHost`: the kernel task's steps are weakly fair by the same property; that a scan
follows a poll is strongly fair, since 100 ms elapse again and again. `Storage`: the program
that runs is weakly fair; the poll that refreshes the companions is strongly fair, since it comes
between the requests of others again and again. Interrupts, devices and DMA are not fair.

## What is proved

`SchedulerProofs`, for every table size, set of processes and set of selectors (assumptions:
the table has an entry, 0 and the kernel's selector are no dynamic selectors, the null pointer is
no process): `Invariant`, `TypeCorrect`, `TableSafe`, `SwitchesSafe`, `NothingLost`,
`CountExact`, and the action property `FreeSafe`.

The inductive invariant `IInv` is the conjunction of `TypeOK` and six invariants. None is
inductive alone. That a switch is safe needs every entry to be a live selector
(`EntriesAreRunnable`) and the index to agree with TR (`CurrentIsRunning`), so that the target
differs from the busy task. That entries stay live when the reaper frees a process needs the
faulted process to be out of the table and selectors to be unique (`PointersAreSound`). That the
reap pointer can be overwritten without loss needs the previous victim to be reaped first
(`NoProcessIsLost`). Lemmas state what each table operation returns; then there is one lemma
per action.

`MemoryProofs`, for every RAM range and reserved set, every size and number of heap pages (at
least one) and every length of the search: all properties of the run `memory`.

* `FramesExact`, `HintSafe` and `Refinement`: `Pmm` implements `PageAllocator`. The hint is what
  makes it need an invariant: a refusal is right only because no free frame lies below
  `pmm_next_page`. `MemoryRefinement` says the same of `Memory`, where the heap, the graphics
  driver and all others take frames.
* `HeapExact` (`HeapIsExact`). `Tiled` says of a list that its blocks follow each other from 0 to the
  end of the heap, `Apart` that no two free ones adjoin, and `Taken` is the set of used ones. Lemmas
  say what a split, the release of a block, a new page and `heap_coalesce` make of each. What
  `heap_coalesce` computes is proved along its walk: after i blocks the result covers what these
  blocks cover, with the same used ones, and no two free ones adjoin.
* `RetryOnce` (`RetrySucceeds`) needs to know of a growth under way that the pages it
  has added lie free at the end, and that with those still to come they hold the request.
* `FramesOwned` (`FramesAreAccounted`). It needs that the frames of the graphics driver's search
  are different ones and that `IInv` makes a frame given away a new one.

The inductive invariant `MInv` is the conjunction of the allocator's (`IInv`), `HeapInv` and
`FrameInv`.

`KernelLemmas` has what several proofs rest on: a nonempty set of naturals has a least element,
induction as a fact about sets of naturals, and the successor in a ring.

`StorageProofs`, for every number of ports, set of devices, drives and requests, and every limit:
all safety properties of the run `storage`.

* `TransferQuiesces` (`NoLiveReuse`) is inductive with where in a transfer the program can be.
* `OneAnswer` (`OneResponder`) needs that a port is enabled only while the port loop stands at it,
  or once a disk has been found, and that a scan begins with all ports disabled.
* `TogglesStayInStep` (`TogglesAgree`). `BulkInv` says what holds in the middle of a transfer: the
  disk is in step until its controller has completed the transfer, exactly the transferred packets
  ahead until the driver takes notice, and anywhere after an error. It rests on `OneResponder`, since a
  second device at the address would move its own toggles, and on the devices keeping state only
  while their port is enabled (`DiskInv`).
* `ReadsStayExact` (`ReadIsExact`), which tells IDE drives apart but not USB disks; which of those
  can answer is the matter of `OneAnswer`. `BufferInv` follows the buffer: what a completed transfer put
  there belongs to the command in progress, and only a status phase that answers this command, in
  step, makes it a result. `RequestInv` ties the command to the request.
* `KernelIsWhole` (`KernelStartsClean`). `LoadInv`: an image counts as loaded only after its
  checksum has been compared, and nothing changes it afterwards.
* `DiscoveryStaysSealed` (`DiscoveryIsSealed`), an action property. `SealInv`: after the handover no
  step leads back into the search.
* `AdmittedRangesAreRead`: the range check of the service and its repetitions in `usb_read` and
  `ata_read`, written differently, agree for every capacity, block and count.

`KeyboardProofs`, for every queue of at least two places, every set of callers and every typist
whose keys are keys of Set 1 (`KeyId`: the codes that are neither prefixes nor fake shifts, with
or without E0). `QueueStaysFifo` (`QueueIsFifo`) needs that the lock is exclusive. `DecodingStaysTrue`
(`DecodedIsTrue`) needs an invariant that looks ahead: the bytes queued and on the wire, decoded
from the present state on, end in the keys held; lemmas show this for every key event with its
prefixes, for repeats and for Pause. `NoKeySticks` (`NoStuckKey`) assumes that a typist whose
bytes get lost has no prefixed keys and no Pause; without the assumption it is false, as
`keyboard_prefix` shows. Its invariant: after a loss was observed, what is left to decode concerns
keys that are down, and a loss not yet observed will clear everything.

`MouseProofs`, for every ring of at least two places, every set of callers and up to 255 mice (the
controller number FFh marks a cancelled packet):
`PacketStaysStable` (`PacketIsStable`), `NoButtonSticks` (`NoStuckButton`) and the action property
`DeliveredStaysCurrent` (`DeliveredIsCurrent`). `MouseInv` says that queued packets of a connected
stream are of that stream, that the youngest of them has the buttons of the mouse unless a loss is
still to be observed, and that a caller who has read a packet either holds one of the present
stream or has been told of the disconnection. `DeliveredStaysCurrent` uses the assumption on new streams
stated above. `MotionIsShownOnce` (`CursorOwesExactly`) is inductive with the types of queue and
motions (`CursorInv`). Its proof is about `Of`, the filter by connected mice, on the contents of the
ring: lemmas say what it makes of a motion more, of a batch less, of packets whose number
was overwritten by `mouse_cursor_cancel`, and of a mouse that connects when no packet of it is left.

`DisplayProofs`, for every firmware state, set of processes, motions and mapped pages: all safety
properties of the run `display`.

* `PanicAlwaysReturns` (`PanicReturnsToText`). `DisplayInv` says that before stage 5 the display is as the
  firmware left it, and that the stage is set before the first register is written. `PanicInv` has
  for each step of a panic what has been restored by then; a nested exception goes back to the
  first step, of which nothing is required.
* `EngineIdle` (`EngineIsIdle`) and `TakeoverAlwaysEarned` (`TakeoverIsEarned`). `EngineInv`: whoever
  is past `draw` runs on a system whose set-up found no error, the ring is ours only after the engine
  was seen idle, and stage 5 is reached only when both pixels are drawn. `FinishInv`: from stage 4
  on the completion word is stored and the engine idle, and nothing starts it again. Below stage 5 the display is the
  firmware's, and the set-up has refused a firmware whose planes read the window.
* `DesktopShown` (`DesktopIsShown`) and `CursorMatchesHeader` (`CursorMatches`). `TakeInv`: the step
  of a takeover says which registers are in place (`Progress`); once DRAWN, plane, VGA and both
  cursors are as they should be, and every later batch of motions keeps them so. It speaks of a
  running kernel only, since a panic restores the display in the middle of a takeover. A lemma for
  each kind of write says what it changes; `ProgressStep` goes through the fifteen writes.
* `PanicReadsSafely` (`PanicReadsMapped`) rests on `FrameIsMapped`: a stack frame whose first and
  last bytes are mapped is mapped.
* `MoveAxisClamps`, `ProbeIsInside` and `SceneFits` settle the arithmetic for every signed motion
  and every supported mode: the cursor is clamped without overflow, the pixel read back lies in
  the framebuffer, the commands fit the ring. `MovedStays` carries the first over to a batch of any
  length: the position after n motions is a recursive function, which exists and stays on the
  screen by counting (`NaturalsByCounting` of `KernelLemmas`: a set of naturals with 0 and
  closed under successor has them all).

`UhciProofs`, for the two ports of a controller, every number of devices and faults and every limit
of unclaimed interrupts: `TogglesAlwaysAgree` (`TogglesAgree`), the action property `ReportsAreFromDevice`
(`ReportIsFromDevice`), and `StreamStaysArmed` (`StreamIsArmed`) for a line of its own; on a shared
line it is false, as `usb_shared_line` shows. `UsbInv` adds to the toggles that device numbers are
fresh, that a stream's device sits in an enabled port until its removal is noticed, and that no
probe runs beside a stream. `LinkIsSafe` adds that nothing calls the handler while the queue head is
being written.

`UhciProofs` also settles the encodings, for every argument: `TokenIsRead` (the fields of a token do not overlap),
`LengthIsExact` (also for zero bytes, which are stored as 7FFh), `RouteIsInside` (an accepted
interrupt is one of inputs 16 to 23), `PollIsRegular` (the interval, a power of two, divides the
1024 frames, so polls stay regular where the list starts again) and `ChangeIsKept`: a write to a
port register clears only the changes that were seen when it was read.

`SchedulerProofs` also settles the real address layout. `LoadableSlots`: exactly slots 76 and 77
cannot be loaded. The stack page of slot 76 is in the page table of PDE 192, which
`setup_paging` reserves for the supervisor. `process_slot_alloc` hands out the lowest free slot, so
with slots 0 to 75 taken every further process gets slot 76 and fails to load, while
`src/README.md:5` speaks of 100 processes. `UserBuffersAreData`: `storage_user_range` accepts, in
every slot, exactly the buffers inside the process's data segment.

Only model-checked:

* all liveness: fairness and ENABLED are beyond the prover;
* `NothingLeaks`, `TablesAreExact` and the other properties of `Processes`, and that it implements
  `Scheduler`.

## Not modelled

* Contents of descriptors, TSS fields and pages; the bits of page-table entries, the walk
  over the caller's page tables (its outcome is the request kind `bad_buffer`) and TLB
  invalidation.
* Azalia initialisation, PCI discovery and the programming of the I/O APIC: straight-line register
  access at boot, before anything runs beside it, with every failure a panic or a status word.
* The initialisation of the PS/2 controller. A key pressed while it runs is a case of its own,
  listed among the hazards; `Keyboard` begins with an initialised controller and no key pressed.
* The probing of USB mice at boot by `usb_mouse_initialize`; `UsbHost` begins without a mouse, and
  one plugged in later goes through the same `usb_mouse_probe_port`.
* The bytes of USB descriptors; `UsbDescriptors` begins with the fields.
* The driver gateway, system-call entry, boot sector and mode switches: register and stack
  shuffling without state of its own. The C runtime: byte loops.
* Formatting of panic reports, the dump of instruction bytes (which asks for the mapping of each
  byte before it reads it, `Panic.c:110`) and the picture of the cursor: output.
* More than one EHCI or UHCI controller. `find_usb_disk` tries one after the other with the same
  code; the drivers of UHCI controllers share the interrupt line, which `SharedLine` stands for.
* Counters that wrap at 2^32 after that many losses. The queue read by `usb_uhci_read_report` has
  no reader.
