---------------------------- MODULE AddressSpace ----------------------------
(***************************************************************************)
(* The layout of a process's address space, in 4 KiB pages: where a slot's *)
(* code and stack, the user heap and the system-call gateway lie, and which*)
(* of those pages map_user_page can enter in a process directory.          *)
(***************************************************************************)
EXTENDS Integers

PAGES_PER_TABLE           == 1024
USER_SPACE_LIMIT          == 524288      \* 80000000h
USER_HEAP_BASE            == 1024        \* 00400000h
USER_SYSCALL_GATEWAY_PAGE == 524287      \* 7FFFF000h

PROCESS_AREA_BASE == 256                 \* 1 MiB
PROCESS_SLOT_SIZE == 2560                \* 10 MiB
USER_DATA_OFFSET  == 1024                \* 4 MiB
USER_DATA_SIZE    == 1280                \* 5 MiB
USER_STACK_OFFSET == 2304                \* 9 MiB
USER_STACK_SIZE   == 256                 \* 1 MiB

\* The page-directory entry that covers a page.
pde(page) == page \div PAGES_PER_TABLE

\* Entries of the kernel directory below USER_SPACE_LIMIT that
\* create_page_directory copies: the 4 MiB bootstrap page at 30000000h and
\* the kernel bookkeeping at 30400000h, and the driver windows at 70000000h
\* and 71000000h.  Entry 0, the low identity mapping, is left out.
SupervisorPDE == {192, 193, 448, 452}

PROCESS_MAX_COUNT == 100
Slot == 0 .. PROCESS_MAX_COUNT - 1

slot_base(slot) == PROCESS_AREA_BASE + slot * PROCESS_SLOT_SIZE

\* The page of the TSS entry point, and the page below the initial ESP.
code_page(slot)  == slot_base(slot)
stack_page(slot) == slot_base(slot) + USER_STACK_OFFSET + USER_STACK_SIZE - 1

\* The pages of a slot's data segment.
data_pages(slot) ==
    slot_base(slot) + USER_DATA_OFFSET .. slot_base(slot) + USER_DATA_OFFSET + USER_DATA_SIZE - 1

\* The storage service turns an offset in the data segment of the slot at some
\* byte address into an address, or into 0.
MiB == 1024 * 1024

storage_user_range(base, offset, size) ==
    IF \/ base < MiB \/ base > 1024 * MiB - 10 * MiB
       \/ size = 0 \/ offset >= 5 * MiB \/ size > 5 * MiB - offset
    THEN 0 ELSE base + 4 * MiB + offset

\* The checks of map_user_page that do not depend on the memory left.
user_mappable(page) == page < USER_SPACE_LIMIT /\ pde(page) \notin SupervisorPDE

\* process_prepare_test_task enters the pages of the entry point and of the
\* stack.
can_prepare(slot) == user_mappable(code_page(slot)) /\ user_mappable(stack_page(slot))

=============================================================================
