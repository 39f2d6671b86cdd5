------------------------------- MODULE BootPaging ------------------------------
(****************************************************************************)
(* The boot page tables: setup_pml4_map (src/boot/paging.asm) fills one     *)
(* PML4, one PDPT and MEMORY_SIZE directories of large pages, by three      *)
(* calls of _create_tables, one entry per turn of its loop.                 *)
(*                                                                          *)
(* An address is counted in pages where it is stored in an entry, and in    *)
(* entries (of 8 bytes, TABLE_SIZE to a page) where an entry is stored.  A  *)
(* large page is as many pages as a table has entries.                      *)
(****************************************************************************)
EXTENDS Integers

CONSTANTS
    TABLE_SIZE,               \* entries of a table: 512
    MEMORY_SIZE,              \* GiB to map: 4
    IA32e_PAGING_BASE,        \* page of the PML4: 0x110
    HIGHER_MEMORY_STACK_TOP,  \* page the host's stack ends at: 0x120
    ADDRESS_SPACE,            \* pages a 32-bit register can address: 2^20
    Leftover                  \* what memory may hold in place of an entry

VARIABLES level,  \* the call of _create_tables under way, or "idle", "ret"
          regs,   \* its registers
          esi,    \* its temporary, which belongs to the caller
          saved,  \* what pusha saved of esi
          memory  \* [Slot -> entry], from the PML4 to the top of the stack

pagingVars == <<level, regs, esi, saved, memory>>

Slot == IA32e_PAGING_BASE * TABLE_SIZE .. HIGHER_MEMORY_STACK_TOP * TABLE_SIZE - 1

Flags == SUBSET {"PAGE_PRESENT", "PAGE_WRITE", "PAGE_SIZE"}
Entry == [address : Nat, flags : Flags]

\* The tables fit below the stack, the map in one PML4 entry and in what edi
\* can count: for 512 entries and 2^20 pages, a MEMORY_SIZE of 4 at most.
ASSUME SizeAssumption ==
    /\ TABLE_SIZE \in Nat \ {0}
    /\ MEMORY_SIZE \in 1 .. TABLE_SIZE
    /\ IA32e_PAGING_BASE \in Nat
    /\ ADDRESS_SPACE \in Nat
    /\ HIGHER_MEMORY_STACK_TOP \in Nat
    /\ IA32e_PAGING_BASE + 2 + MEMORY_SIZE <= HIGHER_MEMORY_STACK_TOP
    /\ HIGHER_MEMORY_STACK_TOP <= ADDRESS_SPACE
    /\ MEMORY_SIZE * TABLE_SIZE * TABLE_SIZE <= ADDRESS_SPACE
    /\ Leftover \subseteq Entry
-------------------------------------------------------------------------------
\* Mutants, used by no definition: plausible slips in those further down.
entries_of_small_pages ==
    [pml4 |-> 1, pdpt |-> MEMORY_SIZE, pd |-> 4 * MEMORY_SIZE * TABLE_SIZE]
stride_small == [pml4 |-> 1, pdpt |-> 1, pd |-> 1]

\* What setup_pml4_map passes for each kind of table: how many entries, how far
\* apart what they point to, the first of it, where they go, and their flags.
entries == [pml4 |-> 1, pdpt |-> MEMORY_SIZE, pd |-> MEMORY_SIZE * TABLE_SIZE]
stride == [pml4 |-> 1, pdpt |-> 1, pd |-> TABLE_SIZE]
target == [pml4 |-> IA32e_PAGING_BASE + 1, pdpt |-> IA32e_PAGING_BASE + 2, pd |-> 0]
base == [pml4 |-> IA32e_PAGING_BASE * TABLE_SIZE,
         pdpt |-> (IA32e_PAGING_BASE + 1) * TABLE_SIZE,
         pd |-> (IA32e_PAGING_BASE + 2) * TABLE_SIZE]
flags == [pml4 |-> {"PAGE_WRITE", "PAGE_PRESENT"},
          pdpt |-> {"PAGE_WRITE", "PAGE_PRESENT"},
          pd |-> {"PAGE_SIZE", "PAGE_WRITE", "PAGE_PRESENT"}]

Table == {"pml4", "pdpt", "pd"}
Following == [pml4 |-> "pdpt", pdpt |-> "pd", pd |-> "ret"]

\* A call: the arguments, then pusha.
_create_tables(table, pushed) ==
    /\ level' = table
    /\ regs' = [edi |-> target[table], ebx |-> base[table], ecx |-> entries[table]]
    /\ saved' = pushed
    /\ UNCHANGED memory

\* The caller has just popped its return address into esi.
setup_pml4_map == level = "idle" /\ _create_tables("pml4", esi')

\* One turn of the loop: the entry is put together in esi, edi wraps at 32 bits.
setup_entry ==
    /\ level \in Table
    /\ regs.ecx > 0
    /\ esi' = regs.edi
    /\ memory' = [memory EXCEPT ![regs.ebx] = [address |-> regs.edi, flags |-> flags[level]]]
    /\ regs' = [edi |-> (regs.edi + stride[level]) % ADDRESS_SPACE,
                ebx |-> regs.ebx + 1, ecx |-> regs.ecx - 1]
    /\ UNCHANGED <<level, saved>>

\* popa and ret; then the next call, or setup_pml4_map's own ret.
popa ==
    /\ level \in Table
    /\ regs.ecx = 0
    /\ esi' = saved
    /\ IF level = "pd"
         THEN level' = "ret" /\ UNCHANGED <<regs, saved, memory>>
         ELSE _create_tables(Following[level], saved)

PagingInit ==
    /\ level = "idle"
    /\ regs = [edi |-> 0, ebx |-> 0, ecx |-> 0]
    /\ esi = 0 /\ saved = 0
    /\ \E entry \in Leftover : memory = [slot \in Slot |-> entry]

\* esi belongs to the caller whenever the tables are not being written.
caller == UNCHANGED <<level, regs, saved, memory>>

PagingNext == setup_pml4_map \/ setup_entry \/ popa \/ caller

PagingSpec == PagingInit /\ [][PagingNext]_pagingVars
-------------------------------------------------------------------------------
PagingTypeOK ==
    /\ level \in Table \cup {"idle", "ret"}
    /\ regs \in [edi : Nat, ebx : Nat, ecx : Nat]
    /\ memory \in [Slot -> Entry]

LargePage == 0 .. MEMORY_SIZE * TABLE_SIZE - 1

\* The processor's walk for a large page: the entries it meets.
Walk(page) ==
    LET e1 == memory[IA32e_PAGING_BASE * TABLE_SIZE + (page \div (TABLE_SIZE * TABLE_SIZE))]
        e2 == memory[e1.address * TABLE_SIZE + ((page \div TABLE_SIZE) % TABLE_SIZE)]
        e3 == memory[e2.address * TABLE_SIZE + (page % TABLE_SIZE)]
    IN  <<e1, e2, e3>>

MappedToItself(page) ==
    /\ \A i \in 1 .. 2 : Walk(page)[i].flags = {"PAGE_PRESENT", "PAGE_WRITE"}
    /\ Walk(page)[3] = [address |-> page * TABLE_SIZE,
                        flags |-> {"PAGE_PRESENT", "PAGE_WRITE", "PAGE_SIZE"}]

\* The code turns paging on under its own feet, so the tables must map every
\* page of the memory to itself (src/boot/paging.asm:27), whatever was there
\* before.
IdentityMapped == level = "ret" => \A page \in LargePage : MappedToItself(page)

TableSlot ==
    IA32e_PAGING_BASE * TABLE_SIZE .. (IA32e_PAGING_BASE + 2 + MEMORY_SIZE) * TABLE_SIZE - 1

\* The loops write the tables and not what follows them: the stack of the host
\* ends a few pages above (src/boot/macros.asm:24).
OnlyTablesWritten == [][\A slot \in Slot \ TableSlot : memory'[slot] = memory[slot]]_pagingVars
================================================================================
