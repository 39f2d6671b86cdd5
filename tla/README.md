# Hyper-C in TLA+

Hyper-C is a native hypervisor: GRUB loads it, it enters long mode, turns the
processor's VMX root operation on, builds a VMCS, extended page tables and MSR
bitmaps, hooks the page of the guest's system call table (SSDT) and launches one
guest on one processor. Everything runs with interrupts off and nothing is
persisted: what is hard here is not threads but the hand-over between guest and
host at every exit, state that is set once and relied on for ever, and memory
and processors that are not as the code pictures them.

Paths below are relative to the repository's root (`vmm.c` is `src/vmm/vmm.c`).

## Inventory

| component | state | operations | talks to |
|---|---|---|---|
| MSR bitmaps (`msr_bitmaps.c`) | one page, four bitmaps | `monitor_rdmsr`, `monitor_wrmsr` | written by the hypercall, read by the processor at each RDMSR/WRMSR of the guest |
| Extended page tables (`ept.c`, `ept.h`) | four arrays of entries, the EPT pointer | `initialize_extended_page_tables`, `update_gpa_access_rights` | built by `configure_vmcs`, changed by `initialize_read_hook`, walked by the processor |
| VM-exit path (`wrappers.asm`, `vmexit.c`, `vmexit_handler` in `vmm.c`) | saved registers, guest rip/rsp in the VMCS | save, dispatch, six handlers, restore | the guest, the bitmaps, the SSDT |
| Host start-up (`initialize_host.c`, `vmm.c`, `vmx.h`) | control registers, VMX operation, the VMCS | `enter_vmx_root`, `configure_vmcs`, `initialize_ssdt`, `initialize_read_hook`, `launch_vm` | everything above; the processor may refuse each step |
| Guest system calls (`syscalls.c`, `syscall_handler.asm`, `kmain.c`, `hooks.c`) | two MSRs, the SSDT, two stacks, `sysenter_rsp` | `__syscall`, `__sysenter`, the handlers, `dispatch_handler`, `ssdt_hook`, two mallwares | reads of the SSDT exit to the host and are answered with the hook |
| Boot (`entrypoint.asm`, `gdt.asm`, `multiboot.asm`) | mode, GDT, stack | from GRUB's protected mode to long mode | calls `setup_pml4_map`, then `initialize_host` |
| Boot page tables (`paging.asm`, `macros.asm`) | a PML4, a PDPT, `MEMORY_SIZE` directories | `_create_tables`, three times | built before paging is on, walked by the processor for ever after |
| BIOS bridge (`real_mode.asm`, `switch_modes.asm`, `ata.asm`, `vga.asm`) | mode, IDTR, stack in low memory | long mode to real mode, a BIOS function, and back | C calls it with a function's address; its callers are commented out |
| Memory layout (`vmm.h`, `SSDT_ADDRESS`, stack tops) | four stacks | calls and returns, exits, SYSENTER | all |
| Printing (`print.c`, `log.c`, `utils.c`, `serial.c`) | frames on the running stack | formatting to the serial port | called everywhere, itself included, and takes most of any stack |

What makes them correct:

- **MSR bitmaps**: the bit computed for an MSR is the one the processor consults
  for it, and no other MSR's, whatever the page held.
- **Tables**: the walk translates each page to itself, write-back, and a change of
  rights shows on its page only.
- **Exit path**: the guest cannot tell an exit from the single instruction it
  stands for; every exit is answered; protection, once asked for, holds.
- **Start-up**: the guest only ever runs contained; it runs exactly where the processor
  and the memory of the VMCS allow it, and where an instruction faults, or a panic stops
  the host, is known.
- **System calls**: each is served once and comes back to its caller with its
  stack as it was.
- **Boot and BIOS bridge**: no change of mode faults; an interrupt only ever finds the
  table its mode uses; each return pops as many bytes as the call pushed, though the
  two are assembled for different modes; the function asked for runs, and C goes on
  with its stack.
- **Boot page tables**: paging is on only over a map of the memory to itself, and
  building it writes nothing else.
- **Stacks and printing**: no stack outgrows the room below it, whatever is logged
  where; an argument prints as the int of its low bits; logging inside logging ends.

The hard behaviours, each at its line, are listed under `hazards` in
`PROJECT.json` with the properties that cover them.

## Modules

| module | what it is |
|---|---|
| `MsrMonitor` | promise of the bitmaps: two sets of monitored MSRs |
| `MsrBitmaps` | the page as the set of its 1 bits; `ReadBit`/`WriteBit` are the index computations, `RdmsrExits`/`WrmsrExits` the processor's reading |
| `GuestMemory` | promise of the tables: a view of each page |
| `ExtendedPageTables` | the four arrays, entry by entry; `Path`, `Outcome` and `Translate` are the processor's walk |
| `VirtualMachine` | the machine promised to the guest: each instruction is one step |
| `VmExit` | guest, wrapper, dispatch and handlers; uses `MsrBitmaps` for its bits |
| `Syscalls` | the guest's calls over a stack that is memory; a read of the SSDT is what `VirtualMachine!HookedAccess` answers |
| `HostStartup` | from `initialize_host` to the launch |
| `BootPaging` | the loops of `_create_tables`, entry by entry; `Translation` is the processor's walk |
| `ModeSwitch` | extends `BootPaging`: from GRUB to C, and to the BIOS and back |
| `Printing` | `log_log`, `sprintf`, `vsprintf`, `sprint_integer` as calls on a stack |
| `Stacks` | extends `Printing`: every function from `initialize_host` to `exit()`, on four stacks |
| `MC*` | small instances |
| `*Proofs` | theorems and their proofs |

Correspondence of state and actions:

- `MsrBitmaps`: `msr_bitmaps` is the page of `cpu_data`, `panicked` a `PANIC`.
  One action per function.
- `ExtendedPageTables`: `pml4`, `pdpt`, `pds`, `pts` are the members of
  `extended_paging_tables_t`; an entry keeps the flags the processor looks at,
  the frame number, and one field for the bits that neither setter writes.
  Initialisation is one action, as the guest does not exist yet.
- `VmExit`: `mode` is where the processor is. `save`, `vmexit_handler` and
  `restore` are the wrapper before its call, the call, and the wrapper after it;
  `area` is `guest_cpu_state.registers`, addressed by *offset*: the wrapper's
  offsets are `fs`, the C structure's are `registers_t`, and nothing assumes that
  the two agree. The C code may leave anything in the registers that its calling
  convention lets it change. The instructions of the guest are actions that either
  complete or leave for the host as the controls and bitmaps say.
- `Syscalls`: `pc` is a label of the program, `mem` the slots of `kernel_stack` and
  of the guest's first stack, with return addresses as values. A C function's
  frame is `Locals[f]` slots. An action is the code between two transfers of
  control.
- `HostStartup`: `at` is the next step of `initialize_host` and of what it calls; one action per
  instruction the processor may refuse. Registers and controls are sets of bits.
  WRMSR, RDMSR, VMXON, VMCLEAR, VMPTRLD and VMLAUNCH fault, fail or succeed by the manual's
  conditions over the fields that are modelled; a fault is an end of its own for each, as there is no
  IDT. VMLAUNCH tests the controls and the host's state (`EntryAllowed`, else it returns and the host panics)
  and then the guest's (`GuestAllowed`, else it is an exit, for which `vmexit_handler` has no case).
  Fields start as the memory left them: `Leftover` says which ones with a value VM entry
  refuses. The code writes some (`WrittenField`) and never the others that VM entry tests: five counts
  and controls (`EntryField`; `docs/notes.txt:48` meets them as "invalid guest state"), the pending debug
  exceptions, and the limit of the GDT, whose write at `vmm.c:239` goes to the IDT's field (`GuestField`).
- `BootPaging`: registers `edi`, `ebx`, `ecx` and the memory at the tables; one action
  per call of `_create_tables` and one per turn of its loop. Memory is counted in pages and
  `edi` wraps at `ADDRESS_SPACE`, as a 32-bit register does.
- `ModeSwitch`: `mode`, `cs`, `rsp`, `cr0`, `cr4`, LME, the GDT and IDT in force,
  the interrupt flag and memory byte by byte where stacks lie; an action is the code between two
  instructions that can fault or transfer control. `Push`, `Pop`, `Call` and `Return` have the
  width of the running mode, so that a return assembled for another width pops what it pops.
- `Printing`: `calls` are the active functions, `next` where each has got to, `low` the bytes
  of stack in use under it. A format is the sequence of its conversions. An argument is any
  number; `va_arg` takes the int of its low bits, as the program passes addresses and registers of 64 bits
  where an int is read. `sprint_integer` computes the digits as the loop does (`value[i]` is what is left after `i` turns), so the text of a
  number is there to compare. `Advanced` is a call one step on, `TwoTo` the powers of two.
- `Stacks`: `Body` gives for each function the sequence of its calls, exits and logs, each a set of
  alternatives; a step named by a `Handler` is an instruction that exits to it; a block of
  `dispatch_handler` after a condition (`read_entry`, `call_entry`) is a function of no frame; an exit puts the running stack in `below` and starts at `STACK_TOP`, `vmresume`
  takes it back, SYSENTER starts `kernel_stack` and the handler's `ret()` keeps it. `Frame`
  and `Leaf` are constants: bytes of a call, and of the deepest call that is not in `Body`.

Refinement alone hides the arguments of an operation: a bit set for the wrong MSR is a
monitoring of *some* MSR. So `MonitorsExactlyTheMsr` and `TranslatesAsPromised` also
say that each operation is the abstract one for the same argument.

Definitions called *mutants* are slips of the kind one could make in the code.
No definition uses them; putting one in place of the definition it imitates must
break a property, which shows that the property says something of the code.

## Runs

Passing:

| run | checks | bounds, and why they are enough | states |
|---|---|---|---|
| `msr_bitmaps` | `MonitorsExactlyTheMsr` (refines `MsrMonitor`) | bitmaps of 2 bytes; 8 MSRs: both ends of both ranges, byte boundaries, one outside each range; a page clean or dirty. Indices only depend on quotient and remainder by 8, so two bytes a bitmap suffice | 10,240 |
| `extended_page_tables` | `TranslatesAsPromised` (refines `GuestMemory`) | 2 entries a table, 2 directories, so each level has more than one table or entry; four rights, an address in each of three tables and one that is not a page's; memory clean or used | 258 |
| `vm_exit` | `InstructionsAreAtomic`, `InstructionsComplete` (refine `VirtualMachine`), `VmcallProtects` | one instruction of each kind and every order of them; three MSRs (a low, a high, one without bit); three pages (hooked, malformed, absent); register values all distinct, so that any mix-up shows | 185,468 |
| `syscalls` | `Served`, `StackKept`, `SysenterReturns`, `CallsReturn` | table of 3, an assigned and an out-of-bounds number, one SYSENTER (as `kmain`), mallwares at any time, frames of different sizes; deadlock is looked for | 1,429 |
| `host_startup` | `GuestIsContained`, `EndsAsSupported`, `LaunchesIfSupported` | processors with each feature control value, with SMX and without, with and without TRUE MSRs that free a bit, each needed feature missing, and reserved bits set in CR0/CR4; memory of the VMCS that leaves nothing VM entry refuses, one such field, or such a value in all | 4,058 |
| `mode_switch` | `NeverFaults`, `InterruptsFindTheIvt`, `CallerResumes`, `RunsTheFunctionAsked`, `IdentityMapped`, `OnlyTablesWritten`, `HostGoesOn` | tables of 8 entries (each level's size and stride differ) for 4 "GiB", 256 pages that just fill `edi`; code and stacks at addresses of the real sizes, so that 16 bits reach what they reach; two leftovers of memory; calls of each BIOS function, any number of times, with the BIOS turning interrupts on or not | 210 |
| `stacks` | `PrintsTheNumber`, `StaysInRoom`, `Finishes` | frames as gcc lays them out under the makefile's flags; every message may have any of 12 formats (the shapes the program uses and one for every conversion it does not); 16-bit ints; arguments 0, the two ends, one to five digits, and two past the ends; either mallware, any exit of `init_syscalls`, any panic, a refused or NULL system call | 77,096 |

The deepest the guest gets in `stacks` is 3864 of its 3960 bytes, when a message with a `%c`, which the
program has none of, is logged by `print_a_crab` under the mallware.

Every module's `TypeOK` is checked too. `syscalls`, `mode_switch` and `stacks` look for deadlock. In `msr_bitmaps`, `extended_page_tables`,
`vm_exit` and `host_startup` deadlock is not looked for: a `PANIC`, a fault, or
the end of start-up stops the system.

Violations, each a disagreement between the code and what it says of itself:

| run | property | what the code says | what it does |
|---|---|---|---|
| `ept_leftover` | `MustBeZeroIsZero` | `ept.h:27` "must be zero" | no setter writes these bits and nothing zeroes the memory |
| `syscalls_unassigned` | `UnassignedIsReported` | `syscalls.c:44` "doesn't have a handler" | under the hook no entry reads as NULL, and NULL is called |
| `syscalls_table_end` | `OutOfBoundsIsRefused` | `syscalls.c:42` "out of bounds" | number 512 calls the pointer that follows the table |
| `syscalls_two_sysenters` | `SysenterReturns` | `syscalls.c:11` "we need to save rsp" | the second SYSENTER overwrites its return address, since the first left the guest on `kernel_stack` |
| `host_startup_inside_smx` | `VmxonNeverFaults` | `vmm.c:95`, `:99` | support inside SMX only is taken for support; VMXON faults outside it |

The passing run of `syscalls` uses one SYSENTER and numbers other than 512 and
of unassigned entries: the violations are these cases. With them the passing properties say where the
code does work. `host_startup` leaves no case out: the processor that allows VMXON inside SMX only is in it, and
`EndsAsSupported` says that it faults there, as it does where the code sets the bit for SMX operation on a
processor without SMX (`vmm.c:102`) and where it reads about secondary controls that do not exist (`vmm.c:142`).
No text of the repository says that these two are supported, so they are hazards and not findings. `stacks` has no format with a `%d` after a `%u`: `is_unsigned` stays set
(`print.c:119`) and would print a negative number as unsigned. `SignsAssumption` says so of the
formats, and the proof needs it. One more slip is a hazard
without a run: the assertion of `vmm.c:134` expands to a test that is always 0; nothing that runs relies on it.

## Fairness

One processor runs one thread of control; nothing can take it away. So `VmExit`
and `HostStartup` have weak fairness of `Next`: the next instruction is executed.
In `Syscalls` the exception is `kmain`, which need not call anything more, hence
`WF_vars(Next /\ pc # "kmain")`; a call that was made runs on. In `ModeSwitch` it is C, which need
not call the BIOS, so the switches alone are fair; the BIOS is assumed to return, as the
code does. `Stacks` has weak fairness of `Next` again.

## Proofs

All proofs are checked by TLAPS for every value of the constants.

- `MsrBitmapsProofs`: `TypeCorrect` and `Refinement`. The argument: `ReadBit` and
  `WriteBit` are the bits consulted (`ReadBitIsConsulted`,
  `WriteBitIsConsulted`), distinct for distinct MSRs and kinds of access
  (`BitsAreDistinct`), so one more bit is one more monitored MSR, the one passed. Assumption: the
  high range is above the low one and starts at a multiple of 8.
- `ExtendedPageTablesProofs`: `TypeCorrect` and `Refinement`. `TypeOK`
  is not inductive enough: the invariant `IInv` adds that the unwritten fields are
  zero and, once the pointer is set, that each upper entry leads to its table and
  leaf `i` to page `i` (`Shape`). `Indices` (four quotients and remainders are a
  page number) and `WalkEndsAtLeaf` turn the shape into the walk's outcome;
  `UpdateRefines` ties an update to the page it names.
  Assumption: `CleanReserved`, zeros in the fields no setter writes; run
  `ept_leftover` shows that it is needed, and nothing in the code provides it.
- `VmExitProofs`: `TypeCorrect`, `Protection` (`VmcallProtects`) and `Refinement`
  (`InstructionsAreAtomic`). The proof needs that the wrapper's and the
  structure's offsets agree and are distinct (`SameOffsets`, `OffsetsDistinct`),
  and the invariant `ExitInv`: in the host, the area holds the guest's registers,
  and the reason, the length and the address in the VMCS are those of the instruction the
  guest was at. It uses the lemmas of `MsrBitmapsProofs` through an instance.
  `Refinement` assumes `EptLength = {}`: the length the processor reports after an EPT
  exit is the true one. The manual leaves that field undefined there, so this is
  an assumption on the processor the code makes, not one it is given.
- `HostStartupProofs`: `TypeCorrect`, `Contained` (with `StartInv`, what is written by each
  step), and `OutcomeDecided` (`EndsAsSupported`), for every processor and every `Leftover`, with no further
  condition. Its invariant adds to `StartInv` where VMX operation has been entered (`Rooted`), what each field of
  the VMCS holds by then (`Filled`: the required bits of every control, the fixed bits of the control registers, and
  in the fields nobody writes what the memory held, `NobodyWrites`), and what each step passed says of the processor
  (`Decided`). `EntryDecides` is the last step: with these fields VM entry succeeds exactly if the features are there and
  no leftover is refused. Assumption: `ProcessorAssumption`, what the manual says of the MSRs.
- `BootPagingProofs`: `PagingInvariance`, `Identity` (`IdentityMapped`) and `StaysInTables`
  (`OnlyTablesWritten`), for every size of table and memory. `IInv` is the invariant of the three loops: what
  `edi`, `ebx` and `ecx` are after `n` turns, and that the entries so far are the ones meant. `Products`,
  `Layout` and `TargetsFit` are its arithmetic (no target wraps, each table lies behind the one before and
  under the stack), `PageIndices` and `WalkIsIdentity` make the walk of complete tables
  the identity. Assumption: `SizeAssumption`, which bounds the memory by what `edi` can count;
  the 512 GiB that `macros.asm:11` allows do not meet it.
- `SyscallsProofs`: `TypeCorrect`, `StackGivenBack` (`StackKept`) and `OneSysenterReturns`
  (`SysenterReturns`), for every table and frames of any size. None is inductive: what a `ret`
  takes is a slot pushed many steps before. `IInv` says which call is under way
  (`Request`), where `rsp` is at each label (`Position`, one of three values in `kmain`,
  `Bases`), which return address each frame on the way holds (`Addresses`), and that no slot of the
  caller has changed (`Kept`). `Tops` is its arithmetic: the frames lie above one another, so a
  write below `rsp` (`CallKeeps`, `ReturnKeeps`) leaves what is above alone. Assumption `Fits`: the stacks hold
  a call's frames; one SYSENTER at most; numbers are the assigned one or beyond the table.
  `syscalls_two_sysenters`, `syscalls_unassigned` and `syscalls_table_end` show that the last two
  are needed; the code ensures them only by what `kmain` calls. `CallsAreServed` (`Served`) adds
  `Logged`, what a call has reported at each label: nothing before the dispatch but a mallware at
  SYSENTER (`Before`), the whole `Answer` after it, so that the mallware's report comes at the end it does.
- `ModeSwitchProofs`: `TypeCorrect`, `NoFault` (`NeverFaults`), `InterruptsHandled`
  (`InterruptsFindTheIvt`), `Resumes` (`CallerResumes`) and `RunsIt` (`RunsTheFunctionAsked`), for every
  layout of code and stacks. None is inductive: whether a `ret` goes wrong depends on what was pushed two modes earlier.
  `SwitchInv` says which mode, code and data segments each label is reached in (`Mode`, by
  `Intended` and `Data`), that paging is on only over complete tables (`IInv` of `BootPagingProofs`),
  which return address lies on the low stack at each label, and in how many bytes (`LowStack`, by
  `Back` and `Width`), where C's frame is and that the copied code's stack does not reach it
  (`Frames`), and which register holds the function asked for (`Carried`). `Bytes`, `PushWrites` and `PopReads` are the
  arithmetic of addresses cut into bytes. Assumptions: `AddressAssumption` (distinct labels, the image
  from the linker script's 1 MiB up and below 16 MiB, the copied code below 64 KiB) and
  `StackAssumption` (32 bytes of each stack do not overlap another, the low one in reach of 16 bits).
- `StacksProofs`: `TypeCorrect`, `RoomIsEnough` (`StaysInRoom`) and `NumbersArePrinted`
  (`PrintsTheNumber`), for any formats, arguments and frames. `IInv` types every active call on every
  stack (`CallsOK`) and says what is left below: nothing but kmain, by one SYSENTER that has not come back
  (`Settled`, `Waiting`), and one stack more during an exit; so each `vmresume` and each `ret()` finds
  what it goes back to.
  - *Room*: `StaysInRoom` looks at the innermost function alone, and is not inductive, as a return shows the one
    below. `RoomInv` says that every active function, on any stack, has room for all it
    may still need (`Need`), which for a message depends on whether `vsprintf` will log about it (`Loud`). The hypothesis
    `DepthsFit` is a certificate: a depth for each function that covers what it calls, and rooms that
    cover what starts on them. TLC evaluates it for gcc's frames (`DepthsAssumption`). With it the theorem
    covers formats of any length, where the run has those of at most three conversions.
  - *Numbers*: that the loop's digits are the number's is induction over the turns. The
    library's induction theorems take a predicate, which no backend here instantiates, so `SetInduction` and
    `Recursion` say the same of a set; `Recursion` is that a function defined by recursion exists.
    `Loop` says what is left after `i` turns and that all of the int is used up by `WIDTH` of
    them; `Reading` what reading digits back computes; `Digits` that the digits `get_number_start` keeps
    read as the number and start with one other than 0; `TextReads` puts 0, the least int and the signs together, and `VaArg` is that narrowing an argument
    of any width keeps its low bits. The invariant
    needed is `Numbers`: `is_unsigned` is set exactly when the conversion under way is unsigned,
    which holds if no format has a signed conversion after an unsigned one (`SignsKept`).
    `SignsAssumption` evaluates this for all the formats the run uses; without it `print.c:119` makes the property
    false. Assumption: `number_buffer` has a place for each bit.

Every safety property the passing runs check is thus also proved. Only model-checked: liveness
(`InstructionsComplete`, `CallsReturn`, `LaunchesIfSupported`, `HostGoesOn`, `Finishes`), as
temporal reasoning under fairness and ENABLED are out of the prover's reach.

## Not modelled, and why

- Segment, debug and RFLAGS fields of the VMCS: copies of what the processor holds. And of the fields the code
  never writes, what a leftover does that VM entry accepts: an event it injects, MSRs it loads, an
  exception bitmap, masks of CR0 and CR4, a TSC offset. A guest that `EndsAsSupported` speaks of has been launched; that
  it then runs as `VmExit` has it needs such leftovers to be zero, which nothing in the code provides.
- A processor without VMX: the first read of its MSRs at `vmm.c:88` faults.
- A format that ends in a lone `%`, whose terminator `vsprintf` steps over (`print.c:76`): a format here is the
  sequence of its conversions, so `Finishes` and `RoomIsEnough` say nothing of one. The program has none.
- GRUB's stack, were it where the page tables are built: stacks and tables are memories of their own.
- A failing `vmresume`: see the plan.
- Characters, the lengths of strings and the serial port: no decision depends on them. What
  a `%s` too long for its buffer overwrites is therefore not modelled.
- In `Stacks` the bytes of `__vmexit_wrapper` (it pushes one return address, counted in the
  handler's frame) and of the assembly before `initialize_host` (other stacks, in `ModeSwitch`).
- Stores to the SSDT: the hook answers any access to the page, so a store is lost and changes
  rax, rdi and rsi; `VirtualMachine!HookedAccess` promises the guest just that, so no property would tell it
  from a hook that keeps stores.
- Bits that memory left in the MSR bitmaps: every property of them holds whatever the page held. A stale bit
  makes an MSR exit that nobody asked for, and `rdmsr_handler` and `wrmsr_handler` skip the access.
- TLB and INVEPT: the tables do not change once the guest runs.
- Other processors, interrupts, SMM: the host starts none and enables none.
- Of the bridge: the upper halves of addresses below 4 GiB, non-maskable interrupts, and what BIOS
  functions read and write (the disk address packet, the screen). `initialize_bios`
  and `load_mbr` are commented out in `initialize_host`; the model calls the bridge as they do.
- The Multiboot header, and hardware constants that no model compares: data.

## Plan

1. Done: the five core components and the first theorems, in the order bitmaps, tables,
   exit path, system calls, start-up.
2. Done: `SyscallsProofs`.
3. `Hypervisor`: start-up, tables, bitmaps and exit path in one module, each by
   INSTANCE, so that the pages the exit path finds malformed are the ones the tables
   make so; with the failing `vmresume` and its fall-through into `__vmcall`. Its
   abstract specification: a `VirtualMachine` that starts when the host has started.
4. Done: `BootPaging`, `ModeSwitch`, `Printing` and `Stacks`, with their proofs, and `Served` of `Syscalls`.
5. The segment, debug and RFLAGS fields of the VMCS and the checks VM entry makes of them.
