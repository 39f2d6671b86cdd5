--------------------------------- MODULE Syscalls ------------------------------
(****************************************************************************)
(* System calls of the guest: kmain calls __syscall and __sysenter, the     *)
(* processor jumps where the MSRs say, and the handlers find the call's     *)
(* function in the SSDT (src/guest/syscalls.c, syscall_handler.asm,         *)
(* kmain.c).  The host has hooked the SSDT page, so each read of an entry   *)
(* gives ssdt_hook instead (VirtualMachine!HookedAccess).                   *)
(*                                                                          *)
(* The stack is memory here, a slot per quadword, and return addresses are  *)
(* what it holds: whether a call comes back is what has to be checked.      *)
(****************************************************************************)
EXTENDS Integers, Sequences

CONSTANTS
    SSDT_SIZE,     \* entries of the table, 512 in the code
    Assigned,      \* the number set_syscall_handler is called for, 42
    InitialSsdt,   \* contents of the table's memory, which nothing clears
    Number,        \* numbers kmain calls
    MaxSysenter,   \* how many times it uses __sysenter
    Locals,        \* [C function -> slots of its frame: saved rbp, variables]
    KernelSlots,   \* slots of kernel_stack
    GuestSlots     \* slots of the stack kmain starts on

NULL == "NULL"
CFunction == {"syscall_mallware", "sysenter_mallware", "sysenter_handler",
              "dispatch_handler", "ssdt_hook", "print_a_crab"}

\* Addresses of the program.  "f:call" is the return address of f's call.
Code == CFunction \cup
        {"initialize_ssdt", "init_syscalls", "kmain", "exit", "syscall:ret", "syscall_handler",
         "syscall_handler:call", "sysenter_handler:call", "dispatch_handler:call",
         "ssdt_hook:call", "syscall_mallware:call", "sysenter_mallware:call"}

\* Addresses the table may hold: the member after it, cpu_data, included.
Pointer == CFunction \cup {NULL, "cpu_data", "leftover"}

\* kernel_stack is slots 0 .. KernelSlots - 1; the guest's first stack follows.
Slot == 0 .. KernelSlots + GuestSlots - 1
Top == KernelSlots + GuestSlots

ASSUME SyscallsAssumption ==
    /\ SSDT_SIZE \in Nat \ {0}
    /\ Assigned \in 0 .. SSDT_SIZE - 1
    /\ InitialSsdt \subseteq [0 .. SSDT_SIZE -> Pointer]
    /\ Number \subseteq Nat
    /\ MaxSysenter \in Nat
    /\ Locals \in [CFunction -> Nat]
    /\ KernelSlots \in Nat \ {0}
    /\ GuestSlots \in Nat \ {0}

VARIABLES pc, rsp, mem,    \* where the processor is, its stack pointer, the slots
          number, rsi, rcx,\* the argument in edi; rsi; rcx
          sysenter_rsp,    \* the variable __sysenter saves rsp in
          lstar, eip,      \* MSR_IA32_LSTAR and MSR_IA32_SYSENTER_EIP
          ssdt,            \* the table, with the quadword that follows it
          sysenters,       \* calls of __sysenter so far
          request,         \* the last call: entry, number, and the stack before it
          log              \* what ran since then

vars == <<pc, rsp, mem, number, rsi, rcx, sysenter_rsp, lstar, eip, ssdt, sysenters,
          request, log>>

registers == <<number, rsi, rcx, sysenter_rsp>>
msrs == <<lstar, eip>>
-------------------------------------------------------------------------------
\* The stack with n slots of a frame pushed.
Framed(n) == [slot \in Slot |-> IF slot \in rsp - n .. rsp - 1 THEN "local" ELSE mem[slot]]

\* The C function f enters and, at its call, leaves for another; the return
\* address is back.
Call(f, target, back) ==
    /\ mem' = [Framed(Locals[f]) EXCEPT ![rsp - Locals[f] - 1] = back]
    /\ rsp' = rsp - Locals[f] - 1
    /\ pc' = target

\* f enters and returns without a call of interest.
Return(f) ==
    /\ mem' = Framed(Locals[f])
    /\ pc' = mem[rsp]
    /\ rsp' = rsp + 1

\* f returns, after its call.
Leave(f) ==
    /\ pc' = mem[rsp + Locals[f]]
    /\ rsp' = rsp + Locals[f] + 1
    /\ UNCHANGED mem

Log(event) == log' = Append(log, event)

\* What the guest reads at entries[n]: past the hooked page, what is there.
Read(n) == IF n < SSDT_SIZE THEN "ssdt_hook" ELSE ssdt[n]

\* Mutants, used by no definition: plausible slips in those further down.
syscall_handler_pops_swapped ==
    /\ pc = "syscall_handler:call"
    /\ pc' = mem[rsp]
    /\ rsp' = rsp + 2
    /\ UNCHANGED <<mem, registers, msrs, ssdt, sysenters, request, log>>
syscall_ret_keeps ==
    /\ pc = "syscall:ret"
    /\ pc' = mem[rsp]
    /\ UNCHANGED <<rsp, mem, registers, msrs, ssdt, sysenters, request, log>>
ssdt_hook_only_logs ==
    /\ pc = "ssdt_hook"
    /\ Return("ssdt_hook")
    /\ Log("ssdt_hook")
    /\ UNCHANGED <<registers, msrs, ssdt, sysenters, request>>
sysenter_mallware_reissues ==
    /\ pc = "sysenter_mallware"
    /\ mem' = [Framed(Locals["sysenter_mallware"]) EXCEPT ![rsp - Locals["sysenter_mallware"] - 1]
                  = "sysenter_mallware:call"]
    /\ sysenter_rsp' = rsp - Locals["sysenter_mallware"] - 1
    /\ rsp' = KernelSlots
    /\ pc' = eip
    /\ log' = <<"mallware">>
    /\ UNCHANGED <<number, rsi, rcx, msrs, ssdt, sysenters, request>>
sysenter_pushes_first(n) ==
    /\ pc = "kmain" /\ sysenters < MaxSysenter
    /\ mem' = [mem EXCEPT ![rsp - 1] = "kmain", ![rsp - 2] = "local"]
    /\ sysenter_rsp' = rsp - 2
    /\ rsp' = KernelSlots
    /\ pc' = eip
    /\ number' = n
    /\ sysenters' = sysenters + 1
    /\ request' = [entry |-> "sysenter", number |-> n, rsp |-> rsp, mem |-> mem]
    /\ log' = <<>>
    /\ UNCHANGED <<rsi, rcx, msrs, ssdt>>
-------------------------------------------------------------------------------
Init ==
    /\ pc = "initialize_ssdt"
    /\ rsp = Top
    /\ mem = [slot \in Slot |-> "local"]
    /\ number = 0 /\ rsi = NULL /\ rcx = NULL /\ sysenter_rsp = 0
    /\ lstar = NULL /\ eip = NULL
    /\ ssdt \in InitialSsdt
    /\ sysenters = 0
    /\ request = [entry |-> "none", number |-> 0, rsp |-> Top, mem |-> mem]
    /\ log = <<>>

set_syscall_handler(n, handler) ==
    ssdt' = IF n > SSDT_SIZE THEN ssdt ELSE [ssdt EXCEPT ![n] = handler]

\* Run by the host, before it hooks the page and launches kmain.
initialize_ssdt ==
    /\ pc = "initialize_ssdt"
    /\ set_syscall_handler(Assigned, "print_a_crab")
    /\ pc' = "init_syscalls"
    /\ UNCHANGED <<rsp, mem, registers, msrs, sysenters, request, log>>

init_syscalls ==
    /\ pc = "init_syscalls"
    /\ eip' = "sysenter_handler"
    /\ lstar' = "syscall_handler"
    /\ pc' = "kmain"
    /\ UNCHANGED <<rsp, mem, registers, ssdt, sysenters, request, log>>

\* Two lines kmain has commented out; it calls them before or between calls.
inject_mallwares ==
    /\ pc = "kmain"
    /\ eip' = "sysenter_mallware"
    /\ lstar' = "syscall_mallware"
    /\ UNCHANGED <<pc, rsp, mem, registers, ssdt, sysenters, request, log>>

\* kmain calls __syscall, whose syscall keeps the next address in rcx.
syscall(n) ==
    /\ pc = "kmain"
    /\ mem' = [mem EXCEPT ![rsp - 1] = "kmain"]
    /\ rsp' = rsp - 1
    /\ rcx' = "syscall:ret"
    /\ pc' = lstar
    /\ number' = n
    /\ request' = [entry |-> "syscall", number |-> n, rsp |-> rsp, mem |-> mem]
    /\ log' = <<>>
    /\ UNCHANGED <<rsi, sysenter_rsp, msrs, ssdt, sysenters>>

syscall_ret ==
    /\ pc = "syscall:ret"
    /\ pc' = mem[rsp]
    /\ rsp' = rsp + 1
    /\ UNCHANGED <<mem, registers, msrs, ssdt, sysenters, request, log>>

\* push rcx, push r11, call dispatch_handler.
syscall_handler ==
    /\ pc = "syscall_handler"
    /\ mem' = [mem EXCEPT ![rsp - 1] = rcx, ![rsp - 2] = "rflags",
                          ![rsp - 3] = "syscall_handler:call"]
    /\ rsp' = rsp - 3
    /\ pc' = "dispatch_handler"
    /\ UNCHANGED <<registers, msrs, ssdt, sysenters, request, log>>

\* popf, pop rcx, jmp rcx.
syscall_handler_end ==
    /\ pc = "syscall_handler:call"
    /\ pc' = mem[rsp + 1]
    /\ rcx' = mem[rsp + 1]
    /\ rsp' = rsp + 2
    /\ UNCHANGED <<mem, number, rsi, sysenter_rsp, msrs, ssdt, sysenters, request, log>>

\* kmain calls __sysenter, which saves rsp, and sysenter takes the one of
\* MSR_IA32_SYSENTER_ESP, the end of kernel_stack.
sysenter(n) ==
    /\ pc = "kmain" /\ sysenters < MaxSysenter
    /\ mem' = [mem EXCEPT ![rsp - 1] = "kmain"]
    /\ sysenter_rsp' = rsp - 1
    /\ rsp' = KernelSlots
    /\ pc' = eip
    /\ number' = n
    /\ sysenters' = sysenters + 1
    /\ request' = [entry |-> "sysenter", number |-> n, rsp |-> rsp, mem |-> mem]
    /\ log' = <<>>
    /\ UNCHANGED <<rsi, rcx, msrs, ssdt>>

sysenter_handler ==
    /\ pc = "sysenter_handler"
    /\ Call("sysenter_handler", "dispatch_handler", "sysenter_handler:call")
    /\ UNCHANGED <<registers, msrs, ssdt, sysenters, request, log>>

\* It returns by a call of the address that the saved rsp points to.
sysenter_handler_end ==
    /\ pc = "sysenter_handler:call"
    /\ pc' = mem[sysenter_rsp]
    /\ mem' = [mem EXCEPT ![rsp - 1] = "sysenter_handler:ret"]
    /\ rsp' = rsp - 1
    /\ UNCHANGED <<registers, msrs, ssdt, sysenters, request, log>>

\* An entry is read once for the comparison and once for the call, and each
\* read of the hooked page puts the entry itself in rsi.
dispatch_handler ==
    /\ pc = "dispatch_handler"
    /\ IF number > SSDT_SIZE
         THEN Return("dispatch_handler") /\ Log("out of bounds") /\ UNCHANGED rsi
         ELSE /\ rsi' = IF number < SSDT_SIZE THEN ssdt[number] ELSE rsi
              /\ IF Read(number) = NULL
                   THEN Return("dispatch_handler") /\ Log("no handler")
                   ELSE Call("dispatch_handler", Read(number), "dispatch_handler:call") /\ UNCHANGED log
    /\ UNCHANGED <<number, rcx, sysenter_rsp, msrs, ssdt, sysenters, request>>

dispatch_handler_end ==
    /\ pc = "dispatch_handler:call"
    /\ Leave("dispatch_handler")
    /\ UNCHANGED <<registers, msrs, ssdt, sysenters, request, log>>

ssdt_hook ==
    /\ pc = "ssdt_hook"
    /\ Call("ssdt_hook", rsi, "ssdt_hook:call")
    /\ Log("ssdt_hook")
    /\ UNCHANGED <<registers, msrs, ssdt, sysenters, request>>

ssdt_hook_end ==
    /\ pc = "ssdt_hook:call"
    /\ Leave("ssdt_hook")
    /\ UNCHANGED <<registers, msrs, ssdt, sysenters, request, log>>

print_a_crab ==
    /\ pc = "print_a_crab"
    /\ Return("print_a_crab")
    /\ Log("print_a_crab")
    /\ UNCHANGED <<registers, msrs, ssdt, sysenters, request>>

syscall_mallware ==
    /\ pc = "syscall_mallware"
    /\ Call("syscall_mallware", "syscall_handler", "syscall_mallware:call")
    /\ UNCHANGED <<registers, msrs, ssdt, sysenters, request, log>>

syscall_mallware_end ==
    /\ pc = "syscall_mallware:call"
    /\ Leave("syscall_mallware")
    /\ Log("mallware")
    /\ UNCHANGED <<registers, msrs, ssdt, sysenters, request>>

sysenter_mallware ==
    /\ pc = "sysenter_mallware"
    /\ Call("sysenter_mallware", "sysenter_handler", "sysenter_mallware:call")
    /\ Log("mallware")
    /\ UNCHANGED <<registers, msrs, ssdt, sysenters, request>>

\* hlt, which the host skips, and the loop of exit.
exit ==
    /\ pc \in {"kmain", "exit"}
    /\ pc' = "exit"
    /\ UNCHANGED <<rsp, mem, registers, msrs, ssdt, sysenters, request, log>>

Next == \/ initialize_ssdt \/ init_syscalls \/ inject_mallwares
        \/ \E n \in Number : syscall(n) \/ sysenter(n)
        \/ syscall_ret \/ syscall_handler \/ syscall_handler_end
        \/ sysenter_handler \/ sysenter_handler_end
        \/ dispatch_handler \/ dispatch_handler_end
        \/ ssdt_hook \/ ssdt_hook_end \/ print_a_crab
        \/ syscall_mallware \/ syscall_mallware_end \/ sysenter_mallware
        \/ exit

Safety == Init /\ [][Next]_vars

\* kmain may stop calling; what it called is executed to the end.
Spec == Safety /\ WF_vars(Next /\ pc # "kmain")
-------------------------------------------------------------------------------
\* The processor stays in the program, and the stack in the stacks.
TypeOK ==
    /\ pc \in Code
    /\ rsp \in 0 .. Top
    /\ mem \in [Slot -> Code \cup {"local", "rflags", "sysenter_handler:ret"}]
    /\ number \in Nat /\ rsi \in Pointer /\ rcx \in Code \cup {NULL}
    /\ sysenter_rsp \in Slot
    /\ lstar \in {NULL, "syscall_handler", "syscall_mallware"}
    /\ eip \in {NULL, "sysenter_handler", "sysenter_mallware"}
    /\ ssdt \in [0 .. SSDT_SIZE -> Pointer]
    /\ sysenters \in 0 .. MaxSysenter
    /\ request.entry \in {"none", "syscall", "sysenter"}

\* What a call of n is to do: report a bad number, or run the entry, once, with
\* the hook before it.
Answer(n) ==
    IF n >= SSDT_SIZE THEN <<"out of bounds">>
    ELSE IF ssdt[n] = NULL THEN <<"no handler">> ELSE <<"ssdt_hook", ssdt[n]>>

\* A call that has returned was answered, in full and once, whether it went by
\* SYSCALL or SYSENTER; a mallware in between reports itself once, after the
\* answer to SYSCALL and before that to SYSENTER
\* (src/guest/syscalls.c:38, src/vmm/hooks.c:6, src/guest/kmain.c:36).
Served ==
    pc = "kmain" /\ request.entry # "none"
      => LET answer == Answer(request.number)
         IN  log \in {answer, IF request.entry = "syscall" THEN Append(answer, "mallware")
                              ELSE <<"mallware">> \o answer}

\* SYSCALL leaves the caller's stack as it was, pointer and contents: the
\* pushes and pops of __syscall_handler and of all it calls balance
\* (src/guest/syscall_handler.asm:12).
StackKept ==
    pc = "kmain" /\ request.entry = "syscall"
      => /\ rsp = request.rsp
         /\ \A slot \in rsp .. Top - 1 : mem[slot] = request.mem[slot]

\* The comment of src/guest/syscalls.c:11, "we need to save rsp before
\* sysenter": what the saved rsp points to when the handler returns by it is
\* the caller's return address.
SysenterReturns == pc = "sysenter_handler:call" => mem[sysenter_rsp] = "kmain"

\* Every call comes back: no handler, hook or mallware in its way loses it.
CallsReturn == pc # "kmain" ~> pc \in {"kmain", "exit"}

\* The message of src/guest/syscalls.c:44, "syscall %d doesn't have a handler":
\* a number whose entry is NULL is reported, and NULL is not called.
UnassignedIsReported == pc # NULL

\* The message of src/guest/syscalls.c:42, "out of bounds syscall number": a
\* number the table has no entry for does not call what follows the table.
OutOfBoundsIsRefused == request.number >= SSDT_SIZE => pc # "cpu_data"
===============================================================================
