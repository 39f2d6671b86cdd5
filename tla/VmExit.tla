--------------------------------- MODULE VmExit -------------------------------
(****************************************************************************)
(* The VM-exit path: the guest runs until an instruction leaves it, the     *)
(* wrapper (src/vmm/wrappers.asm) saves its registers in the area the C     *)
(* handlers (src/vmm/vmexit.c) work on, vmexit_handler (src/vmm/vmm.c)      *)
(* dispatches on the exit reason, and the wrapper restores the registers    *)
(* and resumes the guest.  One processor, interrupts off while in the host. *)
(****************************************************************************)
EXTENDS Integers

CONSTANTS
    \* The guest: its code, and what its own instructions may do.
    Program,       \* [address -> [op, gpa]], the instruction at each address
    Length,        \* [op -> Nat]
    Write,         \* pairs <<register, value>> that ordinary code may write
    Target,        \* addresses ordinary code may continue at
    InitialGuest,  \* [regs, rsp, rip] at VM entry
    InitialMsr,    \* [MSR -> value] at VM entry
    AnyMsr,        \* MSR numbers the guest may name
    \* The machine, once src/vmm/ept.c and src/vmm/msr_bitmaps.c set it up.
    Ept,           \* [page -> "misconfigured" or "absent"], for pages not mapped
    EptLength,     \* lengths the processor may report, besides the true one, for
                   \* an EPT exit: the manual leaves the field undefined there
    BITMAP_FOR_HIGH_MSRS, MIN_HIGH_MSR, InitialBits,  \* see MsrBitmaps
    \* The host.
    HostValue,     \* values its code may leave in a register
    SsdtPage, ssdt, ssdt_hook,
    MSR_IA32_SYSENTER_EIP, MSR_IA32_LSTAR

PROTECET_SYSCALL == 0
VMCS_GUEST_RIP == 26654   \* 0x681e, the field's encoding

GPR == {"rax", "rbx", "rcx", "rdx", "rsi", "rdi", "rbp",
        "r8", "r9", "r10", "r11", "r12", "r13", "r14", "r15"}

\* Offsets of the members of registers_t: what the C handlers use.
registers_t ==
    [rax |-> 0, rbx |-> 8, rcx |-> 16, rdx |-> 24, rsi |-> 32, rdi |-> 40, rbp |-> 48,
     r8 |-> 56, r9 |-> 64, r10 |-> 72, r11 |-> 80, r12 |-> 88, r13 |-> 96, r14 |-> 104,
     r15 |-> 112, rsp |-> 120, rip |-> 128]

\* Offsets from fs that the wrapper writes and reads.
fs == [rax |-> 0, rbx |-> 8, rcx |-> 16, rdx |-> 24, rsi |-> 32, rdi |-> 40, rbp |-> 48,
       r8 |-> 56, r9 |-> 64, r10 |-> 72, r11 |-> 80, r12 |-> 88, r13 |-> 96, r14 |-> 104,
       r15 |-> 112, rsp |-> 120, rip |-> 128]

Offset == {fs[name] : name \in DOMAIN fs}

\* Registers a C function may change (System V calling convention).
CallerSaved == {"rax", "rcx", "rdx", "rsi", "rdi", "r8", "r9", "r10", "r11"}

VARIABLES mode,        \* "guest", then "save", "handle", "restore"; or "panic"
          regs,        \* the processor's general purpose registers
          vmcs,        \* guest rip and rsp, exit reason, length, guest-physical address
          area,        \* guest_cpu_state.registers, by offset
          msr,         \* values of the MSRs
          msr_bitmaps  \* see MsrBitmaps

vars == <<mode, regs, vmcs, area, msr, msr_bitmaps>>

Bitmaps == INSTANCE MsrBitmaps WITH Msr <- AnyMsr, panicked <- (mode = "panic")

Op == {"ordinary", "hlt", "rdmsr", "wrmsr", "vmcall", "load", "store", "other"}
Gpa == [page : DOMAIN Ept, index : DOMAIN ssdt]
SyscallMsr == {MSR_IA32_SYSENTER_EIP, MSR_IA32_LSTAR}

ASSUME GuestAssumption ==
    /\ Program \in [DOMAIN Program -> [op : Op, gpa : Gpa]]
    /\ Length \in [Op -> Nat]
    /\ Write \subseteq GPR \X Int
    /\ Target \subseteq Int
    /\ InitialGuest \subseteq [regs : [GPR -> Int], rsp : Int, rip : Int]
    /\ InitialMsr \in [DOMAIN InitialMsr -> Int]

\* The SSDT page is hooked, and the MSRs the bitmaps describe exist.
ASSUME HostAssumption ==
    /\ Ept \in [DOMAIN Ept -> {"misconfigured", "absent"}]
    /\ SsdtPage \in DOMAIN Ept
    /\ Ept[SsdtPage] = "misconfigured"
    /\ ssdt \in [DOMAIN ssdt -> Int]
    /\ DOMAIN ssdt \subseteq Int
    /\ 0 \in DOMAIN ssdt
    /\ ssdt_hook \in Int
    /\ EptLength \subseteq Nat
    /\ HostValue \subseteq Int
    /\ SyscallMsr \subseteq AnyMsr \cap Bitmaps!Monitorable
    /\ AnyMsr \cap Bitmaps!Monitorable \subseteq DOMAIN InitialMsr

ASSUME BitmapAssumption ==
    /\ BITMAP_FOR_HIGH_MSRS \in Nat \ {0}
    /\ MIN_HIGH_MSR \in Nat
    /\ MIN_HIGH_MSR > Bitmaps!MAX_LOW_MSR
    /\ MIN_HIGH_MSR % 8 = 0
    /\ AnyMsr \subseteq Nat
    /\ InitialBits \subseteq SUBSET Bitmaps!PageBits
-------------------------------------------------------------------------------
\* Mutants, used by no definition: plausible slips in those further down.
skip_wrong_field ==
    area' = [area EXCEPT ![registers_t.rsp] = @ + vmcs.length]
vmcall_one_msr ==
    /\ area' = [area EXCEPT ![registers_t.rip] = @ + vmcs.length]
    /\ \/ /\ area[registers_t.rdi] = PROTECET_SYSCALL
          /\ msr_bitmaps' = msr_bitmaps \cup {Bitmaps!WriteBit(MSR_IA32_SYSENTER_EIP)}
          /\ mode' = "restore"
       \/ /\ area[registers_t.rdi] # PROTECET_SYSCALL
          /\ UNCHANGED msr_bitmaps
          /\ mode' = "panic"
vmcall_past_page ==
    /\ area' = [area EXCEPT ![registers_t.rip] = @ + vmcs.length]
    /\ area[registers_t.rdi] = PROTECET_SYSCALL
    /\ msr_bitmaps' = msr_bitmaps \cup {<<b[1] + Bitmaps!BITMAP_FOR_WRMSR, b[2]>> :
                                        b \in {Bitmaps!WriteBit(m) : m \in SyscallMsr}}
    /\ mode' = "restore"
halt_without_skip == UNCHANGED <<area, msr_bitmaps>> /\ mode' = "restore"

Init ==
    /\ mode = "guest"
    /\ \E guest \in InitialGuest :
         /\ regs = guest.regs
         /\ vmcs = [rip |-> guest.rip, rsp |-> guest.rsp, reason |-> "none",
                    length |-> 0, gpa |-> [page |-> SsdtPage, index |-> 0]]
    /\ area = [offset \in Offset |-> 0]
    /\ msr = InitialMsr
    /\ msr_bitmaps \in InitialBits
-------------------------------------------------------------------------------
(****************************************************************************)
(* The guest: the processor runs the instruction at rip, or leaves for the  *)
(* host with the reason in the VMCS (controls set in configure_vmcs: HLT    *)
(* exiting, MSR bitmaps, EPT; VMCALL always exits).                         *)
(****************************************************************************)
Instruction == Program[vmcs.rip]
At(op) == mode = "guest" /\ vmcs.rip \in DOMAIN Program /\ Instruction.op = op

Leave(reason, lengths, gpa) ==
    /\ mode' = "save"
    /\ \E length \in lengths :
         vmcs' = [vmcs EXCEPT !.reason = reason, !.length = length, !.gpa = gpa]
    /\ UNCHANGED <<regs, area, msr, msr_bitmaps>>

Intercepted(reason) == Leave(reason, {Length[Instruction.op]}, vmcs.gpa)
Complete == vmcs' = [vmcs EXCEPT !.rip = @ + Length[Instruction.op]]

Ordinary ==
    /\ At("ordinary")
    /\ \E write \in Write, target \in Target :
         /\ regs' = [regs EXCEPT ![write[1]] = write[2]]
         /\ vmcs' = [vmcs EXCEPT !.rip = target]
    /\ UNCHANGED <<mode, area, msr, msr_bitmaps>>

Hlt == At("hlt") /\ Intercepted("HLT")

Rdmsr ==
    /\ At("rdmsr")
    /\ regs["rcx"] \in AnyMsr
    /\ \/ Bitmaps!RdmsrExits(msr_bitmaps, regs["rcx"]) /\ Intercepted("MSR_READ")
       \/ /\ ~Bitmaps!RdmsrExits(msr_bitmaps, regs["rcx"])
          /\ regs' = [regs EXCEPT !["rax"] = msr[regs["rcx"]]]
          /\ Complete
          /\ UNCHANGED <<mode, area, msr, msr_bitmaps>>

Wrmsr ==
    /\ At("wrmsr")
    /\ regs["rcx"] \in AnyMsr
    /\ \/ Bitmaps!WrmsrExits(msr_bitmaps, regs["rcx"]) /\ Intercepted("MSR_WRITE")
       \/ /\ ~Bitmaps!WrmsrExits(msr_bitmaps, regs["rcx"])
          /\ msr' = [msr EXCEPT ![regs["rcx"]] = regs["rax"]]
          /\ Complete
          /\ UNCHANGED <<mode, regs, area, msr_bitmaps>>

\* A load or a store of a page the EPT does not map for it.
Access ==
    /\ At("load") \/ At("store")
    /\ LET gpa == Instruction.gpa
       IN  Leave(IF Ept[gpa.page] = "misconfigured" THEN "EPT_MISCONFIG" ELSE "EPT_VIOLATION",
                 {Length[Instruction.op]} \cup EptLength, gpa)

Vmcall == At("vmcall") /\ Intercepted("VMCALL")

\* Instructions that exit for a reason the host has no handler for, as CPUID.
Other == At("other") /\ Intercepted("OTHER")
-------------------------------------------------------------------------------
\* __vmexit_wrapper, up to its call: the registers, then rsp and rip by way of
\* rax and rbx.
save ==
    /\ mode = "save"
    /\ area' = [offset \in Offset |->
                 CASE offset = fs.rsp -> vmcs.rsp
                   [] offset = fs.rip -> vmcs.rip
                   [] OTHER -> regs[CHOOSE name \in GPR : fs[name] = offset]]
    /\ regs' = [regs EXCEPT !["rax"] = VMCS_GUEST_RIP, !["rbx"] = vmcs.rip]
    /\ mode' = "handle"
    /\ UNCHANGED <<vmcs, msr, msr_bitmaps>>

\* guest_state->registers.rip += vmread(VMCS_VM_EXIT_INSTRUCTION_LEN)
skip == area' = [area EXCEPT ![registers_t.rip] = @ + vmcs.length]

\* The four handlers that only skip the instruction.
halt_handler == skip /\ UNCHANGED msr_bitmaps /\ mode' = "restore"
rdmsr_handler == skip /\ UNCHANGED msr_bitmaps /\ mode' = "restore"
wrmsr_handler == skip /\ UNCHANGED msr_bitmaps /\ mode' = "restore"
ept_violation_handler == skip /\ UNCHANGED msr_bitmaps /\ mode' = "restore"

\* Any access to the SSDT page, a store too, answers with the hook and its two
\* arguments; the index is the offset in the page over the size of an entry.
ept_misconfig_handler ==
    /\ mode' = "restore"
    /\ UNCHANGED msr_bitmaps
    /\ \/ /\ vmcs.gpa.page = SsdtPage
          /\ area' = [area EXCEPT ![registers_t.rip] = @ + vmcs.length,
                                  ![registers_t.rdi] = vmcs.gpa.index,
                                  ![registers_t.rsi] = ssdt[vmcs.gpa.index],
                                  ![registers_t.rax] = ssdt_hook]
       \/ vmcs.gpa.page # SsdtPage /\ skip

\* Two calls of monitor_wrmsr, of MSRs the bitmaps have; an unknown number is
\* a failure, on which vmexit_handler panics.
vmcall_handler ==
    /\ skip
    /\ \/ /\ area[registers_t.rdi] = PROTECET_SYSCALL
          /\ msr_bitmaps' = msr_bitmaps \cup {Bitmaps!WriteBit(MSR_IA32_SYSENTER_EIP),
                                              Bitmaps!WriteBit(MSR_IA32_LSTAR)}
          /\ mode' = "restore"
       \/ /\ area[registers_t.rdi] # PROTECET_SYSCALL
          /\ UNCHANGED msr_bitmaps
          /\ mode' = "panic"

unsupported == mode' = "panic" /\ UNCHANGED <<area, msr_bitmaps>>

vmexit_handler ==
    /\ mode = "handle"
    /\ \/ vmcs.reason = "HLT" /\ halt_handler
       \/ vmcs.reason = "MSR_READ" /\ rdmsr_handler
       \/ vmcs.reason = "MSR_WRITE" /\ wrmsr_handler
       \/ vmcs.reason = "EPT_VIOLATION" /\ ept_violation_handler
       \/ vmcs.reason = "EPT_MISCONFIG" /\ ept_misconfig_handler
       \/ vmcs.reason = "VMCALL" /\ vmcall_handler
       \/ vmcs.reason = "OTHER" /\ unsupported
    /\ \E value \in HostValue :
         regs' = [name \in GPR |-> IF name \in CallerSaved THEN value ELSE regs[name]]
    /\ UNCHANGED <<vmcs, msr>>

\* __vmexit_wrapper, from the return of the handler to vmresume.
restore ==
    /\ mode = "restore"
    /\ vmcs' = [vmcs EXCEPT !.rsp = area[fs.rsp], !.rip = area[fs.rip]]
    /\ regs' = [name \in GPR |-> area[fs[name]]]
    /\ mode' = "guest"
    /\ UNCHANGED <<area, msr, msr_bitmaps>>

Next == \/ Ordinary \/ Hlt \/ Rdmsr \/ Wrmsr \/ Access \/ Vmcall \/ Other
        \/ save \/ vmexit_handler \/ restore

Safety == Init /\ [][Next]_vars

\* The processor executes: nothing else runs, and nothing blocks it.
Spec == Safety /\ WF_vars(Next)
-------------------------------------------------------------------------------
Reason == {"none", "HLT", "MSR_READ", "MSR_WRITE", "EPT_VIOLATION", "EPT_MISCONFIG",
           "VMCALL", "OTHER"}

TypeOK ==
    /\ mode \in {"guest", "save", "handle", "restore", "panic"}
    /\ regs \in [GPR -> Int]
    /\ vmcs \in [rip : Int, rsp : Int, reason : Reason, length : Int, gpa : Gpa]
    /\ area \in [Offset -> Int]
    /\ msr \in [DOMAIN InitialMsr -> Int]
    /\ msr_bitmaps \subseteq Bitmaps!PageBits

\* The guest as it stands, wherever the host keeps it.
Guest ==
    CASE mode = "panic" -> <<>>
      [] mode \in {"guest", "save"} -> [regs |-> regs, rsp |-> vmcs.rsp, rip |-> vmcs.rip]
      [] OTHER -> [regs |-> [name \in GPR |-> area[registers_t[name]]],
                   rsp |-> area[registers_t.rsp], rip |-> area[registers_t.rip]]

Machine == INSTANCE VirtualMachine WITH
             stopped <- (mode = "panic"), guest <- Guest,
             unreadable <- {m \in AnyMsr : Bitmaps!RdmsrExits(msr_bitmaps, m)},
             unwritable <- {m \in AnyMsr : Bitmaps!WrmsrExits(msr_bitmaps, m)},
             ProtectCall <- PROTECET_SYSCALL

\* Across an exit the guest loses nothing and gains nothing: the wrapper's
\* saves and restores, the handlers' writes by member and their skips add up to
\* one step of the instruction the guest was at, with exactly the effects
\* VirtualMachine allows (src/vmm/wrappers.asm:11, src/vmm/vmexit.c:12).
InstructionsAreAtomic == Machine!Safety

\* And every instruction is executed: no handler resumes the guest at the
\* instruction it left from, and no exit gets stuck in the host.
InstructionsComplete == Machine!Spec

Protected == \A m \in SyscallMsr : Bitmaps!WrmsrExits(msr_bitmaps, m)

\* What the hypercall is for (src/vmm/vmexit.c:61): once it returns to the
\* guest, no later instruction of the guest and no later exit changes where
\* SYSCALL and SYSENTER go, and nothing lifts the protection.
VmcallProtects ==
    [][/\ Protected => Protected' /\ \A m \in SyscallMsr : msr'[m] = msr[m]
       /\ mode = "handle" /\ vmcs.reason = "VMCALL" /\ mode' = "restore" => Protected']_vars
===============================================================================
