----------------------------- MODULE VirtualMachine ---------------------------
(****************************************************************************)
(* The machine the guest is promised: every instruction is one step, as if  *)
(* no hypervisor were there.  HLT does nothing, an access to memory the     *)
(* host does not give is skipped, an access to the hooked page answers with *)
(* the hook, the index and the entry, and a protected MSR keeps its value.  *)
(****************************************************************************)
EXTENDS Integers

CONSTANTS Program,       \* the instruction at each address of the guest's code
          Length,        \* length of an instruction, by operation
          Write,         \* register writes of ordinary code: <<register, value>>
          Target,        \* addresses ordinary code may continue at
          AnyMsr,        \* MSR numbers
          SsdtPage,      \* the hooked page
          ssdt,          \* its entries
          ssdt_hook,     \* address of the hook
          ProtectCall,   \* number of the hypercall that protects ...
          SyscallMsr,    \* ... these MSRs
          InitialGuest,
          InitialMsr

VARIABLES stopped,    \* the host has stopped the machine
          guest,      \* [regs, rsp, rip], until then
          msr,        \* values of the MSRs
          unreadable, \* MSRs whose RDMSR does nothing
          unwritable  \* MSRs whose WRMSR does nothing

vars == <<stopped, guest, msr, unreadable, unwritable>>

Init == /\ stopped = FALSE
        /\ guest \in InitialGuest
        /\ msr = InitialMsr
        /\ unreadable \in SUBSET AnyMsr
        /\ unwritable \in SUBSET AnyMsr

At(op) == ~stopped /\ guest.rip \in DOMAIN Program /\ Program[guest.rip].op = op

\* The instruction at rip, done, with these registers.
Done(regs) == [regs |-> regs, rsp |-> guest.rsp,
               rip |-> guest.rip + Length[Program[guest.rip].op]]

Ordinary ==
    /\ At("ordinary")
    /\ \E write \in Write, target \in Target :
         guest' = [regs |-> [guest.regs EXCEPT ![write[1]] = write[2]],
                   rsp |-> guest.rsp, rip |-> target]
    /\ UNCHANGED <<stopped, msr, unreadable, unwritable>>

Hlt == /\ At("hlt")
       /\ guest' = Done(guest.regs)
       /\ UNCHANGED <<stopped, msr, unreadable, unwritable>>

Rdmsr ==
    /\ At("rdmsr")
    /\ guest.regs["rcx"] \in AnyMsr
    /\ guest' = IF guest.regs["rcx"] \in unreadable
                  THEN Done(guest.regs)
                  ELSE Done([guest.regs EXCEPT !["rax"] = msr[guest.regs["rcx"]]])
    /\ UNCHANGED <<stopped, msr, unreadable, unwritable>>

Wrmsr ==
    /\ At("wrmsr")
    /\ guest.regs["rcx"] \in AnyMsr
    /\ guest' = Done(guest.regs)
    /\ msr' = IF guest.regs["rcx"] \in unwritable
                THEN msr ELSE [msr EXCEPT ![guest.regs["rcx"]] = guest.regs["rax"]]
    /\ UNCHANGED <<stopped, unreadable, unwritable>>

Protect == /\ At("vmcall")
           /\ guest.regs["rdi"] = ProtectCall
           /\ guest' = Done(guest.regs)
           /\ unwritable' = unwritable \cup SyscallMsr
           /\ UNCHANGED <<stopped, msr, unreadable>>

HookedAccess ==
    /\ At("load") \/ At("store")
    /\ LET gpa == Program[guest.rip].gpa
       IN  /\ gpa.page = SsdtPage
           /\ guest' = Done([guest.regs EXCEPT !["rdi"] = gpa.index,
                                               !["rsi"] = ssdt[gpa.index],
                                               !["rax"] = ssdt_hook])
    /\ UNCHANGED <<stopped, msr, unreadable, unwritable>>

RefusedAccess ==
    /\ At("load") \/ At("store")
    /\ Program[guest.rip].gpa.page # SsdtPage
    /\ guest' = Done(guest.regs)
    /\ UNCHANGED <<stopped, msr, unreadable, unwritable>>

\* An instruction or a hypercall the host does not know stops it for good.
Stop == /\ \/ At("other")
           \/ At("vmcall") /\ guest.regs["rdi"] # ProtectCall
        /\ stopped' = TRUE
        /\ guest' = <<>>
        /\ UNCHANGED <<msr, unreadable, unwritable>>

Next == \/ Ordinary \/ Hlt \/ Rdmsr \/ Wrmsr \/ Protect
        \/ HookedAccess \/ RefusedAccess \/ Stop

Safety == Init /\ [][Next]_vars

\* No instruction takes forever.
Spec == Safety /\ WF_vars(Next)
===============================================================================
