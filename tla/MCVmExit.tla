-------------------------------- MODULE MCVmExit ------------------------------
EXTENDS VmExit, TLC

\* Low MSRs are 0 .. 7, high ones 16 .. 23; 12 has no bit and always exits.
SYSENTER_EIP == 6
LSTAR == 18
Unlisted == 12

I(op) == [op |-> op, gpa |-> [page |-> 1, index |-> 0]]
A(op, p, i) == [op |-> op, gpa |-> [page |-> p, index |-> i]]

\* Page 1 is the SSDT, page 2 an entry left malformed, page 3 beyond the map.
MCEpt == <<"misconfigured", "misconfigured", "absent">>
MCssdt == 0 :> 50 @@ 1 :> 51
MCLength == [ordinary |-> 1, hlt |-> 1, rdmsr |-> 2, wrmsr |-> 2, vmcall |-> 3,
             load |-> 4, store |-> 5, other |-> 2]

\* Ordinary code may go on at any instruction, so that they run in any order.
MCProgram == 0 :> I("ordinary") @@ 1 :> I("hlt") @@ 2 :> I("rdmsr") @@ 4 :> I("ordinary")
             @@ 5 :> I("wrmsr") @@ 7 :> I("vmcall") @@ 10 :> A("load", 1, 1)
             @@ 14 :> I("ordinary") @@ 15 :> A("store", 1, 0) @@ 20 :> A("load", 3, 0)
             @@ 24 :> A("load", 2, 0) @@ 28 :> I("other")
MCTarget == {1, 2, 5, 7, 10, 15, 20, 24, 28}

MCRegs == [r \in GPR |-> CASE r = "rcx" -> LSTAR [] r = "rdi" -> 7 [] OTHER -> 200 + fs[r]]
MCInitialGuest == {[regs |-> MCRegs, rsp |-> 90, rip |-> 0]}
MCInitialMsr == SYSENTER_EIP :> 60 @@ LSTAR :> 61
\* The page clean, or with a bit left over that makes RDMSR of SYSENTER_EIP exit.
MCInitialBits == {{}, {<<0, 6>>}}
MCWrite == {<<"rax", 1>>, <<"rcx", SYSENTER_EIP>>, <<"rcx", Unlisted>>, <<"rcx", LSTAR>>, <<"rdi", 0>>, <<"rdi", 7>>}
===============================================================================
