-------------------------------- MODULE MCStacks -------------------------------
(****************************************************************************)
(* The bytes are what gcc -fstack-usage reports under the makefile's flags  *)
(* (no optimisation), with the return address.  Formats are the shapes of   *)
(* the program's, and one for each conversion that none of them uses.       *)
(****************************************************************************)
EXTENDS Stacks

MCFormat == {<<>>, <<"s">>, <<"d">>, <<"u">>, <<"x">>, <<"x", "x">>, <<"p", "p", "x">>,
             <<"c">>, <<"c", "d">>, <<"b">>, <<"U">>, <<"unknown">>}

\* 0, more digits or fewer, negative, the ends of an int, and past them: one
\* whose int is negative, one whose int is another small number.
MCArgument == {0, -10, 255, 2 ^ 15 - 1, -(2 ^ 15), 2 ^ 15, 2 ^ 16 + 10}

MCFrame ==
    [log_log |-> 1536, vsprintf |-> 80, sprintf |-> 240, sprint_integer |-> 128, PANIC |-> 0,
     initialize_host |-> 32, enter_vmx_root |-> 64, configure_vmcs |-> 64, launch_vm |-> 16,
     vmexit_handler |-> 48, halt_handler |-> 32, rdmsr_handler |-> 32, wrmsr_handler |-> 32]
    @@ [vmcall_handler |-> 32, ept_violation_handler |-> 48, ept_misconfig_handler |-> 48,
        kmain |-> 16, exit |-> 16, init_syscalls |-> 16, inject_mallwares |-> 16, syscall |-> 8,
        syscall_handler |-> 24, syscall_mallware |-> 32, sysenter_handler |-> 48,
        sysenter_mallware |-> 32]
    @@ [dispatch_handler |-> 48, read_entry |-> 0, call_entry |-> 0, ssdt_hook |-> 32,
        print_a_crab |-> 16]

\* write_entry and read_msr, vmread, serial_print and out, strcpy, monitor_wrmsr.
MCLeaf == [fn \in DOMAIN MCFrame |->
             CASE fn = "initialize_host" -> 144
               [] fn = "configure_vmcs" -> 112
               [] fn = "sprint_integer" -> 88
               [] fn \in {"PANIC", "exit", "launch_vm", "print_a_crab",
                          "read_entry", "call_entry"} -> 0
               [] OTHER -> 48]

\* The bytes at the deepest of each function, found from its callees' up.
MCQuiet == [log_log |-> 536, vsprintf |-> 216]

MCDepth ==
    LET log == 3688
    IN  [sprint_integer |-> 88, vsprintf |-> 2072, sprintf |-> 296, log_log |-> 2152,
         initialize_host |-> 64 + log, vmexit_handler |-> 48 + log, kmain |-> 160 + log,
         syscall |-> 152 + log, syscall_handler |-> 96 + log, syscall_mallware |-> 120 + log]
        @@ [sysenter_handler |-> 168 + log, sysenter_mallware |-> 216 + log,
            dispatch_handler |-> 48 + log, read_entry |-> 48 + log,
            call_entry |-> 48 + log, ssdt_hook |-> 16 + log]
        @@ [fn \in {"init_syscalls", "inject_mallwares", "exit"} |-> 48]
        @@ [fn \in DOMAIN MCFrame |-> log]

ASSUME DepthsAssumption == DepthsFit(MCDepth, MCQuiet)
ASSUME SignsAssumption == \A format \in MCFormat : SignsKept(format)
================================================================================
