--------------------------------- MODULE Stacks --------------------------------
(****************************************************************************)
(* The four stacks and what runs on them, from initialize_host to the       *)
(* guest's exit(): which C functions are active, and how many bytes they    *)
(* take.  Every function logs, and logging (Printing) is what takes most.   *)
(* A body is the sequence of what a function does about the stack, each     *)
(* step a set of alternatives; calls of functions that call nothing are in  *)
(* Leaf.  The messages logged are any of Format, whatever the caller.       *)
(****************************************************************************)
EXTENDS Printing

CONSTANTS
    Leaf,               \* [function -> bytes its deepest call outside Body takes]
    LongestFormat       \* of Format, in conversions

VARIABLES
    stack,              \* the stack in use
    below               \* the stacks left for it, by an exit or by SYSENTER

vars == <<calls, stack, below>>

\* The bytes from each top to what lies below it.  The guest's rsp is set to
\* the LOWEST byte of stack_top, so its room is what registers_t leaves free of
\* the page before it; below the others are the paging tables, the variables
\* before kernel_stack, and DRIVE_NUMBER_ADDRESS.
HIGHER_MEMORY_STACK_TOP == 1179648
TABLES_END == 1138688
higher_room == HIGHER_MEMORY_STACK_TOP - TABLES_END

PAGE_FRAME_SIZE == 4096
registers == 17
guest_room == PAGE_FRAME_SIZE - 8 * registers

STACK_SIZE == 4096

STACK_TOP == 31743
DRIVE_NUMBER_END == 1540
host_room == STACK_TOP - DRIVE_NUMBER_END

Room == [higher |-> higher_room, guest |-> guest_room,
         kernel_stack |-> STACK_SIZE, host |-> host_room]
-------------------------------------------------------------------------------
\* Steps: "log"; "skip", nothing; "stop", a loop; the name of a function, its
\* call; and those with an action of their own below.
PANIC == <<{"log"}, {"stop"}>>

\* src/vmm: start-up, on the stack of _start.
initialize_host == <<{"log"}, {"enter_vmx_root"}, {"configure_vmcs"}, {"launch_vm"}>>
enter_vmx_root == <<{"log", "PANIC"}, {"skip", "PANIC"}, {"log"}>>
configure_vmcs == <<{"skip", "PANIC"}, {"log"}, {"log"}>>
launch_vm == <<{"log"}, {"vmlaunch", "PANIC"}>>

\* The exit path; a handler that fails makes vmexit_handler panic.
vmexit_handler == <<{"log"}, {"handler", "PANIC"}, {"skip", "PANIC"}>>
halt_handler == <<{"log"}>>
rdmsr_handler == <<{"log"}>>
wrmsr_handler == <<{"log"}>>
ept_violation_handler == <<{"log"}>>
ept_misconfig_handler == <<{"skip", "log"}>>
vmcall_handler == <<{"log"}>>

\* src/guest: a step named by a handler is an instruction that exits to it.
\* Reading the SSDT is a misconfiguration; were its page without any right, and
\* not write-only, it would be a violation.  What dispatch_handler does after a
\* condition is a function that takes no stack, as the macro PANIC is.
wrmsr == {"skip", "wrmsr_handler"}
rdmsr == {"skip", "rdmsr_handler"}
ssdt == {"ept_misconfig_handler", "ept_violation_handler"}
init_syscalls == <<wrmsr, wrmsr, wrmsr, wrmsr, wrmsr, rdmsr, wrmsr>>
inject_mallwares == <<wrmsr, wrmsr>>
kmain == <<{"log"}, {"init_syscalls"}, {"skip", "vmcall_handler"}, {"skip", "inject_mallwares"},
           {"syscall"}, {"sysenter"}, {"halt_handler"}, {"exit"}>>
exit == <<{"stop"}>>
syscall == <<{"syscall_handler", "syscall_mallware"}>>
syscall_handler == <<{"dispatch_handler"}>>
syscall_mallware == <<{"syscall_handler"}, {"log"}>>
sysenter_handler == <<{"dispatch_handler"}, {"ret"}>>
sysenter_mallware == <<{"log"}, {"sysenter_handler"}>>
dispatch_handler == <<{"log", "read_entry"}>>
read_entry == <<ssdt, {"log", "call_entry"}>>
call_entry == <<ssdt, {"ssdt_hook"}>>
ssdt_hook == <<{"log"}, {"print_a_crab"}>>
print_a_crab == <<{"log"}>>

Handler == {"halt_handler", "rdmsr_handler", "wrmsr_handler", "vmcall_handler",
            "ept_violation_handler", "ept_misconfig_handler"}

Body ==
    [PANIC |-> PANIC, initialize_host |-> initialize_host, enter_vmx_root |-> enter_vmx_root,
     configure_vmcs |-> configure_vmcs, launch_vm |-> launch_vm, vmexit_handler |-> vmexit_handler,
     halt_handler |-> halt_handler, rdmsr_handler |-> rdmsr_handler,
     wrmsr_handler |-> wrmsr_handler, vmcall_handler |-> vmcall_handler,
     ept_violation_handler |-> ept_violation_handler,
     ept_misconfig_handler |-> ept_misconfig_handler,
     init_syscalls |-> init_syscalls, inject_mallwares |-> inject_mallwares, kmain |-> kmain,
     exit |-> exit, syscall |-> syscall, syscall_handler |-> syscall_handler,
     syscall_mallware |-> syscall_mallware, sysenter_handler |-> sysenter_handler,
     sysenter_mallware |-> sysenter_mallware, dispatch_handler |-> dispatch_handler,
     read_entry |-> read_entry, call_entry |-> call_entry,
     ssdt_hook |-> ssdt_hook, print_a_crab |-> print_a_crab]

ASSUME StacksAssumption ==
    /\ DOMAIN Body \subseteq DOMAIN Frame
    /\ {"log_log", "vsprintf", "sprintf", "sprint_integer"} \subseteq DOMAIN Frame
    /\ DOMAIN Leaf = DOMAIN Frame
    /\ \A fn \in DOMAIN Leaf : Leaf[fn] \in Nat
    /\ LongestFormat \in Nat /\ LongestFormat >= 4  \* sprintf's
    /\ \A format \in Format : Len(format) <= LongestFormat

Init ==
    /\ stack = "higher"
    /\ calls = <<Entered("initialize_host", 0, <<>>)>>
    /\ below = <<>>
-------------------------------------------------------------------------------
\* The top function's next step may be this one.
AtStep(step) ==
    /\ top.fn \in DOMAIN Body
    /\ top.next <= Len(Body[top.fn])
    /\ step \in Body[top.fn][top.next]

Log ==
    /\ AtStep("log")
    /\ \E format \in Format : Call("log_log", format)
    /\ UNCHANGED <<stack, below>>

Skip == AtStep("skip") /\ calls' = Onward(top.with) /\ UNCHANGED <<stack, below>>

Stop == AtStep("stop") /\ UNCHANGED vars

CallFunction ==
    /\ \E fn \in DOMAIN Body \ Handler : AtStep(fn) /\ Call(fn, <<>>)
    /\ UNCHANGED <<stack, below>>

CallHandler == AtStep("handler") /\ Call(top.with, <<>>) /\ UNCHANGED <<stack, below>>

Leave == below' = Append(below, [stack |-> stack, calls |-> Onward(top.with)])

Vmlaunch ==
    /\ AtStep("vmlaunch")
    /\ stack' = "guest"
    /\ calls' = <<Entered("kmain", 0, <<>>)>>
    /\ UNCHANGED below

\* Each exit starts at STACK_TOP again, with its handler in the exit reason.
VmExit ==
    /\ \E handler \in Handler :
         /\ AtStep(handler)
         /\ calls' = <<Entered("vmexit_handler", 0, handler)>>
    /\ stack' = "host"
    /\ Leave

Vmresume ==
    /\ stack = "host" /\ Len(calls) = 1 /\ top.next > Len(vmexit_handler)
    /\ stack' = Last(below).stack
    /\ calls' = Last(below).calls
    /\ below' = Front(below)

\* SYSENTER starts at the end of kernel_stack, at whichever handler is set;
\* the handler comes back by calling the return address, and stays there.
Sysenter ==
    /\ AtStep("sysenter")
    /\ \E fn \in {"sysenter_handler", "sysenter_mallware"} : calls' = <<Entered(fn, 0, <<>>)>>
    /\ stack' = "kernel_stack"
    /\ Leave

SysenterRet ==
    /\ AtStep("ret")
    /\ calls' = Append(Onward(<<>>), [Last(Last(below).calls) EXCEPT !.low = top.low + 8])
    /\ below' = Front(below)
    /\ UNCHANGED stack

FunctionReturn ==
    /\ top.fn \in DOMAIN Body /\ top.next > Len(Body[top.fn]) /\ Len(calls) > 1
    /\ Return
    /\ UNCHANGED <<stack, below>>

LogFunction == PrintingStep /\ UNCHANGED <<stack, below>>

Next ==
    \/ LogFunction
    \/ Log \/ Skip \/ Stop \/ CallFunction \/ CallHandler \/ FunctionReturn
    \/ Vmlaunch \/ VmExit \/ Vmresume \/ Sysenter \/ SysenterRet

Spec == Init /\ [][Next]_vars /\ WF_vars(Next)
-------------------------------------------------------------------------------
\* Each function active is at a step of its own; one stack is left for an exit,
\* and at most one more by SYSENTER.
LoggingSteps == [log_log |-> 2, sprintf |-> 1, sprint_integer |-> 1, vsprintf |-> LongestFormat]
Steps(fn) == IF fn \in DOMAIN Body THEN Len(Body[fn]) ELSE LoggingSteps[fn]

TypeOK ==
    /\ stack \in DOMAIN Room
    /\ Len(below) <= 2
    /\ calls # <<>>
    /\ \A i \in 1 .. Len(calls) :
         /\ calls[i].fn \in DOMAIN Frame
         /\ calls[i].next \in 1 .. Steps(calls[i].fn) + 1

\* No stack grows past its room: not the guest's, which is set to the wrong end
\* of its 32 KiB and has less than a page before the saved registers, nor the
\* host's, whatever is logged at the deepest call, and though vsprintf logs
\* (src/vmm/vmm.c:158 and :188, src/lib/print.c:81 and :129).
StaysInRoom == top.low + Leaf[top.fn] <= Room[stack]

\* All of it ends: in a panic or in the guest's exit(), which loop.  Logging
\* ends for any of Format, though it logs, and every exit and system call comes
\* back (src/lib/print.c:129, src/guest/kmain.c:32).
Finishes == <>[](top.fn \in {"PANIC", "exit"} /\ AtStep("stop"))
-------------------------------------------------------------------------------
\* What StaysInRoom asks of Frame and Leaf: there are Depth, enough for all that
\* a function needs above its own frame, and Quiet, the same for a format that
\* vsprintf does not log about, such that every step of a function leaves
\* enough for what it starts, and each stack has room for what starts on it.
DepthsFit(Depth, Quiet) ==
    LET Needs(fn) == Frame[fn] + Depth[fn]
    IN  /\ Depth \in [DOMAIN Frame -> Nat]
        /\ Quiet \in [{"log_log", "vsprintf"} -> Nat]
        /\ \A fn \in DOMAIN Frame : Leaf[fn] <= Depth[fn]
        /\ \A fn \in DOMAIN Quiet : Leaf[fn] <= Quiet[fn] /\ Quiet[fn] <= Depth[fn]
        /\ Needs("sprint_integer") <= Quiet["vsprintf"]
        /\ Frame["vsprintf"] + Quiet["vsprintf"] <= Depth["sprintf"]
        /\ Frame["vsprintf"] + Quiet["vsprintf"] <= Quiet["log_log"]
        /\ Needs("sprintf") <= Quiet["log_log"]
        /\ Frame["log_log"] + Quiet["log_log"] <= Depth["vsprintf"]
        /\ Needs("vsprintf") <= Depth["log_log"]
        /\ \A fn \in DOMAIN Body : \A i \in 1 .. Len(Body[fn]) : \A step \in Body[fn][i] :
             /\ step = "log" => Needs("log_log") <= Depth[fn]
             /\ step \in DOMAIN Body \ Handler => Needs(step) <= Depth[fn]
             /\ step = "ret" => 8 + Depth["kmain"] <= Depth[fn]
        /\ \A handler \in Handler : Needs(handler) <= Depth["vmexit_handler"]
        /\ Needs("initialize_host") <= Room["higher"]
        /\ Needs("kmain") <= Room["guest"]
        /\ Needs("vmexit_handler") <= Room["host"]
        /\ \A fn \in {"sysenter_handler", "sysenter_mallware"} : Needs(fn) <= Room["kernel_stack"]
===============================================================================
