------------------------------- MODULE MCSyscalls ------------------------------
EXTENDS Syscalls, TLC

\* Frames of different sizes, so that a return from the wrong one shows.
MCLocals == [f \in CFunction |-> CASE f = "dispatch_handler" -> 2
                                   [] f \in {"ssdt_hook", "sysenter_handler"} -> 1
                                   [] OTHER -> 3]

\* A table nothing cleared: entry 0 is NULL, entry 2 left over; the quadword
\* behind it is the pointer to cpu_data.
MCInitialSsdt == {0 :> NULL @@ 1 :> first @@ 2 :> "leftover" @@ 3 :> "cpu_data" : first \in {NULL, "leftover"}}
===============================================================================
