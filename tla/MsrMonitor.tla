------------------------------ MODULE MsrMonitor ------------------------------
(****************************************************************************)
(* What the MSR bitmaps promise: two sets of monitored MSRs, one for reads  *)
(* and one for writes.  Monitoring an MSR adds that MSR to one of the sets  *)
(* and changes nothing else; an MSR that cannot be monitored stops the host.*)
(****************************************************************************)
CONSTANTS Msr,          \* the MSR numbers
          Monitorable   \* those the bitmaps can describe

VARIABLES reads,        \* MSRs whose RDMSR leaves the guest
          writes,       \* MSRs whose WRMSR leaves the guest
          halted        \* the host has panicked

vars == <<reads, writes, halted>>

Init == /\ reads \in SUBSET Monitorable
        /\ writes \in SUBSET Monitorable
        /\ halted = FALSE

MonitorReads(msr) ==
    /\ ~halted
    /\ msr \in Monitorable
    /\ reads' = reads \cup {msr}
    /\ UNCHANGED <<writes, halted>>

MonitorWrites(msr) ==
    /\ ~halted
    /\ msr \in Monitorable
    /\ writes' = writes \cup {msr}
    /\ UNCHANGED <<reads, halted>>

Refuse(msr) ==
    /\ ~halted
    /\ msr \notin Monitorable
    /\ halted' = TRUE
    /\ UNCHANGED <<reads, writes>>

Next == \E msr \in Msr : MonitorReads(msr) \/ MonitorWrites(msr) \/ Refuse(msr)

Spec == Init /\ [][Next]_vars
===============================================================================
