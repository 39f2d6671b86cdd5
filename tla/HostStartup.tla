------------------------------- MODULE HostStartup -----------------------------
(****************************************************************************)
(* From long mode to the guest: initialize_host (src/vmm/initialize_host.c) *)
(* enters VMX root operation, fills the VMCS (src/vmm/vmm.c), assigns the   *)
(* system call, hooks the SSDT page and launches kmain.  Each instruction   *)
(* that the processor may refuse is a step of its own, and each exception   *)
(* an end of its own: there is no IDT.  A register is the set of its bits   *)
(* that are 1.                                                              *)
(****************************************************************************)
EXTENDS Integers, FiniteSets

CONSTANTS
    Processor,  \* what the processor may be: see ProcessorType
    Leftover    \* the sets of VMCS fields that its memory, which nothing
                \* zeroes, may fill with what VM entry refuses

\* Bits.
PG_PE == {0, 31}                            \* not fixed for an unrestricted guest
CR0_NE_ENABLE == 5
CR4_VMX_ENABLE == 13
LOCK_BIT == 0
ENABLE_VMXON_INSIDE_SMX == 1
ENABLE_VMXON_OUTSIDE_SMX == 2
CPU_BASED_HLT_EXITING == 7
CPU_BASED_ACTIVATE_MSR_BITMAP == 28
CPU_BASED_ACTIVATE_SECONDARY_CONTROLS == 31
CPU_BASED_CTL2_ENABLE_EPT == 1
CPU_BASED_CTL2_UNRESTRICTED_GUEST == 7
VM_EXIT_IA32E_MODE == 9
VM_ENTRY_IA32E_MODE == 9

Bit == 0 .. 31
Control == {"PIN", "CPU", "SECONDARY", "EXIT", "ENTRY"}

\* low: bits a control must have set; high: bits it may have set.
CapabilityMsr == [low : SUBSET Bit, high : SUBSET Bit]
ProcessorType ==
    [cr0 : SUBSET Bit, cr4 : SUBSET Bit,           \* when the host starts
     cr0_fixed0 : SUBSET Bit, cr0_fixed1 : SUBSET Bit,
     cr4_fixed0 : SUBSET Bit, cr4_fixed1 : SUBSET Bit,
     smx : BOOLEAN,                                \* it has SMX operation
     feature_control : SUBSET Bit,
     basic55 : BOOLEAN,                            \* the TRUE MSRs exist
     ctls : [Control -> CapabilityMsr],
     true_ctls : [Control -> CapabilityMsr]]

\* What the code writes; what VM entry tests and the code never writes, with
\* the limit of the GDT, whose write goes to the field of the IDT's.
EntryField == {"CR3_TARGET_COUNT", "VM_EXIT_MSR_STORE_COUNT", "VM_EXIT_MSR_LOAD_COUNT",
               "VM_ENTRY_MSR_LOAD_COUNT", "VM_ENTRY_INTR_INFO"}
GuestField == {"GUEST_GDTR_LIMIT", "GUEST_PENDING_DBG_EXCEPTIONS"}
WrittenField == {"HOST_RIP", "HOST_FS_BASE", "GUEST_RIP", "GUEST_RSP", "GUEST_GDTR_BASE",
                 "GUEST_IDTR_BASE", "GUEST_IDTR_LIMIT", "LINK_POINTER", "MSR_BITMAP",
                 "EPT_POINTER"}
Field == WrittenField \cup EntryField \cup GuestField

ASSUME LeftoverAssumption == Leftover \subseteq SUBSET Field

\* What the processor manual says of these MSRs.
ASSUME ProcessorAssumption ==
    /\ Processor \subseteq ProcessorType
    /\ \A p \in Processor :
         /\ p.cr0_fixed0 \subseteq p.cr0_fixed1
         /\ p.cr4_fixed0 \subseteq p.cr4_fixed1
         /\ CR4_VMX_ENABLE \in p.cr4_fixed0
         /\ ENABLE_VMXON_INSIDE_SMX \in p.feature_control => p.smx
         /\ \A c \in Control : /\ p.ctls[c].low \subseteq p.ctls[c].high
                               /\ p.true_ctls[c].low \subseteq p.true_ctls[c].high
         /\ p.true_ctls["SECONDARY"] = p.ctls["SECONDARY"]

VARIABLES at,              \* the step that is next, or the end: see End
          cpu,             \* the processor
          cr0, cr4, feature_control,
          revision,        \* regions that hold the VMCS revision identifier
          root,            \* in VMX root operation
          vmcs_state,      \* launch state: "unknown", "clear" or "launched"
          current,         \* the VMCS is the current one
          controls,        \* control fields of the VMCS
          crs,             \* control register fields of the VMCS
          vmcs,            \* other fields of the VMCS: what was written there
          ept,             \* the tables: "unset", "identity", then "hooked"
          ssdt             \* entry 42

vars == <<at, cpu, cr0, cr4, feature_control, revision, root, vmcs_state, current,
          controls, crs, vmcs, ept, ssdt>>

registers == <<cr0, cr4, feature_control>>
regions == <<root, vmcs_state, current>>
fields == <<controls, crs, vmcs>>
tables == <<ept, ssdt>>

CrField == {"HOST_CR0", "HOST_CR4", "GUEST_CR0", "GUEST_CR4"}
-------------------------------------------------------------------------------
\* Mutants, used by no definition: plausible slips in those further down.
get_default_bits_zero(p, c) == {}
initialize_read_hook_skipped ==
    /\ at = "read_hook"
    /\ at' = "launch"
    /\ UNCHANGED <<cpu, registers, revision, regions, fields, tables>>
write_crs_unmasked ==
    /\ at = "crs"
    /\ cr0' = cr0 \cup {CR0_NE_ENABLE} \cup cpu.cr0_fixed0
    /\ cr4' = cr4 \cup {CR4_VMX_ENABLE} \cup cpu.cr4_fixed0
    /\ at' = "feature_control"
    /\ UNCHANGED <<cpu, feature_control, revision, regions, fields, tables>>
launch_vm_returns ==
    /\ at = "launch"
    /\ at' = "returned"
    /\ UNCHANGED <<cpu, registers, revision, regions, fields, tables>>

\* The bits the capability MSRs require of a control: low, within high; those
\* of the TRUE MSRs where there are any.
get_default_bits(p, c) ==
    LET msr == IF p.basic55 THEN p.true_ctls[c] ELSE p.ctls[c]
    IN  msr.low \cap msr.high

\* vmwrite without a current VMCS fails, and nothing checks that it does.
vmwrite(values) ==
    vmcs' = IF current THEN [f \in Field |-> IF f \in DOMAIN values THEN values[f] ELSE vmcs[f]]
                       ELSE vmcs
vmwrite_control(c, bits) ==
    controls' = IF current THEN [controls EXCEPT ![c] = bits] ELSE controls

Init ==
    /\ at = "crs"
    /\ cpu \in Processor
    /\ cr0 = cpu.cr0 /\ cr4 = cpu.cr4 /\ feature_control = cpu.feature_control
    /\ revision = {}
    /\ root = FALSE /\ vmcs_state = "unknown" /\ current = FALSE
    /\ controls = [c \in Control |-> {}]
    /\ crs = [f \in CrField |-> {}]
    /\ \E left \in Leftover : vmcs = [f \in Field |-> IF f \in left THEN "refused" ELSE "unset"]
    /\ ept = "unset" /\ ssdt = "unset"
-------------------------------------------------------------------------------
(* enter_vmx_root *)

write_crs ==
    /\ at = "crs"
    /\ cr0' = (cr0 \cup {CR0_NE_ENABLE} \cup cpu.cr0_fixed0) \cap cpu.cr0_fixed1
    /\ cr4' = (cr4 \cup {CR4_VMX_ENABLE} \cup cpu.cr4_fixed0) \cap cpu.cr4_fixed1
    /\ at' = "feature_control"
    /\ UNCHANGED <<cpu, feature_control, revision, regions, fields, tables>>

\* The bit for SMX operation is reserved in a processor that has none.
check_feature_control ==
    /\ at = "feature_control"
    /\ \/ /\ LOCK_BIT \in feature_control
          /\ at' = IF {ENABLE_VMXON_INSIDE_SMX, ENABLE_VMXON_OUTSIDE_SMX} \cap feature_control # {}
                     THEN "regions" ELSE "panic"
          /\ UNCHANGED feature_control
       \/ /\ LOCK_BIT \notin feature_control /\ cpu.smx
          /\ feature_control' = feature_control \cup
               {LOCK_BIT, ENABLE_VMXON_INSIDE_SMX, ENABLE_VMXON_OUTSIDE_SMX}
          /\ at' = "regions"
       \/ /\ LOCK_BIT \notin feature_control /\ ~cpu.smx
          /\ at' = "wrmsr_faults"
          /\ UNCHANGED feature_control
    /\ UNCHANGED <<cpu, cr0, cr4, revision, regions, fields, tables>>

initialize_regions ==
    /\ at = "regions"
    /\ revision' = {"vmxon_region", "vmcs"}
    /\ at' = "vmxon"
    /\ UNCHANGED <<cpu, registers, regions, fields, tables>>

\* The bits VMX operation fixes.
Fixed(p, r0, r4) == /\ p.cr0_fixed0 \subseteq r0 /\ r0 \subseteq p.cr0_fixed1
                    /\ p.cr4_fixed0 \subseteq r4 /\ r4 \subseteq p.cr4_fixed1

\* The processor is not in SMX operation: GRUB does not enter it.
VmxonAllowed == /\ Fixed(cpu, cr0, cr4)
                /\ {LOCK_BIT, ENABLE_VMXON_OUTSIDE_SMX} \subseteq feature_control

vmxon ==
    /\ at = "vmxon"
    /\ IF ~VmxonAllowed
         THEN at' = "vmxon_faults" /\ UNCHANGED root
         ELSE IF "vmxon_region" \in revision
                THEN root' = TRUE /\ at' = "vmclear"
                ELSE at' = "panic" /\ UNCHANGED root
    /\ UNCHANGED <<cpu, registers, revision, vmcs_state, current, fields, tables>>

vmclear ==
    /\ at = "vmclear"
    /\ IF root THEN vmcs_state' = "clear" /\ at' = "vmptrld"
               ELSE at' = "vmclear_faults" /\ UNCHANGED vmcs_state
    /\ UNCHANGED <<cpu, registers, revision, root, current, fields, tables>>

vmptrld ==
    /\ at = "vmptrld"
    /\ IF "vmcs" \in revision THEN current' = TRUE /\ at' = "PIN"
                              ELSE at' = "panic" /\ UNCHANGED current
    /\ UNCHANGED <<cpu, registers, revision, root, vmcs_state, fields, tables>>
-------------------------------------------------------------------------------
(* configure_vmcs *)

\* Bits the code sets over the default ones.
Wanted(c) ==
    CASE c = "PIN" -> {}
      [] c = "CPU" -> {CPU_BASED_HLT_EXITING, CPU_BASED_ACTIVATE_MSR_BITMAP,
                       CPU_BASED_ACTIVATE_SECONDARY_CONTROLS}
      [] c = "SECONDARY" -> {CPU_BASED_CTL2_ENABLE_EPT, CPU_BASED_CTL2_UNRESTRICTED_GUEST}
      [] c = "EXIT" -> {VM_EXIT_IA32E_MODE}
      [] c = "ENTRY" -> {VM_ENTRY_IA32E_MODE}

After(c) == CASE c = "PIN" -> "CPU"       [] c = "CPU" -> "SECONDARY"
              [] c = "SECONDARY" -> "EXIT" [] c = "EXIT" -> "ENTRY" [] c = "ENTRY" -> "areas"

\* IA32_VMX_PROCBASED_CTLS2, which get_default_bits reads first, only exists
\* where the primary controls may activate the secondary ones.
CapabilityExists(c) ==
    c = "SECONDARY" => CPU_BASED_ACTIVATE_SECONDARY_CONTROLS \in cpu.ctls["CPU"].high

\* The assertion on the pin-based bits is no part of it: ASSERT negates its
\* argument without parentheses, so the condition to panic is
\* (!(bits & 2)) >> 1 && ..., which is 0.
write_control(c) ==
    /\ at = c
    /\ IF CapabilityExists(c)
         THEN vmwrite_control(c, get_default_bits(cpu, c) \cup Wanted(c)) /\ at' = After(c)
         ELSE at' = "rdmsr_faults" /\ UNCHANGED controls
    /\ UNCHANGED <<cpu, registers, revision, regions, crs, vmcs, tables>>

\* What the fields get.  The limit of the GDT goes to the field of the IDT's
\* limit, which the last write replaces.
Areas == [f \in WrittenField |->
            CASE f = "HOST_RIP" -> "__vmexit_wrapper"
              [] f = "HOST_FS_BASE" -> "guest_cpu_state"
              [] f = "GUEST_RIP" -> "kmain"
              [] f = "GUEST_RSP" -> "stack_top"
              [] f = "GUEST_GDTR_BASE" -> "gdtr.base"
              [] f = "GUEST_IDTR_BASE" -> "idtr.base"
              [] f = "GUEST_IDTR_LIMIT" -> "idtr.limit"
              [] f = "LINK_POINTER" -> "-1"
              [] f = "MSR_BITMAP" -> "msr_bitmaps"
              [] f = "EPT_POINTER" -> "epts"]

\* The host and guest areas, the MSR bitmaps and the EPT.
write_areas ==
    /\ at = "areas"
    /\ crs' = IF current THEN [f \in CrField |-> IF f \in {"HOST_CR0", "GUEST_CR0"} THEN cr0 ELSE cr4]
                         ELSE crs
    /\ ept' = "identity"
    /\ vmwrite(Areas)
    /\ at' = "ssdt"
    /\ UNCHANGED <<cpu, registers, revision, regions, controls, ssdt>>
-------------------------------------------------------------------------------
(* The rest of initialize_host *)

initialize_ssdt ==
    /\ at = "ssdt"
    /\ ssdt' = "print_a_crab"
    /\ at' = "read_hook"
    /\ UNCHANGED <<cpu, registers, revision, regions, fields, ept>>

initialize_read_hook ==
    /\ at = "read_hook"
    /\ ept' = "hooked"
    /\ at' = "launch"
    /\ UNCHANGED <<cpu, registers, revision, regions, fields, ssdt>>

\* What VM entry requires of a control, whatever the code believes it does.
Required(p, c) == IF p.basic55 THEN p.true_ctls[c] ELSE p.ctls[c]

\* The controls and the host's state: where they are refused, vmlaunch fails.
EntryAllowed ==
    /\ current /\ vmcs_state = "clear"
    /\ \A c \in Control : /\ Required(cpu, c).low \subseteq controls[c]
                          /\ controls[c] \subseteq Required(cpu, c).high
    /\ Fixed(cpu, crs["HOST_CR0"], crs["HOST_CR4"])
    /\ \A f \in EntryField : vmcs[f] # "refused"

\* The guest's state: where it is refused, vmlaunch ends in a VM exit.
GuestAllowed ==
    /\ Fixed(cpu, crs["GUEST_CR0"] \cup (PG_PE \cap cpu.cr0_fixed1), crs["GUEST_CR4"])
    /\ vmcs["LINK_POINTER"] = "-1"
    /\ \A f \in GuestField : vmcs[f] # "refused"

\* vmlaunch only returns when it fails, and then the host panics.
launch_vm ==
    /\ at = "launch"
    /\ \/ EntryAllowed /\ GuestAllowed /\ vmcs_state' = "launched" /\ at' = "guest"
       \/ EntryAllowed /\ ~GuestAllowed /\ at' = "failed_entry" /\ UNCHANGED vmcs_state
       \/ ~EntryAllowed /\ at' = "panic" /\ UNCHANGED vmcs_state
    /\ UNCHANGED <<cpu, registers, revision, root, current, fields, tables>>

\* The exit of a failed entry; vmexit_handler has no case for its reason.
vmexit_handler ==
    /\ at = "failed_entry"
    /\ vmcs["HOST_RIP"] = "__vmexit_wrapper"
    /\ at' = "panic"
    /\ UNCHANGED <<cpu, registers, revision, regions, fields, tables>>

Next == \/ write_crs \/ check_feature_control \/ initialize_regions
        \/ vmxon \/ vmclear \/ vmptrld
        \/ \E c \in Control : write_control(c)
        \/ write_areas
        \/ initialize_ssdt \/ initialize_read_hook \/ launch_vm \/ vmexit_handler

Safety == Init /\ [][Next]_vars

\* One processor, interrupts off: the code runs to its end.
Spec == Safety /\ WF_vars(Next)
-------------------------------------------------------------------------------
Step == {"crs", "feature_control", "regions", "vmxon", "vmclear", "vmptrld"} \cup Control
        \cup {"areas", "ssdt", "read_hook", "launch", "failed_entry"}

\* The faults of wrmsr, rdmsr, vmxon and vmclear; and every end.
Fault == {"wrmsr_faults", "rdmsr_faults", "vmxon_faults", "vmclear_faults"}
End == {"guest", "panic"} \cup Fault

TypeOK ==
    /\ at \in Step \cup End
    /\ cpu \in Processor
    /\ cr0 \subseteq Bit /\ cr4 \subseteq Bit /\ feature_control \subseteq Bit
    /\ revision \subseteq {"vmxon_region", "vmcs"}
    /\ root \in BOOLEAN /\ vmcs_state \in {"unknown", "clear", "launched"}
    /\ current \in BOOLEAN
    /\ controls \in [Control -> SUBSET Bit]
    /\ crs \in [CrField -> SUBSET Bit]
    /\ DOMAIN vmcs = Field /\ \A f \in EntryField \cup GuestField : vmcs[f] \in {"unset", "refused"}
    /\ ept \in {"unset", "identity", "hooked"} /\ ssdt \in {"unset", "print_a_crab"}

\* When the guest runs, the host has what the VM-exit path relies on: the exits
\* are enabled, they come to the wrapper with fs on the guest's registers, the
\* bitmaps and the tables are the ones it changes later, and the hook is in
\* them and not overwritten by their initialisation (src/vmm/vmm.c:129,
\* src/vmm/initialize_host.c:43).
GuestIsContained ==
    at = "guest" =>
      /\ \A c \in Control : Wanted(c) \subseteq controls[c]
      /\ vmcs["HOST_RIP"] = "__vmexit_wrapper" /\ vmcs["HOST_FS_BASE"] = "guest_cpu_state"
      /\ vmcs["MSR_BITMAP"] = "msr_bitmaps" /\ vmcs["EPT_POINTER"] = "epts"
      /\ ept = "hooked" /\ ssdt = "print_a_crab"

\* Where an instruction of the start-up faults: firmware left the feature
\* control MSR unlocked on a processor without SMX, or allows VMXON inside SMX
\* operation alone, or there are no secondary controls to read about.
Faults(p) ==
    LET locked == LOCK_BIT \in p.feature_control
        inside == ENABLE_VMXON_INSIDE_SMX \in p.feature_control
        outside == ENABLE_VMXON_OUTSIDE_SMX \in p.feature_control
    IN  \/ ~locked /\ ~p.smx
        \/ locked /\ inside /\ ~outside
        \/ /\ locked => outside
           /\ CPU_BASED_ACTIVATE_SECONDARY_CONTROLS \notin p.ctls["CPU"].high

\* Where the guest can run: no fault, VMXON is or can be allowed, the features
\* exist, and the memory of the fields that nobody writes holds what VM entry
\* accepts.
Supported(p) ==
    /\ ~Faults(p)
    /\ LOCK_BIT \in p.feature_control => ENABLE_VMXON_OUTSIDE_SMX \in p.feature_control
    /\ \A c \in Control : Wanted(c) \subseteq Required(p, c).high
    /\ \A f \in EntryField \cup GuestField : vmcs[f] # "refused"

Outcome == IF Faults(cpu) THEN Fault ELSE IF Supported(cpu) THEN {"guest"} ELSE {"panic"}

\* Start-up ends in the guest exactly where it can run, in a fault exactly where
\* one of the three combinations above makes an instruction fault, and in a
\* panic on every other: no reserved bit that a processor wants, no bit left in
\* a control register and no order of the fields leads to another end
\* (src/vmm/vmm.c:88, :92, :142, :299, :296).
EndsAsSupported == at \in End => at \in Outcome

\* And it does end: every processor gets to its outcome, the failed VM entry's
\* exit included, and stays there.
LaunchesIfSupported == <>[](at \in Outcome)

\* The branches of src/vmm/vmm.c:92 before "no support for vmxon instruction":
\* the code goes on to VMXON only where the processor allows it.
VmxonNeverFaults == at # "vmxon_faults"
===============================================================================
