---------------------------- MODULE HostStartupProofs --------------------------
(****************************************************************************)
(* For every processor that keeps to its manual, and whatever the memory of *)
(* the VMCS held: the guest is contained from its first instruction on, and *)
(* the start-up ends in the guest, in a panic or in a fault exactly where   *)
(* Outcome says.                                                            *)
(****************************************************************************)
EXTENDS HostStartup, TLAPS

\* What is done by the time a step is reached.
AfterControls == {"areas", "ssdt", "read_hook", "launch", "guest"}
AfterAreas == {"ssdt", "read_hook", "launch", "guest"}

\* Control c is written once the step of a later one is reached.
Past(c) ==
    CASE c = "PIN" -> {"CPU", "SECONDARY", "EXIT", "ENTRY"} \cup AfterControls
      [] c = "CPU" -> {"SECONDARY", "EXIT", "ENTRY"} \cup AfterControls
      [] c = "SECONDARY" -> {"EXIT", "ENTRY"} \cup AfterControls
      [] c = "EXIT" -> {"ENTRY"} \cup AfterControls
      [] c = "ENTRY" -> AfterControls

StartInv ==
    /\ at \in Control \cup AfterControls => current
    /\ \A c \in Control : at \in Past(c) => Wanted(c) \subseteq controls[c]
    /\ at \in AfterAreas =>
         /\ vmcs["HOST_RIP"] = "__vmexit_wrapper" /\ vmcs["HOST_FS_BASE"] = "guest_cpu_state"
         /\ vmcs["MSR_BITMAP"] = "msr_bitmaps" /\ vmcs["EPT_POINTER"] = "epts"
    /\ at \in {"read_hook", "launch", "guest"} => ssdt = "print_a_crab"
    /\ at \in {"launch", "guest"} => ept = "hooked"

\* write_areas leaves what the memory held in the fields that nobody writes.
LEMMA NobodyWrites ==
    ASSUME DOMAIN vmcs = Field, write_areas
    PROVE  \A f \in EntryField \cup GuestField : vmcs'[f] = vmcs[f]
<1>1. \A f \in EntryField \cup GuestField : f \in Field /\ f \notin WrittenField
  BY DEF Field, EntryField, GuestField, WrittenField
<1>2. DOMAIN Areas = WrittenField
  BY DEF Areas
<1> QED BY <1>1, <1>2 DEF write_areas, vmwrite

\* Every variable keeps its type.
THEOREM TypeCorrect == Safety => []TypeOK
<1>1. Init => TypeOK
  <2> SUFFICES ASSUME Init PROVE TypeOK
    OBVIOUS
  <2>1. /\ DOMAIN vmcs = Field
        /\ \A f \in EntryField \cup GuestField : vmcs[f] \in {"unset", "refused"}
    BY DEF Init, Field
  <2> QED BY <2>1, ProcessorAssumption DEF Init, TypeOK, ProcessorType, Step
<1>2. TypeOK /\ [Next]_vars => TypeOK'
  <2> SUFFICES ASSUME TypeOK, [Next]_vars PROVE TypeOK'
    OBVIOUS
  <2> USE DEF TypeOK, End, Fault
  <2>1. CASE write_crs
    <3>1. {CR0_NE_ENABLE} \subseteq Bit /\ {CR4_VMX_ENABLE} \subseteq Bit
      BY DEF Bit, CR0_NE_ENABLE, CR4_VMX_ENABLE
    <3>2. cpu.cr0_fixed0 \subseteq Bit /\ cpu.cr4_fixed0 \subseteq Bit
      BY ProcessorAssumption DEF ProcessorType
    <3> QED BY <2>1, <3>1, <3>2 DEF write_crs, Step, regions, fields, tables
  <2>2. CASE check_feature_control
    <3>1. {LOCK_BIT, ENABLE_VMXON_INSIDE_SMX, ENABLE_VMXON_OUTSIDE_SMX} \subseteq Bit
      BY DEF Bit, LOCK_BIT, ENABLE_VMXON_INSIDE_SMX, ENABLE_VMXON_OUTSIDE_SMX
    <3> QED BY <2>2, <3>1 DEF check_feature_control, Step, regions, fields, tables
  <2>3. CASE initialize_regions
    BY <2>3 DEF initialize_regions, Step, registers, regions, fields, tables
  <2>4. CASE vmxon
    BY <2>4 DEF vmxon, Step, registers, fields, tables
  <2>5. CASE vmclear
    BY <2>5 DEF vmclear, Step, registers, fields, tables
  <2>6. CASE vmptrld
    BY <2>6 DEF vmptrld, Step, Control, registers, fields, tables
  <2>7. ASSUME NEW c \in Control, write_control(c)
        PROVE  TypeOK'
    <3>1. get_default_bits(cpu, c) \cup Wanted(c) \subseteq Bit
      <4>1. cpu.ctls[c].low \subseteq Bit /\ cpu.true_ctls[c].low \subseteq Bit
        BY ProcessorAssumption DEF ProcessorType, CapabilityMsr
      <4>2. Wanted(c) \subseteq Bit
        BY DEF Wanted, Control, Bit, CPU_BASED_HLT_EXITING, CPU_BASED_ACTIVATE_MSR_BITMAP,
               CPU_BASED_ACTIVATE_SECONDARY_CONTROLS, CPU_BASED_CTL2_ENABLE_EPT,
               CPU_BASED_CTL2_UNRESTRICTED_GUEST, VM_EXIT_IA32E_MODE, VM_ENTRY_IA32E_MODE
      <4> QED BY <4>1, <4>2 DEF get_default_bits
    <3>2. controls' \in [Control -> SUBSET Bit]
      BY <2>7, <3>1 DEF write_control, vmwrite_control
    <3>3. at' \in Step \cup Fault
      BY <2>7 DEF write_control, After, Control, Step
    <3> QED BY <2>7, <3>2, <3>3 DEF write_control, registers, regions, tables
  <2>8. CASE write_areas
    <3>1. crs' \in [CrField -> SUBSET Bit]
      BY <2>8 DEF write_areas
    <3>2. /\ DOMAIN vmcs' = Field
          /\ \A f \in EntryField \cup GuestField : vmcs'[f] \in {"unset", "refused"}
      BY <2>8, NobodyWrites DEF write_areas, vmwrite
    <3> QED BY <2>8, <3>1, <3>2 DEF write_areas, Step, registers, regions
  <2>9. CASE initialize_ssdt
    BY <2>9 DEF initialize_ssdt, Step, registers, regions, fields
  <2>10. CASE initialize_read_hook
    BY <2>10 DEF initialize_read_hook, Step, registers, regions, fields
  <2>11. CASE launch_vm
    BY <2>11 DEF launch_vm, Step, registers, fields, tables
  <2>12. CASE vmexit_handler
    BY <2>12 DEF vmexit_handler, registers, regions, fields, tables
  <2>13. CASE UNCHANGED vars
    BY <2>13 DEF vars
  <2> QED BY <2>1, <2>2, <2>3, <2>4, <2>5, <2>6, <2>7, <2>8, <2>9, <2>10, <2>11, <2>12, <2>13 DEF Next
<1> QED BY <1>1, <1>2, PTL DEF Safety
-------------------------------------------------------------------------------
LEMMA Started == TypeOK /\ StartInv /\ [Next]_vars => StartInv'
<1> SUFFICES ASSUME TypeOK, StartInv, [Next]_vars PROVE StartInv'
  OBVIOUS
<1> USE DEF AfterControls, AfterAreas, Control
<1>1. CASE \/ write_crs \/ check_feature_control \/ initialize_regions \/ vmxon \/ vmclear
  <2>1. at' \in {"feature_control", "regions", "vmxon", "vmclear", "vmptrld", "panic"} \cup Fault
    BY <1>1 DEF write_crs, check_feature_control, initialize_regions, vmxon, vmclear, Fault
  <2> QED BY <2>1 DEF StartInv, Past, Fault
<1>2. CASE vmptrld
  BY <1>2 DEF vmptrld, StartInv, Past
<1>3. ASSUME NEW c \in Control, write_control(c), CapabilityExists(c)
      PROVE  StartInv'
  <2>1. at = c /\ at' = After(c) /\ current /\ UNCHANGED <<current, vmcs, ept, ssdt>>
    BY <1>3 DEF write_control, StartInv, regions, tables
  <2>2. controls' = [controls EXCEPT ![c] = get_default_bits(cpu, c) \cup Wanted(c)]
    BY <1>3, <2>1 DEF write_control, vmwrite_control
  <2>3. Wanted(c) \subseteq controls'[c]
    BY <2>2 DEF TypeOK
  <2>4. \A d \in Control : d # c => controls'[d] = controls[d]
    BY <2>2 DEF TypeOK
  <2>5. \A d \in Control : d # c /\ at' \in Past(d) => at \in Past(d)
    BY <2>1 DEF After, Past
  <2>6. \A d \in Control : at' \in Past(d) => Wanted(d) \subseteq controls'[d]
    BY <2>3, <2>4, <2>5 DEF StartInv
  <2>7. at' \in {"CPU", "SECONDARY", "EXIT", "ENTRY", "areas"}
    BY <2>1 DEF After
  <2> QED BY <2>1, <2>6, <2>7 DEF StartInv
<1>4. CASE write_areas
  <2>1. at = "areas" /\ at' = "ssdt" /\ current /\ UNCHANGED <<current, controls>>
    BY <1>4 DEF write_areas, StartInv, regions
  <2>2. /\ vmcs'["HOST_RIP"] = "__vmexit_wrapper" /\ vmcs'["HOST_FS_BASE"] = "guest_cpu_state"
        /\ vmcs'["MSR_BITMAP"] = "msr_bitmaps" /\ vmcs'["EPT_POINTER"] = "epts"
    BY <1>4, <2>1 DEF write_areas, vmwrite, Areas, Field, WrittenField
  <2>3. \A d \in Control : at \in Past(d)
    BY <2>1 DEF Past
  <2> QED BY <2>1, <2>2, <2>3 DEF StartInv
<1>5. CASE initialize_ssdt
  BY <1>5 DEF initialize_ssdt, StartInv, Past, regions, fields
<1>6. CASE initialize_read_hook
  BY <1>6 DEF initialize_read_hook, StartInv, Past, regions, fields
<1>7. CASE launch_vm
  BY <1>7 DEF launch_vm, StartInv, Past, fields, tables
<1>8. ASSUME NEW c \in Control, write_control(c), ~CapabilityExists(c)
      PROVE  StartInv'
  <2>1. at' = "rdmsr_faults"
    BY <1>8 DEF write_control
  <2> QED BY <2>1 DEF StartInv, Past
<1>9. CASE vmexit_handler
  BY <1>9 DEF vmexit_handler, StartInv, Past
<1>10. CASE UNCHANGED vars
  BY <1>10 DEF vars, StartInv, fields, regions, tables
<1> QED BY <1>1, <1>2, <1>3, <1>4, <1>5, <1>6, <1>7, <1>8, <1>9, <1>10 DEF Next

\* The guest's first instruction already runs under every control, bitmap,
\* table and hook that the exit path counts on.
THEOREM Contained == Safety => []GuestIsContained
<1>1. Init => StartInv
  BY DEF Init, StartInv, AfterControls, AfterAreas, Control, Past
<1>2. StartInv => GuestIsContained
  BY DEF StartInv, GuestIsContained, AfterControls, AfterAreas, Past, Control
<1> QED BY <1>1, <1>2, Started, TypeCorrect, PTL DEF Safety
-------------------------------------------------------------------------------
\* The way to VMX operation: the control registers have every bit VMX fixes,
\* and VMXON is reached where the feature control MSR lets the code through.
LetThrough ==
    IF LOCK_BIT \in cpu.feature_control
      THEN /\ feature_control = cpu.feature_control
           /\ \/ ENABLE_VMXON_INSIDE_SMX \in cpu.feature_control
              \/ ENABLE_VMXON_OUTSIDE_SMX \in cpu.feature_control
      ELSE cpu.smx /\ {LOCK_BIT, ENABLE_VMXON_OUTSIDE_SMX} \subseteq feature_control

Outside ==
    IF LOCK_BIT \in cpu.feature_control
      THEN ENABLE_VMXON_OUTSIDE_SMX \in cpu.feature_control
      ELSE cpu.smx

InVmx == {"vmptrld"} \cup Control \cup {"areas", "ssdt", "read_hook", "launch"}

RootInv ==
    /\ at # "crs" => Fixed(cpu, cr0, cr4)
    /\ at \in {"crs", "feature_control"} => feature_control = cpu.feature_control
    /\ at \in {"regions", "vmxon"} => LetThrough
    /\ at \in {"vmxon", "vmclear", "vmptrld"} => revision = {"vmxon_region", "vmcs"}
    /\ at \in {"vmclear"} \cup InVmx => Outside
    /\ at = "vmclear" => root
    /\ at \in InVmx => vmcs_state = "clear"

\* What is in the VMCS: exact contents of the controls and control registers.
VmcsInv ==
    /\ at \in Past("SECONDARY") =>
         CPU_BASED_ACTIVATE_SECONDARY_CONTROLS \in cpu.ctls["CPU"].high
    /\ \A c \in Control : at \in Past(c) => controls[c] = get_default_bits(cpu, c) \cup Wanted(c)
    /\ at \in AfterAreas =>
         /\ crs["HOST_CR0"] = cr0 /\ crs["GUEST_CR0"] = cr0
         /\ crs["HOST_CR4"] = cr4 /\ crs["GUEST_CR4"] = cr4
         /\ vmcs["LINK_POINTER"] = "-1"

OutcomeInv ==
    /\ at = "failed_entry" => ~Faults(cpu) /\ ~Supported(cpu)
    /\ EndsAsSupported

\* The default bits of a control are the ones VM entry requires.
LEMMA DefaultBitsAreRequired ==
    ASSUME NEW p \in Processor, NEW c \in Control
    PROVE  get_default_bits(p, c) = Required(p, c).low
BY ProcessorAssumption DEF get_default_bits, Required

LEMMA Rooted == TypeOK /\ RootInv /\ [Next]_vars => RootInv'
<1> SUFFICES ASSUME TypeOK, RootInv, [Next]_vars PROVE RootInv'
  OBVIOUS
<1> USE DEF InVmx, Control
<1>1. CASE write_crs
  <2>1. cpu \in Processor
    BY DEF TypeOK
  <2>2. cpu.cr0_fixed0 \subseteq cpu.cr0_fixed1 /\ cpu.cr4_fixed0 \subseteq cpu.cr4_fixed1
    BY <2>1, ProcessorAssumption
  <2>3. /\ cr0' = (cr0 \cup {CR0_NE_ENABLE} \cup cpu.cr0_fixed0) \cap cpu.cr0_fixed1
        /\ cr4' = (cr4 \cup {CR4_VMX_ENABLE} \cup cpu.cr4_fixed0) \cap cpu.cr4_fixed1
        /\ at = "crs" /\ at' = "feature_control" /\ UNCHANGED <<cpu, feature_control>>
    BY <1>1 DEF write_crs
  <2> QED BY <2>2, <2>3 DEF RootInv, Fixed
<1>2. CASE check_feature_control
  <2>1. at = "feature_control" /\ UNCHANGED <<cpu, cr0, cr4>> /\ feature_control = cpu.feature_control
    BY <1>2 DEF check_feature_control, RootInv
  <2>2. at' \in {"regions", "panic", "wrmsr_faults"}
    BY <1>2 DEF check_feature_control
  <2>3. at' = "regions" => LetThrough'
    BY <1>2, <2>1 DEF check_feature_control, LetThrough
  <2>4. Fixed(cpu', cr0', cr4')
    BY <2>1 DEF RootInv
  <2> QED BY <2>2, <2>3, <2>4 DEF RootInv
<1>3. CASE initialize_regions
  BY <1>3 DEF initialize_regions, RootInv, LetThrough, registers
<1>4. CASE vmxon
  <2>1. /\ at = "vmxon" /\ at' \in {"vmclear", "panic", "vmxon_faults"}
        /\ UNCHANGED <<cpu, registers, revision>>
        /\ at' = "vmclear" => VmxonAllowed /\ root'
    BY <1>4 DEF vmxon
  <2>2. LetThrough /\ Fixed(cpu, cr0, cr4)
    BY <2>1 DEF RootInv
  <2>3. at' = "vmclear" => Outside
    BY <2>1, <2>2 DEF VmxonAllowed, LetThrough, Outside
  <2> QED BY <2>1, <2>2, <2>3 DEF RootInv, Outside, registers
<1>5. CASE vmclear
  BY <1>5 DEF vmclear, RootInv, Outside, registers
<1>6. CASE vmptrld
  BY <1>6 DEF vmptrld, RootInv, Outside, registers
<1>7. ASSUME NEW c \in Control, write_control(c)
      PROVE  RootInv'
  <2>1. at = c /\ at' \in {After(c), "rdmsr_faults"} /\ UNCHANGED <<cpu, cr0, cr4, vmcs_state>>
    BY <1>7 DEF write_control, registers, regions
  <2>2. at' \in {"CPU", "SECONDARY", "EXIT", "ENTRY", "areas", "rdmsr_faults"}
    BY <2>1 DEF After
  <2> QED BY <2>1, <2>2 DEF RootInv, Outside
<1>8. CASE write_areas
  BY <1>8 DEF write_areas, RootInv, Outside, registers, regions
<1>9. CASE initialize_ssdt
  BY <1>9 DEF initialize_ssdt, RootInv, Outside, registers, regions
<1>10. CASE initialize_read_hook
  BY <1>10 DEF initialize_read_hook, RootInv, Outside, registers, regions
<1>11. CASE launch_vm
  BY <1>11 DEF launch_vm, RootInv, registers
<1>12. CASE vmexit_handler
  BY <1>12 DEF vmexit_handler, RootInv, registers
<1>13. CASE UNCHANGED vars
  BY <1>13 DEF vars, RootInv, LetThrough, Outside, registers, regions
<1> QED BY <1>1, <1>2, <1>3, <1>4, <1>5, <1>6, <1>7, <1>8, <1>9, <1>10, <1>11, <1>12, <1>13 DEF Next

LEMMA Filled == TypeOK /\ StartInv /\ VmcsInv /\ [Next]_vars => VmcsInv'
<1> SUFFICES ASSUME TypeOK, StartInv, VmcsInv, [Next]_vars PROVE VmcsInv'
  OBVIOUS
<1> USE DEF AfterControls, AfterAreas, Control
<1>1. CASE write_crs \/ check_feature_control \/ initialize_regions \/ vmxon \/ vmclear
  <2>1. at' \in {"feature_control", "regions", "vmxon", "vmclear", "vmptrld", "panic"} \cup Fault
    BY <1>1 DEF write_crs, check_feature_control, initialize_regions, vmxon, vmclear, Fault
  <2> QED BY <2>1 DEF VmcsInv, Past, Fault
<1>2. CASE vmptrld
  BY <1>2 DEF vmptrld, VmcsInv, Past
<1>3. ASSUME NEW c \in Control, write_control(c), CapabilityExists(c)
      PROVE  VmcsInv'
  <2>1. at = c /\ at' = After(c) /\ current /\ UNCHANGED cpu
    BY <1>3 DEF write_control, StartInv
  <2>2. controls' = [controls EXCEPT ![c] = get_default_bits(cpu, c) \cup Wanted(c)]
    BY <1>3, <2>1 DEF write_control, vmwrite_control
  <2>3. controls'[c] = get_default_bits(cpu, c) \cup Wanted(c)
    BY <2>2 DEF TypeOK
  <2>4. \A d \in Control : d # c => controls'[d] = controls[d]
    BY <2>2 DEF TypeOK
  <2>5. \A d \in Control : d # c /\ at' \in Past(d) => at \in Past(d)
    BY <2>1 DEF After, Past
  <2>6. \A d \in Control : at' \in Past(d) => controls'[d] = get_default_bits(cpu, d) \cup Wanted(d)
    BY <2>3, <2>4, <2>5 DEF VmcsInv
  <2>7. \A d \in Control : get_default_bits(cpu', d) = get_default_bits(cpu, d)
    BY <2>1 DEF get_default_bits
  <2>8. at' \in {"CPU", "SECONDARY", "EXIT", "ENTRY", "areas"}
    BY <2>1 DEF After
  <2>9. at' \in Past("SECONDARY") =>
          CPU_BASED_ACTIVATE_SECONDARY_CONTROLS \in cpu.ctls["CPU"].high
    <3>1. c = "SECONDARY" \/ (at' \in Past("SECONDARY") => at \in Past("SECONDARY"))
      BY <2>5
    <3> QED BY <3>1, <1>3 DEF CapabilityExists, VmcsInv
  <2> QED BY <2>1, <2>6, <2>7, <2>8, <2>9 DEF VmcsInv
<1>4. ASSUME NEW c \in Control, write_control(c), ~CapabilityExists(c)
      PROVE  VmcsInv'
  <2>1. at' = "rdmsr_faults"
    BY <1>4 DEF write_control
  <2> QED BY <2>1 DEF VmcsInv, Past
<1>5. CASE write_areas
  <2>1. at = "areas" /\ at' = "ssdt" /\ current /\ UNCHANGED <<cpu, cr0, cr4, controls>>
    BY <1>5 DEF write_areas, StartInv, registers
  <2>2. vmcs'["LINK_POINTER"] = "-1"
    BY <1>5, <2>1 DEF write_areas, vmwrite, Areas, Field, WrittenField
  <2>3. /\ crs'["HOST_CR0"] = cr0 /\ crs'["GUEST_CR0"] = cr0
        /\ crs'["HOST_CR4"] = cr4 /\ crs'["GUEST_CR4"] = cr4
    BY <1>5, <2>1 DEF write_areas, CrField
  <2>4. \A d \in Control : at \in Past(d)
    BY <2>1 DEF Past
  <2>5. \A d \in Control : get_default_bits(cpu', d) = get_default_bits(cpu, d)
    BY <2>1 DEF get_default_bits
  <2> QED BY <2>1, <2>2, <2>3, <2>4, <2>5 DEF VmcsInv
<1>6. ASSUME initialize_ssdt \/ initialize_read_hook \/ launch_vm \/ vmexit_handler \/ UNCHANGED vars
      PROVE  VmcsInv'
  <2>1. UNCHANGED <<cpu, cr0, cr4, controls, crs, vmcs>>
    BY <1>6 DEF initialize_ssdt, initialize_read_hook, launch_vm, vmexit_handler, vars,
                registers, fields
  <2>2. \A d \in Control : at' \in Past(d) => at \in Past(d)
    BY <1>6 DEF initialize_ssdt, initialize_read_hook, launch_vm, vmexit_handler, vars, Past
  <2>3. at' \in AfterAreas => at \in AfterAreas
    BY <1>6 DEF initialize_ssdt, initialize_read_hook, launch_vm, vmexit_handler, vars
  <2>4. \A d \in Control : get_default_bits(cpu', d) = get_default_bits(cpu, d)
    BY <2>1 DEF get_default_bits
  <2> QED BY <2>1, <2>2, <2>3, <2>4 DEF VmcsInv
<1> QED BY <1>1, <1>2, <1>3, <1>4, <1>5, <1>6 DEF Next
-------------------------------------------------------------------------------
\* At the launch, VM entry accepts what the code has built exactly where the
\* guest can run.
LEMMA EntryDecides ==
    ASSUME TypeOK, StartInv, RootInv, VmcsInv, at = "launch"
    PROVE  EntryAllowed /\ GuestAllowed <=> Supported(cpu)
<1> USE DEF AfterControls, AfterAreas, InVmx, Control
<1>1. /\ current /\ vmcs_state = "clear" /\ Outside /\ Fixed(cpu, cr0, cr4)
      /\ CPU_BASED_ACTIVATE_SECONDARY_CONTROLS \in cpu.ctls["CPU"].high
      /\ crs["HOST_CR0"] = cr0 /\ crs["GUEST_CR0"] = cr0
      /\ crs["HOST_CR4"] = cr4 /\ crs["GUEST_CR4"] = cr4
      /\ vmcs["LINK_POINTER"] = "-1"
  BY DEF StartInv, RootInv, VmcsInv, Past
<1>2. cpu \in Processor
  BY DEF TypeOK
<1>3. \A c \in Control : controls[c] = Required(cpu, c).low \cup Wanted(c)
  <2>1. \A c \in Control : at \in Past(c)
    BY DEF Past
  <2> QED BY <1>2, <2>1, DefaultBitsAreRequired DEF VmcsInv
<1>4. \A c \in Control : Required(cpu, c).low \subseteq Required(cpu, c).high
  BY <1>2, ProcessorAssumption DEF Required
<1>5. \A c \in Control : /\ Required(cpu, c).low \subseteq controls[c]
                         /\ controls[c] \subseteq Required(cpu, c).high
                              <=> Wanted(c) \subseteq Required(cpu, c).high
  BY <1>3, <1>4
<1>6. Fixed(cpu, crs["HOST_CR0"], crs["HOST_CR4"])
  BY <1>1
<1>7. Fixed(cpu, crs["GUEST_CR0"] \cup (PG_PE \cap cpu.cr0_fixed1), crs["GUEST_CR4"])
  BY <1>1 DEF Fixed
<1>8. ~Faults(cpu)
  BY <1>1 DEF Faults, Outside
<1>9. LOCK_BIT \in cpu.feature_control => ENABLE_VMXON_OUTSIDE_SMX \in cpu.feature_control
  BY <1>1 DEF Outside
<1>10. EntryAllowed <=> /\ \A c \in Control : Wanted(c) \subseteq Required(cpu, c).high
                        /\ \A f \in EntryField : vmcs[f] # "refused"
  BY <1>1, <1>5, <1>6 DEF EntryAllowed
<1>11. GuestAllowed <=> \A f \in GuestField : vmcs[f] # "refused"
  BY <1>1, <1>7 DEF GuestAllowed
<1> QED BY <1>8, <1>9, <1>10, <1>11 DEF Supported

LEMMA Decided ==
    TypeOK /\ StartInv /\ RootInv /\ VmcsInv /\ OutcomeInv /\ [Next]_vars => OutcomeInv'
<1> SUFFICES ASSUME TypeOK, StartInv, RootInv, VmcsInv, OutcomeInv, [Next]_vars
             PROVE  OutcomeInv'
  OBVIOUS
\* What the outcome depends on stays.
<1>1. Faults(cpu)' = Faults(cpu) /\ Supported(cpu)' = Supported(cpu)
  <2>1. UNCHANGED cpu
    BY DEF Next, write_crs, check_feature_control, initialize_regions, vmxon, vmclear, vmptrld,
           write_control, write_areas, initialize_ssdt, initialize_read_hook, launch_vm,
           vmexit_handler, vars
  <2>2. \A f \in EntryField \cup GuestField : vmcs'[f] = vmcs[f]
    <3>1. CASE write_areas
      BY <3>1, NobodyWrites DEF TypeOK
    <3>2. CASE ~write_areas
      BY <3>2 DEF Next, write_crs, check_feature_control, initialize_regions, vmxon, vmclear,
                  vmptrld, write_control, initialize_ssdt, initialize_read_hook, launch_vm,
                  vmexit_handler, vars, fields
    <3> QED BY <3>1, <3>2
  <2> QED BY <2>1, <2>2 DEF Faults, Supported, Required
<1>2. Outcome' = Outcome
  BY <1>1 DEF Outcome
<1> USE DEF End, Fault
<1>3. CASE write_crs \/ initialize_regions \/ write_areas \/ initialize_ssdt \/ initialize_read_hook
  <2>1. at' \in {"feature_control", "vmxon", "ssdt", "read_hook", "launch"}
    BY <1>3 DEF write_crs, initialize_regions, write_areas, initialize_ssdt, initialize_read_hook
  <2> QED BY <2>1 DEF OutcomeInv, EndsAsSupported
<1>4. CASE check_feature_control
  <2>1. feature_control = cpu.feature_control
    BY <1>4 DEF check_feature_control, RootInv
  <2>2. at' \in {"regions", "panic", "wrmsr_faults"}
    BY <1>4 DEF check_feature_control
  <2>3. at' = "wrmsr_faults" => Faults(cpu)
    BY <1>4, <2>1 DEF check_feature_control, Faults
  <2>4. at' = "panic" => ~Faults(cpu) /\ ~Supported(cpu)
    BY <1>4, <2>1 DEF check_feature_control, Faults, Supported
  <2>5. at' \in End => at' \in Outcome
    BY <2>2, <2>3, <2>4 DEF Outcome
  <2> QED BY <1>2, <2>2, <2>5 DEF OutcomeInv, EndsAsSupported
<1>5. CASE vmxon
  <2>1. at = "vmxon" /\ LetThrough /\ Fixed(cpu, cr0, cr4) /\ "vmxon_region" \in revision
    BY <1>5 DEF vmxon, RootInv
  <2>2. at' \in {"vmclear", "vmxon_faults"} /\ (at' = "vmxon_faults" => ~VmxonAllowed)
    BY <1>5, <2>1 DEF vmxon
  <2>3. ~VmxonAllowed => Faults(cpu)
    BY <2>1 DEF VmxonAllowed, LetThrough, Faults
  <2> QED BY <1>2, <2>2, <2>3 DEF OutcomeInv, EndsAsSupported, Outcome
<1>6. CASE vmclear \/ vmptrld
  <2>1. at' \in {"vmptrld", "PIN"}
    BY <1>6 DEF vmclear, vmptrld, RootInv
  <2> QED BY <2>1 DEF OutcomeInv, EndsAsSupported
<1>7. ASSUME NEW c \in Control, write_control(c)
      PROVE  OutcomeInv'
  <2>1. at = c /\ at' \in {After(c), "rdmsr_faults"} /\ (at' = "rdmsr_faults" => ~CapabilityExists(c))
    BY <1>7 DEF write_control, After, Control
  <2>2. at' \in {"CPU", "SECONDARY", "EXIT", "ENTRY", "areas", "rdmsr_faults"}
    BY <2>1 DEF After, Control
  <2>3. Outside
    BY <2>1 DEF RootInv, InVmx
  <2>4. ~CapabilityExists(c) => Faults(cpu)
    BY <2>3 DEF CapabilityExists, Outside, Faults
  <2> QED BY <1>2, <2>1, <2>2, <2>4 DEF OutcomeInv, EndsAsSupported, Outcome
<1>8. CASE launch_vm
  <2>1. at = "launch"
    BY <1>8 DEF launch_vm
  <2>2. ~Faults(cpu)
    BY <2>1 DEF RootInv, VmcsInv, InVmx, Past, AfterControls, Control, Outside, Faults
  <2>3. EntryAllowed /\ GuestAllowed <=> Supported(cpu)
    BY <2>1, EntryDecides
  <2>4. \/ EntryAllowed /\ GuestAllowed /\ at' = "guest"
        \/ ~(EntryAllowed /\ GuestAllowed) /\ at' \in {"failed_entry", "panic"}
    BY <1>8 DEF launch_vm
  <2> QED BY <1>1, <1>2, <2>2, <2>3, <2>4 DEF OutcomeInv, EndsAsSupported, Outcome
<1>9. CASE vmexit_handler
  <2>1. at = "failed_entry" /\ at' = "panic"
    BY <1>9 DEF vmexit_handler
  <2> QED BY <1>2, <2>1 DEF OutcomeInv, EndsAsSupported, Outcome
<1>10. CASE UNCHANGED vars
  <2>1. at' = at
    BY <1>10 DEF vars
  <2> QED BY <1>1, <1>2, <2>1 DEF OutcomeInv, EndsAsSupported
<1> QED BY <1>3, <1>4, <1>5, <1>6, <1>7, <1>8, <1>9, <1>10 DEF Next

\* Whatever the processor and whatever the memory of the VMCS held, with no
\* condition on either: start-up ends in the guest, in a fault or in a panic
\* exactly where Outcome says.
THEOREM OutcomeDecided == Safety => []EndsAsSupported
<1>1. Init => StartInv /\ RootInv /\ VmcsInv /\ OutcomeInv
  BY DEF Init, StartInv, RootInv, VmcsInv, OutcomeInv, EndsAsSupported, AfterControls, AfterAreas,
         InVmx, Control, Past, End, Fault
<1>2. OutcomeInv => EndsAsSupported
  BY DEF OutcomeInv
<1> QED BY <1>1, <1>2, Started, Rooted, Filled, Decided, TypeCorrect, PTL DEF Safety
===============================================================================
