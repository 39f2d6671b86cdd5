------------------------------ MODULE VmExitProofs ----------------------------
(****************************************************************************)
(* For every guest program, every contents of the registers and MSRs, and   *)
(* every number of MSRs: the values keep their types, the hypercall's       *)
(* protection is permanent, and exits are invisible to the guest but for    *)
(* what VirtualMachine says they do.                                        *)
(****************************************************************************)
EXTENDS VmExit, TLAPS

\* The wrapper and the C handlers agree on where each register is, and no two
\* registers share a place (wrappers.asm:13, vmm.h:10).
LEMMA SameOffsets == registers_t = fs
BY DEF registers_t, fs

LEMMA OffsetsDistinct ==
    /\ \A name \in GPR : fs[name] \in Offset /\ fs[name] # fs.rsp /\ fs[name] # fs.rip
    /\ \A m, n \in GPR : fs[m] = fs[n] => m = n
    /\ \A offset \in Offset : offset # fs.rsp /\ offset # fs.rip => \E name \in GPR : fs[name] = offset
    /\ fs.rsp \in Offset /\ fs.rip \in Offset /\ fs.rsp # fs.rip
<1>1. DOMAIN fs = GPR \cup {"rsp", "rip"}
  BY DEF fs, GPR
<1>2. \A name \in GPR : fs[name] # fs.rsp /\ fs[name] # fs.rip
  BY DEF fs, GPR
<1>3. \A m, n \in GPR : fs[m] = fs[n] => m = n
  BY DEF fs, GPR
<1>4. fs.rsp # fs.rip
  BY DEF fs
<1> QED BY <1>1, <1>2, <1>3, <1>4 DEF Offset

\* The results of MsrBitmapsProofs, for the bitmaps of this module.
BitmapsProofs == INSTANCE MsrBitmapsProofs WITH Msr <- AnyMsr, panicked <- (mode = "panic")

LEMMA SameBitmaps ==
    /\ BitmapsProofs!BitmapAssumption
    /\ BitmapsProofs!Monitorable = Bitmaps!Monitorable
    /\ BitmapsProofs!PageBits = Bitmaps!PageBits
    /\ \A m : /\ BitmapsProofs!ReadBit(m) = Bitmaps!ReadBit(m)
             /\ BitmapsProofs!WriteBit(m) = Bitmaps!WriteBit(m)
<1> USE DEF Bitmaps!MIN_LOW_MSR, BitmapsProofs!MIN_LOW_MSR, Bitmaps!MAX_LOW_MSR,
            BitmapsProofs!MAX_LOW_MSR, Bitmaps!MAX_HIGH_MSR, BitmapsProofs!MAX_HIGH_MSR,
            Bitmaps!LowMsr, BitmapsProofs!LowMsr, Bitmaps!HighMsr, BitmapsProofs!HighMsr,
            Bitmaps!PageBits, BitmapsProofs!PageBits, Bitmaps!Monitorable, BitmapsProofs!Monitorable
<1>1. BitmapsProofs!BitmapAssumption
  BY BitmapAssumption DEF BitmapsProofs!BitmapAssumption
<1>2. \A m : /\ BitmapsProofs!ReadBit(m) = Bitmaps!ReadBit(m)
            /\ BitmapsProofs!WriteBit(m) = Bitmaps!WriteBit(m)
  BY DEF BitmapsProofs!ReadBit, Bitmaps!ReadBit, BitmapsProofs!WriteBit, Bitmaps!WriteBit,
         BitmapsProofs!BITMAP_FOR_WRMSR, Bitmaps!BITMAP_FOR_WRMSR
<1> QED BY <1>1, <1>2

LEMMA SameExits ==
    ASSUME NEW bits, NEW m
    PROVE  /\ BitmapsProofs!RdmsrExits(bits, m) <=> Bitmaps!RdmsrExits(bits, m)
           /\ BitmapsProofs!WrmsrExits(bits, m) <=> Bitmaps!WrmsrExits(bits, m)
BY DEF Bitmaps!MIN_LOW_MSR, BitmapsProofs!MIN_LOW_MSR, Bitmaps!MAX_LOW_MSR,
       BitmapsProofs!MAX_LOW_MSR, Bitmaps!MAX_HIGH_MSR, BitmapsProofs!MAX_HIGH_MSR,
       Bitmaps!LowMsr, BitmapsProofs!LowMsr, Bitmaps!HighMsr, BitmapsProofs!HighMsr,
       Bitmaps!Monitorable, BitmapsProofs!Monitorable, BitmapsProofs!RdmsrExits,
       Bitmaps!RdmsrExits, BitmapsProofs!WrmsrExits, Bitmaps!WrmsrExits,
       BitmapsProofs!PageBit, Bitmaps!PageBit

\* One more bit of monitor_wrmsr intercepts one more MSR's writes, and no reads.
LEMMA ProtectMsr ==
    ASSUME NEW m \in Bitmaps!Monitorable, NEW bits
    PROVE  /\ Bitmaps!WriteBit(m) \in Bitmaps!PageBits
           /\ \A n : Bitmaps!WrmsrExits(bits \cup {Bitmaps!WriteBit(m)}, n)
                       <=> Bitmaps!WrmsrExits(bits, n) \/ n = m
           /\ \A n : Bitmaps!RdmsrExits(bits \cup {Bitmaps!WriteBit(m)}, n)
                       <=> Bitmaps!RdmsrExits(bits, n)
<1>1. Bitmaps!WriteBit(m) \in Bitmaps!PageBits
  BY SameBitmaps, BitmapsProofs!WriteBitInPage
<1>2. \A n \in Bitmaps!Monitorable : \A b :
         /\ Bitmaps!RdmsrExits(b, n) <=> Bitmaps!ReadBit(n) \in b
         /\ Bitmaps!WrmsrExits(b, n) <=> Bitmaps!WriteBit(n) \in b
  <2> SUFFICES ASSUME NEW n \in Bitmaps!Monitorable, NEW b
               PROVE  /\ Bitmaps!RdmsrExits(b, n) <=> Bitmaps!ReadBit(n) \in b
                      /\ Bitmaps!WrmsrExits(b, n) <=> Bitmaps!WriteBit(n) \in b
    OBVIOUS
  <2>1. n \in BitmapsProofs!Monitorable /\ BitmapsProofs!BitmapAssumption
    BY SameBitmaps
  <2>2. BitmapsProofs!RdmsrExits(b, n) <=> BitmapsProofs!ReadBit(n) \in b
    BY <2>1, BitmapsProofs!ReadBitIsConsulted
  <2>3. BitmapsProofs!WrmsrExits(b, n) <=> BitmapsProofs!WriteBit(n) \in b
    BY <2>1, BitmapsProofs!WriteBitIsConsulted
  <2>4. BitmapsProofs!ReadBit(n) = Bitmaps!ReadBit(n) /\ BitmapsProofs!WriteBit(n) = Bitmaps!WriteBit(n)
    BY SameBitmaps
  <2>5. /\ BitmapsProofs!RdmsrExits(b, n) <=> Bitmaps!RdmsrExits(b, n)
        /\ BitmapsProofs!WrmsrExits(b, n) <=> Bitmaps!WrmsrExits(b, n)
    BY SameExits
  <2> QED BY <2>2, <2>3, <2>4, <2>5, Zenon
<1>3. \A n \in Bitmaps!Monitorable :
         /\ Bitmaps!WriteBit(m) = Bitmaps!WriteBit(n) => m = n
         /\ Bitmaps!ReadBit(n) # Bitmaps!WriteBit(m)
  BY SameBitmaps, BitmapsProofs!BitsAreDistinct
<1>4. \A n, b : n \notin Bitmaps!Monitorable => Bitmaps!RdmsrExits(b, n) /\ Bitmaps!WrmsrExits(b, n)
  BY DEF Bitmaps!RdmsrExits, Bitmaps!WrmsrExits
<1> QED BY <1>1, <1>2, <1>3, <1>4

\* Bits are only ever added, so an intercepted write stays so.
LEMMA ExitsMonotone ==
    ASSUME NEW a, NEW b, a \subseteq b, NEW m, Bitmaps!WrmsrExits(a, m)
    PROVE  Bitmaps!WrmsrExits(b, m)
BY DEF Bitmaps!WrmsrExits
-------------------------------------------------------------------------------
LEMMA SaveArea ==
    ASSUME TypeOK, save
    PROVE  /\ area' \in [Offset -> Int]
           /\ area'[fs.rsp] = vmcs.rsp /\ area'[fs.rip] = vmcs.rip
           /\ \A name \in GPR : area'[fs[name]] = regs[name]
<1>1. area' = [offset \in Offset |->
                 CASE offset = fs.rsp -> vmcs.rsp
                   [] offset = fs.rip -> vmcs.rip
                   [] OTHER -> regs[CHOOSE name \in GPR : fs[name] = offset]]
  BY DEF save
<1>2. area'[fs.rsp] = vmcs.rsp /\ area'[fs.rip] = vmcs.rip
  BY <1>1, OffsetsDistinct
<1>3. ASSUME NEW name \in GPR
      PROVE  area'[fs[name]] = regs[name]
  <2>1. (CHOOSE other \in GPR : fs[other] = fs[name]) = name
    BY OffsetsDistinct
  <2> QED BY <1>1, <2>1, OffsetsDistinct
<1>4. \A offset \in Offset : area'[offset] \in Int
  <2>1. \A offset \in Offset :
          offset = fs.rsp \/ offset = fs.rip \/ \E name \in GPR : fs[name] = offset
    BY OffsetsDistinct
  <2> QED BY <2>1, <1>2, <1>3 DEF TypeOK
<1>5. DOMAIN area' = Offset
  BY <1>1
<1>6. area' = [offset \in Offset |-> area'[offset]]
  BY <1>1
<1> QED BY <1>2, <1>3, <1>4, <1>6

VmcsType == [rip : Int, rsp : Int, reason : Reason, length : Int, gpa : Gpa]

LEMMA VmcsLeave ==
    ASSUME NEW v \in VmcsType, NEW reason \in Reason, NEW length \in Int, NEW gpa \in Gpa
    PROVE  [v EXCEPT !.reason = reason, !.length = length, !.gpa = gpa]
             = [rip |-> v.rip, rsp |-> v.rsp, reason |-> reason, length |-> length, gpa |-> gpa]
<1> DEFINE a == [v EXCEPT !.reason = reason]
           b == [a EXCEPT !.length = length]
<1>1. a = [rip |-> v.rip, rsp |-> v.rsp, reason |-> reason, length |-> v.length, gpa |-> v.gpa]
  BY DEF VmcsType
<1>2. b = [rip |-> v.rip, rsp |-> v.rsp, reason |-> reason, length |-> length, gpa |-> v.gpa]
  <2> HIDE DEF a
  <2> QED BY <1>1
<1>3. [v EXCEPT !.reason = reason, !.length = length, !.gpa = gpa] = [b EXCEPT !.gpa = gpa]
  OBVIOUS
<1> HIDE DEF a, b
<1> QED BY <1>2, <1>3

LEMMA VmcsGoto ==
    ASSUME NEW v \in VmcsType, NEW rip \in Int
    PROVE  [v EXCEPT !.rip = rip]
             = [rip |-> rip, rsp |-> v.rsp, reason |-> v.reason, length |-> v.length, gpa |-> v.gpa]
BY DEF VmcsType

LEMMA VmcsReturn ==
    ASSUME NEW v \in VmcsType, NEW rip \in Int, NEW rsp \in Int
    PROVE  [v EXCEPT !.rsp = rsp, !.rip = rip]
             = [rip |-> rip, rsp |-> rsp, reason |-> v.reason, length |-> v.length, gpa |-> v.gpa]
<1> DEFINE a == [v EXCEPT !.rsp = rsp]
<1>1. a = [rip |-> v.rip, rsp |-> rsp, reason |-> v.reason, length |-> v.length, gpa |-> v.gpa]
  BY DEF VmcsType
<1>2. [v EXCEPT !.rsp = rsp, !.rip = rip] = [a EXCEPT !.rip = rip]
  OBVIOUS
<1> HIDE DEF a
<1> QED BY <1>1, <1>2

\* Every value keeps its type, whatever the guest does.
THEOREM TypeCorrect == Safety => []TypeOK
<1>1. Init => TypeOK
  BY GuestAssumption, HostAssumption, BitmapAssumption DEF Init, TypeOK, Reason, Gpa
<1>2. TypeOK /\ [Next]_vars => TypeOK'
  <2> SUFFICES ASSUME TypeOK, [Next]_vars PROVE TypeOK'
    OBVIOUS
  <2> USE DEF TypeOK
  <2>1. ASSUME mode = "guest", vmcs.rip \in DOMAIN Program
        PROVE  /\ Instruction.op \in Op /\ Instruction.gpa \in Gpa
               /\ Length[Instruction.op] \in Nat
    BY <2>1, GuestAssumption DEF Instruction
  <2>2. ASSUME NEW reason \in Reason, NEW lengths, lengths \subseteq Nat, NEW gpa \in Gpa,
               Leave(reason, lengths, gpa)
        PROVE  TypeOK'
    <3>1. PICK length \in lengths :
            vmcs' = [vmcs EXCEPT !.reason = reason, !.length = length, !.gpa = gpa]
      BY <2>2 DEF Leave
    <3>2. vmcs \in VmcsType /\ length \in Int
      BY <2>2 DEF VmcsType
    <3>3. vmcs' = [rip |-> vmcs.rip, rsp |-> vmcs.rsp, reason |-> reason,
                   length |-> length, gpa |-> gpa]
      <4> HIDE DEF TypeOK
      <4> QED BY <3>1, <3>2, VmcsLeave
    <3>4. vmcs' \in VmcsType
      BY <3>2, <3>3 DEF VmcsType
    <3> QED BY <2>2, <3>4 DEF Leave, VmcsType
  <2>3. CASE Ordinary
    <3>1. PICK write \in Write, target \in Target :
            /\ regs' = [regs EXCEPT ![write[1]] = write[2]]
            /\ vmcs' = [vmcs EXCEPT !.rip = target]
      BY <2>3 DEF Ordinary
    <3>2. write[1] \in GPR /\ write[2] \in Int /\ target \in Int
      BY GuestAssumption
    <3> QED BY <2>3, <3>1, <3>2 DEF Ordinary
  <2>4. CASE Hlt
    BY <2>4, <2>1, <2>2 DEF Hlt, At, Intercepted, Reason
  <2>5. CASE Vmcall
    BY <2>5, <2>1, <2>2 DEF Vmcall, At, Intercepted, Reason
  <2>6. CASE Other
    BY <2>6, <2>1, <2>2 DEF Other, At, Intercepted, Reason
  <2>7. CASE Access
    <3>1. /\ Instruction.gpa \in Gpa
          /\ {Length[Instruction.op]} \cup EptLength \subseteq Nat
      BY <2>7, <2>1, HostAssumption DEF Access, At
    <3> QED BY <2>7, <3>1, <2>2 DEF Access, Reason
  <2>8. CASE Rdmsr
    <3>1. CASE Bitmaps!RdmsrExits(msr_bitmaps, regs["rcx"]) /\ Intercepted("MSR_READ")
      BY <2>8, <3>1, <2>1, <2>2 DEF Rdmsr, At, Intercepted, Reason
    <3>2. CASE /\ ~Bitmaps!RdmsrExits(msr_bitmaps, regs["rcx"])
               /\ regs' = [regs EXCEPT !["rax"] = msr[regs["rcx"]]]
               /\ Complete
               /\ UNCHANGED <<mode, area, msr, msr_bitmaps>>
      <4>1. regs["rcx"] \in DOMAIN InitialMsr
        BY <2>8, <3>2, HostAssumption DEF Rdmsr, Bitmaps!RdmsrExits
      <4>2. msr[regs["rcx"]] \in Int
        BY <4>1
      <4>3. regs' \in [GPR -> Int]
        BY <3>2, <4>2
      <4>4. vmcs' = [vmcs EXCEPT !.rip = @ + Length[Instruction.op]] /\ Length[Instruction.op] \in Nat
        BY <2>8, <3>2, <2>1 DEF Rdmsr, At, Complete
      <4>5. vmcs' \in VmcsType
        BY <4>4, VmcsGoto DEF VmcsType
      <4> QED BY <3>2, <4>3, <4>5 DEF VmcsType
    <3> QED BY <2>8, <3>1, <3>2 DEF Rdmsr
  <2>9. CASE Wrmsr
    <3>1. CASE Bitmaps!WrmsrExits(msr_bitmaps, regs["rcx"]) /\ Intercepted("MSR_WRITE")
      BY <2>9, <3>1, <2>1, <2>2 DEF Wrmsr, At, Intercepted, Reason
    <3>2. CASE /\ ~Bitmaps!WrmsrExits(msr_bitmaps, regs["rcx"])
               /\ msr' = [msr EXCEPT ![regs["rcx"]] = regs["rax"]]
               /\ Complete
               /\ UNCHANGED <<mode, regs, area, msr_bitmaps>>
      <4>1. regs["rax"] \in Int
        BY DEF GPR
      <4>2. msr' \in [DOMAIN InitialMsr -> Int]
        BY <3>2, <4>1
      <4>3. vmcs' = [vmcs EXCEPT !.rip = @ + Length[Instruction.op]] /\ Length[Instruction.op] \in Nat
        BY <2>9, <3>2, <2>1 DEF Wrmsr, At, Complete
      <4>4. vmcs' \in VmcsType
        BY <4>3, VmcsGoto DEF VmcsType
      <4> QED BY <3>2, <4>2, <4>4 DEF VmcsType
    <3> QED BY <2>9, <3>1, <3>2 DEF Wrmsr
  <2>10. CASE save
    <3>1. regs' \in [GPR -> Int]
      <4> DEFINE a == [regs EXCEPT !["rax"] = VMCS_GUEST_RIP]
      <4>1. a \in [GPR -> Int]
        <5>1. VMCS_GUEST_RIP \in Int
          BY DEF VMCS_GUEST_RIP
        <5> QED BY <5>1
      <4>2. regs' = [a EXCEPT !["rbx"] = vmcs.rip]
        BY <2>10 DEF save
      <4> HIDE DEF a
      <4> QED BY <4>1, <4>2
    <3> QED BY <2>10, <3>1, SaveArea DEF save
  <2>11. CASE vmexit_handler
    <3>1. regs' \in [GPR -> Int] /\ UNCHANGED <<vmcs, msr>>
      BY <2>11, HostAssumption DEF vmexit_handler
    <3>2. skip => area' \in [Offset -> Int]
      BY SameOffsets, OffsetsDistinct DEF skip
    <3>3. ept_misconfig_handler => area' \in [Offset -> Int]
      <4>1. ssdt[vmcs.gpa.index] \in Int /\ vmcs.gpa.index \in Int
        BY HostAssumption DEF Gpa
      <4> QED BY <3>2, <4>1, HostAssumption DEF ept_misconfig_handler
    <3>4. vmcall_handler => msr_bitmaps' \subseteq Bitmaps!PageBits
      <4>1. \A m \in SyscallMsr : Bitmaps!WriteBit(m) \in Bitmaps!PageBits
        BY HostAssumption, ProtectMsr
      <4> QED BY <4>1 DEF vmcall_handler, SyscallMsr
    <3>5. /\ area' \in [Offset -> Int]
          /\ msr_bitmaps' \subseteq Bitmaps!PageBits
          /\ mode' \in {"restore", "panic"}
      BY <2>11, <3>2, <3>3, <3>4
      DEF vmexit_handler, halt_handler, rdmsr_handler, wrmsr_handler,
          ept_violation_handler, ept_misconfig_handler, vmcall_handler, unsupported
    <3> QED BY <3>1, <3>5
  <2>12. CASE restore
    <3>1. \A name \in GPR : area[fs[name]] \in Int
      BY OffsetsDistinct
    <3>2. area[fs.rsp] \in Int /\ area[fs.rip] \in Int
      BY OffsetsDistinct
    <3> QED BY <2>12, <3>1, <3>2 DEF restore
  <2>13. CASE UNCHANGED vars
    BY <2>13 DEF vars
  <2> QED BY <2>3, <2>4, <2>5, <2>6, <2>7, <2>8, <2>9, <2>10, <2>11, <2>12, <2>13 DEF Next
<1> QED BY <1>1, <1>2, PTL DEF Safety
-------------------------------------------------------------------------------
\* The hypercall's protection takes effect before the guest runs again, and
\* nothing ends it: the only write of an MSR is the guest's own, and it leaves
\* the guest when the MSR is protected (vmexit.c:57).
THEOREM Protection == Safety => VmcallProtects
<1>1. \A m \in SyscallMsr : m \in Bitmaps!Monitorable
  BY HostAssumption
<1>2. TypeOK /\ [Next]_vars =>
        [/\ Protected => Protected' /\ \A m \in SyscallMsr : msr'[m] = msr[m]
         /\ mode = "handle" /\ vmcs.reason = "VMCALL" /\ mode' = "restore" => Protected']_vars
  <2> SUFFICES ASSUME Next
               PROVE  /\ Protected => Protected' /\ \A m \in SyscallMsr : msr'[m] = msr[m]
                      /\ mode = "handle" /\ vmcs.reason = "VMCALL" /\ mode' = "restore" => Protected'
    BY DEF vars
  <2>1. msr_bitmaps \subseteq msr_bitmaps'
    BY DEF Next, Ordinary, Hlt, Rdmsr, Wrmsr, Access, Vmcall, Other, Intercepted, Leave, save,
           restore, vmexit_handler, halt_handler, rdmsr_handler, wrmsr_handler,
           ept_violation_handler, ept_misconfig_handler, vmcall_handler, unsupported
  <2>2. Protected => Protected'
    BY <2>1, ExitsMonotone DEF Protected
  <2>3. ASSUME Protected, NEW m \in SyscallMsr
        PROVE  msr'[m] = msr[m]
    <3>1. CASE UNCHANGED msr
      BY <3>1
    <3>2. CASE ~UNCHANGED msr
      <4>1. /\ Wrmsr
            /\ ~Bitmaps!WrmsrExits(msr_bitmaps, regs["rcx"])
            /\ msr' = [msr EXCEPT ![regs["rcx"]] = regs["rax"]]
        BY <3>2 DEF Next, Ordinary, Hlt, Rdmsr, Wrmsr, Access, Vmcall, Other, Intercepted, Leave,
                    save, restore, vmexit_handler
      <4>2. regs["rcx"] # m
        BY <4>1, <2>3 DEF Protected
      <4> QED BY <4>1, <4>2
    <3> QED BY <3>1, <3>2
  <2>4. ASSUME mode = "handle", vmcs.reason = "VMCALL", mode' = "restore"
        PROVE  Protected'
    <3>1. \A m \in SyscallMsr : Bitmaps!WriteBit(m) \in msr_bitmaps'
      BY <2>4 DEF Next, Ordinary, Hlt, Rdmsr, Wrmsr, Access, Vmcall, Other, At, save, restore,
                  vmexit_handler, vmcall_handler, SyscallMsr
    <3>2. \A m \in SyscallMsr : Bitmaps!WrmsrExits({Bitmaps!WriteBit(m)}, m)
      BY <1>1, ProtectMsr
    <3>3. \A m \in SyscallMsr : Bitmaps!WrmsrExits(msr_bitmaps', m)
      BY <3>1, <3>2, ExitsMonotone
    <3> QED BY <3>3 DEF Protected
  <2> QED BY <2>2, <2>3, <2>4
<1> QED BY <1>2, TypeCorrect, PTL DEF Safety, VmcallProtects
-------------------------------------------------------------------------------
\* From the exit to the handler: the host looks at the instruction the guest
\* is at, for the reason that belongs to it.
ExitInv ==
    mode \in {"save", "handle"} =>
      /\ vmcs.rip \in DOMAIN Program
      /\ vmcs.rip = Guest.rip
      /\ vmcs.length = Length[Instruction.op]
      /\ \/ vmcs.reason = "HLT" /\ Instruction.op = "hlt"
         \/ /\ vmcs.reason = "MSR_READ" /\ Instruction.op = "rdmsr"
            /\ Guest.regs["rcx"] \in AnyMsr
            /\ Bitmaps!RdmsrExits(msr_bitmaps, Guest.regs["rcx"])
         \/ /\ vmcs.reason = "MSR_WRITE" /\ Instruction.op = "wrmsr"
            /\ Guest.regs["rcx"] \in AnyMsr
            /\ Bitmaps!WrmsrExits(msr_bitmaps, Guest.regs["rcx"])
         \/ vmcs.reason = "VMCALL" /\ Instruction.op = "vmcall"
         \/ vmcs.reason = "OTHER" /\ Instruction.op = "other"
         \/ /\ vmcs.reason = "EPT_VIOLATION" /\ Instruction.op \in {"load", "store"}
            /\ Instruction.gpa.page # SsdtPage
         \/ /\ vmcs.reason = "EPT_MISCONFIG" /\ Instruction.op \in {"load", "store"}
            /\ vmcs.gpa = Instruction.gpa

Running == [regs |-> regs, rsp |-> vmcs.rsp, rip |-> vmcs.rip]
Saved == [regs |-> [name \in GPR |-> area[registers_t[name]]],
          rsp |-> area[registers_t.rsp], rip |-> area[registers_t.rip]]

LEMMA WhereGuestIs ==
    /\ mode \in {"guest", "save"} => Guest = Running
    /\ mode \in {"handle", "restore"} => Guest = Saved
BY DEF Guest, Running, Saved

\* The wrapper hands every register over, in both directions.
LEMMA SaveKeeps ==
    ASSUME TypeOK, save
    PROVE  Guest' = Guest
<1>1. /\ mode = "save" /\ mode' = "handle"
  BY DEF save
<1>2. Guest = Running
  BY <1>1, WhereGuestIs
<1>3. Guest' = Saved'
  BY <1>1 DEF Guest, Saved
<1>4. /\ area'[registers_t.rsp] = vmcs.rsp /\ area'[registers_t.rip] = vmcs.rip
      /\ \A name \in GPR : area'[registers_t[name]] = regs[name]
  BY SaveArea, SameOffsets
<1>5. regs = [name \in GPR |-> regs[name]]
  BY DEF TypeOK
<1>6. [name \in GPR |-> area'[registers_t[name]]] = regs
  BY <1>4, <1>5
<1> QED BY <1>2, <1>3, <1>4, <1>6 DEF Saved, Running

LEMMA RestoreKeeps ==
    ASSUME TypeOK, restore
    PROVE  Guest' = Guest
<1>1. /\ mode = "restore" /\ mode' = "guest"
  BY DEF restore
<1>2. Guest = Saved
  BY <1>1, WhereGuestIs
<1>3. Guest' = Running'
  BY <1>1 DEF Guest, Running
<1>4. regs' = [name \in GPR |-> area[registers_t[name]]]
  BY SameOffsets DEF restore
<1>5. vmcs \in VmcsType /\ area[fs.rip] \in Int /\ area[fs.rsp] \in Int
  BY OffsetsDistinct DEF TypeOK, VmcsType
<1>6. vmcs' = [vmcs EXCEPT !.rsp = area[fs.rsp], !.rip = area[fs.rip]]
  BY DEF restore
<1>7. vmcs' = [rip |-> area[fs.rip], rsp |-> area[fs.rsp], reason |-> vmcs.reason,
               length |-> vmcs.length, gpa |-> vmcs.gpa]
  BY <1>5, <1>6, VmcsReturn
<1>8. vmcs'.rsp = area[fs.rsp] /\ vmcs'.rip = area[fs.rip]
  BY <1>7
<1>9. vmcs'.rsp = area[registers_t.rsp] /\ vmcs'.rip = area[registers_t.rip]
  BY <1>8, SameOffsets
<1> QED BY <1>2, <1>3, <1>4, <1>9 DEF Saved, Running

\* Leaving the guest changes nothing the guest can see.
LEMMA LeaveKeeps ==
    ASSUME TypeOK, mode = "guest", NEW reason \in Reason, NEW length \in Int, NEW gpa \in Gpa,
           Leave(reason, {length}, gpa)
    PROVE  /\ Guest' = Guest
           /\ vmcs'.rip = vmcs.rip /\ vmcs'.reason = reason
           /\ vmcs'.length = length /\ vmcs'.gpa = gpa
<1>1. vmcs' = [vmcs EXCEPT !.reason = reason, !.length = length, !.gpa = gpa]
  BY DEF Leave
<1>2. vmcs \in VmcsType
  BY DEF TypeOK, VmcsType
<1>3. vmcs' = [rip |-> vmcs.rip, rsp |-> vmcs.rsp, reason |-> reason,
               length |-> length, gpa |-> gpa]
  BY <1>1, <1>2, VmcsLeave
<1>4. Guest' = Running'
  BY DEF Leave, Guest, Running
<1>5. Guest = Running
  BY WhereGuestIs
<1>6. Running' = Running
  BY <1>3 DEF Running, Leave
<1> QED BY <1>3, <1>4, <1>5, <1>6

\* A handler's skip moves the saved rip on and leaves the rest as it is.
LEMMA SkipMoves ==
    ASSUME TypeOK, mode = "handle", skip, mode' = "restore"
    PROVE  Guest' = [regs |-> Guest.regs, rsp |-> Guest.rsp, rip |-> Guest.rip + vmcs.length]
<1>1. Guest = Saved
  BY WhereGuestIs
<1>2. Guest' = Saved'
  BY DEF Guest, Saved
<1>3. /\ area'[registers_t.rip] = area[registers_t.rip] + vmcs.length
      /\ area'[registers_t.rsp] = area[registers_t.rsp]
      /\ \A name \in GPR : area'[registers_t[name]] = area[registers_t[name]]
  BY SameOffsets, OffsetsDistinct DEF skip, TypeOK
<1> QED BY <1>1, <1>2, <1>3 DEF Saved

\* How an intercepted instruction leaves, whatever the reason.
LEMMA LeaveInv ==
    ASSUME TypeOK, mode = "guest", vmcs.rip \in DOMAIN Program,
           NEW reason \in Reason, NEW gpa \in Gpa,
           Leave(reason, {Length[Instruction.op]}, gpa)
    PROVE  /\ Guest' = Guest /\ Guest = Running
           /\ vmcs'.rip = vmcs.rip /\ vmcs'.rip = Guest'.rip
           /\ Instruction' = Instruction
           /\ vmcs'.reason = reason /\ vmcs'.gpa = gpa
           /\ vmcs'.length = Length[Instruction.op]
           /\ msr_bitmaps' = msr_bitmaps /\ mode' = "save"
<1>1. Length[Instruction.op] \in Int
  BY GuestAssumption DEF Instruction
<1>2. /\ Guest' = Guest /\ vmcs'.rip = vmcs.rip
      /\ vmcs'.reason = reason /\ vmcs'.gpa = gpa /\ vmcs'.length = Length[Instruction.op]
  BY <1>1, LeaveKeeps
<1>3. Guest = Running
  BY WhereGuestIs
<1> QED BY <1>2, <1>3 DEF Running, Instruction, Leave

LEMMA ExitMatches ==
    ASSUME EptLength = {}
    PROVE  TypeOK /\ ExitInv /\ [Next]_vars => ExitInv'
<1> SUFFICES ASSUME TypeOK, ExitInv, [Next]_vars PROVE ExitInv'
  OBVIOUS
<1>0. ASSUME vmcs.rip \in DOMAIN Program
      PROVE  Instruction.op \in Op /\ Instruction.gpa \in Gpa
  BY <1>0, GuestAssumption DEF Instruction
<1>g. vmcs.gpa \in Gpa
  BY DEF TypeOK
<1>1. ASSUME mode' \notin {"save", "handle"}
      PROVE  ExitInv'
  BY <1>1 DEF ExitInv
<1>2. CASE Ordinary
  BY <1>1, <1>2 DEF Ordinary, At
<1>3. CASE Hlt
  <2>1. mode = "guest" /\ vmcs.rip \in DOMAIN Program /\ Instruction.op = "hlt"
        /\ Leave("HLT", {Length[Instruction.op]}, vmcs.gpa)
    BY <1>3 DEF Hlt, At, Intercepted
  <2> QED BY <2>1, <1>g, LeaveInv DEF ExitInv, Reason
<1>4. CASE Vmcall
  <2>1. mode = "guest" /\ vmcs.rip \in DOMAIN Program /\ Instruction.op = "vmcall"
        /\ Leave("VMCALL", {Length[Instruction.op]}, vmcs.gpa)
    BY <1>4 DEF Vmcall, At, Intercepted
  <2> QED BY <2>1, <1>g, LeaveInv DEF ExitInv, Reason
<1>5. CASE Other
  <2>1. mode = "guest" /\ vmcs.rip \in DOMAIN Program /\ Instruction.op = "other"
        /\ Leave("OTHER", {Length[Instruction.op]}, vmcs.gpa)
    BY <1>5 DEF Other, At, Intercepted
  <2> QED BY <2>1, <1>g, LeaveInv DEF ExitInv, Reason
<1>6. CASE Rdmsr
  <2>1. CASE Bitmaps!RdmsrExits(msr_bitmaps, regs["rcx"]) /\ Intercepted("MSR_READ")
    <3>1. /\ mode = "guest" /\ vmcs.rip \in DOMAIN Program /\ Instruction.op = "rdmsr"
          /\ regs["rcx"] \in AnyMsr
          /\ Leave("MSR_READ", {Length[Instruction.op]}, vmcs.gpa)
      BY <1>6, <2>1 DEF Rdmsr, At, Intercepted
    <3>2. /\ Guest' = Guest /\ Guest = Running
          /\ vmcs'.rip = vmcs.rip /\ vmcs'.rip = Guest'.rip
          /\ Instruction' = Instruction
          /\ vmcs'.reason = "MSR_READ"
          /\ vmcs'.length = Length[Instruction.op]
          /\ msr_bitmaps' = msr_bitmaps
      BY <3>1, <1>g, LeaveInv DEF Reason
    <3>3. Guest'.regs["rcx"] = regs["rcx"]
      BY <3>2 DEF Running
    <3>4. Bitmaps!RdmsrExits(msr_bitmaps', Guest'.regs["rcx"])
      BY <3>2, <3>3, <2>1, Zenon
    <3> QED BY <3>1, <3>2, <3>3, <3>4 DEF ExitInv
  <2>2. CASE UNCHANGED mode
    BY <1>6, <2>2, <1>1 DEF Rdmsr, At
  <2> QED BY <1>6, <2>1, <2>2 DEF Rdmsr
<1>7. CASE Wrmsr
  <2>1. CASE Bitmaps!WrmsrExits(msr_bitmaps, regs["rcx"]) /\ Intercepted("MSR_WRITE")
    <3>1. /\ mode = "guest" /\ vmcs.rip \in DOMAIN Program /\ Instruction.op = "wrmsr"
          /\ regs["rcx"] \in AnyMsr
          /\ Leave("MSR_WRITE", {Length[Instruction.op]}, vmcs.gpa)
      BY <1>7, <2>1 DEF Wrmsr, At, Intercepted
    <3>2. /\ Guest' = Guest /\ Guest = Running
          /\ vmcs'.rip = vmcs.rip /\ vmcs'.rip = Guest'.rip
          /\ Instruction' = Instruction
          /\ vmcs'.reason = "MSR_WRITE"
          /\ vmcs'.length = Length[Instruction.op]
          /\ msr_bitmaps' = msr_bitmaps
      BY <3>1, <1>g, LeaveInv DEF Reason
    <3>3. Guest'.regs["rcx"] = regs["rcx"]
      BY <3>2 DEF Running
    <3>4. Bitmaps!WrmsrExits(msr_bitmaps', Guest'.regs["rcx"])
      BY <3>2, <3>3, <2>1, Zenon
    <3> QED BY <3>1, <3>2, <3>3, <3>4 DEF ExitInv
  <2>2. CASE UNCHANGED mode
    BY <1>7, <2>2, <1>1 DEF Wrmsr, At
  <2> QED BY <1>7, <2>1, <2>2 DEF Wrmsr
<1>8. CASE Access
  <2> DEFINE gpa == Instruction.gpa
             reason == IF Ept[gpa.page] = "misconfigured" THEN "EPT_MISCONFIG" ELSE "EPT_VIOLATION"
  <2>1. /\ mode = "guest" /\ vmcs.rip \in DOMAIN Program /\ Instruction.op \in {"load", "store"}
    BY <1>8 DEF Access, At
  <2>2. gpa \in Gpa /\ reason \in Reason
    BY <2>1, <1>0 DEF Reason
  <2>3. Leave(reason, {Length[Instruction.op]}, gpa)
    BY <1>8 DEF Access
  <2>4. /\ Guest' = Guest /\ vmcs'.rip = vmcs.rip /\ vmcs'.rip = Guest'.rip
        /\ Instruction' = Instruction
        /\ vmcs'.reason = reason /\ vmcs'.gpa = gpa
        /\ vmcs'.length = Length[Instruction.op]
    <3> HIDE DEF gpa, reason
    <3> QED BY <2>1, <2>2, <2>3, LeaveInv
  <2>5. reason = "EPT_VIOLATION" => gpa.page # SsdtPage
    BY HostAssumption
  <2> QED BY <2>1, <2>4, <2>5 DEF ExitInv
<1>9. CASE save
  <2>1. /\ Guest' = Guest /\ mode = "save" /\ UNCHANGED <<vmcs, msr_bitmaps>>
    BY <1>9, SaveKeeps DEF save
  <2>2. Bitmaps!RdmsrExits(msr_bitmaps', Guest'.regs["rcx"]) <=> Bitmaps!RdmsrExits(msr_bitmaps, Guest.regs["rcx"])
    BY <2>1, Zenon
  <2>3. Bitmaps!WrmsrExits(msr_bitmaps', Guest'.regs["rcx"]) <=> Bitmaps!WrmsrExits(msr_bitmaps, Guest.regs["rcx"])
    BY <2>1, Zenon
  <2> QED BY <2>1, <2>2, <2>3 DEF ExitInv, Instruction
<1>10. CASE vmexit_handler
  BY <1>1, <1>10 DEF vmexit_handler, halt_handler, rdmsr_handler, wrmsr_handler,
        ept_violation_handler, ept_misconfig_handler, vmcall_handler, unsupported
<1>11. CASE restore
  BY <1>1, <1>11 DEF restore
<1>12. CASE UNCHANGED vars
  <2>1. UNCHANGED <<mode, vmcs, msr_bitmaps>> /\ Guest' = Guest
    BY <1>12 DEF vars, Guest
  <2>2. Bitmaps!RdmsrExits(msr_bitmaps', Guest'.regs["rcx"]) <=> Bitmaps!RdmsrExits(msr_bitmaps, Guest.regs["rcx"])
    BY <2>1, Zenon
  <2>3. Bitmaps!WrmsrExits(msr_bitmaps', Guest'.regs["rcx"]) <=> Bitmaps!WrmsrExits(msr_bitmaps, Guest.regs["rcx"])
    BY <2>1, Zenon
  <2> QED BY <2>1, <2>2, <2>3 DEF ExitInv, Instruction
<1> QED BY <1>2, <1>3, <1>4, <1>5, <1>6, <1>7, <1>8, <1>9, <1>10, <1>11, <1>12 DEF Next
-------------------------------------------------------------------------------
Unreadable == {m \in AnyMsr : Bitmaps!RdmsrExits(msr_bitmaps, m)}
Unwritable == {m \in AnyMsr : Bitmaps!WrmsrExits(msr_bitmaps, m)}

\* What the refinement's variables depend on.
LEMMA Stutter ==
    ASSUME Guest' = Guest, UNCHANGED <<msr, msr_bitmaps>>, mode # "panic", mode' # "panic"
    PROVE  UNCHANGED Machine!vars
<1>1. /\ {m \in AnyMsr : Bitmaps!RdmsrExits(msr_bitmaps, m)}'
          = {m \in AnyMsr : Bitmaps!RdmsrExits(msr_bitmaps, m)}
      /\ {m \in AnyMsr : Bitmaps!WrmsrExits(msr_bitmaps, m)}'
          = {m \in AnyMsr : Bitmaps!WrmsrExits(msr_bitmaps, m)}
  BY DEF Bitmaps!RdmsrExits, Bitmaps!WrmsrExits
<1> QED BY <1>1 DEF Machine!vars

\* One bit for each of the two MSRs, whose writes become no-ops.
LEMMA ProtectsBoth ==
    ASSUME msr_bitmaps' = msr_bitmaps \cup {Bitmaps!WriteBit(MSR_IA32_SYSENTER_EIP),
                                            Bitmaps!WriteBit(MSR_IA32_LSTAR)}
    PROVE  /\ Unreadable' = Unreadable
           /\ Unwritable' = Unwritable \cup SyscallMsr
<1> DEFINE s == Bitmaps!WriteBit(MSR_IA32_SYSENTER_EIP)
           l == Bitmaps!WriteBit(MSR_IA32_LSTAR)
           once == msr_bitmaps \cup {s}
<1>1. /\ MSR_IA32_SYSENTER_EIP \in Bitmaps!Monitorable
      /\ MSR_IA32_LSTAR \in Bitmaps!Monitorable
      /\ SyscallMsr \subseteq AnyMsr
  BY HostAssumption DEF SyscallMsr
<1>2. \A n : /\ Bitmaps!WrmsrExits(once, n)
                  <=> Bitmaps!WrmsrExits(msr_bitmaps, n) \/ n = MSR_IA32_SYSENTER_EIP
             /\ Bitmaps!RdmsrExits(once, n) <=> Bitmaps!RdmsrExits(msr_bitmaps, n)
  BY <1>1, ProtectMsr
<1>3. \A n : /\ Bitmaps!WrmsrExits(once \cup {l}, n)
                  <=> Bitmaps!WrmsrExits(once, n) \/ n = MSR_IA32_LSTAR
             /\ Bitmaps!RdmsrExits(once \cup {l}, n) <=> Bitmaps!RdmsrExits(once, n)
  <2> HIDE DEF once
  <2> QED BY <1>1, ProtectMsr
<1>4. msr_bitmaps' = once \cup {l}
  OBVIOUS
<1> HIDE DEF once, l, s
<1>5. Unreadable' = {m \in AnyMsr : Bitmaps!RdmsrExits(once \cup {l}, m)}
  BY <1>4 DEF Unreadable, Bitmaps!RdmsrExits
<1>6. Unwritable' = {m \in AnyMsr : Bitmaps!WrmsrExits(once \cup {l}, m)}
  BY <1>4 DEF Unwritable, Bitmaps!WrmsrExits
<1>7. Unreadable' = Unreadable
  BY <1>2, <1>3, <1>5 DEF Unreadable
<1>8. Unwritable' = Unwritable \cup SyscallMsr
  BY <1>1, <1>2, <1>3, <1>6 DEF Unwritable, SyscallMsr
<1> QED BY <1>7, <1>8

\* A step of a handler is the instruction the guest left from, done.
LEMMA HandlerRefines ==
    ASSUME TypeOK, ExitInv, vmexit_handler
    PROVE  Machine!Next
<1>1. mode = "handle" /\ UNCHANGED <<vmcs, msr>>
  BY DEF vmexit_handler
<1>2. /\ vmcs.rip \in DOMAIN Program
      /\ vmcs.rip = Guest.rip
      /\ vmcs.length = Length[Program[Guest.rip].op]
      /\ Instruction = Program[Guest.rip]
  BY <1>1 DEF ExitInv, Instruction
<1>3. Guest = Saved
  BY <1>1, WhereGuestIs
<1>4. ASSUME NEW op, Instruction.op = op
      PROVE  Machine!At(op)
  BY <1>1, <1>2, <1>4 DEF Machine!At
<1>5. ASSUME skip, mode' = "restore"
      PROVE  /\ Guest' = Machine!Done(Guest.regs)
             /\ (mode' = "panic") = (mode = "panic")
  <2>1. Guest' = [regs |-> Guest.regs, rsp |-> Guest.rsp, rip |-> Guest.rip + vmcs.length]
    BY <1>1, <1>5, SkipMoves
  <2> QED BY <1>1, <1>2, <1>5, <2>1 DEF Machine!Done
<1>6. ASSUME UNCHANGED msr_bitmaps
      PROVE  Unreadable' = Unreadable /\ Unwritable' = Unwritable
  BY <1>6 DEF Unreadable, Unwritable, Bitmaps!RdmsrExits, Bitmaps!WrmsrExits
<1>7. CASE vmcs.reason = "HLT" /\ halt_handler
  <2>1. skip /\ mode' = "restore" /\ UNCHANGED msr_bitmaps /\ Instruction.op = "hlt"
    BY <1>1, <1>7 DEF halt_handler, ExitInv
  <2> QED BY <2>1, <1>1, <1>4, <1>5, <1>6 DEF Machine!Next, Machine!Hlt, Unreadable, Unwritable
<1>8. CASE vmcs.reason = "MSR_READ" /\ rdmsr_handler
  <2>1. /\ skip /\ mode' = "restore" /\ UNCHANGED msr_bitmaps /\ Instruction.op = "rdmsr"
        /\ Guest.regs["rcx"] \in AnyMsr
        /\ Bitmaps!RdmsrExits(msr_bitmaps, Guest.regs["rcx"])
    BY <1>1, <1>8 DEF rdmsr_handler, ExitInv
  <2>2. Guest.regs["rcx"] \in Unreadable
    BY <2>1 DEF Unreadable
  <2> QED BY <2>1, <2>2, <1>1, <1>4, <1>5, <1>6 DEF Machine!Next, Machine!Rdmsr, Unreadable, Unwritable
<1>9. CASE vmcs.reason = "MSR_WRITE" /\ wrmsr_handler
  <2>1. /\ skip /\ mode' = "restore" /\ UNCHANGED msr_bitmaps /\ Instruction.op = "wrmsr"
        /\ Guest.regs["rcx"] \in AnyMsr
        /\ Bitmaps!WrmsrExits(msr_bitmaps, Guest.regs["rcx"])
    BY <1>1, <1>9 DEF wrmsr_handler, ExitInv
  <2>2. Guest.regs["rcx"] \in Unwritable
    BY <2>1 DEF Unwritable
  <2> QED BY <2>1, <2>2, <1>1, <1>4, <1>5, <1>6 DEF Machine!Next, Machine!Wrmsr, Unreadable, Unwritable
<1>10. CASE vmcs.reason = "EPT_VIOLATION" /\ ept_violation_handler
  <2>1. /\ skip /\ mode' = "restore" /\ UNCHANGED msr_bitmaps /\ Instruction.op \in {"load", "store"}
        /\ Program[Guest.rip].gpa.page # SsdtPage
    BY <1>1, <1>2, <1>10 DEF ept_violation_handler, ExitInv
  <2> QED BY <2>1, <1>1, <1>4, <1>5, <1>6
          DEF Machine!Next, Machine!RefusedAccess, Unreadable, Unwritable
<1>11. CASE vmcs.reason = "EPT_MISCONFIG" /\ ept_misconfig_handler
  <2>1. /\ mode' = "restore" /\ UNCHANGED msr_bitmaps /\ Instruction.op \in {"load", "store"}
        /\ vmcs.gpa = Program[Guest.rip].gpa
    BY <1>1, <1>2, <1>11 DEF ept_misconfig_handler, ExitInv
  <2>2. CASE vmcs.gpa.page # SsdtPage /\ skip
    BY <2>1, <2>2, <1>1, <1>4, <1>5, <1>6
    DEF Machine!Next, Machine!RefusedAccess, Unreadable, Unwritable
  <2>3. CASE /\ vmcs.gpa.page = SsdtPage
             /\ area' = [area EXCEPT ![registers_t.rip] = @ + vmcs.length,
                                     ![registers_t.rdi] = vmcs.gpa.index,
                                     ![registers_t.rsi] = ssdt[vmcs.gpa.index],
                                     ![registers_t.rax] = ssdt_hook]
    <3> DEFINE answer == [Guest.regs EXCEPT !["rdi"] = vmcs.gpa.index,
                                            !["rsi"] = ssdt[vmcs.gpa.index],
                                            !["rax"] = ssdt_hook]
    <3>1. Guest' = [regs |-> answer, rsp |-> Guest.rsp, rip |-> Guest.rip + vmcs.length]

      <4>1. Guest' = Saved'
        BY <2>1 DEF Guest, Saved
      <4>2. /\ area'[registers_t.rip] = area[registers_t.rip] + vmcs.length
            /\ area'[registers_t.rsp] = area[registers_t.rsp]
            /\ \A name \in GPR : area'[registers_t[name]] =
                 CASE name = "rdi" -> vmcs.gpa.index
                   [] name = "rsi" -> ssdt[vmcs.gpa.index]
                   [] name = "rax" -> ssdt_hook
                   [] OTHER -> area[registers_t[name]]
        BY <2>3, SameOffsets, OffsetsDistinct DEF TypeOK, GPR, registers_t
      <4>3. [name \in GPR |-> area'[registers_t[name]]] = answer
        BY <4>2, <1>3 DEF Saved
      <4> QED BY <4>1, <4>2, <4>3, <1>3 DEF Saved
    <3>2. Guest' = Machine!Done(answer)
      BY <3>1, <1>2 DEF Machine!Done
    <3>3. (mode' = "panic") = (mode = "panic")
      BY <2>1, <1>1
    <3> QED BY <3>2, <3>3, <2>1, <2>3, <1>1, <1>4, <1>6
            DEF Machine!Next, Machine!HookedAccess, Unreadable, Unwritable
  <2> QED BY <1>11, <2>2, <2>3 DEF ept_misconfig_handler
<1>12. CASE vmcs.reason = "VMCALL" /\ vmcall_handler
  <2>1. /\ skip /\ Instruction.op = "vmcall"
        /\ Guest.regs["rdi"] = area[registers_t.rdi]
    BY <1>1, <1>12, <1>3 DEF vmcall_handler, ExitInv, Saved, GPR
  <2>2. CASE /\ area[registers_t.rdi] = PROTECET_SYSCALL
             /\ msr_bitmaps' = msr_bitmaps \cup {Bitmaps!WriteBit(MSR_IA32_SYSENTER_EIP),
                                                 Bitmaps!WriteBit(MSR_IA32_LSTAR)}
             /\ mode' = "restore"
    BY <2>1, <2>2, <1>1, <1>4, <1>5, ProtectsBoth
    DEF Machine!Next, Machine!Protect, Unreadable, Unwritable
  <2>3. CASE /\ area[registers_t.rdi] # PROTECET_SYSCALL
             /\ UNCHANGED msr_bitmaps
             /\ mode' = "panic"
    <3>1. Guest' = <<>>
      BY <2>3 DEF Guest
    <3> QED BY <2>1, <2>3, <3>1, <1>1, <1>4, <1>6
            DEF Machine!Next, Machine!Stop, Unreadable, Unwritable
  <2> QED BY <1>12, <2>2, <2>3 DEF vmcall_handler
<1>13. CASE vmcs.reason = "OTHER" /\ unsupported
  <2>1. /\ Instruction.op = "other" /\ UNCHANGED msr_bitmaps /\ mode' = "panic"
    BY <1>1, <1>13 DEF unsupported, ExitInv
  <2>2. Guest' = <<>>
    BY <2>1 DEF Guest
  <2> QED BY <2>1, <2>2, <1>1, <1>4, <1>6 DEF Machine!Next, Machine!Stop, Unreadable, Unwritable
<1> QED BY <1>7, <1>8, <1>9, <1>10, <1>11, <1>12, <1>13 DEF vmexit_handler

\* An instruction that does not leave the guest is done by the processor.
LEMMA RunRefines ==
    ASSUME TypeOK, Ordinary \/ Rdmsr \/ Wrmsr, mode' = "guest"
    PROVE  Machine!Next
<1>1. mode = "guest" /\ UNCHANGED <<area, msr_bitmaps>>
  BY DEF Ordinary, Rdmsr, Wrmsr, At, Intercepted, Leave
<1>2. Guest = Running /\ Guest' = Running'
  BY <1>1, WhereGuestIs DEF Guest, Running
<1>3. Unreadable' = Unreadable /\ Unwritable' = Unwritable
  BY <1>1 DEF Unreadable, Unwritable, Bitmaps!RdmsrExits, Bitmaps!WrmsrExits
<1>4. ASSUME NEW op, At(op)
      PROVE  Machine!At(op)
  BY <1>1, <1>2, <1>4 DEF Machine!At, At, Instruction, Running
<1>5. vmcs \in VmcsType
  BY DEF TypeOK, VmcsType
<1>6. ASSUME Complete, vmcs.rip \in DOMAIN Program
      PROVE  Guest' = Machine!Done(regs')
  <2>1. Length[Instruction.op] \in Nat
    BY <1>6, GuestAssumption DEF Instruction
  <2>2. vmcs' = [vmcs EXCEPT !.rip = @ + Length[Instruction.op]]
    BY <1>6 DEF Complete
  <2>3. /\ vmcs'.rip = vmcs.rip + Length[Instruction.op]
        /\ vmcs'.rsp = vmcs.rsp
    BY <2>1, <2>2, <1>5, VmcsGoto DEF VmcsType
  <2> QED BY <1>2, <2>3 DEF Machine!Done, Instruction, Running
<1>7. CASE Ordinary
  <2>1. PICK write \in Write, target \in Target :
          /\ regs' = [regs EXCEPT ![write[1]] = write[2]]
          /\ vmcs' = [vmcs EXCEPT !.rip = target]
    BY <1>7 DEF Ordinary
  <2>2. target \in Int
    BY GuestAssumption
  <2>3. vmcs'.rip = target /\ vmcs'.rsp = vmcs.rsp
    BY <2>1, <2>2, <1>5, VmcsGoto
  <2>4. Guest' = [regs |-> [Guest.regs EXCEPT ![write[1]] = write[2]],
                  rsp |-> Guest.rsp, rip |-> target]
    BY <1>2, <2>1, <2>3 DEF Running
  <2>5. Machine!At("ordinary") /\ UNCHANGED <<mode, msr>>
    BY <1>7, <1>4 DEF Ordinary
  <2> QED BY <2>4, <2>5, <1>3 DEF Machine!Next, Machine!Ordinary, Unreadable, Unwritable
<1>8. CASE Rdmsr
  <2>1. /\ At("rdmsr") /\ regs["rcx"] \in AnyMsr
        /\ ~Bitmaps!RdmsrExits(msr_bitmaps, regs["rcx"])
        /\ regs' = [regs EXCEPT !["rax"] = msr[regs["rcx"]]]
        /\ Complete
        /\ UNCHANGED <<mode, msr>>
    BY <1>1, <1>8 DEF Rdmsr, Intercepted, Leave
  <2>2. Machine!At("rdmsr") /\ Guest.regs = regs /\ regs["rcx"] \notin Unreadable
    BY <2>1, <1>2, <1>4 DEF Running, Unreadable
  <2>3. Guest' = Machine!Done([Guest.regs EXCEPT !["rax"] = msr[Guest.regs["rcx"]]])
    BY <2>1, <2>2, <1>6 DEF At
  <2> QED BY <2>1, <2>2, <2>3, <1>3 DEF Machine!Next, Machine!Rdmsr, Unreadable, Unwritable
<1>9. CASE Wrmsr
  <2>1. /\ At("wrmsr") /\ regs["rcx"] \in AnyMsr
        /\ ~Bitmaps!WrmsrExits(msr_bitmaps, regs["rcx"])
        /\ msr' = [msr EXCEPT ![regs["rcx"]] = regs["rax"]]
        /\ Complete
        /\ UNCHANGED <<mode, regs>>
    BY <1>1, <1>9 DEF Wrmsr, Intercepted, Leave
  <2>2. Machine!At("wrmsr") /\ Guest.regs = regs /\ regs["rcx"] \notin Unwritable
    BY <2>1, <1>2, <1>4 DEF Running, Unwritable
  <2>3. Guest' = Machine!Done(Guest.regs)
    BY <2>1, <2>2, <1>6 DEF At
  <2> QED BY <2>1, <2>2, <2>3, <1>3 DEF Machine!Next, Machine!Wrmsr, Unreadable, Unwritable
<1> QED BY <1>7, <1>8, <1>9

\* With a processor that reports the true instruction length, every exit is one
\* step of the promised machine: nothing of the guest is lost or invented on
\* the way through the wrapper and the handlers.
THEOREM Refinement ==
    ASSUME EptLength = {}
    PROVE  Safety => InstructionsAreAtomic
<1>1. Init => Machine!Init /\ ExitInv
  <2> SUFFICES ASSUME Init PROVE Machine!Init /\ ExitInv
    OBVIOUS
  <2>1. PICK guest \in InitialGuest :
          /\ regs = guest.regs
          /\ vmcs = [rip |-> guest.rip, rsp |-> guest.rsp, reason |-> "none",
                     length |-> 0, gpa |-> [page |-> SsdtPage, index |-> 0]]
    BY DEF Init
  <2>2. mode = "guest" /\ msr = InitialMsr
    BY DEF Init
  <2>3. guest = [regs |-> guest.regs, rsp |-> guest.rsp, rip |-> guest.rip]
    BY GuestAssumption
  <2>4. Guest = guest
    BY <2>1, <2>2, <2>3, WhereGuestIs DEF Running
  <2> QED BY <2>2, <2>4 DEF Machine!Init, ExitInv
<1>2. TypeOK /\ ExitInv /\ [Next]_vars => [Machine!Next]_(Machine!vars)
  <2> SUFFICES ASSUME TypeOK, ExitInv, [Next]_vars PROVE [Machine!Next]_(Machine!vars)
    OBVIOUS
  <2>1. CASE Ordinary \/ Rdmsr \/ Wrmsr
    <3>1. CASE mode' = "guest"
      BY <2>1, <3>1, RunRefines
    <3>2. CASE mode' # "guest"
      <4>1. /\ mode = "guest" /\ vmcs.rip \in DOMAIN Program
            /\ \E reason \in Reason : Leave(reason, {Length[Instruction.op]}, vmcs.gpa)
        BY <2>1, <3>2 DEF Ordinary, Rdmsr, Wrmsr, At, Intercepted, Reason
      <4>2. vmcs.gpa \in Gpa
        BY DEF TypeOK
      <4>3. Guest' = Guest /\ UNCHANGED <<msr, msr_bitmaps>> /\ mode' = "save"
        BY <4>1, <4>2, LeaveInv DEF Leave
      <4> QED BY <4>1, <4>3, Stutter
    <3> QED BY <3>1, <3>2
  <2>2. CASE Hlt \/ Vmcall \/ Other
    <3>1. /\ mode = "guest" /\ vmcs.rip \in DOMAIN Program
          /\ \E reason \in Reason : Leave(reason, {Length[Instruction.op]}, vmcs.gpa)
      BY <2>2 DEF Hlt, Vmcall, Other, At, Intercepted, Reason
    <3>2. vmcs.gpa \in Gpa
      BY DEF TypeOK
    <3>3. Guest' = Guest /\ UNCHANGED <<msr, msr_bitmaps>> /\ mode' = "save"
      BY <3>1, <3>2, LeaveInv DEF Leave
    <3> QED BY <3>1, <3>3, Stutter
  <2>3. CASE Access
    <3>1. /\ mode = "guest" /\ vmcs.rip \in DOMAIN Program
          /\ \E reason \in Reason : Leave(reason, {Length[Instruction.op]}, Instruction.gpa)
      BY <2>3 DEF Access, At, Reason
    <3>2. Instruction.gpa \in Gpa
      BY <3>1, GuestAssumption DEF Instruction
    <3>3. Guest' = Guest /\ UNCHANGED <<msr, msr_bitmaps>> /\ mode' = "save"
      BY <3>1, <3>2, LeaveInv DEF Leave
    <3> QED BY <3>1, <3>3, Stutter
  <2>4. CASE save
    BY <2>4, SaveKeeps, Stutter DEF save
  <2>5. CASE vmexit_handler
    BY <2>5, HandlerRefines
  <2>6. CASE restore
    BY <2>6, RestoreKeeps, Stutter DEF restore
  <2>7. CASE UNCHANGED vars
    BY <2>7 DEF vars, Machine!vars, Guest, Bitmaps!RdmsrExits, Bitmaps!WrmsrExits
  <2> QED BY <2>1, <2>2, <2>3, <2>4, <2>5, <2>6, <2>7 DEF Next
<1>3. TypeOK /\ ExitInv /\ [Next]_vars => ExitInv'
  BY ExitMatches
<1> QED BY <1>1, <1>2, <1>3, TypeCorrect, PTL DEF Safety, InstructionsAreAtomic, Machine!Safety
===============================================================================
