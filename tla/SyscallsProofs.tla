------------------------------ MODULE SyscallsProofs ---------------------------
(****************************************************************************)
(* For every table, frames of any sizes and stacks that hold them: with one *)
(* SYSENTER, and calls of the assigned number or of numbers beyond the      *)
(* table, every call is answered once, every SYSCALL gives its caller the   *)
(* stack back and the SYSENTER finds its return address.  The violating     *)
(* runs show that these conditions are needed.                              *)
(****************************************************************************)
EXTENDS Syscalls, SequenceTheorems, TLAPS

\* The slots below a caller that its call may take.
Need == 7 + Locals["syscall_mallware"] + Locals["dispatch_handler"] + Locals["ssdt_hook"]
          + Locals["print_a_crab"]

Fits ==
    /\ MaxSysenter \in 0 .. 1
    /\ \A n \in Number : n = Assigned \/ n > SSDT_SIZE
    /\ GuestSlots >= Need
    /\ KernelSlots >= Need + Locals["sysenter_mallware"] + Locals["sysenter_handler"] + 2

\* The stack pointers kmain can have: before SYSENTER, and after it by either entry.
Lower == KernelSlots - Locals["sysenter_handler"] - 1
Bases == {Top, Lower, Lower - Locals["sysenter_mallware"] - 1}

\* rsp on entry to the functions on the way, and the address each returns to.
Infected == lstar = "syscall_mallware"
HandlerTop == IF Infected THEN request.rsp - Locals["syscall_mallware"] - 2 ELSE request.rsp - 1
HandlerReturn == IF Infected THEN "syscall_mallware:call" ELSE "kmain"
SysenterTop == IF eip = "sysenter_mallware" THEN KernelSlots - Locals["sysenter_mallware"] - 1
               ELSE KernelSlots
DispatchTop == IF request.entry = "syscall" THEN HandlerTop - 3
               ELSE SysenterTop - Locals["sysenter_handler"] - 1
DispatchReturn == IF request.entry = "syscall" THEN "syscall_handler:call"
                  ELSE "sysenter_handler:call"
HookTop == DispatchTop - Locals["dispatch_handler"] - 1
CrabTop == HookTop - Locals["ssdt_hook"] - 1

InHook == {"ssdt_hook", "print_a_crab", "ssdt_hook:call", "dispatch_handler:call"}
InDispatch == InHook \cup {"dispatch_handler"}
InHandler == InDispatch \cup {"syscall_handler:call"}
InSyscall == {"syscall_mallware", "syscall_handler", "syscall_handler:call", "syscall:ret",
              "syscall_mallware:call"}
InSysenter == {"sysenter_mallware", "sysenter_handler", "sysenter_handler:call"}
Calling == InDispatch \cup InSyscall \cup InSysenter
Starting == {"initialize_ssdt", "init_syscalls"}

\* Which call is under way, and what it was made with.
Request ==
    /\ pc \in Starting \cup {"kmain", "exit"} \cup Calling
    /\ pc \in Starting => request.entry = "none" /\ sysenters = 0
    /\ pc \notin Starting => lstar # NULL /\ eip # NULL
    /\ pc # "initialize_ssdt" => ssdt[Assigned] = "print_a_crab"
    /\ pc \in InSyscall => request.entry = "syscall"
    /\ pc \in InSysenter => request.entry = "sysenter"
    /\ pc \in Calling => request.entry # "none" /\ number \in Number
    /\ pc = "ssdt_hook" => rsi = "print_a_crab"
    /\ pc \in {"syscall_mallware", "syscall_mallware:call"} => Infected
    /\ pc = "sysenter_mallware" => eip = "sysenter_mallware"
    /\ request.entry = "syscall" => request.rsp \in Bases /\ (sysenters = 0 => request.rsp = Top)
    /\ request.entry = "sysenter" => sysenters # 0

\* Where the stack pointer is.
Position ==
    /\ pc \in Starting => rsp = Top
    /\ pc = "kmain" => /\ rsp \in Bases
                       /\ sysenters = 0 => rsp = Top
                       /\ request.entry = "syscall" => rsp = request.rsp
    /\ pc = "syscall_mallware" => rsp = request.rsp - 1
    /\ pc = "syscall_handler" => rsp = HandlerTop
    /\ pc = "syscall_handler:call" => rsp = HandlerTop - 2
    /\ pc = "syscall:ret" => rsp = HandlerTop
    /\ pc = "syscall_mallware:call" => rsp = HandlerTop + 1
    /\ pc = "sysenter_mallware" => rsp = KernelSlots
    /\ pc = "sysenter_handler" => rsp = SysenterTop
    /\ pc = "sysenter_handler:call" => rsp = DispatchTop + 1
    /\ pc = "dispatch_handler" => rsp = DispatchTop
    /\ pc = "dispatch_handler:call" => rsp = HookTop + 1
    /\ pc = "ssdt_hook" => rsp = HookTop
    /\ pc = "ssdt_hook:call" => rsp = CrabTop + 1
    /\ pc = "print_a_crab" => rsp = CrabTop

\* What the return addresses on the stack are.
Addresses ==
    /\ request.entry = "syscall" /\ pc \in Calling => mem[request.rsp - 1] = "kmain"
    /\ pc \in {"syscall_mallware", "syscall_handler"} => rcx = "syscall:ret"
    /\ request.entry = "syscall" /\ pc \in InHandler \cup {"syscall_handler", "syscall:ret"}
         => mem[HandlerTop] = HandlerReturn
    /\ request.entry = "syscall" /\ pc \in InHandler => mem[HandlerTop - 1] = "syscall:ret"
    /\ pc \in InDispatch => mem[DispatchTop] = DispatchReturn
    /\ pc \in InHook => mem[HookTop] = "dispatch_handler:call"
    /\ pc = "print_a_crab" => mem[CrabTop] = "ssdt_hook:call"
    /\ request.entry = "sysenter" /\ pc \in Calling
         => sysenter_rsp = Top - 1 /\ mem[Top - 1] = "kmain"

\* No slot of the caller of __syscall has changed.
Kept == request.entry = "syscall" =>
          \A slot \in request.rsp .. Top - 1 : mem[slot] = request.mem[slot]

IInv == TypeOK /\ Request /\ Position /\ Addresses /\ Kept
-------------------------------------------------------------------------------
Memory == [Slot -> Code \cup {"local", "rflags", "sysenter_handler:ret"}]

\* The constants are numbers, and every stack pointer kmain can have leaves
\* room for a call.
LEMMA Sizes ==
    ASSUME Fits
    PROVE  /\ \A f \in CFunction : Locals[f] \in Nat
           /\ Need \in Nat /\ KernelSlots \in Nat /\ GuestSlots \in Nat
           /\ Top = KernelSlots + GuestSlots
           /\ \A b \in Bases : b \in Need .. Top /\ (b = Top \/ b < KernelSlots)
<1>1. \A f \in CFunction : Locals[f] \in Nat
  BY SyscallsAssumption
<1>2. /\ Locals["syscall_mallware"] \in Nat /\ Locals["dispatch_handler"] \in Nat
      /\ Locals["ssdt_hook"] \in Nat /\ Locals["print_a_crab"] \in Nat
      /\ Locals["sysenter_mallware"] \in Nat /\ Locals["sysenter_handler"] \in Nat
  BY <1>1 DEF CFunction
<1>3. /\ Need \in Nat /\ KernelSlots \in Nat /\ GuestSlots \in Nat
      /\ Top = KernelSlots + GuestSlots
  <2>1. KernelSlots \in Nat /\ GuestSlots \in Nat
    BY SyscallsAssumption
  <2>2. Need \in Nat
    BY <1>2 DEF Need
  <2> QED BY <2>1, <2>2 DEF Top
<1>4. /\ GuestSlots >= Need
      /\ KernelSlots >= Need + Locals["sysenter_mallware"] + Locals["sysenter_handler"] + 2
  BY DEF Fits
<1>5. Lower \in Need .. Top /\ Lower < KernelSlots
  BY <1>2, <1>3, <1>4 DEF Lower
<1>6. LET b == Lower - Locals["sysenter_mallware"] - 1 IN b \in Need .. Top /\ b < KernelSlots
  BY <1>2, <1>3, <1>4 DEF Lower
<1>7. Top \in Need .. Top
  BY <1>3, <1>4
<1>8. QED
  BY <1>1, <1>3, <1>5, <1>6, <1>7 DEF Bases

\* During a call, the stack pointers on its way lie above one another, all of
\* them within the stacks; those of SYSENTER in kernel_stack.
LEMMA Tops ==
    ASSUME Fits, request.entry \in {"syscall", "sysenter"},
           request.entry = "syscall" => request.rsp \in Bases
    PROVE  /\ CrabTop \in Int /\ HookTop \in Int /\ DispatchTop \in Int
           /\ CrabTop - Locals["print_a_crab"] >= 0
           /\ CrabTop = HookTop - Locals["ssdt_hook"] - 1 /\ CrabTop < HookTop
           /\ HookTop = DispatchTop - Locals["dispatch_handler"] - 1 /\ HookTop < DispatchTop
           /\ DispatchTop < Top
           /\ request.entry = "syscall" =>
                /\ request.rsp \in Int /\ HandlerTop \in Int /\ request.rsp <= Top
                /\ DispatchTop = HandlerTop - 3
                /\ HandlerTop < request.rsp
           /\ request.entry = "sysenter" =>
                /\ SysenterTop \in Int
                /\ DispatchTop = SysenterTop - Locals["sysenter_handler"] - 1
                /\ SysenterTop <= KernelSlots /\ KernelSlots < Top
<1>1. /\ Locals["syscall_mallware"] \in Nat /\ Locals["dispatch_handler"] \in Nat
      /\ Locals["ssdt_hook"] \in Nat /\ Locals["print_a_crab"] \in Nat
      /\ Locals["sysenter_mallware"] \in Nat /\ Locals["sysenter_handler"] \in Nat
  BY Sizes DEF CFunction
<1>2. /\ Need \in Nat /\ KernelSlots \in Nat /\ GuestSlots \in Nat
      /\ Top = KernelSlots + GuestSlots
      /\ \A b \in Bases : b \in Need .. Top
  BY Sizes
<1>3. CASE request.entry = "syscall"
  <2>1. request.rsp \in Need .. Top
    BY <1>2, <1>3
  <2>2. /\ HandlerTop \in Int /\ HandlerTop < request.rsp
        /\ HandlerTop >= request.rsp - Locals["syscall_mallware"] - 2
    BY <2>1, <1>1, <1>2 DEF HandlerTop
  <2>3. DispatchTop = HandlerTop - 3
    BY <1>3 DEF DispatchTop
  <2> QED
    BY <1>1, <1>2, <1>3, <2>1, <2>2, <2>3 DEF HookTop, CrabTop, Need
<1>4. CASE request.entry = "sysenter"
  <2>1. /\ SysenterTop \in Int /\ SysenterTop <= KernelSlots
        /\ SysenterTop >= KernelSlots - Locals["sysenter_mallware"] - 1
    BY <1>1, <1>2 DEF SysenterTop
  <2>2. DispatchTop = SysenterTop - Locals["sysenter_handler"] - 1
    BY <1>4 DEF DispatchTop
  <2> QED
    BY <1>1, <1>2, <1>4, <2>1, <2>2 DEF HookTop, CrabTop, Need, Fits
<1>5. QED
  BY <1>3, <1>4

\* A call writes its return address, and nothing at or above the stack pointer.
LEMMA CallKeeps ==
    ASSUME Fits, mem \in Memory, NEW f \in CFunction, NEW target, NEW back \in Code,
           rsp \in 0 .. Top, rsp - Locals[f] - 1 >= 0, Call(f, target, back)
    PROVE  /\ mem' \in Memory /\ rsp' \in 0 .. Top /\ rsp' = rsp - Locals[f] - 1
           /\ mem'[rsp'] = back /\ pc' = target
           /\ \A slot \in rsp .. Top - 1 : mem'[slot] = mem[slot]
<1>1. /\ Locals[f] \in Nat /\ Top \in Nat /\ Slot = 0 .. Top - 1
  BY Sizes DEF Slot, Top
<1>2. Framed(Locals[f]) \in Memory
  BY <1>1 DEF Framed, Memory
<1>3. \A slot \in rsp .. Top - 1 : Framed(Locals[f])[slot] = mem[slot]
  BY <1>1 DEF Framed, Memory
<1>4. rsp - Locals[f] - 1 \in Slot
  BY <1>1
<1> QED
  BY <1>1, <1>2, <1>3, <1>4 DEF Call, Memory

\* So does a return without a call.
LEMMA ReturnKeeps ==
    ASSUME Fits, mem \in Memory, NEW f \in CFunction, rsp \in 0 .. Top - 1, Return(f)
    PROVE  /\ mem' \in Memory /\ rsp' \in 0 .. Top /\ rsp' = rsp + 1 /\ pc' = mem[rsp]
           /\ \A slot \in rsp .. Top - 1 : mem'[slot] = mem[slot]
<1>1. /\ Locals[f] \in Nat /\ Top \in Nat /\ Slot = 0 .. Top - 1
  BY Sizes DEF Slot, Top
<1> QED
  BY <1>1 DEF Return, Framed, Memory

-------------------------------------------------------------------------------
\* A call under way keeps its places while its request and the MSRs stay.
LEMMA SameTops ==
    ASSUME UNCHANGED <<request, lstar, eip>>
    PROVE  /\ HandlerTop' = HandlerTop /\ HandlerReturn' = HandlerReturn
           /\ SysenterTop' = SysenterTop /\ DispatchTop' = DispatchTop
           /\ DispatchReturn' = DispatchReturn /\ HookTop' = HookTop /\ CrabTop' = CrabTop
           /\ Infected' = Infected
BY DEF HandlerTop, HandlerReturn, SysenterTop, DispatchTop, DispatchReturn, HookTop, CrabTop,
       Infected

\* What writes below the stack pointer keeps the caller's slots.
LEMMA StillKept ==
    ASSUME Kept, request' = request, rsp \in Int, Top \in Int,
           request.entry = "syscall" => request.rsp \in Int /\ rsp <= request.rsp,
           \A slot \in rsp .. Top - 1 : mem'[slot] = mem[slot]
    PROVE  Kept'
<1>1. Top' = Top
  BY DEF Top
<1> QED
  BY <1>1 DEF Kept

\* The invariant holds before the first step.
LEMMA Initially ==
    ASSUME Fits, Init
    PROVE  IInv
<1>1. Top \in Nat /\ KernelSlots \in Nat \ {0} /\ Top = KernelSlots + GuestSlots
      /\ 0 \in Slot
  BY SyscallsAssumption DEF Top, Slot
<1>2. TypeOK
  BY <1>1, SyscallsAssumption DEF Init, TypeOK, Code, Pointer, Fits
<1> QED
  BY <1>2 DEF Init, IInv, Request, Position, Addresses, Kept, Starting, Calling, InDispatch, InHook,
              InSyscall, InSysenter, InHandler

\* What runs before the guest's first call, between calls, and after the last.
LEMMA OutsideCalls ==
    ASSUME Fits, IInv, initialize_ssdt \/ init_syscalls \/ inject_mallwares \/ exit
    PROVE  IInv'
<1> USE DEF IInv, Request, Position, Addresses, Kept, Starting, Calling, InDispatch, InHook,
            InSyscall, InSysenter, InHandler
<1>0. Top' = Top /\ Bases' = Bases
  BY DEF Top, Bases, Lower
<1>1. CASE initialize_ssdt
  <2>1. Assigned \in 0 .. SSDT_SIZE /\ ~(Assigned > SSDT_SIZE)
    BY SyscallsAssumption
  <2>2. ssdt' = [ssdt EXCEPT ![Assigned] = "print_a_crab"]
    BY <1>1, <2>1 DEF initialize_ssdt, set_syscall_handler
  <2>3. ssdt' \in [0 .. SSDT_SIZE -> Pointer] /\ ssdt'[Assigned] = "print_a_crab"
    BY <2>1, <2>2 DEF TypeOK, Pointer, CFunction
  <2>4. TypeOK'
    BY <1>1, <2>3 DEF TypeOK, initialize_ssdt, registers, msrs, Code
  <2> QED
    BY <1>0, <1>1, <2>3, <2>4 DEF initialize_ssdt, registers, msrs
<1>2. CASE init_syscalls
  <2>1. TypeOK'
    BY <1>2 DEF TypeOK, init_syscalls, registers, Code
  <2> QED
    BY <1>0, <1>2, <2>1 DEF init_syscalls, registers, Bases, NULL
<1>3. CASE inject_mallwares
  <2>1. TypeOK'
    BY <1>3 DEF TypeOK, inject_mallwares, registers, Code
  <2> QED
    BY <1>0, <1>3, <2>1 DEF inject_mallwares, registers, NULL
<1>4. CASE exit
  <2>1. TypeOK'
    BY <1>4 DEF TypeOK, exit, registers, msrs, Code
  <2> QED
    BY <1>0, <1>4, <2>1 DEF exit, registers, msrs
<1> QED
  BY <1>1, <1>2, <1>3, <1>4

\* kmain makes a call.
LEMMA Entering ==
    ASSUME Fits, IInv, NEW n \in Number, syscall(n) \/ sysenter(n)
    PROVE  IInv'
<1>1. /\ pc = "kmain" /\ rsp \in Bases /\ lstar # NULL /\ eip # NULL
      /\ sysenters = 0 => rsp = Top
      /\ ssdt[Assigned] = "print_a_crab"
  BY DEF IInv, Request, Position, syscall, sysenter, Starting
<1>2. /\ Need \in Nat /\ Need >= 7 /\ KernelSlots \in Nat /\ Top \in Nat /\ KernelSlots < Top
      /\ rsp \in 7 .. Top /\ Slot = 0 .. Top - 1
  <2>1. Need >= 7
    <3>1. /\ Locals["syscall_mallware"] \in Nat /\ Locals["dispatch_handler"] \in Nat
          /\ Locals["ssdt_hook"] \in Nat /\ Locals["print_a_crab"] \in Nat
      BY Sizes DEF CFunction
    <3> QED BY <3>1 DEF Need
  <2> QED BY <1>1, <2>1, Sizes DEF Fits, Slot, Top
<1>3. rsp - 1 \in Slot /\ mem \in Memory /\ mem' = [mem EXCEPT ![rsp - 1] = "kmain"]
  BY <1>2 DEF syscall, sysenter, IInv, TypeOK, Memory
<1>4. /\ mem' \in Memory /\ mem'[rsp - 1] = "kmain"
      /\ \A slot \in rsp .. Top - 1 : mem'[slot] = mem[slot]
  BY <1>2, <1>3 DEF Memory, Code
<1>5. Top' = Top /\ Bases' = Bases /\ n \in Nat
  BY SyscallsAssumption DEF Top, Bases, Lower
<1>6. CASE syscall(n)
  <2>1. TypeOK'
    BY <1>1, <1>2, <1>4, <1>5, <1>6 DEF syscall, IInv, TypeOK, Memory, Code, CFunction, msrs
  <2>2. /\ pc' \in {"syscall_handler", "syscall_mallware"}
        /\ pc' = lstar /\ rsp' = rsp - 1 /\ request'.rsp = rsp /\ request'.entry = "syscall"
        /\ request'.mem = mem /\ rcx' = "syscall:ret" /\ number' = n
        /\ UNCHANGED <<lstar, eip, ssdt, sysenters>>
    BY <1>1, <1>6 DEF syscall, IInv, TypeOK, msrs
  <2>3. pc' = "syscall_handler" => HandlerTop' = rsp' /\ HandlerReturn' = "kmain"
    BY <2>2 DEF HandlerTop, HandlerReturn, Infected
  <2>4. Kept'
    BY <1>4, <1>5, <2>2 DEF Kept
  <2>5. Request'
    BY <1>1, <1>5, <2>2 
       DEF Request, Infected, Starting, Calling, InDispatch, InHook, InSyscall, InSysenter
  <2>6. Position'
    BY <2>2, <2>3 DEF Position, Starting
  <2>7. Addresses'
    BY <1>4, <2>2, <2>3 DEF Addresses, InHandler, InDispatch, InHook
  <2> QED
    BY <2>1, <2>4, <2>5, <2>6, <2>7 DEF IInv
<1>7. CASE sysenter(n)
  <2>1. sysenters = 0 /\ rsp = Top
    BY <1>1, <1>7 DEF sysenter, Fits, IInv, TypeOK
  <2>2. /\ pc' \in {"sysenter_handler", "sysenter_mallware"}
        /\ pc' = eip /\ rsp' = KernelSlots /\ request'.entry = "sysenter"
        /\ number' = n /\ sysenter_rsp' = Top - 1 /\ sysenters' = 1
        /\ UNCHANGED <<lstar, eip, ssdt>>
    BY <1>1, <1>7, <2>1 DEF sysenter, IInv, TypeOK, msrs
  <2>3. TypeOK'
    BY <1>1, <1>2, <1>3, <1>4, <1>5, <1>7, <2>1, <2>2, SyscallsAssumption
       DEF sysenter, IInv, TypeOK, Memory, Code, CFunction, msrs
  <2>4. pc' = "sysenter_handler" => SysenterTop' = KernelSlots
    BY <2>2 DEF SysenterTop
  <2>5. Request'
    BY <1>1, <1>5, <2>2 
       DEF Request, Infected, Starting, Calling, InDispatch, InHook, InSyscall, InSysenter
  <2>6. Position'
    BY <2>2, <2>4 DEF Position, Starting
  <2>7. Addresses'
    BY <1>4, <1>5, <2>1, <2>2 DEF Addresses, InHandler, InDispatch, InHook
  <2>8. Kept'
    BY <2>2 DEF Kept
  <2> QED
    BY <2>3, <2>5, <2>6, <2>7, <2>8 DEF IInv
<1> QED
  BY <1>6, <1>7

\* The bounds of a call under way, from the invariant.
LEMMA UnderWay ==
    ASSUME Fits, IInv, pc \in Calling
    PROVE  /\ request.entry \in {"syscall", "sysenter"}
           /\ request.entry = "syscall" => request.rsp \in Bases
           /\ number \in Nat /\ (number = Assigned \/ number > SSDT_SIZE)
           /\ lstar \in {"syscall_handler", "syscall_mallware"}
           /\ eip \in {"sysenter_handler", "sysenter_mallware"}
           /\ ssdt[Assigned] = "print_a_crab"
           /\ mem \in Memory /\ rsp \in 0 .. Top /\ rsp \in Int /\ Top \in Nat
           /\ Slot = 0 .. Top - 1
<1>1. pc \notin Starting /\ pc # "initialize_ssdt"
  BY DEF Starting, Calling, InDispatch, InHook, InSyscall, InSysenter
<1>2. Top \in Nat /\ Slot = 0 .. Top - 1
  BY Sizes DEF Slot, Top
<1>3. rsp \in 0 .. Top /\ rsp \in Int
  BY <1>2 DEF IInv, TypeOK
<1>4. /\ request.entry \in {"syscall", "sysenter"}
      /\ request.entry = "syscall" => request.rsp \in Bases
      /\ number \in Number
  BY DEF IInv, TypeOK, Request
<1>5. number = Assigned \/ number > SSDT_SIZE
  BY <1>4 DEF Fits
<1>6. /\ lstar \in {"syscall_handler", "syscall_mallware"}
      /\ eip \in {"sysenter_handler", "sysenter_mallware"}
      /\ ssdt[Assigned] = "print_a_crab"
  BY <1>1 DEF IInv, TypeOK, Request
<1> QED
  BY <1>2, <1>3, <1>4, <1>5, <1>6 DEF IInv, TypeOK, Memory

\* A step from one place of a call to the next.
LEMMA Onwards ==
    ASSUME Fits, IInv, pc \in Calling, pc' \in Calling,
           UNCHANGED <<number, sysenter_rsp, lstar, eip, ssdt, sysenters, request>>,
           rcx' \in Code \cup {NULL}, rsi' \in Pointer,
           mem' \in Memory, rsp' \in 0 .. Top,
           \A slot \in rsp .. Top - 1 : mem'[slot] = mem[slot],
           request.entry = "syscall" => rsp <= request.rsp,
           pc' \in InSyscall => request.entry = "syscall",
           pc' \in InSysenter => request.entry = "sysenter",
           pc' = "ssdt_hook" => rsi' = "print_a_crab",
           pc' \in {"syscall_mallware", "syscall_mallware:call"} => Infected,
           pc' # "sysenter_mallware"
    PROVE  TypeOK' /\ Request' /\ Kept'
<1>1. TypeOK'
  BY DEF IInv, TypeOK, Memory, Calling, InDispatch, InHook, InSyscall, InSysenter, Code, CFunction
<1>2. Bases' = Bases /\ Top' = Top
  BY DEF Bases, Lower, Top
<1>3. Request'
  BY <1>2, UnderWay, SameTops
     DEF IInv, Request, Calling, InDispatch, InHook, InSyscall, InSysenter, Starting, NULL
<1>4. Kept'
  <2>1. request.entry = "syscall" => request.rsp \in Int
    BY UnderWay, Tops
  <2> QED BY <2>1, UnderWay, StillKept DEF IInv
<1> QED
  BY <1>1, <1>3, <1>4

\* The handlers of SYSCALL.
LEMMA SyscallPath ==
    ASSUME Fits, IInv,
           syscall_mallware \/ syscall_handler \/ syscall_handler_end \/ syscall_ret
             \/ syscall_mallware_end
    PROVE  IInv'
<1> USE DEF InSyscall, InSysenter
<1>1. /\ pc \in InSyscall /\ pc \in Calling /\ pc \notin InSysenter
      /\ UNCHANGED <<lstar, eip, request, number, rsi, sysenter_rsp, ssdt, sysenters>>
  BY DEF syscall_mallware, syscall_handler, syscall_handler_end, syscall_ret,
         syscall_mallware_end, registers, msrs, Calling
<1>2. request.entry = "syscall" /\ rsi \in Pointer /\ rcx \in Code \cup {NULL}
  BY <1>1 DEF IInv, Request, TypeOK
<1>3. /\ request.rsp \in Int /\ HandlerTop \in Int /\ request.rsp <= Top
      /\ HandlerTop < request.rsp /\ DispatchTop = HandlerTop - 3 /\ DispatchTop >= 0
      /\ request.rsp \in Bases
  <2>1. /\ Locals["print_a_crab"] \in Nat /\ Locals["ssdt_hook"] \in Nat
        /\ Locals["dispatch_handler"] \in Nat
    BY Sizes DEF CFunction
  <2>2. request.rsp \in Bases /\ request.entry \in {"syscall", "sysenter"}
    BY <1>1, <1>2, UnderWay
  <2>3. /\ CrabTop \in Int /\ HookTop \in Int /\ DispatchTop \in Int
        /\ CrabTop - Locals["print_a_crab"] >= 0 /\ CrabTop < HookTop /\ HookTop < DispatchTop
    BY <2>2, Tops
  <2>4. DispatchTop >= 0
    BY <2>1, <2>3
  <2> QED BY <1>2, <2>2, <2>4, Tops
<1>4. /\ mem \in Memory /\ rsp \in 0 .. Top /\ Top \in Nat /\ Slot = 0 .. Top - 1
  BY <1>1, UnderWay
<1>5. Locals["syscall_mallware"] \in Nat
  BY Sizes DEF CFunction
<1>6. /\ mem[request.rsp - 1] = "kmain"
  BY <1>1, <1>2 DEF IInv, Addresses
<1>7. Top' = Top /\ Bases' = Bases
  BY DEF Top, Bases, Lower
<1>8. /\ HandlerTop' = HandlerTop /\ HandlerReturn' = HandlerReturn
      /\ DispatchTop' = DispatchTop /\ DispatchReturn' = DispatchReturn /\ Infected' = Infected
  BY <1>1, SameTops
<1>9. CASE syscall_mallware
  <2>1. /\ pc = "syscall_mallware" /\ rsp = request.rsp - 1 /\ Infected /\ rcx = "syscall:ret"
    BY <1>9 DEF syscall_mallware, IInv, Position, Request, Addresses
  <2>2. HandlerTop = rsp - Locals["syscall_mallware"] - 1 /\ HandlerReturn = "syscall_mallware:call"
    BY <1>3, <1>5, <2>1 DEF HandlerTop, HandlerReturn
  <2>3. Call("syscall_mallware", "syscall_handler", "syscall_mallware:call") /\ rcx' = rcx
    BY <1>9 DEF syscall_mallware, registers
  <2>4. /\ mem' \in Memory /\ rsp' \in 0 .. Top /\ rsp' = HandlerTop
        /\ mem'[HandlerTop] = HandlerReturn /\ pc' = "syscall_handler"
        /\ \A slot \in rsp .. Top - 1 : mem'[slot] = mem[slot]
    BY <1>3, <1>4, <2>2, <2>3, CallKeeps DEF CFunction, Code
  <2>5. TypeOK' /\ Request' /\ Kept'
    BY <1>1, <1>2, <1>3, <1>4, <2>1, <2>3, <2>4, Onwards DEF Calling
  <2>6. Position'
    BY <1>8, <2>4 DEF Position, Starting
  <2>7. mem'[request.rsp - 1] = "kmain"
    BY <1>3, <1>4, <1>6, <2>1, <2>4
  <2>8. Addresses'
    BY <1>1, <1>2, <1>8, <2>1, <2>3, <2>4, <2>7
       DEF Addresses, InHandler, InDispatch, InHook
  <2> QED BY <2>5, <2>6, <2>8 DEF IInv
<1>10. CASE syscall_handler
  <2>1. /\ pc = "syscall_handler" /\ rsp = HandlerTop /\ rcx = "syscall:ret"
        /\ mem[HandlerTop] = HandlerReturn
    BY <1>2, <1>10 DEF syscall_handler, IInv, Position, Addresses
  <2>2. /\ mem' = [mem EXCEPT ![rsp - 1] = rcx, ![rsp - 2] = "rflags",
                               ![rsp - 3] = "syscall_handler:call"]
        /\ rsp' = rsp - 3 /\ pc' = "dispatch_handler" /\ rcx' = rcx
    BY <1>10 DEF syscall_handler, registers
  <2>3. rsp - 1 \in Slot /\ rsp - 2 \in Slot /\ rsp - 3 \in Slot /\ rcx \in Code
    BY <1>3, <1>4, <2>1 DEF Code
  <2>4. /\ mem' \in Memory /\ rsp' \in 0 .. Top /\ rsp' = DispatchTop
        /\ mem'[HandlerTop - 1] = "syscall:ret" /\ mem'[DispatchTop] = "syscall_handler:call"
        /\ \A slot \in rsp .. Top - 1 : mem'[slot] = mem[slot]
    BY <1>3, <1>4, <2>1, <2>2, <2>3 DEF Memory, Code
  <2>5. TypeOK' /\ Request' /\ Kept'
    <3>1. /\ pc' \in Calling /\ pc' = "dispatch_handler" /\ rcx' = rcx
          /\ pc' \notin InSyscall /\ pc' \notin InSysenter
      BY <2>2 DEF Calling, InDispatch
    <3>2. rsp <= request.rsp
      BY <1>3, <2>1
    <3> HIDE DEF InSyscall, InSysenter
    <3> QED BY <1>1, <1>2, <2>4, <3>1, <3>2, Onwards
  <2>6. Position'
    BY <1>8, <2>2, <2>4 DEF Position, Starting
  <2>7. mem'[request.rsp - 1] = "kmain" /\ mem'[HandlerTop] = HandlerReturn
    BY <1>3, <1>4, <1>6, <2>1, <2>4
  <2>8. DispatchReturn = "syscall_handler:call"
    BY <1>2 DEF DispatchReturn
  <2>9. Addresses'
    BY <1>1, <1>2, <1>8, <2>2, <2>4, <2>7, <2>8
       DEF Addresses, InHandler, InDispatch, InHook
  <2> QED BY <2>5, <2>6, <2>9 DEF IInv
<1>11. CASE syscall_handler_end
  <2>1. pc = "syscall_handler:call" /\ rsp = HandlerTop - 2 /\ mem[HandlerTop - 1] = "syscall:ret"
        /\ mem[HandlerTop] = HandlerReturn
    BY <1>2, <1>11 DEF syscall_handler_end, IInv, Position, Addresses, InHandler
  <2>2. pc' = "syscall:ret" /\ rcx' = "syscall:ret" /\ rsp' = HandlerTop /\ mem' = mem
    BY <1>3, <1>11, <2>1 DEF syscall_handler_end
  <2>3. TypeOK' /\ Request' /\ Kept'
    BY <1>1, <1>2, <1>3, <1>4, <2>1, <2>2, Onwards DEF Calling, Code
  <2>4. Position'
    BY <1>8, <2>2 DEF Position, Starting
  <2>5. Addresses'
    BY <1>1, <1>2, <1>6, <1>8, <2>1, <2>2 DEF Addresses, InHandler, InDispatch, InHook
  <2> QED BY <2>3, <2>4, <2>5 DEF IInv
<1>12. CASE syscall_ret
  <2>1. pc = "syscall:ret" /\ rsp = HandlerTop /\ mem[HandlerTop] = HandlerReturn
    BY <1>2, <1>12 DEF syscall_ret, IInv, Position, Addresses
  <2>2. pc' = HandlerReturn /\ rsp' = HandlerTop + 1 /\ mem' = mem /\ rcx' = rcx
    BY <1>12, <2>1 DEF syscall_ret, registers
  <2>3. CASE Infected
    <3>1. pc' = "syscall_mallware:call"
      BY <2>2, <2>3 DEF HandlerReturn
    <3>2. TypeOK' /\ Request' /\ Kept'
      BY <1>1, <1>2, <1>3, <1>4, <2>1, <2>2, <2>3, <3>1, Onwards DEF Calling
    <3>3. Position'
      BY <1>8, <2>2, <3>1 DEF Position, Starting
    <3>4. Addresses'
      BY <1>1, <1>2, <1>6, <2>2, <3>1 DEF Addresses, InHandler, InDispatch, InHook
    <3> QED BY <3>2, <3>3, <3>4 DEF IInv
  <2>4. CASE ~Infected
    <3>1. pc' = "kmain" /\ rsp' = request.rsp
      BY <1>3, <2>2, <2>4 DEF HandlerReturn, HandlerTop
    <3>2. TypeOK'
      BY <1>1, <1>3, <1>4, <1>7, <2>2, <3>1, Sizes, UnderWay DEF IInv, TypeOK, Code, Memory
    <3>3. Request' /\ Position' /\ Addresses' /\ Kept'
      BY <1>1, <1>2, <1>3, <1>7, <2>1, <2>2, <3>1
         DEF IInv, Request, Position, Addresses, Kept, Starting, Calling, InHandler, InDispatch, InHook
    <3> QED BY <3>2, <3>3 DEF IInv
  <2> QED BY <2>3, <2>4
<1>13. CASE syscall_mallware_end
  <2>1. pc = "syscall_mallware:call" /\ rsp = HandlerTop + 1 /\ Infected
    BY <1>13 DEF syscall_mallware_end, IInv, Position, Request
  <2>2. rsp + Locals["syscall_mallware"] = request.rsp - 1
    BY <1>3, <1>5, <2>1 DEF HandlerTop
  <2>3. pc' = "kmain" /\ rsp' = request.rsp /\ mem' = mem /\ rcx' = rcx
    BY <1>3, <1>5, <1>6, <1>13, <2>1, <2>2 DEF syscall_mallware_end, Leave, registers
  <2>4. TypeOK'
    BY <1>1, <1>3, <1>4, <1>7, <2>3, Sizes, UnderWay DEF IInv, TypeOK, Code, Memory
  <2>5. Request' /\ Position' /\ Addresses' /\ Kept'
    BY <1>1, <1>2, <1>3, <1>7, <2>1, <2>3
       DEF IInv, Request, Position, Addresses, Kept, Starting, Calling, InHandler, InDispatch, InHook
  <2> QED BY <2>4, <2>5 DEF IInv
<1> QED
  BY <1>9, <1>10, <1>11, <1>12, <1>13

\* The handlers of SYSENTER.
LEMMA SysenterPath ==
    ASSUME Fits, IInv, sysenter_mallware \/ sysenter_handler \/ sysenter_handler_end
    PROVE  IInv'
<1> USE DEF InSyscall, InSysenter
<1>1. /\ pc \in InSysenter /\ pc \in Calling /\ pc \notin InSyscall
      /\ UNCHANGED <<lstar, eip, request, number, rsi, rcx, sysenter_rsp, ssdt, sysenters>>
  BY DEF sysenter_mallware, sysenter_handler, sysenter_handler_end, registers, msrs, Calling
<1>2. /\ request.entry = "sysenter" /\ rsi \in Pointer /\ rcx \in Code \cup {NULL}
      /\ sysenter_rsp = Top - 1 /\ mem[Top - 1] = "kmain"
  BY <1>1 DEF IInv, Request, TypeOK, Addresses
<1>3. /\ SysenterTop \in Int /\ DispatchTop \in Int
      /\ DispatchTop = SysenterTop - Locals["sysenter_handler"] - 1
      /\ SysenterTop <= KernelSlots /\ KernelSlots < Top /\ DispatchTop >= 0
  <2>1. /\ Locals["print_a_crab"] \in Nat /\ Locals["ssdt_hook"] \in Nat
        /\ Locals["dispatch_handler"] \in Nat
    BY Sizes DEF CFunction
  <2>2. request.entry \in {"syscall", "sysenter"} /\ ~(request.entry = "syscall")
    BY <1>2
  <2>3. /\ CrabTop \in Int /\ HookTop \in Int /\ DispatchTop \in Int
        /\ CrabTop - Locals["print_a_crab"] >= 0 /\ CrabTop < HookTop /\ HookTop < DispatchTop
    BY <2>2, Tops
  <2>4. DispatchTop >= 0
    BY <2>1, <2>3
  <2> QED BY <1>2, <2>2, <2>4, Tops
<1>4. /\ mem \in Memory /\ rsp \in 0 .. Top /\ Top \in Nat /\ KernelSlots \in Nat
      /\ Slot = 0 .. Top - 1
  BY <1>1, UnderWay, Sizes
<1>5. Locals["sysenter_mallware"] \in Nat /\ Locals["sysenter_handler"] \in Nat
  BY Sizes DEF CFunction
<1>6. Top' = Top /\ Bases' = Bases
  BY DEF Top, Bases, Lower
<1>7. /\ SysenterTop' = SysenterTop /\ DispatchTop' = DispatchTop /\ DispatchReturn' = DispatchReturn
  BY <1>1, SameTops
<1>8. CASE sysenter_mallware
  <2>1. pc = "sysenter_mallware" /\ rsp = KernelSlots /\ eip = "sysenter_mallware"
    BY <1>8 DEF sysenter_mallware, IInv, Position, Request
  <2>2. SysenterTop = rsp - Locals["sysenter_mallware"] - 1 /\ SysenterTop >= 0
    BY <1>3, <1>5, <2>1 DEF SysenterTop
  <2>3. Call("sysenter_mallware", "sysenter_handler", "sysenter_mallware:call")
    BY <1>8 DEF sysenter_mallware
  <2>4. /\ mem' \in Memory /\ rsp' \in 0 .. Top /\ rsp' = SysenterTop /\ pc' = "sysenter_handler"
        /\ \A slot \in rsp .. Top - 1 : mem'[slot] = mem[slot]
    BY <1>4, <2>2, <2>3, CallKeeps DEF CFunction, Code
  <2>5. TypeOK' /\ Request' /\ Kept'
    BY <1>1, <1>2, <2>4, Onwards DEF Calling
  <2>6. Position'
    BY <1>7, <2>4 DEF Position, Starting
  <2>7. mem'[Top - 1] = "kmain"
    BY <1>2, <1>3, <1>4, <2>1, <2>4
  <2>8. Addresses'
    BY <1>1, <1>2, <1>6, <2>4, <2>7 DEF Addresses, InHandler, InDispatch, InHook
  <2> QED BY <2>5, <2>6, <2>8 DEF IInv
<1>9. CASE sysenter_handler
  <2>1. pc = "sysenter_handler" /\ rsp = SysenterTop
    BY <1>9 DEF sysenter_handler, IInv, Position
  <2>2. Call("sysenter_handler", "dispatch_handler", "sysenter_handler:call")
    BY <1>9 DEF sysenter_handler
  <2>3. /\ mem' \in Memory /\ rsp' \in 0 .. Top /\ rsp' = DispatchTop /\ pc' = "dispatch_handler"
        /\ mem'[DispatchTop] = "sysenter_handler:call"
        /\ \A slot \in rsp .. Top - 1 : mem'[slot] = mem[slot]
    BY <1>3, <1>4, <2>1, <2>2, CallKeeps DEF CFunction, Code
  <2>4. TypeOK' /\ Request' /\ Kept'
    BY <1>1, <1>2, <2>3, Onwards DEF Calling, InDispatch
  <2>5. Position'
    BY <1>7, <2>3 DEF Position, Starting
  <2>6. mem'[Top - 1] = "kmain" /\ DispatchReturn = "sysenter_handler:call"
    BY <1>2, <1>3, <1>4, <2>1, <2>3 DEF DispatchReturn
  <2>7. Addresses'
    BY <1>1, <1>2, <1>6, <1>7, <2>3, <2>6 DEF Addresses, InHandler, InDispatch, InHook
  <2> QED BY <2>4, <2>5, <2>7 DEF IInv
<1>10. CASE sysenter_handler_end
  <2>1. pc = "sysenter_handler:call" /\ rsp = DispatchTop + 1
    BY <1>10 DEF sysenter_handler_end, IInv, Position
  <2>2. /\ pc' = "kmain" /\ rsp' = DispatchTop /\ rsp - 1 \in Slot
        /\ mem' = [mem EXCEPT ![rsp - 1] = "sysenter_handler:ret"]
    BY <1>2, <1>3, <1>4, <1>5, <1>10, <2>1 DEF sysenter_handler_end
  <2>3. mem' \in Memory
    BY <1>4, <2>2 DEF Memory
  <2>4. DispatchTop \in Bases /\ DispatchTop \in 0 .. Top
    <3>1. DispatchTop \in 0 .. Top
      <4>1. Top \in Nat /\ KernelSlots \in Nat
        BY <1>4
      <4>2. /\ SysenterTop \in Int /\ DispatchTop \in Int
            /\ DispatchTop = SysenterTop - Locals["sysenter_handler"] - 1
            /\ SysenterTop <= KernelSlots /\ KernelSlots < Top /\ DispatchTop >= 0
        BY <1>3
      <4> HIDE DEF InSyscall, InSysenter
      <4> QED BY <1>5, <4>1, <4>2
    <3>2. CASE eip = "sysenter_mallware"
      <4>1. DispatchTop = Lower - Locals["sysenter_mallware"] - 1
        <5>1. SysenterTop = KernelSlots - Locals["sysenter_mallware"] - 1
          BY <3>2 DEF SysenterTop
        <5>2. DispatchTop = SysenterTop - Locals["sysenter_handler"] - 1
          BY <1>3
        <5>3. KernelSlots \in Nat
          BY <1>4
        <5> QED BY <1>5, <5>1, <5>2, <5>3 DEF Lower
      <4> QED BY <3>1, <4>1 DEF Bases
    <3>3. CASE eip # "sysenter_mallware"
      <4>1. DispatchTop = Lower
        BY <1>3, <3>3 DEF SysenterTop, Lower
      <4> QED BY <3>1, <4>1 DEF Bases
    <3> QED BY <3>2, <3>3
  <2>5. sysenters # 0
    BY <1>1 DEF IInv, Request
  <2>6. TypeOK'
    BY <1>1, <1>4, <2>2, <2>3, <2>4 DEF IInv, TypeOK, Code, Memory
  <2>7. Request' /\ Position' /\ Addresses' /\ Kept'
    BY <1>1, <1>2, <1>6, <2>2, <2>4, <2>5
       DEF IInv, Request, Position, Addresses, Kept, Starting, Calling, InHandler, InDispatch, InHook
  <2> QED BY <2>6, <2>7 DEF IInv
<1> QED
  BY <1>8, <1>9, <1>10

\* What both entries share: the dispatch, the hook and the function called.
LEMMA DispatchPath ==
    ASSUME Fits, IInv,
           dispatch_handler \/ dispatch_handler_end \/ ssdt_hook \/ ssdt_hook_end \/ print_a_crab
    PROVE  IInv'
<1>1. /\ pc \in InDispatch /\ pc \in Calling
      /\ UNCHANGED <<lstar, eip, request, number, rcx, sysenter_rsp, ssdt, sysenters>>
  BY DEF dispatch_handler, dispatch_handler_end, ssdt_hook, ssdt_hook_end, print_a_crab,
         registers, msrs, Calling, InDispatch, InHook
<1>2. /\ request.entry \in {"syscall", "sysenter"} /\ rsi \in Pointer /\ rcx \in Code \cup {NULL}
      /\ request.entry = "syscall" => request.rsp \in Bases
      /\ number \in Nat /\ (number = Assigned \/ number > SSDT_SIZE)
      /\ ssdt[Assigned] = "print_a_crab"
      /\ mem \in Memory /\ rsp \in 0 .. Top /\ rsp \in Int /\ Top \in Nat /\ Slot = 0 .. Top - 1
  BY <1>1, UnderWay DEF IInv, TypeOK
<1>3. /\ Locals["print_a_crab"] \in Nat /\ Locals["ssdt_hook"] \in Nat
      /\ Locals["dispatch_handler"] \in Nat /\ Locals["sysenter_handler"] \in Nat
  BY Sizes DEF CFunction
<1>4. /\ CrabTop \in Int /\ HookTop \in Int /\ DispatchTop \in Int /\ CrabTop >= 0
      /\ CrabTop = HookTop - Locals["ssdt_hook"] - 1 /\ CrabTop < HookTop
      /\ HookTop = DispatchTop - Locals["dispatch_handler"] - 1 /\ HookTop < DispatchTop
      /\ DispatchTop < Top
  <2>1. /\ CrabTop \in Int /\ HookTop \in Int /\ DispatchTop \in Int
        /\ CrabTop - Locals["print_a_crab"] >= 0
        /\ CrabTop = HookTop - Locals["ssdt_hook"] - 1 /\ CrabTop < HookTop
        /\ HookTop = DispatchTop - Locals["dispatch_handler"] - 1 /\ HookTop < DispatchTop
        /\ DispatchTop < Top
    BY <1>2, Tops
  <2> QED BY <1>3, <2>1
<1>5. request.entry = "syscall" =>
        /\ request.rsp \in Int /\ HandlerTop \in Int /\ request.rsp <= Top
        /\ DispatchTop = HandlerTop - 3 /\ HandlerTop < request.rsp
  BY <1>2, Tops
<1>6. request.entry = "sysenter" => DispatchTop < Top - 1
  <2> SUFFICES ASSUME request.entry = "sysenter" PROVE DispatchTop < Top - 1
    OBVIOUS
  <2>1. /\ SysenterTop \in Int /\ SysenterTop <= KernelSlots /\ KernelSlots < Top
        /\ DispatchTop = SysenterTop - Locals["sysenter_handler"] - 1
    BY <1>2, Tops
  <2> QED BY <1>2, <1>3, <2>1, Sizes
<1>7. /\ request.entry = "syscall" => /\ mem[request.rsp - 1] = "kmain"
                                      /\ mem[HandlerTop] = HandlerReturn
                                      /\ mem[HandlerTop - 1] = "syscall:ret"
      /\ request.entry = "sysenter" => sysenter_rsp = Top - 1 /\ mem[Top - 1] = "kmain"
      /\ mem[DispatchTop] = DispatchReturn
  BY <1>1 DEF IInv, Addresses, InHandler
<1>8. /\ HandlerTop' = HandlerTop /\ HandlerReturn' = HandlerReturn
      /\ DispatchTop' = DispatchTop /\ DispatchReturn' = DispatchReturn
      /\ HookTop' = HookTop /\ CrabTop' = CrabTop /\ Top' = Top
  BY <1>1, SameTops DEF Top
\* What is above DispatchTop stays, wherever the step writes below rsp.
<1>9. ASSUME rsp <= DispatchTop + 1, rsp <= DispatchTop \/ mem' = mem,
             \A slot \in rsp .. Top - 1 : mem'[slot] = mem[slot]
      PROVE  /\ request.entry = "syscall" => /\ mem'[request.rsp - 1] = "kmain"
                                             /\ mem'[HandlerTop] = HandlerReturn
                                             /\ mem'[HandlerTop - 1] = "syscall:ret"
                                             /\ rsp <= request.rsp
             /\ request.entry = "sysenter" => mem'[Top - 1] = "kmain"
             /\ mem'[DispatchTop] = DispatchReturn
  <2>1. CASE request.entry = "syscall"
    <3>1. /\ rsp \in Int /\ Top \in Int /\ DispatchTop \in Int /\ HandlerTop \in Int
          /\ request.rsp \in Int /\ request.rsp <= Top /\ HandlerTop < request.rsp
          /\ DispatchTop = HandlerTop - 3 /\ rsp <= DispatchTop + 1 /\ DispatchTop < Top
      BY <1>2, <1>4, <1>5, <1>9, <2>1
    <3>2. /\ request.rsp - 1 \in rsp .. Top - 1 /\ HandlerTop \in rsp .. Top - 1
          /\ HandlerTop - 1 \in rsp .. Top - 1 /\ rsp <= request.rsp
          /\ rsp <= DispatchTop => DispatchTop \in rsp .. Top - 1
      BY <3>1
    <3>3. /\ mem'[request.rsp - 1] = mem[request.rsp - 1] /\ mem'[HandlerTop] = mem[HandlerTop]
          /\ mem'[HandlerTop - 1] = mem[HandlerTop - 1] /\ mem'[DispatchTop] = mem[DispatchTop]
      BY <1>9, <3>2
    <3> QED BY <1>7, <2>1, <3>2, <3>3
  <2>2. CASE request.entry = "sysenter"
    BY <1>2, <1>4, <1>6, <1>7, <1>9, <2>2
  <2> QED BY <1>2, <2>1, <2>2
<1>10. ASSUME pc' = DispatchReturn, rsp' = DispatchTop + 1, mem' \in Memory, rsp <= DispatchTop,
              rsi' \in Pointer, \A slot \in rsp .. Top - 1 : mem'[slot] = mem[slot]
       PROVE  IInv'
  <2>1. /\ pc' \in {"syscall_handler:call", "sysenter_handler:call"}
        /\ pc' = "syscall_handler:call" => request.entry = "syscall"
        /\ pc' = "sysenter_handler:call" => request.entry = "sysenter"
    BY <1>2, <1>10 DEF DispatchReturn
  <2>2. /\ request.entry = "syscall" => /\ mem'[request.rsp - 1] = "kmain"
                                        /\ mem'[HandlerTop] = HandlerReturn
                                        /\ mem'[HandlerTop - 1] = "syscall:ret"
                                        /\ rsp <= request.rsp
        /\ request.entry = "sysenter" => mem'[Top - 1] = "kmain"
    BY <1>2, <1>4, <1>9, <1>10
  <2>3. /\ pc' \in Calling /\ rsp' \in 0 .. Top
        /\ pc' \in InSyscall => request.entry = "syscall"
        /\ pc' \in InSysenter => request.entry = "sysenter"
        /\ pc' \notin {"ssdt_hook", "syscall_mallware", "syscall_mallware:call", "sysenter_mallware"}
    BY <1>2, <1>4, <1>10, <2>1 DEF Calling, InSyscall, InSysenter
  <2>4. TypeOK' /\ Request' /\ Kept'
    BY <1>1, <1>2, <1>10, <2>2, <2>3, Onwards
  <2>5. Position'
    BY <1>4, <1>5, <1>8, <1>10, <2>1 DEF Position, Starting
  <2>6. Addresses'
    BY <1>1, <1>2, <1>7, <1>8, <2>1, <2>2 DEF Addresses, InHandler, InDispatch, InHook
  <2> QED BY <2>4, <2>5, <2>6 DEF IInv
\* A step to another place of the dispatch.
<1>11. ASSUME pc' \in InHook, rsp' \in 0 .. Top, mem' \in Memory, rsi' \in Pointer,
              rsp <= DispatchTop, \A slot \in rsp .. Top - 1 : mem'[slot] = mem[slot],
              pc' = "ssdt_hook" => rsp' = HookTop /\ rsi' = "print_a_crab",
              pc' = "ssdt_hook:call" => rsp' = CrabTop + 1,
              pc' = "dispatch_handler:call" => rsp' = HookTop + 1,
              pc' = "print_a_crab" => rsp' = CrabTop /\ mem'[CrabTop] = "ssdt_hook:call",
              mem'[HookTop] = "dispatch_handler:call"
       PROVE  IInv'
  <2>1. /\ request.entry = "syscall" => /\ mem'[request.rsp - 1] = "kmain"
                                        /\ mem'[HandlerTop] = HandlerReturn
                                        /\ mem'[HandlerTop - 1] = "syscall:ret"
                                        /\ rsp <= request.rsp
        /\ request.entry = "sysenter" => mem'[Top - 1] = "kmain"
        /\ mem'[DispatchTop] = DispatchReturn
    BY <1>2, <1>4, <1>9, <1>11
  <2>2. /\ pc' \in Calling /\ pc' \notin InSyscall /\ pc' \notin InSysenter
        /\ pc' \notin {"syscall_mallware", "syscall_mallware:call", "sysenter_mallware"}
    BY <1>11 DEF Calling, InDispatch, InHook, InSyscall, InSysenter
  <2>3. TypeOK' /\ Request' /\ Kept'
    BY <1>1, <1>2, <1>11, <2>1, <2>2, Onwards
  <2>4. Position'
    BY <1>8, <1>11 DEF Position, Starting, InHook
  <2>5. Addresses'
    BY <1>1, <1>2, <1>7, <1>8, <1>11, <2>1 DEF Addresses, InHandler, InDispatch, InHook
  <2> QED BY <2>3, <2>4, <2>5 DEF IInv
<1>12. CASE dispatch_handler
  <2>1. pc = "dispatch_handler" /\ rsp = DispatchTop
    BY <1>12 DEF dispatch_handler, IInv, Position
  <2>2. CASE number > SSDT_SIZE
    <3>1. Return("dispatch_handler") /\ rsi' = rsi
      BY <1>12, <2>2 DEF dispatch_handler
    <3>2. /\ mem' \in Memory /\ rsp' = rsp + 1 /\ pc' = mem[rsp]
          /\ \A slot \in rsp .. Top - 1 : mem'[slot] = mem[slot]
      BY <1>2, <1>4, <2>1, <3>1, ReturnKeeps DEF CFunction
    <3> QED BY <1>2, <1>4, <1>7, <1>10, <2>1, <3>1, <3>2
  <2>3. CASE ~(number > SSDT_SIZE)
    <3>1. number = Assigned /\ number < SSDT_SIZE
      BY <1>2, <2>3, SyscallsAssumption
    <3>2. Read(number) = "ssdt_hook" /\ Read(number) # NULL
      BY <3>1 DEF Read, NULL
    <3>3. /\ rsi' = "print_a_crab"
          /\ Call("dispatch_handler", "ssdt_hook", "dispatch_handler:call")
      BY <1>2, <1>12, <2>3, <3>1, <3>2 DEF dispatch_handler
    <3>4. rsp - Locals["dispatch_handler"] - 1 >= 0
      BY <1>4, <2>1
    <3>5. /\ mem' \in Memory /\ rsp' \in 0 .. Top /\ rsp' = HookTop /\ pc' = "ssdt_hook"
          /\ mem'[HookTop] = "dispatch_handler:call"
          /\ \A slot \in rsp .. Top - 1 : mem'[slot] = mem[slot]
      BY <1>2, <1>4, <2>1, <3>3, <3>4, CallKeeps DEF CFunction, Code
    <3> QED BY <1>2, <1>4, <1>11, <2>1, <3>3, <3>5 DEF InHook, Pointer, CFunction
  <2> QED BY <2>2, <2>3
<1>13. CASE dispatch_handler_end
  <2>1. pc = "dispatch_handler:call" /\ rsp = HookTop + 1
    BY <1>13 DEF dispatch_handler_end, IInv, Position
  <2>2. /\ pc' = mem[rsp + Locals["dispatch_handler"]] /\ mem' = mem /\ rsi' = rsi
        /\ rsp' = rsp + Locals["dispatch_handler"] + 1
    BY <1>13 DEF dispatch_handler_end, Leave, registers
  <2>3. rsp + Locals["dispatch_handler"] = DispatchTop /\ rsp <= DispatchTop
    BY <1>3, <1>4, <2>1
  <2> QED BY <1>2, <1>7, <1>10, <2>2, <2>3
<1>14. CASE ssdt_hook
  <2>1. /\ pc = "ssdt_hook" /\ rsp = HookTop /\ rsi = "print_a_crab"
        /\ mem[HookTop] = "dispatch_handler:call"
    BY <1>14 DEF ssdt_hook, IInv, Position, Request, Addresses, InHook
  <2>2. Call("ssdt_hook", "print_a_crab", "ssdt_hook:call") /\ rsi' = rsi
    BY <1>14, <2>1 DEF ssdt_hook, registers
  <2>3. rsp - Locals["ssdt_hook"] - 1 >= 0
    BY <1>4, <2>1
  <2>4. /\ mem' \in Memory /\ rsp' \in 0 .. Top /\ rsp' = CrabTop /\ pc' = "print_a_crab"
        /\ mem'[CrabTop] = "ssdt_hook:call" /\ mem'[HookTop] = "dispatch_handler:call"
        /\ \A slot \in rsp .. Top - 1 : mem'[slot] = mem[slot]
    BY <1>2, <1>4, <2>1, <2>2, <2>3, CallKeeps DEF CFunction, Code
  <2> QED BY <1>2, <1>4, <1>11, <2>1, <2>2, <2>4 DEF InHook
<1>15. CASE ssdt_hook_end
  <2>1. /\ pc = "ssdt_hook:call" /\ rsp = CrabTop + 1 /\ mem[HookTop] = "dispatch_handler:call"
    BY <1>15 DEF ssdt_hook_end, IInv, Position, Addresses, InHook
  <2>2. /\ pc' = mem[rsp + Locals["ssdt_hook"]] /\ mem' = mem /\ rsi' = rsi
        /\ rsp' = rsp + Locals["ssdt_hook"] + 1
    BY <1>15 DEF ssdt_hook_end, Leave, registers
  <2>3. rsp + Locals["ssdt_hook"] = HookTop /\ rsp <= DispatchTop
    BY <1>3, <1>4, <2>1
  <2>4. rsp' = HookTop + 1
    BY <2>2, <2>3
  <2>5. rsp' \in 0 .. Top
    <3>1. Top \in Nat /\ CrabTop \in Int /\ HookTop \in Int /\ DispatchTop \in Int
      BY <1>2, <1>4
    <3>2. 0 <= CrabTop /\ CrabTop < HookTop /\ HookTop < DispatchTop /\ DispatchTop < Top
      BY <1>4
    <3> QED BY <2>4, <3>1, <3>2
  <2> QED BY <1>2, <1>11, <2>1, <2>2, <2>3, <2>4, <2>5 DEF InHook
<1>16. CASE print_a_crab
  <2>1. /\ pc = "print_a_crab" /\ rsp = CrabTop /\ mem[HookTop] = "dispatch_handler:call"
        /\ mem[CrabTop] = "ssdt_hook:call"
    BY <1>16 DEF print_a_crab, IInv, Position, Addresses, InHook
  <2>2. Return("print_a_crab") /\ rsi' = rsi
    BY <1>16 DEF print_a_crab, registers
  <2>3. /\ mem' \in Memory /\ rsp' \in 0 .. Top /\ rsp' = CrabTop + 1 /\ pc' = "ssdt_hook:call"
        /\ \A slot \in rsp .. Top - 1 : mem'[slot] = mem[slot]
    BY <1>2, <1>4, <2>1, <2>2, ReturnKeeps DEF CFunction
  <2>4. mem'[HookTop] = "dispatch_handler:call" /\ rsp <= DispatchTop
    BY <1>2, <1>4, <2>1, <2>3
  <2> QED BY <1>2, <1>11, <2>2, <2>3, <2>4 DEF InHook
<1> QED
  BY <1>12, <1>13, <1>14, <1>15, <1>16
-------------------------------------------------------------------------------
\* The invariant: each call is at a known place of a known stack.
LEMMA Invariance == ASSUME Fits PROVE Safety => []IInv
<1>1. Init => IInv
  BY Initially
<1>2. IInv /\ [Next]_vars => IInv'
  <2> SUFFICES ASSUME IInv, [Next]_vars PROVE IInv'
    OBVIOUS
  <2>1. CASE UNCHANGED vars
    BY <2>1 DEF vars, IInv, TypeOK, Request, Position, Addresses, Kept, Infected, HandlerTop,
                HandlerReturn, SysenterTop, DispatchTop, DispatchReturn, HookTop, CrabTop
  <2>2. CASE Next
    BY <2>2, OutsideCalls, Entering, SyscallPath, SysenterPath, DispatchPath DEF Next
  <2> QED BY <2>1, <2>2
<1> QED
  BY <1>1, <1>2, PTL DEF Safety

-------------------------------------------------------------------------------
\* What the call has reported at each place on its way: a mallware at SYSENTER
\* first, then the hook and the function, or the refusal.
Before == IF request.entry = "sysenter" /\ eip = "sysenter_mallware" THEN <<"mallware">> ELSE <<>>

Logged ==
    /\ pc \in Calling => number = request.number
    /\ pc \in InHook => number = Assigned
    /\ pc \in {"syscall_mallware", "syscall_handler", "sysenter_mallware"} => log = <<>>
    /\ pc \in {"sysenter_handler", "dispatch_handler", "ssdt_hook"} => log = Before
    /\ pc = "print_a_crab" => log = Append(Before, "ssdt_hook")
    /\ pc \in {"ssdt_hook:call", "dispatch_handler:call", "syscall_handler:call", "syscall:ret",
               "syscall_mallware:call", "sysenter_handler:call"}
         => log = Before \o Answer(number)
    /\ Served

\* Reports are appended one by one.
LEMMA Reports ==
    ASSUME NEW S, NEW s \in Seq(S), NEW a \in S
    PROVE  Append(s, a) = s \o <<a>>
<1>1. <<a>> \in Seq(S) /\ Len(<<a>>) = 1 /\ <<a>>[1] = a
  OBVIOUS
<1>2. /\ Append(s, a) \in Seq(S) /\ Len(Append(s, a)) = Len(s) + 1
      /\ \A i \in 1 .. Len(s) + 1 : Append(s, a)[i] = IF i <= Len(s) THEN s[i] ELSE a
  OBVIOUS
<1>3. /\ s \o <<a>> \in Seq(S) /\ Len(s \o <<a>>) = Len(s) + 1
      /\ \A i \in 1 .. Len(s) + 1 : (s \o <<a>>)[i] = IF i <= Len(s) THEN s[i] ELSE <<a>>[i - Len(s)]
  BY <1>1, ConcatProperties
<1>4. \A i \in 1 .. Len(s) + 1 : i <= Len(s) \/ i - Len(s) = 1
  OBVIOUS
<1> QED BY <1>1, <1>2, <1>3, <1>4, SeqEqual

LEMMA TwoReports ==
    ASSUME NEW S, NEW s \in Seq(S), NEW a \in S, NEW b \in S
    PROVE  Append(Append(s, a), b) = s \o <<a, b>>
<1>1. /\ <<a>> \in Seq(S) /\ <<b>> \in Seq(S) /\ Append(s, a) \in Seq(S)
      /\ <<a, b>> = Append(<<a>>, b)
  OBVIOUS
<1>2. Append(Append(s, a), b) = (s \o <<a>>) \o <<b>>
  BY <1>1, Reports
<1>3. <<a, b>> = <<a>> \o <<b>>
  BY <1>1, Reports
<1> QED BY <1>1, <1>2, <1>3, ConcatAssociative

Event == {"mallware", "ssdt_hook", "print_a_crab", "out of bounds"}

LEMMA Answers ==
    ASSUME Fits
    PROVE  /\ Before \in Seq(Event)
           /\ \A n \in Nat : n > SSDT_SIZE => Answer(n) = <<"out of bounds">>
           /\ ssdt[Assigned] = "print_a_crab" => Answer(Assigned) = <<"ssdt_hook", "print_a_crab">>
<1>1. Before \in Seq(Event)
  <2>1. "mallware" \in Event
    BY DEF Event
  <2>2. <<>> \in Seq(Event) /\ <<"mallware">> \in Seq(Event)
    BY <2>1
  <2> QED BY <2>2 DEF Before
<1>2. /\ SSDT_SIZE \in Nat /\ Assigned \in Nat /\ Assigned < SSDT_SIZE
  BY SyscallsAssumption
<1>3. ASSUME NEW n \in Nat, n > SSDT_SIZE PROVE Answer(n) = <<"out of bounds">>
  <2>1. n >= SSDT_SIZE
    BY <1>2, <1>3
  <2> QED BY <2>1, Zenon DEF Answer
<1>4. ASSUME ssdt[Assigned] = "print_a_crab" PROVE Answer(Assigned) = <<"ssdt_hook", "print_a_crab">>
  <2>1. ~(Assigned >= SSDT_SIZE)
    BY <1>2
  <2>2. ssdt[Assigned] # NULL
    BY <1>4 DEF NULL
  <2> QED BY <1>4, <2>1, <2>2, Zenon DEF Answer
<1> QED BY <1>1, <1>3, <1>4

\* Where the dispatch reports.
LEMMA DispatchLogs ==
    ASSUME Fits, IInv, Logged,
           dispatch_handler \/ dispatch_handler_end \/ ssdt_hook \/ ssdt_hook_end \/ print_a_crab
    PROVE  Logged'
<1>1. /\ pc \in InDispatch /\ pc \in Calling
      /\ UNCHANGED <<lstar, eip, request, number, ssdt>>
  BY DEF dispatch_handler, dispatch_handler_end, ssdt_hook, ssdt_hook_end, print_a_crab,
         registers, msrs, Calling, InDispatch, InHook
<1>2. /\ number = request.number /\ number \in Nat
      /\ number = Assigned \/ number > SSDT_SIZE
      /\ Before' = Before /\ Answer(number)' = Answer(number) /\ ssdt[Assigned] = "print_a_crab"
  BY <1>1, UnderWay DEF Logged, Before, Answer
<1>3. /\ Before \in Seq(Event)
      /\ "out of bounds" \in Event /\ "ssdt_hook" \in Event /\ "print_a_crab" \in Event
  BY Answers DEF Event
<1>4. ASSUME pc' \in {"syscall_handler:call", "sysenter_handler:call"}, log' = Before \o Answer(number)
      PROVE  Logged'
  BY <1>1, <1>2, <1>4 DEF Logged, Served, InHook
<1>5. DispatchReturn \in {"syscall_handler:call", "sysenter_handler:call"}
  BY DEF DispatchReturn
<1>6. /\ mem[DispatchTop] = DispatchReturn
      /\ pc \in InHook => mem[HookTop] = "dispatch_handler:call"
      /\ pc = "print_a_crab" => mem[CrabTop] = "ssdt_hook:call"
  BY <1>1 DEF IInv, Addresses
<1>7. /\ Locals["dispatch_handler"] \in Nat /\ Locals["ssdt_hook"] \in Nat
      /\ DispatchTop \in Int /\ HookTop \in Int /\ CrabTop \in Int
      /\ HookTop = DispatchTop - Locals["dispatch_handler"] - 1
      /\ CrabTop = HookTop - Locals["ssdt_hook"] - 1
  BY <1>1, UnderWay, Tops, Sizes DEF CFunction
<1>8. CASE dispatch_handler
  <2>1. pc = "dispatch_handler" /\ rsp = DispatchTop /\ log = Before
    BY <1>8 DEF dispatch_handler, IInv, Position, Logged
  <2>2. CASE number > SSDT_SIZE
    <3>1. pc' = mem[rsp] /\ log' = Append(log, "out of bounds")
      BY <1>8, <2>2 DEF dispatch_handler, Return, Log
    <3>2. Answer(number) = <<"out of bounds">>
      BY <1>2, <2>2, Answers, Zenon
    <3>3. Append(Before, "out of bounds") = Before \o <<"out of bounds">>
      BY <1>3, Reports
    <3>4. log' = Before \o Answer(number)
      BY <2>1, <3>1, <3>2, <3>3
    <3> QED BY <1>4, <1>5, <1>6, <2>1, <3>1, <3>4
  <2>3. CASE ~(number > SSDT_SIZE)
    <3>1. number = Assigned /\ number < SSDT_SIZE
      BY <1>2, <2>3, SyscallsAssumption
    <3>2. pc' = "ssdt_hook" /\ log' = log
      BY <1>8, <2>3, <3>1 DEF dispatch_handler, Read, NULL, Call
    <3> QED BY <1>1, <1>2, <2>1, <3>1, <3>2 DEF Logged, Served, InHook
  <2> QED BY <2>2, <2>3
<1>9. CASE dispatch_handler_end
  <2>1. /\ pc = "dispatch_handler:call" /\ rsp = HookTop + 1 /\ log = Before \o Answer(number)
        /\ pc' = mem[rsp + Locals["dispatch_handler"]] /\ log' = log
    BY <1>9 DEF dispatch_handler_end, Leave, IInv, Position, Logged
  <2>2. rsp + Locals["dispatch_handler"] = DispatchTop
    BY <1>7, <2>1
  <2> QED BY <1>4, <1>5, <1>6, <2>1, <2>2
<1>10. CASE ssdt_hook
  <2>1. /\ pc = "ssdt_hook" /\ rsi = "print_a_crab" /\ log = Before /\ number = Assigned
        /\ pc' = rsi /\ log' = Append(log, "ssdt_hook")
    BY <1>10 DEF ssdt_hook, Call, Log, IInv, Request, Logged, InHook
  <2> QED BY <1>1, <1>2, <2>1 DEF Logged, Served, InHook
<1>11. CASE ssdt_hook_end
  <2>1. /\ pc = "ssdt_hook:call" /\ rsp = CrabTop + 1 /\ log = Before \o Answer(number)
        /\ number = Assigned /\ pc' = mem[rsp + Locals["ssdt_hook"]] /\ log' = log
    BY <1>11 DEF ssdt_hook_end, Leave, IInv, Position, Logged, InHook
  <2>2. rsp + Locals["ssdt_hook"] = HookTop
    BY <1>7, <2>1
  <2>3. pc' = "dispatch_handler:call"
    BY <1>6, <2>1, <2>2 DEF InHook
  <2> QED BY <1>1, <1>2, <2>1, <2>3 DEF Logged, Served, InHook
<1>12. CASE print_a_crab
  <2>1. /\ pc = "print_a_crab" /\ rsp = CrabTop /\ log = Append(Before, "ssdt_hook")
        /\ number = Assigned /\ pc' = mem[rsp] /\ log' = Append(log, "print_a_crab")
    BY <1>12 DEF print_a_crab, Return, Log, IInv, Position, Logged, InHook
  <2>2. pc' = "ssdt_hook:call"
    BY <1>6, <2>1
  <2>3. Answer(number) = <<"ssdt_hook", "print_a_crab">>
    BY <1>2, <2>1, Answers
  <2>4. Append(Append(Before, "ssdt_hook"), "print_a_crab")
          = Before \o <<"ssdt_hook", "print_a_crab">>
    BY <1>3, TwoReports
  <2>5. log' = Before \o Answer(number)
    BY <2>1, <2>3, <2>4
  <2> QED BY <1>1, <1>2, <2>1, <2>2, <2>5 DEF Logged, Served, InHook
<1> QED BY <1>8, <1>9, <1>10, <1>11, <1>12

\* Every other step passes the report on, and a mallware adds its own.
LEMMA CallLogs ==
    ASSUME Fits, IInv, Logged,
           \/ \E n \in Number : syscall(n) \/ sysenter(n)
           \/ syscall_mallware \/ syscall_handler \/ sysenter_mallware \/ sysenter_handler
    PROVE  Logged'
<1>1. ASSUME NEW n \in Number, syscall(n) PROVE Logged'
  <2>1. /\ pc = "kmain" /\ pc' = lstar /\ number' = n /\ log' = <<>>
        /\ request'.entry = "syscall" /\ request'.number = n
    BY <1>1 DEF syscall
  <2>2. pc' \in {"syscall_mallware", "syscall_handler"}
    BY <2>1 DEF IInv, TypeOK, Request, Starting
  <2> QED BY <2>1, <2>2 DEF Logged, Served, InHook
<1>2. ASSUME NEW n \in Number, sysenter(n) PROVE Logged'
  <2>1. /\ pc = "kmain" /\ pc' = eip /\ eip' = eip /\ number' = n /\ log' = <<>>
        /\ request'.entry = "sysenter" /\ request'.number = n
    BY <1>2 DEF sysenter, msrs
  <2>2. pc' \in {"sysenter_mallware", "sysenter_handler"}
    BY <2>1 DEF IInv, TypeOK, Request, Starting
  <2>3. pc' = "sysenter_handler" => Before' = <<>>
    BY <2>1 DEF Before
  <2> QED BY <2>1, <2>2, <2>3 DEF Logged, Served, InHook
<1>3. CASE syscall_mallware \/ syscall_handler
  <2>1. /\ pc \in {"syscall_mallware", "syscall_handler"} /\ pc \in Calling
        /\ pc' \in {"syscall_handler", "dispatch_handler"}
        /\ UNCHANGED <<number, request, log>>
    BY <1>3 DEF syscall_mallware, syscall_handler, Call, registers, Calling, InSyscall
  <2>2. request.entry = "syscall" /\ log = <<>> /\ number = request.number
    BY <2>1 DEF IInv, Request, InSyscall, Logged
  <2>3. Before' = <<>>
    BY <2>1, <2>2 DEF Before
  <2> QED BY <2>1, <2>2, <2>3 DEF Logged, Served, InHook
<1>4. CASE sysenter_mallware
  <2>1. /\ pc = "sysenter_mallware" /\ pc \in Calling /\ pc' = "sysenter_handler"
        /\ log' = Append(log, "mallware") /\ UNCHANGED <<number, request, eip>>
    BY <1>4 DEF sysenter_mallware, Call, Log, registers, msrs, Calling, InSysenter
  <2>2. /\ request.entry = "sysenter" /\ eip = "sysenter_mallware" /\ log = <<>>
        /\ number = request.number
    BY <2>1 DEF IInv, Request, InSysenter, Logged
  <2>3. Append(<<>>, "mallware") = <<"mallware">>
    OBVIOUS
  <2>4. Before' = <<"mallware">>
    BY <2>1, <2>2 DEF Before
  <2>5. log' = Before'
    BY <2>1, <2>2, <2>3, <2>4
  <2> QED BY <2>1, <2>2, <2>5 DEF Logged, Served, InHook
<1>5. CASE sysenter_handler
  <2>1. /\ pc = "sysenter_handler" /\ pc \in Calling /\ pc' = "dispatch_handler"
        /\ UNCHANGED <<number, request, log, eip>>
    BY <1>5 DEF sysenter_handler, Call, registers, msrs, Calling, InSysenter
  <2>2. log = Before /\ Before' = Before /\ number = request.number
    BY <2>1 DEF Logged, Before
  <2> QED BY <2>1, <2>2 DEF Logged, Served, InHook
<1> QED BY <1>1, <1>2, <1>3, <1>4, <1>5

LEMMA ReturnLogs ==
    ASSUME Fits, IInv, Logged,
           syscall_handler_end \/ syscall_ret \/ syscall_mallware_end \/ sysenter_handler_end
    PROVE  Logged'
<1>1. /\ pc \in Calling /\ number = request.number /\ log = Before \o Answer(number)
      /\ UNCHANGED <<number, request, ssdt, eip>>
  BY DEF syscall_handler_end, syscall_ret, syscall_mallware_end, sysenter_handler_end, registers,
         msrs, Logged, Calling, InSyscall, InSysenter
<1>2. /\ number = Assigned \/ number > SSDT_SIZE
      /\ number \in Nat /\ ssdt[Assigned] = "print_a_crab"
      /\ Before' = Before /\ Answer(number)' = Answer(number)
  BY <1>1, UnderWay DEF Before, Answer
<1>3. Answer(number) \in Seq(Event) /\ <<>> \o Answer(number) = Answer(number)
  <2>1. <<"out of bounds">> \in Seq(Event) /\ <<"ssdt_hook", "print_a_crab">> \in Seq(Event)
    BY DEF Event
  <2>2. Answer(number) \in Seq(Event)
    BY <1>2, <2>1, Answers
  <2> QED BY <2>2, ConcatEmptySeq
<1>4. CASE sysenter_handler_end
  <2>1. /\ pc = "sysenter_handler:call" /\ pc' = mem[sysenter_rsp] /\ log' = log
    BY <1>4 DEF sysenter_handler_end
  <2>2. request.entry = "sysenter" /\ pc' = "kmain"
    BY <1>1, <2>1 DEF IInv, Request, Addresses, InSysenter
  <2>3. Before \in {<<>>, <<"mallware">>}
    BY DEF Before
  <2>4. log' \in {Answer(number), <<"mallware">> \o Answer(number)}
    BY <1>1, <1>3, <2>1, <2>3
  <2> QED BY <1>1, <1>2, <2>2, <2>4 DEF Logged, Served, Calling, InDispatch, InHook, InSyscall, InSysenter
<1>5. CASE syscall_handler_end \/ syscall_ret \/ syscall_mallware_end
  <2>1. pc \in {"syscall_handler:call", "syscall:ret", "syscall_mallware:call"}
    BY <1>5 DEF syscall_handler_end, syscall_ret, syscall_mallware_end
  <2>2. /\ request.entry = "syscall" /\ request.rsp \in Bases
        /\ pc = "syscall_mallware:call" => Infected
    BY <2>1 DEF IInv, Request, InSyscall
  <2>3. Before = <<>> /\ log = Answer(number)
    <3>1. Before = <<>>
      BY <2>2 DEF Before
    <3> QED BY <1>1, <1>3, <3>1
  <2>4. CASE syscall_handler_end
    <3>1. /\ pc = "syscall_handler:call" /\ rsp = HandlerTop - 2 /\ HandlerTop \in Int
          /\ mem[HandlerTop - 1] = "syscall:ret" /\ pc' = mem[rsp + 1] /\ log' = log
      BY <2>2, <2>4, Tops DEF syscall_handler_end, IInv, Position, Addresses, InHandler
    <3>2. pc' = "syscall:ret"
      BY <3>1
    <3> QED BY <1>1, <1>2, <3>1, <3>2 DEF Logged, Served, InHook
  <2>5. CASE syscall_ret
    <3>1. /\ pc = "syscall:ret" /\ rsp = HandlerTop /\ mem[HandlerTop] = HandlerReturn
          /\ pc' = mem[rsp] /\ log' = log
      BY <2>2, <2>5 DEF syscall_ret, IInv, Position, Addresses
    <3>2. pc' \in {"kmain", "syscall_mallware:call"}
      BY <3>1 DEF HandlerReturn
    <3> QED BY <1>1, <1>2, <2>2, <2>3, <3>1, <3>2
            DEF Logged, Served, Calling, InDispatch, InHook, InSyscall, InSysenter
  <2>6. CASE syscall_mallware_end
    <3>1. /\ pc = "syscall_mallware:call" /\ rsp = HandlerTop + 1 /\ request.rsp \in Int
          /\ mem[request.rsp - 1] = "kmain" /\ pc' = mem[rsp + Locals["syscall_mallware"]]
          /\ log' = Append(log, "mallware")
      BY <1>1, <2>2, <2>6, Tops DEF syscall_mallware_end, Leave, Log, IInv, Position, Addresses
    <3>2. HandlerTop = request.rsp - Locals["syscall_mallware"] - 2
      BY <2>2, <3>1 DEF HandlerTop
    <3>3. rsp + Locals["syscall_mallware"] = request.rsp - 1
      <4>1. Locals["syscall_mallware"] \in Nat
        BY Sizes DEF CFunction
      <4> QED BY <3>1, <3>2, <4>1
    <3>4. pc' = "kmain"
      BY <3>1, <3>3
    <3> QED BY <1>1, <1>2, <2>2, <2>3, <3>1, <3>4
            DEF Logged, Served, Calling, InDispatch, InHook, InSyscall, InSysenter
  <2> QED BY <1>5, <2>4, <2>5, <2>6
<1> QED BY <1>4, <1>5

LEMMA LogInvariance == ASSUME Fits PROVE Safety => []Logged
<1>1. Init => Logged
  BY DEF Init, Logged, Served, Calling, InDispatch, InHook, InSyscall, InSysenter
<1>2. IInv /\ Logged /\ [Next]_vars => Logged'
  <2> SUFFICES ASSUME IInv, Logged, [Next]_vars PROVE Logged'
    OBVIOUS
  <2>1. CASE UNCHANGED vars
    BY <2>1 DEF vars, Logged, Served, Answer, Before
  <2>2. CASE initialize_ssdt \/ init_syscalls
    BY <2>2 DEF initialize_ssdt, init_syscalls, registers, IInv, Request, Starting, Logged, Served,
                Calling, InDispatch, InHook, InSyscall, InSysenter
  <2>3. CASE inject_mallwares \/ exit
    BY <2>3 DEF inject_mallwares, exit, registers, msrs, Logged, Served, Answer,
                Calling, InDispatch, InHook, InSyscall, InSysenter
  <2> QED BY <2>1, <2>2, <2>3, CallLogs, ReturnLogs, DispatchLogs DEF Next
<1> QED BY <1>1, <1>2, Invariance, PTL DEF Safety

-------------------------------------------------------------------------------
\* The processor stays in the program and the stack pointer in the stacks,
\* whatever the frames' sizes (src/guest/syscalls.c:17 to :49).
THEOREM TypeCorrect == ASSUME Fits PROVE Safety => []TypeOK
<1>1. IInv => TypeOK
  BY DEF IInv
<1> QED
  BY <1>1, Invariance, PTL

\* __syscall gives its caller the stack back, pointer and contents, with and
\* without the mallware (src/guest/syscall_handler.asm:12).
THEOREM StackGivenBack == ASSUME Fits PROVE Safety => []StackKept
<1>1. IInv => StackKept
  <2> SUFFICES ASSUME IInv, pc = "kmain", request.entry = "syscall"
               PROVE  rsp = request.rsp /\ \A slot \in rsp .. Top - 1 : mem[slot] = request.mem[slot]
    BY DEF StackKept
  <2>1. rsp = request.rsp
    BY DEF IInv, Position
  <2> QED BY <2>1 DEF IInv, Kept
<1> QED
  BY <1>1, Invariance, PTL

\* The one SYSENTER finds its caller's return address (src/guest/syscalls.c:19).
THEOREM OneSysenterReturns == ASSUME Fits PROVE Safety => []SysenterReturns
<1>1. IInv => SysenterReturns
  BY DEF IInv, Request, Addresses, SysenterReturns, Calling, InSysenter
<1> QED
  BY <1>1, Invariance, PTL

\* Each call that returns was answered once, in full and in order, by the entry
\* of its number or the refusal, and reported once by the mallware at most
\* (src/guest/syscalls.c:38, src/vmm/hooks.c:6, src/guest/kmain.c:36).
THEOREM CallsAreServed == ASSUME Fits PROVE Safety => []Served
<1>1. Logged => Served
  BY DEF Logged
<1> QED BY <1>1, LogInvariance, PTL
================================================================================
