---------------------------- MODULE ModeSwitchProofs ---------------------------
(****************************************************************************)
(* The processor never faults on its way to long mode, nor on any number of *)
(* trips to the BIOS and back, wherever the linker puts the code: in every  *)
(* label's mode the code is decoded as it was assembled, and each return    *)
(* takes from the stack the address that belongs to it, at its width.       *)
(****************************************************************************)
EXTENDS BootPagingProofs

Everything == {"PE", "PG", "PAE", "LME"}

\* Labels of the code that is copied; and where C or the way from it is.
Low == Label \ Image
Boot == {"_start", "protected_to_long", "protected_to_long.long_mode", "_start.1"}

\* The mode each label is meant for.
Intended(label) ==
    IF label \in Code64 THEN [on |-> Everything, cs |-> "IA32E_CODE"]
    ELSE IF label = "compatibility_mode" THEN [on |-> Everything, cs |-> "IA32_CODE"]
    ELSE IF label \in Code32 THEN [on |-> {"PE"}, cs |-> "IA32_CODE"]
    ELSE IF label = "protected_real_mode" THEN [on |-> {"PE"}, cs |-> "REAL_MODE_CODE"]
    ELSE [on |-> {}, cs |-> "REAL_MODE_CODE"]

\* The data segments follow the code segment a label later.
Data(label) ==
    IF label \in {"protected_mode"} \cup (Code16 \ {"protected_real_mode"})
      THEN "REAL_MODE_DATA"
    ELSE IF label \in {"protected_real_mode", "protected_to_long.long_mode",
                       "protected_to_long_lower_memory.long_mode"}
            \cup (Code32 \ {"compatibility_mode"})
      THEN "IA32_DATA"
    ELSE "IA32E_DATA"

\* What the subroutines of call_real_mode_function find on the stack: how many
\* bytes of return address, and which.
Width(label) ==
    IF label \in {"long_to_protected", "compatibility_mode"} THEN 8
    ELSE IF label \in {"protected_to_real", "protected_real_mode", "real_mode",
                       "protected_to_long_lower_memory"} THEN 4
    ELSE IF label \in Function \cup {"real_to_protected"} THEN 2 ELSE 0

Back(label) ==
    IF label \in {"long_to_protected", "compatibility_mode"} THEN "call_real_mode_function.1"
    ELSE IF label \in {"protected_to_real", "protected_real_mode", "real_mode"}
      THEN "call_real_mode_function.2"
    ELSE IF label \in Function THEN "call_real_mode_function.3"
    ELSE IF label \in {"real_to_protected", "protected_mode"} THEN "call_real_mode_function.4"
    ELSE "call_real_mode_function.5"

Contents == [StackMemory -> 0 .. BYTE - 1]

\* The bytes of value lie at from.
Holds(from, value, width) == \A i \in 0 .. width - 1 : stack[from + i] = Byte(value, i)
-------------------------------------------------------------------------------
Typed ==
    /\ at \in Label \ {"after"}
    /\ interrupts \in BOOLEAN /\ ivt \in BOOLEAN /\ copied \in BOOLEAN
    /\ rsp \in Nat /\ rbp \in Nat /\ rdi \in Nat /\ esi \in Nat
    /\ stack \in Contents
    /\ asked \in Function \cup {"none"}

\* The mode is the label's, and interrupts stay on for a return and a call at
\* most, under the IVT.
Mode ==
    /\ on = Intended(at).on /\ cs = Intended(at).cs /\ ss = Data(at)
    /\ interrupts => at \in {"call_real_mode_function.3", "real_to_protected"}
    /\ at \in Code16 \ {"protected_real_mode"} => ivt

\* Before long mode: the tables, and the return address in esi meanwhile.
Started ==
    /\ at \in Boot => rbp = 0
    /\ at = "_start" => level = "idle" /\ rsp = GRUB_STACK
    /\ at = "protected_to_long" /\ level = "idle"
         => rsp = GRUB_STACK - 4 /\ Holds(GRUB_STACK - 4, Address["_start.1"], 4)
    /\ at = "protected_to_long" /\ level \in Table => saved = Address["_start.1"]
    /\ at = "protected_to_long" /\ level = "ret" => esi = Address["_start.1"]
    /\ at = "protected_to_long.long_mode" => esi = Address["_start.1"]
    /\ at \notin {"_start", "protected_to_long"} => level = "ret"

\* C's frames on the host's stack.
Frames ==
    /\ at \notin Boot => Holds(HOST_STACK - 8, Address["after"], 8)
    /\ at \notin Boot \cup {"initialize_host"}
         => Holds(HOST_STACK - 24, Address["initialize_host"], 8)
    /\ at \in Low \cup {"real_mode_callback.1"}
         => Holds(HOST_STACK - 32, HOST_STACK - 16, 8) /\ rbp = HOST_STACK - 32
    /\ at \in {"initialize_host", "real_mode_callback"} => rbp = HOST_STACK - 16
    /\ at = "initialize_host" => rsp = HOST_STACK - 16
    /\ at = "real_mode_callback" => rsp = HOST_STACK - 24

\* The copied code's stack: its return address, and its subroutine's.
LowStack ==
    at \in Low =>
      /\ copied
      /\ Holds(LOWER_MEMORY_STACK_TOP - 8, Address["real_mode_callback.1"], 8)
      /\ rsp = LOWER_MEMORY_STACK_TOP - 8 - Width(at)
      /\ Width(at) > 0 => Holds(rsp, Address[Back(at)], Width(at))

\* The registers that carry an address: of the function, then of a return.
Carried ==
    /\ at \notin Boot \cup {"initialize_host", "real_mode_callback.1"} => asked \in Function
    /\ at = "real_mode_callback"
         => copied /\ rdi = Address[asked] - REAL_MODE_BASE_ADDRESS + real_mode_start
    /\ at \in {"call_real_mode_function", "long_to_protected", "compatibility_mode",
               "call_real_mode_function.1", "protected_to_real", "protected_real_mode",
               "real_mode", "call_real_mode_function.2"} => rdi = Address[asked]
    /\ at \in Function => at = asked
    /\ at = "protected_mode" => rdi = Address[Back(at)]
    /\ at = "protected_to_long_lower_memory.long_mode" => esi = Address[Back(at)]

SwitchInv == IInv /\ Typed /\ Mode /\ Started /\ Frames /\ LowStack /\ Carried
-------------------------------------------------------------------------------
LEMMA Bytes ==
    ASSUME NEW n \in Nat, n < REACH
    PROVE  /\ \A i \in Nat : Byte(n, i) \in 0 .. BYTE - 1
           /\ \A i \in Nat : i > 2 => Byte(n, i) = 0
           /\ n = Byte(n, 0) + BYTE * Byte(n, 1) + SEGMENT * Byte(n, 2)
           /\ n < SEGMENT => n = Byte(n, 0) + BYTE * Byte(n, 1)
<1>1. BYTE = 256 /\ SEGMENT = 65536 /\ REACH = 16777216
  BY SMT DEF BYTE, SEGMENT, REACH
<1>2. /\ n % BYTE \in 0 .. BYTE - 1 /\ (n \div BYTE) % BYTE \in 0 .. BYTE - 1
      /\ (n \div SEGMENT) % BYTE \in 0 .. BYTE - 1 /\ 0 \in 0 .. BYTE - 1
  BY <1>1, SMT
<1>3. /\ n = (n % BYTE) + BYTE * ((n \div BYTE) % BYTE) + SEGMENT * ((n \div SEGMENT) % BYTE)
      /\ n < SEGMENT => n = (n % BYTE) + BYTE * ((n \div BYTE) % BYTE)
  BY <1>1, SMT
<1>4. \A i \in Nat : i = 0 \/ i = 1 \/ i = 2 \/ i > 2
  OBVIOUS
<1>5. /\ Byte(n, 0) = n % BYTE /\ Byte(n, 1) = (n \div BYTE) % BYTE
      /\ Byte(n, 2) = (n \div SEGMENT) % BYTE
      /\ \A i \in Nat : i > 2 => Byte(n, i) = 0
  BY DEF Byte
<1> QED BY <1>2, <1>3, <1>4, <1>5

\* A pop of a width that the number fits in reads it, also where more bytes of
\* it were pushed.
LEMMA PopReads ==
    ASSUME NEW n \in Nat, n < REACH, NEW from \in Int, NEW width \in {2, 4, 8},
           Holds(from, n, width), width = 2 => n < SEGMENT
    PROVE  Value(from, width) = n
<1>1. /\ stack[from] = Byte(n, 0) /\ stack[from + 1] = Byte(n, 1)
      /\ width > 2 => stack[from + 2] = Byte(n, 2)
      /\ \A i \in 3 .. width - 1 : stack[from + i] = Byte(n, i)
  <2>1. /\ 0 \in 0 .. width - 1 /\ 1 \in 0 .. width - 1 /\ width > 2 => 2 \in 0 .. width - 1
        /\ \A i \in 3 .. width - 1 : i \in 0 .. width - 1
    OBVIOUS
  <2>2. stack[from + 0] = Byte(n, 0) /\ from + 0 = from
    BY <2>1 DEF Holds
  <2> QED BY <2>1, <2>2 DEF Holds
<1>2. \A i \in 3 .. width - 1 : stack[from + i] = 0
  <2>1. \A i \in 3 .. width - 1 : i \in Nat /\ i > 2
    OBVIOUS
  <2> QED BY <1>1, <2>1, Bytes
<1>3. /\ n = Byte(n, 0) + BYTE * Byte(n, 1) + SEGMENT * Byte(n, 2)
      /\ n < SEGMENT => n = Byte(n, 0) + BYTE * Byte(n, 1)
      /\ Byte(n, 0) \in Int /\ Byte(n, 1) \in Int
  BY Bytes
<1>4. CASE width = 2
  <2>1. Value(from, width) = Byte(n, 0) + BYTE * Byte(n, 1) + 0
    BY <1>1, <1>2, <1>4 DEF Value
  <2> QED BY <1>3, <1>4, <2>1 DEF BYTE
<1>5. CASE width # 2
  BY <1>1, <1>2, <1>3, <1>5 DEF Value
<1> QED BY <1>4, <1>5

LEMMA PushWrites ==
    ASSUME NEW bytes \in Contents, NEW n \in Nat, n < REACH,
           NEW pointer \in Int, NEW width \in {2, 4, 8},
           pointer - width .. pointer - 1 \subseteq StackMemory
    PROVE  /\ Pushed(bytes, pointer, n, width) \in Contents
           /\ \A i \in 0 .. width - 1 :
                Pushed(bytes, pointer, n, width)[pointer - width + i] = Byte(n, i)
           /\ \A a \in StackMemory : a \notin pointer - width .. pointer - 1
                                       => Pushed(bytes, pointer, n, width)[a] = bytes[a]
<1> DEFINE pushed == Pushed(bytes, pointer, n, width)
<1>1. pushed = [a \in StackMemory |-> IF a \in pointer - width .. pointer - 1
                                        THEN Byte(n, a - (pointer - width)) ELSE bytes[a]]
  BY DEF Pushed, Contents
<1>2. \A a \in pointer - width .. pointer - 1 : a - (pointer - width) \in Nat
  OBVIOUS
<1>3. pushed \in Contents
  BY <1>1, <1>2, Bytes DEF Contents
<1>4. ASSUME NEW i \in 0 .. width - 1 PROVE pushed[pointer - width + i] = Byte(n, i)
  <2>1. /\ pointer - width + i \in pointer - width .. pointer - 1
        /\ pointer - width + i - (pointer - width) = i
    OBVIOUS
  <2> QED BY <1>1, <2>1
<1> QED BY <1>1, <1>3, <1>4

\* The bytes used of each stack are there, the lower stack's below the host's.
LEMMA Regions ==
    /\ LOWER_MEMORY_STACK_TOP \in Int /\ HOST_STACK \in Int /\ GRUB_STACK \in Int
    /\ LOWER_MEMORY_STACK_TOP >= 32 /\ LOWER_MEMORY_STACK_TOP < SEGMENT
    /\ LOWER_MEMORY_STACK_TOP <= HOST_STACK - 32 /\ HOST_STACK < REACH /\ GRUB_STACK >= 32
    /\ \A a \in Int :
         /\ a \in LOWER_MEMORY_STACK_TOP - 32 .. LOWER_MEMORY_STACK_TOP - 1 => a \in StackMemory
         /\ a \in HOST_STACK - 32 .. HOST_STACK - 1 => a \in StackMemory
         /\ a \in GRUB_STACK - 32 .. GRUB_STACK - 1 => a \in StackMemory
<1>1. /\ StackDepth \in Nat /\ StackDepth >= 32
      /\ LOWER_MEMORY_STACK_TOP \in StackDepth .. SEGMENT - 1
      /\ HOST_STACK \in LOWER_MEMORY_STACK_TOP + StackDepth .. REACH - 1
      /\ GRUB_STACK \in Nat /\ GRUB_STACK >= StackDepth
  BY StackAssumption
<1>2. /\ LOWER_MEMORY_STACK_TOP \in Int /\ HOST_STACK \in Int /\ GRUB_STACK \in Int
      /\ LOWER_MEMORY_STACK_TOP >= 32 /\ LOWER_MEMORY_STACK_TOP < SEGMENT
      /\ LOWER_MEMORY_STACK_TOP <= HOST_STACK - 32 /\ HOST_STACK < REACH /\ GRUB_STACK >= 32
  <2>1. SEGMENT \in Nat /\ REACH \in Nat
    BY SMT DEF SEGMENT, REACH, BYTE
  <2> QED BY <1>1, <2>1
<1>3. \A top \in {LOWER_MEMORY_STACK_TOP, HOST_STACK, GRUB_STACK} :
        \A a \in Int : a \in top - 32 .. top - 1 => a \in StackMemory
  <2> SUFFICES ASSUME NEW top \in {LOWER_MEMORY_STACK_TOP, HOST_STACK, GRUB_STACK},
                      NEW a \in Int, a \in top - 32 .. top - 1
               PROVE  a \in StackMemory
    OBVIOUS
  <2>1. a \in top - StackDepth .. top - 1
    BY <1>1, <1>2
  <2> QED BY <2>1 DEF StackMemory
<1> QED BY <1>2, <1>3

LEMMA Addresses ==
    /\ \A label \in Label : Address[label] \in Nat /\ Address[label] < REACH
    /\ \A label \in Low : Address[label] < SEGMENT /\ Address[label] >= REAL_MODE_BASE_ADDRESS
    /\ HOST_STACK - 16 \in Nat /\ HOST_STACK - 16 < REACH
<1>1. HEADER_START \in Nat /\ SEGMENT \in Nat /\ REACH \in Nat /\ SEGMENT < REACH
  BY SMT DEF HEADER_START, SEGMENT, REACH, BYTE
<1>2. \A label \in Image : Address[label] \in Nat /\ Address[label] < REACH
  BY <1>1, AddressAssumption
<1>3. \A label \in Low : /\ Address[label] \in Nat /\ Address[label] < REACH
                         /\ Address[label] < SEGMENT /\ Address[label] >= REAL_MODE_BASE_ADDRESS
  BY <1>1, AddressAssumption DEF Low
<1>4. HOST_STACK - 16 \in Nat /\ HOST_STACK - 16 < REACH
  BY <1>1, Regions
<1> QED BY <1>2, <1>3, <1>4 DEF Low
-------------------------------------------------------------------------------
\* The code of each label is assembled for the mode intended.
LEMMA Decodes ==
    ASSUME NEW label \in Label
    PROVE  /\ CodeSize(Intended(label).on, Intended(label).cs) = Bits[label]
           /\ "PG" \in Intended(label).on <=> label \in Code64 \cup {"compatibility_mode"}
           /\ CodeSize(Intended(label).on, Intended(label).cs) = 16 => label \in Low
<1> USE DEF Label, Code64, Code32, Code16, Function
<1>1. CASE label \in Code64
  BY <1>1 DEF Intended, Everything, CodeSize, LongMode, gdt, Bits
<1>2. CASE label = "compatibility_mode"
  BY <1>2 DEF Intended, Everything, CodeSize, LongMode, gdt, Bits
<1>3. CASE label \in Code32 \ {"compatibility_mode"}
  BY <1>3 DEF Intended, Everything, CodeSize, LongMode, gdt, Bits
<1>4. CASE label = "protected_real_mode"
  BY <1>4 DEF Intended, Everything, CodeSize, LongMode, gdt, Bits, Low, Image
<1>5. CASE label \in Code16 \ {"protected_real_mode"}
  BY <1>5 DEF Intended, Everything, CodeSize, LongMode, gdt, Bits, Low, Image
<1> QED BY <1>1, <1>2, <1>3, <1>4, <1>5

\* A change of mode to the one intended arrives.
LEMMA Arrives ==
    ASSUME IInv, NEW label \in Label, NEW steps, NEW segment, GoOn(steps, segment, label),
           AllAllowed(steps), segment = Intended(label).cs,
           Intended(label).on = (IF steps = <<>> THEN on ELSE steps[Len(steps)]),
           label \in Low => copied,
           label \in Code64 \cup {"compatibility_mode"} => level = "ret"
    PROVE  at' = label /\ on' = Intended(label).on /\ cs' = Intended(label).cs
<1>1. IdentityMapped
  BY WalkIsIdentity
<1>2. CodeSize(Intended(label).on, segment) = 16 => Address[label] < SEGMENT
  BY Decodes, Addresses
<1>3. Runs(label, Intended(label).on, segment)
  BY <1>1, <1>2, Decodes DEF Runs, Low
<1> QED BY <1>3 DEF GoOn

LEMMA ArrivesAt ==
    ASSUME NEW label \in Label, NEW steps, NEW segment, NEW address,
           GoOnAt(steps, segment, address), address = Address[label]
    PROVE  GoOn(steps, segment, label)
BY AddressAssumption DEF GoOnAt

\* The changes of CR0, CR4 and EFER that the code makes are in an order the
\* processor allows (src/boot/entrypoint.asm:43, src/bios/switch_modes.asm:105).
LEMMA NoChange == AllAllowed(<<>>)
BY DEF AllAllowed

LEMMA OneChange ==
    ASSUME NEW new, Allowed(on, new)
    PROVE  AllAllowed(<<new>>) /\ <<new>> # <<>> /\ <<new>>[Len(<<new>>)] = new
BY DEF AllAllowed

LEMMA Upwards ==
    ASSUME on = {"PE"}, cs = "IA32_CODE"
    PROVE  AllAllowed(ToLongMode) /\ ToLongMode # <<>> /\ ToLongMode[Len(ToLongMode)] = Everything
<1>1. ToLongMode = <<{"PE"}, {"PE", "PAE"}, {"PE", "PAE", "LME"}, Everything>>
  <2>1. /\ on \ {"PG"} = {"PE"} /\ {"PE"} \cup {"PAE"} = {"PE", "PAE"}
        /\ {"PE"} \cup {"PAE", "LME"} = {"PE", "PAE", "LME"}
        /\ {"PE"} \cup {"PAE", "LME", "PG"} = Everything
    BY DEF Everything
  <2> QED BY <2>1 DEF ToLongMode
<1>2. /\ Allowed({"PE"}, {"PE"}) /\ Allowed({"PE"}, {"PE", "PAE"})
      /\ Allowed({"PE", "PAE"}, {"PE", "PAE", "LME"})
  BY DEF Allowed, LongMode
<1>3. Allowed({"PE", "PAE", "LME"}, Everything)
  BY DEF Allowed, LongMode, Everything, gdt
<1> QED BY <1>1, <1>2, <1>3 DEF AllAllowed

LEMMA Downwards ==
    ASSUME on = Everything, cs = "IA32_CODE"
    PROVE  LET steps == <<on \ {"PG"}, on \ {"PG", "LME"}, on \ {"PG", "LME", "PAE"}>>
           IN  AllAllowed(steps) /\ steps # <<>> /\ steps[Len(steps)] = {"PE"}
<1>1. /\ on \ {"PG"} = {"PE", "PAE", "LME"} /\ on \ {"PG", "LME"} = {"PE", "PAE"}
      /\ on \ {"PG", "LME", "PAE"} = {"PE"}
  BY DEF Everything
<1>2. /\ Allowed({"PE", "PAE", "LME"}, {"PE", "PAE"}) /\ Allowed({"PE", "PAE"}, {"PE"})
  BY DEF Allowed, LongMode
<1>3. Allowed(Everything, {"PE", "PAE", "LME"})
  BY DEF Allowed, LongMode, Everything, CodeSize, gdt
<1> QED BY <1>1, <1>2, <1>3 DEF AllAllowed
-------------------------------------------------------------------------------
\* rsp is what the mode addresses the stack by: with 16 bits only where rsp has
\* no more.
LEMMA LowPointer ==
    ASSUME SwitchInv, at \in Low, NEW size
    PROVE  Pointer(size) = rsp /\ rsp \in Nat /\ rsp < SEGMENT
<1>1. rsp = LOWER_MEMORY_STACK_TOP - 8 - Width(at) /\ Width(at) \in {0, 2, 4, 8} /\ rsp \in Nat
  BY DEF SwitchInv, LowStack, Width, Typed
<1>2. rsp < SEGMENT /\ SEGMENT \in Nat
  <2>1. SEGMENT \in Nat
    BY SMT DEF SEGMENT, BYTE
  <2> QED BY <1>1, <2>1, Regions
<1> QED BY <1>1, <1>2 DEF Pointer

LEMMA StackPointer ==
    ASSUME SwitchInv
    PROVE  Pointer(StackSize(on, ss)) = rsp
<1>1. CASE at \in Low
  BY <1>1, LowPointer
<1>2. CASE at \notin Low
  <2>1. at \in Label
    BY DEF SwitchInv, Typed
  <2>2. at \in Code64 \/ ss = "IA32_DATA"
    BY <1>2, <2>1 DEF SwitchInv, Mode, Data, Low, Image, Label, Code64, Code32, Code16, Function
  <2>3. CodeSize(on, cs) = 64 \/ gdt[ss].d
    BY <2>1, <2>2, Decodes DEF SwitchInv, Mode, Bits, gdt
  <2> QED BY <2>3 DEF StackSize, Pointer
<1> QED BY <1>1, <1>2

\* What a call leaves on the stack.
LEMMA CallPushes ==
    ASSUME SwitchInv, NEW label \in Label, NEW back \in Label, Call(label, back),
           NEW width \in {2, 4, 8}, width = Bits[at] \div 8,
           width = 2 => Address[back] < SEGMENT,
           rsp - width .. rsp - 1 \subseteq StackMemory
    PROVE  /\ GoOn(<<>>, cs, label)
           /\ rsp' = rsp - width /\ stack' \in Contents
           /\ Holds(rsp, Address[back], width)'
           /\ \A a \in StackMemory : a \notin rsp - width .. rsp - 1 => stack'[a] = stack[a]
           /\ UNCHANGED <<ss, interrupts, ivt, rbp, rdi, copied, asked, pagingVars>>
<1>1. /\ stack' = Pushed(stack, rsp, Address[back], width) /\ rsp' = rsp - width
      /\ GoOn(<<>>, cs, label)
      /\ UNCHANGED <<ss, interrupts, ivt, rbp, rdi, copied, asked, pagingVars>>
  BY StackPointer DEF Call, Push, Jump
<1>2. /\ stack \in Contents /\ rsp \in Int
      /\ Address[back] \in Nat /\ Address[back] < REACH
  BY Addresses DEF SwitchInv, Typed
<1> DEFINE pushed == Pushed(stack, rsp, Address[back], width)
<1>3. \A i \in 0 .. width - 1 : pushed[rsp - width + i] = Byte(Address[back], i)
  BY <1>2, PushWrites
<1>4. \A a \in StackMemory : a \notin rsp - width .. rsp - 1 => pushed[a] = stack[a]
  BY <1>2, PushWrites, ZenonT(30)
<1>5. pushed \in Contents
  BY <1>2, PushWrites
<1> QED BY <1>1, <1>3, <1>4, <1>5 DEF Holds

\* What a return of the copied code goes back to.
LEMMA LowReturns ==
    ASSUME SwitchInv, at \in Low, Width(at) > 0, NEW width \in {2, 4}, width <= Width(at),
           NEW steps, NEW data, NEW more \in Nat, Return(steps, data, width, more)
    PROVE  /\ GoOn(steps, cs, Back(at)) /\ ss' = data /\ rsp' = rsp + width + more
           /\ UNCHANGED <<stack, ivt, rbp, rdi, copied, asked, pagingVars>>
<1>1. Back(at) \in Label /\ (Width(at) # 8 => Back(at) \in Low) /\ Width(at) \in {0, 2, 4, 8}
      /\ Back(at) \in Low
  BY DEF Back, Width, Low, Label, Image, Code64, Code32, Code16, Function
<1>2. Holds(rsp, Address[Back(at)], width)
  BY <1>1 DEF SwitchInv, LowStack, Holds
<1>3. Value(rsp, width) = Address[Back(at)]
  BY <1>1, <1>2, PopReads, Addresses, LowPointer
<1>4. GoOnAt(steps, cs, Address[Back(at)])
  BY <1>3, LowPointer DEF Return
<1> QED BY <1>1, <1>4, ArrivesAt DEF Return
-------------------------------------------------------------------------------
\* To long mode for the first time.
LEMMA BootSteps ==
    ASSUME SwitchInv, IInv',
           \/ _start \/ protected_to_long \/ build_tables \/ enable_long_mode
           \/ long_mode /\ at = "protected_to_long.long_mode"
    PROVE  SwitchInv'
<1> USE DEF SwitchInv
<1>1. /\ "_start.1" \in Label /\ "protected_to_long" \in Label
      /\ "protected_to_long.long_mode" \in Label
  BY DEF Label, Code64, Code32
<1>2. Address["_start.1"] \in Nat /\ Address["_start.1"] < REACH
  BY <1>1, Addresses
<1>3. CASE _start
  <2>1. /\ at = "_start" /\ on = {"PE"} /\ cs = "IA32_CODE" /\ ss = "IA32_DATA"
        /\ level = "idle" /\ rsp = GRUB_STACK
    BY <1>3 DEF _start, Mode, Started, Intended, Data, Code64, Code32, Code16, Function
  <2>2. /\ Call("protected_to_long", "_start.1") /\ rsp - 4 .. rsp - 1 \subseteq StackMemory
        /\ Bits[at] = 32
    BY <1>3, <2>1, Regions DEF _start, Bits, Label, Code64, Code32
  <2>3. /\ GoOn(<<>>, cs, "protected_to_long") /\ rsp' = rsp - 4
        /\ stack' \in Contents
        /\ Holds(rsp, Address["_start.1"], 4)'
        /\ UNCHANGED <<ss, interrupts, ivt, rbp, rdi, copied, asked, pagingVars>>
    BY <1>1, <2>1, <2>2, CallPushes
  <2>4. at' = "protected_to_long" /\ on' = {"PE"} /\ cs' = "IA32_CODE"
    BY <1>1, <2>1, <2>3, Arrives, NoChange DEF Intended, Low, Image, Code64, Code32, Code16
  <2>5. Holds(GRUB_STACK - 4, Address["_start.1"], 4)'
    BY <2>1, <2>3 DEF Holds
  <2>6. Typed'
    BY <1>1, <2>1, <2>3, <2>4, Regions DEF Typed, pagingVars
  <2>7. Mode'
    BY <2>1, <2>3, <2>4 DEF Mode, Intended, Data, Code64, Code32, Code16, Function
  <2>8. Started' /\ Frames' /\ LowStack' /\ Carried'
    BY <2>1, <2>3, <2>4, <2>5
       DEF Started, Frames, LowStack, Carried, pagingVars, Table, Boot, Low, Image, Function
  <2> QED BY <2>6, <2>7, <2>8
<1>4. CASE protected_to_long
  <2>1. /\ at = "protected_to_long" /\ level = "idle" /\ rsp = GRUB_STACK - 4
        /\ Holds(rsp, Address["_start.1"], 4)
    BY <1>4 DEF protected_to_long, Started
  <2>2. rsp \in Int /\ Value(rsp, 4) = Address["_start.1"]
    BY <1>2, <2>1, Regions, PopReads
  <2>3. /\ esi' = Address["_start.1"] /\ saved' = Address["_start.1"] /\ level' = "pml4"
        /\ rsp' = rsp + 4 /\ UNCHANGED <<at, cpu, rbp, rdi, stack, copied, asked>>
    BY <1>4, <2>2 DEF protected_to_long, setup_pml4_map, _create_tables
  <2>4. Typed' /\ Mode'
    BY <1>2, <2>2, <2>3, Regions DEF Typed, Mode, cpu
  <2>5. Started' /\ Frames' /\ LowStack' /\ Carried'
    BY <2>1, <2>3 DEF Started, Frames, LowStack, Carried, Table, Boot, Low, Image, Function
  <2> QED BY <2>4, <2>5
<1>5. CASE build_tables
  <2>1. /\ at = "protected_to_long" /\ level \in Table /\ saved = Address["_start.1"]
        /\ UNCHANGED <<at, cpu, rsp, rbp, rdi, stack, copied, asked>>
    BY <1>5 DEF build_tables, Started
  <2>2. /\ saved' = saved /\ level' \in Table \cup {"ret"} /\ esi' \in Nat
        /\ level' = "ret" => esi' = saved
    <3>1. CASE setup_entry
      <4>1. regs.edi \in Nat
        BY DEF IInv, PagingTypeOK
      <4> QED BY <2>1, <3>1, <4>1 DEF setup_entry, Table
    <3>2. CASE popa
      BY <1>2, <2>1, <3>2 DEF popa, _create_tables, Following, Table
    <3> QED BY <1>5, <3>1, <3>2 DEF build_tables
  <2>3. Typed' /\ Mode'
    BY <2>1, <2>2 DEF Typed, Mode, cpu
  <2>4. Started' /\ Frames' /\ LowStack' /\ Carried'
    BY <2>1, <2>2 DEF Started, Frames, LowStack, Carried, Table, Boot, Low, Image, Function
  <2> QED BY <2>3, <2>4
<1>6. CASE enable_long_mode
  <2>1. /\ at = "protected_to_long" /\ level = "ret" /\ esi = Address["_start.1"]
        /\ on = {"PE"} /\ cs = "IA32_CODE" /\ ss = "IA32_DATA"
        /\ GoOn(ToLongMode, "IA32E_CODE", "protected_to_long.long_mode")
        /\ UNCHANGED <<ss, interrupts, ivt, rsp, rbp, rdi, stack, copied, asked, pagingVars>>
    BY <1>6 DEF enable_long_mode, Started, Mode, Intended, Data, Code64, Code32, Code16, Function
  <2>2. Intended("protected_to_long.long_mode") = [on |-> Everything, cs |-> "IA32E_CODE"]
    BY DEF Intended, Code64
  <2>3. at' = "protected_to_long.long_mode" /\ on' = Everything /\ cs' = "IA32E_CODE"
    BY <1>1, <2>1, <2>2, Arrives, Upwards DEF Low, Image
  <2>4. Typed'
    BY <1>1, <2>1, <2>3 DEF Typed, pagingVars
  <2>5. Mode'
    BY <2>1, <2>2, <2>3 DEF Mode, Data, Code32, Code16, Function
  <2>6. Started' /\ Frames' /\ LowStack' /\ Carried'
    BY <2>1, <2>3 DEF Started, Frames, LowStack, Carried, pagingVars, Boot, Low, Image, Function
  <2> QED BY <2>4, <2>5, <2>6
<1>7. CASE long_mode /\ at = "protected_to_long.long_mode"
  <2>1. /\ at = "protected_to_long.long_mode" /\ level = "ret" /\ esi = Address["_start.1"]
        /\ on = Everything /\ cs = "IA32E_CODE"
        /\ ss' = "IA32E_DATA" /\ GoOnAt(<<>>, cs, esi)
        /\ UNCHANGED <<interrupts, ivt, rsp, rbp, rdi, stack, copied, asked, pagingVars>>
    BY <1>7 DEF long_mode, Started, Mode, Intended, Code64
  <2>2. Intended("_start.1") = [on |-> Everything, cs |-> "IA32E_CODE"]
    BY DEF Intended, Code64
  <2>3. GoOn(<<>>, cs, "_start.1")
    BY <1>1, <2>1, ArrivesAt
  <2>4. at' = "_start.1" /\ on' = Everything /\ cs' = "IA32E_CODE"
    BY <1>1, <2>1, <2>2, <2>3, Arrives, NoChange DEF Low, Image
  <2>5. Typed'
    BY <1>1, <2>1, <2>4 DEF Typed, pagingVars
  <2>6. Mode'
    BY <2>1, <2>2, <2>4 DEF Mode, Data, Code32, Code16, Function
  <2>7. Started' /\ Frames' /\ LowStack' /\ Carried'
    BY <2>1, <2>4 DEF Started, Frames, LowStack, Carried, pagingVars, Boot, Low, Image, Function
  <2> QED BY <2>5, <2>6, <2>7
<1> QED BY <1>3, <1>4, <1>5, <1>6, <1>7
-------------------------------------------------------------------------------
\* C and the way from it to the copied code and back.
LEMMA CallbackSteps ==
    ASSUME SwitchInv, IInv',
           \/ call_initialize_host \/ initialize_bios \/ load_mbr
           \/ real_mode_callback \/ return_to_c
    PROVE  SwitchInv'
<1> USE DEF SwitchInv
<1>1. /\ {"initialize_host", "real_mode_callback", "real_mode_callback.1", "after"} \subseteq Label
      /\ "call_real_mode_function" \in Label
      /\ \A label \in {"initialize_host", "real_mode_callback", "call_real_mode_function"} :
           Intended(label) = [on |-> Everything, cs |-> "IA32E_CODE"] /\ Data(label) = "IA32E_DATA"
  BY DEF Label, Code64, Code32, Code16, Function, Intended, Data
<1>2. \A label \in {"initialize_host", "real_mode_callback.1", "after"} :
        Address[label] \in Nat /\ Address[label] < REACH
  BY <1>1, Addresses
<1>3. /\ \A a \in Int : a \in HOST_STACK - 32 .. HOST_STACK - 1 => a \in StackMemory
      /\ \A a \in Int : a \in LOWER_MEMORY_STACK_TOP - 32 .. LOWER_MEMORY_STACK_TOP - 1
                        => a \in StackMemory
      /\ HOST_STACK \in Int /\ LOWER_MEMORY_STACK_TOP \in Int
      /\ LOWER_MEMORY_STACK_TOP >= 32 /\ LOWER_MEMORY_STACK_TOP <= HOST_STACK - 32
  BY Regions
<1>4. stack \in Contents
  BY DEF Typed
<1>5. CASE call_initialize_host
  <2> DEFINE first == Pushed(stack, HOST_STACK, Address["after"], 8)
  <2>1. /\ at = "_start.1" /\ on = Everything /\ cs = "IA32E_CODE" /\ ss = "IA32E_DATA"
        /\ level = "ret" /\ rbp = 0
        /\ stack' = Pushed(first, HOST_STACK - 8, rbp, 8)
        /\ rsp' = HOST_STACK - 16 /\ rbp' = HOST_STACK - 16
        /\ GoOn(<<>>, cs, "initialize_host")
        /\ UNCHANGED <<ss, interrupts, ivt, rdi, copied, asked, pagingVars>>
    BY <1>5 DEF call_initialize_host, Jump, Started, Mode, Intended, Data, Boot,
                Code64, Code32, Code16, Function
  <2>2. at' = "initialize_host" /\ on' = Everything /\ cs' = "IA32E_CODE"
    BY <1>1, <2>1, Arrives, NoChange DEF Low, Image
  <2>3. /\ first \in Contents
        /\ \A i \in 0 .. 7 : first[HOST_STACK - 8 + i] = Byte(Address["after"], i)
    <3>1. HOST_STACK - 8 .. HOST_STACK - 1 \subseteq StackMemory
      BY <1>3
    <3>2. Address["after"] \in Nat /\ Address["after"] < REACH
      BY <1>2
    <3>3. \A i \in 0 .. 8 - 1 : first[HOST_STACK - 8 + i] = Byte(Address["after"], i)
      BY <1>3, <1>4, <3>1, <3>2, PushWrites
    <3>4. first \in Contents
      BY <1>3, <1>4, <3>1, <3>2, PushWrites
    <3> QED BY <3>3, <3>4
  <2> HIDE DEF first
  <2>4. 0 \in Nat /\ 0 < REACH
    BY SMT DEF REACH, SEGMENT, BYTE
  <2>5. /\ stack' \in Contents
        /\ \A a \in StackMemory : a \notin HOST_STACK - 16 .. HOST_STACK - 9 => stack'[a] = first[a]
    <3>1. /\ HOST_STACK - 8 - 8 .. HOST_STACK - 8 - 1 \subseteq StackMemory
          /\ HOST_STACK - 8 - 8 .. HOST_STACK - 8 - 1 = HOST_STACK - 16 .. HOST_STACK - 9
      BY <1>3
    <3>2. HOST_STACK - 8 \in Int /\ rbp = 0
      BY <1>3, <2>1
    <3> DEFINE second == Pushed(first, HOST_STACK - 8, 0, 8)
    <3>3. \A a \in StackMemory :
            a \notin HOST_STACK - 8 - 8 .. HOST_STACK - 8 - 1 => second[a] = first[a]
      BY <2>3, <2>4, <3>1, <3>2, PushWrites
    <3>4. second \in Contents
      BY <2>3, <2>4, <3>1, <3>2, PushWrites
    <3> QED BY <2>1, <3>1, <3>2, <3>3, <3>4
  <2>6. Holds(HOST_STACK - 8, Address["after"], 8)'
    <3>1. \A i \in 0 .. 7 : /\ HOST_STACK - 8 + i \in HOST_STACK - 32 .. HOST_STACK - 1
                            /\ HOST_STACK - 8 + i \notin HOST_STACK - 16 .. HOST_STACK - 9
      BY <1>3
    <3>2. \A i \in 0 .. 7 : stack'[HOST_STACK - 8 + i] = Byte(Address["after"], i)
      BY <1>3, <2>3, <2>5, <3>1
    <3> QED BY <3>2 DEF Holds
  <2>7. Typed'
    BY <1>1, <1>3, <2>1, <2>2, <2>5 DEF Typed, pagingVars
  <2>8. Mode'
    BY <1>1, <2>1, <2>2 DEF Mode, Code16, Function
  <2>9. Started' /\ Frames' /\ LowStack' /\ Carried'
    BY <2>1, <2>2, <2>6
       DEF Started, Frames, LowStack, Carried, pagingVars, Boot, Low, Image, Function
  <2> QED BY <2>7, <2>8, <2>9
<1>6. CASE initialize_bios \/ load_mbr
  <2>1. /\ at = "initialize_host" /\ on = Everything /\ cs = "IA32E_CODE" /\ ss = "IA32E_DATA"
        /\ level = "ret" /\ rsp = HOST_STACK - 16 /\ rbp = HOST_STACK - 16
        /\ Holds(HOST_STACK - 8, Address["after"], 8)
    BY <1>6 DEF initialize_bios, load_mbr, Callback, Started, Frames, Boot, Mode, Intended, Data,
                Code64, Code32, Code16, Function
  <2>2. PICK function \in Function : Callback(function) /\ copied' = TRUE
    BY <1>6 DEF initialize_bios, load_mbr, Function, Typed
  <2>3. /\ stack' = Pushed(stack, rsp, Address["initialize_host"], 8) /\ rsp' = HOST_STACK - 24
        /\ rdi' = Address[function] - REAL_MODE_BASE_ADDRESS + real_mode_start
        /\ asked' = function /\ GoOn(<<>>, cs, "real_mode_callback")
        /\ UNCHANGED <<ss, interrupts, ivt, rbp, pagingVars>>
    BY <1>3, <2>1, <2>2, StackPointer DEF Callback, Push, Jump
  <2>4. at' = "real_mode_callback" /\ on' = Everything /\ cs' = "IA32E_CODE"
    BY <1>1, <2>1, <2>3, Arrives, NoChange DEF Low, Image
  <2>5. /\ stack' \in Contents
        /\ \A i \in 0 .. 7 : stack'[rsp - 8 + i] = Byte(Address["initialize_host"], i)
        /\ \A a \in StackMemory : a \notin rsp - 8 .. rsp - 1 => stack'[a] = stack[a]
    <3>1. rsp - 8 .. rsp - 1 \subseteq StackMemory /\ rsp \in Int
      BY <1>3, <2>1
    <3>2. Address["initialize_host"] \in Nat /\ Address["initialize_host"] < REACH
      BY <1>2
    <3>3. \A i \in 0 .. 7 : Pushed(stack, rsp, Address["initialize_host"], 8)[rsp - 8 + i]
                              = Byte(Address["initialize_host"], i)
      BY <1>4, <3>1, <3>2, PushWrites
    <3>4. /\ Pushed(stack, rsp, Address["initialize_host"], 8) \in Contents
          /\ \A a \in StackMemory : a \notin rsp - 8 .. rsp - 1
               => Pushed(stack, rsp, Address["initialize_host"], 8)[a] = stack[a]
      BY <1>4, <3>1, <3>2, PushWrites
    <3> QED BY <2>3, <3>3, <3>4
  <2>6. /\ Holds(HOST_STACK - 24, Address["initialize_host"], 8)'
        /\ Holds(HOST_STACK - 8, Address["after"], 8)'
    <3>1. \A i \in 0 .. 7 : /\ HOST_STACK - 8 + i \in HOST_STACK - 32 .. HOST_STACK - 1
                            /\ HOST_STACK - 8 + i \notin HOST_STACK - 24 .. HOST_STACK - 17
                            /\ rsp - 8 + i = HOST_STACK - 24 + i
      BY <1>3, <2>1
    <3>2. rsp - 8 .. rsp - 1 = HOST_STACK - 24 .. HOST_STACK - 17
      BY <1>3, <2>1
    <3>3. \A i \in 0 .. 7 : stack'[HOST_STACK - 24 + i] = Byte(Address["initialize_host"], i)
      BY <2>5, <3>1
    <3>4. \A i \in 0 .. 7 : stack'[HOST_STACK - 8 + i] = Byte(Address["after"], i)
      BY <1>3, <2>1, <2>5, <3>1, <3>2 DEF Holds
    <3> QED BY <3>3, <3>4 DEF Holds
  <2>7. rdi' \in Nat
    <3>1. /\ Address[function] \in Nat /\ Address[function] >= REAL_MODE_BASE_ADDRESS
          /\ REAL_MODE_BASE_ADDRESS \in Nat /\ real_mode_start \in Nat
      BY Addresses, AddressAssumption DEF Function, Low, Image, Label, Code16
    <3> QED BY <2>3, <3>1
  <2>8. Typed'
    BY <1>1, <1>3, <2>2, <2>3, <2>4, <2>5, <2>7 DEF Typed, pagingVars
  <2>9. Mode'
    BY <1>1, <2>1, <2>3, <2>4 DEF Mode, Code16, Function
  <2>10. Started' /\ Frames' /\ LowStack' /\ Carried'
    BY <2>1, <2>2, <2>3, <2>4, <2>6
       DEF Started, Frames, LowStack, Carried, pagingVars, Boot, Low, Image, Function
  <2> QED BY <2>8, <2>9, <2>10
<1>7. CASE real_mode_callback
  <2> DEFINE first == Pushed(stack, rsp, rbp, 8)
  <2>1. /\ at = "real_mode_callback" /\ on = Everything /\ cs = "IA32E_CODE" /\ ss = "IA32E_DATA"
        /\ level = "ret" /\ rsp = HOST_STACK - 24 /\ rbp = HOST_STACK - 16
        /\ Holds(HOST_STACK - 8, Address["after"], 8)
        /\ Holds(HOST_STACK - 24, Address["initialize_host"], 8)
        /\ copied /\ asked \in Function
        /\ rdi = Address[asked] - REAL_MODE_BASE_ADDRESS + real_mode_start
    BY <1>1, <1>7 DEF real_mode_callback, Started, Frames, Carried, Boot, Mode
  <2>2. /\ stack' = Pushed(first, LOWER_MEMORY_STACK_TOP, Address["real_mode_callback.1"], 8)
        /\ rbp' = HOST_STACK - 32 /\ rsp' = LOWER_MEMORY_STACK_TOP - 8
        /\ rdi' = rdi - real_mode_start + REAL_MODE_BASE_ADDRESS
        /\ GoOn(<<>>, cs, "call_real_mode_function")
        /\ UNCHANGED <<ss, interrupts, ivt, copied, asked, pagingVars>>
    BY <1>3, <1>7, <2>1 DEF real_mode_callback, Jump
  <2>3. at' = "call_real_mode_function" /\ on' = Everything /\ cs' = "IA32E_CODE"
    BY <1>1, <2>1, <2>2, Arrives, NoChange
  <2>4. /\ first \in Contents
        /\ \A i \in 0 .. 7 : first[rsp - 8 + i] = Byte(HOST_STACK - 16, i)
        /\ \A a \in StackMemory : a \notin rsp - 8 .. rsp - 1 => first[a] = stack[a]
    BY <1>3, <1>4, <2>1, PushWrites, Addresses
  <2> HIDE DEF first
  <2>5. /\ stack' \in Contents
        /\ \A i \in 0 .. 7 : stack'[LOWER_MEMORY_STACK_TOP - 8 + i]
                               = Byte(Address["real_mode_callback.1"], i)
        /\ \A a \in StackMemory : a \notin LOWER_MEMORY_STACK_TOP - 8 .. LOWER_MEMORY_STACK_TOP - 1
                                    => stack'[a] = first[a]
    <3>1. LOWER_MEMORY_STACK_TOP - 8 .. LOWER_MEMORY_STACK_TOP - 1 \subseteq StackMemory
      BY <1>3
    <3>2. Address["real_mode_callback.1"] \in Nat /\ Address["real_mode_callback.1"] < REACH
      BY <1>2
    <3> DEFINE second == Pushed(first, LOWER_MEMORY_STACK_TOP, Address["real_mode_callback.1"], 8)
    <3>3. /\ second \in Contents
          /\ \A i \in 0 .. 7 : second[LOWER_MEMORY_STACK_TOP - 8 + i]
                                 = Byte(Address["real_mode_callback.1"], i)
          /\ \A a \in StackMemory :
               a \notin LOWER_MEMORY_STACK_TOP - 8 .. LOWER_MEMORY_STACK_TOP - 1
                 => second[a] = first[a]
      BY <1>3, <2>4, <3>1, <3>2, PushWrites
    <3> QED BY <2>2, <3>3
  <2>6. \A a \in HOST_STACK - 32 .. HOST_STACK - 1 : stack'[a] = first[a]
    BY <1>3, <2>5
  <2>7. \A a \in HOST_STACK - 24 .. HOST_STACK - 1 : stack'[a] = stack[a]
    BY <1>3, <2>1, <2>4, <2>6
  <2>8. /\ Holds(HOST_STACK - 32, HOST_STACK - 16, 8)'
        /\ Holds(HOST_STACK - 24, Address["initialize_host"], 8)'
        /\ Holds(HOST_STACK - 8, Address["after"], 8)'
        /\ Holds(LOWER_MEMORY_STACK_TOP - 8, Address["real_mode_callback.1"], 8)'
    <3>1. \A i \in 0 .. 7 : /\ HOST_STACK - 8 + i \in HOST_STACK - 24 .. HOST_STACK - 1
                            /\ HOST_STACK - 24 + i \in HOST_STACK - 24 .. HOST_STACK - 1
                            /\ HOST_STACK - 32 + i \in HOST_STACK - 32 .. HOST_STACK - 1
                            /\ rsp - 8 + i = HOST_STACK - 32 + i
      BY <1>3, <2>1
    <3>2. \A i \in 0 .. 7 : stack'[HOST_STACK - 32 + i] = Byte(HOST_STACK - 16, i)
      BY <2>4, <2>6, <3>1
    <3>3. \A i \in 0 .. 7 : /\ stack'[HOST_STACK - 24 + i] = Byte(Address["initialize_host"], i)
                            /\ stack'[HOST_STACK - 8 + i] = Byte(Address["after"], i)
      BY <2>1, <2>7, <3>1 DEF Holds
    <3> QED BY <2>5, <3>2, <3>3 DEF Holds
  <2>9. rdi' = Address[asked] /\ rdi' \in Nat
    <3>1. asked \in Label
      BY <2>1 DEF Function, Label, Code16
    <3>2. Address[asked] \in Nat /\ REAL_MODE_BASE_ADDRESS \in Nat /\ real_mode_start \in Nat
      BY <3>1, Addresses, AddressAssumption
    <3>3. \A a, b, c \in Nat : a - b + c - c + b = a
      OBVIOUS
    <3>4. rdi' = Address[asked] - REAL_MODE_BASE_ADDRESS + real_mode_start
                  - real_mode_start + REAL_MODE_BASE_ADDRESS
      BY <2>1, <2>2, <3>2, SMTT(30)
    <3> QED BY <3>2, <3>3, <3>4
  <2>10. Typed'
    BY <1>1, <1>3, <2>1, <2>2, <2>3, <2>5, <2>9 DEF Typed, pagingVars
  <2>11. Mode'
    BY <1>1, <2>1, <2>2, <2>3 DEF Mode, Code16, Function
  <2>12. LowStack'
    BY <1>3, <2>1, <2>2, <2>3, <2>8 DEF LowStack, Width, Function
  <2>13. Started' /\ Frames' /\ Carried'
    BY <2>1, <2>2, <2>3, <2>8, <2>9
       DEF Started, Frames, Carried, pagingVars, Boot, Low, Image, Function
  <2> QED BY <2>10, <2>11, <2>12, <2>13
<1>8. CASE return_to_c
  <2>1. /\ at = "real_mode_callback.1" /\ on = Everything /\ cs = "IA32E_CODE" /\ ss = "IA32E_DATA"
        /\ level = "ret" /\ rbp = HOST_STACK - 32
        /\ Holds(HOST_STACK - 8, Address["after"], 8)
        /\ Holds(HOST_STACK - 24, Address["initialize_host"], 8)
        /\ Holds(HOST_STACK - 32, HOST_STACK - 16, 8)
    BY <1>8 DEF return_to_c, Started, Frames, Boot, Mode, Intended, Data,
                Code64, Code32, Code16, Function
  <2>2. Value(HOST_STACK - 32, 8) = HOST_STACK - 16
    BY <1>3, <2>1, PopReads, Addresses
  <2>3. Value(HOST_STACK - 24, 8) = Address["initialize_host"]
    BY <1>2, <1>3, <2>1, PopReads
  <2>4. /\ rsp' = HOST_STACK - 16 /\ rbp' = HOST_STACK - 16
        /\ GoOnAt(<<>>, cs, Address["initialize_host"])
        /\ UNCHANGED <<ss, interrupts, ivt, rdi, stack, copied, asked, pagingVars>>
    <3>1. rbp + 16 = HOST_STACK - 16 /\ rbp + 8 = HOST_STACK - 24
      BY <1>3, <2>1
    <3> QED BY <1>8, <2>1, <2>2, <2>3, <3>1 DEF return_to_c
  <2>5. at' = "initialize_host" /\ on' = Everything /\ cs' = "IA32E_CODE"
    <3>1. GoOn(<<>>, cs, "initialize_host")
      BY <1>1, <2>4, ArrivesAt
    <3> QED BY <1>1, <2>1, <3>1, Arrives, NoChange DEF Low, Image
  <2>6. Typed'
    BY <1>1, <1>3, <2>4, <2>5 DEF Typed, pagingVars
  <2>7. Mode'
    BY <1>1, <2>1, <2>4, <2>5 DEF Mode, Code16, Function
  <2>8. Started' /\ Frames' /\ LowStack' /\ Carried'
    BY <2>1, <2>4, <2>5
       DEF Started, Frames, LowStack, Carried, Holds, pagingVars, Boot, Low, Image, Function
  <2> QED BY <2>6, <2>7, <2>8
<1> QED BY <1>5, <1>6, <1>7, <1>8
-------------------------------------------------------------------------------
\* From one label of the copied code to another, C's frames and the return
\* address to C stay.
LEMMA LowArrives ==
    ASSUME SwitchInv, at \in Low, NEW label \in Low, NEW steps, NEW segment,
           GoOn(steps, segment, label), AllAllowed(steps), segment = Intended(label).cs,
           Intended(label).on = (IF steps = <<>> THEN on ELSE steps[Len(steps)]),
           ss' = Data(label), interrupts' \in BOOLEAN, ivt' \in BOOLEAN,
           interrupts' => label \in {"call_real_mode_function.3", "real_to_protected"},
           label \in Code16 \ {"protected_real_mode"} => ivt',
           rsp' = LOWER_MEMORY_STACK_TOP - 8 - Width(label), rdi' \in Nat, esi' \in Nat,
           stack' \in Contents,
           \A a \in StackMemory : a >= LOWER_MEMORY_STACK_TOP - 8 => stack'[a] = stack[a],
           Width(label) > 0 => Holds(rsp, Address[Back(label)], Width(label))',
           UNCHANGED <<rbp, copied, asked, level>>
    PROVE  at' = label /\ Typed' /\ Mode' /\ Started' /\ Frames' /\ LowStack'
<1> USE DEF SwitchInv
<1>1. label \in Label /\ copied /\ level = "ret"
  BY DEF Low, LowStack, Started, Image
<1>2. at' = label /\ on' = Intended(label).on /\ cs' = Intended(label).cs
  BY <1>1, Arrives
<1>3. Typed'
  <2>1. rsp' \in Nat
    BY Regions DEF Width
  <2>2. label # "after"
    BY DEF Low, Image
  <2> QED BY <1>1, <1>2, <2>1, <2>2 DEF Typed
<1>4. Mode'
  BY <1>2 DEF Mode
<1>5. \A from \in {LOWER_MEMORY_STACK_TOP - 8, HOST_STACK - 32, HOST_STACK - 24, HOST_STACK - 8} :
        \A value : Holds(from, value, 8) => Holds(from, value, 8)'
  <2> SUFFICES ASSUME NEW from \in {LOWER_MEMORY_STACK_TOP - 8, HOST_STACK - 32,
                                    HOST_STACK - 24, HOST_STACK - 8}
               PROVE  \A value : Holds(from, value, 8) => Holds(from, value, 8)'
    OBVIOUS
  <2>1. \A i \in 0 .. 8 - 1 :
          from + i \in StackMemory /\ from + i >= LOWER_MEMORY_STACK_TOP - 8
    BY Regions
  <2> QED BY <2>1 DEF Holds
<1>6. Started' /\ Frames'
  BY <1>1, <1>2, <1>5 DEF Started, Frames, Boot, Low, Image
<1>7. LowStack'
  BY <1>1, <1>2, <1>5 DEF LowStack
<1> QED BY <1>2, <1>3, <1>4, <1>6, <1>7

\* The calls of call_real_mode_function.
LEMMA LowCalls ==
    ASSUME SwitchInv, at \in Low, Width(at) = 0, NEW label \in Low, Call(label, Back(label)),
           Width(label) = Bits[at] \div 8, Width(label) \in {2, 4, 8},
           Intended(label) = Intended(at), Data(label) = Data(at),
           interrupts => label = "real_to_protected",
           label \in Code16 => at \in Code16 \ {"protected_real_mode"}
    PROVE  /\ at' = label /\ Typed' /\ Mode' /\ Started' /\ Frames' /\ LowStack'
           /\ UNCHANGED <<rdi, asked>>
<1>1. Back(label) \in Label /\ Back(label) \in Low /\ label \in Label
  BY DEF Back, Low, Label, Image, Code64, Code32, Code16, Function
<1>2. rsp = LOWER_MEMORY_STACK_TOP - 8
  BY Regions DEF SwitchInv, LowStack
<1>3. rsp - Width(label) .. rsp - 1 \subseteq StackMemory
  BY <1>2, Regions
<1>4. /\ GoOn(<<>>, cs, label)
      /\ rsp' = rsp - Width(label) /\ stack' \in Contents
      /\ Holds(rsp, Address[Back(label)], Width(label))'
      /\ \A a \in StackMemory : a \notin rsp - Width(label) .. rsp - 1 => stack'[a] = stack[a]
      /\ UNCHANGED <<ss, interrupts, ivt, rbp, rdi, copied, asked, pagingVars>>
  BY <1>1, <1>3, CallPushes, Addresses
<1>5. \A a \in StackMemory : a >= LOWER_MEMORY_STACK_TOP - 8 => stack'[a] = stack[a]
  BY <1>2, <1>4, Regions
<1>6. /\ on = Intended(at).on /\ cs = Intended(at).cs /\ ss = Data(at) /\ interrupts \in BOOLEAN
      /\ ivt \in BOOLEAN /\ rdi \in Nat /\ esi \in Nat /\ level = level
      /\ at \in Code16 \ {"protected_real_mode"} => ivt
  BY DEF SwitchInv, Mode, Typed
<1>7. UNCHANGED <<esi, level>>
  BY <1>4 DEF pagingVars
<1> QED BY <1>1, <1>2, <1>4, <1>5, <1>6, <1>7, LowArrives, NoChange

\* The returns to it: of two bytes too many where the caller's mode was wider.
LEMMA LowGoesBack ==
    ASSUME SwitchInv, at \in Low, Width(at) > 0, NEW width \in {2, 4}, NEW more \in Nat,
           width + more = Width(at), NEW steps, NEW data, Return(steps, data, width, more),
           AllAllowed(steps), cs = Intended(Back(at)).cs, data = Data(Back(at)),
           Intended(Back(at)).on = (IF steps = <<>> THEN on ELSE steps[Len(steps)]),
           interrupts' \in BOOLEAN, interrupts' => Back(at) = "call_real_mode_function.3",
           Back(at) \in Code16 => at \in Code16 \ {"protected_real_mode"}
    PROVE  /\ at' = Back(at) /\ Typed' /\ Mode' /\ Started' /\ Frames' /\ LowStack'
           /\ UNCHANGED <<rdi, asked>>
<1>1. /\ GoOn(steps, cs, Back(at)) /\ ss' = data /\ rsp' = rsp + width + more
      /\ UNCHANGED <<stack, ivt, rbp, rdi, copied, asked, pagingVars>>
  BY LowReturns
<1>2. Back(at) \in Low /\ Width(Back(at)) = 0
  BY DEF Back, Width, Low, Label, Image, Code64, Code32, Code16, Function
<1>3. rsp' = LOWER_MEMORY_STACK_TOP - 8 - Width(Back(at))
  BY <1>1, <1>2, Regions DEF SwitchInv, LowStack, Width
<1>4. /\ ivt \in BOOLEAN /\ rdi \in Nat /\ esi \in Nat /\ stack \in Contents
      /\ at \in Code16 \ {"protected_real_mode"} => ivt
  BY DEF SwitchInv, Mode, Typed
<1>5. UNCHANGED <<esi, level>>
  BY <1>1 DEF pagingVars
<1> QED BY <1>1, <1>2, <1>3, <1>4, <1>5, LowArrives

\* The jumps within a subroutine.
LEMMA LowGoesOn ==
    ASSUME SwitchInv, at \in Low, NEW label \in Low,
           Width(label) = Width(at), Back(label) = Back(at), NEW steps, NEW segment,
           GoOn(steps, segment, label), AllAllowed(steps), segment = Intended(label).cs,
           Intended(label).on = (IF steps = <<>> THEN on ELSE steps[Len(steps)]),
           ss' = Data(label), interrupts' \in BOOLEAN, ~interrupts', ivt' \in BOOLEAN,
           label \in Code16 \ {"protected_real_mode"} => ivt',
           UNCHANGED <<rsp, rbp, rdi, stack, copied, asked, pagingVars>>
    PROVE  at' = label /\ Typed' /\ Mode' /\ Started' /\ Frames' /\ LowStack'
<1>1. /\ rdi \in Nat /\ esi \in Nat /\ stack \in Contents
      /\ rsp = LOWER_MEMORY_STACK_TOP - 8 - Width(label)
      /\ Width(label) > 0 => Holds(rsp, Address[Back(label)], Width(label))
  BY DEF SwitchInv, Typed, LowStack
<1>2. UNCHANGED <<esi, level>>
  BY DEF pagingVars
<1>3. Width(label) > 0 => Holds(rsp, Address[Back(label)], Width(label))'
  BY <1>1 DEF Holds
<1> QED BY <1>1, <1>2, <1>3, LowArrives

\* The ways back up, with nothing above the return address to C.
LEMMA LowGoesUp ==
    ASSUME SwitchInv, at \in Low, NEW label \in Low \ Code16, Width(label) = 0,
           NEW steps, NEW segment,
           GoOn(steps, segment, label), AllAllowed(steps), segment = Intended(label).cs,
           Intended(label).on = (IF steps = <<>> THEN on ELSE steps[Len(steps)]),
           ss' = Data(label), interrupts' \in BOOLEAN, ~interrupts', ivt' = ivt,
           rsp' = LOWER_MEMORY_STACK_TOP - 8, rdi' \in Nat, esi' \in Nat,
           UNCHANGED <<rbp, stack, copied, asked, level>>
    PROVE  at' = label /\ Typed' /\ Mode' /\ Started' /\ Frames' /\ LowStack'
<1>1. rsp' = LOWER_MEMORY_STACK_TOP - 8 - Width(label)
  BY Regions
<1>2. ivt' \in BOOLEAN /\ stack' \in Contents
  BY DEF SwitchInv, Typed
<1> QED BY <1>1, <1>2, LowArrives
-------------------------------------------------------------------------------
\* The subroutines that change the mode, and the calls and returns around them.
LEMMA CallSteps ==
    ASSUME SwitchInv, IInv', call_real_mode_function
    PROVE  SwitchInv'
<1>1. CASE at = "call_real_mode_function" /\ Call("long_to_protected", "call_real_mode_function.1")
  <2>1. /\ at' = "long_to_protected" /\ Typed' /\ Mode' /\ Started' /\ Frames' /\ LowStack'
        /\ UNCHANGED <<rdi, asked>>
    BY <1>1, LowCalls DEF SwitchInv, Mode, Low, Label, Image, Code64, Code32, Code16, Function,
                          Width, Back, Bits, Intended, Data
  <2> QED BY <1>1, <2>1 DEF SwitchInv, Carried, Boot, Function
<1>2. CASE at = "call_real_mode_function.1" /\ Call("protected_to_real", "call_real_mode_function.2")
  <2>1. /\ at' = "protected_to_real" /\ Typed' /\ Mode' /\ Started' /\ Frames' /\ LowStack'
        /\ UNCHANGED <<rdi, asked>>
    BY <1>2, LowCalls DEF SwitchInv, Mode, Low, Label, Image, Code64, Code32, Code16, Function,
                          Width, Back, Bits, Intended, Data
  <2> QED BY <1>2, <2>1 DEF SwitchInv, Carried, Boot, Function
<1>3. CASE /\ at = "call_real_mode_function.2"
           /\ \E label \in Label : /\ Address[label] = rdi % SEGMENT
                                   /\ Call(label, "call_real_mode_function.3")
  <2>1. PICK label \in Label : /\ Address[label] = rdi % SEGMENT
                               /\ Call(label, "call_real_mode_function.3")
    BY <1>3
  <2>2. asked \in Function /\ rdi = Address[asked]
    BY <1>3 DEF SwitchInv, Carried, Boot
  <2>3. asked \in Label /\ asked \in Low /\ ~interrupts
    BY <1>3, <2>2 DEF SwitchInv, Mode, Low, Label, Image, Code16, Function
  <2>4. Address[asked] \in Nat /\ Address[asked] < SEGMENT
    BY <2>3, Addresses
  <2>5. label = asked
    BY <2>1, <2>2, <2>3, <2>4, AddressAssumption DEF SEGMENT, BYTE
  <2>6. /\ at' = asked /\ Typed' /\ Mode' /\ Started' /\ Frames' /\ LowStack'
        /\ UNCHANGED <<rdi, asked>>
    BY <1>3, <2>1, <2>2, <2>3, <2>5, LowCalls
       DEF Low, Label, Image, Code64, Code32, Code16, Function, Width, Back, Bits, Intended, Data
  <2> QED BY <2>2, <2>6 DEF SwitchInv, Carried, Boot, Function
<1>4. CASE at = "call_real_mode_function.3" /\ Call("real_to_protected", "call_real_mode_function.4")
  <2>1. /\ at' = "real_to_protected" /\ Typed' /\ Mode' /\ Started' /\ Frames' /\ LowStack'
        /\ UNCHANGED <<rdi, asked>>
    BY <1>4, LowCalls DEF Low, Label, Image, Code64, Code32, Code16, Function,
                          Width, Back, Bits, Intended, Data
  <2> QED BY <1>4, <2>1 DEF SwitchInv, Carried, Boot, Function
<1>5. CASE /\ at = "call_real_mode_function.4"
           /\ Call("protected_to_long_lower_memory", "call_real_mode_function.5")
  <2>1. /\ at' = "protected_to_long_lower_memory" /\ Typed' /\ Mode' /\ Started' /\ Frames'
        /\ LowStack' /\ UNCHANGED <<rdi, asked>>
    BY <1>5, LowCalls DEF SwitchInv, Mode, Low, Label, Image, Code64, Code32, Code16, Function,
                          Width, Back, Bits, Intended, Data
  <2> QED BY <1>5, <2>1 DEF SwitchInv, Carried, Boot, Function
<1>6. CASE at = "call_real_mode_function.5" /\ Return(<<>>, ss, 8, 0) /\ UNCHANGED interrupts
  <2> USE DEF SwitchInv
  <2>1. /\ at \in Low /\ Width(at) = 0 /\ on = Everything /\ cs = "IA32E_CODE" /\ ss = "IA32E_DATA"
        /\ ~interrupts /\ level = "ret" /\ asked \in Function
    BY <1>6 DEF Low, Label, Image, Code64, Code32, Code16, Function, Width, Mode, Intended, Data,
                Started, Carried, Boot
  <2>2. /\ rsp = LOWER_MEMORY_STACK_TOP - 8 /\ copied
        /\ Holds(LOWER_MEMORY_STACK_TOP - 8, Address["real_mode_callback.1"], 8)
    BY <2>1, Regions DEF LowStack
  <2>3. "real_mode_callback.1" \in Label /\ "real_mode_callback.1" \notin Low
    BY DEF Label, Code64, Low, Image
  <2>4. Value(rsp, 8) = Address["real_mode_callback.1"]
    BY <2>2, <2>3, Regions, Addresses, PopReads
  <2>5. /\ GoOnAt(<<>>, cs, Address["real_mode_callback.1"]) /\ ss' = ss /\ rsp' = rsp + 8
        /\ UNCHANGED <<stack, ivt, rbp, rdi, copied, asked, pagingVars>>
    <3>1. /\ GoOnAt(<<>>, cs, Value(Pointer(StackSize(on, ss)), 8)) /\ ss' = ss
          /\ rsp' = rsp + 8 + 0 /\ UNCHANGED <<stack, ivt, rbp, rdi, copied, asked, pagingVars>>
      BY <1>6 DEF Return
    <3>2. rsp \in Int
      BY <2>2, Regions
    <3> QED BY <2>4, <3>1, <3>2, StackPointer
  <2>6. Intended("real_mode_callback.1") = [on |-> Everything, cs |-> "IA32E_CODE"]
    BY DEF Intended, Code64
  <2>7. at' = "real_mode_callback.1" /\ on' = Everything /\ cs' = "IA32E_CODE"
    <3>1. GoOn(<<>>, cs, "real_mode_callback.1")
      BY <2>3, <2>5, ArrivesAt
    <3> QED BY <2>1, <2>3, <2>6, <3>1, Arrives, NoChange
  <2>8. Typed'
    BY <1>6, <2>2, <2>3, <2>5, <2>7, Regions DEF Typed, pagingVars
  <2>9. Mode'
    BY <1>6, <2>1, <2>5, <2>6, <2>7 DEF Mode, Data, Code32, Code16, Function
  <2>10. Started' /\ Frames' /\ LowStack' /\ Carried'
    BY <1>6, <2>1, <2>3, <2>5, <2>7
       DEF Started, Frames, LowStack, Carried, Holds, pagingVars, Boot, Function
  <2> QED BY <2>8, <2>9, <2>10
<1> QED BY <1>1, <1>2, <1>3, <1>4, <1>5, <1>6 DEF call_real_mode_function

LEMMA DownSteps ==
    ASSUME SwitchInv, IInv',
           long_to_protected \/ compatibility_mode \/ protected_to_real \/ protected_real_mode
             \/ real_mode \/ bios_call
    PROVE  SwitchInv'
<1>1. CASE long_to_protected
  <2>1. /\ at = "long_to_protected" /\ GoOn(<<>>, "IA32_CODE", "compatibility_mode")
        /\ UNCHANGED <<ss, interrupts, ivt, rsp, rbp, rdi, stack, copied, asked, pagingVars>>
    BY <1>1 DEF long_to_protected
  <2>2. /\ at' = "compatibility_mode" /\ Typed' /\ Mode' /\ Started' /\ Frames' /\ LowStack'
    <3>1. /\ on = Everything /\ ss = "IA32E_DATA"
          /\ ~interrupts' /\ interrupts' \in BOOLEAN /\ ivt \in BOOLEAN
      BY <2>1 DEF SwitchInv, Typed, Mode, Intended, Data, Code64, Code32, Code16, Function
    <3>2. /\ "long_to_protected" \in Low /\ "compatibility_mode" \in Low
          /\ "compatibility_mode" \notin Code16
          /\ Intended("compatibility_mode") = [on |-> Everything, cs |-> "IA32_CODE"]
          /\ Data("compatibility_mode") = "IA32E_DATA"
          /\ Width("long_to_protected") = Width("compatibility_mode")
          /\ Back("long_to_protected") = Back("compatibility_mode")
      BY DEF Intended, Data, Width, Back, Low, Label, Image, Code64, Code32, Code16, Function
    <3> QED BY <2>1, <3>1, <3>2, LowGoesOn, NoChange
  <2> QED BY <2>1, <2>2 DEF SwitchInv, Carried, Boot, Function
<1>2. CASE compatibility_mode
  <2> DEFINE steps == <<on \ {"PG"}, on \ {"PG", "LME"}, on \ {"PG", "LME", "PAE"}>>
  <2>1. /\ at = "compatibility_mode" /\ Return(steps, "IA32_DATA", 4, 4) /\ interrupts' = interrupts
    BY <1>2 DEF compatibility_mode
  <2>2. on = Everything /\ cs = "IA32_CODE" /\ ~interrupts
    BY <2>1 DEF SwitchInv, Mode, Intended, Code64, Code32
  <2>3. AllAllowed(steps) /\ steps # <<>> /\ steps[Len(steps)] = {"PE"}
    BY <2>2, Downwards
  <2> HIDE DEF steps
  <2>4. /\ at' = "call_real_mode_function.1" /\ Typed' /\ Mode' /\ Started' /\ Frames' /\ LowStack'
        /\ UNCHANGED <<rdi, asked>>
    <3>1. /\ at \in Low /\ Width(at) = 8 /\ Back(at) = "call_real_mode_function.1"
          /\ Intended(Back(at)) = [on |-> {"PE"}, cs |-> "IA32_CODE"] /\ Data(Back(at)) = "IA32_DATA"
          /\ Back(at) \notin Code16
      BY <2>1 DEF Intended, Data, Width, Back, Low, Label, Image, Code64, Code32, Code16, Function
    <3>2. ~interrupts' /\ interrupts' \in BOOLEAN /\ 4 + 4 = Width(at)
      BY <2>1, <2>2, <3>1 DEF SwitchInv, Typed
    <3>3. Intended(Back(at)).on = (IF steps = <<>> THEN on ELSE steps[Len(steps)])
      BY <2>3, <3>1
    <3>4. /\ cs = Intended(Back(at)).cs /\ "IA32_DATA" = Data(Back(at)) /\ Width(at) > 0
          /\ Back(at) \in Code16 => at \in Code16 \ {"protected_real_mode"}
          /\ interrupts' => Back(at) = "call_real_mode_function.3"
      BY <2>2, <3>1, <3>2
    <3> QED BY <2>1, <2>3, <3>1, <3>2, <3>3, <3>4, LowGoesBack
  <2> QED BY <2>1, <2>4 DEF SwitchInv, Carried, Boot, Function
<1>3. CASE protected_to_real
  <2>1. /\ at = "protected_to_real" /\ GoOn(<<>>, "REAL_MODE_CODE", "protected_real_mode")
        /\ interrupts' = FALSE
        /\ UNCHANGED <<ss, ivt, rsp, rbp, rdi, stack, copied, asked, pagingVars>>
    BY <1>3 DEF protected_to_real
  <2>2. /\ at' = "protected_real_mode" /\ Typed' /\ Mode' /\ Started' /\ Frames' /\ LowStack'
    <3>1. /\ on = {"PE"} /\ ss = "IA32_DATA"
          /\ ~interrupts' /\ interrupts' \in BOOLEAN /\ ivt \in BOOLEAN
      BY <2>1 DEF SwitchInv, Typed, Mode, Intended, Data, Code64, Code32, Code16, Function
    <3>2. /\ "protected_to_real" \in Low /\ "protected_real_mode" \in Low
          /\ Intended("protected_real_mode") = [on |-> {"PE"}, cs |-> "REAL_MODE_CODE"]
          /\ Data("protected_real_mode") = "IA32_DATA"
          /\ Width("protected_to_real") = Width("protected_real_mode")
          /\ Back("protected_to_real") = Back("protected_real_mode")
      BY DEF Intended, Data, Width, Back, Low, Label, Image, Code64, Code32, Code16, Function
    <3> QED BY <2>1, <3>1, <3>2, LowGoesOn, NoChange
  <2> QED BY <2>1, <2>2 DEF SwitchInv, Carried, Boot, Function
<1>4. CASE protected_real_mode
  <2>1. /\ at = "protected_real_mode" /\ GoOn(<<on \ {"PE"}>>, cs, "real_mode")
        /\ ss' = "REAL_MODE_DATA" /\ ivt' = TRUE
        /\ UNCHANGED <<interrupts, rsp, rbp, rdi, stack, copied, asked, pagingVars>>
    BY <1>4 DEF protected_real_mode
  <2>2. /\ at' = "real_mode" /\ Typed' /\ Mode' /\ Started' /\ Frames' /\ LowStack'
    <3>1. on = {"PE"} /\ cs = "REAL_MODE_CODE" /\ ~interrupts' /\ interrupts' \in BOOLEAN
      BY <2>1 DEF SwitchInv, Typed, Mode, Intended, Code64, Code32, Code16, Function
    <3>2. /\ "protected_real_mode" \in Low /\ "real_mode" \in Low
          /\ Intended("real_mode") = [on |-> {}, cs |-> "REAL_MODE_CODE"]
          /\ Data("real_mode") = "REAL_MODE_DATA"
          /\ Width("real_mode") = Width("protected_real_mode")
          /\ Back("real_mode") = Back("protected_real_mode")
      BY DEF Intended, Data, Width, Back, Low, Label, Image, Code64, Code32, Code16, Function
    <3>3. Allowed(on, {}) /\ on \ {"PE"} = {}
      BY <3>1 DEF Allowed, LongMode
    <3>4. AllAllowed(<<{}>>) /\ <<{}>> # <<>> /\ <<{}>>[Len(<<{}>>)] = {}
      BY <3>3, OneChange
    <3>5. GoOn(<<{}>>, "REAL_MODE_CODE", "real_mode") /\ ivt' \in BOOLEAN /\ ivt'
      BY <2>1, <3>1, <3>3
    <3> DEFINE steps == <<{}>>
    <3>6. Intended("real_mode").on = (IF steps = <<>> THEN on ELSE steps[Len(steps)])
      BY <3>2, <3>4
    <3>7. GoOn(steps, "REAL_MODE_CODE", "real_mode") /\ AllAllowed(steps)
      BY <3>4, <3>5
    <3> HIDE DEF steps
    <3> QED BY <2>1, <3>1, <3>2, <3>5, <3>6, <3>7, LowGoesOn
  <2> QED BY <2>1, <2>2 DEF SwitchInv, Carried, Boot, Function
<1>5. CASE real_mode
  <2>1. at = "real_mode" /\ Return(<<>>, ss, 2, 2) /\ interrupts' = interrupts
    BY <1>5 DEF real_mode
  <2>2. /\ on = {} /\ cs = "REAL_MODE_CODE" /\ ss = "REAL_MODE_DATA" /\ ~interrupts
        /\ interrupts \in BOOLEAN
    BY <2>1 DEF SwitchInv, Typed, Mode, Intended, Data, Code64, Code32, Code16, Function
  <2>3. /\ at' = "call_real_mode_function.2" /\ Typed' /\ Mode' /\ Started' /\ Frames' /\ LowStack'
        /\ UNCHANGED <<rdi, asked>>
    BY <2>1, <2>2, LowGoesBack, NoChange
       DEF Intended, Data, Width, Back, Low, Label, Image, Code64, Code32, Code16, Function
  <2> QED BY <2>1, <2>3 DEF SwitchInv, Carried, Boot, Function
<1>6. CASE bios_call
  <2>1. at \in Function /\ Return(<<>>, ss, 2, 0) /\ interrupts' \in BOOLEAN
    BY <1>6 DEF bios_call
  <2>2. on = {} /\ cs = "REAL_MODE_CODE" /\ ss = "REAL_MODE_DATA"
    BY <2>1 DEF SwitchInv, Mode, Intended, Data, Code64, Code32, Code16, Function
  <2>3. /\ at' = "call_real_mode_function.3" /\ Typed' /\ Mode' /\ Started' /\ Frames' /\ LowStack'
        /\ UNCHANGED <<rdi, asked>>
    BY <2>1, <2>2, LowGoesBack, NoChange
       DEF Intended, Data, Width, Back, Low, Label, Image, Code64, Code32, Code16, Function
  <2> QED BY <2>1, <2>3 DEF SwitchInv, Carried, Boot, Function
<1> QED BY <1>1, <1>2, <1>3, <1>4, <1>5, <1>6

LEMMA UpSteps ==
    ASSUME SwitchInv, IInv',
           \/ real_to_protected \/ protected_mode \/ protected_to_long_lower_memory
           \/ long_mode /\ at = "protected_to_long_lower_memory.long_mode"
    PROVE  SwitchInv'
<1>1. /\ rsp \in Nat /\ Pointer(StackSize(on, ss)) = rsp
      /\ stack \in Contents /\ rdi \in Nat /\ esi \in Nat
  BY StackPointer DEF SwitchInv, Typed
<1>2. /\ "call_real_mode_function.4" \in Low /\ "call_real_mode_function.5" \in Low
      /\ "call_real_mode_function.4" \in Label /\ "call_real_mode_function.5" \in Label
  BY DEF Low, Label, Image, Code64, Code32
<1>3. /\ Address["call_real_mode_function.4"] \in Nat /\ Address["call_real_mode_function.4"] < SEGMENT
      /\ Address["call_real_mode_function.5"] \in Nat /\ Address["call_real_mode_function.5"] < SEGMENT
      /\ Address["call_real_mode_function.4"] < REACH /\ Address["call_real_mode_function.5"] < REACH
  BY <1>2, Addresses
<1>4. CASE real_to_protected
  <2> DEFINE steps == <<{"PE"}>>
  <2>1. /\ at = "real_to_protected" /\ GoOn(<<on \cup {"PE"}>>, "IA32_CODE", "protected_mode")
        /\ rdi' = Value(rsp, 2) /\ rsp' = rsp + 2 /\ ~interrupts' /\ interrupts' \in BOOLEAN
        /\ UNCHANGED <<ss, ivt, rbp, stack, copied, asked, pagingVars>>
    BY <1>1, <1>4 DEF real_to_protected
  <2>2. /\ at \in Low /\ on = {} /\ ss = "REAL_MODE_DATA" /\ ivt \in BOOLEAN
        /\ rsp = LOWER_MEMORY_STACK_TOP - 8 - 2
        /\ Holds(rsp, Address["call_real_mode_function.4"], 2)
    BY <2>1 DEF SwitchInv, Typed, Mode, LowStack, Intended, Data, Width, Back, Low, Label, Image,
                Code64, Code32, Code16, Function
  <2>3. rdi' = Address["call_real_mode_function.4"]
    BY <1>1, <1>3, <2>1, <2>2, PopReads
  <2>4. /\ "protected_mode" \in Low /\ "protected_mode" \notin Code16
        /\ Intended("protected_mode") = [on |-> {"PE"}, cs |-> "IA32_CODE"]
        /\ Data("protected_mode") = "REAL_MODE_DATA" /\ Width("protected_mode") = 0
    BY DEF Intended, Data, Width, Low, Label, Image, Code64, Code32, Code16, Function
  <2>5. Allowed(on, {"PE"}) /\ on \cup {"PE"} = {"PE"}
    BY <2>2 DEF Allowed, LongMode
  <2>6. AllAllowed(steps) /\ steps # <<>> /\ steps[Len(steps)] = {"PE"}
    BY <2>5, OneChange
  <2>7. GoOn(steps, "IA32_CODE", "protected_mode")
    BY <2>1, <2>5
  <2> HIDE DEF steps
  <2>8. Intended("protected_mode").on = (IF steps = <<>> THEN on ELSE steps[Len(steps)])
    BY <2>4, <2>6
  <2>9. /\ rsp' = LOWER_MEMORY_STACK_TOP - 8 /\ UNCHANGED <<esi, level>>
    BY <2>1, <2>2, <2>4, Regions DEF pagingVars
  <2>10. at' = "protected_mode" /\ Typed' /\ Mode' /\ Started' /\ Frames' /\ LowStack'
    <3>1. /\ Intended("protected_mode").cs = "IA32_CODE" /\ ss' = Data("protected_mode")
          /\ "protected_mode" \in Low \ Code16 /\ ivt' = ivt
          /\ UNCHANGED <<rbp, stack, copied, asked, level>> /\ rdi' \in Nat /\ esi' \in Nat
      BY <1>1, <1>3, <2>1, <2>2, <2>3, <2>4, <2>9
    <3> QED BY <2>1, <2>2, <2>4, <2>6, <2>7, <2>8, <2>9, <3>1, LowGoesUp
  <2> QED BY <2>1, <2>3, <2>10 DEF SwitchInv, Carried, Boot, Function, Back
<1>5. CASE protected_mode
  <2>1. /\ at = "protected_mode" /\ GoOnAt(<<>>, cs, rdi % SEGMENT) /\ ss' = "IA32_DATA"
        /\ UNCHANGED <<interrupts, ivt, rsp, rbp, rdi, stack, copied, asked, pagingVars>>
    BY <1>5 DEF protected_mode
  <2>2. /\ at \in Low /\ on = {"PE"} /\ cs = "IA32_CODE" /\ ~interrupts' /\ interrupts' \in BOOLEAN
        /\ rdi = Address["call_real_mode_function.4"]
    BY <2>1 DEF SwitchInv, Typed, Mode, Carried, Intended, Back, Low, Label, Image,
                Code64, Code32, Code16, Function
  <2>3. GoOn(<<>>, cs, "call_real_mode_function.4")
    <3>1. rdi % SEGMENT = Address["call_real_mode_function.4"]
      BY <1>3, <2>2 DEF SEGMENT, BYTE
    <3> QED BY <1>2, <2>1, <3>1, ArrivesAt
  <2>4. /\ "call_real_mode_function.4" \notin Code16
        /\ Intended("call_real_mode_function.4") = [on |-> {"PE"}, cs |-> "IA32_CODE"]
        /\ Data("call_real_mode_function.4") = "IA32_DATA"
        /\ Width("protected_mode") = 0
        /\ Width("call_real_mode_function.4") = 0
    BY DEF Intended, Data, Width, Back, Code64, Code32, Code16, Function
  <2>5. /\ rsp' = LOWER_MEMORY_STACK_TOP - 8
        /\ UNCHANGED <<esi, level>>
    BY <2>1, <2>2, <2>4, Regions DEF SwitchInv, LowStack, pagingVars
  <2>6. at' = "call_real_mode_function.4" /\ Typed' /\ Mode' /\ Started' /\ Frames' /\ LowStack'
    <3>1. /\ Intended("call_real_mode_function.4").on = on
          /\ Intended("call_real_mode_function.4").cs = cs
          /\ "call_real_mode_function.4" \in Low \ Code16 /\ ivt' = ivt
          /\ UNCHANGED <<rbp, stack, copied, asked, level>> /\ rdi' \in Nat /\ esi' \in Nat
      BY <1>1, <1>2, <2>1, <2>2, <2>4, <2>5
    <3> QED BY <2>1, <2>2, <2>3, <2>4, <2>5, <3>1, LowGoesUp, NoChange
  <2> QED BY <2>1, <2>6 DEF SwitchInv, Carried, Boot, Function
<1>6. CASE protected_to_long_lower_memory
  <2> DEFINE long == "protected_to_long_lower_memory.long_mode"
  <2>1. /\ at = "protected_to_long_lower_memory" /\ GoOn(ToLongMode, "IA32E_CODE", long)
        /\ esi' = Value(rsp, 4) /\ rsp' = rsp + 4
        /\ UNCHANGED <<ss, interrupts, ivt, rbp, rdi, stack, copied, asked, level>>
    BY <1>6 DEF protected_to_long_lower_memory
  <2>2. /\ at \in Low /\ on = {"PE"} /\ cs = "IA32_CODE" /\ ss = "IA32_DATA"
        /\ ~interrupts' /\ interrupts' \in BOOLEAN
        /\ rsp = LOWER_MEMORY_STACK_TOP - 8 - 4
        /\ Holds(rsp, Address["call_real_mode_function.5"], 4)
    BY <2>1 DEF SwitchInv, Typed, Mode, LowStack, Intended, Data, Width, Back, Low, Label, Image,
                Code64, Code32, Code16, Function
  <2>3. esi' = Address["call_real_mode_function.5"]
    BY <1>1, <1>3, <2>1, <2>2, PopReads
  <2>4. /\ long \in Low /\ long \notin Code16
        /\ Intended(long) = [on |-> Everything, cs |-> "IA32E_CODE"]
        /\ Data(long) = "IA32_DATA" /\ Width(long) = 0 /\ Back(long) = "call_real_mode_function.5"
    BY DEF Intended, Data, Width, Back, Low, Label, Image, Code64, Code32, Code16, Function
  <2>5. Intended(long).on = (IF ToLongMode = <<>> THEN on ELSE ToLongMode[Len(ToLongMode)])
    BY <2>2, <2>4, Upwards
  <2>6. rsp' = LOWER_MEMORY_STACK_TOP - 8
    BY <2>1, <2>2, <2>4, Regions
  <2>7. at' = long /\ Typed' /\ Mode' /\ Started' /\ Frames' /\ LowStack'
    BY <1>1, <1>3, <2>1, <2>2, <2>3, <2>4, <2>5, <2>6, LowGoesUp, Upwards
  <2> QED BY <2>1, <2>3, <2>4, <2>7 DEF SwitchInv, Carried, Boot, Function
<1>7. CASE long_mode /\ at = "protected_to_long_lower_memory.long_mode"
  <2>1. /\ at = "protected_to_long_lower_memory.long_mode" /\ GoOnAt(<<>>, cs, esi)
        /\ ss' = "IA32E_DATA"
        /\ UNCHANGED <<interrupts, ivt, rsp, rbp, rdi, stack, copied, asked, pagingVars>>
    BY <1>7 DEF long_mode
  <2>2. /\ at \in Low /\ on = Everything /\ cs = "IA32E_CODE" /\ ~interrupts' /\ interrupts' \in BOOLEAN
        /\ esi = Address["call_real_mode_function.5"]
    BY <2>1 DEF SwitchInv, Typed, Mode, Carried, Intended, Back, Low, Label, Image,
                Code64, Code32, Code16, Function
  <2>3. GoOn(<<>>, cs, "call_real_mode_function.5")
    BY <1>2, <2>1, <2>2, ArrivesAt
  <2>4. /\ "call_real_mode_function.5" \notin Code16
        /\ Intended("call_real_mode_function.5") = [on |-> Everything, cs |-> "IA32E_CODE"]
        /\ Data("call_real_mode_function.5") = "IA32E_DATA"
        /\ Width("protected_to_long_lower_memory.long_mode") = 0
        /\ Width("call_real_mode_function.5") = 0
    BY DEF Intended, Data, Width, Code64, Code32, Code16, Function
  <2>5. /\ rsp' = LOWER_MEMORY_STACK_TOP - 8
        /\ UNCHANGED <<esi, level>>
    BY <2>1, <2>2, <2>4, Regions DEF SwitchInv, LowStack, pagingVars
  <2>6. at' = "call_real_mode_function.5" /\ Typed' /\ Mode' /\ Started' /\ Frames' /\ LowStack'
    BY <1>1, <1>2, <2>1, <2>2, <2>3, <2>4, <2>5, LowGoesUp, NoChange
  <2> QED BY <2>1, <2>6 DEF SwitchInv, Carried, Boot, Function
<1> QED BY <1>4, <1>5, <1>6, <1>7

\* Init establishes SwitchInv and each step keeps it.
LEMMA SwitchStarts == Init => SwitchInv
<1> SUFFICES ASSUME Init PROVE SwitchInv
  OBVIOUS
<1>1. IInv
  BY PagingStarts DEF Init
<1>2. stack \in Contents
  <2>1. 255 \in 0 .. BYTE - 1
    BY SMT DEF BYTE
  <2> QED BY <2>1 DEF Init, Contents
<1>3. /\ at = "_start" /\ on = {"PE"} /\ cs = "IA32_CODE" /\ ss = "IA32_DATA"
      /\ interrupts = FALSE /\ ivt = FALSE /\ rsp = GRUB_STACK /\ rbp = 0 /\ rdi = 0
      /\ copied = FALSE /\ asked = "none" /\ level = "idle" /\ esi \in Nat
  BY DEF Init, PagingInit
<1>4. Typed
  BY <1>2, <1>3, StackAssumption DEF Typed, Label, Code32
<1>5. Mode
  BY <1>3 DEF Mode, Intended, Data, Code64, Code32, Code16, Function
<1>6. Started /\ Frames /\ LowStack /\ Carried
  BY <1>3 DEF Started, Frames, LowStack, Carried, Table, Boot, Low, Image, Function
<1> QED BY <1>1, <1>4, <1>5, <1>6 DEF SwitchInv

LEMMA SwitchStep == SwitchInv /\ [Next]_vars => SwitchInv'
<1> SUFFICES ASSUME SwitchInv, [Next]_vars PROVE SwitchInv'
  OBVIOUS
<1>1. IInv'
  BY SwitchesArePaging, PagingStep DEF SwitchInv
<1>2. CASE _start \/ protected_to_long \/ build_tables \/ enable_long_mode
  BY <1>1, <1>2, BootSteps
<1>3. CASE long_mode
  BY <1>1, <1>3, BootSteps, UpSteps DEF long_mode
<1>4. CASE \/ call_initialize_host \/ initialize_bios \/ load_mbr
           \/ real_mode_callback \/ return_to_c
  BY <1>1, <1>4, CallbackSteps
<1>5. CASE call_real_mode_function
  BY <1>1, <1>5, CallSteps
<1>6. CASE long_to_protected \/ compatibility_mode \/ protected_to_real \/ protected_real_mode
             \/ real_mode \/ bios_call
  BY <1>1, <1>6, DownSteps
<1>7. CASE real_to_protected \/ protected_mode \/ protected_to_long_lower_memory
  BY <1>1, <1>7, UpSteps
<1>8. CASE UNCHANGED vars
  BY <1>1, <1>8 DEF vars, cpu, pagingVars, SwitchInv, Typed, Mode, Started, Frames, LowStack,
                    Carried, Holds
<1> QED BY <1>2, <1>3, <1>4, <1>5, <1>6, <1>7, <1>8 DEF Next, Switch

THEOREM SwitchInvariance == Spec => []SwitchInv
BY SwitchStarts, SwitchStep, PTL DEF Spec
-------------------------------------------------------------------------------
\* Registers and stacks hold what the modes can, through every switch
\* (src/boot/entrypoint.asm, src/bios/switch_modes.asm).
THEOREM TypeCorrect == Spec => []TypeOK
<1>1. SwitchInv => TypeOK
  BY DEF SwitchInv, IInv, Typed, Mode, Intended, Data, Everything, TypeOK, Contents, gdt
<1> QED BY <1>1, SwitchInvariance, PTL

\* Wherever the linker puts the code and however often C calls the BIOS, no
\* switch asks for a mode the processor refuses, and no jump or return goes
\* where code for another mode, or none, is (src/bios/switch_modes.asm).
THEOREM NoFault == Spec => []NeverFaults
<1>1. SwitchInv => NeverFaults
  BY DEF SwitchInv, Typed, NeverFaults, Label, Code64, Code32, Code16, Function
<1> QED BY <1>1, SwitchInvariance, PTL

\* Interrupts, which the BIOS may leave on, are on in real mode only, under its
\* table of vectors (src/bios/switch_modes.asm:42 and :131).
THEOREM InterruptsHandled == Spec => []InterruptsFindTheIvt
<1>1. SwitchInv => InterruptsFindTheIvt
  BY DEF SwitchInv, Mode, Intended, InterruptsFindTheIvt, Code64, Code32, Code16, Function
<1> QED BY <1>1, SwitchInvariance, PTL

\* C finds its mode, its frame and its stack again after each trip to the BIOS,
\* with interrupts off (src/bios/real_mode.asm:18).
THEOREM Resumes == Spec => []CallerResumes
<1>1. SwitchInv => CallerResumes
  <2> SUFFICES ASSUME SwitchInv, at = "initialize_host"
               PROVE  /\ LongMode(on) /\ CodeSize(on, cs) = 64 /\ ~interrupts
                      /\ rsp = HOST_STACK - 16 /\ rbp = HOST_STACK - 16
                      /\ Value(HOST_STACK - 8, 8) = Address["after"]
    BY DEF CallerResumes
  <2>1. "initialize_host" \in Code64 /\ "after" \in Label
    BY DEF Label, Code64
  <2>2. LongMode(on) /\ CodeSize(on, cs) = 64 /\ ~interrupts
    BY <2>1 DEF SwitchInv, Mode, Intended, Everything, LongMode, CodeSize, gdt
  <2>3. /\ rsp = HOST_STACK - 16 /\ rbp = HOST_STACK - 16
        /\ Holds(HOST_STACK - 8, Address["after"], 8)
    BY DEF SwitchInv, Frames, Boot
  <2>4. Value(HOST_STACK - 8, 8) = Address["after"]
    BY <2>1, <2>3, Regions, Addresses, PopReads
  <2> QED BY <2>2, <2>3, <2>4
<1> QED BY <1>1, SwitchInvariance, PTL

\* real_mode_callback runs the function it was given, though its address passes
\* through edi and 16 bits of it are used (src/bios/switch_modes.asm:3).
THEOREM RunsIt == Spec => []RunsTheFunctionAsked
<1>1. SwitchInv => RunsTheFunctionAsked
  BY DEF SwitchInv, Carried, RunsTheFunctionAsked
<1> QED BY <1>1, SwitchInvariance, PTL
================================================================================
