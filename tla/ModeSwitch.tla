------------------------------- MODULE ModeSwitch ------------------------------
(****************************************************************************)
(* The processor's modes: from 32-bit protected mode, where GRUB leaves it, *)
(* to long mode and C (src/boot/entrypoint.asm), and from there to real     *)
(* mode for a call of the BIOS and back (src/bios/).  One action is the     *)
(* straight-line code from a label to the next transfer of control.  The    *)
(* stack is memory: a return address is as many bytes as the mode pushes.   *)
(****************************************************************************)
EXTENDS BootPaging, Sequences

CONSTANTS
    Address,                 \* [Label -> address]; low memory for the code copied there
    real_mode_start,         \* where the linker puts the code that is copied ...
    REAL_MODE_BASE_ADDRESS,  \* ... and where it is copied to: 0x7E00
    LOWER_MEMORY_STACK_TOP,  \* the stack of the copied code: 0x7BFF
    HOST_STACK,              \* HIGHER_MEMORY_STACK_TOP, in bytes: 0x120000
    GRUB_STACK,              \* esp as GRUB leaves it
    StackDepth               \* bytes of each stack that are modelled

VARIABLES at,          \* the label the processor is at, or "fault"
          on,          \* which of the bits "PE", "PG", "PAE" and "LME" are set
          cs, ss,      \* the descriptors loaded last
          interrupts,  \* the interrupt flag
          ivt,         \* whether IDTR points to the real mode vectors
          rsp, rbp, rdi,
          stack,       \* [address -> byte]
          copied,      \* the real mode code is in low memory
          asked        \* the function real_mode_callback was asked for

cpu == <<on, cs, ss, interrupts, ivt>>
vars == <<at, cpu, rsp, rbp, rdi, stack, copied, asked, pagingVars>>

Function == {"real_mode_smile", "read_disk"}
\* A label followed by ".n" is the place the n-th call of its code returns to.
Code64 == {"_start.1", "after", "protected_to_long.long_mode", "initialize_host",
           "real_mode_callback", "real_mode_callback.1", "call_real_mode_function",
           "call_real_mode_function.5", "long_to_protected",
           "protected_to_long_lower_memory.long_mode"}
Code32 == {"_start", "protected_to_long", "protected_to_long.1", "call_real_mode_function.1",
           "compatibility_mode", "protected_to_real", "call_real_mode_function.4",
           "protected_mode", "protected_to_long_lower_memory"}
Code16 == {"protected_real_mode", "real_mode", "call_real_mode_function.2",
           "call_real_mode_function.3", "real_to_protected"} \cup Function
Label == Code64 \cup Code32 \cup Code16
Bits == [label \in Label |-> IF label \in Code64 THEN 64
                             ELSE IF label \in Code32 THEN 32 ELSE 16]

\* The code of the image that is not copied.
Image == {"_start", "_start.1", "after", "protected_to_long", "protected_to_long.1",
          "protected_to_long.long_mode", "initialize_host", "real_mode_callback",
          "real_mode_callback.1"}

\* What one, two and three bytes can count, and the address the image starts at.
BYTE == 256
SEGMENT == BYTE * BYTE
REACH == SEGMENT * BYTE
HEADER_START == 16 * SEGMENT

\* Addresses of instructions differ, and have 24 bits at most.
ASSUME AddressAssumption ==
    /\ \A a, b \in Label : Address[a] = Address[b] => a = b
    /\ REAL_MODE_BASE_ADDRESS \in Nat /\ real_mode_start \in Nat
    /\ \A label \in Image : Address[label] \in HEADER_START .. REACH - 1
    /\ \A label \in Label \ Image : Address[label] \in REAL_MODE_BASE_ADDRESS .. SEGMENT - 1

\* The stack of the copied code is where a 16-bit register reaches, and the
\* host's is above it.  32 bytes of each are used at most.  Stacks are memory of
\* their own here: a GRUB_STACK where the tables are to be built, which would
\* lose its return addresses, is left out.
ASSUME StackAssumption ==
    /\ StackDepth \in Nat /\ StackDepth >= 32
    /\ LOWER_MEMORY_STACK_TOP \in StackDepth .. SEGMENT - 1
    /\ HOST_STACK \in LOWER_MEMORY_STACK_TOP + StackDepth .. REACH - 1
    /\ GRUB_STACK \in Nat /\ GRUB_STACK >= StackDepth

StackMemory == UNION {top - StackDepth .. top - 1 :
                        top \in {LOWER_MEMORY_STACK_TOP, HOST_STACK, GRUB_STACK}}
-------------------------------------------------------------------------------
\* The descriptors of src/boot/gdt.asm: 64-bit code, and 32-bit code or stack.
gdt == [IA32E_CODE |-> [l |-> TRUE, d |-> FALSE], IA32E_DATA |-> [l |-> FALSE, d |-> FALSE],
        IA32_CODE |-> [l |-> FALSE, d |-> TRUE], IA32_DATA |-> [l |-> FALSE, d |-> TRUE],
        REAL_MODE_CODE |-> [l |-> FALSE, d |-> FALSE],
        REAL_MODE_DATA |-> [l |-> FALSE, d |-> FALSE]]

LongMode(bits) == {"PG", "LME"} \subseteq bits

\* How the processor decodes: by the mode first, then by the descriptor.
CodeSize(bits, segment) ==
    IF "PE" \notin bits THEN 16
    ELSE IF LongMode(bits) /\ gdt[segment].l THEN 64
    ELSE IF gdt[segment].d THEN 32 ELSE 16

\* The changes of CR0, CR4 and EFER that do not fault.
Allowed(old, new) ==
    /\ "PG" \in new => "PE" \in new
    /\ "PG" \in old => ("LME" \in old <=> "LME" \in new)
    /\ LongMode(new) => "PAE" \in new
    /\ "PG" \in old \ new => CodeSize(old, cs) # 64
    /\ "PG" \in new \ old /\ "LME" \in new => ~gdt[cs].l

AllAllowed(steps) == \A i \in 1 .. Len(steps) :
                        Allowed(IF i = 1 THEN on ELSE steps[i - 1], steps[i])

\* The code at label is there, in the bits the processor decodes, where ip
\* reaches it, and mapped.
Runs(label, bits, segment) ==
    /\ CodeSize(bits, segment) = Bits[label]
    /\ CodeSize(bits, segment) = 16 => Address[label] < SEGMENT
    /\ label \notin Image => copied
    /\ "PG" \in bits => level = "ret" /\ IdentityMapped

\* The processor changes its mode step by step and goes on at a label.
GoOn(steps, segment, label) ==
    LET bits == IF steps = <<>> THEN on ELSE steps[Len(steps)]
    IN  /\ on' = bits
        /\ cs' = segment
        /\ at' = IF AllAllowed(steps) /\ Runs(label, bits, segment) THEN label ELSE "fault"

Jump(label) == GoOn(<<>>, cs, label)

\* The same, at an address taken from the stack.
GoOnAt(steps, segment, address) ==
    \/ \E label \in Label : Address[label] = address /\ GoOn(steps, segment, label)
    \/ /\ \A label \in Label : Address[label] # address
       /\ at' = "fault" /\ UNCHANGED <<on, cs>>
-------------------------------------------------------------------------------
\* The stack, addressed by the part of rsp that the mode uses.
StackSize(bits, data) ==
    IF CodeSize(bits, cs) = 64 THEN 64 ELSE IF gdt[data].d THEN 32 ELSE 16
Pointer(size) == IF size = 16 THEN rsp % SEGMENT ELSE rsp

\* Numbers on the stack are addresses, of three bytes.
Byte(n, i) == CASE i = 0 -> n % BYTE
                [] i = 1 -> (n \div BYTE) % BYTE
                [] i = 2 -> (n \div SEGMENT) % BYTE
                [] i > 2 -> 0

\* What a pop of width bytes reads; anything larger than three bytes is no address.
Value(from, width) ==
    IF \E i \in 3 .. width - 1 : stack[from + i] # 0
      THEN -1
      ELSE stack[from] + BYTE * stack[from + 1]
             + (IF width > 2 THEN SEGMENT * stack[from + 2] ELSE 0)

Pushed(bytes, pointer, value, width) ==
    [a \in DOMAIN bytes |-> IF a \in pointer - width .. pointer - 1
                              THEN Byte(value, a - (pointer - width)) ELSE bytes[a]]

Push(value, width) ==
    /\ stack' = Pushed(stack, Pointer(StackSize(on, ss)), value, width)
    /\ rsp' = rsp - width

\* call: a return address is as wide as the code.
Call(label, return) ==
    /\ Push(Address[return], Bits[at] \div 8)
    /\ Jump(label)
    /\ UNCHANGED <<ss, interrupts, ivt, rbp, rdi, copied, asked, pagingVars>>

\* ret, of an address of so many bytes and a number of bytes more.
Return(steps, data, width, more) ==
    LET bits == IF steps = <<>> THEN on ELSE steps[Len(steps)]
    IN  /\ ss' = data
        /\ GoOnAt(steps, cs, Value(Pointer(StackSize(bits, data)), width))
        /\ rsp' = rsp + width + more
        /\ UNCHANGED <<stack, ivt, rbp, rdi, copied, asked, pagingVars>>
-------------------------------------------------------------------------------
\* The order both ways to long mode have: paging off, PAE, the tables, LME, paging.
ToLongMode == LET off == on \ {"PG"}
              IN  <<off, off \cup {"PAE"}, off \cup {"PAE", "LME"}, off \cup {"PAE", "LME", "PG"}>>

\* Mutants, used by no definition: plausible slips in those further down.
compatibility_mode_near_ret ==
    /\ at = "compatibility_mode"
    /\ Return(<<on \ {"PG"}, on \ {"PG", "LME"}, on \ {"PG", "LME", "PAE"}>>, "IA32_DATA", 4, 0)
    /\ UNCHANGED interrupts
real_to_protected_without_cli ==
    /\ at = "real_to_protected"
    /\ rdi' = Value(Pointer(StackSize(on, ss)), 2)
    /\ rsp' = rsp + 2
    /\ GoOn(<<on \cup {"PE"}>>, "IA32_CODE", "protected_mode")
    /\ UNCHANGED <<ss, interrupts, ivt, rbp, stack, copied, asked, pagingVars>>
real_mode_callback_fixed ==
    /\ at = "real_mode_callback"
    /\ stack' = Pushed(Pushed(stack, rsp, rbp, 8), LOWER_MEMORY_STACK_TOP,
                       Address["real_mode_callback.1"], 8)
    /\ rbp' = rsp - 8
    /\ rsp' = LOWER_MEMORY_STACK_TOP - 8
    /\ rdi' = Address["real_mode_smile"]
    /\ Jump("call_real_mode_function")
    /\ UNCHANGED <<ss, interrupts, ivt, copied, asked, pagingVars>>
protected_to_long_lower_memory_pop_rsi ==
    /\ at = "protected_to_long_lower_memory"
    /\ esi' = Value(rsp, 8)
    /\ rsp' = rsp + 8
    /\ GoOn(ToLongMode, "IA32E_CODE", "protected_to_long_lower_memory.long_mode")
    /\ UNCHANGED <<ss, interrupts, ivt, rbp, rdi, stack, copied, asked,
                   level, regs, saved, memory>>
return_to_c_without_frame ==
    /\ at = "real_mode_callback.1"
    /\ rsp' = rbp + 16
    /\ GoOnAt(<<>>, cs, Value(rbp + 8, 8))
    /\ UNCHANGED <<rbp, ss, interrupts, ivt, rdi, stack, copied, asked, pagingVars>>

\* GRUB's hand-over: protected mode, flat segments, interrupts off.
Init ==
    /\ at = "_start" /\ on = {"PE"} /\ cs = "IA32_CODE" /\ ss = "IA32_DATA"
    /\ interrupts = FALSE /\ ivt = FALSE
    /\ rsp = GRUB_STACK /\ rbp = 0 /\ rdi = 0
    /\ stack = [a \in StackMemory |-> 255]
    /\ copied = FALSE /\ asked = "none"
    /\ PagingInit
-------------------------------------------------------------------------------
_start == at = "_start" /\ Call("protected_to_long", "_start.1")

\* pop esi, which holds the return address while the tables are built.
protected_to_long ==
    /\ at = "protected_to_long" /\ level = "idle"
    /\ esi' = Value(rsp, 4)
    /\ rsp' = rsp + 4
    /\ setup_pml4_map
    /\ UNCHANGED <<at, cpu, rbp, rdi, stack, copied, asked>>

build_tables ==
    /\ at = "protected_to_long" /\ level \in Table
    /\ setup_entry \/ popa
    /\ UNCHANGED <<at, cpu, rsp, rbp, rdi, stack, copied, asked>>

enable_long_mode ==
    /\ at = "protected_to_long" /\ level = "ret"
    /\ GoOn(ToLongMode, "IA32E_CODE", "protected_to_long.long_mode")
    /\ UNCHANGED <<ss, interrupts, ivt, rsp, rbp, rdi, stack, copied, asked, pagingVars>>

\* push rsi and ret, in 64 bits.
long_mode ==
    /\ at \in {"protected_to_long.long_mode", "protected_to_long_lower_memory.long_mode"}
    /\ ss' = "IA32E_DATA"
    /\ GoOnAt(<<>>, cs, esi)
    /\ UNCHANGED <<interrupts, ivt, rsp, rbp, rdi, stack, copied, asked, pagingVars>>

\* The host's stack, the call of initialize_host and its frame.
call_initialize_host ==
    /\ at = "_start.1"
    /\ stack' = Pushed(Pushed(stack, HOST_STACK, Address["after"], 8), HOST_STACK - 8, rbp, 8)
    /\ rsp' = HOST_STACK - 16
    /\ rbp' = HOST_STACK - 16
    /\ Jump("initialize_host")
    /\ UNCHANGED <<ss, interrupts, ivt, rdi, copied, asked, pagingVars>>
-------------------------------------------------------------------------------
\* C calls real_mode_callback with the address the function has in the image.
Callback(function) ==
    /\ at = "initialize_host"
    /\ Push(Address["initialize_host"], 8)
    /\ rdi' = Address[function] - REAL_MODE_BASE_ADDRESS + real_mode_start
    /\ asked' = function
    /\ Jump("real_mode_callback")
    /\ UNCHANGED <<ss, interrupts, ivt, rbp, pagingVars>>

initialize_bios == Callback("real_mode_smile") /\ copied' = TRUE
load_mbr == copied /\ Callback("read_disk") /\ UNCHANGED copied

real_mode_callback ==
    /\ at = "real_mode_callback"
    /\ stack' = Pushed(Pushed(stack, rsp, rbp, 8), LOWER_MEMORY_STACK_TOP,
                       Address["real_mode_callback.1"], 8)
    /\ rbp' = rsp - 8
    /\ rsp' = LOWER_MEMORY_STACK_TOP - 8
    /\ rdi' = rdi - real_mode_start + REAL_MODE_BASE_ADDRESS
    /\ Jump("call_real_mode_function")
    /\ UNCHANGED <<ss, interrupts, ivt, copied, asked, pagingVars>>

\* leave and ret.
return_to_c ==
    /\ at = "real_mode_callback.1"
    /\ rsp' = rbp + 16
    /\ rbp' = Value(rbp, 8)
    /\ GoOnAt(<<>>, cs, Value(rbp + 8, 8))
    /\ UNCHANGED <<ss, interrupts, ivt, rdi, stack, copied, asked, pagingVars>>
-------------------------------------------------------------------------------
\* The calls of call_real_mode_function, each in the mode the one before it left.
call_real_mode_function ==
    \/ /\ at = "call_real_mode_function"
       /\ Call("long_to_protected", "call_real_mode_function.1")
    \/ /\ at = "call_real_mode_function.1"
       /\ Call("protected_to_real", "call_real_mode_function.2")
    \/ /\ at = "call_real_mode_function.2"
       /\ \E label \in Label : /\ Address[label] = rdi % SEGMENT
                               /\ Call(label, "call_real_mode_function.3")
    \/ /\ at = "call_real_mode_function.3"
       /\ Call("real_to_protected", "call_real_mode_function.4")
    \/ /\ at = "call_real_mode_function.4"
       /\ Call("protected_to_long_lower_memory", "call_real_mode_function.5")
    \/ /\ at = "call_real_mode_function.5"
       /\ Return(<<>>, ss, 8, 0)
       /\ UNCHANGED interrupts

\* A far return to a 32-bit segment, by way of two words it pushes itself.
long_to_protected ==
    /\ at = "long_to_protected"
    /\ GoOn(<<>>, "IA32_CODE", "compatibility_mode")
    /\ UNCHANGED <<ss, interrupts, ivt, rsp, rbp, rdi, stack, copied, asked, pagingVars>>

\* ret 4: the return address was pushed by 64-bit code.
compatibility_mode ==
    /\ at = "compatibility_mode"
    /\ Return(<<on \ {"PG"}, on \ {"PG", "LME"}, on \ {"PG", "LME", "PAE"}>>, "IA32_DATA", 4, 4)
    /\ UNCHANGED interrupts

protected_to_real ==
    /\ at = "protected_to_real"
    /\ interrupts' = FALSE
    /\ GoOn(<<>>, "REAL_MODE_CODE", "protected_real_mode")
    /\ UNCHANGED <<ss, ivt, rsp, rbp, rdi, stack, copied, asked, pagingVars>>

protected_real_mode ==
    /\ at = "protected_real_mode"
    /\ ss' = "REAL_MODE_DATA"
    /\ ivt' = TRUE
    /\ GoOn(<<on \ {"PE"}>>, cs, "real_mode")
    /\ UNCHANGED <<interrupts, rsp, rbp, rdi, stack, copied, asked, pagingVars>>

\* ret 2: the return address was pushed by 32-bit code.
real_mode == at = "real_mode" /\ Return(<<>>, ss, 2, 2) /\ UNCHANGED interrupts

\* The functions themselves: the BIOS may leave interrupts on or off.
bios_call ==
    /\ at \in Function
    /\ interrupts' \in BOOLEAN
    /\ Return(<<>>, ss, 2, 0)

real_to_protected ==
    /\ at = "real_to_protected"
    /\ rdi' = Value(Pointer(StackSize(on, ss)), 2)
    /\ rsp' = rsp + 2
    /\ interrupts' = FALSE
    /\ GoOn(<<on \cup {"PE"}>>, "IA32_CODE", "protected_mode")
    /\ UNCHANGED <<ss, ivt, rbp, stack, copied, asked, pagingVars>>

\* push edi and ret, in 32 bits.
protected_mode ==
    /\ at = "protected_mode"
    /\ ss' = "IA32_DATA"
    /\ GoOnAt(<<>>, cs, rdi % SEGMENT)
    /\ UNCHANGED <<interrupts, ivt, rsp, rbp, rdi, stack, copied, asked, pagingVars>>

protected_to_long_lower_memory ==
    /\ at = "protected_to_long_lower_memory"
    /\ esi' = Value(rsp, 4)
    /\ rsp' = rsp + 4
    /\ GoOn(ToLongMode, "IA32E_CODE", "protected_to_long_lower_memory.long_mode")
    /\ UNCHANGED <<ss, interrupts, ivt, rbp, rdi, stack, copied, asked,
                   level, regs, saved, memory>>

Switch == \/ _start \/ protected_to_long \/ build_tables \/ enable_long_mode \/ long_mode
          \/ call_initialize_host \/ real_mode_callback \/ return_to_c
          \/ call_real_mode_function \/ long_to_protected \/ compatibility_mode
          \/ protected_to_real \/ protected_real_mode \/ real_mode \/ bios_call
          \/ real_to_protected \/ protected_mode \/ protected_to_long_lower_memory

Next == Switch \/ initialize_bios \/ load_mbr

\* C need not call the BIOS; the rest is straight-line code.
Spec == Init /\ [][Next]_vars /\ WF_vars(Switch)
-------------------------------------------------------------------------------
TypeOK ==
    /\ at \in Label \cup {"fault"}
    /\ on \subseteq {"PE", "PG", "PAE", "LME"}
    /\ cs \in DOMAIN gdt /\ ss \in DOMAIN gdt
    /\ interrupts \in BOOLEAN /\ ivt \in BOOLEAN /\ copied \in BOOLEAN
    /\ rsp \in Nat /\ rbp \in Nat /\ rdi \in Nat /\ esi \in Nat
    /\ stack \in [StackMemory -> 0 .. BYTE - 1]
    /\ asked \in Function \cup {"none"}
    /\ PagingTypeOK

\* The processor is never asked for a mode it refuses, and wherever a jump or a
\* return takes it, code is there that was assembled for the mode it is in
\* (src/bios/switch_modes.asm, src/boot/entrypoint.asm:66).
NeverFaults == at # "fault"

\* The IVT is the only table of handlers there is: interrupts may be on in real
\* mode only (src/bios/switch_modes.asm:42 and :131).
InterruptsFindTheIvt == interrupts => ivt /\ "PE" \notin on

\* C gets back what it left: mode, frame, stack and a masked processor, after
\* any number of trips through stacks of four widths (src/bios/real_mode.asm:18).
CallerResumes ==
    at = "initialize_host" =>
      /\ LongMode(on) /\ CodeSize(on, cs) = 64 /\ ~interrupts
      /\ rsp = HOST_STACK - 16 /\ rbp = HOST_STACK - 16
      /\ Value(HOST_STACK - 8, 8) = Address["after"]

\* The address of the function survives the way down in edi, which three
\* segments of code could have used (src/bios/switch_modes.asm:3).
RunsTheFunctionAsked == at \in Function => at = asked

\* Control is always given back to C.
HostGoesOn == []<>(at = "initialize_host")
================================================================================
