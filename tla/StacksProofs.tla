------------------------------ MODULE StacksProofs -----------------------------
(****************************************************************************)
(* Proofs about Stacks, for any formats, arguments and sizes of frames:     *)
(* every function active is at a step of its own, no stack grows past its   *)
(* room when the frames fit it, and an argument prints as its low bits, in  *)
(* every base.                                                              *)
(****************************************************************************)
EXTENDS Stacks, SequenceTheorems, WellFoundedInduction, TLAPS

\* The functions that run on a stack: those of Printing on each of them, those of
\* start-up on the stack of _start, those of an exit on the host's, and the
\* guest's on the two others.
LogFunctions == {"log_log", "sprintf", "vsprintf", "sprint_integer"}
StartFunctions == {"initialize_host", "enter_vmx_root", "configure_vmcs", "launch_vm", "PANIC"}
ExitFunctions == {"vmexit_handler", "PANIC"} \cup Handler
SysenterFunctions == {"sysenter_handler", "sysenter_mallware"}
CalledByKmain == {"init_syscalls", "inject_mallwares", "exit", "syscall", "syscall_handler",
                  "syscall_mallware", "dispatch_handler", "read_entry", "call_entry",
                  "ssdt_hook", "print_a_crab"}
GuestFunctions == {"kmain"} \cup CalledByKmain \cup SysenterFunctions
Functions == StartFunctions \cup ExitFunctions \cup GuestFunctions

Runs(s) == LogFunctions \cup (IF s = "higher" THEN StartFunctions
                              ELSE IF s = "host" THEN ExitFunctions ELSE GuestFunctions)

\* Where the steps of a function lead: to a function of the same stack, and where
\* the processor leaves it, from which function and at which step.
LeadsTo(fn, i, step) ==
    /\ step \in Functions \ Handler =>
         /\ fn \in StartFunctions => step \in StartFunctions
         /\ fn \in ExitFunctions => step = "PANIC"
         /\ fn \in GuestFunctions => step \in CalledByKmain \cup {"sysenter_handler"}
         /\ step = "sysenter_handler" => fn = "sysenter_mallware" /\ i = 2
    /\ step \in Handler => fn \in GuestFunctions
    /\ step = "vmlaunch" => fn = "launch_vm"
    /\ step = "handler" => fn = "vmexit_handler"
    /\ step = "sysenter" => fn = "kmain" /\ i = 6
    /\ step = "ret" => fn = "sysenter_handler" /\ i = 2

LEMMA Bodies ==
    /\ DOMAIN Body = Functions
    /\ Body["PANIC"] = PANIC /\ Body["initialize_host"] = initialize_host
    /\ Body["enter_vmx_root"] = enter_vmx_root /\ Body["configure_vmcs"] = configure_vmcs
    /\ Body["launch_vm"] = launch_vm /\ Body["vmexit_handler"] = vmexit_handler
    /\ Body["halt_handler"] = halt_handler /\ Body["rdmsr_handler"] = rdmsr_handler
    /\ Body["wrmsr_handler"] = wrmsr_handler /\ Body["vmcall_handler"] = vmcall_handler
    /\ Body["ept_violation_handler"] = ept_violation_handler
    /\ Body["ept_misconfig_handler"] = ept_misconfig_handler
    /\ Body["init_syscalls"] = init_syscalls /\ Body["inject_mallwares"] = inject_mallwares
    /\ Body["kmain"] = kmain /\ Body["exit"] = exit /\ Body["syscall"] = syscall
    /\ Body["syscall_handler"] = syscall_handler /\ Body["syscall_mallware"] = syscall_mallware
    /\ Body["sysenter_handler"] = sysenter_handler
    /\ Body["sysenter_mallware"] = sysenter_mallware
    /\ Body["dispatch_handler"] = dispatch_handler
    /\ Body["read_entry"] = read_entry /\ Body["call_entry"] = call_entry
    /\ Body["ssdt_hook"] = ssdt_hook /\ Body["print_a_crab"] = print_a_crab
  BY SMT DEF Body, Functions, StartFunctions, ExitFunctions, GuestFunctions, CalledByKmain,
             SysenterFunctions, Handler

LEMMA Flow ==
    \A fn \in Functions :
      /\ Len(Body[fn]) \in Nat
      /\ \A i \in 1 .. Len(Body[fn]) : \A step \in Body[fn][i] : LeadsTo(fn, i, step)
<1> USE DEF LeadsTo, Functions, StartFunctions, ExitFunctions, GuestFunctions, CalledByKmain,
            SysenterFunctions, Handler
<1> DEFINE Goal(fn) ==
      /\ Len(Body[fn]) \in Nat
      /\ \A i \in 1 .. Len(Body[fn]) : \A step \in Body[fn][i] : LeadsTo(fn, i, step)
<1>1. Goal("PANIC") BY Bodies, SMT DEF PANIC
<1>2. Goal("initialize_host") BY Bodies, SMT DEF initialize_host
<1>3. Goal("enter_vmx_root") BY Bodies, SMT DEF enter_vmx_root
<1>4. Goal("configure_vmcs") BY Bodies, SMT DEF configure_vmcs
<1>5. Goal("launch_vm") BY Bodies, SMT DEF launch_vm
<1>6. Goal("vmexit_handler") BY Bodies, SMT DEF vmexit_handler
<1>7. Goal("halt_handler") BY Bodies, SMT DEF halt_handler
<1>8. Goal("rdmsr_handler") BY Bodies, SMT DEF rdmsr_handler
<1>9. Goal("wrmsr_handler") BY Bodies, SMT DEF wrmsr_handler
<1>10. Goal("vmcall_handler") BY Bodies, SMT DEF vmcall_handler
<1>11. Goal("ept_misconfig_handler") BY Bodies, SMT DEF ept_misconfig_handler
<1>12. Goal("init_syscalls") BY Bodies, SMT DEF init_syscalls, wrmsr, rdmsr
<1>13. Goal("inject_mallwares") BY Bodies, SMT DEF inject_mallwares, wrmsr
<1>14. Goal("kmain") BY Bodies, SMT DEF kmain
<1>15. Goal("exit") BY Bodies, SMT DEF exit
<1>16. Goal("syscall") BY Bodies, SMT DEF syscall
<1>17. Goal("syscall_handler") BY Bodies, SMT DEF syscall_handler
<1>18. Goal("syscall_mallware") BY Bodies, SMT DEF syscall_mallware
<1>19. Goal("sysenter_handler") BY Bodies, SMT DEF sysenter_handler
<1>20. Goal("sysenter_mallware") BY Bodies, SMT DEF sysenter_mallware
<1>21. Goal("dispatch_handler") BY Bodies, SMT DEF dispatch_handler
<1>24. Goal("read_entry") BY Bodies, SMT DEF read_entry, ssdt
<1>25. Goal("call_entry") BY Bodies, SMT DEF call_entry, ssdt
<1>26. Goal("ept_violation_handler") BY Bodies, SMT DEF ept_violation_handler
<1>22. Goal("ssdt_hook") BY Bodies, SMT DEF ssdt_hook
<1>23. Goal("print_a_crab") BY Bodies, SMT DEF print_a_crab
<1> HIDE DEF Goal, LeadsTo
<1> QED
  BY <1>1, <1>2, <1>3, <1>4, <1>5, <1>6, <1>7, <1>8, <1>9, <1>10, <1>11, <1>12, <1>13, <1>14,
     <1>15, <1>16, <1>17, <1>18, <1>19, <1>20, <1>21, <1>22, <1>23, <1>24, <1>25,
     <1>26 DEF Goal

-------------------------------------------------------------------------------
\* Induction over sets: the library's induction theorems take a predicate.
LEMMA SetInduction ==
    ASSUME NEW S, 0 \in S, \A n \in Nat : n \in S => n + 1 \in S
    PROVE  Nat \subseteq S
<1> DEFINE Less == OpToRel(<, Nat)
           T == Nat \ S
<1>1. SUFFICES ASSUME T # {} PROVE FALSE
  OBVIOUS
<1>2. IsWellFoundedOn(Less, Nat)
  BY NatLessThanWellFounded
<1>3. \A m, n \in Nat : m < n => <<m, n>> \in Less
  BY DEF OpToRel
<1>4. PICK n \in T : \A m \in T : <<m, n>> \notin Less
  <2> HIDE DEF Less
  <2> T \subseteq Nat OBVIOUS
  <2> HIDE DEF T
  <2> QED BY <1>1, <1>2, WFMin
<1>5. n \in Nat /\ n \notin S
  BY <1>4
<1> HIDE DEF Less
<1>6. n - 1 \in Nat /\ n - 1 < n /\ (n - 1) + 1 = n
  <2>1. n # 0
    BY <1>5
  <2> HIDE DEF T
  <2> QED
    BY <1>5, <2>1, SMT
<1>7. n - 1 \notin T
  BY <1>3, <1>4, <1>5, <1>6
<1>8. n - 1 \in S
  BY <1>6, <1>7
<1> QED
  BY <1>5, <1>6, <1>8

\* Every nonempty set of natural numbers has a least member.
LEMMA Least ==
    ASSUME NEW S \in SUBSET Nat, S # {}
    PROVE  Min(S) \in S /\ \A i \in S : Min(S) <= i
<1>1. PICK m \in S : \A i \in S : m <= i
  <2> DEFINE Above == {n \in Nat : \A i \in S : i > n}
  <2>1. SUFFICES ASSUME \A m \in S : \E i \in S : ~(m <= i) PROVE FALSE
    OBVIOUS
  <2>2. CASE 0 \in S
    BY <2>1, <2>2
  <2>3. CASE 0 \notin S
    <3>1. 0 \in Above
      BY <2>3, SMT
    <3>2. \A n \in Nat : n \in Above => n + 1 \in Above
      <4> SUFFICES ASSUME NEW n \in Above PROVE n + 1 \in Above
        OBVIOUS
      <4>1. n + 1 \notin S
        <5> SUFFICES ASSUME n + 1 \in S PROVE FALSE
          OBVIOUS
        <5>1. \A i \in S : i \in Nat /\ i > n
          OBVIOUS
        <5>2. \A i \in S : n + 1 <= i
          BY <5>1, SMT
        <5> QED
          BY <2>1, <5>2
      <4>2. \A i \in S : i > n + 1
        BY <4>1, SMT
      <4> QED
        BY <4>2, SMT
    <3> HIDE DEF Above
    <3>3. Nat \subseteq Above
      BY <3>1, <3>2, SetInduction
    <3>4. PICK m \in S : m \in Nat
      OBVIOUS
    <3>5. m > m
      BY <3>3, <3>4 DEF Above
    <3> QED
      BY <3>4, <3>5, SMT
  <2> QED
    BY <2>2, <2>3
<1> QED
  BY <1>1 DEF Min

\* What is computed from one number to the next is a function of the numbers.
Iterations(A, a, G) ==
    {f \in [Nat -> A] : f[0] = a /\ \A n \in Nat : f[n + 1] = G[n][f[n]]}

LEMMA Recursion ==
    ASSUME NEW A, NEW a \in A, NEW G \in [Nat -> [A -> A]]
    PROVE  Iterations(A, a, G) # {}
<1> DEFINE Upto(n, g) == /\ g \in [0 .. n -> A]
                         /\ g[0] = a
                         /\ \A i \in 0 .. n - 1 : g[i + 1] = G[i][g[i]]
           Exist == {n \in Nat : \E g : Upto(n, g)}
<1>1. Nat \subseteq Exist
  <2>1. 0 \in Exist
    <3>1. Upto(0, [i \in 0 .. 0 |-> a])
      BY SMT
    <3> QED
      BY <3>1
  <2>2. ASSUME NEW n \in Nat, NEW g, Upto(n, g) PROVE \E h : Upto(n + 1, h)
    <3>1. Upto(n, g)
      BY <2>2
    <3> DEFINE h == [i \in 0 .. n + 1 |-> IF i = n + 1 THEN G[n][g[n]] ELSE g[i]]
    <3>2. g[n] \in A /\ G[n][g[n]] \in A
      <4>1. g[n] \in A
        BY <3>1, SMT
      <4> QED
        BY <4>1
    <3>3. Upto(n + 1, h)
      <4>1. h \in [0 .. n + 1 -> A] /\ h[0] = a
        BY <3>1, <3>2, SMT
      <4>2. \A i \in 0 .. n : h[i] = g[i] /\ i \in 0 .. n + 1
        BY SMT
      <4>3. h[n + 1] = G[n][g[n]] /\ n \in 0 .. n
        BY SMT
      <4> HIDE DEF h
      <4>4. ASSUME NEW i \in 0 .. (n + 1) - 1 PROVE h[i + 1] = G[i][h[i]]
        <5>1. CASE i = n
          BY <4>2, <4>3, <5>1
        <5>2. CASE i # n
          <6>1. i \in 0 .. n - 1 /\ i \in 0 .. n /\ i + 1 \in 0 .. n
            BY <5>2, SMT
          <6>2. g[i + 1] = G[i][g[i]]
            BY <3>1, <6>1
          <6> QED
            BY <4>2, <6>1, <6>2
        <5> QED
          BY <5>1, <5>2
      <4> QED
        BY <4>1, <4>4
    <3> QED
      BY <3>3
  <2>3. \A n \in Nat : n \in Exist => n + 1 \in Exist
    <3> HIDE DEF Upto
    <3>1. \A n \in Nat : n + 1 \in Nat
      BY SMT
    <3> QED
      BY <2>2, <3>1
  <2> HIDE DEF Exist
  <2> QED
    BY <2>1, <2>3, SetInduction
<1>2. \A n \in Nat : \E g : Upto(n, g)
  BY <1>1
<1> DEFINE g(n) == CHOOSE g : Upto(n, g)
<1>3. \A n \in Nat : Upto(n, g(n))
  BY <1>2
<1> DEFINE f == [n \in Nat |-> g(n)[n]]
           Agree == {n \in Nat : \A m \in Nat : n <= m => g(m)[n] = g(n)[n]}
<1> HIDE DEF g
<1>4. Nat \subseteq Agree
  <2>1. 0 \in Agree
    BY <1>3, SMT
  <2>2. ASSUME NEW n \in Nat, n \in Agree PROVE n + 1 \in Agree
    <3> SUFFICES ASSUME NEW m \in Nat, n + 1 <= m PROVE g(m)[n + 1] = g(n + 1)[n + 1]
      BY SMT
    <3>1. n \in 0 .. m - 1 /\ n \in 0 .. (n + 1) - 1 /\ n <= m /\ n <= n + 1
      BY SMT
    <3>2. g(m)[n] = g(n)[n] /\ g(n + 1)[n] = g(n)[n]
      BY <2>2, <3>1, SMT
    <3>3. g(m)[n + 1] = G[n][g(m)[n]] /\ g(n + 1)[n + 1] = G[n][g(n + 1)[n]]
      BY <1>3, <3>1
    <3> QED
      BY <3>2, <3>3
  <2> HIDE DEF Agree
  <2> QED
    BY <2>1, <2>2, SetInduction
<1>5. f \in [Nat -> A] /\ f[0] = a
  <2>1. \A n \in Nat : g(n)[n] \in A
    BY <1>3, SMT
  <2> QED
    BY <1>3, <2>1
<1>6. ASSUME NEW n \in Nat PROVE f[n + 1] = G[n][f[n]]
  <2>1. n \in 0 .. (n + 1) - 1 /\ n <= n + 1 /\ n + 1 \in Nat
    BY SMT
  <2>2. g(n + 1)[n + 1] = G[n][g(n + 1)[n]]
    BY <1>3, <2>1
  <2>3. g(n + 1)[n] = g(n)[n]
    BY <1>4, <2>1
  <2> QED
    BY <2>1, <2>2, <2>3
<1> HIDE DEF f
<1> QED
  BY <1>5, <1>6 DEF Iterations
-------------------------------------------------------------------------------
LEMMA Powers ==
    /\ TwoTo[0] = 1
    /\ \A n \in Nat : TwoTo[n] \in Nat \ {0} /\ TwoTo[n + 1] = 2 * TwoTo[n]
<1> DEFINE G == [n \in Nat |-> [p \in Nat |-> 2 * p]]
<1>1. G \in [Nat -> [Nat -> Nat]] /\ \A n, m \in Nat : G[n][m] = 2 * m
  BY SMT
<1> HIDE DEF G
<1>2. PICK f \in [Nat -> Nat] : f[0] = 1 /\ \A n \in Nat : f[n + 1] = G[n][f[n]]
  <2>1. 1 \in Nat
    OBVIOUS
  <2>2. Iterations(Nat, 1, G) # {}
    BY <1>1, <2>1, Recursion
  <2> QED
    BY <2>2 DEF Iterations
<1>3. \A n \in Nat : f[n + 1] = 2 * f[n]
  BY <1>1, <1>2
<1>4. f = [n \in Nat |-> IF n = 0 THEN 1 ELSE 2 * f[n - 1]]
  <2>1. ASSUME NEW n \in Nat, n # 0 PROVE f[n] = 2 * f[n - 1]
    <3>1. n - 1 \in Nat /\ (n - 1) + 1 = n
      BY <2>1, SMT
    <3> QED
      BY <1>3, <3>1
  <2> QED
    BY <1>2, <2>1
<1>5. TwoTo = [n \in Nat |-> IF n = 0 THEN 1 ELSE 2 * TwoTo[n - 1]]
  BY <1>4 DEF TwoTo
<1>6. TwoTo[0] = 1
  BY <1>5, SMT
<1>7. \A n \in Nat : TwoTo[n + 1] = 2 * TwoTo[n]
  <2> SUFFICES ASSUME NEW n \in Nat PROVE TwoTo[n + 1] = 2 * TwoTo[n]
    OBVIOUS
  <2>1. n + 1 \in Nat /\ n + 1 # 0 /\ (n + 1) - 1 = n
    BY SMT
  <2> QED
    BY <1>5, <2>1
<1>8. Nat \subseteq {n \in Nat : TwoTo[n] \in Nat \ {0}}
  <2> DEFINE S == {n \in Nat : TwoTo[n] \in Nat \ {0}}
  <2>1. 0 \in S
    BY <1>6, SMT
  <2>2. \A n \in Nat : n \in S => n + 1 \in S
    BY <1>7, SMT
  <2> HIDE DEF S
  <2>3. Nat \subseteq S
    BY <2>1, <2>2, SetInduction
  <2> QED
    BY <2>3 DEF S
<1> QED
  BY <1>6, <1>7, <1>8

\* va_arg keeps the low bits of what was passed, and they are an int's.
LEMMA VaArg ==
    ASSUME NEW argument \in Int
    PROVE  /\ va_arg(argument) \in int
           /\ Unsigned(va_arg(argument)) = Unsigned(argument)
           /\ Unsigned(argument) \in 0 .. TwoTo[WIDTH] - 1
           /\ Unsigned(Unsigned(argument)) = Unsigned(argument)
<1> DEFINE half == TwoTo[WIDTH - 1]
           u == argument % (2 * half)
<1>1. half \in Nat \ {0} /\ TwoTo[WIDTH] = 2 * half
  <2>1. WIDTH - 1 \in Nat /\ (WIDTH - 1) + 1 = WIDTH
    BY PrintingAssumption, SMT
  <2> QED
    BY <2>1, Powers
<1> HIDE DEF half
<1>2. u \in 0 .. 2 * half - 1
  BY <1>1, SMT
<1>3. Unsigned(argument) = u
  BY <1>1 DEF Unsigned
<1>4. va_arg(argument) = IF u < half THEN u ELSE u - 2 * half
  BY <1>1, <1>3 DEF va_arg, half
<1> HIDE DEF u
<1>5. /\ \A v \in 0 .. 2 * half - 1 : v % (2 * half) = v
      /\ \A v \in half .. 2 * half - 1 : (v - 2 * half) % (2 * half) = v
  BY <1>1, SMT
<1>6. u % (2 * half) = u
  BY <1>2, <1>5
<1>7. CASE u < half
  <2>1. va_arg(argument) = u /\ u \in -half .. half - 1
    BY <1>1, <1>2, <1>4, <1>7, SMT
  <2> QED
    BY <1>1, <1>2, <1>3, <1>6, <2>1 DEF Unsigned, int, half
<1>8. CASE ~(u < half)
  <2>1. /\ va_arg(argument) = u - 2 * half /\ u - 2 * half \in -half .. half - 1
        /\ u \in half .. 2 * half - 1
    BY <1>1, <1>2, <1>4, <1>8, SMT
  <2>2. (u - 2 * half) % (2 * half) = u
    BY <1>5, <2>1
  <2> QED
    BY <1>1, <1>2, <1>3, <1>6, <2>1, <2>2 DEF Unsigned, int, half
<1> QED
  BY <1>7, <1>8
-------------------------------------------------------------------------------
\* What a function keeps while it is active; a text is whatever Text may return.
Texts == {Text(number, base, is_unsigned) :
            number \in int, base \in {2, 10, 16}, is_unsigned \in BOOLEAN} \cup {<<>>}
LocalsOf(fn) ==
    IF fn = "log_log" THEN Format \cup {<<>>}
    ELSE IF fn = "vsprintf" THEN [format : Seq(Conversion), is_unsigned : BOOLEAN]
    ELSE IF fn = "sprint_integer"
      THEN [letter : DOMAIN Base, argument : Argument, number : int,
            is_unsigned : BOOLEAN, text : Texts]
    ELSE IF fn = "vmexit_handler" THEN Handler
    ELSE {<<>>}
Locals == UNION {LocalsOf(fn) : fn \in Functions \cup LogFunctions}

\* The functions active on a stack, as a sequence of calls.
CallRecord == [fn : Functions \cup LogFunctions, next : Nat, low : Nat, with : Locals]
Left == [stack : DOMAIN Room, calls : Seq(CallRecord)]

\* If no format changes signs halfway, a number is printed unsigned by its own
\* letter only, and its text is Text's; it is always the int of the argument.
Numbers(c) ==
    /\ c.fn = "sprint_integer" => c.with.number = va_arg(c.with.argument)
    /\ (\A format \in Format : SignsKept(format)) =>
         /\ c.fn = "vsprintf" =>
              LET format == c.with.format
              IN  /\ SignsKept(format)
                  /\ c.with.is_unsigned =>
                       \A i \in 1 .. Len(format) : format[i] \in DOMAIN Base => format[i] \in {"u", "U"}
         /\ c.fn = "sprint_integer" =>
              /\ c.with.is_unsigned <=> c.with.letter \in {"u", "U"}
              /\ c.next = 2 => c.with.text = Text(c.with.number, Base[c.with.letter], c.with.is_unsigned)

\* A call is of a function of its stack, at a step of its own, with locals of its
\* own; kmain only comes to kernel_stack after its SYSENTER.
CallOK(c, s) ==
    /\ c.fn \in Runs(s)
    /\ c.next \in 1 .. Steps(c.fn) + 1
    /\ c.with \in LocalsOf(c.fn)
    /\ c.fn = "vsprintf" => c.next + Len(c.with.format) <= LongestFormat + 1
    /\ s = "kernel_stack" /\ c.fn = "kmain" => c.next >= 7
    /\ Numbers(c)

\* A SYSENTER that has not come back yet; a stack holds one at most.
PendingCall(c) == c.fn \in SysenterFunctions /\ c.next <= 2
Pending(cs) == \E i \in 1 .. Len(cs) : PendingCall(cs[i])

CallsOK(cs, s) ==
    /\ cs \in Seq(CallRecord)
    /\ cs # <<>>
    /\ cs[1].fn \in Functions
    /\ \A i \in 1 .. Len(cs) : CallOK(cs[i], s)
    /\ \A i, j \in 1 .. Len(cs) : PendingCall(cs[i]) /\ PendingCall(cs[j]) => i = j

\* What a stack other than the host's leaves below: nothing, or kmain on the
\* guest's first stack, as long as a SYSENTER has not come back.
Waiting(b) ==
    /\ Len(b) = 1
    /\ b[1].stack = "guest"
    /\ CallsOK(b[1].calls, "guest")
    /\ Last(b[1].calls).fn = "kmain"
    /\ Last(b[1].calls).next >= 7

Settled(s, cs, b) ==
    /\ CallsOK(cs, s)
    /\ b = <<>> \/ Waiting(b)
    /\ b # <<>> => s = "kernel_stack"
    /\ Pending(cs) => b # <<>>

IInv ==
    /\ stack \in DOMAIN Room
    /\ below \in Seq(Left)
    /\ stack # "host" => Settled(stack, calls, below)
    /\ stack = "host" =>
         /\ CallsOK(calls, "host")
         /\ below # <<>>
         /\ Last(below).stack \in {"guest", "kernel_stack"}
         /\ Settled(Last(below).stack, Last(below).calls, Front(below))
-------------------------------------------------------------------------------
LEMMA Sizes ==
    /\ \A fn \in Functions \cup LogFunctions : Steps(fn) \in Nat
    /\ \A fn \in Functions \cup LogFunctions : Frame[fn] \in Nat /\ Leaf[fn] \in Nat
    /\ Functions \cap LogFunctions = {}
    /\ \A fn \in Functions : Steps(fn) = Len(Body[fn])
    /\ Steps("log_log") = 2 /\ Steps("sprintf") = 1 /\ Steps("sprint_integer") = 1
    /\ Steps("vsprintf") = LongestFormat
<1>1. Functions \cap LogFunctions = {}
  BY SMT DEF Functions, StartFunctions, ExitFunctions, GuestFunctions, CalledByKmain,
             SysenterFunctions, Handler, LogFunctions
<1>2. \A fn \in Functions : Steps(fn) = Len(Body[fn])
  BY Bodies DEF Steps
<1>3. /\ Steps("log_log") = 2 /\ Steps("sprintf") = 1 /\ Steps("sprint_integer") = 1
      /\ Steps("vsprintf") = LongestFormat
  BY <1>1, Bodies, SMT DEF Steps, LoggingSteps, LogFunctions
<1>4. \A fn \in Functions \cup LogFunctions : Steps(fn) \in Nat
  BY <1>2, <1>3, Flow, StacksAssumption, SMT DEF LogFunctions
<1>5. Functions \cup LogFunctions \subseteq DOMAIN Frame
  <2>1. DOMAIN Body = Functions
    BY Bodies
  <2> QED
    BY <2>1, StacksAssumption, SMT DEF LogFunctions
<1>6. \A fn \in Functions \cup LogFunctions : Frame[fn] \in Nat /\ Leaf[fn] \in Nat
  BY <1>5, StacksAssumption, PrintingAssumption
<1> QED
  BY <1>1, <1>2, <1>3, <1>4, <1>6

\* A call of a kind that runs on a stack is a CallRecord.
LEMMA CallIsRecord ==
    ASSUME NEW s, NEW fn, NEW next, NEW low \in Nat, NEW with,
           CallOK([fn |-> fn, next |-> next, low |-> low, with |-> with], s)
    PROVE  [fn |-> fn, next |-> next, low |-> low, with |-> with] \in CallRecord
<1>1. fn \in Functions \cup LogFunctions
  BY SMT DEF CallOK, Runs, Functions
<1>2. with \in Locals
  BY <1>1, SMT DEF CallOK, Locals
<1>3. next \in Nat
  BY <1>1, Sizes, SMT DEF CallOK
<1> QED
  BY <1>1, <1>2, <1>3 DEF CallRecord

LEMMA NumbersElsewhere ==
    ASSUME NEW c, c.fn \in Functions \cup {"log_log", "sprintf"}
    PROVE  Numbers(c)
  BY Sizes, SMT DEF Numbers, LogFunctions

LEMMA TopIs ==
    ASSUME NEW s, CallsOK(calls, s)
    PROVE  /\ Len(calls) \in Nat \ {0}
           /\ top \in CallRecord
           /\ CallOK(top, s)
           /\ top.next \in Nat /\ top.low \in Nat
<1>1. Len(calls) \in Nat \ {0}
  BY EmptySeq, SMT DEF CallsOK
<1>2. top \in CallRecord /\ CallOK(top, s)
  BY <1>1, ElementOfSeq, SMT DEF top, CallsOK
<1> QED
  BY <1>1, <1>2 DEF CallRecord

LEMMA OnwardIs ==
    ASSUME NEW s, CallsOK(calls, s), NEW with, CallOK(Advanced(with), s)
    PROVE  /\ Onward(with) \in Seq(CallRecord)
           /\ Len(Onward(with)) = Len(calls)
           /\ \A i \in 1 .. Len(calls) - 1 : Onward(with)[i] = calls[i]
           /\ Onward(with)[Len(calls)] = Advanced(with)
<1> DEFINE n == Len(calls)
<1>1. n \in Nat \ {0} /\ top \in CallRecord /\ calls \in Seq(CallRecord)
  BY TopIs DEF CallsOK
<1>2. Advanced(with) \in CallRecord
  BY <1>1, CallIsRecord DEF Advanced, CallRecord
<1>3. Onward(with) = [calls EXCEPT ![n] = Advanced(with)]
  BY DEF Onward
<1> QED
  BY <1>1, <1>2, <1>3, ExceptSeq, SMT

\* The top function goes on.
LEMMA Goes ==
    ASSUME NEW s, CallsOK(calls, s), NEW with, CallOK(Advanced(with), s)
    PROVE  /\ CallsOK(Onward(with), s)
           /\ Pending(Onward(with)) => Pending(calls)
<1>1. /\ Len(calls) \in Nat \ {0} /\ top \in CallRecord /\ top = calls[Len(calls)]
      /\ top.next \in Nat
  BY TopIs DEF top
<1>2. /\ Onward(with) \in Seq(CallRecord)
      /\ Len(Onward(with)) = Len(calls)
      /\ \A i \in 1 .. Len(calls) - 1 : Onward(with)[i] = calls[i]
      /\ Onward(with)[Len(calls)] = Advanced(with)
  BY OnwardIs
<1>3. Onward(with) # <<>>
  BY <1>1, <1>2, EmptySeq, SMT
<1>4. \A i \in 1 .. Len(Onward(with)) : CallOK(Onward(with)[i], s)
  BY <1>1, <1>2, SMT DEF CallsOK
<1>5. PendingCall(Advanced(with)) => PendingCall(calls[Len(calls)])
  BY <1>1, SMT DEF Advanced, PendingCall
<1>6. \A i \in 1 .. Len(calls) : PendingCall(Onward(with)[i]) => PendingCall(calls[i])
  BY <1>1, <1>2, <1>5, SMT
<1>7. Onward(with)[1].fn = calls[1].fn
  BY <1>1, <1>2, SMT DEF Advanced
<1> QED
  BY <1>2, <1>3, <1>4, <1>6, <1>7, Zenon DEF CallsOK, Pending

LEMMA EnteredIs ==
    ASSUME NEW s, CallsOK(calls, s), NEW fn \in Functions \cup LogFunctions, NEW with
    PROVE  /\ Entered(fn, top.low, with) = [fn |-> fn, next |-> 1, low |-> top.low + Frame[fn], with |-> with]
           /\ top.low + Frame[fn] \in Nat
  BY TopIs, Sizes DEF Entered

\* The top function goes on and calls another.
LEMMA Calls ==
    ASSUME NEW s, CallsOK(calls, s), NEW locals, CallOK(Advanced(locals), s),
           NEW fn \in Functions \cup LogFunctions, NEW with,
           CallOK(Entered(fn, top.low, with), s),
           fn \in SysenterFunctions => top.fn \in SysenterFunctions /\ top.next = 2
    PROVE  LET cs == Append(Onward(locals), Entered(fn, top.low, with))
           IN  /\ CallsOK(cs, s)
               /\ Pending(cs) => Pending(calls)
<1> DEFINE before == Onward(locals)
           call == Entered(fn, top.low, with)
           cs == Append(before, call)
<1>1. /\ CallsOK(before, s)
      /\ Pending(before) => Pending(calls)
      /\ before \in Seq(CallRecord) /\ Len(before) \in Nat /\ Len(before) = Len(calls)
      /\ \A i \in 1 .. Len(before) - 1 : before[i] = calls[i]
      /\ before[Len(before)] = Advanced(locals)
  BY Goes, OnwardIs, LenProperties DEF CallsOK
<1>2. call \in CallRecord /\ call.fn = fn
  <2> DEFINE low == top.low + Frame[fn]
  <2>1. call = [fn |-> fn, next |-> 1, low |-> low, with |-> with] /\ low \in Nat
    BY EnteredIs
  <2>2. CallOK([fn |-> fn, next |-> 1, low |-> low, with |-> with], s)
    BY <2>1
  <2> HIDE DEF low
  <2>3. [fn |-> fn, next |-> 1, low |-> low, with |-> with] \in CallRecord
    BY <2>1, <2>2, CallIsRecord
  <2> QED
    BY <2>1, <2>3
<1> HIDE DEF before, call
<1>3. /\ cs \in Seq(CallRecord) /\ Len(cs) = Len(before) + 1
      /\ \A i \in 1 .. Len(before) : cs[i] = before[i]
      /\ cs[Len(before) + 1] = call
  BY <1>1, <1>2, SMT
<1>4. cs # <<>>
  BY <1>1, <1>3, EmptySeq, SMT
<1> HIDE DEF cs
<1>5. CallOK(call, s)
  BY DEF call
<1>6. \A i \in 1 .. Len(cs) : CallOK(cs[i], s)
  BY <1>1, <1>3, <1>5, SMT DEF CallsOK
<1>7. PendingCall(call) =>
        Pending(calls) /\ \A i \in 1 .. Len(before) : ~PendingCall(before[i])
  <2> SUFFICES ASSUME PendingCall(call)
               PROVE  Pending(calls) /\ \A i \in 1 .. Len(before) : ~PendingCall(before[i])
    OBVIOUS
  <2>1. top.fn \in SysenterFunctions /\ top.next = 2
    BY <1>2 DEF PendingCall
  <2>2. PendingCall(calls[Len(calls)]) /\ Len(calls) \in Nat \ {0}
    BY <2>1, TopIs, SMT DEF PendingCall, top
  <2>3. ~PendingCall(Advanced(locals))
    BY <2>1, SMT DEF PendingCall, Advanced
  <2>4. \A i \in 1 .. Len(calls) - 1 : ~PendingCall(calls[i])
    BY <2>2, SMT DEF CallsOK
  <2> QED
    BY <1>1, <2>2, <2>3, <2>4, SMT DEF Pending
<1>8. \A i, j \in 1 .. Len(before) : PendingCall(before[i]) /\ PendingCall(before[j]) => i = j
  BY <1>1 DEF CallsOK
<1>9. \A i, j \in 1 .. Len(cs) : PendingCall(cs[i]) /\ PendingCall(cs[j]) => i = j
  BY <1>1, <1>3, <1>7, <1>8, SMT
<1>10. Pending(cs) => Pending(calls)
  BY <1>1, <1>3, <1>7, SMT DEF Pending
<1>11. cs[1].fn \in Functions
  <2>1. Len(before) \in Nat \ {0} /\ before[1].fn \in Functions
    BY <1>1, TopIs DEF CallsOK
  <2> QED
    BY <1>3, <2>1, SMT
<1> QED
  BY <1>3, <1>4, <1>6, <1>9, <1>10, <1>11 DEF cs, before, call, CallsOK

\* The top function returns.
LEMMA Returns ==
    ASSUME NEW s, CallsOK(calls, s), Len(calls) > 1
    PROVE  LET cs == SubSeq(calls, 1, Len(calls) - 1)
           IN  /\ CallsOK(cs, s)
               /\ Pending(cs) => Pending(calls)
<1> DEFINE n == Len(calls) - 1
           cs == SubSeq(calls, 1, n)
<1>1. n \in Nat \ {0} /\ calls \in Seq(CallRecord) /\ n = Len(calls) - 1
      /\ \A i \in 1 .. n : calls[i] \in CallRecord
  BY TopIs, ElementOfSeq, SMT DEF CallsOK
<1> HIDE DEF n
<1>2. /\ cs \in Seq(CallRecord) /\ Len(cs) = n
      /\ \A i \in 1 .. n : cs[i] = calls[i]
  BY <1>1, SubSeqProperties, SMT
<1> HIDE DEF cs
<1>3. cs # <<>>
  BY <1>1, <1>2, EmptySeq, SMT
<1>4. CallsOK(cs, s)
  BY <1>1, <1>2, <1>3, SMT DEF CallsOK
<1>5. Pending(cs) => Pending(calls)
  BY <1>1, <1>2, SMT DEF Pending
<1> QED
  BY <1>4, <1>5 DEF cs, n
-------------------------------------------------------------------------------
LEMMA RunsAre ==
    /\ \A s : Runs(s) \subseteq Functions \cup LogFunctions
    /\ \A s : LogFunctions \subseteq Runs(s)
    /\ Runs("higher") = LogFunctions \cup StartFunctions
    /\ Runs("host") = LogFunctions \cup ExitFunctions
    /\ Runs("guest") = LogFunctions \cup GuestFunctions
    /\ Runs("kernel_stack") = LogFunctions \cup GuestFunctions
    /\ DOMAIN Room = {"higher", "guest", "kernel_stack", "host"}
<1>1. DOMAIN Room = {"higher", "guest", "kernel_stack", "host"}
  BY SMT DEF Room
<1> QED
  BY <1>1, SMT DEF Runs, Functions

LEMMA EnteredOK ==
    ASSUME NEW s, NEW fn \in Runs(s), NEW low, NEW with \in LocalsOf(fn),
           fn = "vsprintf" => Len(with.format) <= LongestFormat,
           fn = "kmain" => s # "kernel_stack", Numbers(Entered(fn, low, with))
    PROVE  CallOK(Entered(fn, low, with), s)
<1> DEFINE call == Entered(fn, low, with)
<1>1. call.fn = fn /\ call.next = 1 /\ call.with = with /\ Numbers(call)
  BY DEF Entered
<1> HIDE DEF call
<1>2. Steps(fn) \in Nat
  BY RunsAre, Sizes
<1>3. fn = "vsprintf" => Len(with.format) \in Nat
  BY LenProperties DEF LocalsOf
<1>4. call.next \in 1 .. Steps(fn) + 1
  BY <1>1, <1>2, SMT
<1>5. fn = "vsprintf" => 1 + Len(with.format) <= LongestFormat + 1
  BY <1>3, StacksAssumption, SMT
<1>6. CallOK(call, s)
  BY <1>1, <1>4, <1>5 DEF CallOK
<1> QED
  BY <1>6 DEF call

LEMMA EnteredNumbers ==
    ASSUME NEW fn \in Functions \cup {"log_log", "sprintf"}, NEW low, NEW with
    PROVE  Numbers(Entered(fn, low, with))
<1> DEFINE c == Entered(fn, low, with)
<1>1. c.fn = fn
  BY DEF Entered
<1> HIDE DEF c
<1>2. Numbers(c)
  BY <1>1, NumbersElsewhere
<1> QED
  BY <1>2 DEF c

\* What a function whose step may be this one looks like, and after the step.
LEMMA AtStepIs ==
    ASSUME NEW s, CallsOK(calls, s), NEW step, AtStep(step)
    PROVE  /\ top.fn \in Functions
           /\ top.fn \in Runs(s)
           /\ top.next \in 1 .. Len(Body[top.fn])
           /\ step \in Body[top.fn][top.next]
           /\ LeadsTo(top.fn, top.next, step)
           /\ CallOK(Advanced(top.with), s)
<1>1. CallOK(top, s) /\ top.next \in Nat
  BY TopIs
<1>2. /\ top.fn \in Functions /\ top.fn \notin LogFunctions
      /\ top.next <= Len(Body[top.fn]) /\ step \in Body[top.fn][top.next]
      /\ Steps(top.fn) = Len(Body[top.fn]) /\ Len(Body[top.fn]) \in Nat
  BY Bodies, Flow, Sizes DEF AtStep
<1>3. top.next \in 1 .. Len(Body[top.fn])
  BY <1>1, <1>2, SMT DEF CallOK
<1>4. LeadsTo(top.fn, top.next, step)
  BY <1>2, <1>3, Flow
<1>5. /\ Advanced(top.with).fn = top.fn /\ Advanced(top.with).next = top.next + 1
      /\ Advanced(top.with).with = top.with
  BY DEF Advanced
<1>6. top.next + 1 \in 1 .. Steps(top.fn) + 1
  BY <1>2, <1>3, SMT
<1>7. top.fn # "vsprintf"
  BY <1>2 DEF LogFunctions
<1>8. s = "kernel_stack" /\ top.fn = "kmain" => top.next + 1 >= 7
  BY <1>1, SMT DEF CallOK
<1>9. Numbers(Advanced(top.with))
  <2> DEFINE c == Advanced(top.with)
  <2>1. c.fn \in Functions
    BY <1>2, <1>5
  <2> HIDE DEF c
  <2>2. Numbers(c)
    BY <2>1, NumbersElsewhere
  <2> QED
    BY <2>2 DEF c
<1>10. CallOK(Advanced(top.with), s)
  BY <1>1, <1>5, <1>6, <1>7, <1>8, <1>9 DEF CallOK
<1> QED
  BY <1>1, <1>2, <1>3, <1>4, <1>10 DEF CallOK

\* A step that stays on its stack and leaves the others alone.
LEMMA SameStack ==
    ASSUME IInv, CallsOK(calls', stack), Pending(calls') => Pending(calls),
           UNCHANGED <<stack, below>>
    PROVE  IInv'
<1>1. stack' = stack /\ below' = below
  OBVIOUS
<1>2. CASE stack = "host"
  BY <1>1, <1>2 DEF IInv
<1>3. CASE stack # "host"
  <2>1. Settled(stack, calls', below)
    BY <1>3 DEF IInv, Settled
  <2> QED
    BY <1>1, <1>3, <2>1 DEF IInv
<1> QED
  BY <1>2, <1>3

LEMMA RunningCalls ==
    ASSUME IInv
    PROVE  stack \in DOMAIN Room /\ CallsOK(calls, stack)
  BY DEF IInv, Settled
-------------------------------------------------------------------------------
\* Each action keeps the invariant.
LEMMA LogStep == IInv /\ Log => IInv'
<1> SUFFICES ASSUME IInv, Log PROVE IInv'
  OBVIOUS
<1>1. AtStep("log") /\ UNCHANGED <<stack, below>>
  BY DEF Log
<1>2. PICK format \in Format : Call("log_log", format)
  BY DEF Log
<1>3. calls' = Append(Onward(top.with), Entered("log_log", top.low, format))
  BY <1>2 DEF Call, CallWith
<1>4. CallsOK(calls, stack) /\ CallOK(Advanced(top.with), stack)
  BY <1>1, RunningCalls, AtStepIs
<1>5. "log_log" \in LogFunctions /\ "log_log" \in Runs(stack)
      /\ "log_log" \in Functions \cup LogFunctions /\ "log_log" \notin SysenterFunctions
  BY RunsAre, SMT DEF LogFunctions, SysenterFunctions
<1>6. format \in LocalsOf("log_log")
  BY DEF LocalsOf
<1>7. CallOK(Entered("log_log", top.low, format), stack)
  <2>1. Numbers(Entered("log_log", top.low, format))
    BY EnteredNumbers
  <2> QED
    BY <1>5, <1>6, <2>1, EnteredOK
<1>8. CallsOK(calls', stack) /\ (Pending(calls') => Pending(calls))
  BY <1>3, <1>4, <1>5, <1>7, Calls
<1> QED
  BY <1>1, <1>8, SameStack

LEMMA SkipStep == IInv /\ Skip => IInv'
<1> SUFFICES ASSUME IInv, Skip PROVE IInv'
  OBVIOUS
<1>1. AtStep("skip") /\ calls' = Onward(top.with) /\ UNCHANGED <<stack, below>>
  BY DEF Skip
<1>2. CallsOK(calls, stack) /\ CallOK(Advanced(top.with), stack)
  BY <1>1, RunningCalls, AtStepIs
<1>3. CallsOK(calls', stack) /\ (Pending(calls') => Pending(calls))
  BY <1>1, <1>2, Goes
<1> QED
  BY <1>1, <1>3, SameStack

LEMMA UnchangedStep == IInv /\ UNCHANGED vars => IInv'
<1> SUFFICES ASSUME IInv, UNCHANGED vars PROVE IInv'
  OBVIOUS
<1>1. calls' = calls /\ UNCHANGED <<stack, below>>
  BY DEF vars
<1> QED
  BY <1>1, RunningCalls, SameStack

LEMMA CallFunctionStep == IInv /\ CallFunction => IInv'
<1> SUFFICES ASSUME IInv, CallFunction PROVE IInv'
  OBVIOUS
<1>1. UNCHANGED <<stack, below>>
  BY DEF CallFunction
<1>2. PICK fn \in Functions \ Handler : AtStep(fn) /\ Call(fn, <<>>)
  BY Bodies DEF CallFunction
<1>3. calls' = Append(Onward(top.with), Entered(fn, top.low, <<>>))
  BY <1>2 DEF Call, CallWith
<1>4. /\ CallsOK(calls, stack) /\ CallOK(Advanced(top.with), stack)
      /\ top.fn \in Functions /\ top.fn \in Runs(stack)
      /\ LeadsTo(top.fn, top.next, fn)
  BY <1>2, RunningCalls, AtStepIs
<1>5. /\ fn \in Runs(stack) /\ fn # "kmain" /\ fn # "vmexit_handler"
      /\ fn \in SysenterFunctions => top.fn = "sysenter_mallware" /\ top.next = 2
  <2> USE DEF Functions, StartFunctions, ExitFunctions, GuestFunctions, CalledByKmain,
              SysenterFunctions, Handler, LogFunctions
  <2>1. CASE top.fn \in GuestFunctions
    <3>1. fn \in CalledByKmain \cup {"sysenter_handler"}
          /\ (fn = "sysenter_handler" => top.fn = "sysenter_mallware" /\ top.next = 2)
      BY <1>2, <1>4, <2>1, Zenon DEF LeadsTo
    <3>2. stack \in {"guest", "kernel_stack"}
      BY <1>4, <2>1, RunningCalls, RunsAre, SMT
    <3>3. GuestFunctions \subseteq Runs(stack)
      BY <3>2, RunsAre, SMT
    <3> QED
      BY <3>1, <3>3, SMT
  <2>2. CASE top.fn \notin GuestFunctions
    <3>1. CASE top.fn \in ExitFunctions
      <4>1. fn = "PANIC"
        BY <1>2, <1>4, <3>1, Zenon DEF LeadsTo
      <4>2. stack \in {"host", "higher"}
        BY <1>4, <2>2, RunningCalls, RunsAre, SMT
      <4> QED
        BY <4>1, <4>2, RunsAre, SMT
    <3>2. CASE top.fn \notin ExitFunctions
      <4>1. stack = "higher" /\ top.fn \in StartFunctions
        BY <1>4, <2>2, <3>2, RunningCalls, RunsAre, SMT
      <4>2. fn \in StartFunctions
        BY <1>2, <1>4, <4>1, Zenon DEF LeadsTo
      <4> QED
        BY <4>1, <4>2, RunsAre, SMT
    <3> QED
      BY <3>1, <3>2
  <2> QED
    BY <2>1, <2>2
<1>6. fn # "vsprintf" /\ fn \in Functions \cup LogFunctions /\ <<>> \in LocalsOf(fn)
  BY <1>2, <1>5, Sizes, SMT DEF LocalsOf, LogFunctions
<1>7. CallOK(Entered(fn, top.low, <<>>), stack)
  BY <1>2, <1>5, <1>6, EnteredOK, EnteredNumbers
<1>8. fn \in SysenterFunctions => top.fn \in SysenterFunctions /\ top.next = 2
  BY <1>5, SMT DEF SysenterFunctions
<1>9. CallsOK(calls', stack) /\ (Pending(calls') => Pending(calls))
  BY <1>3, <1>4, <1>6, <1>7, <1>8, Calls
<1> QED
  BY <1>1, <1>9, SameStack

LEMMA CallHandlerStep == IInv /\ CallHandler => IInv'
<1> SUFFICES ASSUME IInv, CallHandler PROVE IInv'
  OBVIOUS
<1> DEFINE fn == top.with
<1>1. AtStep("handler") /\ UNCHANGED <<stack, below>>
  BY DEF CallHandler
<1>2. calls' = Append(Onward(top.with), Entered(fn, top.low, <<>>))
  BY DEF CallHandler, Call, CallWith
<1>3. /\ CallsOK(calls, stack) /\ CallOK(Advanced(top.with), stack)
      /\ top.fn \in Runs(stack) /\ CallOK(top, stack)
      /\ top.fn = "vmexit_handler"
  BY <1>1, RunningCalls, AtStepIs, TopIs DEF LeadsTo
<1>4. fn \in Handler
  BY <1>3 DEF CallOK, LocalsOf
<1> HIDE DEF fn
<1>5. stack = "host"
  BY <1>3, RunningCalls, RunsAre, SMT DEF LogFunctions, StartFunctions, GuestFunctions,
     CalledByKmain, SysenterFunctions
<1>6. fn \in Runs(stack) /\ fn \in Functions \cup LogFunctions /\ fn \notin SysenterFunctions
      /\ fn # "kmain" /\ <<>> \in LocalsOf(fn) /\ fn # "vsprintf"
  BY <1>4, <1>5, RunsAre, SMT DEF ExitFunctions, Handler, SysenterFunctions, LocalsOf
<1>7. CallOK(Entered(fn, top.low, <<>>), stack)
  <2>1. fn \in Functions
    BY <1>4 DEF Functions, ExitFunctions
  <2> QED
    BY <1>6, <2>1, EnteredOK, EnteredNumbers
<1>8. CallsOK(calls', stack) /\ (Pending(calls') => Pending(calls))
  BY <1>2, <1>3, <1>6, <1>7, Calls
<1> QED
  BY <1>1, <1>8, SameStack

LEMMA FunctionReturnStep == IInv /\ FunctionReturn => IInv'
<1> SUFFICES ASSUME IInv, FunctionReturn PROVE IInv'
  OBVIOUS
<1>1. Len(calls) > 1 /\ calls' = SubSeq(calls, 1, Len(calls) - 1) /\ UNCHANGED <<stack, below>>
  BY DEF FunctionReturn, Return
<1>2. CallsOK(calls', stack) /\ (Pending(calls') => Pending(calls))
  BY <1>1, RunningCalls, Returns
<1> QED
  BY <1>1, <1>2, SameStack

\* A stack that starts with one function.
LEMMA Starts ==
    ASSUME NEW s, NEW fn \in Runs(s), NEW with \in LocalsOf(fn), fn \in Functions,
           fn = "kmain" => s # "kernel_stack"
    PROVE  /\ CallsOK(<<Entered(fn, 0, with)>>, s)
           /\ Pending(<<Entered(fn, 0, with)>>) => fn \in SysenterFunctions
<1> DEFINE call == Entered(fn, 0, with)
<1>1. fn # "vsprintf"
  BY Sizes DEF LogFunctions
<1>2. CallOK(call, s)
  BY <1>1, EnteredOK, EnteredNumbers
<1>3. Frame[fn] \in Nat
  BY Sizes
<1>4. call = [fn |-> fn, next |-> 1, low |-> Frame[fn], with |-> with]
  BY <1>3, SMT DEF Entered
<1>5. CallOK([fn |-> fn, next |-> 1, low |-> Frame[fn], with |-> with], s)
  BY <1>2, <1>4
<1>6. call \in CallRecord /\ call.fn = fn
  BY <1>3, <1>4, <1>5, CallIsRecord
<1> HIDE DEF call
<1> DEFINE cs == <<call>>
<1>7. cs \in Seq(CallRecord) /\ Len(cs) = 1 /\ cs[1] = call /\ cs # <<>>
  BY <1>6, SMT
<1> HIDE DEF cs
<1>8. CallsOK(cs, s)
  BY <1>2, <1>6, <1>7, SMT DEF CallsOK
<1>9. Pending(cs) => fn \in SysenterFunctions
  BY <1>6, <1>7, SMT DEF Pending, PendingCall
<1> QED
  BY <1>8, <1>9 DEF cs, call

LEMMA InitStep == Init => IInv
<1> SUFFICES ASSUME Init PROVE IInv
  OBVIOUS
<1>1. "initialize_host" \in Functions /\ "initialize_host" \in Runs("higher")
      /\ <<>> \in LocalsOf("initialize_host") /\ "initialize_host" \notin SysenterFunctions
  BY RunsAre, SMT DEF StartFunctions, Functions, LocalsOf, SysenterFunctions
<1>2. CallsOK(calls, "higher") /\ ~Pending(calls)
  BY <1>1, Starts DEF Init
<1>3. stack = "higher" /\ below = <<>> /\ below \in Seq(Left)
  BY EmptySeq DEF Init
<1> QED
  BY <1>2, <1>3, RunsAre DEF IInv, Settled

LEMMA VmlaunchStep == IInv /\ Vmlaunch => IInv'
<1> SUFFICES ASSUME IInv, Vmlaunch PROVE IInv'
  OBVIOUS
<1>1. /\ AtStep("vmlaunch") /\ stack' = "guest" /\ below' = below
      /\ calls' = <<Entered("kmain", 0, <<>>)>>
  BY DEF Vmlaunch
<1>2. top.fn = "launch_vm" /\ top.fn \in Runs(stack)
  BY <1>1, RunningCalls, AtStepIs DEF LeadsTo
<1>3. stack = "higher"
  BY <1>2, RunningCalls, RunsAre, SMT DEF LogFunctions, ExitFunctions, GuestFunctions,
     CalledByKmain, SysenterFunctions, Handler
<1>4. below = <<>> /\ below \in Seq(Left)
  BY <1>3 DEF IInv, Settled
<1>5. "kmain" \in Functions /\ "kmain" \in Runs("guest") /\ "kmain" \notin SysenterFunctions
      /\ <<>> \in LocalsOf("kmain")
  BY RunsAre, SMT DEF GuestFunctions, Functions, LocalsOf, SysenterFunctions
<1>6. CallsOK(calls', "guest") /\ ~Pending(calls')
  BY <1>1, <1>5, Starts
<1> QED
  BY <1>1, <1>4, <1>6, RunsAre DEF IInv, Settled

LEMMA LastAndFront ==
    ASSUME NEW S, NEW b \in Seq(S), NEW e \in S
    PROVE  /\ Append(b, e) \in Seq(S)
           /\ Append(b, e) # <<>>
           /\ Last(Append(b, e)) = e
           /\ Front(Append(b, e)) = b
<1> DEFINE c == Append(b, e)
<1>1. c \in Seq(S) /\ Len(c) = Len(b) + 1 /\ c[Len(b) + 1] = e
      /\ \A i \in 1 .. Len(b) : c[i] = b[i]
  BY SMT
<1>2. Len(b) \in Nat /\ Len(b) = Len(c) - 1
      /\ \A i \in 1 .. Len(b) : b[i] \in S
  BY <1>1, LenProperties, ElementOfSeq, SMT
<1> HIDE DEF c
<1>3. c # <<>> /\ Last(c) = e
  BY <1>1, <1>2, EmptySeq, SMT DEF Last
<1>4. /\ SubSeq(c, 1, Len(b)) \in Seq(S) /\ Len(SubSeq(c, 1, Len(b))) = Len(b)
      /\ \A i \in 1 .. Len(b) : SubSeq(c, 1, Len(b))[i] = c[i]
  BY <1>1, <1>2, SubSeqProperties, SMT
<1>5. SubSeq(c, 1, Len(b)) = b
  BY <1>1, <1>4, SeqEqual
<1>6. Front(c) = b
  BY <1>2, <1>5 DEF Front
<1> QED
  BY <1>1, <1>3, <1>6 DEF c

LEMMA VmExitStep == IInv /\ VmExit => IInv'
<1> SUFFICES ASSUME IInv, VmExit PROVE IInv'
  OBVIOUS
<1> DEFINE left == [stack |-> stack, calls |-> Onward(top.with)]
<1>1. stack' = "host" /\ below' = Append(below, left)
  BY DEF VmExit, Leave
<1>2. PICK handler \in Handler :
        AtStep(handler) /\ calls' = <<Entered("vmexit_handler", 0, handler)>>
  BY DEF VmExit
<1>3. /\ CallsOK(calls, stack) /\ CallOK(Advanced(top.with), stack)
      /\ top.fn \in Runs(stack) /\ top.fn \in GuestFunctions
  BY <1>2, RunningCalls, AtStepIs DEF LeadsTo
<1>4. stack \in {"guest", "kernel_stack"}
  BY <1>3, RunningCalls, RunsAre, SMT DEF LogFunctions, ExitFunctions, StartFunctions,
     GuestFunctions, CalledByKmain, SysenterFunctions, Handler
<1>5. Settled(stack, calls, below) /\ below \in Seq(Left)
  BY <1>4 DEF IInv
<1>6. CallsOK(Onward(top.with), stack) /\ (Pending(Onward(top.with)) => Pending(calls))
  BY <1>3, Goes
<1>7. Settled(stack, Onward(top.with), below)
  BY <1>5, <1>6 DEF Settled
<1>8. left \in Left
  BY <1>4, <1>6, RunsAre DEF Left, CallsOK
<1>9. /\ below' \in Seq(Left) /\ below' # <<>>
      /\ Last(below') = left /\ Front(below') = below
  BY <1>1, <1>5, <1>8, LastAndFront
<1>10. handler \in LocalsOf("vmexit_handler")
  BY <1>2, SMT DEF LocalsOf
<1>11. CallsOK(calls', "host")
  <2>1. "vmexit_handler" \in Functions /\ "vmexit_handler" \in Runs("host")
    BY RunsAre, SMT DEF ExitFunctions, Functions
  <2> QED
    BY <1>2, <1>10, <2>1, Starts
<1>12. left.stack = stack /\ left.calls = Onward(top.with)
  OBVIOUS
<1> HIDE DEF left
<1>13. Settled(Last(below').stack, Last(below').calls, Front(below'))
  BY <1>7, <1>9, <1>12
<1> QED
  BY <1>1, <1>4, <1>9, <1>11, <1>12, <1>13, RunsAre DEF IInv

LEMMA VmresumeStep == IInv /\ Vmresume => IInv'
<1> SUFFICES ASSUME IInv, Vmresume PROVE IInv'
  OBVIOUS
<1>1. /\ stack = "host" /\ stack' = Last(below).stack /\ calls' = Last(below).calls
      /\ below' = Front(below)
  BY DEF Vmresume
<1>2. /\ below \in Seq(Left) /\ below # <<>>
      /\ Last(below).stack \in {"guest", "kernel_stack"}
      /\ Settled(Last(below).stack, Last(below).calls, Front(below))
  BY <1>1 DEF IInv
<1>3. Front(below) \in Seq(Left)
  <2>1. Len(below) \in Nat /\ \A i \in 1 .. Len(below) : below[i] \in Left
    BY <1>2, LenProperties, ElementOfSeq
  <2>2. \A i \in 1 .. Len(below) - 1 : below[i] \in Left
    BY <2>1, SMT
  <2> QED
    BY <2>1, <2>2, SubSeqProperties, SMT DEF Front
<1> QED
  BY <1>1, <1>2, <1>3, RunsAre, SMT DEF IInv

LEMMA SysenterStep == IInv /\ Sysenter => IInv'
<1> SUFFICES ASSUME IInv, Sysenter PROVE IInv'
  OBVIOUS
<1> DEFINE left == [stack |-> stack, calls |-> Onward(top.with)]
<1>1. AtStep("sysenter") /\ stack' = "kernel_stack" /\ below' = Append(below, left)
  BY DEF Sysenter, Leave
<1>2. PICK fn \in SysenterFunctions : calls' = <<Entered(fn, 0, <<>>)>>
  BY DEF Sysenter, SysenterFunctions
<1>3. /\ CallsOK(calls, stack) /\ CallOK(Advanced(top.with), stack) /\ CallOK(top, stack)
      /\ top.fn \in Runs(stack) /\ top.fn = "kmain" /\ top.next = 6
  BY <1>1, RunningCalls, AtStepIs, TopIs DEF LeadsTo
<1>4. stack = "guest"
  <2>1. stack # "kernel_stack"
    BY <1>3, SMT DEF CallOK
  <2> QED
    BY <1>3, <2>1, RunningCalls, RunsAre, SMT DEF LogFunctions, ExitFunctions, StartFunctions, Handler
<1>5. below = <<>> /\ below \in Seq(Left)
  BY <1>4 DEF IInv, Settled
<1>6. /\ CallsOK(Onward(top.with), "guest") /\ Last(Onward(top.with)).fn = "kmain"
      /\ Last(Onward(top.with)).next = 7
  <2>1. CallsOK(Onward(top.with), "guest")
    BY <1>3, <1>4, Goes
  <2>2. Last(Onward(top.with)) = Advanced(top.with)
    BY <1>3, OnwardIs DEF Last
  <2> QED
    BY <1>3, <2>1, <2>2, SMT DEF Advanced
<1>7. left \in Left /\ left.stack = "guest" /\ left.calls = Onward(top.with)
  BY <1>4, <1>6, RunsAre DEF Left, CallsOK
<1> HIDE DEF left
<1>8. below' \in Seq(Left) /\ Len(below') = 1 /\ below'[1] = left /\ below' # <<>>
  BY <1>1, <1>5, <1>7, LastAndFront, SMT
<1>9. Waiting(below')
  BY <1>6, <1>7, <1>8, SMT DEF Waiting
<1>10. CallsOK(calls', "kernel_stack")
  <2>1. fn \in Functions /\ fn \in Runs("kernel_stack") /\ fn # "kmain"
        /\ <<>> \in LocalsOf(fn)
    BY <1>2, RunsAre, SMT DEF GuestFunctions, Functions, SysenterFunctions, LocalsOf
  <2> QED
    BY <1>2, <2>1, Starts
<1> QED
  BY <1>1, <1>8, <1>9, <1>10, RunsAre, SMT DEF IInv, Settled

LEMMA SysenterRetStep == IInv /\ SysenterRet => IInv'
<1> SUFFICES ASSUME IInv, SysenterRet PROVE IInv'
  OBVIOUS
<1> DEFINE waiting == Last(Last(below).calls)
           call == [waiting EXCEPT !.low = top.low + 8]
           before == Onward(<<>>)
<1>1. /\ AtStep("ret") /\ stack' = stack /\ below' = Front(below)
      /\ calls' = Append(before, call)
  BY DEF SysenterRet
<1>2. /\ CallsOK(calls, stack) /\ CallOK(Advanced(top.with), stack) /\ CallOK(top, stack)
      /\ top.fn \in Runs(stack) /\ top.fn = "sysenter_handler" /\ top.next = 2
      /\ top.low \in Nat /\ Len(calls) \in Nat \ {0}
  BY <1>1, RunningCalls, AtStepIs, TopIs DEF LeadsTo
<1>3. stack \in {"guest", "kernel_stack"}
  BY <1>2, RunningCalls, RunsAre, SMT DEF LogFunctions, ExitFunctions, StartFunctions, Handler
<1>4. PendingCall(calls[Len(calls)]) /\ Pending(calls)
  BY <1>2, SMT DEF Pending, PendingCall, top, SysenterFunctions
<1>5. below # <<>> /\ Waiting(below) /\ stack = "kernel_stack" /\ below \in Seq(Left)
  BY <1>3, <1>4 DEF IInv, Settled
<1>6. Last(below) = below[1] /\ Len(below) = 1
  BY <1>5 DEF Last, Waiting
<1>7. Front(below) = <<>>
  BY <1>6, SubSeqEmpty DEF Front
<1>8. waiting \in CallRecord /\ CallOK(waiting, "guest") /\ waiting.fn = "kmain" /\ waiting.next >= 7
  <2> DEFINE cs == below[1].calls
  <2>1. CallsOK(cs, "guest") /\ Last(cs).fn = "kmain" /\ Last(cs).next >= 7
    BY <1>5 DEF Waiting
  <2> HIDE DEF cs
  <2>2. Len(cs) \in Nat \ {0} /\ Last(cs) = cs[Len(cs)] /\ cs \in Seq(CallRecord)
    BY <2>1, EmptySeq DEF CallsOK, Last
  <2>3. Last(cs) \in CallRecord /\ CallOK(Last(cs), "guest")
    BY <2>1, <2>2, ElementOfSeq, SMT DEF CallsOK
  <2>4. waiting = Last(cs)
    BY <1>6 DEF cs
  <2> QED
    BY <2>1, <2>3, <2>4
<1> HIDE DEF waiting
<1>9. /\ call \in CallRecord /\ call.fn = waiting.fn /\ call.next = waiting.next
      /\ call.with = waiting.with
  BY <1>2, <1>8, SMT DEF CallRecord
<1> HIDE DEF call
<1>10. CallOK(call, "kernel_stack") /\ ~PendingCall(call)
  <2>1. Numbers(call)
    BY <1>8, <1>9, NumbersElsewhere, SMT DEF Functions, GuestFunctions
  <2> QED
    BY <1>8, <1>9, <2>1, RunsAre, SMT DEF CallOK, PendingCall, SysenterFunctions
<1>11. top.with = <<>>
  BY <1>2, SMT DEF CallOK, LocalsOf
<1>12. /\ before \in Seq(CallRecord) /\ Len(before) = Len(calls)
       /\ \A i \in 1 .. Len(calls) - 1 : before[i] = calls[i]
       /\ before[Len(calls)] = Advanced(<<>>) /\ CallsOK(before, stack)
  BY <1>2, <1>11, OnwardIs, Goes
<1> HIDE DEF before
<1>13. /\ calls' \in Seq(CallRecord) /\ Len(calls') = Len(calls) + 1 /\ calls' # <<>>
       /\ \A i \in 1 .. Len(calls) : calls'[i] = before[i]
       /\ calls'[Len(calls) + 1] = call
  BY <1>1, <1>2, <1>9, <1>12, LastAndFront, SMT
<1>14. \A i \in 1 .. Len(calls') : CallOK(calls'[i], "kernel_stack")
  BY <1>2, <1>5, <1>10, <1>12, <1>13, SMT DEF CallsOK
<1>15. \A i \in 1 .. Len(calls') : ~PendingCall(calls'[i])
  <2>1. ~PendingCall(Advanced(<<>>))
    BY <1>2, SMT DEF PendingCall, Advanced
  <2>2. \A i \in 1 .. Len(calls) - 1 : ~PendingCall(calls[i])
    BY <1>2, <1>4, SMT DEF CallsOK
  <2> QED
    BY <1>2, <1>10, <1>12, <1>13, <2>1, <2>2, SMT
<1>16. CallsOK(calls', "kernel_stack") /\ ~Pending(calls')
  <2>1. calls'[1].fn \in Functions
    BY <1>2, <1>12, <1>13, SMT DEF CallsOK
  <2> QED
    BY <1>13, <1>14, <1>15, <2>1 DEF CallsOK, Pending
<1>17. below' = <<>> /\ below' \in Seq(Left)
  BY <1>1, <1>7, EmptySeq
<1> QED
  BY <1>1, <1>5, <1>16, <1>17, RunsAre DEF IInv, Settled
-------------------------------------------------------------------------------
\* The logging functions, which run on any stack.
LEMMA LogCalls ==
    ASSUME IInv, UNCHANGED <<stack, below>>, NEW locals, CallOK(Advanced(locals), stack),
           NEW fn \in LogFunctions, NEW with \in LocalsOf(fn),
           fn = "vsprintf" => Len(with.format) <= LongestFormat,
           Numbers(Entered(fn, top.low, with)), CallWith(locals, fn, with)
    PROVE  IInv'
<1>1. fn \in Runs(stack) /\ fn \in Functions \cup LogFunctions
      /\ fn \notin SysenterFunctions /\ fn # "kmain"
  BY RunsAre, SMT DEF LogFunctions, SysenterFunctions
<1>2. CallOK(Entered(fn, top.low, with), stack)
  BY <1>1, EnteredOK
<1>3. calls' = Append(Onward(locals), Entered(fn, top.low, with))
  BY DEF CallWith
<1>4. CallsOK(calls', stack) /\ (Pending(calls') => Pending(calls))
  BY <1>1, <1>2, <1>3, RunningCalls, Calls
<1> QED
  BY <1>4, SameStack

LEMMA LogReturns ==
    ASSUME IInv, UNCHANGED <<stack, below>>, top.fn \in LogFunctions, Return
    PROVE  IInv'
<1>1. CallsOK(calls, stack) /\ Len(calls) \in Nat \ {0}
  BY RunningCalls, TopIs
<1>2. calls[1].fn \in Functions /\ calls[Len(calls)].fn \notin Functions
  BY <1>1, Sizes DEF CallsOK, top
<1>3. Len(calls) > 1
  BY <1>1, <1>2, SMT
<1>4. CallsOK(calls', stack) /\ (Pending(calls') => Pending(calls))
  BY <1>1, <1>3, Returns DEF Return
<1> QED
  BY <1>4, SameStack

LEMMA LogGoes ==
    ASSUME IInv, UNCHANGED <<stack, below>>, NEW with, CallOK(Advanced(with), stack),
           calls' = Onward(with)
    PROVE  IInv'
<1>1. CallsOK(calls', stack) /\ (Pending(calls') => Pending(calls))
  BY RunningCalls, Goes
<1> QED
  BY <1>1, SameStack

\* A logging function that is not at its end may go on with locals of its own.
LEMMA LogAdvances ==
    ASSUME IInv, top.fn \in LogFunctions, top.next <= Steps(top.fn),
           NEW with \in LocalsOf(top.fn),
           top.fn = "vsprintf" => top.next + 1 + Len(with.format) <= LongestFormat + 1,
           Numbers(Advanced(with))
    PROVE  CallOK(Advanced(with), stack)
<1>1. CallOK(top, stack) /\ top.next \in Nat /\ Steps(top.fn) \in Nat
  BY RunningCalls, TopIs, Sizes
<1>2. /\ Advanced(with).fn = top.fn /\ Advanced(with).next = top.next + 1
      /\ Advanced(with).with = with
  BY DEF Advanced
<1>3. top.next + 1 \in 1 .. Steps(top.fn) + 1
  BY <1>1, SMT
<1>4. top.fn # "kmain"
  BY SMT DEF LogFunctions
<1> QED
  BY <1>1, <1>2, <1>3, <1>4 DEF CallOK

\* The two that format nothing themselves.
LEMMA LogAdvancesOn ==
    ASSUME IInv, top.fn \in {"log_log", "sprintf"}, top.next <= Steps(top.fn)
    PROVE  CallOK(Advanced(top.with), stack)
<1> DEFINE c == Advanced(top.with)
<1>1. top.fn \in LogFunctions /\ top.fn # "vsprintf" /\ top.with \in LocalsOf(top.fn)
  BY RunningCalls, TopIs, SMT DEF LogFunctions, CallOK
<1>2. c.fn = top.fn
  BY DEF Advanced
<1> HIDE DEF c
<1>3. Numbers(c)
  BY <1>2, NumbersElsewhere
<1>4. Numbers(Advanced(top.with))
  BY <1>3 DEF c
<1> QED
  BY <1>1, <1>4, LogAdvances

LEMMA FormatIs ==
    \A format \in Format \cup {<<>>} :
      format \in Seq(Conversion) /\ Len(format) <= LongestFormat
<1>1. <<>> \in Seq(Conversion) /\ Len(<<>>) <= LongestFormat
  BY EmptySeq, StacksAssumption, SMT
<1> QED
  BY <1>1, PrintingAssumption, StacksAssumption

\* What vsprintf starts with.
LEMMA NewFormat ==
    ASSUME NEW format \in Format \cup {<<>>, <<"s", "s", "d", "s">>}, NEW low
    PROVE  Numbers(Entered("vsprintf", low, [format |-> format, is_unsigned |-> FALSE]))
<1> DEFINE c == Entered("vsprintf", low, [format |-> format, is_unsigned |-> FALSE])
<1>1. c.fn = "vsprintf" /\ c.with.format = format /\ c.with.is_unsigned = FALSE
  BY DEF Entered
<1> HIDE DEF c
<1>2. SignsKept(<<>>)
  BY SMT DEF SignsKept
<1>3. SignsKept(<<"s", "s", "d", "s">>)
  BY SMT DEF SignsKept
<1>4. Numbers(c)
  BY <1>1, <1>2, <1>3 DEF Numbers
<1> QED
  BY <1>4 DEF c

\* How vsprintf goes on, and what it has sprint_integer print.
LEMMA VsprintfGoesOn ==
    ASSUME IInv, top.fn = "vsprintf", top.with.format # <<>>
    PROVE  LET format == top.with.format
               is_unsigned == top.with.is_unsigned \/ (format # <<>> /\ Head(format) \in {"u", "U"})
               rest == [format |-> Tail(format), is_unsigned |-> is_unsigned]
           IN  /\ rest \in LocalsOf("vsprintf")
               /\ CallOK(Advanced(rest), stack)
               /\ Head(format) \in DOMAIN Base =>
                    \A argument :
                      Numbers(Entered("sprint_integer", top.low,
                                      [letter |-> Head(format), argument |-> argument,
                                       number |-> va_arg(argument), is_unsigned |-> is_unsigned,
                                       text |-> <<>>]))
<1> DEFINE format == top.with.format
           is_unsigned == top.with.is_unsigned \/ (format # <<>> /\ Head(format) \in {"u", "U"})
           rest == [format |-> Tail(format), is_unsigned |-> is_unsigned]
           Signs == \A f \in Format : SignsKept(f)
<1>1. top.fn \in LogFunctions /\ Steps(top.fn) = LongestFormat
  BY Sizes DEF LogFunctions
<1>2. /\ CallOK(top, stack) /\ top.next \in Nat
      /\ top.with \in [format : Seq(Conversion), is_unsigned : BOOLEAN]
  <2>1. CallOK(top, stack) /\ top.next \in Nat
    BY RunningCalls, TopIs
  <2> QED
    BY <2>1, SMT DEF CallOK, LocalsOf
<1>3. /\ format \in Seq(Conversion) /\ top.next + Len(format) <= LongestFormat + 1
      /\ is_unsigned \in BOOLEAN /\ format # <<>>
  BY <1>2 DEF CallOK
<1>4. /\ Tail(format) \in Seq(Conversion) /\ Len(Tail(format)) = Len(format) - 1
      /\ Len(format) \in Nat \ {0} /\ Head(format) = format[1]
      /\ \A i \in 1 .. Len(Tail(format)) : Tail(format)[i] = format[i + 1]
  BY <1>3, HeadTailProperties, EmptySeq
<1>5. rest \in LocalsOf("vsprintf") /\ rest.format = Tail(format) /\ rest.is_unsigned = is_unsigned
  BY <1>3, <1>4 DEF LocalsOf
<1>6. ASSUME Signs
      PROVE  /\ SignsKept(Tail(format))
             /\ is_unsigned => \A i \in 1 .. Len(Tail(format)) :
                                 Tail(format)[i] \in DOMAIN Base => Tail(format)[i] \in {"u", "U"}
             /\ Head(format) \in DOMAIN Base => (is_unsigned <=> Head(format) \in {"u", "U"})
  <2>1. /\ SignsKept(format)
        /\ top.with.is_unsigned => \A i \in 1 .. Len(format) :
                                     format[i] \in DOMAIN Base => format[i] \in {"u", "U"}
    BY <1>2, <1>6 DEF CallOK, Numbers
  <2>2. /\ is_unsigned <=> top.with.is_unsigned \/ format[1] \in {"u", "U"}
        /\ 1 \in 1 .. Len(format)
        /\ \A i \in 1 .. Len(Tail(format)) : i + 1 \in 1 .. Len(format) /\ 1 < i + 1
        /\ \A i, j \in 1 .. Len(Tail(format)) : i < j => i + 1 < j + 1
    BY <1>3, <1>4, SMT
  <2> HIDE DEF format, is_unsigned
  <2>3. SignsKept(Tail(format))
    BY <1>4, <2>1, <2>2 DEF SignsKept
  <2>4. ASSUME is_unsigned, NEW i \in 1 .. Len(Tail(format)), Tail(format)[i] \in DOMAIN Base
        PROVE  Tail(format)[i] \in {"u", "U"}
    BY <1>4, <2>1, <2>2, <2>4 DEF SignsKept
  <2>5. Head(format) \in DOMAIN Base => (is_unsigned <=> Head(format) \in {"u", "U"})
    BY <1>4, <2>1, <2>2
  <2> QED
    BY <2>3, <2>4, <2>5
<1> HIDE DEF rest, is_unsigned, format
<1>7. Numbers(Advanced(rest))
  <2> DEFINE c == Advanced(rest)
  <2>1. c.fn = "vsprintf" /\ c.with = rest
    BY DEF Advanced
  <2>2. c.with.format = Tail(format) /\ c.with.is_unsigned = is_unsigned
    BY <1>5, <2>1
  <2>3. c.fn # "sprint_integer"
    BY <2>1
  <2> HIDE DEF c
  <2>4. Numbers(c)
    BY <1>6, <2>1, <2>2, <2>3 DEF Numbers
  <2> QED
    BY <2>4 DEF c
<1>8. CallOK(Advanced(rest), stack)
  <2>1. /\ top.next <= Steps(top.fn)
        /\ top.next + 1 + Len(rest.format) <= LongestFormat + 1
    BY <1>1, <1>2, <1>3, <1>4, <1>5, StacksAssumption, SMT
  <2> QED
    BY <1>1, <1>5, <1>7, <2>1, LogAdvances
<1>9. ASSUME NEW argument, Head(format) \in DOMAIN Base
      PROVE  Numbers(Entered("sprint_integer", top.low,
                             [letter |-> Head(format), argument |-> argument,
                              number |-> va_arg(argument), is_unsigned |-> is_unsigned,
                              text |-> <<>>]))
  <2> DEFINE with == [letter |-> Head(format), argument |-> argument,
                      number |-> va_arg(argument), is_unsigned |-> is_unsigned,
                      text |-> <<>>]
             c == Entered("sprint_integer", top.low, with)
  <2>1. /\ c.fn = "sprint_integer" /\ c.next = 1
        /\ c.with.is_unsigned = is_unsigned /\ c.with.letter = Head(format)
        /\ c.with.number = va_arg(c.with.argument)
    BY DEF Entered
  <2> HIDE DEF c, with
  <2>2. Numbers(c)
    BY <1>6, <1>9, <2>1, SMT DEF Numbers
  <2> QED
    BY <2>2 DEF c, with
<1> QED
  BY <1>5, <1>8, <1>9 DEF rest, is_unsigned, format

LEMMA LogLogStep == IInv /\ UNCHANGED <<stack, below>> /\ log_log => IInv'
<1> SUFFICES ASSUME IInv, UNCHANGED <<stack, below>>, log_log PROVE IInv'
  OBVIOUS
<1>1. top.fn = "log_log" /\ top.fn \in LogFunctions /\ Steps(top.fn) = 2
  BY Sizes DEF log_log, LogFunctions
<1>2. CallOK(top, stack) /\ top.with \in Format \cup {<<>>}
  BY <1>1, RunningCalls, TopIs DEF CallOK, LocalsOf
<1>3. CASE top.next = 1 /\ Call("vsprintf", [format |-> top.with, is_unsigned |-> FALSE])
  <2> DEFINE with == [format |-> top.with, is_unsigned |-> FALSE]
  <2>1. with \in LocalsOf("vsprintf") /\ Len(with.format) <= LongestFormat
    BY <1>2, FormatIs DEF LocalsOf
  <2>2. CallOK(Advanced(top.with), stack)
    BY <1>1, <1>3, LogAdvancesOn, SMT
  <2>3. CallWith(top.with, "vsprintf", with) /\ "vsprintf" \in LogFunctions
    BY <1>3 DEF Call, LogFunctions
  <2>4. Numbers(Entered("vsprintf", top.low, with))
    BY <1>2, NewFormat
  <2> QED
    BY <2>1, <2>2, <2>3, <2>4, LogCalls
<1>4. CASE top.next = 2 /\ Call("sprintf", <<>>)
  <2>1. <<>> \in LocalsOf("sprintf") /\ "sprintf" \in LogFunctions
    BY SMT DEF LocalsOf, LogFunctions
  <2>2. CallOK(Advanced(top.with), stack)
    BY <1>1, <1>4, LogAdvancesOn, SMT
  <2>3. CallWith(top.with, "sprintf", <<>>)
    BY <1>4 DEF Call
  <2> QED
    BY <2>1, <2>2, <2>3, EnteredNumbers, LogCalls
<1>5. CASE top.next = 3 /\ Return
  BY <1>1, <1>5, LogReturns
<1> QED
  BY <1>3, <1>4, <1>5 DEF log_log

LEMMA SprintfStep == IInv /\ UNCHANGED <<stack, below>> /\ sprintf => IInv'
<1> SUFFICES ASSUME IInv, UNCHANGED <<stack, below>>, sprintf PROVE IInv'
  OBVIOUS
<1> DEFINE format == <<"s", "s", "d", "s">>
           with == [format |-> format, is_unsigned |-> FALSE]
<1>1. top.fn = "sprintf" /\ top.fn \in LogFunctions /\ Steps(top.fn) = 1
  BY Sizes DEF sprintf, LogFunctions
<1>2. CallOK(top, stack) /\ top.with \in LocalsOf("sprintf")
  BY <1>1, RunningCalls, TopIs DEF CallOK
<1>3. CASE top.next = 1 /\ Call("vsprintf", with)
  <2>1. format \in Seq(Conversion) /\ Len(format) = 4
    BY SMT DEF Conversion
  <2>5. Numbers(Entered("vsprintf", top.low, with))
    BY NewFormat
  <2> HIDE DEF format
  <2>2. with \in LocalsOf("vsprintf") /\ Len(with.format) <= LongestFormat
    BY <2>1, StacksAssumption DEF LocalsOf
  <2>3. CallOK(Advanced(top.with), stack)
    BY <1>1, <1>3, LogAdvancesOn, SMT
  <2>4. CallWith(top.with, "vsprintf", with) /\ "vsprintf" \in LogFunctions
    BY <1>3 DEF Call, LogFunctions
  <2> QED
    BY <2>2, <2>3, <2>4, <2>5, LogCalls
<1>4. CASE top.next = 2 /\ Return
  BY <1>1, <1>4, LogReturns
<1> QED
  BY <1>3, <1>4 DEF sprintf

LEMMA VsprintfStep == IInv /\ UNCHANGED <<stack, below>> /\ vsprintf => IInv'
<1> SUFFICES ASSUME IInv, UNCHANGED <<stack, below>>, vsprintf PROVE IInv'
  OBVIOUS
<1> DEFINE format == top.with.format
           is_unsigned == top.with.is_unsigned \/ (format # <<>> /\ Head(format) \in {"u", "U"})
           rest == [format |-> Tail(format), is_unsigned |-> is_unsigned]
<1>1. top.fn = "vsprintf" /\ top.fn \in LogFunctions
  BY DEF vsprintf, LogFunctions
<1>2. CallOK(top, stack)
  BY RunningCalls, TopIs
<1>3. CASE format = <<>> /\ Return
  BY <1>1, <1>3, LogReturns
<1>4. is_unsigned \in BOOLEAN
  BY <1>1, <1>2, SMT DEF CallOK, LocalsOf
<1>5. ASSUME format # <<>>
      PROVE  /\ rest \in LocalsOf("vsprintf") /\ CallOK(Advanced(rest), stack)
             /\ Head(format) \in DOMAIN Base =>
                  \A argument :
                    Numbers(Entered("sprint_integer", top.low,
                                    [letter |-> Head(format), argument |-> argument,
                                     number |-> va_arg(argument), is_unsigned |-> is_unsigned,
                                     text |-> <<>>]))
  BY <1>1, <1>5, VsprintfGoesOn
<1> HIDE DEF rest
<1>6. CASE format # <<>> /\ Head(format) = "s" /\ calls' = Onward(rest)
  BY <1>5, <1>6, LogGoes
<1>7. CASE format # <<>> /\ CallWith(rest, "log_log", Logged)
  <2>1. Logged \in LocalsOf("log_log") /\ "log_log" \in LogFunctions
    BY SMT DEF Logged, LocalsOf, LogFunctions
  <2> QED
    BY <1>5, <1>7, <2>1, EnteredNumbers, LogCalls
<1>8. ASSUME format # <<>>, Head(format) \in DOMAIN Base, NEW argument \in Argument,
             CallWith(rest, "sprint_integer",
                      [letter |-> Head(format), argument |-> argument,
                       number |-> va_arg(argument), is_unsigned |-> is_unsigned,
                       text |-> <<>>])
      PROVE  IInv'
  <2> DEFINE with == [letter |-> Head(format), argument |-> argument,
                      number |-> va_arg(argument), is_unsigned |-> is_unsigned,
                      text |-> <<>>]
  <2>1. with \in LocalsOf("sprint_integer") /\ "sprint_integer" \in LogFunctions
    <3>1. va_arg(argument) \in int
      BY PrintingAssumption, VaArg
    <3> QED
      BY <1>4, <1>8, <3>1, SMT DEF LocalsOf, LogFunctions, Texts
  <2>2. CallWith(rest, "sprint_integer", with)
    BY <1>8
  <2>3. Numbers(Entered("sprint_integer", top.low, with))
    BY <1>5, <1>8
  <2> HIDE DEF with
  <2> QED
    BY <1>5, <1>8, <2>1, <2>2, <2>3, LogCalls
<1> QED
  BY <1>3, <1>6, <1>7, <1>8 DEF vsprintf, rest

LEMMA SprintIntegerStep == IInv /\ UNCHANGED <<stack, below>> /\ sprint_integer => IInv'
<1> SUFFICES ASSUME IInv, UNCHANGED <<stack, below>>, sprint_integer PROVE IInv'
  OBVIOUS
<1> DEFINE text == Text(top.with.number, Base[top.with.letter], top.with.is_unsigned)
           with == [top.with EXCEPT !.text = text]
<1>1. top.fn = "sprint_integer" /\ top.fn \in LogFunctions /\ Steps(top.fn) = 1
  BY Sizes DEF sprint_integer, LogFunctions
<1>2. top.with \in [letter : DOMAIN Base, argument : Argument, number : int,
                       is_unsigned : BOOLEAN, text : Texts]
  <2>1. CallOK(top, stack)
    BY RunningCalls, TopIs
  <2> QED
    BY <1>1, <2>1, SMT DEF CallOK, LocalsOf
<1>3. CASE top.next = 1 /\ calls' = Onward(with)
  <2>1. text \in Texts
    <3>1. \A letter \in DOMAIN Base : Base[letter] \in {2, 10, 16}
      BY SMT DEF Base
    <3> QED
      BY <1>2, <3>1 DEF Texts
  <2>2. Numbers(Advanced(with))
    <3> DEFINE c == Advanced(with)
    <3>1. c.fn = "sprint_integer" /\ c.with = with
      BY <1>1 DEF Advanced
    <3>2. /\ with.is_unsigned = top.with.is_unsigned /\ with.letter = top.with.letter
          /\ with.number = top.with.number /\ with.text = text
          /\ with.argument = top.with.argument
      BY <1>2
    <3>3. /\ (\A format \in Format : SignsKept(format))
               => (top.with.is_unsigned <=> top.with.letter \in {"u", "U"})
          /\ top.with.number = va_arg(top.with.argument)
      BY <1>1, RunningCalls, TopIs DEF CallOK, Numbers
    <3> HIDE DEF c, with
    <3>4. Numbers(c)
      BY <3>1, <3>2, <3>3 DEF Numbers
    <3> QED
      BY <3>4 DEF c
  <2> HIDE DEF text
  <2>3. with \in LocalsOf("sprint_integer")
    BY <1>2, <2>1, SMT DEF LocalsOf
  <2> HIDE DEF with
  <2>4. CallOK(Advanced(with), stack)
    BY <1>1, <1>3, <2>2, <2>3, LogAdvances, SMT
  <2> QED
    BY <1>3, <2>4, LogGoes
<1>4. CASE top.next = 2 /\ Return
  BY <1>1, <1>4, LogReturns
<1> QED
  BY <1>3, <1>4 DEF sprint_integer

LEMMA NextStep == IInv /\ [Next]_vars => IInv'
<1> SUFFICES ASSUME IInv, [Next]_vars PROVE IInv'
  OBVIOUS
<1>1. CASE LogFunction
  BY <1>1, LogLogStep, SprintfStep, VsprintfStep, SprintIntegerStep DEF LogFunction, PrintingStep
<1>2. CASE Log
  BY <1>2, LogStep
<1>3. CASE Skip
  BY <1>3, SkipStep
<1>4. CASE Stop
  BY <1>4, UnchangedStep DEF Stop
<1>5. CASE CallFunction
  BY <1>5, CallFunctionStep
<1>6. CASE CallHandler
  BY <1>6, CallHandlerStep
<1>7. CASE FunctionReturn
  BY <1>7, FunctionReturnStep
<1>8. CASE Vmlaunch
  BY <1>8, VmlaunchStep
<1>9. CASE VmExit
  BY <1>9, VmExitStep
<1>10. CASE Vmresume
  BY <1>10, VmresumeStep
<1>11. CASE Sysenter
  BY <1>11, SysenterStep
<1>12. CASE SysenterRet
  BY <1>12, SysenterRetStep
<1>13. CASE UNCHANGED vars
  BY <1>13, UnchangedStep
<1> QED
  BY <1>1, <1>2, <1>3, <1>4, <1>5, <1>6, <1>7, <1>8, <1>9, <1>10, <1>11, <1>12, <1>13 DEF Next

LEMMA Invariance == Spec => []IInv
  BY InitStep, NextStep, PTL DEF Spec

\* Whatever is logged and wherever the guest exits, each active function is at a
\* step of its own, and no more than two stacks are left below the running one:
\* an exit always finds a guest to go back to, and a SYSENTER's return its kmain.
THEOREM TypeCorrect == Spec => []TypeOK
<1>1. IInv => TypeOK
  <2> SUFFICES ASSUME IInv PROVE TypeOK
    OBVIOUS
  <2>1. CallsOK(calls, stack) /\ stack \in DOMAIN Room
    BY RunningCalls
  <2>2. Len(below) <= 2
    <3>1. ASSUME NEW b, b = <<>> \/ Waiting(b) PROVE Len(b) <= 1
      <4>1. CASE b = <<>>
        BY <4>1, SMT
      <4>2. CASE Waiting(b)
        <5>1. Len(b) = 1
          BY <4>2 DEF Waiting
        <5> QED
          BY <5>1, SMT
      <4> QED
        BY <3>1, <4>1, <4>2
    <3>2. CASE stack # "host"
      BY <3>1, <3>2, SMT DEF IInv, Settled
    <3>3. CASE stack = "host"
      <4>1. below \in Seq(Left) /\ below # <<>> /\ Len(Front(below)) <= 1
        BY <3>1, <3>3 DEF IInv, Settled
      <4>2. Len(below) \in Nat /\ \A i \in 1 .. Len(below) - 1 : below[i] \in Left
        BY <4>1, LenProperties, ElementOfSeq, SMT
      <4>3. Len(Front(below)) = Len(below) - 1
        <5> DEFINE n == Len(below) - 1
        <5>1. n \in Nat
          BY <4>1, EmptySeq, SMT
        <5>2. Front(below) = SubSeq(below, 1, n) /\ \A i \in 1 .. n : below[i] \in Left
          BY <4>2 DEF Front
        <5> HIDE DEF n
        <5>3. Len(SubSeq(below, 1, n)) = n
          BY <5>1, <5>2, SubSeqProperties, SMT
        <5> QED
          BY <5>2, <5>3 DEF n
      <4> QED
        BY <4>1, <4>2, <4>3, SMT
    <3> QED
      BY <3>2, <3>3
  <2>3. \A i \in 1 .. Len(calls) : calls[i].fn \in DOMAIN Frame
    <3>1. Functions \subseteq DOMAIN Frame
      <4>1. DOMAIN Body = Functions
        BY Bodies
      <4> QED
        BY <4>1, StacksAssumption
    <3>2. Functions \cup LogFunctions \subseteq DOMAIN Frame
      BY <3>1, StacksAssumption, SMT DEF LogFunctions
    <3>3. \A i \in 1 .. Len(calls) : calls[i].fn \in Functions \cup LogFunctions
      BY <2>1, RunsAre DEF CallsOK, CallOK
    <3> QED
      BY <3>2, <3>3
  <2> QED
    BY <2>1, <2>2, <2>3 DEF TypeOK, CallsOK, CallOK
<1> QED
  BY <1>1, Invariance, PTL
-------------------------------------------------------------------------------
\* vsprintf logs about a format with one of these.
Loud(format) == \E i \in 1 .. Len(format) : format[i] \in {"c", "unknown"}

\* What a call may need above its frame.
Need(c, Depth, Quiet) ==
    IF c.fn = "log_log" THEN IF Loud(c.with) THEN Depth["log_log"] ELSE Quiet["log_log"]
    ELSE IF c.fn = "vsprintf"
      THEN IF Loud(c.with.format) THEN Depth["vsprintf"] ELSE Quiet["vsprintf"]
    ELSE Depth[c.fn]

Fit(cs, s, Depth, Quiet) ==
    \A i \in 1 .. Len(cs) : cs[i].low + Need(cs[i], Depth, Quiet) <= Room[s]

\* Not only the function on top but every function that is active, on any stack,
\* has what it may yet need.
RoomInv(Depth, Quiet) ==
    /\ Fit(calls, stack, Depth, Quiet)
    /\ \A i \in 1 .. Len(below) : Fit(below[i].calls, below[i].stack, Depth, Quiet)

LEMMA RoomType == \A s \in DOMAIN Room : Room[s] \in Nat
  BY SMT DEF Room, higher_room, guest_room, host_room, HIGHER_MEMORY_STACK_TOP, TABLES_END,
     PAGE_FRAME_SIZE, registers, STACK_SIZE, STACK_TOP, DRIVE_NUMBER_END

LEMMA NeedIs ==
    ASSUME NEW Depth, NEW Quiet, DepthsFit(Depth, Quiet), NEW c, c.fn \in Functions \cup LogFunctions
    PROVE  /\ Need(c, Depth, Quiet) \in Nat
           /\ Leaf[c.fn] <= Need(c, Depth, Quiet)
           /\ Need(c, Depth, Quiet) <= Depth[c.fn]
           /\ Depth[c.fn] \in Nat
           /\ c.fn \in Functions => Need(c, Depth, Quiet) = Depth[c.fn]
<1>1. Functions \cup LogFunctions \subseteq DOMAIN Frame
  <2>1. DOMAIN Body = Functions
    BY Bodies
  <2> QED
    BY <2>1, StacksAssumption, SMT DEF LogFunctions
<1>2. /\ Depth \in [DOMAIN Frame -> Nat]
      /\ Quiet \in [{"log_log", "vsprintf"} -> Nat]
      /\ \A fn \in DOMAIN Frame : Leaf[fn] <= Depth[fn]
      /\ \A fn \in DOMAIN Quiet : Leaf[fn] <= Quiet[fn] /\ Quiet[fn] <= Depth[fn]
  BY DEF DepthsFit
<1>3. c.fn \in Functions => c.fn # "log_log" /\ c.fn # "vsprintf"
  BY Sizes DEF LogFunctions
<1> QED
  BY <1>1, <1>2, <1>3, SMT DEF Need

LEMMA FitGoes ==
    ASSUME NEW Depth, NEW Quiet, NEW s, CallsOK(calls, s), Fit(calls, s, Depth, Quiet),
           NEW with, CallOK(Advanced(with), s),
           Need(Advanced(with), Depth, Quiet) <= Need(top, Depth, Quiet),
           Need(Advanced(with), Depth, Quiet) \in Nat, Need(top, Depth, Quiet) \in Nat,
           Room[s] \in Nat
    PROVE  Fit(Onward(with), s, Depth, Quiet)
<1>1. /\ Len(calls) \in Nat \ {0} /\ top.low \in Nat
      /\ top.low + Need(top, Depth, Quiet) <= Room[s]
  BY TopIs, SMT DEF Fit, top
<1>2. /\ Len(Onward(with)) = Len(calls)
      /\ \A i \in 1 .. Len(calls) - 1 : Onward(with)[i] = calls[i]
      /\ Onward(with)[Len(calls)] = Advanced(with)
  BY OnwardIs
<1>3. Advanced(with).low = top.low
  BY DEF Advanced
<1>4. Advanced(with).low + Need(Advanced(with), Depth, Quiet) <= Room[s]
  BY <1>1, <1>3, SMT
<1> QED
  BY <1>1, <1>2, <1>4, SMT DEF Fit

LEMMA FitAppends ==
    ASSUME NEW Depth, NEW Quiet, NEW s, NEW cs \in Seq(CallRecord), Fit(cs, s, Depth, Quiet),
           NEW call \in CallRecord, call.low + Need(call, Depth, Quiet) <= Room[s]
    PROVE  Fit(Append(cs, call), s, Depth, Quiet)
<1> DEFINE new == Append(cs, call)
<1>1. /\ Len(new) = Len(cs) + 1 /\ Len(cs) \in Nat /\ new[Len(cs) + 1] = call
      /\ \A i \in 1 .. Len(cs) : new[i] = cs[i]
  BY LenProperties, SMT
<1> HIDE DEF new
<1>2. Fit(new, s, Depth, Quiet)
  BY <1>1, SMT DEF Fit
<1> QED
  BY <1>2 DEF new

\* A function that starts another leaves it what it needs.
LEMMA FitCalls ==
    ASSUME NEW Depth, NEW Quiet, NEW s, CallsOK(calls, s), Fit(calls, s, Depth, Quiet),
           NEW locals, CallOK(Advanced(locals), s),
           Need(Advanced(locals), Depth, Quiet) <= Need(top, Depth, Quiet),
           Need(Advanced(locals), Depth, Quiet) \in Nat, Need(top, Depth, Quiet) \in Nat,
           NEW fn \in Functions \cup LogFunctions, NEW with,
           CallOK(Entered(fn, top.low, with), s),
           Need(Entered(fn, top.low, with), Depth, Quiet) \in Nat,
           Frame[fn] + Need(Entered(fn, top.low, with), Depth, Quiet) <= Need(top, Depth, Quiet),
           Room[s] \in Nat
    PROVE  Fit(Append(Onward(locals), Entered(fn, top.low, with)), s, Depth, Quiet)
<1> DEFINE call == Entered(fn, top.low, with)
           low == top.low + Frame[fn]
<1>1. Fit(Onward(locals), s, Depth, Quiet) /\ Onward(locals) \in Seq(CallRecord)
  BY FitGoes, OnwardIs
<1>2. /\ top.low \in Nat /\ Frame[fn] \in Nat
      /\ top.low + Need(top, Depth, Quiet) <= Room[s]
  BY TopIs, Sizes, SMT DEF Fit, top
<1>3. call = [fn |-> fn, next |-> 1, low |-> low, with |-> with] /\ low \in Nat
  BY EnteredIs
<1>4. call.low = low /\ CallOK([fn |-> fn, next |-> 1, low |-> low, with |-> with], s)
  BY <1>3
<1>5. call \in CallRecord
  <2> HIDE DEF low, call
  <2> QED
    BY <1>3, <1>4, CallIsRecord
<1>6. call.low + Need(call, Depth, Quiet) <= Room[s]
  <2> DEFINE need == Need(call, Depth, Quiet)
  <2>1. need \in Nat /\ Frame[fn] + need <= Need(top, Depth, Quiet)
    OBVIOUS
  <2> HIDE DEF need, call
  <2>2. call.low + need <= Room[s]
    BY <1>2, <1>4, <2>1, SMT
  <2> QED
    BY <2>2 DEF need
<1> QED
  BY <1>1, <1>5, <1>6, FitAppends

LEMMA FitReturns ==
    ASSUME NEW Depth, NEW Quiet, NEW s, CallsOK(calls, s), Fit(calls, s, Depth, Quiet),
           Len(calls) > 1
    PROVE  Fit(SubSeq(calls, 1, Len(calls) - 1), s, Depth, Quiet)
<1> DEFINE n == Len(calls) - 1
           cs == SubSeq(calls, 1, n)
<1>1. n \in Nat \ {0} /\ n = Len(calls) - 1 /\ \A i \in 1 .. n : calls[i] \in CallRecord
  BY TopIs, ElementOfSeq, SMT DEF CallsOK
<1> HIDE DEF n
<1>2. Len(cs) = n /\ \A i \in 1 .. n : cs[i] = calls[i]
  BY <1>1, SubSeqProperties, SMT
<1> HIDE DEF cs
<1>3. Fit(cs, s, Depth, Quiet)
  BY <1>1, <1>2, SMT DEF Fit
<1> QED
  BY <1>3 DEF cs, n

LEMMA FitStarts ==
    ASSUME NEW Depth, NEW Quiet, DepthsFit(Depth, Quiet), NEW s \in DOMAIN Room,
           NEW fn \in Functions, NEW with, Frame[fn] + Depth[fn] <= Room[s]
    PROVE  Fit(<<Entered(fn, 0, with)>>, s, Depth, Quiet)
<1> DEFINE call == Entered(fn, 0, with)
           cs == <<call>>
<1>1. Frame[fn] \in Nat /\ call.low = 0 + Frame[fn] /\ call.fn = fn
  BY Sizes DEF Entered
<1> HIDE DEF call
<1>2. Need(call, Depth, Quiet) = Depth[fn] /\ Depth[fn] \in Nat
  BY <1>1, NeedIs
<1>3. call.low + Need(call, Depth, Quiet) <= Room[s]
  BY <1>1, <1>2, RoomType, SMT
<1>4. Len(cs) = 1 /\ cs[1] = call
  BY SMT
<1> HIDE DEF cs
<1>5. Fit(cs, s, Depth, Quiet)
  BY <1>3, <1>4, SMT DEF Fit
<1> QED
  BY <1>5 DEF cs, call
-------------------------------------------------------------------------------
\* Each action keeps what the functions may need in their room.
LEMMA RoomSameStack ==
    ASSUME NEW Depth, NEW Quiet, RoomInv(Depth, Quiet),
           Fit(calls', stack, Depth, Quiet), UNCHANGED <<stack, below>>
    PROVE  RoomInv(Depth, Quiet)'
<1>1. stack' = stack /\ below' = below
  OBVIOUS
<1> QED
  BY <1>1 DEF RoomInv, Fit, Need

\* What a function of Body may need does not change as it goes on.
LEMMA BodyNeeds ==
    ASSUME NEW Depth, NEW Quiet, DepthsFit(Depth, Quiet), IInv, NEW step, AtStep(step)
    PROVE  /\ CallsOK(calls, stack) /\ CallOK(Advanced(top.with), stack)
           /\ top.fn \in Functions /\ Room[stack] \in Nat
           /\ Need(top, Depth, Quiet) = Depth[top.fn] /\ Depth[top.fn] \in Nat
           /\ Need(Advanced(top.with), Depth, Quiet) = Depth[top.fn]
           /\ step = "log" => Frame["log_log"] + Depth["log_log"] <= Depth[top.fn]
           /\ step \in Functions \ Handler => Frame[step] + Depth[step] <= Depth[top.fn]
           /\ step = "ret" => 8 + Depth["kmain"] <= Depth[top.fn]
<1>1. /\ CallsOK(calls, stack) /\ CallOK(Advanced(top.with), stack)
      /\ top.fn \in Functions /\ Room[stack] \in Nat
      /\ top.next \in 1 .. Len(Body[top.fn]) /\ step \in Body[top.fn][top.next]
  BY RunningCalls, AtStepIs, RoomType
<1>2. Advanced(top.with).fn = top.fn
  BY DEF Advanced
<1>3. /\ Need(top, Depth, Quiet) = Depth[top.fn] /\ Depth[top.fn] \in Nat
      /\ Need(Advanced(top.with), Depth, Quiet) = Depth[top.fn]
  <2> DEFINE c == Advanced(top.with)
  <2>1. c.fn = top.fn
    BY <1>2
  <2> HIDE DEF c
  <2>2. Need(c, Depth, Quiet) = Depth[top.fn]
    BY <1>1, <2>1, NeedIs
  <2> QED
    BY <1>1, <2>2, NeedIs DEF c
<1>4. DOMAIN Body = Functions
  BY Bodies
<1>5. /\ step = "log" => Frame["log_log"] + Depth["log_log"] <= Depth[top.fn]
      /\ step \in Functions \ Handler => Frame[step] + Depth[step] <= Depth[top.fn]
      /\ step = "ret" => 8 + Depth["kmain"] <= Depth[top.fn]
  BY <1>1, <1>4 DEF DepthsFit
<1> QED
  BY <1>1, <1>3, <1>5

\* A step of Body that starts a function leaves it what it needs.
LEMMA BodyCallsRoom ==
    ASSUME NEW Depth, NEW Quiet, DepthsFit(Depth, Quiet), IInv, RoomInv(Depth, Quiet), IInv',
           NEW step, AtStep(step), NEW fn \in Functions \cup LogFunctions, NEW with,
           Frame[fn] + Depth[fn] <= Depth[top.fn],
           calls' = Append(Onward(top.with), Entered(fn, top.low, with)),
           UNCHANGED <<stack, below>>
    PROVE  RoomInv(Depth, Quiet)'
<1> DEFINE call == Entered(fn, top.low, with)
<1>1. /\ CallsOK(calls, stack) /\ CallOK(Advanced(top.with), stack) /\ Room[stack] \in Nat
      /\ Need(top, Depth, Quiet) = Depth[top.fn] /\ Depth[top.fn] \in Nat
      /\ Need(Advanced(top.with), Depth, Quiet) = Depth[top.fn]
  BY BodyNeeds
<1>2. CallOK(call, stack)
  <2> DEFINE before == Onward(top.with)
  <2>1. before \in Seq(CallRecord) /\ Len(before) \in Nat
    BY <1>1, OnwardIs, LenProperties
  <2>2. calls' = Append(before, call)
    OBVIOUS
  <2> HIDE DEF before, call
  <2>3. Len(calls') = Len(before) + 1 /\ calls'[Len(before) + 1] = call
    BY <2>1, <2>2, SMT
  <2>4. CallsOK(calls', stack)
    <3>1. CallsOK(calls', stack')
      BY DEF IInv, Settled
    <3> QED
      BY <3>1
  <2> QED
    BY <2>1, <2>3, <2>4, SMT DEF CallsOK
<1>3. call.fn = fn /\ Frame[fn] \in Nat
  BY Sizes DEF Entered
<1>4. /\ Need(call, Depth, Quiet) \in Nat
      /\ Frame[fn] + Need(call, Depth, Quiet) <= Need(top, Depth, Quiet)
  <2> DEFINE need == Need(call, Depth, Quiet)
  <2> HIDE DEF call
  <2>1. need \in Nat /\ need <= Depth[fn] /\ Depth[fn] \in Nat
    BY <1>3, NeedIs
  <2> HIDE DEF need
  <2>2. Frame[fn] + need <= Need(top, Depth, Quiet)
    BY <1>1, <1>3, <2>1, SMT
  <2> QED
    BY <2>1, <2>2 DEF need
<1>5. Need(Advanced(top.with), Depth, Quiet) <= Need(top, Depth, Quiet)
  BY <1>1, SMT
<1>6. Fit(calls', stack, Depth, Quiet)
  BY <1>1, <1>2, <1>4, <1>5, FitCalls DEF RoomInv
<1> QED
  BY <1>6, RoomSameStack

LEMMA LogRoom ==
    ASSUME NEW Depth, NEW Quiet, DepthsFit(Depth, Quiet), IInv, RoomInv(Depth, Quiet), Log
    PROVE  RoomInv(Depth, Quiet)'
<1>1. AtStep("log") /\ UNCHANGED <<stack, below>>
  BY DEF Log
<1>2. PICK format \in Format : Call("log_log", format)
  BY DEF Log
<1>3. calls' = Append(Onward(top.with), Entered("log_log", top.low, format))
  BY <1>2 DEF Call, CallWith
<1>4. Frame["log_log"] + Depth["log_log"] <= Depth[top.fn]
  BY <1>1, BodyNeeds
<1>5. "log_log" \in Functions \cup LogFunctions
  BY DEF LogFunctions
<1> QED
  BY <1>1, <1>3, <1>4, <1>5, LogStep, BodyCallsRoom

LEMMA CallFunctionRoom ==
    ASSUME NEW Depth, NEW Quiet, DepthsFit(Depth, Quiet), IInv, RoomInv(Depth, Quiet),
           CallFunction
    PROVE  RoomInv(Depth, Quiet)'
<1>1. UNCHANGED <<stack, below>>
  BY DEF CallFunction
<1>2. PICK fn \in Functions \ Handler : AtStep(fn) /\ Call(fn, <<>>)
  BY Bodies DEF CallFunction
<1>3. calls' = Append(Onward(top.with), Entered(fn, top.low, <<>>))
  BY <1>2 DEF Call, CallWith
<1>4. Frame[fn] + Depth[fn] <= Depth[top.fn]
  BY <1>2, BodyNeeds
<1> QED
  BY <1>1, <1>2, <1>3, <1>4, CallFunctionStep, BodyCallsRoom

LEMMA CallHandlerRoom ==
    ASSUME NEW Depth, NEW Quiet, DepthsFit(Depth, Quiet), IInv, RoomInv(Depth, Quiet),
           CallHandler
    PROVE  RoomInv(Depth, Quiet)'
<1> DEFINE fn == top.with
<1>1. AtStep("handler") /\ UNCHANGED <<stack, below>>
  BY DEF CallHandler
<1>2. calls' = Append(Onward(top.with), Entered(fn, top.low, <<>>))
  BY DEF CallHandler, Call, CallWith
<1>3. top.fn = "vmexit_handler" /\ CallOK(top, stack)
  BY <1>1, RunningCalls, AtStepIs, TopIs DEF LeadsTo
<1>4. fn \in Handler
  BY <1>3 DEF CallOK, LocalsOf
<1>5. Frame[fn] + Depth[fn] <= Depth[top.fn]
  BY <1>3, <1>4 DEF DepthsFit
<1>6. fn \in Functions \cup LogFunctions
  BY <1>4 DEF Functions, ExitFunctions
<1> QED
  BY <1>1, <1>2, <1>5, <1>6, CallHandlerStep, BodyCallsRoom

LEMMA SkipRoom ==
    ASSUME NEW Depth, NEW Quiet, DepthsFit(Depth, Quiet), IInv, RoomInv(Depth, Quiet), Skip
    PROVE  RoomInv(Depth, Quiet)'
<1>1. AtStep("skip") /\ calls' = Onward(top.with) /\ UNCHANGED <<stack, below>>
  BY DEF Skip
<1>2. Fit(Onward(top.with), stack, Depth, Quiet)
  BY <1>1, BodyNeeds, FitGoes DEF RoomInv
<1> QED
  BY <1>1, <1>2, RoomSameStack

LEMMA FunctionReturnRoom ==
    ASSUME NEW Depth, NEW Quiet, DepthsFit(Depth, Quiet), IInv, RoomInv(Depth, Quiet),
           FunctionReturn
    PROVE  RoomInv(Depth, Quiet)'
<1>1. Len(calls) > 1 /\ calls' = SubSeq(calls, 1, Len(calls) - 1) /\ UNCHANGED <<stack, below>>
  BY DEF FunctionReturn, Return
<1>2. Fit(calls', stack, Depth, Quiet)
  BY <1>1, RunningCalls, FitReturns DEF RoomInv
<1> QED
  BY <1>1, <1>2, RoomSameStack

\* Those that change stacks start one with room, or take one back as it was.
LEMMA VmlaunchRoom ==
    ASSUME NEW Depth, NEW Quiet, DepthsFit(Depth, Quiet), IInv, RoomInv(Depth, Quiet), Vmlaunch
    PROVE  RoomInv(Depth, Quiet)'
<1>1. stack' = "guest" /\ below' = below /\ calls' = <<Entered("kmain", 0, <<>>)>>
  BY DEF Vmlaunch
<1>2. "kmain" \in Functions /\ "guest" \in DOMAIN Room
  BY RunsAre, SMT DEF GuestFunctions, Functions
<1>3. Frame["kmain"] + Depth["kmain"] <= Room["guest"]
  BY DEF DepthsFit
<1>4. Fit(calls', "guest", Depth, Quiet)
  BY <1>1, <1>2, <1>3, FitStarts
<1> QED
  BY <1>1, <1>4 DEF RoomInv, Fit, Need

\* A stack left for another keeps its room.
LEMMA LeaveRoom ==
    ASSUME NEW Depth, NEW Quiet, DepthsFit(Depth, Quiet), IInv, RoomInv(Depth, Quiet),
           NEW step, AtStep(step), Leave
    PROVE  \A i \in 1 .. Len(below') : Fit(below'[i].calls, below'[i].stack, Depth, Quiet)
<1> DEFINE left == [stack |-> stack, calls |-> Onward(top.with)]
<1>1. below' = Append(below, left) /\ below \in Seq(Left)
  BY DEF Leave, IInv
<1>2. Fit(Onward(top.with), stack, Depth, Quiet)
  BY BodyNeeds, FitGoes DEF RoomInv
<1>3. left.stack = stack /\ left.calls = Onward(top.with)
  OBVIOUS
<1> HIDE DEF left
<1>4. /\ Len(below') = Len(below) + 1 /\ below'[Len(below) + 1] = left /\ Len(below) \in Nat
      /\ \A i \in 1 .. Len(below) : below'[i] = below[i]
  BY <1>1, LenProperties, SMT
<1>5. \A i \in 1 .. Len(below) : Fit(below[i].calls, below[i].stack, Depth, Quiet)
  BY DEF RoomInv
<1> HIDE DEF Fit
<1>6. Fit(left.calls, left.stack, Depth, Quiet)
  BY <1>2, <1>3
<1> QED
  BY <1>4, <1>5, <1>6, SMT

LEMMA VmExitRoom ==
    ASSUME NEW Depth, NEW Quiet, DepthsFit(Depth, Quiet), IInv, RoomInv(Depth, Quiet), VmExit
    PROVE  RoomInv(Depth, Quiet)'
<1>1. stack' = "host" /\ Leave
  BY DEF VmExit
<1>2. PICK handler \in Handler :
        AtStep(handler) /\ calls' = <<Entered("vmexit_handler", 0, handler)>>
  BY DEF VmExit
<1>3. "vmexit_handler" \in Functions /\ "host" \in DOMAIN Room
  BY RunsAre, SMT DEF ExitFunctions, Functions
<1>4. Frame["vmexit_handler"] + Depth["vmexit_handler"] <= Room["host"]
  BY DEF DepthsFit
<1>5. Fit(calls', "host", Depth, Quiet)
  BY <1>2, <1>3, <1>4, FitStarts
<1>6. \A i \in 1 .. Len(below') : Fit(below'[i].calls, below'[i].stack, Depth, Quiet)
  BY <1>1, <1>2, LeaveRoom
<1> QED
  BY <1>1, <1>5, <1>6 DEF RoomInv, Fit, Need

LEMMA SysenterRoom ==
    ASSUME NEW Depth, NEW Quiet, DepthsFit(Depth, Quiet), IInv, RoomInv(Depth, Quiet), Sysenter
    PROVE  RoomInv(Depth, Quiet)'
<1>1. AtStep("sysenter") /\ stack' = "kernel_stack" /\ Leave
  BY DEF Sysenter
<1>2. PICK fn \in SysenterFunctions : calls' = <<Entered(fn, 0, <<>>)>>
  BY DEF Sysenter, SysenterFunctions
<1>3. fn \in Functions /\ "kernel_stack" \in DOMAIN Room
  BY <1>2, RunsAre, SMT DEF GuestFunctions, Functions
<1>4. Frame[fn] + Depth[fn] <= Room["kernel_stack"]
  BY <1>2 DEF DepthsFit, SysenterFunctions
<1>5. Fit(calls', "kernel_stack", Depth, Quiet)
  BY <1>2, <1>3, <1>4, FitStarts
<1>6. \A i \in 1 .. Len(below') : Fit(below'[i].calls, below'[i].stack, Depth, Quiet)
  BY <1>1, LeaveRoom
<1> QED
  BY <1>1, <1>5, <1>6 DEF RoomInv, Fit, Need

LEMMA VmresumeRoom ==
    ASSUME NEW Depth, NEW Quiet, DepthsFit(Depth, Quiet), IInv, RoomInv(Depth, Quiet), Vmresume
    PROVE  RoomInv(Depth, Quiet)'
<1>1. /\ stack = "host" /\ stack' = Last(below).stack /\ calls' = Last(below).calls
      /\ below' = Front(below)
  BY DEF Vmresume
<1>2. below \in Seq(Left) /\ below # <<>>
  BY <1>1 DEF IInv
<1>3. /\ Len(below) \in Nat \ {0} /\ Last(below) = below[Len(below)]
      /\ \A i \in 1 .. Len(below) : below[i] \in Left
  BY <1>2, EmptySeq, ElementOfSeq DEF Last
<1>4. \A i \in 1 .. Len(below) : Fit(below[i].calls, below[i].stack, Depth, Quiet)
  BY DEF RoomInv
<1>5. Len(below') = Len(below) - 1 /\ \A i \in 1 .. Len(below') : below'[i] = below[i]
  <2> DEFINE n == Len(below) - 1
  <2>1. n \in Nat /\ n = Len(below) - 1 /\ below' = SubSeq(below, 1, n)
        /\ \A i \in 1 .. n : below[i] \in Left
    BY <1>1, <1>3, SMT DEF Front
  <2> HIDE DEF n
  <2>2. Len(below') = n /\ \A i \in 1 .. n : below'[i] = below[i]
    BY <2>1, SubSeqProperties, SMT
  <2> QED
    BY <2>1, <2>2
<1>6. Fit(calls', stack', Depth, Quiet)
  <2>1. Fit(below[Len(below)].calls, below[Len(below)].stack, Depth, Quiet)
    BY <1>3, <1>4, SMT
  <2> QED
    BY <1>1, <1>3, <2>1
<1>7. \A i \in 1 .. Len(below') : Fit(below'[i].calls, below'[i].stack, Depth, Quiet)
  BY <1>3, <1>4, <1>5, SMT
<1> QED
  BY <1>6, <1>7 DEF RoomInv, Fit, Need

LEMMA SysenterRetRoom ==
    ASSUME NEW Depth, NEW Quiet, DepthsFit(Depth, Quiet), IInv, RoomInv(Depth, Quiet),
           SysenterRet
    PROVE  RoomInv(Depth, Quiet)'
<1> DEFINE waiting == Last(Last(below).calls)
           call == [waiting EXCEPT !.low = top.low + 8]
           before == Onward(<<>>)
<1>1. /\ AtStep("ret") /\ stack' = stack /\ below' = Front(below)
      /\ calls' = Append(before, call)
  BY DEF SysenterRet
<1>2. /\ CallsOK(calls, stack) /\ CallOK(top, stack)
      /\ top.fn = "sysenter_handler" /\ top.low \in Nat /\ Len(calls) \in Nat \ {0}
      /\ top.fn \in Runs(stack) /\ top.next = 2
  BY <1>1, RunningCalls, AtStepIs, TopIs DEF LeadsTo
<1>3. below # <<>> /\ Waiting(below) /\ below \in Seq(Left)
  <2>1. PendingCall(calls[Len(calls)]) /\ Pending(calls)
    BY <1>2, SMT DEF Pending, PendingCall, top, SysenterFunctions
  <2>2. stack # "host"
    BY <1>2, RunsAre, SMT DEF LogFunctions, ExitFunctions, Handler
  <2> QED
    BY <2>1, <2>2 DEF IInv, Settled
<1>4. below' = <<>> /\ Last(below) = below[1]
  BY <1>1, <1>3, SubSeqEmpty, SMT DEF Last, Front, Waiting
<1>5. waiting \in CallRecord /\ waiting.fn = "kmain"
  <2> DEFINE cs == below[1].calls
  <2>1. CallsOK(cs, "guest") /\ Last(cs).fn = "kmain"
    BY <1>3 DEF Waiting
  <2> HIDE DEF cs
  <2>2. Len(cs) \in Nat \ {0} /\ Last(cs) = cs[Len(cs)] /\ cs \in Seq(CallRecord)
    BY <2>1, EmptySeq DEF CallsOK, Last
  <2>3. Last(cs) \in CallRecord
    BY <2>2, ElementOfSeq, SMT
  <2>4. waiting = Last(cs)
    BY <1>4 DEF cs
  <2> QED
    BY <2>1, <2>3, <2>4
<1> HIDE DEF waiting
<1>6. call \in CallRecord /\ call.fn = "kmain" /\ call.low = top.low + 8
  BY <1>2, <1>5, SMT DEF CallRecord
<1> HIDE DEF call
<1>7. top.with = <<>>
  BY <1>2, SMT DEF CallOK, LocalsOf
<1>8. /\ Room[stack] \in Nat /\ top.fn \in Functions
      /\ Need(top, Depth, Quiet) = Depth[top.fn] /\ Depth[top.fn] \in Nat
      /\ 8 + Depth["kmain"] <= Depth[top.fn]
  BY <1>1, BodyNeeds
<1>9. before \in Seq(CallRecord) /\ Fit(before, stack, Depth, Quiet)
  <2>1. /\ CallOK(Advanced(top.with), stack)
        /\ Need(Advanced(top.with), Depth, Quiet) = Depth[top.fn]
    BY <1>1, BodyNeeds
  <2>2. Need(Advanced(top.with), Depth, Quiet) <= Need(top, Depth, Quiet)
    BY <1>8, <2>1, SMT
  <2>3. Fit(Onward(top.with), stack, Depth, Quiet) /\ Onward(top.with) \in Seq(CallRecord)
    BY <1>2, <1>8, <2>1, <2>2, FitGoes, OnwardIs DEF RoomInv
  <2> QED
    BY <1>7, <2>3
<1>10. call.low + Need(call, Depth, Quiet) <= Room[stack]
  <2>1. "kmain" \in Functions
    BY DEF GuestFunctions, Functions
  <2>2. Need(call, Depth, Quiet) = Depth["kmain"] /\ Depth["kmain"] \in Nat
    BY <1>6, <2>1, NeedIs
  <2>3. top.low + Need(top, Depth, Quiet) <= Room[stack]
    BY <1>2, SMT DEF RoomInv, Fit, top
  <2> QED
    BY <1>2, <1>6, <1>8, <2>2, <2>3, SMT
<1> HIDE DEF before
<1>11. Fit(calls', stack, Depth, Quiet)
  BY <1>1, <1>6, <1>9, <1>10, FitAppends
<1>12. Len(below') = 0
  BY <1>4, EmptySeq
<1>13. \A i \in 1 .. Len(below') : Fit(below'[i].calls, below'[i].stack, Depth, Quiet)
  BY <1>12, SMT
<1> QED
  BY <1>1, <1>11, <1>13 DEF RoomInv, Fit, Need
-------------------------------------------------------------------------------
\* Logging: what log_log and vsprintf need depends on the format.
LEMMA LoggingDepths ==
    ASSUME NEW Depth, NEW Quiet, DepthsFit(Depth, Quiet)
    PROVE  /\ Frame["sprint_integer"] + Depth["sprint_integer"] <= Quiet["vsprintf"]
           /\ Frame["vsprintf"] + Quiet["vsprintf"] <= Depth["sprintf"]
           /\ Frame["vsprintf"] + Quiet["vsprintf"] <= Quiet["log_log"]
           /\ Frame["sprintf"] + Depth["sprintf"] <= Quiet["log_log"]
           /\ Frame["log_log"] + Quiet["log_log"] <= Depth["vsprintf"]
           /\ Frame["vsprintf"] + Depth["vsprintf"] <= Depth["log_log"]
           /\ Quiet["vsprintf"] <= Depth["vsprintf"] /\ Quiet["log_log"] <= Depth["log_log"]
           /\ Quiet["vsprintf"] \in Nat /\ Quiet["log_log"] \in Nat
           /\ \A fn \in LogFunctions : Frame[fn] \in Nat /\ Depth[fn] \in Nat
<1>1. \A fn \in LogFunctions : Frame[fn] \in Nat /\ Depth[fn] \in Nat
  <2>1. LogFunctions \subseteq DOMAIN Frame
    BY StacksAssumption DEF LogFunctions
  <2> QED
    BY <2>1, PrintingAssumption DEF DepthsFit
<1>2. Quiet \in [{"log_log", "vsprintf"} -> Nat]
      /\ \A fn \in DOMAIN Quiet : Leaf[fn] <= Quiet[fn] /\ Quiet[fn] <= Depth[fn]
  BY DEF DepthsFit
<1>3. /\ Quiet["vsprintf"] <= Depth["vsprintf"] /\ Quiet["log_log"] <= Depth["log_log"]
      /\ Quiet["vsprintf"] \in Nat /\ Quiet["log_log"] \in Nat
  BY <1>2, SMT
<1> QED
  BY <1>1, <1>3 DEF DepthsFit

\* A logging function that starts another leaves it what it needs.
LEMMA LogCallsRoom ==
    ASSUME NEW Depth, NEW Quiet, DepthsFit(Depth, Quiet), IInv, RoomInv(Depth, Quiet),
           UNCHANGED <<stack, below>>, top.fn \in LogFunctions,
           NEW locals, CallOK(Advanced(locals), stack),
           Need(Advanced(locals), Depth, Quiet) <= Need(top, Depth, Quiet),
           NEW fn \in LogFunctions, NEW with \in LocalsOf(fn),
           fn = "vsprintf" => Len(with.format) <= LongestFormat,
           Frame[fn] + Need([fn |-> fn, next |-> 1, low |-> top.low + Frame[fn], with |-> with],
                            Depth, Quiet)
             <= Need(top, Depth, Quiet),
           Numbers(Entered(fn, top.low, with)), CallWith(locals, fn, with)
    PROVE  RoomInv(Depth, Quiet)'
<1> DEFINE call == Entered(fn, top.low, with)
<1>1. /\ CallsOK(calls, stack) /\ Room[stack] \in Nat
      /\ fn \in Runs(stack) /\ fn \in Functions \cup LogFunctions /\ fn # "kmain"
  BY RunningCalls, RoomType, RunsAre, SMT DEF LogFunctions
<1>2. CallOK(call, stack)
  BY <1>1, EnteredOK
<1>3. call = [fn |-> fn, next |-> 1, low |-> top.low + Frame[fn], with |-> with]
  BY DEF Entered
<1>4. calls' = Append(Onward(locals), call)
  BY DEF CallWith
<1>5. /\ Need(top, Depth, Quiet) \in Nat
      /\ Need(Advanced(locals), Depth, Quiet) \in Nat
      /\ Need(call, Depth, Quiet) \in Nat
  <2>1. Need(top, Depth, Quiet) \in Nat
    BY NeedIs
  <2>2. Need(Advanced(locals), Depth, Quiet) \in Nat
    <3> DEFINE c == Advanced(locals)
    <3>1. c.fn = top.fn
      BY DEF Advanced
    <3> HIDE DEF c
    <3>2. Need(c, Depth, Quiet) \in Nat
      BY <3>1, NeedIs
    <3> QED
      BY <3>2 DEF c
  <2>3. Need(call, Depth, Quiet) \in Nat
    <3>1. call.fn = fn
      BY <1>3
    <3> HIDE DEF call
    <3> QED
      BY <1>1, <3>1, NeedIs
  <2> QED
    BY <2>1, <2>2, <2>3
<1>6. Frame[fn] + Need(call, Depth, Quiet) <= Need(top, Depth, Quiet)
  BY <1>3
<1>7. Fit(calls', stack, Depth, Quiet)
  BY <1>1, <1>2, <1>4, <1>5, <1>6, FitCalls DEF RoomInv
<1> QED
  BY <1>7, RoomSameStack

LEMMA LogReturnsRoom ==
    ASSUME NEW Depth, NEW Quiet, IInv, RoomInv(Depth, Quiet), UNCHANGED <<stack, below>>,
           top.fn \in LogFunctions, Return
    PROVE  RoomInv(Depth, Quiet)'
<1>1. CallsOK(calls, stack) /\ Len(calls) \in Nat \ {0}
  BY RunningCalls, TopIs
<1>2. calls[1].fn \in Functions /\ calls[Len(calls)].fn \notin Functions
  BY <1>1, Sizes DEF CallsOK, top
<1>3. Len(calls) > 1
  BY <1>1, <1>2, SMT
<1>4. Fit(calls', stack, Depth, Quiet)
  BY <1>1, <1>3, FitReturns DEF Return, RoomInv
<1> QED
  BY <1>4, RoomSameStack

LEMMA LogLogRoom ==
    ASSUME NEW Depth, NEW Quiet, DepthsFit(Depth, Quiet), IInv, RoomInv(Depth, Quiet),
           UNCHANGED <<stack, below>>, log_log
    PROVE  RoomInv(Depth, Quiet)'
<1>1. top.fn = "log_log" /\ top.fn \in LogFunctions /\ Steps(top.fn) = 2
  BY Sizes DEF log_log, LogFunctions
<1>2. CallOK(top, stack) /\ top.with \in Format \cup {<<>>} /\ top.with \in LocalsOf("log_log")
  BY <1>1, RunningCalls, TopIs DEF CallOK, LocalsOf
<1>3. /\ Need(top, Depth, Quiet) = IF Loud(top.with) THEN Depth["log_log"] ELSE Quiet["log_log"]
      /\ Need(Advanced(top.with), Depth, Quiet) = Need(top, Depth, Quiet)
  BY <1>1 DEF Need, Advanced
<1>4. Need(Advanced(top.with), Depth, Quiet) <= Need(top, Depth, Quiet)
  BY <1>3, LoggingDepths, NeedIs, <1>1, SMT
<1>5. CASE top.next = 1 /\ Call("vsprintf", [format |-> top.with, is_unsigned |-> FALSE])
  <2> DEFINE with == [format |-> top.with, is_unsigned |-> FALSE]
             call == [fn |-> "vsprintf", next |-> 1, low |-> top.low + Frame["vsprintf"], with |-> with]
  <2>1. with \in LocalsOf("vsprintf") /\ Len(with.format) <= LongestFormat
    BY <1>2, FormatIs DEF LocalsOf
  <2>2. CallOK(Advanced(top.with), stack)
    BY <1>1, <1>5, LogAdvancesOn, SMT
  <2>3. CallWith(top.with, "vsprintf", with) /\ "vsprintf" \in LogFunctions
    BY <1>5 DEF Call, LogFunctions
  <2>4. Need(call, Depth, Quiet)
          = IF Loud(top.with) THEN Depth["vsprintf"] ELSE Quiet["vsprintf"]
    BY DEF Need
  <2>5. Frame["vsprintf"] + Need(call, Depth, Quiet) <= Need(top, Depth, Quiet)
    BY <1>3, <2>4, LoggingDepths
  <2>6. Numbers(Entered("vsprintf", top.low, with))
    BY <1>2, NewFormat
  <2> HIDE DEF with
  <2> QED
    BY <1>1, <1>4, <2>1, <2>2, <2>3, <2>5, <2>6, LogCallsRoom
<1>6. CASE top.next = 2 /\ Call("sprintf", <<>>)
  <2> DEFINE call == [fn |-> "sprintf", next |-> 1, low |-> top.low + Frame["sprintf"], with |-> <<>>]
  <2>1. <<>> \in LocalsOf("sprintf") /\ "sprintf" \in LogFunctions
    BY SMT DEF LocalsOf, LogFunctions
  <2>2. CallOK(Advanced(top.with), stack)
    BY <1>1, <1>6, LogAdvancesOn, SMT
  <2>3. CallWith(top.with, "sprintf", <<>>)
    BY <1>6 DEF Call
  <2>4. Need(call, Depth, Quiet) = Depth["sprintf"]
    BY DEF Need
  <2>5. Frame["sprintf"] + Need(call, Depth, Quiet) <= Need(top, Depth, Quiet)
    <3>1. Quiet["log_log"] <= Need(top, Depth, Quiet)
      BY <1>3, LoggingDepths, SMT
    <3>2. Frame["sprintf"] + Depth["sprintf"] <= Quiet["log_log"]
          /\ Quiet["log_log"] \in Nat /\ Frame["sprintf"] \in Nat /\ Depth["sprintf"] \in Nat
      BY <2>1, LoggingDepths
    <3>3. Need(top, Depth, Quiet) \in Nat
      BY <1>1, NeedIs
    <3> QED
      BY <2>4, <3>1, <3>2, <3>3, SMT
  <2> QED
    BY <1>1, <1>4, <2>1, <2>2, <2>3, <2>5, EnteredNumbers, LogCallsRoom
<1>7. CASE top.next = 3 /\ Return
  BY <1>1, <1>7, LogReturnsRoom
<1> QED
  BY <1>5, <1>6, <1>7 DEF log_log

LEMMA SprintfRoom ==
    ASSUME NEW Depth, NEW Quiet, DepthsFit(Depth, Quiet), IInv, RoomInv(Depth, Quiet),
           UNCHANGED <<stack, below>>, sprintf
    PROVE  RoomInv(Depth, Quiet)'
<1> DEFINE format == <<"s", "s", "d", "s">>
           with == [format |-> format, is_unsigned |-> FALSE]
           call == [fn |-> "vsprintf", next |-> 1, low |-> top.low + Frame["vsprintf"], with |-> with]
<1>1. top.fn = "sprintf" /\ top.fn \in LogFunctions /\ Steps(top.fn) = 1
  BY Sizes DEF sprintf, LogFunctions
<1>2. CallOK(top, stack) /\ top.with \in LocalsOf("sprintf")
  BY <1>1, RunningCalls, TopIs DEF CallOK
<1>3. /\ Need(top, Depth, Quiet) = Depth["sprintf"] /\ Depth["sprintf"] \in Nat
      /\ Need(Advanced(top.with), Depth, Quiet) = Depth["sprintf"]
  BY <1>1, LoggingDepths DEF Need, Advanced
<1>4. CASE top.next = 1 /\ Call("vsprintf", with)
  <2>1. format \in Seq(Conversion) /\ Len(format) = 4 /\ ~Loud(format)
    BY SMT DEF Conversion, Loud
  <2>8. Numbers(Entered("vsprintf", top.low, with))
    BY NewFormat
  <2> HIDE DEF format
  <2>2. with \in LocalsOf("vsprintf") /\ Len(with.format) <= LongestFormat
    BY <2>1, StacksAssumption DEF LocalsOf
  <2>3. CallOK(Advanced(top.with), stack)
    BY <1>1, <1>4, LogAdvancesOn, SMT
  <2>4. CallWith(top.with, "vsprintf", with) /\ "vsprintf" \in LogFunctions
    BY <1>4 DEF Call, LogFunctions
  <2>5. Need(call, Depth, Quiet) = Quiet["vsprintf"]
    BY <2>1 DEF Need
  <2>6. Frame["vsprintf"] + Need(call, Depth, Quiet) <= Need(top, Depth, Quiet)
    BY <1>3, <2>5, LoggingDepths
  <2>7. Need(Advanced(top.with), Depth, Quiet) <= Need(top, Depth, Quiet)
    BY <1>3, SMT
  <2> HIDE DEF with
  <2> QED
    BY <1>1, <2>2, <2>3, <2>4, <2>6, <2>7, <2>8, LogCallsRoom
<1>5. CASE top.next = 2 /\ Return
  BY <1>1, <1>5, LogReturnsRoom
<1> QED
  BY <1>4, <1>5 DEF sprintf

LEMMA VsprintfRoom ==
    ASSUME NEW Depth, NEW Quiet, DepthsFit(Depth, Quiet), IInv, RoomInv(Depth, Quiet),
           UNCHANGED <<stack, below>>, vsprintf
    PROVE  RoomInv(Depth, Quiet)'
<1> DEFINE format == top.with.format
           is_unsigned == top.with.is_unsigned \/ (format # <<>> /\ Head(format) \in {"u", "U"})
           rest == [format |-> Tail(format), is_unsigned |-> is_unsigned]
<1>1. top.fn = "vsprintf" /\ top.fn \in LogFunctions
  BY DEF vsprintf, LogFunctions
<1>2. format \in Seq(Conversion) /\ is_unsigned \in BOOLEAN
  <2>1. CallOK(top, stack)
    BY RunningCalls, TopIs
  <2>2. top.with \in [format : Seq(Conversion), is_unsigned : BOOLEAN]
    BY <1>1, <2>1, SMT DEF CallOK, LocalsOf
  <2> QED
    BY <2>2, SMT
<1>3. CASE format = <<>> /\ Return
  BY <1>1, <1>3, LogReturnsRoom
<1>4. /\ Need(top, Depth, Quiet) = IF Loud(format) THEN Depth["vsprintf"] ELSE Quiet["vsprintf"]
      /\ Need(Advanced(rest), Depth, Quiet)
           = IF Loud(Tail(format)) THEN Depth["vsprintf"] ELSE Quiet["vsprintf"]
  BY <1>1 DEF Need, Advanced
<1>5. /\ Quiet["vsprintf"] <= Need(top, Depth, Quiet) /\ Need(top, Depth, Quiet) \in Nat
      /\ Quiet["vsprintf"] \in Nat /\ Depth["vsprintf"] \in Nat
      /\ Quiet["vsprintf"] <= Depth["vsprintf"]
  <2>1. /\ Quiet["vsprintf"] \in Nat /\ Quiet["vsprintf"] <= Depth["vsprintf"]
        /\ Depth["vsprintf"] \in Nat
    BY LoggingDepths DEF LogFunctions
  <2> QED
    BY <1>4, <2>1, SMT
<1>6. ASSUME format # <<>>
      PROVE  /\ CallOK(Advanced(rest), stack)
             /\ Need(Advanced(rest), Depth, Quiet) <= Need(top, Depth, Quiet)
             /\ Head(format) \in DOMAIN Base =>
                  \A argument :
                    Numbers(Entered("sprint_integer", top.low,
                                    [letter |-> Head(format), argument |-> argument,
                                     number |-> va_arg(argument), is_unsigned |-> is_unsigned,
                                     text |-> <<>>]))
  <2>1. /\ Tail(format) \in Seq(Conversion) /\ Len(Tail(format)) = Len(format) - 1
        /\ Len(format) \in Nat \ {0}
        /\ \A i \in 1 .. Len(Tail(format)) : Tail(format)[i] = format[i + 1]
    BY <1>2, <1>6, HeadTailProperties, EmptySeq
  <2>2. Loud(Tail(format)) => Loud(format)
    <3> SUFFICES ASSUME NEW i \in 1 .. Len(Tail(format)), Tail(format)[i] \in {"c", "unknown"}
                 PROVE  Loud(format)
      BY DEF Loud
    <3>1. i + 1 \in 1 .. Len(format) /\ format[i + 1] \in {"c", "unknown"}
      BY <2>1, SMT
    <3> QED
      BY <3>1 DEF Loud
  <2>3. Need(Advanced(rest), Depth, Quiet) <= Need(top, Depth, Quiet)
    BY <1>4, <1>5, <2>2, SMT
  <2> QED
    BY <1>1, <1>6, <2>3, VsprintfGoesOn
<1> HIDE DEF rest
<1>7. CASE format # <<>> /\ Head(format) = "s" /\ calls' = Onward(rest)
  <2>1. CallsOK(calls, stack) /\ Room[stack] \in Nat
    BY RunningCalls, RoomType
  <2>2. Need(Advanced(rest), Depth, Quiet) \in Nat
    BY <1>4, <1>5
  <2>3. Fit(calls', stack, Depth, Quiet)
    BY <1>5, <1>6, <1>7, <2>1, <2>2, FitGoes DEF RoomInv
  <2> QED
    BY <2>3, RoomSameStack
<1>8. CASE format # <<>> /\ Head(format) \in {"c", "unknown"} /\ CallWith(rest, "log_log", Logged)
  <2> DEFINE call == [fn |-> "log_log", next |-> 1, low |-> top.low + Frame["log_log"], with |-> Logged]
  <2>1. Logged \in LocalsOf("log_log") /\ "log_log" \in LogFunctions /\ ~Loud(Logged)
    BY SMT DEF Logged, LocalsOf, LogFunctions, Loud
  <2>2. Loud(format)
    <3>1. Len(format) \in Nat \ {0} /\ Head(format) = format[1]
      BY <1>2, <1>8, EmptySeq
    <3>2. 1 \in 1 .. Len(format) /\ format[1] \in {"c", "unknown"}
      BY <1>8, <3>1, SMT
    <3> QED
      BY <3>2 DEF Loud
  <2>3. Need(call, Depth, Quiet) = Quiet["log_log"]
    BY <2>1 DEF Need
  <2>4. Frame["log_log"] + Need(call, Depth, Quiet) <= Need(top, Depth, Quiet)
    BY <1>4, <2>2, <2>3, LoggingDepths
  <2> QED
    BY <1>1, <1>6, <1>8, <2>1, <2>4, EnteredNumbers, LogCallsRoom
<1>9. ASSUME format # <<>>, Head(format) \in DOMAIN Base, NEW argument \in Argument,
             CallWith(rest, "sprint_integer",
                      [letter |-> Head(format), argument |-> argument,
                       number |-> va_arg(argument), is_unsigned |-> is_unsigned,
                       text |-> <<>>])
      PROVE  RoomInv(Depth, Quiet)'
  <2> DEFINE with == [letter |-> Head(format), argument |-> argument,
                      number |-> va_arg(argument), is_unsigned |-> is_unsigned,
                      text |-> <<>>]
             call == [fn |-> "sprint_integer", next |-> 1,
                      low |-> top.low + Frame["sprint_integer"], with |-> with]
  <2>1. with \in LocalsOf("sprint_integer") /\ "sprint_integer" \in LogFunctions
    <3>1. va_arg(argument) \in int
      BY PrintingAssumption, VaArg
    <3> QED
      BY <1>2, <1>9, <3>1, SMT DEF LocalsOf, LogFunctions, Texts
  <2>2. CallWith(rest, "sprint_integer", with)
    BY <1>9
  <2>5. Numbers(Entered("sprint_integer", top.low, with))
    BY <1>6, <1>9
  <2> HIDE DEF with
  <2>3. Need(call, Depth, Quiet) = Depth["sprint_integer"]
    BY DEF Need
  <2>4. Frame["sprint_integer"] + Need(call, Depth, Quiet) <= Need(top, Depth, Quiet)
    <3>1. /\ Frame["sprint_integer"] + Depth["sprint_integer"] <= Quiet["vsprintf"]
          /\ Frame["sprint_integer"] \in Nat /\ Depth["sprint_integer"] \in Nat
      BY <2>1, LoggingDepths
    <3> QED
      BY <1>5, <2>3, <3>1, SMT
  <2> QED
    BY <1>1, <1>6, <1>9, <2>1, <2>2, <2>4, <2>5, LogCallsRoom
<1> QED
  BY <1>3, <1>7, <1>8, <1>9 DEF vsprintf, rest

LEMMA SprintIntegerRoom ==
    ASSUME NEW Depth, NEW Quiet, DepthsFit(Depth, Quiet), IInv, RoomInv(Depth, Quiet),
           UNCHANGED <<stack, below>>, sprint_integer
    PROVE  RoomInv(Depth, Quiet)'
<1>1. top.fn = "sprint_integer" /\ top.fn \in LogFunctions
  BY DEF sprint_integer, LogFunctions
<1>2. CASE top.next = 2 /\ Return
  BY <1>1, <1>2, LogReturnsRoom
<1>3. ASSUME NEW with, calls' = Onward(with) PROVE RoomInv(Depth, Quiet)'
  <2>1. CallsOK(calls, stack) /\ calls[Len(calls)].low = top.low /\ Len(calls) \in Nat \ {0}
        /\ top.low \in Nat /\ Room[stack] \in Nat
    BY RunningCalls, TopIs, RoomType DEF top
  <2>2. /\ Need(top, Depth, Quiet) = Depth["sprint_integer"]
        /\ Need(Advanced(with), Depth, Quiet) = Depth["sprint_integer"]
        /\ Advanced(with).low = top.low
    BY <1>1 DEF Need, Advanced
  <2>3. /\ Len(calls') = Len(calls) /\ calls'[Len(calls)] = Advanced(with)
        /\ \A i \in 1 .. Len(calls) - 1 : calls'[i] = calls[i]
    BY <1>3, <2>1, SMT DEF Onward, CallsOK
  <2>4. top.low + Depth["sprint_integer"] <= Room[stack]
    BY <2>1, <2>2, SMT DEF RoomInv, Fit, top
  <2>5. Fit(calls', stack, Depth, Quiet)
    BY <2>1, <2>2, <2>3, <2>4, SMT DEF RoomInv, Fit
  <2> QED
    BY <2>5, RoomSameStack
<1> QED
  BY <1>2, <1>3 DEF sprint_integer

LEMMA RoomStep ==
    ASSUME NEW Depth, NEW Quiet, DepthsFit(Depth, Quiet), IInv, RoomInv(Depth, Quiet), [Next]_vars
    PROVE  RoomInv(Depth, Quiet)'
<1>1. CASE LogFunction
  BY <1>1, LogLogRoom, SprintfRoom, VsprintfRoom, SprintIntegerRoom DEF LogFunction, PrintingStep
<1>2. CASE Log
  BY <1>2, LogRoom
<1>3. CASE Skip
  BY <1>3, SkipRoom
<1>4. CASE CallFunction
  BY <1>4, CallFunctionRoom
<1>5. CASE CallHandler
  BY <1>5, CallHandlerRoom
<1>6. CASE FunctionReturn
  BY <1>6, FunctionReturnRoom
<1>7. CASE Vmlaunch
  BY <1>7, VmlaunchRoom
<1>8. CASE VmExit
  BY <1>8, VmExitRoom
<1>9. CASE Vmresume
  BY <1>9, VmresumeRoom
<1>10. CASE Sysenter
  BY <1>10, SysenterRoom
<1>11. CASE SysenterRet
  BY <1>11, SysenterRetRoom
<1>12. CASE Stop \/ UNCHANGED vars
  BY <1>12 DEF Stop, vars, RoomInv, Fit, Need
<1> QED
  BY <1>1, <1>2, <1>3, <1>4, <1>5, <1>6, <1>7, <1>8, <1>9, <1>10, <1>11, <1>12 DEF Next

\* When the frames fit the rooms, no stack grows past its room, not even the
\* guest's page under print_a_crab's message, nor kernel_stack, on which kmain
\* goes on after its SYSENTER (src/vmm/vmm.c:188, src/guest/kmain.c:25).
THEOREM RoomIsEnough ==
    ASSUME NEW Depth, NEW Quiet, DepthsFit(Depth, Quiet)
    PROVE  Spec => []StaysInRoom
<1>1. Init => RoomInv(Depth, Quiet)
  <2> SUFFICES ASSUME Init PROVE RoomInv(Depth, Quiet)
    OBVIOUS
  <2>1. /\ calls = <<Entered("initialize_host", 0, <<>>)>> /\ stack = "higher"
        /\ below = <<>> /\ Len(below) = 0
    BY EmptySeq DEF Init
  <2>2. "initialize_host" \in Functions /\ "higher" \in DOMAIN Room
    BY RunsAre, SMT DEF StartFunctions, Functions
  <2>3. Frame["initialize_host"] + Depth["initialize_host"] <= Room["higher"]
    BY DEF DepthsFit
  <2>4. Fit(calls, stack, Depth, Quiet)
    BY <2>1, <2>2, <2>3, FitStarts
  <2>5. \A i \in 1 .. Len(below) : Fit(below[i].calls, below[i].stack, Depth, Quiet)
    BY <2>1, SMT
  <2> QED
    BY <2>4, <2>5 DEF RoomInv
<1>2. IInv /\ RoomInv(Depth, Quiet) /\ [Next]_vars => RoomInv(Depth, Quiet)'
  BY RoomStep
<1>3. IInv /\ RoomInv(Depth, Quiet) => StaysInRoom
  <2> SUFFICES ASSUME IInv, RoomInv(Depth, Quiet) PROVE StaysInRoom
    OBVIOUS
  <2>1. /\ Len(calls) \in Nat \ {0} /\ top.low \in Nat /\ top.fn \in Functions \cup LogFunctions
        /\ Room[stack] \in Nat
    BY RunningCalls, TopIs, RoomType DEF CallRecord
  <2>2. top.low + Need(top, Depth, Quiet) <= Room[stack]
    BY <2>1, SMT DEF RoomInv, Fit, top
  <2>3. Leaf[top.fn] <= Need(top, Depth, Quiet) /\ Leaf[top.fn] \in Nat
        /\ Need(top, Depth, Quiet) \in Nat
    BY <2>1, NeedIs, Sizes
  <2>4. top.low + Leaf[top.fn] <= Room[stack]
    BY <2>1, <2>2, <2>3, SMT
  <2> QED
    BY <2>4 DEF StaysInRoom
<1> QED
  BY <1>1, <1>2, <1>3, Invariance, PTL DEF Spec
-------------------------------------------------------------------------------
Bases == {2, 10, 16}

LEMMA Division ==
    ASSUME NEW base \in Bases, NEW v \in Nat
    PROVE  /\ v \div base \in Nat /\ v % base \in 0 .. base - 1
           /\ v = base * (v \div base) + (v % base)
           /\ \A w \in Nat : v < 2 * w => v \div base < w
  BY SMT DEF Bases

\* The loop of sprint_integer: what it has left after each turn, nothing in the
\* end, and the digits.
LEMMA Loop ==
    ASSUME NEW n, Unsigned(n) \in Nat, Unsigned(n) < TwoTo[WIDTH], NEW base \in Bases
    PROVE  \E value \in [0 .. MAXIMUM_BINARY_LENGTH -> Nat] :
             /\ value[0] = Unsigned(n)
             /\ \A i \in 0 .. MAXIMUM_BINARY_LENGTH - 1 : value[i + 1] = value[i] \div base
             /\ value[MAXIMUM_BINARY_LENGTH] = 0
             /\ number_buffer(n, base)
                  = [i \in 1 .. MAXIMUM_BINARY_LENGTH |-> value[MAXIMUM_BINARY_LENGTH - i] % base]
<1> DEFINE M == MAXIMUM_BINARY_LENGTH
           G == [i \in Nat |-> [v \in Nat |-> v \div base]]
<1>1. G \in [Nat -> [Nat -> Nat]] /\ \A i, m \in Nat : G[i][m] = m \div base
  BY Division
<1>2. PICK f \in [Nat -> Nat] : f[0] = Unsigned(n) /\ \A i \in Nat : f[i + 1] = G[i][f[i]]
  <2> HIDE DEF G
  <2>1. Iterations(Nat, Unsigned(n), G) # {}
    BY <1>1, Recursion
  <2> QED
    BY <2>1 DEF Iterations
<1>3. \A i \in Nat : f[i + 1] = f[i] \div base
  BY <1>1, <1>2
<1>4. M \in Nat /\ WIDTH \in Nat /\ M >= WIDTH
  BY PrintingAssumption
<1> DEFINE Value(value) == value = [i \in 0 .. M |-> IF i = 0 THEN Unsigned(n) ELSE value[i - 1] \div base]
           value == CHOOSE value : Value(value)
<1> HIDE DEF M
<1>5. Value([i \in 0 .. M |-> f[i]])
  <2> DEFINE g == [i \in 0 .. M |-> f[i]]
  <2>1. ASSUME NEW i \in 0 .. M, i # 0 PROVE f[i] = g[i - 1] \div base
    <3>1. i - 1 \in Nat /\ i - 1 \in 0 .. M /\ (i - 1) + 1 = i
      BY <1>4, <2>1, SMT
    <3> QED
      BY <1>3, <3>1
  <2>2. 0 \in 0 .. M
    BY <1>4, SMT
  <2> QED
    BY <1>2, <2>1, <2>2
<1>6. Value(value)
  BY <1>5
<1>7. number_buffer(n, base) = [i \in 1 .. M |-> value[M - i] % base]
  BY DEF number_buffer, M
<1> HIDE DEF value
<1>8. value[0] = Unsigned(n)
  BY <1>4, <1>6, SMT
<1>9. \A i \in 0 .. M - 1 : value[i + 1] = value[i] \div base
  <2> SUFFICES ASSUME NEW i \in 0 .. M - 1 PROVE value[i + 1] = value[i] \div base
    OBVIOUS
  <2>1. i + 1 \in 0 .. M /\ i + 1 # 0 /\ (i + 1) - 1 = i
    BY <1>4, SMT
  <2> QED
    BY <1>6, <2>1
<1>10. \A i \in 0 .. M : value[i] \in Nat /\ (i <= WIDTH => value[i] < TwoTo[WIDTH - i])
                         /\ (i >= WIDTH => value[i] = 0)
  <2> DEFINE Small(i) == /\ value[i] \in Nat
                         /\ i <= WIDTH => value[i] < TwoTo[WIDTH - i]
                         /\ i >= WIDTH => value[i] = 0
             S == {i \in Nat : i <= M => Small(i)}
  <2>1. ASSUME NEW i \in Nat, value[i] \in Nat, i <= WIDTH => value[i] < TwoTo[WIDTH - i],
               i > WIDTH => value[i] = 0
        PROVE  Small(i)
    <3>1. i = WIDTH => WIDTH - i = 0
      BY <1>4, SMT
    <3>2. i = WIDTH => value[i] < 1
      BY <1>4, <2>1, <3>1, Powers, SMT
    <3> QED
      BY <1>4, <2>1, <3>2, SMT
  <2>2. 0 \in S
    <3>1. WIDTH - 0 = WIDTH /\ 0 <= WIDTH /\ ~(0 > WIDTH)
      BY <1>4, SMT
    <3>2. Small(0)
      BY <1>8, <2>1, <3>1
    <3>3. 0 \in Nat
      BY SMT
    <3> HIDE DEF Small
    <3> QED
      BY <3>2, <3>3, Zenon
  <2>3. ASSUME NEW i \in Nat, i \in S, i + 1 <= M PROVE Small(i + 1)
    <3>1. i \in 0 .. M - 1 /\ i <= M
      BY <1>4, <2>3, SMT
    <3>2. value[i + 1] = value[i] \div base /\ Small(i)
      BY <1>9, <2>3, <3>1
    <3>3. value[i + 1] \in Nat
      <4>1. value[i] \in Nat
        BY <3>1, <3>2, Zenon
      <4>2. value[i] \div base \in Nat
        BY <4>1, Division, Zenon
      <4> QED
        BY <3>2, <4>2, Zenon
    <3>4. ASSUME i + 1 <= WIDTH PROVE value[i + 1] < TwoTo[WIDTH - (i + 1)]
      <4>1. WIDTH - (i + 1) \in Nat /\ WIDTH - i = (WIDTH - (i + 1)) + 1 /\ i <= WIDTH
        BY <1>4, <3>4, SMT
      <4> DEFINE w == TwoTo[WIDTH - (i + 1)]
      <4>2. w \in Nat /\ TwoTo[WIDTH - i] = 2 * w
        BY <4>1, Powers
      <4> HIDE DEF w
      <4>3. value[i] < 2 * w
        BY <3>2, <4>1, <4>2
      <4>4. value[i] \div base < w
        BY <3>2, <4>2, <4>3, Division
      <4> QED
        BY <3>2, <4>4 DEF w
    <3>5. ASSUME i + 1 > WIDTH PROVE value[i + 1] = 0
      <4>1. value[i] = 0
        BY <1>4, <3>2, <3>5, SMT
      <4> QED
        BY <3>2, <4>1, SMT DEF Bases
    <3> QED
      BY <2>1, <3>3, <3>4, <3>5
  <2>4. \A i \in Nat : i \in S => i + 1 \in S
    <3> HIDE DEF Small
    <3>1. \A i \in Nat : i + 1 \in Nat
      BY SMT
    <3> QED
      BY <2>3, <3>1, Zenon
  <2> HIDE DEF S
  <2>5. Nat \subseteq S
    BY <2>2, <2>4, SetInduction
  <2>6. \A i \in 0 .. M : i \in Nat /\ i <= M
    BY <1>4, SMT
  <2> QED
    BY <2>5, <2>6 DEF S
<1>11. value \in [0 .. M -> Nat]
  BY <1>6, <1>10
<1>12. value[M] = 0
  BY <1>4, <1>10, SMT
<1> QED
  BY <1>7, <1>8, <1>9, <1>11, <1>12 DEF M
-------------------------------------------------------------------------------
\* What a sequence of digits stands for, from the first on.
LEMMA Reading ==
    ASSUME NEW digits, Len(digits) \in Nat, \A i \in 1 .. Len(digits) : digits[i] \in Nat,
           NEW base \in Bases
    PROVE  \E upto \in [0 .. Len(digits) -> Nat] :
             /\ upto[0] = 0
             /\ \A i \in 1 .. Len(digits) : upto[i] = base * upto[i - 1] + digits[i]
             /\ Reads(digits, base) = upto[Len(digits)]
<1> DEFINE L == Len(digits)
           next(i) == IF i < L THEN digits[i + 1] ELSE 0
           G == [i \in Nat |-> [v \in Nat |-> base * v + next(i)]]
<1>1. L \in Nat /\ \A i \in 1 .. L : digits[i] \in Nat
  OBVIOUS
<1> HIDE DEF L
<1>2. \A i \in Nat : next(i) \in Nat
  <2>1. \A i \in Nat : i < L => i + 1 \in 1 .. L
    BY <1>1, SMT
  <2> QED
    BY <1>1, <2>1
<1> HIDE DEF next
<1>3. G \in [Nat -> [Nat -> Nat]] /\ \A i, v \in Nat : G[i][v] = base * v + next(i)
  <2>1. \A i, v \in Nat : base * v + next(i) \in Nat
    BY <1>2, SMT DEF Bases
  <2> QED
    BY <2>1
<1>4. PICK f \in [Nat -> Nat] : f[0] = 0 /\ \A i \in Nat : f[i + 1] = G[i][f[i]]
  <2> HIDE DEF G
  <2>1. 0 \in Nat
    OBVIOUS
  <2>2. Iterations(Nat, 0, G) # {}
    BY <1>3, <2>1, Recursion
  <2> QED
    BY <2>2 DEF Iterations
<1>5. ASSUME NEW i \in 0 .. L, i # 0 PROVE f[i] = base * f[i - 1] + digits[i] /\ i - 1 \in 0 .. L
  <2>1. i - 1 \in Nat /\ (i - 1) + 1 = i /\ i - 1 < L /\ i - 1 \in 0 .. L
    BY <1>1, <1>5, SMT
  <2>2. f[i] = G[i - 1][f[i - 1]] /\ f[i - 1] \in Nat
    BY <1>4, <2>1
  <2>3. next(i - 1) = digits[i]
    BY <2>1 DEF next
  <2> QED
    BY <1>3, <2>1, <2>2, <2>3
<1> DEFINE Upto(upto) == upto = [i \in 0 .. L |-> IF i = 0 THEN 0 ELSE base * upto[i - 1] + digits[i]]
           upto == CHOOSE upto : Upto(upto)
<1>6. Upto([i \in 0 .. L |-> f[i]])
  BY <1>4, <1>5
<1>7. Upto(upto)
  BY <1>6
<1>8. Reads(digits, base) = upto[L]
  BY DEF Reads, L
<1> HIDE DEF upto
<1>9. upto[0] = 0 /\ L \in 0 .. L /\ \A i \in 1 .. L : i \in 0 .. L /\ i # 0
  BY <1>1, <1>7, SMT
<1>10. \A i \in 1 .. L : upto[i] = base * upto[i - 1] + digits[i]
  BY <1>7, <1>9
<1>11. \A i \in 0 .. L : upto[i] = f[i]
  <2> DEFINE S == {i \in Nat : i <= L => upto[i] = f[i]}
  <2>1. 0 \in S
    BY <1>4, <1>9
  <2>2. ASSUME NEW i \in Nat, i \in S PROVE i + 1 \in S
    <3> SUFFICES ASSUME i + 1 <= L PROVE upto[i + 1] = f[i + 1]
      BY SMT
    <3>1. i + 1 \in 1 .. L /\ i + 1 \in 0 .. L /\ i + 1 # 0 /\ (i + 1) - 1 = i /\ i <= L
      BY <1>1, SMT
    <3>2. upto[i] = f[i]
      BY <2>2, <3>1
    <3>3. f[i + 1] = base * f[(i + 1) - 1] + digits[i + 1]
      BY <1>5, <3>1
    <3>4. upto[i + 1] = base * upto[(i + 1) - 1] + digits[i + 1]
      BY <1>10, <3>1
    <3> QED
      BY <3>1, <3>2, <3>3, <3>4
  <2> HIDE DEF S
  <2>3. Nat \subseteq S
    BY <2>1, <2>2, SetInduction
  <2>4. \A i \in 0 .. L : i \in Nat /\ i <= L
    BY <1>1, SMT
  <2> QED
    BY <2>3, <2>4 DEF S
<1>12. upto \in [0 .. L -> Nat]
  <2>1. \A i \in 0 .. L : upto[i] \in Nat
    BY <1>4, <1>11, SMT
  <2>2. upto = [i \in 0 .. L |-> upto[i]]
    <3>1. DOMAIN upto = 0 .. L
      BY <1>7
    <3> QED
      BY <1>7, <3>1
  <2> QED
    BY <2>1, <2>2
<1> QED
  BY <1>8, <1>9, <1>10, <1>12 DEF L
-------------------------------------------------------------------------------
\* The digits from the first that is not 0 are the numeral of what the loop
\* started with.
LEMMA Digits ==
    ASSUME NEW n, Unsigned(n) \in Nat \ {0}, Unsigned(n) < TwoTo[WIDTH], NEW base \in Bases
    PROVE  LET digits == get_number_start(number_buffer(n, base))
           IN  /\ Reads(digits, base) = Unsigned(n)
               /\ Len(digits) \in Nat \ {0}
               /\ \A i \in 1 .. Len(digits) : digits[i] \in 0 .. base - 1
               /\ digits[1] # 0
<1> DEFINE M == MAXIMUM_BINARY_LENGTH
           d == number_buffer(n, base)
           I == {i \in 1 .. Len(d) : d[i] # 0}
           start == Min(I)
           digits == SubSeq(d, start, Len(d))
<1>1. M \in Nat
  BY PrintingAssumption
<1>2. PICK value \in [0 .. M -> Nat] :
        /\ value[0] = Unsigned(n)
        /\ \A i \in 0 .. M - 1 : value[i + 1] = value[i] \div base
        /\ value[M] = 0
        /\ d = [i \in 1 .. M |-> value[M - i] % base]
  BY Loop
<1> HIDE DEF M, d
<1>3. \A i \in 1 .. M : /\ M - i \in 0 .. M - 1 /\ M - i \in 0 .. M /\ (M - i) + 1 \in 0 .. M
                        /\ value[M - i] \in Nat
                        /\ d[i] = value[M - i] % base
                        /\ d[i] \in 0 .. base - 1
                        /\ value[M - i] = base * value[(M - i) + 1] + d[i]
  <2> SUFFICES ASSUME NEW i \in 1 .. M
               PROVE  /\ M - i \in 0 .. M - 1 /\ M - i \in 0 .. M /\ (M - i) + 1 \in 0 .. M
                      /\ value[M - i] \in Nat
                      /\ d[i] = value[M - i] % base
                      /\ d[i] \in 0 .. base - 1
                      /\ value[M - i] = base * value[(M - i) + 1] + d[i]
    OBVIOUS
  <2>1. M - i \in 0 .. M - 1 /\ M - i \in 0 .. M /\ (M - i) + 1 \in 0 .. M
    BY <1>1, SMT
  <2>2. value[M - i] \in Nat /\ value[(M - i) + 1] = value[M - i] \div base
        /\ d[i] = value[M - i] % base
    BY <1>2, <2>1
  <2> QED
    BY <2>1, <2>2, Division
<1>4. \A i \in 1 .. M : d[i] \in Nat
  BY <1>3, SMT DEF Bases
<1>5. Len(d) = M /\ d \in Seq(Nat)
  <2>1. d \in [1 .. M -> Nat]
    BY <1>2, <1>4
  <2> QED
    BY <1>1, <2>1, SMT
\* Leading zeros are nothing.
<1>6. \A j \in 0 .. M : (\A i \in 1 .. j : d[i] = 0) => value[M - j] = 0
  <2> DEFINE Zero(j) == (\A i \in 1 .. j : d[i] = 0) => value[M - j] = 0
             S == {j \in Nat : j <= M => Zero(j)}
  <2>1. 0 \in S
    <3>1. M - 0 = M
      BY <1>1, SMT
    <3> QED
      BY <1>2, <3>1
  <2>2. ASSUME NEW j \in Nat, j \in S PROVE j + 1 \in S
    <3> SUFFICES ASSUME j + 1 <= M, \A i \in 1 .. j + 1 : d[i] = 0 PROVE value[M - (j + 1)] = 0
      BY SMT
    <3>1. j <= M /\ j + 1 \in 1 .. M /\ (M - (j + 1)) + 1 = M - j
      BY <1>1, SMT
    <3>2. d[j + 1] = 0 /\ \A i \in 1 .. j : d[i] = 0
      BY <3>1, SMT
    <3>3. value[M - j] = 0
      BY <2>2, <3>1, <3>2
    <3>4. value[M - (j + 1)] = base * value[(M - (j + 1)) + 1] + d[j + 1]
      BY <1>3, <3>1
    <3>5. value[M - (j + 1)] = base * 0 + 0
      BY <3>1, <3>2, <3>3, <3>4
    <3> QED
      BY <3>5, SMT DEF Bases
  <2> HIDE DEF S
  <2>3. Nat \subseteq S
    BY <2>1, <2>2, SetInduction
  <2>4. \A j \in 0 .. M : j \in Nat /\ j <= M
    BY <1>1, SMT
  <2> QED
    BY <2>3, <2>4 DEF S
<1>7. I # {}
  <2> SUFFICES ASSUME I = {} PROVE FALSE
    OBVIOUS
  <2>1. \A i \in 1 .. M : d[i] = 0
    BY <1>5
  <2>2. M \in 0 .. M /\ M - M = 0
    BY <1>1, SMT
  <2>3. value[0] = 0
    BY <1>6, <2>1, <2>2
  <2> QED
    BY <1>2, <2>3
<1>8. start \in 1 .. M /\ d[start] # 0 /\ \A i \in 1 .. start - 1 : d[i] = 0
  <2>1. I \in SUBSET Nat
    BY <1>1, <1>5, SMT
  <2>2. start \in I /\ \A i \in I : start <= i
    <3> HIDE DEF I
    <3> QED
      BY <1>7, <2>1, Least
  <2>3. start \in 1 .. M /\ d[start] # 0
    BY <1>5, <2>2
  <2> HIDE DEF start
  <2>4. ASSUME NEW i \in 1 .. start - 1 PROVE d[i] = 0
    <3>1. i \in 1 .. M /\ ~(start <= i)
      BY <1>1, <2>3, <2>4, SMT
    <3> QED
      BY <1>5, <2>2, <3>1
  <2> QED
    BY <2>3, <2>4
<1>9. get_number_start(d) = digits
  <2>1. SelectInSeq(d, LAMBDA digit : digit # 0) = start
    BY <1>7 DEF SelectInSeq
  <2>2. start # 0
    BY <1>8, SMT
  <2> QED
    BY <2>1, <2>2 DEF get_number_start
<1> HIDE DEF start
<1> DEFINE L == M - start + 1
<1>10. L \in Nat \ {0} /\ L = M - start + 1 /\ start \in 1 .. M
  BY <1>1, <1>8, SMT
<1>11. /\ Len(digits) = L
       /\ \A i \in 1 .. L : digits[i] = d[start + i - 1] /\ start + i - 1 \in 1 .. M
  <2>1. \A i \in start .. M : d[i] \in Nat
    BY <1>4, <1>8, SMT
  <2>2. M - start + 1 \in Nat /\ \A i \in 1 .. L : start + i - 1 \in 1 .. M
    BY <1>1, <1>10, SMT
  <2> QED
    BY <1>1, <1>5, <1>8, <1>10, <2>1, <2>2, SubSeqProperties, SMT
<1> HIDE DEF L, digits
<1>12. \A i \in 1 .. L : digits[i] \in 0 .. base - 1 /\ digits[i] \in Nat
  BY <1>3, <1>4, <1>11
<1>13. PICK upto \in [0 .. L -> Nat] :
         /\ upto[0] = 0
         /\ \A i \in 1 .. L : upto[i] = base * upto[i - 1] + digits[i]
         /\ Reads(digits, base) = upto[L]
  <2>1. Len(digits) \in Nat /\ \A i \in 1 .. Len(digits) : digits[i] \in Nat
    BY <1>10, <1>11, <1>12
  <2>2. \E upto \in [0 .. Len(digits) -> Nat] :
          /\ upto[0] = 0
          /\ \A i \in 1 .. Len(digits) : upto[i] = base * upto[i - 1] + digits[i]
          /\ Reads(digits, base) = upto[Len(digits)]
    BY <2>1, Reading
  <2> QED
    BY <1>11, <2>2
<1>14. \A i \in 0 .. L : upto[i] = value[L - i]
  <2> DEFINE S == {i \in Nat : i <= L => upto[i] = value[L - i]}
  <2>1. 0 \in S
    <3>1. start - 1 \in 0 .. M /\ M - (start - 1) = L /\ L - 0 = L
      BY <1>1, <1>10, SMT
    <3>2. value[L] = 0
      BY <1>6, <1>8, <3>1
    <3> QED
      BY <1>13, <3>1, <3>2
  <2>2. ASSUME NEW i \in Nat, i \in S PROVE i + 1 \in S
    <3> SUFFICES ASSUME i + 1 <= L PROVE upto[i + 1] = value[L - (i + 1)]
      BY SMT
    <3> DEFINE k == start + (i + 1) - 1
    <3>1. /\ i + 1 \in 1 .. L /\ i <= L /\ (i + 1) - 1 = i /\ k \in 1 .. M
          /\ M - k = L - (i + 1) /\ (M - k) + 1 = L - i
      BY <1>1, <1>10, SMT
    <3>2. upto[i + 1] = base * upto[i] + digits[i + 1]
      BY <1>13, <3>1
    <3>3. digits[i + 1] = d[k]
      BY <1>11, <3>1
    <3>4. value[M - k] = base * value[(M - k) + 1] + d[k]
      BY <1>3, <3>1
    <3>5. upto[i] = value[L - i]
      BY <2>2, <3>1
    <3> QED
      BY <3>1, <3>2, <3>3, <3>4, <3>5
  <2> HIDE DEF S
  <2>3. Nat \subseteq S
    BY <2>1, <2>2, SetInduction
  <2>4. \A i \in 0 .. L : i \in Nat /\ i <= L
    BY <1>10, SMT
  <2> QED
    BY <2>3, <2>4 DEF S
<1>15. Reads(digits, base) = Unsigned(n)
  <2>1. L \in 0 .. L /\ L - L = 0
    BY <1>10, SMT
  <2> QED
    BY <1>2, <1>13, <1>14, <2>1
<1>16. digits[1] # 0
  <2>1. 1 \in 1 .. L /\ start + 1 - 1 = start
    BY <1>10, SMT
  <2> QED
    BY <1>8, <1>11, <2>1
<1> QED
  BY <1>9, <1>10, <1>11, <1>12, <1>15, <1>16 DEF d

\* The text of a number is its numeral: also for the least int, whose opposite
\* is itself but, converted to unsigned, is what it should be.
LEMMA TextReads ==
    ASSUME NEW number \in int, NEW base \in Bases, NEW is_unsigned \in BOOLEAN
    PROVE  LET text == Text(number, base, is_unsigned)
           IN  /\ text.negative <=> ~is_unsigned /\ number < 0
               /\ Reads(text.digits, base)
                    = IF ~is_unsigned /\ number < 0 THEN -number ELSE Unsigned(number)
               /\ \A i \in 1 .. Len(text.digits) : text.digits[i] \in 0 .. base - 1
               /\ text.digits[1] = 0 => number = 0 /\ Len(text.digits) = 1
<1> DEFINE half == TwoTo[WIDTH - 1]
           negative == number < 0 /\ ~is_unsigned
           value == IF negative THEN Negated(number) ELSE number
           digits == IF number = 0 THEN <<0>> ELSE get_number_start(number_buffer(value, base))
           text == Text(number, base, is_unsigned)
<1>1. half \in Nat \ {0} /\ TwoTo[WIDTH] = 2 * half
  <2>1. WIDTH - 1 \in Nat /\ (WIDTH - 1) + 1 = WIDTH
    BY PrintingAssumption, SMT
  <2> QED
    BY <2>1, Powers
<1>2. number \in -half .. half - 1
  BY DEF int
<1>3. text.negative = negative /\ text.digits = digits
  BY DEF Text
<1> HIDE DEF half
<1>4. value \in -half .. half /\ (value = 0 <=> number = 0)
  BY <1>1, <1>2, SMT DEF Negated, half
<1>5. Unsigned(value) = IF negative THEN -number ELSE Unsigned(number)
  <2>1. \A v \in -half .. half : v % (2 * half) = IF v < 0 THEN v + 2 * half ELSE v
    BY <1>1, SMT
  <2>2. CASE negative
    <3>1. value = IF number = -half THEN number ELSE -number
      BY <2>2 DEF Negated, half
    <3>2. Unsigned(value) = value % (2 * half)
      BY <1>1 DEF Unsigned
    <3> HIDE DEF value
    <3>3. value % (2 * half) = IF value < 0 THEN value + 2 * half ELSE value
      BY <1>4, <2>1
    <3>4. IF value < 0 THEN value + 2 * half = -number ELSE value = -number
      BY <1>1, <1>2, <2>2, <3>1, SMT
    <3> QED
      BY <2>2, <3>2, <3>3, <3>4
  <2>3. CASE ~negative
    BY <2>3
  <2> QED
    BY <2>2, <2>3
<1>6. Unsigned(value) \in 0 .. TwoTo[WIDTH] - 1 /\ (Unsigned(value) = 0 <=> number = 0)
  <2> HIDE DEF value
  <2>1. \A v \in -half .. half : /\ v % (2 * half) \in 0 .. 2 * half - 1
                                 /\ v % (2 * half) = 0 <=> v = 0
    BY <1>1, SMT
  <2> QED
    BY <1>1, <1>4, <2>1 DEF Unsigned
<1> HIDE DEF value
<1>7. CASE number = 0
  <2>1. digits = <<0>> /\ Len(digits) = 1 /\ digits[1] = 0
    BY <1>7, SMT
  <2> HIDE DEF digits
  <2>2. PICK upto \in [0 .. Len(digits) -> Nat] :
          /\ upto[0] = 0
          /\ \A i \in 1 .. Len(digits) : upto[i] = base * upto[i - 1] + digits[i]
          /\ Reads(digits, base) = upto[Len(digits)]
    <3>1. Len(digits) \in Nat /\ \A i \in 1 .. Len(digits) : digits[i] \in Nat
      BY <2>1, SMT
    <3> QED
      BY <3>1, Reading
  <2>3. Reads(digits, base) = base * upto[1 - 1] + 0
    BY <2>1, <2>2, SMT
  <2>4. Reads(digits, base) = 0
    BY <2>2, <2>3, SMT DEF Bases
  <2>5. Unsigned(number) = 0
    BY <1>5, <1>6, <1>7, SMT
  <2>6. \A i \in 1 .. Len(digits) : digits[i] \in 0 .. base - 1
    BY <2>1, SMT DEF Bases
  <2>7. ~(number < 0)
    BY <1>7, SMT
  <2> QED
    BY <1>3, <1>7, <2>1, <2>4, <2>5, <2>6, <2>7
<1>8. CASE number # 0
  <2>1. Unsigned(value) \in Nat \ {0} /\ Unsigned(value) < TwoTo[WIDTH]
    BY <1>1, <1>6, <1>8, SMT
  <2>2. digits = get_number_start(number_buffer(value, base))
    BY <1>8
  <2> HIDE DEF digits
  <2>3. /\ Reads(digits, base) = Unsigned(value)
        /\ \A i \in 1 .. Len(digits) : digits[i] \in 0 .. base - 1
        /\ digits[1] # 0
    BY <2>1, <2>2, Digits
  <2> QED
    BY <1>3, <1>5, <2>3
<1> QED
  BY <1>7, <1>8

\* A text is a numeral of its base, signed but for %u and %U, that reads as the
\* argument or, when that is too wide for an int, as the number with its low bits,
\* whatever else is in the format or being logged: for the least int, too, and for
\* 0 (src/lib/print.c:13, :44, :47, :109 and :119).
THEOREM NumbersArePrinted ==
    ASSUME \A format \in Format : SignsKept(format)
    PROVE  Spec => []PrintsTheNumber
<1>1. IInv => PrintsTheNumber
  <2> SUFFICES ASSUME IInv, top.fn = "sprint_integer", top.next = 2 PROVE PrintsTheNumber
    BY DEF PrintsTheNumber
  <2> DEFINE argument == top.with.argument
             number == top.with.number
             text == top.with.text
             base == Base[top.with.letter]
             is_unsigned == top.with.is_unsigned
             magnitude == Reads(text.digits, base)
             printed == IF text.negative THEN -magnitude ELSE magnitude
             half == TwoTo[WIDTH - 1]
  <2>1. CallOK(top, stack)
    BY RunningCalls, TopIs
  <2>2. /\ top.with \in [letter : DOMAIN Base, argument : Argument, number : int,
                         is_unsigned : BOOLEAN, text : Texts]
        /\ is_unsigned <=> top.with.letter \in {"u", "U"}
        /\ text = Text(number, base, is_unsigned)
        /\ number = va_arg(argument)
    <3>1. top.with \in LocalsOf("sprint_integer")
      BY <2>1 DEF CallOK
    <3> QED
      BY <2>1, <3>1, SMT DEF CallOK, Numbers, LocalsOf
  <2>3. base \in Bases /\ number \in int /\ is_unsigned \in BOOLEAN /\ argument \in Int
    <3>1. \A letter \in DOMAIN Base : Base[letter] \in Bases
      BY SMT DEF Base, Bases
    <3>2. /\ top.with.letter \in DOMAIN Base /\ top.with.number \in int
          /\ top.with.is_unsigned \in BOOLEAN /\ top.with.argument \in Argument
      BY <2>2
    <3> QED
      BY <3>1, <3>2, PrintingAssumption
  <2> HIDE DEF argument, number, text, base, is_unsigned
  <2>4. /\ text.negative <=> ~is_unsigned /\ number < 0
        /\ magnitude = IF ~is_unsigned /\ number < 0 THEN -number ELSE Unsigned(number)
        /\ \A i \in 1 .. Len(text.digits) : text.digits[i] \in 0 .. base - 1
        /\ text.digits[1] = 0 => number = 0 /\ Len(text.digits) = 1
    BY <2>2, <2>3, TextReads
  <2>5. /\ Unsigned(number) = Unsigned(argument)
        /\ Unsigned(argument) \in 0 .. TwoTo[WIDTH] - 1
        /\ Unsigned(Unsigned(argument)) = Unsigned(argument)
    BY <2>2, <2>3, VaArg
  <2>6. half \in Nat \ {0} /\ TwoTo[WIDTH] = 2 * half
    <3>1. WIDTH - 1 \in Nat /\ (WIDTH - 1) + 1 = WIDTH
      BY PrintingAssumption, SMT
    <3> QED
      BY <3>1, Powers
  <2>7. number \in -half .. half - 1
    BY <2>3 DEF int
  <2> HIDE DEF half, magnitude
  <2>8. ASSUME 0 <= number PROVE Unsigned(number) = number
    <3>1. \A v \in 0 .. half - 1 : v % (2 * half) = v
      BY <2>6, SMT
    <3>2. number \in 0 .. half - 1
      BY <2>6, <2>7, <2>8, SMT
    <3> QED
      BY <2>6, <3>1, <3>2 DEF Unsigned
  <2>9. printed = IF is_unsigned THEN Unsigned(argument) ELSE number
    <3>1. CASE text.negative
      BY <2>4, <2>7, <2>6, <3>1, SMT
    <3>2. CASE ~text.negative /\ is_unsigned
      BY <2>4, <2>5, <3>2
    <3>3. CASE ~text.negative /\ ~is_unsigned
      <4>1. 0 <= number /\ ~(number < 0)
        BY <2>4, <2>6, <2>7, <3>3, SMT
      <4> QED
        BY <2>4, <2>8, <3>3, <4>1
    <3> QED
      BY <2>3, <3>1, <3>2, <3>3
  <2>10. text.negative => magnitude # 0
    BY <2>4, <2>6, <2>7, SMT
  <2>11. number = 0 => magnitude = 0
    <3>1. number = 0 => ~(number < 0) /\ 0 <= number
      BY SMT
    <3> QED
      BY <2>4, <2>8, <3>1
  <2> HIDE DEF printed
  <2>12. /\ printed \in IF ~is_unsigned THEN int ELSE 0 .. TwoTo[WIDTH] - 1
         /\ Unsigned(printed) = Unsigned(argument)
    BY <2>3, <2>5, <2>9
  <2>13. PrintsTheNumber
    <3> USE DEF printed, magnitude
    <3> QED
      BY <2>2, <2>4, <2>10, <2>11, <2>12
         DEF PrintsTheNumber, argument, text, base, is_unsigned
  <2> QED
    BY <2>13
<1> QED
  BY <1>1, Invariance, PTL
================================================================================
