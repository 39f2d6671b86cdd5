-------------------------------- MODULE Printing -------------------------------
(****************************************************************************)
(* Logging: log_log (src/lib/log.c) formats a message and then its line     *)
(* with vsprintf (src/lib/print.c), which formats numbers with              *)
(* sprint_integer and logs what it dislikes, so that log_log runs inside    *)
(* itself.  A format is the sequence of its conversions; the characters     *)
(* between them, and what strings hold, are left out, and so is a format    *)
(* that ends in a lone %, whose terminator vsprintf would step over.  No    *)
(* message is filtered, as the only call of set_log_level lets all through. *)
(****************************************************************************)
EXTENDS Integers, SequencesExt

CONSTANTS
    WIDTH,                  \* bits of an int: 32
    MAXIMUM_BINARY_LENGTH,  \* of number_buffer: 64
    Format,                 \* the formats of messages
    Argument,               \* numbers passed to them, of any width
    Frame                   \* [function -> bytes its call takes on the stack]

VARIABLE calls  \* the functions entered on the running stack, innermost last

Conversion == {"c", "s", "d", "b", "x", "p", "u", "U", "unknown"}

\* The powers of two, as a function: TLAPS knows no fact about 2 ^ n.
TwoTo[n \in Nat] == IF n = 0 THEN 1 ELSE 2 * TwoTo[n - 1]

ASSUME PrintingAssumption ==
    /\ WIDTH \in Nat \ {0}
    /\ MAXIMUM_BINARY_LENGTH \in Nat /\ MAXIMUM_BINARY_LENGTH >= WIDTH
    /\ Format \subseteq Seq(Conversion)
    /\ Argument \subseteq Int
    /\ \A fn \in DOMAIN Frame : Frame[fn] \in Nat
-------------------------------------------------------------------------------
\* Arithmetic of int, and its conversion to unsigned.
Negated(n) == IF n = -TwoTo[WIDTH - 1] THEN n ELSE -n
Unsigned(n) == n % TwoTo[WIDTH]

\* va_arg(args, int), whatever was passed: the int of its low bits.
int == -TwoTo[WIDTH - 1] .. TwoTo[WIDTH - 1] - 1
va_arg(argument) ==
    IF Unsigned(argument) < TwoTo[WIDTH - 1] THEN Unsigned(argument)
                                             ELSE Unsigned(argument) - TwoTo[WIDTH]

\* A mutant, used by no definition: a loop that divides before it writes.
divided_first(n, base) ==
    LET value[i \in 0 .. MAXIMUM_BINARY_LENGTH] ==
          IF i = 0 THEN Unsigned(n) ELSE value[i - 1] \div base
    IN  [i \in 1 .. MAXIMUM_BINARY_LENGTH |-> value[MAXIMUM_BINARY_LENGTH - i + 1] % base]

\* number_buffer after the loop, which fills it from its end; value[i] is what
\* is left after i turns.
number_buffer(n, base) ==
    LET value[i \in 0 .. MAXIMUM_BINARY_LENGTH] ==
          IF i = 0 THEN Unsigned(n) ELSE value[i - 1] \div base
    IN  [i \in 1 .. MAXIMUM_BINARY_LENGTH |-> value[MAXIMUM_BINARY_LENGTH - i] % base]

\* The digits from the first that is not 0; the terminator ends them.
get_number_start(digits) ==
    LET start == SelectInSeq(digits, LAMBDA digit : digit # 0)
    IN  IF start = 0 THEN <<>> ELSE SubSeq(digits, start, Len(digits))

\* What sprint_integer writes; add_number_prefix turns a negative number round.
Text(number, base, is_unsigned) ==
    LET negative == number < 0 /\ ~is_unsigned
        value == IF negative THEN Negated(number) ELSE number
    IN  [negative |-> negative,
         prefix |-> CASE base = 2 -> "b" [] base = 16 -> "0x" [] base = 10 -> "",
         digits |-> IF number = 0 THEN <<0>> ELSE get_number_start(number_buffer(value, base))]
-------------------------------------------------------------------------------
\* A call: what it is for, where it has got to, and the bytes of stack in use.
top == calls[Len(calls)]
Entered(fn, low, with) == [fn |-> fn, next |-> 1, low |-> low + Frame[fn], with |-> with]

\* The function on top, one step on and with other locals; its calls; its return.
Advanced(with) == [fn |-> top.fn, next |-> top.next + 1, low |-> top.low, with |-> with]
Onward(with) == [calls EXCEPT ![Len(calls)] = Advanced(with)]
CallWith(locals, fn, with) == calls' = Append(Onward(locals), Entered(fn, top.low, with))
Call(fn, with) == CallWith(top.with, fn, with)
Return == calls' = SubSeq(calls, 1, Len(calls) - 1)

\* Mutants, used by no definition: plausible slips in those further down.
log_log_again ==
    /\ top.fn = "log_log"
    /\ \/ top.next = 1 /\ Call("vsprintf", [format |-> top.with, is_unsigned |-> FALSE])
       \/ top.next \in {2, 3} /\ Call("sprintf", <<>>)
       \/ top.next = 4 /\ Return
Logged_with_a_character == <<"c">>

\* buffer, log_message, serial_print.
log_log ==
    /\ top.fn = "log_log"
    /\ \/ top.next = 1 /\ Call("vsprintf", [format |-> top.with, is_unsigned |-> FALSE])
       \/ top.next = 2 /\ Call("sprintf", <<>>)
       \/ top.next = 3 /\ Return

\* "[%s] %s:%d: %s\n"
sprintf ==
    /\ top.fn = "sprintf"
    /\ \/ top.next = 1 /\ Call("vsprintf", [format |-> <<"s", "s", "d", "s">>, is_unsigned |-> FALSE])
       \/ top.next = 2 /\ Return

\* The base of a conversion; %u and %U set is_unsigned for what follows, too.
Base == [d |-> 10, b |-> 2, x |-> 16, p |-> 16, u |-> 16, U |-> 2]

\* What vsprintf itself logs has no conversion.
Logged == <<>>

vsprintf_stays ==
    /\ top.fn = "vsprintf"
    /\ LET format == top.with.format
           is_unsigned == top.with.is_unsigned \/ (format # <<>> /\ Head(format) \in {"u", "U"})
           rest == [format |-> Tail(format), is_unsigned |-> is_unsigned]
       IN  \/ format = <<>> /\ Return
           \/ format # <<>> /\ Head(format) = "s" /\ calls' = Onward(rest)
           \/ format # <<>> /\ Head(format) = "c" /\ CallWith(rest, "log_log", Logged)
           \/ /\ format # <<>> /\ Head(format) = "unknown"
              /\ calls' = [calls EXCEPT ![Len(calls)].next = 1]
           \/ /\ format # <<>> /\ Head(format) \in DOMAIN Base
              /\ \E argument \in Argument :
                   CallWith(rest, "sprint_integer",
                            [letter |-> Head(format), argument |-> argument,
                             number |-> va_arg(argument), is_unsigned |-> is_unsigned,
                             text |-> <<>>])

\* sprint_integer gets the number; the argument is kept for PrintsTheNumber.
vsprintf ==
    /\ top.fn = "vsprintf"
    /\ LET format == top.with.format
           is_unsigned == top.with.is_unsigned \/ (format # <<>> /\ Head(format) \in {"u", "U"})
           rest == [format |-> Tail(format), is_unsigned |-> is_unsigned]
       IN  \/ format = <<>> /\ Return
           \/ format # <<>> /\ Head(format) = "s" /\ calls' = Onward(rest)
           \/ format # <<>> /\ Head(format) \in {"c", "unknown"} /\ CallWith(rest, "log_log", Logged)
           \/ /\ format # <<>> /\ Head(format) \in DOMAIN Base
              /\ \E argument \in Argument :
                   CallWith(rest, "sprint_integer",
                            [letter |-> Head(format), argument |-> argument,
                             number |-> va_arg(argument), is_unsigned |-> is_unsigned,
                             text |-> <<>>])

sprint_integer ==
    /\ top.fn = "sprint_integer"
    /\ \/ /\ top.next = 1
          /\ calls' = Onward([top.with EXCEPT
                                !.text = Text(top.with.number, Base[top.with.letter], top.with.is_unsigned)])
       \/ top.next = 2 /\ Return

PrintingStep == log_log \/ sprintf \/ vsprintf \/ sprint_integer
-------------------------------------------------------------------------------
\* The number a sequence of digits stands for.
Reads(digits, base) ==
    LET upto[i \in 0 .. Len(digits)] == IF i = 0 THEN 0 ELSE base * upto[i - 1] + digits[i]
    IN  upto[Len(digits)]

\* No %d, %b, %x or %p after a %u or %U, which would have it print a negative
\* number as unsigned: so in all formats of the program.
SignsKept(format) ==
    \A i, j \in 1 .. Len(format) :
      i < j /\ format[i] \in {"u", "U"} /\ format[j] \in DOMAIN Base => format[j] \in {"u", "U"}

\* For each letter, the text is a numeral in the letter's base, signed but for
\* %u and %U, and what it reads is the argument where that fits an int (or an
\* unsigned one), and where it does not, the one number of that range with the
\* same low bits: a 64-bit address or register prints as its low half.  So for
\* 0, for the least int, which has no opposite, and after other conversions of
\* the same format (src/lib/print.c:13, :44, :47, :109 and :119).
PrintsTheNumber ==
    top.fn = "sprint_integer" /\ top.next = 2 =>
      LET text == top.with.text
          base == Base[top.with.letter]
          signed == top.with.letter \notin {"u", "U"}
          magnitude == Reads(text.digits, base)
          printed == IF text.negative THEN -magnitude ELSE magnitude
      IN  /\ printed \in IF signed THEN int ELSE 0 .. TwoTo[WIDTH] - 1
          /\ Unsigned(printed) = Unsigned(top.with.argument)
          /\ text.negative => magnitude # 0
          /\ \A i \in 1 .. Len(text.digits) : text.digits[i] \in 0 .. base - 1
          /\ text.digits[1] = 0 => magnitude = 0 /\ Len(text.digits) = 1
================================================================================
