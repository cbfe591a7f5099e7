------------------------------ MODULE FmtPrintf -------------------------------
(***************************************************************************)
(* The printf of fmt: conversions %[n$][flags][width][.precision][length]  *)
(* and a type, translated to the specifications that {} fields use.  The   *)
(* reader is the one of FmtFormat; the arguments, the precision and the    *)
(* ids come from there.  A conversion of the model is put together from    *)
(* its parts.                                                              *)
(***************************************************************************)
EXTENDS FmtFormat

CONSTANTS
    ShortBits, CharBits,                    \* the widths of short and char
    Flags, Widths, Precisions, Lengths, Types, \* what a conversion is made of
    PrintfArgs                              \* the arguments it is used with

VARIABLES
    conversion,     \* the parts of the conversion
    printf_args

printfVars == <<conversion, printf_args>>

-----------------------------------------------------------------------------
(* Integers of a given width.                                              *)

Unsigned(n, bits) == n % (2 ^ bits)
Signed(n, bits) ==
    LET m == Unsigned(n, bits) IN IF m >= 2 ^ (bits - 1) THEN m - 2 ^ bits ELSE m

\* arg_converter: an integer becomes one of the width the length asks for,
\* signed or not by the type.  Without a length (0 bits) it keeps its width;
\* a longer one than int takes an unsigned value in its own width; "L" (-1)
\* changes nothing.
convert_arg(arg, bits, type) ==
    LET own == [char |-> CharBits, bool |-> IntBits, int |-> IntBits, uint |-> IntBits][arg.type]
        target == IF bits = 0 THEN own ELSE bits
        value == CASE type \in {"d", "i"} /\ target > IntBits -> arg.n
                   [] type \in {"d", "i"} /\ target <= IntBits -> Signed(arg.n, target)
                   [] OTHER -> Unsigned(arg.n, IF target > IntBits THEN own ELSE target)
    IN IF bits = -1 \/ ~is_integral_type(arg.type) \/ (arg.type = "bool" /\ type = "s") THEN arg
       ELSE [arg EXCEPT !.n = value, !.type = IF type \in {"d", "i"} THEN "int" ELSE "uint"]

-----------------------------------------------------------------------------
(* Parsing a conversion.                                                   *)

\* get_arg: the next argument, or the one of a number, which counts from 1.
NextArg(r, id) ==
    LET known == ResolveId(r, id)
        found == get(r.args, known.id)
    IN CASE known.error # "" -> known
         [] known.error = "" /\ found = NoArg -> Throw(known, "argument not found")
         [] OTHER -> known
The(r) == get(r.args, r.id)

parse_flag(specs, c) ==
    CASE c = "-" -> [specs EXCEPT !.align = "left"]
      [] c = "+" -> [specs EXCEPT !.sign = "plus"]
      [] c = "0" -> [specs EXCEPT !.fill = "0"]
      [] c = " " -> [specs EXCEPT !.sign = IF @ = "plus" THEN @ ELSE "space"]
      [] c = "#" -> [specs EXCEPT !.alt = "alt"]

RECURSIVE parse_flags(_)
parse_flags(r) ==
    IF Here(r) \in {"-", "+", "0", " ", "#"}
    THEN parse_flags([Skip(r) EXCEPT !.specs = parse_flag(@, Here(r))]) ELSE r

\* printf_width_handler: a negative width asks for the left side.
StarWidth(r) ==
    LET arg == The(r)
        width == IF arg.n < 0 THEN -arg.n ELSE arg.n
    IN CASE r.error # "" -> r
         [] r.error = "" /\ ~is_integral_type(arg.type) -> Throw(r, "width is not integer")
         [] OTHER -> IF width > MaxInt THEN Throw(r, "number is too big")
                     ELSE [r EXCEPT !.specs.width = width,
                                    !.specs.align = IF arg.n < 0 THEN "left" ELSE @]

\* printf_precision_handler: a negative precision is 0.
StarPrecision(r) ==
    LET arg == The(r)
    IN CASE r.error # "" -> r
         [] r.error = "" /\ ~is_integral_type(arg.type) -> Throw(r, "precision is not integer")
         [] OTHER -> IF arg.n > MaxInt THEN Throw(r, "number is too big")
                     ELSE [r EXCEPT !.specs.precision = IF arg.n < 0 THEN 0 ELSE arg.n]

\* parse_header: an argument number, or flags and a width.  A number that is
\* not followed by $ is the width, after which there are no flags.
AfterFlags(r) ==
    LET flagged == parse_flags(r)
    IN CASE r.error # "" -> r
         [] IsNumeral(Here(flagged)) -> Number(flagged, "width")
         [] Here(flagged) = "*" -> StarWidth(NextArg(Skip(flagged), AutoId))
         [] OTHER -> flagged

\* The result is the reader and the number of the argument, -1 if none.
parse_header(r) ==
    LET number == parse_nonnegative_int(r.f, r.at)
        after == Throw([r EXCEPT !.at = number.at], number.error)
        zeros == IF Here(r) = "0" THEN [after EXCEPT !.specs.fill = "0"] ELSE after
        plain == [reader |-> AfterFlags(r), index |-> -1]
    IN IF ~IsNumeral(Here(r)) THEN plain
       ELSE IF Here(after) = "$" THEN [reader |-> AfterFlags(Skip(after)), index |-> number.value]
       ELSE IF number.value # 0 THEN [reader |-> [zeros EXCEPT !.specs.width = number.value], index |-> -1]
       ELSE [reader |-> AfterFlags(zeros), index |-> -1]

parse_printf_precision(r) ==
    LET next == Here(Skip(r))
    IN CASE Here(r) # "." \/ r.error # "" -> r
         [] IsNumeral(next) -> Number(Skip(r), "precision")
         [] next = "*" -> StarPrecision(NextArg(Skip(Skip(r)), AutoId))
         [] OTHER -> [Skip(r) EXCEPT !.specs.precision = 0]

\* Mutant: the flag 0 counts although there is a precision.
AdjustedZerosKept(specs, arg) ==
    LET zeros == specs.fill = "0" /\ is_arithmetic_type(arg.type) /\ specs.align # "left"
    IN [specs EXCEPT !.fill = IF zeros THEN "0" ELSE " ",
                     !.align = IF zeros THEN "numeric" ELSE @,
                     !.alt = IF is_integral_type(arg.type) /\ arg.n = 0 THEN "" ELSE @]

\* What the argument makes of the flags: no zeros beside a precision or an
\* alignment to the left, or for what is not a number; no mark of the base of 0.
Adjusted(specs, arg) ==
    LET fill == IF specs.precision >= 0 /\ is_integral_type(arg.type) THEN " " ELSE specs.fill
        zeros == fill = "0" /\ is_arithmetic_type(arg.type) /\ specs.align # "left"
    IN [specs EXCEPT !.fill = IF zeros THEN "0" ELSE " ",
                     !.align = IF zeros THEN "numeric" ELSE @,
                     !.alt = IF is_integral_type(arg.type) /\ arg.n = 0 THEN "" ELSE @]

\* The length, and the place of the type after it.
LengthOf(r) ==
    LET twice == Here(Skip(r)) = Here(r)
    IN CASE Here(r) = "h" -> IF twice THEN [skip |-> 2, bits |-> CharBits] ELSE [skip |-> 1, bits |-> ShortBits]
         [] Here(r) = "l" -> [skip |-> IF twice THEN 2 ELSE 1, bits |-> 2 * IntBits]
         [] Here(r) \in {"j", "z", "t"} -> [skip |-> 1, bits |-> 2 * IntBits]
         [] Here(r) = "L" -> [skip |-> 1, bits |-> -1]
         [] OTHER -> [skip |-> 0, bits |-> 0]

-----------------------------------------------------------------------------
(* Writing.                                                                *)

\* printf_arg_formatter: a bool or a character under a conversion of numbers
\* is a number; a character takes no sign and no zeros.
PrintfArg(specs, arg) ==
    LET plain == [specs EXCEPT !.sign = "none", !.alt = "", !.fill = " ",
                               !.align = IF @ \in {"none", "numeric"} THEN "right" ELSE @]
    IN CASE arg.type = "bool" /\ specs.type = "s" -> FormatArg([specs EXCEPT !.type = ""], arg)
         [] arg.type = "bool" /\ specs.type # "s" -> int_writer(specs, arg.n)
         [] arg.type = "char" /\ specs.type \notin {"", "c"} -> int_writer(specs, arg.n)
         [] arg.type = "char" /\ specs.type \in {"", "c"} -> FormatArg(plain, arg)
         [] OTHER -> FormatArg(specs, arg)

\* The precision and the argument of a conversion, after its header.
TakeArg(r, index) == Unless(r, NextArg(r, IF index < 0 THEN AutoId ELSE IndexId(index - 1)))
AfterHeader(header) ==
    TakeArg(parse_printf_precision(IF header.index = 0 THEN Throw(header.reader, "argument not found")
                                   ELSE header.reader),
            header.index)

\* The length and the type, and what is written.
WriteConversion(r) ==
    LET length == LengthOf(r)
        typed == [r EXCEPT !.at = @ + length.skip]
        converted == convert_arg(The(r), length.bits, Here(typed))
        normal == CASE ~is_integral_type(converted.type) -> Here(typed)
                    [] Here(typed) \in {"i", "u"} -> "d"
                    [] OTHER -> Here(typed)
        shown == IF is_integral_type(converted.type) /\ normal = "c"
                 THEN [converted EXCEPT !.type = "char", !.n = Unsigned(@, CharBits)] ELSE converted
    IN CASE r.error # "" -> r
         [] r.error = "" /\ AtEnd(typed) -> Throw(r, "invalid format string")
         [] OTHER -> Write(Skip(typed), PrintfArg([Adjusted(r.specs, The(r)) EXCEPT !.type = normal], shown))

\* One conversion, from the character after %.
parse_conversion(r) ==
    WriteConversion(AfterHeader(parse_header([r EXCEPT !.specs = [Specs EXCEPT !.align = "right"]])))

RECURSIVE PrintfLoop(_)
PrintfLoop(r) ==
    CASE AtEnd(r) \/ r.error # "" -> r
      [] Here(r) # "%" -> PrintfLoop(Skip([r EXCEPT !.made = Append(@, Here(r))]))
      [] OTHER -> IF Here(Skip(r)) = "%" THEN PrintfLoop([r EXCEPT !.made = Append(@, "%"), !.at = @ + 2])
                  ELSE PrintfLoop(parse_conversion(Skip(r)))

\* basic_printf_context::format
printf(f, args) == Outcome(PrintfLoop(Reader(f, args, "format")))

-----------------------------------------------------------------------------
(* What a conversion asks for, as the standard of C has it.                *)

SpelledConversion(c) == <<"[", "%">> \o c.flags \o c.width \o c.precision \o c.length \o <<c.type, "]">>

NumberOf(s) == FoldLeft(LAMBDA n, d : 10 * n + NumeralValue(d), 0, s)
Bits(c) == CASE c.length = <<"h">> -> ShortBits [] c.length = <<"h", "h">> -> CharBits [] OTHER -> IntBits
Has(c, flag) == Contains(c.flags, flag)

\* The text of the value n: a sign or a mark of the base, digits, padding.
Asked(c, arg) ==
    LET signed == c.type \in {"d", "i"}
        n == IF signed THEN Signed(arg.n, Bits(c)) ELSE Unsigned(arg.n, Bits(c))
        digits == format_uint(IF n < 0 THEN -n ELSE n,
                              CASE c.type \in {"x", "X"} -> 16 [] c.type = "o" -> 8 [] OTHER -> 10,
                              IF c.type = "X" THEN "upper" ELSE "lower")
        least == IF c.precision = <<>> THEN 0 ELSE NumberOf(Tail(c.precision))
        wide == Copies("0", Excess(least, Len(digits))) \o digits
        full == IF Has(c, "#") /\ c.type = "o" /\ wide[1] # "0" THEN <<"0">> \o wide ELSE wide
        mark == CASE signed /\ n < 0 -> <<"-">>
                  [] signed /\ n >= 0 /\ Has(c, "+") -> <<"+">>
                  [] signed /\ n >= 0 /\ Has(c, " ") /\ ~Has(c, "+") -> <<" ">>
                  [] c.type \in {"x", "X"} /\ Has(c, "#") /\ n # 0 -> <<"0", c.type>>
                  [] OTHER -> <<>>
        missing == Excess(NumberOf(c.width), Len(mark) + Len(full))
    IN CASE c.type = "s" ->
              LET s == IF c.precision = <<>> \/ least >= Len(arg.s) THEN arg.s ELSE SubSeq(arg.s, 1, least)
                  pad == Copies(" ", Excess(NumberOf(c.width), Len(s)))
              IN IF Has(c, "-") THEN s \o pad ELSE pad \o s
         [] c.type # "s" /\ Has(c, "-") -> mark \o full \o Copies(" ", missing)
         [] c.type # "s" /\ ~Has(c, "-") /\ Has(c, "0") /\ c.precision = <<>> -> mark \o Copies("0", missing) \o full
         [] OTHER -> Copies(" ", missing) \o mark \o full

Plain == [flags |-> <<>>, width |-> <<>>, precision |-> <<>>, length |-> <<>>, type |-> "d"]

PrintfInit == conversion = Plain /\ printf_args \in PrintfArgs

PrintfNext ==
    /\ conversion = Plain
    /\ \E f \in Flags, w \in Widths, p \in Precisions, l \in Lengths, t \in Types :
          conversion' = [flags |-> f, width |-> w, precision |-> p, length |-> l, type |-> t]
    /\ UNCHANGED printf_args

PrintfSpec == PrintfInit /\ [][PrintfNext]_printfVars

\* Forms the library writes otherwise: a sign asked of an unsigned conversion is
\* written; the digit 0 is written for the value 0 with the precision 0 or only
\* a dot; and the mark of the base is written before 0 when the value became 0
\* by the length, because the code looks for 0 before it narrows the argument.
Diverges(c, arg) ==
    \/ c.type \notin {"d", "i", "s"} /\ (Has(c, "+") \/ Has(c, " "))
    \/ c.type # "s" /\ c.precision \in {<<".">>, <<".", "0">>} /\ Unsigned(arg.n, Bits(c)) = 0
    \/ c.type \in {"x", "X"} /\ Has(c, "#") /\ arg.n # 0 /\ Unsigned(arg.n, Bits(c)) = 0

\* Every other conversion that suits its argument writes what the standard
\* of C says: the specifications printf translates a conversion to, for the
\* writer of {} fields, mean the same.
Suits(c, arg) ==
    /\ (c.type = "s") = (arg.type = "string")
    /\ ~(c.type = "s" /\ \E f \in {"0", "#", "+", " "} : Has(c, f))
    /\ c.length \in {<<>>, <<"h">>, <<"h", "h">>} \/ arg.n \in 0 .. MaxInt

PrintfAgrees ==
    LET arg == printf_args[1] IN
    Suits(conversion, arg) /\ ~Diverges(conversion, arg) =>
        printf(SpelledConversion(conversion), printf_args) =
            Right(<<"[">> \o Asked(conversion, arg) \o <<"]">>)

=============================================================================
