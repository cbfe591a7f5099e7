------------------------------- MODULE FmtSpecs -------------------------------
(***************************************************************************)
(* How fmt (bundled with spdlog) writes one argument under format          *)
(* specifications: the checks of the specifications against the type of    *)
(* the argument, padding and alignment, integers, characters, booleans and *)
(* strings, and the numbers a format string itself contains.  Floating     *)
(* point, pointers and types of the user are left out; the locale is the   *)
(* classic one, which does not group digits.  Results are records with the *)
(* text written, a sequence of characters, or the error that is thrown.    *)
(***************************************************************************)
EXTENDS Integers, Sequences, SequencesExt

CONSTANT IntBits        \* the width of int: 32 in the code

MaxInt == 2 ^ (IntBits - 1) - 1

\* The second part follows from the first; the provers know no powers.
ASSUME IntBitsAssumption == IntBits \in Nat \ {0} /\ MaxInt \in Nat

Blank == " "

\* An argument: its type, its value (0 or 1 of a bool, the code of a char),
\* its characters if it is a string, and its name or <<>>.
Arg(type, n, s, name) == [type |-> type, n |-> n, s |-> s, name |-> name]
IntArg(n) == Arg("int", n, <<>>, <<>>)
StrArg(s) == Arg("string", 0, s, <<>>)
NoArg == Arg("none", 0, <<>>, <<>>)

is_integral_type(type) == type \in {"int", "uint", "bool", "char"}
is_arithmetic_type(type) == is_integral_type(type)

Specs == [width |-> 0, precision |-> -1, type |-> "", align |-> "none",
          sign |-> "none", alt |-> "", fill |-> Blank]

Right(text) == [error |-> "", text |-> text]
Wrong(why) == [error |-> why, text |-> <<>>]

-----------------------------------------------------------------------------
(* The checks of numeric_specs_checker: "" or the error.                   *)

require_numeric_argument(type) ==
    IF is_arithmetic_type(type) THEN "" ELSE "format specifier requires numeric argument"

check_sign(type) ==
    CASE ~is_arithmetic_type(type) -> require_numeric_argument(type)
      [] type \in {"uint", "bool"} -> "format specifier requires signed argument"
      [] OTHER -> ""

check_precision(type) ==
    IF is_integral_type(type) THEN "precision not allowed for this argument type" ELSE ""

\* width_checker and precision_checker, and get_dynamic_spec: the number an
\* argument gives a width or a precision.
get_dynamic_spec(what, arg) ==
    CASE arg.type \notin {"int", "uint"} ->
            [error |-> IF what = "width" THEN "width is not integer" ELSE "precision is not integer", value |-> 0]
      [] arg.n < 0 ->
            [error |-> IF what = "width" THEN "negative width" ELSE "negative precision", value |-> 0]
      [] arg.n > MaxInt -> [error |-> "number is too big", value |-> 0]
      [] OTHER -> [error |-> "", value |-> arg.n]

-----------------------------------------------------------------------------
(* Digits.                                                                 *)

Numerals == [lower |-> <<"0", "1", "2", "3", "4", "5", "6", "7",
                         "8", "9", "a", "b", "c", "d", "e", "f">>,
             upper |-> <<"0", "1", "2", "3", "4", "5", "6", "7",
                         "8", "9", "A", "B", "C", "D", "E", "F">>]
IsNumeral(c) == \E i \in 1 .. 10 : Numerals.lower[i] = c
NumeralValue(c) == (CHOOSE i \in 1 .. 16 : Numerals.lower[i] = c \/ Numerals.upper[i] = c) - 1

\* The digits of n: format_decimal and format_uint write them from the last
\* to the first into the count_digits places before the end.
format_uint(n, base, case) ==
    LET digits[k \in Nat] == LET last == <<Numerals[case][(k % base) + 1]>>
                             IN IF k < base THEN last ELSE digits[k \div base] \o last
    IN digits[n]
format_decimal(n) == format_uint(n, 10, "lower")

\* parse_nonnegative_int: the number at place i of a format string, x being
\* what was read of it.  A number above MaxInt stops the reading at once.
TakeNumeral(f, x) ==
    IF x.at > Len(f) \/ ~IsNumeral(f[x.at]) THEN x
    ELSE IF x.value > MaxInt \div 10 THEN [x EXCEPT !.value = MaxInt + 1]
    ELSE [at |-> x.at + 1, value |-> x.value * 10 + NumeralValue(f[x.at])]
parse_nonnegative_int(f, i) ==
    LET read[k \in 0 .. Len(f)] ==
            IF k = 0 THEN [at |-> i, value |-> 0] ELSE TakeNumeral(f, read[k - 1])
        number == read[Len(f)]
    IN [at |-> number.at, value |-> number.value,
        error |-> IF number.value > MaxInt THEN "number is too big" ELSE ""]

-----------------------------------------------------------------------------
(* Padding.                                                                *)

Copies(c, n) == [i \in 1 .. n |-> c]
Excess(n, m) == IF n > m THEN n - m ELSE 0

\* write_padded: side is where a text without an alignment stands.
write_padded(specs, text, side) ==
    LET padding == Excess(specs.width, Len(text))
        left == CASE <<specs.align, side>> \in {<<"left", "left">>, <<"left", "right">>, <<"none", "left">>} -> 0
                  [] specs.align = "center" -> padding \div 2
                  [] OTHER -> padding
    IN Copies(specs.fill, left) \o text \o Copies(specs.fill, padding - left)

\* Mutant: the zeros come before the sign.
write_int_zeros_first(specs, prefix, digits) ==
    LET zeros == IF specs.align = "numeric" THEN Excess(specs.width, Len(prefix) + Len(digits))
                 ELSE Excess(specs.precision, Len(digits))
    IN write_padded(specs, Copies("0", zeros) \o prefix \o digits, "right")

\* write_int: <padding><prefix><zeros><digits><padding>
write_int(specs, prefix, digits) ==
    LET zeros == IF specs.align = "numeric" THEN Excess(specs.width, Len(prefix) + Len(digits))
                 ELSE Excess(specs.precision, Len(digits))
    IN write_padded(specs, prefix \o Copies("0", zeros) \o digits, "right")

\* A string is cut to its precision.
write_string(specs, s) ==
    write_padded(specs, IF specs.precision \in 0 .. Len(s) THEN SubSeq(s, 1, specs.precision) ELSE s, "left")

-----------------------------------------------------------------------------
(* Arguments.                                                              *)

CharOf(code) == "#" \o ToString(code)

\* int_writer and handle_int_type_spec: the value n in the base of the type.
\* A character is written without padding and without a sign.
int_writer(specs, n) ==
    LET value == IF n < 0 THEN -n ELSE n
        sign == CASE n < 0 -> <<"-">>
                  [] n >= 0 /\ specs.sign = "plus" -> <<"+">>
                  [] n >= 0 /\ specs.sign = "space" -> <<Blank>>
                  [] OTHER -> <<>>
        named == IF specs.alt = "" THEN sign ELSE sign \o <<"0", specs.type>>
        octal == format_uint(value, 8, "lower")
    IN CASE specs.type \in {"", "d", "L"} -> Right(write_int(specs, sign, format_decimal(value)))
         [] specs.type = "x" -> Right(write_int(specs, named, format_uint(value, 16, "lower")))
         [] specs.type = "X" -> Right(write_int(specs, named, format_uint(value, 16, "upper")))
         [] specs.type \in {"b", "B"} -> Right(write_int(specs, named, format_uint(value, 2, "lower")))
         [] specs.type = "o" ->
                Right(write_int(specs, IF specs.alt # "" /\ specs.precision <= Len(octal) /\ value # 0
                                       THEN Append(sign, "0") ELSE sign, octal))
         [] specs.type = "c" -> Right(<<CharOf(value)>>)
         [] OTHER -> Wrong("invalid type specifier")

\* handle_char_specs
char_writer(specs, code) ==
    CASE specs.type \notin {"", "c"} -> int_writer(specs, code)
      [] specs.type \in {"", "c"} /\ (specs.align = "numeric" \/ specs.sign # "none" \/ specs.alt # "") ->
            Wrong("invalid format specifier for char")
      [] OTHER -> Right(write_padded(specs, <<CharOf(code)>>, "left"))

\* arg_formatter_base: an argument under its specifications.
FormatArg(specs, arg) ==
    CASE arg.type \in {"int", "uint"} -> int_writer(specs, arg.n)
      [] arg.type = "char" -> char_writer(specs, arg.n)
      [] arg.type = "bool" /\ specs.type # "" -> int_writer(specs, arg.n)
      [] arg.type = "bool" /\ specs.type = "" ->
            Right(write_string(specs, IF arg.n = 1 THEN <<"t", "r", "u", "e">> ELSE <<"f", "a", "l", "s", "e">>))
      [] arg.type = "string" /\ specs.type \in {"", "s"} -> Right(write_string(specs, arg.s))
      [] arg.type = "none" -> Wrong("invalid argument type")
      [] OTHER -> Wrong("invalid type specifier")

=============================================================================
