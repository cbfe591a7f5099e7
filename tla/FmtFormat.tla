------------------------------ MODULE FmtFormat -------------------------------
(***************************************************************************)
(* The format strings of fmt, {id:specs}, and what becomes of them:        *)
(* format() parses a string and writes as it goes; compile() parses it     *)
(* into parts, which are written later with the arguments; count_parts     *)
(* only counts the parts, to size the array that holds them; and the       *)
(* format_string_checker only checks, while the program is compiled, that  *)
(* the string fits the types of the arguments.  All four are handlers of   *)
(* the same parser, which has a loop for short strings and another for     *)
(* long ones.                                                              *)
(*                                                                         *)
(* A reader r is a parser and its handler: the string f, the arguments,    *)
(* the handler by name, the place the parser is at, next_arg_id_, the      *)
(* argument and specs of the field at hand, what was made of the string so *)
(* far, and the error that was thrown.  A format string of the model grows *)
(* one character at a time.                                                *)
(***************************************************************************)
EXTENDS FmtSpecs

CONSTANTS
    Starts,         \* what a format string may begin with
    Alphabet,       \* the characters it grows by
    MaxGrowth,      \* bound: how many of them
    ArgLists        \* the arguments it is used with

ASSUME FormatAssumption ==
    /\ Starts \subseteq Seq(STRING) /\ Alphabet \subseteq STRING
    /\ ArgLists \subseteq Seq([type : STRING, n : Int, s : Seq(STRING), name : Seq(STRING)])

VARIABLES
    start, format_str, format_args

formatVars == <<start, format_str, format_args>>

-----------------------------------------------------------------------------
(* The reader.                                                             *)

Reader(f, args, handler) ==
    [f |-> f, args |-> args, handler |-> handler, at |-> 1, text |-> 1, next |-> 0,
     id |-> [by |-> "none"], specs |-> Specs, width_ref |-> [by |-> "none"],
     precision_ref |-> [by |-> "none"], made |-> <<>>, error |-> ""]

AtEnd(r) == r.at > Len(r.f)
Here(r) == IF AtEnd(r) THEN "end" ELSE r.f[r.at]
Skip(r) == [r EXCEPT !.at = @ + 1]
Throw(r, why) == [r EXCEPT !.error = IF @ = "" THEN why ELSE @]

\* The next step of the parser, unless an error is thrown.
Unless(r, then) == IF r.error # "" THEN r ELSE then

AutoId == [by |-> "auto"]
IndexId(n) == [by |-> "index", index |-> n]
NameId(s) == [by |-> "name", name |-> s]

\* basic_format_args::get and get_id: the argument of an index or a name.
\* No argument has an index above the last.
get(args, id) ==
    LET named == {i \in DOMAIN args : args[i].name = id.name}
    IN CASE id.by = "index" -> IF id.index < Len(args) THEN args[id.index + 1] ELSE NoArg
         [] id.by = "name" ->
                IF named = {} THEN NoArg ELSE args[CHOOSE i \in named : \A j \in named : i <= j]

\* Ids are given out in order or chosen by number, not both:
\* next_arg_id and check_arg_id.  r.id is then the index or the name.
ResolveId(r, id) ==
    CASE id.by = "auto" /\ r.next >= 0 -> [r EXCEPT !.id = IndexId(r.next), !.next = @ + 1]
      [] id.by = "auto" /\ r.next < 0 -> Throw(r, "cannot switch from manual to automatic argument indexing")
      [] id.by = "index" /\ r.next > 0 -> Throw(r, "cannot switch from automatic to manual argument indexing")
      [] id.by = "index" /\ r.next <= 0 -> [r EXCEPT !.id = id, !.next = -1]
      [] id.by = "name" -> [r EXCEPT !.id = id]

-----------------------------------------------------------------------------
(* The handlers: format_handler, format_string_compiler, part_counter and  *)
(* format_string_checker.                                                  *)

TextPart(text) == [kind |-> "text", text |-> text]
FieldPart(r) == [kind |-> "field", id |-> r.id, specs |-> r.specs,
                 width_ref |-> r.width_ref, precision_ref |-> r.precision_ref]

on_text(r, first, last) ==
    LET text == SubSeq(r.f, first, last)
        made == CASE r.handler = "format" -> text
                  [] r.handler = "compile" /\ text # <<>> -> <<TextPart(text)>>
                  [] r.handler = "count" /\ text # <<>> -> <<1>>
                  [] OTHER -> <<>>
    IN Unless(r, [r EXCEPT !.made = @ \o made])

\* compile_parse_context: an id by number is at once compared with the number
\* of arguments.
WithinArgs(r) ==
    IF r.handler = "check" /\ r.error = "" /\ r.id.by = "index" /\ r.id.index >= Len(r.args)
    THEN Throw(r, "argument not found") ELSE r

\* The counter counts a field when it sees its id; the checker does not know
\* names; the writer looks the argument up.
LookedUp(r) ==
    CASE r.handler = "check" /\ r.error = "" /\ r.id.by = "name" ->
            Throw(r, "compile-time checks don't support named arguments")
      [] r.handler = "format" /\ r.error = "" /\ get(r.args, r.id) = NoArg -> Throw(r, "argument not found")
      [] OTHER -> r

on_arg_id(r, id) ==
    IF r.handler = "count" THEN [r EXCEPT !.made = Append(@, 1)]
    ELSE LookedUp(WithinArgs(ResolveId(r, id)))

\* A width or precision that an argument gives: format() reads the argument
\* at once, compile() and the checker keep the reference, by name too.
GiveSpec(known, what, field) ==
    LET arg == get(known.args, known.id)
        given == get_dynamic_spec(what, arg)
    IN CASE known.error # "" -> known
         [] known.error = "" /\ known.handler # "format" /\ what = "width" ->
                [known EXCEPT !.width_ref = known.id, !.id = field]
         [] known.error = "" /\ known.handler # "format" /\ what = "precision" ->
                [known EXCEPT !.precision_ref = known.id, !.id = field]
         [] OTHER -> IF arg = NoArg THEN Throw(known, "argument not found")
                     ELSE IF given.error # "" THEN Throw(known, given.error)
                     ELSE [known EXCEPT !.specs[what] = given.value, !.id = field]

on_dynamic(r, what, id) == GiveSpec(WithinArgs(ResolveId(r, id)), what, r.id)

\* specs_checker, around the handlers that know the type of the argument.
Checked(r, rule) ==
    LET type == get(r.args, r.id).type
        wrong == CASE rule = "sign" -> check_sign(type)
                   [] rule = "numeric" -> require_numeric_argument(type)
                   [] rule = "precision" -> check_precision(type)
    IN IF r.handler \in {"format", "check", "static"} /\ wrong # "" THEN Throw(r, wrong) ELSE r

-----------------------------------------------------------------------------
(* The parts of a field.                                                   *)

NameStart == {"a", "b", "c", "d", "e", "f", "g", "h", "s", "x", "X", "B", "L", "_"}
NameRest(c) == c \in NameStart \/ IsNumeral(c)

EndOfIndex(r) == IF Here(r) \in {"}", ":"} THEN r ELSE Throw(r, "invalid format string")

TakeId(r, what, id) ==
    CASE r.error # "" -> r
      [] r.error = "" /\ what = "field" -> on_arg_id(r, id)
      [] OTHER -> on_dynamic(r, what, id)

\* parse_arg_id: what it finds is the id of the field, or of the argument that
\* gives a width or a precision.
parse_arg_id(r, what) ==
    LET number == IF Here(r) = "0" THEN [at |-> r.at + 1, value |-> 0, error |-> ""]
                  ELSE parse_nonnegative_int(r.f, r.at)
        end == CHOOSE e \in r.at .. Len(r.f) + 1 :
                   /\ e = Len(r.f) + 1 \/ ~NameRest(r.f[e])
                   /\ \A i \in r.at .. e - 1 : NameRest(r.f[i])
        id == CASE Here(r) \in {"}", ":"} -> AutoId
                [] IsNumeral(Here(r)) -> IndexId(number.value)
                [] OTHER -> NameId(SubSeq(r.f, r.at, end - 1))
        after == CASE Here(r) \in {"}", ":"} -> r
                   [] IsNumeral(Here(r)) -> EndOfIndex(Throw([r EXCEPT !.at = number.at], number.error))
                   [] Here(r) \in NameStart -> [r EXCEPT !.at = end]
                   [] OTHER -> Throw(r, "invalid format string")
    IN TakeId(after, what, id)

\* parse_align: an alignment after a fill character, or first.
Alignments == [c \in {"<", ">", "^"} |->
                  CASE c = "<" -> "left" [] c = ">" -> "right" [] c = "^" -> "center"]
parse_align(r) ==
    LET second == Here(Skip(r))
    IN CASE second \in DOMAIN Alignments /\ Here(r) = "{" -> Throw(r, "invalid fill character '{'")
         [] second \in DOMAIN Alignments /\ Here(r) # "{" ->
                [r EXCEPT !.specs.fill = Here(r), !.specs.align = Alignments[second], !.at = @ + 2]
         [] second \notin DOMAIN Alignments /\ Here(r) \in DOMAIN Alignments ->
                [Skip(r) EXCEPT !.specs.align = Alignments[Here(r)]]
         [] OTHER -> r

parse_sign(r) ==
    LET sign == CASE Here(r) = "+" -> "plus" [] Here(r) = "-" -> "minus"
                  [] Here(r) = Blank -> "space" [] OTHER -> "none"
    IN IF sign = "none" \/ r.error # "" THEN r
       ELSE Unless(Checked(r, "sign"), [Skip(r) EXCEPT !.specs.sign = sign])

parse_hash(r) ==
    IF Here(r) # "#" \/ r.error # "" THEN r
    ELSE Unless(Checked(r, "numeric"), [Skip(r) EXCEPT !.specs.alt = "alt"])

parse_zero(r) ==
    IF Here(r) # "0" \/ r.error # "" THEN r
    ELSE Unless(Checked(r, "numeric"),
                [Skip(r) EXCEPT !.specs.align = "numeric", !.specs.fill = "0"])

CloseBrace(r, why) == IF Here(r) = "}" THEN Unless(r, Skip(r)) ELSE Throw(r, why)

\* An argument in braces, for a width or a precision.
Braced(r, what) ==
    CloseBrace(IF AtEnd(Skip(r)) THEN Skip(r) ELSE parse_arg_id(Skip(r), what), "invalid format string")

Number(r, what) ==
    LET number == parse_nonnegative_int(r.f, r.at)
    IN Throw([r EXCEPT !.specs[what] = number.value, !.at = number.at], number.error)

parse_width(r) ==
    CASE r.error = "" /\ IsNumeral(Here(r)) -> Number(r, "width")
      [] r.error = "" /\ Here(r) = "{" -> Braced(r, "width")
      [] OTHER -> r

parse_precision(r) ==
    LET given == CASE IsNumeral(Here(Skip(r))) -> Number(Skip(r), "precision")
                   [] Here(Skip(r)) = "{" -> Braced(Skip(r), "precision")
                   [] OTHER -> Throw(Skip(r), "missing precision specifier")
    IN IF Here(r) # "." \/ r.error # "" THEN r ELSE Checked(given, "precision")

parse_type(r) == IF Here(r) \in {"}", "end"} THEN r ELSE Unless(r, [Skip(r) EXCEPT !.specs.type = Here(r)])

parse_format_specs(r) ==
    IF Here(r) \in {"}", "end"} THEN r
    ELSE parse_type(parse_precision(parse_width(parse_zero(parse_hash(parse_sign(parse_align(r)))))))

-----------------------------------------------------------------------------
(* Fields and strings.                                                     *)

Write(r, result) == IF result.error # "" THEN Throw(r, result.error) ELSE [r EXCEPT !.made = @ \o result.text]

\* Mutant: the first closing brace ends the field.
SkipToBrace(r) ==
    LET closing == {i \in r.at .. Len(r.f) : r.f[i] = "}"}
    IN [r EXCEPT !.at = IF closing = {} THEN Len(r.f) + 1
                        ELSE CHOOSE i \in closing : \A j \in closing : i <= j]

\* The counter looks for the brace that closes the field.
SkipBraces(r) ==
    LET net[i \in Nat] == IF i < r.at THEN 0
                          ELSE net[i - 1] + (CASE r.f[i] = "{" -> 1 [] r.f[i] = "}" -> -1 [] OTHER -> 0)
        closing == {i \in r.at .. Len(r.f) : net[i] < 0}
    IN [r EXCEPT !.at = IF closing = {} THEN Len(r.f) + 1
                        ELSE CHOOSE i \in closing : \A j \in closing : i <= j]

\* The types of specifications an argument may have.
handle_int_type_spec(type) == type \in {"", "d", "x", "X", "b", "B", "o", "L", "c"}
check_string_type_spec(type) == type \in {"", "s"}

\* char_specs_checker: a character written as a number, or as such and then
\* without what only numbers have.
char_specs_checker(specs) ==
    CASE specs.type \notin {"", "c"} /\ ~handle_int_type_spec(specs.type) -> "invalid type specifier"
      [] specs.type \in {"", "c"} /\ (specs.align = "numeric" \/ specs.sign # "none" \/ specs.alt # "") ->
            "invalid format specifier for char"
      [] OTHER -> ""

\* formatter::parse of a type of fmt's own: the specifications fit the type of
\* the argument.
CheckType(specs, type) ==
    CASE type \in {"int", "uint", "bool"} /\ ~handle_int_type_spec(specs.type) -> "invalid type specifier"
      [] type = "string" /\ ~check_string_type_spec(specs.type) -> "invalid type specifier"
      [] type = "char" -> char_specs_checker(specs)
      [] OTHER -> ""

\* on_format_specs, and what comes after the specifications.
EndSpecs(r) ==
    LET closed == IF Here(r) = "}" THEN r ELSE Throw(r, "missing '}' in format string")
        wrong == CheckType(r.specs, get(r.args, r.id).type)
    IN CASE r.handler \in {"check", "static"} -> Unless(r, IF wrong = "" THEN r ELSE Throw(r, wrong))
         [] r.handler = "format" ->
                Unless(closed, Write(closed, FormatArg(closed.specs, get(closed.args, closed.id))))
         [] r.handler = "compile" ->
                Unless(closed, [closed EXCEPT !.made = Append(@, FieldPart(closed))])

on_format_specs(r) ==
    IF r.handler = "count" THEN SkipBraces(r)
    ELSE EndSpecs(parse_format_specs([r EXCEPT !.specs = Specs]))

\* on_replacement_field: a field without specifications.
on_replacement_field(r) ==
    CASE r.handler \in {"count", "check"} -> r
      [] r.handler = "format" -> Write(r, FormatArg(Specs, get(r.args, r.id)))
      [] r.handler = "compile" -> [r EXCEPT !.made = Append(@, FieldPart(r))]

\* What comes after the id of a field.
AfterId(r) ==
    CASE r.error # "" -> r
      [] r.error = "" /\ Here(r) = "}" -> Skip(on_replacement_field(r))
      [] r.error = "" /\ Here(r) = ":" -> CloseBrace(on_format_specs(Skip(r)), "unknown format specifier")
      [] OTHER -> Throw(r, "missing '}' in format string")

parse_replacement_field(r) ==
    LET open == [Skip(r) EXCEPT !.specs = Specs, !.width_ref = [by |-> "none"], !.precision_ref = [by |-> "none"]]
    IN CASE r.error # "" -> r
         [] r.error = "" /\ AtEnd(open) -> Throw(open, "invalid format string")
         [] Here(open) = "{" -> Skip(on_text(open, open.at, open.at))
         [] OTHER -> AfterId(IF Here(open) = "}" THEN on_arg_id(open, AutoId) ELSE parse_arg_id(open, "field"))

\* The loop for strings of less than 32 characters; the text since r.text is
\* still to be written.
Pending(r, last) == on_text(r, r.text, last)
TextFrom(r, i) == [r EXCEPT !.at = i, !.text = i]
AfterField(r) == TextFrom(r, r.at)

\* Every round but those at the end or after an error takes a character at least.
ShortStep(r) ==
    CASE r.error # "" \/ AtEnd(r) -> r
      [] r.error = "" /\ Here(r) = "{" -> AfterField(parse_replacement_field(Pending(r, r.at - 1)))
      [] r.error = "" /\ Here(r) = "}" ->
            IF Here(Skip(r)) # "}" THEN Throw(r, "unmatched '}' in format string")
            ELSE TextFrom(Pending(r, r.at), r.at + 2)
      [] OTHER -> Skip(r)
\* What is pending at the end is written.
Finish(r, last) == Unless(r, Pending(r, last))
ShortLoop(r) ==
    LET step[i \in 0 .. Len(r.f)] == IF i = 0 THEN r ELSE ShortStep(step[i - 1])
    IN Finish(step[Len(r.f)], Len(r.f))

\* The place of c at first or later and before end; end if there is none.
Find(f, first, end, c) ==
    LET places == {i \in first .. end - 1 : f[i] = c}
    IN IF places = {} THEN end ELSE CHOOSE i \in places : \A j \in places : i <= j

\* The loop for longer strings looks for { first, and for } in the text
\* before it (writer), from r.text on.
WriteStep(r, end) ==
    LET p == Find(r.f, r.text, end, "}")
    IN IF r.text = end \/ r.error # "" THEN r
       ELSE IF p = end THEN [on_text(r, r.text, end - 1) EXCEPT !.text = end]
       ELSE IF p + 1 = end \/ r.f[p + 1] # "}" THEN Throw(r, "unmatched '}' in format string")
       ELSE [on_text(r, r.text, p) EXCEPT !.text = p + 2]
WriteText(r, end) ==
    LET step[i \in 0 .. end - r.at] == IF i = 0 THEN [r EXCEPT !.text = r.at] ELSE WriteStep(step[i - 1], end)
    IN [step[end - r.at] EXCEPT !.at = end]

LongStep(r) ==
    LET p == Find(r.f, r.at, Len(r.f) + 1, "{")
    IN IF AtEnd(r) \/ r.error # "" THEN r
       ELSE IF p = Len(r.f) + 1 THEN WriteText(r, p)
       ELSE parse_replacement_field(WriteText(r, p))
LongLoop(r) ==
    LET step[i \in 0 .. Len(r.f)] == IF i = 0 THEN r ELSE LongStep(step[i - 1])
    IN step[Len(r.f)]

\* parse_format_string takes the one loop or the other by the length of f;
\* here any string may take either.
parse_format_string(f, args, handler) == ShortLoop(Reader(f, args, handler))
parse_long_format_string(f, args, handler) == LongLoop(Reader(f, args, handler))

\* check_format_string: the error at compile time, or "".
Check(f, args) == parse_format_string(f, args, "check").error

-----------------------------------------------------------------------------
(* format() and the compiled format.                                       *)

Outcome(r) == IF r.error # "" THEN Wrong(r.error) ELSE Right(r.made)
Format(f, args) == Outcome(parse_format_string(f, args, "format"))
FormatLong(f, args) == Outcome(parse_long_format_string(f, args, "format"))

Compile(f) == parse_format_string(f, <<>>, "compile")
count_parts(f) == Len(parse_format_string(f, <<>>, "count").made)

\* handle_dynamic_spec
Resolved(specs, what, ref, args) ==
    LET given == get_dynamic_spec(what, get(args, ref))
    IN IF ref.by = "none" THEN [error |-> "", specs |-> specs]
       ELSE [error |-> given.error, specs |-> [specs EXCEPT ![what] = given.value]]

\* cf::vformat_to writes one part; the checks of the type come here.
WriteField(part, args) ==
    LET arg == get(args, part.id)
        wide == Resolved(part.specs, "width", part.width_ref, args)
        full == Resolved(wide.specs, "precision", part.precision_ref, args)
        broken == {rule \in {<<full.specs.align = "numeric", require_numeric_argument(arg.type)>>,
                             <<full.specs.sign # "none", check_sign(arg.type)>>,
                             <<full.specs.alt # "", require_numeric_argument(arg.type)>>,
                             <<full.specs.precision >= 0, check_precision(arg.type)>>} :
                      rule[1] /\ rule[2] # ""}
    IN CASE wide.error # "" -> Wrong(wide.error)
         [] wide.error = "" /\ full.error # "" -> Wrong(full.error)
         [] wide.error = "" /\ full.error = "" /\ broken # {} -> Wrong((CHOOSE rule \in broken : TRUE)[2])
         [] OTHER -> FormatArg(full.specs, arg)

FormatCompiled(parts, args) ==
    LET Add(done, part) ==
            LET next == IF part.kind = "text" THEN Right(part.text) ELSE WriteField(part, args)
            IN IF done.error # "" THEN done
               ELSE IF next.error # "" THEN next ELSE Right(done.text \o next.text)
    IN FoldLeft(Add, Right(<<>>), parts)

-----------------------------------------------------------------------------
FormatInit == start \in Starts /\ format_str = start /\ format_args \in ArgLists

ReadToEnd(r) == r.error = "" \/ AtEnd(r) \/ AtEnd(Skip(r))

\* A string whose parse ended before its last character is not continued:
\* what follows would not be read.
FormatNext ==
    /\ Len(format_str) < Len(start) + MaxGrowth
    /\ ReadToEnd(Compile(format_str))
    /\ \E c \in Alphabet : format_str' = Append(format_str, c)
    /\ UNCHANGED <<start, format_args>>

FormatSpec == FormatInit /\ [][FormatNext]_formatVars

\* A text without the blanks around it.
Trimmed(text) ==
    LET shown == {i \in DOMAIN text : text[i] # Blank}
        first == CHOOSE i \in shown : \A j \in shown : i <= j
        last == CHOOSE i \in shown : \A j \in shown : j <= i
    IN IF shown = {} THEN <<>> ELSE SubSeq(text, first, last)

ValueOf(digits, base) ==
    LET value[i \in 0 .. Len(digits)] ==
            IF i = 0 THEN 0 ELSE base * value[i - 1] + NumeralValue(digits[i])
    IN value[Len(digits)]

\* The number a text shows: its sign, the mark of its base and its digits,
\* without the padding.
ReadsBack(text, specs, n) ==
    LET base == CASE specs.type \in {"", "d", "L"} -> 10 [] specs.type \in {"x", "X"} -> 16
                  [] specs.type \in {"b", "B"} -> 2 [] specs.type = "o" -> 8
        bare == Trimmed(text)
        body == IF bare # <<>> /\ bare[1] \in {"-", "+"} THEN Tail(bare) ELSE bare
        digits == IF Len(body) > 2 /\ body[2] \in {"x", "X", "b", "B"} /\ specs.alt # ""
                  THEN SubSeq(body, 3, Len(body)) ELSE body
        value == ValueOf(digits, base)
    IN /\ digits # <<>>
       /\ \A i \in DOMAIN digits : \E k \in 1 .. base : digits[i] \in {Numerals.lower[k], Numerals.upper[k]}
       /\ n = IF bare[1] = "-" THEN -value ELSE value

FieldReadsBack(specs, width, n, written) ==
    LET readable == written.error = "" /\ specs.type # "c" /\ (specs.fill = Blank \/ specs.align = "numeric")
    IN readable => ReadsBack(written.text, specs, n) /\ Len(written.text) >= width

WidthAsked(part, args) ==
    IF part.width_ref.by = "none" THEN part.specs.width ELSE get(args, part.width_ref).n

\* Whatever the specifications of a field, the text of an integer (write_int)
\* reads back as that integer and is as wide as was asked, by the format string
\* or by an argument.  Fields whose
\* padding could itself be a digit are left out.
NumbersReadBack ==
    \A part \in ToSet(Compile(format_str).made) :
        part.kind = "field" /\ get(format_args, part.id).type \in {"int", "uint"} =>
            FieldReadsBack(part.specs, WidthAsked(part, format_args), get(format_args, part.id).n,
                           WriteField(part, format_args))

=============================================================================
