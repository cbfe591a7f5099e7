------------------------------ MODULE FmtCompile ------------------------------
(***************************************************************************)
(* Format strings that the compiler of the program sees (FMT_COMPILE):     *)
(* compile_format_string walks through the string by itself, without the   *)
(* parser of format(), and makes it a chain of parts that know the types   *)
(* of their arguments.  It does not know strings that choose arguments by  *)
(* number or name: those of FMT_STRING are left to compile(), and those of *)
(* FMT_COMPILE, of another base class, are refused by the compiler (C++17).*)
(* And the claim that all the ways through a format string lead to the     *)
(* same text.                                                              *)
(***************************************************************************)
EXTENDS FmtFormat

Chain(parts) == [kind |-> "chain", parts |-> parts]
Unknown == [kind |-> "unknown", parts |-> <<>>]     \* unknown_format
DoesNotCompile == [kind |-> "error", parts |-> <<>>]

\* parse_specs: a parser of its own at pos, for the type of argument id.
parse_specs(f, args, pos, id) ==
    on_format_specs([Reader(f, args, "static") EXCEPT !.at = pos, !.id = IndexId(id)])

\* parse_text: the place of the next brace.
parse_text(f, pos) ==
    CHOOSE e \in pos .. Len(f) + 1 :
        /\ e = Len(f) + 1 \/ f[e] \in {"{", "}"}
        /\ \A i \in pos .. e - 1 : f[i] \notin {"{", "}"}

\* compile_format_string and parse_tail: from pos on, where id is the next
\* argument.  What follows a closing brace is taken for a second one, and
\* what follows the specifications for the brace that closes the field.
RECURSIVE compile_format_string(_, _, _, _)
compile_format_string(f, args, pos, id) ==
    LET last == pos = Len(f)
        second == f[pos + 1]
        specified == parse_specs(f, args, pos + 2, id)
        end == parse_text(f, pos + 1)
        Then(part, at, next) ==
            LET rest == compile_format_string(f, args, at, next)
            IN IF rest.kind = "chain" THEN Chain(<<part>> \o rest.parts) ELSE rest
        Field == [kind |-> "field", id |-> IndexId(id), specs |-> Specs,
                  width_ref |-> [by |-> "none"], precision_ref |-> [by |-> "none"]]
    IN CASE pos = Len(f) + 1 -> Chain(<<>>)
         [] pos > Len(f) + 1 -> DoesNotCompile
         [] pos <= Len(f) /\ f[pos] \in {"{", "}"} /\ last -> DoesNotCompile
         [] pos < Len(f) /\ f[pos] = "{" ->
                CASE second = "{" -> Then(TextPart(<<"{">>), pos + 2, id)
                  [] second \in {"}", ":"} /\ id >= Len(args) -> DoesNotCompile
                  [] second = "}" /\ id < Len(args) -> Then(Field, pos + 2, id + 1)
                  [] second = ":" /\ id < Len(args) ->
                        IF specified.error # "" THEN DoesNotCompile
                        ELSE Then(FieldPart(specified), specified.at + 1, id + 1)
                  [] OTHER -> Unknown
         [] pos < Len(f) /\ f[pos] = "}" -> Then(TextPart(<<"}">>), pos + 2, id)
         [] OTHER -> Then(TextPart(SubSeq(f, pos, end - 1)), end, id)

\* text, field, spec_field: a part is written without the other arguments,
\* so a width or precision that an argument gives is never found.
WriteStatic(part, args) ==
    CASE part.kind = "text" -> Right(part.text)
      [] part.kind = "field" /\ \E ref \in {part.width_ref, part.precision_ref} : ref.by # "none" ->
            Wrong("argument not found")
      [] OTHER -> FormatArg(part.specs, get(args, part.id))

\* concat
FormatStatic(parts, args) ==
    LET Add(done, part) ==
            LET next == WriteStatic(part, args)
            IN IF done.error # "" THEN done
               ELSE IF next.error # "" THEN next ELSE Right(done.text \o next.text)
    IN FoldLeft(Add, Right(<<>>), parts)

\* compile_to_parts: the parts of compile() in an array of the size that was
\* counted, which has one part at least.
InArray(parts, counted) ==
    parts \o Copies(TextPart(<<>>), Excess(IF counted = 0 THEN 1 ELSE counted, Len(parts)))
compile_to_parts(f) == InArray(Compile(f).made, count_parts(f))

\* A string that was compiled, or was not.
Compiled(written) == [compiles |-> TRUE, written |-> written]
NotCompiled == [compiles |-> FALSE, written |-> Right(<<>>)]

\* format() of a FMT_COMPILE string: with an unknown format there are no parts
\* to write, and it does not compile.  "{}" has a way of its own in the code,
\* to_string, with the same text.
WriteMade(static, args) ==
    IF static.kind = "chain" THEN Compiled(FormatStatic(static.parts, args)) ELSE NotCompiled

FormatCompileString(f, args) == WriteMade(compile_format_string(f, args, 1, 0), args)

\* format() of what fmt::compile made of a FMT_STRING string.  It is not told the
\* types of the arguments: a field that takes the next one does not compile, and
\* the unknown formats are written through the array.
WriteArray(static, f, args, compiled) ==
    IF static.kind # "unknown" THEN WriteMade(static, args)
    ELSE IF compiled.error # "" THEN NotCompiled
    ELSE Compiled(FormatCompiled(compile_to_parts(f), args))

FormatCompiledString(f, args) == WriteArray(compile_format_string(f, <<>>, 1, 0), f, args, Compile(f))

-----------------------------------------------------------------------------
(* The ways through a format string.                                       *)

Refs(parts) ==
    {<<"width", parts[i].width_ref>> : i \in {j \in DOMAIN parts : parts[j].kind = "field"}}
    \cup {<<"precision", parts[i].precision_ref>> : i \in {j \in DOMAIN parts : parts[j].kind = "field"}}
Dynamic(parts) == {ref \in Refs(parts) : ref[2].by # "none"}
Named(parts) == \E i \in DOMAIN parts : parts[i].kind = "field" /\ parts[i].id.by = "name"

\* Compiled first or written at once: the same text and the same refusals,
\* except that a compiled string does not report an argument that is missing.
\* The loops of the parser and the counter of parts agree as well.
CompiledAgrees(f, args, short, compiled) ==
    /\ FormatLong(f, args) = short
    /\ short.error = "" =>
          /\ compiled.error = ""
          /\ FormatCompiled(compiled.made, args) = short
          /\ count_parts(f) = Len(compiled.made)
    /\ short.error \notin {"", "argument not found"} =>
          compiled.error # "" \/ FormatCompiled(compiled.made, args).error # ""

\* A string that the checker lets pass is written, unless an argument that
\* gives a width or a precision is of no use; and the checker refuses no
\* string that can be written, except for fields by name.
CheckAgrees(f, args, short, compiled) ==
    LET checked == Check(f, args)
        useful == \A ref \in Dynamic(compiled.made) :
                      get_dynamic_spec(ref[1], get(args, ref[2])).error = ""
    IN /\ checked = "" => compiled.error = "" /\ (useful <=> short.error = "")
       /\ short.error = "" => checked = "" \/ Named(compiled.made)

\* What the compiler makes of a string that can be written has the same text,
\* if it takes the string; only a width or a precision from an argument is then
\* missing from the chain.  FMT_COMPILE takes every such string in which no field
\* says which argument it wants.
StaticAgrees(f, chain, array, short, compiled) ==
    LET chooses == \E i \in 2 .. Len(f) : f[i - 1] = "{" /\ f[i] \notin {"{", "}", ":"}
    IN short.error = "" =>
        /\ ~chooses => chain.compiles
        /\ chain.compiles => IF Dynamic(compiled.made) = {} THEN chain.written = short
                             ELSE chain.written.error # ""
        /\ array.compiles => array.written = short

AllAgree(f, args, short, compiled) ==
    /\ CompiledAgrees(f, args, short, compiled)
    /\ CheckAgrees(f, args, short, compiled)
    /\ StaticAgrees(f, FormatCompileString(f, args), FormatCompiledString(f, args), short, compiled)

\* Whichever way a format string takes, the outcome is the same: written at
\* once, compiled into parts (format_handler, compile()), checked by the
\* compiler or made a chain or an array by it; the three parts name what is
\* excepted.
FormatsAgree ==
    AllAgree(format_str, format_args, Format(format_str, format_args), Compile(format_str))

=============================================================================
