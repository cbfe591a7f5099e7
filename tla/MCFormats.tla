----------------------------- MODULE MCFormats ------------------------------
(***************************************************************************)
(* How a message gets its text, part by part: patterns and consoles, format*)
(* strings with their arguments, the buffers that keep a message, printf.  *)
(* The parts share no state, so a behaviour is one of a single part, chosen*)
(* at the beginning, while the others rest.                                *)
(***************************************************************************)
EXTENDS PatternFormatter, FmtCompile, FmtArgs, LogMsgBuffer, FmtPrintf

VARIABLE part

(* Patterns: eleven flags in a few widths, and colour marks around a field. *)
Pads == {NoPad, PadTo(2, "left", TRUE), PadTo(12, "right", FALSE)}
PatternFlags == {"n", "D", "S", "z", "u", "s", "+", "q", "k", "%", "v"}
SomeConsoles == {Console("ansi", TRUE), Console("win", FALSE), Console("redirected", FALSE)}
AnyField == {Field(f, p) : f \in PatternFlags, p \in Pads}
SomeField == {Field("v", PadTo(1, "right", TRUE)), Field("S", PadTo(4, "center", FALSE)), Field("z", NoPad)}
Mark(f) == Field(f, NoPad)
SomeLists ==
    {<<Literal(<<"x", "-">>), f>> : f \in AnyField}
    \cup {<<Mark("^"), f, Mark("$"), g>> : f \in SomeField, g \in SomeField}
    \cup {<<Field("v", NoPad), Mark("$"), Field("n", NoPad), Mark("^")>>,
          <<Literal(<<"x">>), Field("!", PadTo(6, "left", FALSE)), Literal(<<"]">>)>>,
          <<Field("v", NoPad), Field("end", PadTo(3, "left", FALSE))>>}
LaterSome == {<<Field("z", NoPad), Field("S", NoPad)>>}
SomeSizes == [level |-> 4, func |-> 3, line |-> 2, id |-> 2, dir |-> 2, month |-> 5]
SomeOffset == <<0, 0, 60, 60, 60>>
OffsetFrom0 == [s \in 0 .. 4 |-> IF s < 2 THEN 30 ELSE 60]

(* Format strings: what they may start with, before the alphabet goes on. *)
SomeStarts == {<<>>, <<"{", ":">>, <<"x", "{", "2", ":", ".">>}
SomeArgs ==
    {<<IntArg(-3), StrArg(<<"a", "b">>)>>,
     <<Arg("uint", 5, <<>>, <<>>), IntArg(11), StrArg(<<"x", "y", "z">>)>>,
     <<Arg("bool", 1, <<>>, <<"a">>), Arg("char", 7, <<>>, <<>>)>>}

\* The message fits into the object, or not.
NameLengths == [m \in {"short", "long"} |-> 1]
TextLengths == [m \in {"short", "long"} |-> IF m = "short" THEN 1 ELSE 3]

(* The parts of a printf conversion.  8 does not fit into a char of 3 bits, 16
   not into a short of 4. *)
SomeFlags == {<<>>} \cup {<<f>> : f \in {"-", "+", "0", " ", "#"}}
             \cup {<<"0", "-">>, <<"#", "0">>, <<"+", "0">>, <<" ", "+">>, <<"-", "0">>, <<"-", "#">>}
SomeWidths == {<<>>, <<"3">>, <<"1", "0">>}
SomePrecisions == {<<>>, <<".">>, <<".", "1">>, <<".", "6">>}
SomeLengths == {<<>>, <<"h">>, <<"h", "h">>, <<"l">>, <<"L">>}
SomePrintf == {<<IntArg(-3)>>, <<IntArg(9)>>, <<IntArg(0)>>, <<IntArg(8)>>, <<IntArg(16)>>,
               <<Arg("uint", 45, <<>>, <<>>)>>, <<StrArg(<<"a", "b", "c">>)>>}

\* Each part starts from its own states while the others rest.
PatternIdle ==
    /\ asked = <<>> /\ formatters = <<>> /\ cached_tm = NoDate /\ last_log_secs = 0
    /\ cache = <<>> /\ console = Console("plain", FALSE) /\ printed = NothingYet
FormatIdle == start = <<>> /\ format_str = <<>> /\ format_args = <<>>
ArgsIdle == caller = [x \in CallerVars |-> "t"] /\ ArgsInit
BufferIdle == user = "async" /\ BufferInit
PrintfIdle == conversion = Plain /\ printf_args = <<IntArg(0)>>

FormatsInit ==
    \/ part = "pattern" /\ PatternInit /\ FormatIdle /\ ArgsIdle /\ BufferIdle /\ PrintfIdle
    \/ part = "format" /\ PatternIdle /\ FormatInit /\ ArgsIdle /\ BufferIdle /\ PrintfIdle
    \/ part = "arguments" /\ PatternIdle /\ FormatIdle /\ ArgsInit /\ BufferIdle /\ PrintfIdle
    \/ part = "buffers" /\ PatternIdle /\ FormatIdle /\ ArgsIdle /\ BufferInit /\ PrintfIdle
    \/ part = "printf" /\ PatternIdle /\ FormatIdle /\ ArgsIdle /\ BufferIdle /\ PrintfInit

FormatsNext ==
    /\ UNCHANGED part
    /\ \/ part = "pattern" /\ PatternNext /\ UNCHANGED <<formatVars, argVars, bufferVars, printfVars>>
       \/ part = "format" /\ FormatNext /\ UNCHANGED <<patternVars, argVars, bufferVars, printfVars>>
       \/ part = "arguments" /\ ArgsNext /\ UNCHANGED <<patternVars, formatVars, bufferVars, printfVars>>
       \/ part = "buffers" /\ BufferNext /\ UNCHANGED <<patternVars, formatVars, argVars, printfVars>>
       \/ part = "printf" /\ PrintfNext /\ UNCHANGED <<patternVars, formatVars, argVars, bufferVars>>

FormatsSpec == FormatsInit /\ [][FormatsNext]_<<part, patternVars, formatVars, argVars, bufferVars, printfVars>>
=============================================================================
