-------------------------- MODULE PatternFormatter --------------------------
(***************************************************************************)
(* The text of a log message: pattern_formatter compiles a pattern into    *)
(* fields once, formats every message with them, and a console sink prints *)
(* the text with a part of it coloured.  A field keeps what it worked out  *)
(* for an earlier message (the calendar time, the date of "%+", the offset *)
(* of the zone, the time of the last message), and messages may carry any  *)
(* times: several threads log, and the clock of the system may be set.     *)
(*                                                                         *)
(* A character of the text is a triple of the field it belongs to, the     *)
(* value the field shows and its place in the field: what digits and names *)
(* are spelled of is left out, how many they are is not.                   *)
(***************************************************************************)
EXTENDS Naturals, Integers, Sequences, SequencesExt

CONSTANTS
    FieldLists,     \* patterns, as lists of what they are made of
    Consoles,       \* [kind, colours]: "plain", "ansi", "win", or "redirected" and "none"
    LaterLists,     \* patterns that may replace the first
    Custom,         \* flags with a handler of the user (custom_handlers_)
    MaxWidth,       \* max_width, and the length of spaces_: 64 in the code
    Times,          \* bound: times of messages, in ticks
    TicksPerSecond,
    Refresh,        \* seconds the offset of the zone is kept: 10 in the code
    Offset,         \* [seconds |-> minutes east], os::utc_minutes_offset
    ShortDays,      \* seconds of days whose number has one digit
    NameLens, PayloadLens, FileLens,    \* lengths of texts; 0 file: no source
    Size            \* lengths of "level", "func", "line", "id", "dir", "month"

VARIABLES
    asked,          \* what the pattern is made of
    formatters,     \* formatters_
    cached_tm,      \* cached_tm_, as a second, and last_log_secs_
    last_log_secs,
    cache,          \* what each field keeps
    console,        \* the sink
    printed         \* the last message and what became of it

patternVars == <<asked, formatters, cached_tm, last_log_secs, cache, console, printed>>

-----------------------------------------------------------------------------
(* Patterns.  The characters of a pattern are strings of one character.    *)

DigitChars == <<"0", "1", "2", "3", "4", "5", "6", "7", "8", "9">>
IsDigit(c) == Contains(DigitChars, c)
Digit(c) == (CHOOSE i \in DOMAIN DigitChars : DigitChars[i] = c) - 1

NoPad == [width |-> 0, side |-> "left", truncate |-> FALSE, enabled |-> FALSE]
PadTo(w, side, t) == [width |-> w, side |-> side, truncate |-> t, enabled |-> TRUE]
CharAt(p, i) == IF i <= Len(p) THEN p[i] ELSE "end"

\* handle_padspec_: the padding written at place i, and the place after it.
\* Without digits there is no padding, but a side is read all the same.
handle_padspec(p, i) ==
    LET j == IF CharAt(p, i) \in {"-", "="} THEN i + 1 ELSE i
        side == [c \in {"-", "="} |-> IF c = "-" THEN "right" ELSE "center"]
        k == CHOOSE e \in j .. Len(p) + 1 :
                /\ ~IsDigit(CharAt(p, e))
                /\ \A d \in j .. e - 1 : IsDigit(p[d])
        width == FoldLeft(LAMBDA n, c : 10 * n + Digit(c), 0, SubSeq(p, j, k - 1))
        t == CharAt(p, k) = "!"
    IN  IF k = j THEN [pad |-> NoPad, next |-> j]
        ELSE [pad |-> PadTo(IF width < MaxWidth THEN width ELSE MaxWidth,
                            IF j > i THEN side[p[i]] ELSE "left", t),
              next |-> IF t THEN k + 1 ELSE k]

Literal(cs) == [flag |-> "chars", pad |-> NoPad, chars |-> cs]
Field(f, pad) == [flag |-> f, pad |-> pad, chars |-> <<>>]

Known == {"+", "n", "l", "L", "t", "v", "a", "A", "b", "B", "c", "C", "Y", "D", "m", "d", "H",
          "I", "M", "S", "e", "f", "F", "E", "p", "r", "R", "T", "z", "P", "^", "$", "@", "s",
          "g", "#", "!", "u"}
Same == [h |-> "b", x |-> "D", X |-> "T", i |-> "u", o |-> "u", O |-> "u"]

\* handle_flag_: the formatters a flag stands for.  One that is not known is
\* shown as it is; after a "!" that looked like a truncation the "!" was a flag.
handle_flag(f, pad) ==
    IF f \in Custom THEN <<Field(f, pad)>>
    ELSE IF f \in Known THEN <<Field(f, pad)>>
    ELSE IF f \in DOMAIN Same THEN <<Field(Same[f], pad)>>
    ELSE IF f = "%" THEN <<Literal(<<"%">>)>>
    ELSE IF pad.truncate
         THEN <<Field("!", [pad EXCEPT !.truncate = FALSE]), Literal(<<f>>)>>
         ELSE <<Literal(<<"%", f>>)>>

\* compile_pattern_: characters outside of fields are gathered up to the next "%".
RECURSIVE CompileFrom(_, _, _)
CompileFrom(p, i, chars) ==
    LET gathered == IF chars = <<>> THEN <<>> ELSE <<Literal(chars)>>
        spec == handle_padspec(p, i + 1)
    IN  IF i > Len(p) THEN gathered
        ELSE IF p[i] # "%" THEN CompileFrom(p, i + 1, Append(chars, p[i]))
        ELSE IF spec.next > Len(p) THEN gathered
        ELSE gathered \o handle_flag(p[spec.next], spec.pad)
                      \o CompileFrom(p, spec.next + 1, <<>>)

compile_pattern(p) == CompileFrom(p, 1, <<>>)

-----------------------------------------------------------------------------
(* What the fields write.  Each has the size it tells the padder, and its  *)
(* characters.                                                             *)

Chars(f, value, n) == [i \in 1 .. n |-> <<f, value, i>>]
Text(f, value, n) == [declared |-> n, chars |-> Chars(f, value, n)]
NDigits(n) == IF n < 10 THEN 1 ELSE IF n < 100 THEN 2 ELSE 3

SecondsOf(msg) == msg.time \div TicksPerSecond

\* Words of the message: logger, level, its first letter, text.
MessageWord(f, msg) ==
    CASE f = "n" -> Text(f, msg.name, msg.name)
      [] f = "l" -> Text(f, 0, Size["level"])
      [] f = "L" -> Text(f, 0, 1)
      [] f = "v" -> Text(f, msg.payload, msg.payload)

\* Names of days and months.
CalendarWord(f, tm) ==
    CASE f = "a" -> Text(f, tm, 3)
      [] f \in {"A", "B"} -> Text(f, tm, Size["month"])
      [] f = "b" -> Text(f, tm, IF tm \in ShortDays THEN 4 ELSE 3)

\* Dates.  "c" and "D" tell the padder another size than they write.
DateNumbers(f, tm) ==
    CASE f \in {"C", "m", "d"} -> Text(f, tm, 2)
      [] f = "Y" -> Text(f, tm, 4)
      [] f = "c" -> [declared |-> 24, chars |-> Chars(f, tm, IF tm \in ShortDays THEN 23 ELSE 24)]
      [] f = "D" -> [declared |-> 10, chars |-> Chars(f, tm, 8)]

ClockNumbers(f, tm) ==
    CASE f \in {"H", "I", "M", "S", "p"} -> Text(f, tm, 2)
      [] f = "R" -> Text(f, tm, 5)
      [] f = "T" -> Text(f, tm, 8)
      [] f = "r" -> Text(f, tm, 11)

\* The fraction of the second, and the seconds since 1970.
Fractions(f, msg) ==
    LET frac == msg.time % TicksPerSecond
    IN  CASE f = "e" -> Text(f, frac, 3)
          [] f = "f" -> Text(f, frac, 6)
          [] f = "F" -> Text(f, frac, 9)
          [] f = "E" -> [declared |-> 10, chars |-> Chars(f, SecondsOf(msg), NDigits(SecondsOf(msg)))]

Ids(f) == Text(f, 0, Size["id"])

\* Where the message was logged from; nothing if it does not say.
SourceWords(f, msg) ==
    LET n == CASE f = "@" -> msg.file + 1 + Size["line"]
               [] f = "g" -> msg.file
               [] f = "s" -> msg.file - Size["dir"]
               [] f = "#" -> Size["line"]
               [] f = "!" -> Size["func"]
    IN  Text(f, msg.file, n)

\* Every field of a pattern without a "%+", an offset or an elapsed time.
PlainField(f, msg, tm) ==
    IF f \in {"n", "l", "L", "v"} THEN MessageWord(f, msg)
    ELSE IF f \in {"a", "A", "b", "B"} THEN CalendarWord(f, tm)
    ELSE IF f \in {"c", "C", "Y", "D", "m", "d"} THEN DateNumbers(f, tm)
    ELSE IF f \in {"H", "I", "M", "S", "p", "R", "T", "r"} THEN ClockNumbers(f, tm)
    ELSE IF f \in {"e", "f", "F", "E"} THEN Fractions(f, msg)
    ELSE IF f \in {"t", "P"} THEN Ids(f)
    ELSE IF f \in {"@", "g", "s", "#", "!"} THEN SourceWords(f, msg)
    ELSE Text(f, 0, Size["func"])

-----------------------------------------------------------------------------
(* Formatting.  A text being built has the characters, the coloured range  *)
(* and what became of it: "ended" if a padder threw from its destructor.   *)

NoDate == -1
Fresh(now) == [date |-> NoDate, stamp |-> 0, offset |-> 0, update |-> 0, last |-> now]

Building == [text |-> <<>>, from |-> 0, to |-> 0, outcome |-> "ok", cache |-> cache]
Add(b, s) == [b EXCEPT !.text = @ \o s]

\* pad_it takes that many of spaces_; what is after its end is not spaces.
pad_it(b, n) == Add(b, [i \in 1 .. n |-> <<IF i <= MaxWidth THEN "pad" ELSE "beyond", 0, 0>>])

\* memory_buf_t::resize to a negative size asks for all the memory there is.
ResizeTo(b, n) ==
    IF n < 0 THEN [b EXCEPT !.outcome = "ended"] ELSE [b EXCEPT !.text = SubSeq(@, 1, n)]

\* scoped_padder around a field: spaces before it in the constructor, spaces
\* after it, or a cut of the whole text, in the destructor.
Padded(b, pad, w) ==
    LET left == pad.width - w.declared
        before == CASE left <= 0 -> 0
                    [] left > 0 /\ pad.side = "left" -> left
                    [] left > 0 /\ pad.side = "center" -> left \div 2
                    [] left > 0 /\ pad.side = "right" -> 0
        written == Add(pad_it(b, before), w.chars)
    IN  IF ~pad.enabled THEN Add(b, w.chars)
        ELSE IF left >= 0 THEN pad_it(written, left - before)
        ELSE IF pad.truncate THEN ResizeTo(written, Len(written.text) + left)
        ELSE written

\* z_formatter: the offset of the zone, looked up at most every Refresh seconds.
ZoneField(b, i, pad, msg, tm) ==
    LET stale == msg.time - b.cache[i].update >= Refresh * TicksPerSecond
        offset == IF stale THEN (IF tm = NoDate THEN 0 ELSE Offset[tm]) ELSE b.cache[i].offset
        kept == IF stale THEN [b EXCEPT !.cache[i].offset = offset, !.cache[i].update = msg.time] ELSE b
    IN  Padded(kept, pad, Text("z", offset, 6))

\* elapsed_formatter: the time since the last message the field has shown.
ElapsedField(b, i, pad, msg) ==
    LET delta == msg.time - b.cache[i].last
        n == IF delta > 0 THEN delta ELSE 0
    IN  Padded([b EXCEPT !.cache[i].last = msg.time], pad, Text("u", n, NDigits(n)))

\* full_formatter's date, kept for the messages of one second.
FullDate(b, i, msg, tm) ==
    LET secs == SecondsOf(msg)
        old == secs # b.cache[i].stamp \/ b.cache[i].date = NoDate
    IN  IF old THEN [b EXCEPT !.cache[i].date = tm, !.cache[i].stamp = secs] ELSE b

FullEnd(msg) ==
    Chars("]", 0, 2)
    \o (IF msg.file > 0
        THEN Chars("s", msg.file, msg.file - Size["dir"] + Size["line"] + 4) ELSE <<>>)
    \o Chars("v", msg.payload, msg.payload)

\* full_formatter: date, name if there is one, level in colour, source, text.
\* It has no padding.
FullField(b, i, msg, tm) ==
    LET dated == FullDate(b, i, msg, tm)
        head == Add(dated, Chars("+", dated.cache[i].date, 21)
                           \o Chars("e", msg.time % TicksPerSecond, 5)
                           \o (IF msg.name > 0 THEN Chars("n", msg.name, msg.name + 3) ELSE <<>>)
                           \o Chars("[", 0, 1))
        level == Add([head EXCEPT !.from = Len(head.text)], Chars("l", 0, Size["level"]))
    IN  Add([level EXCEPT !.to = Len(level.text)], FullEnd(msg))

\* One field of the pattern.
FormatField(b, i, msg, tm) ==
    LET f == formatters[i] IN
    CASE b.outcome = "ended" -> b
      [] f.flag = "chars" -> Add(b, [k \in DOMAIN f.chars |-> <<f.chars[k], 0, 0>>])
      [] f.flag = "+" -> FullField(b, i, msg, tm)
      [] f.flag = "^" -> [b EXCEPT !.from = Len(b.text)]
      [] f.flag = "$" -> [b EXCEPT !.to = Len(b.text)]
      [] f.flag = "z" -> ZoneField(b, i, f.pad, msg, tm)
      [] f.flag = "u" -> ElapsedField(b, i, f.pad, msg)
      [] f.flag \in {"@", "g", "s", "#", "!"} /\ msg.file = 0 -> b
      [] OTHER -> Padded(b, f.pad, PlainField(f.flag, msg, tm))

\* Mutant: an older message gets the time of the one before.
TimeOfKept(msg) == IF SecondsOf(msg) > last_log_secs THEN SecondsOf(msg) ELSE cached_tm

\* The calendar time of a message, kept for the messages of one second.
TimeOf(msg) == IF SecondsOf(msg) # last_log_secs THEN SecondsOf(msg) ELSE cached_tm

\* pattern_formatter::format, before the end of the line.
format(msg) ==
    FoldLeft(LAMBDA b, i : FormatField(b, i, msg, TimeOf(msg)),
             Building, [i \in DOMAIN formatters |-> i])

-----------------------------------------------------------------------------
(* The sinks that print on a console: stdout_sink, ansicolor_sink and      *)
(* wincolor_sink, on a console or with the output sent elsewhere.          *)

Console(k, c) == [kind |-> k, colours |-> c]

\* print_range_: the characters from one place to another, in a colour or not.
print_range(text, from, to, colour) ==
    [k \in 1 .. to - from |->
        <<IF from + k <= Len(text) THEN text[from + k] ELSE <<"beyond", 0, 0>>, colour>>]

\* What log() sends to the terminal, in one piece (the console's mutex is held).
Screen(b) ==
    IF console.kind \in {"ansi", "win"} /\ console.colours /\ b.to > b.from
    THEN print_range(b.text, 0, b.from, "off") \o print_range(b.text, b.from, b.to, "on")
         \o print_range(b.text, b.to, Len(b.text), "off")
    ELSE print_range(b.text, 0, Len(b.text), "off")

\* write_to_file_: WriteFile is called until everything is written; a failure,
\* after some of the text, is an exception.
Written(b) ==
    CASE console.kind = "none" -> {<<>>}
      [] console.kind = "redirected" ->
            {SubSeq(Screen(b), 1, n) : n \in {0, Len(b.text) \div 2, Len(b.text)}}
      [] OTHER -> {Screen(b)}

NothingYet ==
    [msg |-> [time |-> 0, name |-> 0, payload |-> 0, file |-> 0], previous |-> 0,
     back |-> FALSE, outcome |-> "none", text |-> <<>>, screen |-> <<>>]

-----------------------------------------------------------------------------
(* Reference: the pattern as a list of fields and texts, and what it asks. *)

Digits(n) == IF n < 10 THEN <<DigitChars[n + 1]>>
             ELSE <<DigitChars[n \div 10 + 1], DigitChars[(n % 10) + 1]>>

\* How a pattern is written.
Spelled(item) ==
    LET side == [left |-> <<>>, right |-> <<"-">>, center |-> <<"=">>]
    IN  IF item.flag = "chars" THEN item.chars
        ELSE <<"%">> \o (IF item.pad.enabled THEN side[item.pad.side] \o Digits(item.pad.width)
                             \o (IF item.pad.truncate THEN <<"!">> ELSE <<>>) ELSE <<>>)
                     \o (IF item.flag = "end" THEN <<>> ELSE <<item.flag>>)

Pattern(list) == FlattenSeq([i \in DOMAIN list |-> Spelled(list[i])])

\* What is meant: a field as wide as asked, no more than MaxWidth.
Meant(item) ==
    LET pad == IF item.pad.width > MaxWidth THEN [item.pad EXCEPT !.width = MaxWidth] ELSE item.pad
    IN  CASE item.flag = "chars" -> <<item>>
          [] item.flag = "end" -> <<>>
          [] OTHER -> handle_flag(item.flag, pad)

Fields(list) == FlattenSeq([i \in DOMAIN list |-> Meant(list[i])])

Spaces(n) == [i \in 1 .. n |-> <<"pad", 0, 0>>]

\* A text in a field of a width.
Fit(pad, s) ==
    LET left == pad.width - Len(s) IN
    CASE ~pad.enabled -> s
      [] pad.enabled /\ left <= 0 -> IF pad.truncate THEN SubSeq(s, 1, pad.width) ELSE s
      [] pad.enabled /\ left > 0 ->
            CASE pad.side = "left" -> Spaces(left) \o s
              [] pad.side = "right" -> s \o Spaces(left)
              [] pad.side = "center" -> Spaces(left \div 2) \o s \o Spaces(left - left \div 2)

\* The field of a message alone, without anything kept from other messages.
Shows(f, msg, previous, offset) ==
    LET elapsed == IF msg.time > previous THEN msg.time - previous ELSE 0
        tm == SecondsOf(msg)
    IN  CASE f.flag = "chars" -> [k \in DOMAIN f.chars |-> <<f.chars[k], 0, 0>>]
          [] f.flag \in {"^", "$"} -> <<>>
          [] f.flag = "z" -> Fit(f.pad, Chars("z", offset, 6))
          [] f.flag = "u" -> Fit(f.pad, Chars("u", elapsed, NDigits(elapsed)))
          [] f.flag = "+" ->
                Chars("+", tm, 21) \o Chars("e", msg.time % TicksPerSecond, 5)
                \o (IF msg.name > 0 THEN Chars("n", msg.name, msg.name + 3) ELSE <<>>)
                \o Chars("[", 0, 1) \o Chars("l", 0, Size["level"]) \o FullEnd(msg)
          [] f.flag \in {"@", "g", "s", "#", "!"} /\ msg.file = 0 -> <<>>
          [] OTHER -> Fit(f.pad, PlainField(f.flag, msg, tm).chars)

Shown(fields, p, offset) ==
    FlattenSeq([i \in DOMAIN fields |-> Shows(fields[i], p.msg, p.previous, offset)])

\* Fields cut to a width that tell the padder their true size.
Honest(fields) ==
    \A i \in DOMAIN fields : fields[i].flag \in {"c", "D", "E"} => ~fields[i].pad.truncate

\* Padding that "c", "D" and "E" need is worked out from the size they tell.
Exact(fields) ==
    \A i \in DOMAIN fields : fields[i].flag \in {"c", "D", "E"} => ~fields[i].pad.enabled

\* The offsets the zone had in the last Refresh seconds.
OffsetsOf(p) ==
    LET s == SecondsOf(p.msg) IN
    {Offset[u] : u \in {v \in 0 .. s : v > s - Refresh}} \cup (IF s < Refresh THEN {0} ELSE {})

-----------------------------------------------------------------------------
\* The constructor, at a time.  Nothing of an earlier formatter is kept.
Built(list, now) ==
    /\ asked' = list
    /\ formatters' = compile_pattern(Pattern(list))
    /\ cache' = [i \in DOMAIN formatters' |-> Fresh(now)]
    /\ printed' = [NothingYet EXCEPT !.previous = now]

PatternInit ==
    /\ asked \in FieldLists
    /\ formatters = compile_pattern(Pattern(asked))
    /\ cached_tm = NoDate /\ last_log_secs = 0
    /\ \E now \in Times :
          /\ cache = [i \in DOMAIN formatters |-> Fresh(now)]
          /\ printed = [NothingYet EXCEPT !.previous = now]
    /\ console \in Consoles

\* log of a sink with a message.  An exception leaves what was printed.
LogText(msg) ==
    LET b == format(msg) IN
    /\ printed.outcome # "ended"
    /\ cached_tm' = TimeOf(msg) /\ last_log_secs' = SecondsOf(msg)
    /\ cache' = b.cache
    /\ \E s \in IF b.outcome = "ended" THEN {<<>>} ELSE Written(b) :
          printed' = [msg |-> msg,
                      previous |-> IF printed.outcome = "none" THEN printed.previous
                                   ELSE printed.msg.time,
                      back |-> printed.back \/ (printed.outcome # "none"
                                                /\ msg.time < printed.msg.time),
                      outcome |-> IF b.outcome = "ok" /\ console.kind = "redirected"
                                     /\ Len(s) < Len(b.text) THEN "failed" ELSE b.outcome,
                      text |-> b.text, screen |-> s]
    /\ UNCHANGED <<asked, formatters, console>>

\* set_pattern of a sink makes another formatter; set_pattern of the formatter
\* keeps the calendar time it has.
SetPattern(list, now) ==
    /\ printed.outcome # "ended"
    /\ Built(list, now)
    /\ cached_tm' = NoDate /\ last_log_secs' = 0
    /\ UNCHANGED console

SetPatternOfFormatter(list, now) ==
    /\ printed.outcome # "ended"
    /\ Built(list, now)
    /\ UNCHANGED <<cached_tm, last_log_secs, console>>

Messages == [time : Times, name : NameLens, payload : PayloadLens, file : FileLens]

PatternNext ==
    \/ \E msg \in Messages : LogText(msg)
    \/ \E list \in LaterLists :
          SetPattern(list, printed.msg.time) \/ SetPatternOfFormatter(list, printed.msg.time)

PatternSpec == PatternInit /\ [][PatternNext]_patternVars

-----------------------------------------------------------------------------
\* A pattern compiles to the fields it is written with, whatever surrounds
\* them, and the text of a message is what these fields show of that message
\* alone, each in its width: nothing an earlier message left in the formatter
\* appears, except an offset of the zone at most Refresh seconds old.  (The
\* first second of 1970 has no date; the sizes that "c", "D" and "E" tell
\* the padder are wrong; an offset waits for a clock that was set back.)
TextAsAsked ==
    /\ formatters = Fields(asked)
    /\ (printed.outcome \notin {"none", "ended"} /\ SecondsOf(printed.msg) > 0 /\ Exact(formatters)) =>
          \E offset \in OffsetsOf(printed) \cup (IF printed.back THEN Range(Offset) \cup {0} ELSE {}) :
              printed.text = Shown(Fields(asked), printed, offset)

Coloured == SelectSeq(printed.screen, LAMBDA x : x[2] = "on")
Uncoloured(screen) == [k \in DOMAIN screen |-> screen[k][1]]

\* The place of a flag in the pattern.
Place(f) == CHOOSE i \in DOMAIN asked : asked[i].flag = f
MarkedPart ==
    /\ \A f \in {"^", "$"} : Cardinality({i \in DOMAIN asked : asked[i].flag = f}) = 1
    /\ \A i \in DOMAIN asked : asked[i].flag # "+"
    /\ Place("^") < Place("$")

\* A console that shows colours shows the text once and in order, and in
\* colour exactly what the fields between the marks show; the others show the
\* text without colour.  Failing to write leaves a beginning of it.
PrintedOnce ==
    (printed.outcome \in {"ok", "failed"} /\ Honest(formatters)) =>
        /\ printed.outcome = "ok" /\ console.kind # "none" => Uncoloured(printed.screen) = printed.text
        /\ IsPrefix(Uncoloured(printed.screen), printed.text)
        /\ (console.kind \in {"plain", "redirected", "none"} \/ ~console.colours) => Coloured = <<>>
        /\ (/\ console.kind \in {"ansi", "win"} /\ console.colours /\ MarkedPart
            /\ SecondsOf(printed.msg) > 0 /\ Exact(formatters) /\ ~printed.back) =>
              \E offset \in OffsetsOf(printed) :
                 Uncoloured(Coloured) =
                    Shown(Fields(SubSeq(asked, Place("^"), Place("$"))), printed, offset)

\* What a message looks like in the end, from the pattern to the console
\* (pattern_formatter::format, ansicolor_sink::log, wincolor_sink::log): the
\* right text, printed once and in the right colours.
MessageShown == TextAsAsked /\ PrintedOnce

=============================================================================
