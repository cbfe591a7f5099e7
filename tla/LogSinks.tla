------------------------------ MODULE LogSinks ------------------------------
(***************************************************************************)
(* A logger with its backtrace, and behind it a filter of duplicates that  *)
(* passes on to a ring buffer: logger::log_it_ and dump_backtrace_,        *)
(* dup_filter_sink, dist_sink, ringbuffer_sink and backtracer.  A message  *)
(* has the time of its making; the clock of the system may be set back.    *)
(***************************************************************************)
EXTENDS CircularQ

CONSTANTS
    Payloads,       \* texts of messages
    MsgLevels,      \* levels of messages
    InfoLevel,      \* level::info
    RingLevel,      \* level of the ring buffer
    MaxTime,        \* bound: the clock
    MaxSkip,        \* max_skip_duration_
    RingSizes,      \* sizes of the ring buffer and of the backtrace
    TraceSizes,
    MaxAttached,    \* bound: times the ring buffer is in the sinks of the filter
    MaxSkips        \* bound: duplicates kept back together

ASSUME SinksAssumption == RingSizes \subseteq Nat /\ TraceSizes \subseteq Nat

VARIABLES
    now,        \* the clock
    level,      \* level_ of the logger
    tracer,     \* tracer_: enabled_ and messages_
    filter,     \* last_msg_time_, last_msg_payload_, skip_counter_
    attached,   \* how often sinks_ of the filter has the ring buffer
    ring,       \* q_ of the ring buffer
    newest,     \* what the ring buffer was given last, as many as it may hold
    traced      \* likewise for the backtrace

sinksVars == <<now, level, tracer, filter, attached, ring, newest, traced>>

Message(p, l, t) == [payload |-> p, level |-> l, time |-> t]
Skipped(n) == [skipped |-> n]

\* The last n of a sequence.
LastOf(n, s) == IF Len(s) <= n THEN s ELSE SubSeq(s, Len(s) - n + 1, Len(s))

SinksInit ==
    /\ now = 0 /\ level \in MsgLevels
    /\ tracer = [enabled |-> FALSE, q |-> DisabledQ] /\ traced = <<>>
    /\ filter = [time |-> -MaxSkip - 1, payload |-> Nothing, skips |-> 0]
    /\ attached = 1
    /\ \E n \in RingSizes : ring = NewQ(n)
    /\ newest = <<>>

-----------------------------------------------------------------------------
\* What a message changes.
Reached == [filter |-> filter, ring |-> ring, newest |-> newest]

\* The ring buffer gets x.
Given(s, x) == [s EXCEPT !.ring = PushQ(@, x),
                         !.newest = LastOf(ring.max - 1, Append(@, x))]

\* dist_sink::sink_it_: to every sink of the list whose level lets it pass.
Dist(s, x, l, times) ==
    LET after[n \in 0 .. times] == IF n = 0 THEN s ELSE Given(after[n - 1], x)
    IN  IF l < RingLevel THEN s ELSE after[times]

\* filter_: whether the message is shown.
Shows(f, m) == m.time - f.time > MaxSkip \/ m.payload # f.payload

\* dup_filter_sink::sink_it_.  The report has the level of the message that
\* ends the row.  The count is of the messages kept back: of three equal ones
\* it is two, where the example of the header has three.
DupFilter(s, m) ==
    IF ~Shows(s.filter, m)
    THEN [s EXCEPT !.filter.skips = @ + 1]
    ELSE LET report == IF s.filter.skips = 0 THEN s
                       ELSE Dist(s, Skipped(s.filter.skips), m.level, attached)
         IN  [Dist(report, m.payload, m.level, attached) EXCEPT
                 !.filter = [time |-> m.time, payload |-> m.payload, skips |-> 0]]

\* A sequence of messages, one after the other.
SinkAll(s, ms) ==
    LET after[n \in 0 .. Len(ms)] == IF n = 0 THEN s ELSE DupFilter(after[n - 1], ms[n])
    IN  after[Len(ms)]

Reach(s) == /\ filter' = s.filter /\ ring' = s.ring /\ newest' = s.newest
            /\ s.filter.skips <= MaxSkips

\* logger::log_ and log_it_
LogMessage(p, l) ==
    LET m == Message(p, l, now)
    IN  /\ l >= level \/ tracer.enabled
        /\ Reach(IF l >= level THEN SinkAll(Reached, <<m>>) ELSE Reached)
        /\ IF tracer.enabled
           THEN /\ tracer' = [tracer EXCEPT !.q = PushQ(@, m)]
                /\ traced' = LastOf(tracer.q.max - 1, Append(traced, m))
           ELSE UNCHANGED <<tracer, traced>>
        /\ UNCHANGED <<now, level, attached>>

\* backtracer::foreach_pop leaves nothing.
Drained(q) ==
    LET popped[n \in 0 .. q.max] ==
            IF n = 0 THEN q
            ELSE IF EmptyQ(popped[n - 1]) THEN popped[n - 1] ELSE PopQ(popped[n - 1])
    IN  popped[q.max]

\* logger::dump_backtrace_: the messages go to the sinks whatever their level.
DumpBacktrace ==
    /\ tracer.enabled
    /\ Reach(SinkAll(Reached,
             <<Message("Backtrace Start", InfoLevel, now)>> \o ContentsQ(tracer.q)
                \o <<Message("Backtrace End", InfoLevel, now)>>))
    /\ tracer' = [tracer EXCEPT !.q = Drained(@)]
    /\ traced' = <<>>
    /\ UNCHANGED <<now, level, attached>>

\* What was kept before is gone.
EnableBacktrace(n) ==
    /\ tracer' = [enabled |-> TRUE, q |-> NewQ(n)]
    /\ traced' = <<>>
    /\ UNCHANGED <<now, level, filter, attached, ring, newest>>

\* What was kept stays, out of reach until the next enable throws it away.
DisableBacktrace ==
    /\ tracer' = [tracer EXCEPT !.enabled = FALSE]
    /\ UNCHANGED <<now, level, filter, attached, ring, newest, traced>>

\* dist_sink::add_sink and remove_sink, which removes it wherever it is.
AddSink ==
    /\ attached < MaxAttached /\ attached' = attached + 1
    /\ UNCHANGED <<now, level, tracer, filter, ring, newest, traced>>

RemoveSink ==
    /\ attached' = 0
    /\ UNCHANGED <<now, level, tracer, filter, ring, newest, traced>>

Clock(t) ==
    /\ now' = t
    /\ UNCHANGED <<level, tracer, filter, attached, ring, newest, traced>>

SinksNext ==
    \/ \E p \in Payloads, l \in MsgLevels : LogMessage(p, l)
    \/ DumpBacktrace \/ DisableBacktrace \/ AddSink \/ RemoveSink
    \/ \E n \in TraceSizes : EnableBacktrace(n)
    \/ \E t \in 0 .. MaxTime : Clock(t)

SinksSpec == SinksInit /\ [][SinksNext]_sinksVars

-----------------------------------------------------------------------------
\* The ring buffer and the backtrace have the newest of what they were given,
\* in order, however often they went round.
NewestKept ==
    /\ ContentsQ(ring) = newest
    /\ tracer.enabled => ContentsQ(tracer.q) = traced

=============================================================================
