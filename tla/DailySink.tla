----------------------------- MODULE DailySink -----------------------------
(***************************************************************************)
(* daily_file_sink over a file system, for a sink that retains only the    *)
(* last max_files_ files.  Time runs in ticks, TicksPerDay to a day; a     *)
(* file is named by its day.  Messages may reach the sink later than they  *)
(* were made (asynchronous loggers), and the sink may be made again.       *)
(***************************************************************************)
EXTENDS CircularQ, FiniteSets

CONSTANTS
    TicksPerDay,
    LastDay,        \* bound: the clock
    MaxDelay,       \* bound: ticks from the making of a message to the sink
    FileLimits      \* values of max_files_, not 0

ASSUME DailyAssumption ==
    /\ TicksPerDay \in Nat \ {0} /\ LastDay \in Nat /\ MaxDelay \in Nat
    /\ FileLimits \subseteq Nat \ {0}

VARIABLES
    clock,          \* log_clock::now()
    onDisk,         \* the files there are
    max_files,      \* max_files_
    rotation,       \* rotation_h_ and rotation_m_, in ticks
    daily,          \* the sink: file name, rotation_tp_ and filenames_q_
    known,          \* files it opened, or found when it was made
    faultless       \* every file was opened, written and removed as asked

dailyVars == <<clock, onDisk, max_files, rotation, daily, known, faultless>>

Day(t) == t \div TicksPerDay
NoSink == [alive |-> FALSE, file |-> Nothing, rotation_tp |-> 0, q |-> DisabledQ]

DailyInit ==
    /\ clock = 0 /\ onDisk = {} /\ known = {} /\ faultless = TRUE
    /\ max_files \in FileLimits
    /\ rotation \in 0 .. TicksPerDay - 1
    /\ daily = NoSink

\* next_rotation_tp_, from the clock and not from the message.
NextRotation ==
    LET time == Day(clock) * TicksPerDay + rotation
    IN  IF time > clock THEN time ELSE time + TicksPerDay

\* init_filenames_q_: today's file and those of the days before, without a gap,
\* at most max_files_; the oldest first.
FoundFiles(disk) ==
    LET days == {d \in 0 .. Day(clock) :
                    /\ d > Day(clock) - max_files
                    /\ d .. Day(clock) \subseteq disk}
    IN  [i \in 1 .. Cardinality(days) |-> Day(clock) - Cardinality(days) + i]

Queue(names) ==
    LET n == Len(names)
    IN  [max |-> max_files + 1, head |-> 0, tail |-> n,
         v |-> [i \in 0 .. max_files |-> IF i < n THEN names[i + 1] ELSE Nothing]]

\* daily_file_sink::daily_file_sink; a file that cannot be opened leaves no sink.
ConstructDaily ==
    /\ ~daily.alive
    /\ LET disk == onDisk \cup {Day(clock)}
           names == FoundFiles(disk)
       IN  /\ onDisk' = disk
           /\ daily' = [alive |-> TRUE, file |-> Day(clock),
                        rotation_tp |-> NextRotation, q |-> Queue(names)]
           /\ known' = {names[i] : i \in DOMAIN names}
    /\ UNCHANGED <<clock, max_files, rotation, faultless>>

\* Mutant: the queue is asked whether it has room after the new file is in it.
DeleteOldLate(q, current, disk, removes) ==
    LET pushed == PushQ(q, current)
    IN  IF FullQ(pushed) /\ removes
        THEN [q |-> PopQ(pushed), disk |-> disk \ {FrontQ(pushed)}]
        ELSE [q |-> pushed, disk |-> disk]

\* delete_old_: the oldest name leaves the queue even if its file stays.
DeleteOld(q, current, disk, removes) ==
    IF FullQ(q)
    THEN [q |-> PushQ(PopQ(q), current),
          disk |-> IF removes THEN disk \ {FrontQ(q)} ELSE disk]
    ELSE [q |-> PushQ(q, current), disk |-> disk]

\* sink_it_ of a message made at t; what fails throws and ends it.
SinkDaily(t) ==
    /\ daily.alive
    /\ IF t < daily.rotation_tp
       THEN UNCHANGED <<onDisk, daily, known, faultless>>
       ELSE \/ \* the file is not opened: rotation is tried at the next message
               /\ daily' = [daily EXCEPT !.file = Day(t)]
               /\ faultless' = FALSE /\ UNCHANGED <<onDisk, known>>
            \/ \* written or not, the old file removed or not
               \E written \in BOOLEAN, removes \in BOOLEAN :
                  LET opened == onDisk \cup {Day(t)}
                      left == DeleteOld(daily.q, Day(t), opened, removes)
                  IN  /\ onDisk' = IF written THEN left.disk ELSE opened
                      /\ daily' = [daily EXCEPT !.file = Day(t),
                                                !.rotation_tp = NextRotation,
                                                !.q = IF written THEN left.q ELSE @]
                      /\ known' = known \cup {Day(t)}
                      /\ faultless' = (faultless /\ written /\ removes)
    /\ UNCHANGED <<clock, max_files, rotation>>

\* The program ends, or the sink.
DestroyDaily ==
    /\ daily.alive
    /\ daily' = NoSink /\ known' = {}
    /\ UNCHANGED <<clock, onDisk, max_files, rotation, faultless>>

Later ==
    /\ clock < LastDay * TicksPerDay
    /\ clock' = clock + 1
    /\ UNCHANGED <<onDisk, max_files, rotation, daily, known, faultless>>

DailyNext ==
    \/ ConstructDaily \/ DestroyDaily \/ Later
    \/ \E t \in clock - MaxDelay .. clock : t >= 0 /\ SinkDaily(t)

DailySpec == DailyInit /\ [][DailyNext]_dailyVars

-----------------------------------------------------------------------------
\* Of the files it opened or found no more than max_files_ stay, and the one
\* being written is among them; only a sink for a single file that rotates
\* within the day removes what it writes to.
RetainsNewest ==
    daily.alive /\ faultless =>
        /\ Cardinality(known \cap onDisk) <= max_files
        /\ daily.file \in onDisk \/ (max_files = 1 /\ rotation # 0)

=============================================================================
