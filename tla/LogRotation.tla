---------------------------- MODULE LogRotation ----------------------------
(***************************************************************************)
(* rotating_file_sink of spdlog over file_helper and a file system: the    *)
(* log file, index 0, and its backups 1 .. MaxFiles, over any number of    *)
(* lives of the sink.                                                      *)
(*                                                                         *)
(* A file is the sequence of the messages in it, each with the offset at   *)
(* which it ends.  What a step of the sink does under its mutex is one     *)
(* action; the failures of the system are choices inside it.               *)
(***************************************************************************)
EXTENDS Integers, Sequences

CONSTANTS
    MaxFiles,       \* max_files_
    MaxSize,        \* max_size_
    MsgSizes,       \* sizes a formatted message may have
    MaxMsgs,        \* bound: messages logged
    NoFile          \* no such file

Entry == [id : Nat, end : Nat, whole : BOOLEAN]

ASSUME RotationAssumption ==
    /\ MaxFiles \in Nat /\ MaxSize \in Nat /\ MaxMsgs \in Nat
    /\ MsgSizes \subseteq Nat
    /\ NoFile \notin Seq(Entry)

Indices == 0 .. MaxFiles

VARIABLES
    files,          \* the files by index
    safe,           \* messages of the log file a crash cannot take any more
    file,           \* fd_ of file_helper: "open" or "null"
    current_size,   \* current_size_
    sink,           \* the sink exists
    logged,         \* messages logged so far
    clean,          \* history: no failure and no crash yet
    misused         \* a null FILE was written

rotationVars == <<files, safe, file, current_size, sink, logged, clean, misused>>

FileSize(f) == IF f = <<>> THEN 0 ELSE f[Len(f)].end

RotationInit ==
    /\ files = [i \in Indices |-> NoFile]
    /\ safe = 0 /\ file = "null" /\ current_size = 0 /\ sink = FALSE
    /\ logged = 0 /\ clean = TRUE /\ misused = FALSE

-----------------------------------------------------------------------------
(* file_helper.                                                            *)

FDs == {"open", "null"}

\* open(filename, truncate): five tries, then an exception with fd_ null.
OpenFile(fs, truncate, fd) ==
    IF fd = "null" THEN fs
    ELSE [fs EXCEPT ![0] = IF truncate \/ @ = NoFile THEN <<>> ELSE @]

-----------------------------------------------------------------------------
(* rotate_.                                                                *)

\* Mutant: the log file takes the first free place.
ShiftedToFree(fs, low) ==
    LET free == {k \in 1 .. MaxFiles : fs[k] = NoFile} \cup {MaxFiles}
        to == CHOOSE k \in free : \A l \in free : k <= l
    IN  [fs EXCEPT ![to] = fs[0], ![0] = NoFile]

\* Mutant: the loop ends one file early.
ShiftedLess(fs, low) ==
    [i \in Indices |->
        IF i < low THEN fs[i]
        ELSE IF fs[i - 1] # NoFile /\ i > 1 THEN fs[i - 1]
        ELSE IF i = MaxFiles THEN fs[i]
        ELSE NoFile]

\* The loop from max_files_ down to low: each file that exists takes the place
\* of the next one, and a place nobody takes keeps its file only at the end.
Shifted(fs, low) ==
    [i \in Indices |->
        IF low > MaxFiles \/ i < low - 1 THEN fs[i]
        ELSE IF i >= low /\ fs[i - 1] # NoFile THEN fs[i - 1]
        ELSE IF i = MaxFiles THEN fs[i]
        ELSE NoFile]

\* Both tries to rename file i - 1 to i failed; their targets were removed first,
\* if that worked.
Stuck(fs, i, target) ==
    IF target = "removed" THEN [Shifted(fs, i + 1) EXCEPT ![i] = NoFile]
                          ELSE Shifted(fs, i + 1)

\* What rotate_ leaves: the files, fd_, current_size_ and how it ended.
Outcome(fs, fd, size, end) ==
    [files |-> OpenFile(fs, TRUE, fd), fd |-> fd, size |-> size, end |-> end]

\* An open that fails throws.
Opened(fd) == IF fd = "open" THEN "returned" ELSE "threw"

\* The files that exist and can refuse to be renamed, by their target.
Targets(fs) == {i \in 1 .. MaxFiles : fs[i - 1] # NoFile}

\* rotate_: all renames work, and the new file may be refused; or one fails, and
\* the log file is truncated anyway.
Rotate(fs, size) ==
    {Outcome(Shifted(fs, 1), fd, size, Opened(fd)) : fd \in FDs}
      \cup {Outcome(Stuck(fs, i, target), fd, IF fd = "open" THEN 0 ELSE size,
                    "threw") :
               i \in Targets(fs), fd \in FDs, target \in {"removed", "kept"}}

-----------------------------------------------------------------------------
(* The sink.                                                               *)

\* The constructor: an exception leaves no sink.
Constructed(r) ==
    /\ files' = r.files
    /\ sink' = (r.end = "returned")
    /\ file' = IF r.end = "returned" THEN "open" ELSE "null"
    /\ current_size' = r.size
    /\ safe' = IF r.files[0] = NoFile THEN 0 ELSE Len(r.files[0])
    /\ clean' = (clean /\ r.end = "returned")

Construct(rotate_on_open) ==
    /\ ~sink
    /\ \E fd \in FDs :
          LET fs == OpenFile(files, FALSE, fd)
              size == IF fd = "open" THEN FileSize(fs[0]) ELSE 0
          IN  IF rotate_on_open /\ size > 0
              THEN \E r \in Rotate(fs, size) : Constructed(r)
              ELSE Constructed([files |-> fs, size |-> size, end |-> Opened(fd)])
    /\ UNCHANGED <<logged, misused>>

\* file_helper::write of the message: all of it, or an error with a part of it
\* in the file.
Write(fs, size, id) ==
    LET text(n, whole) ==
            Append(fs[0], [id |-> id, end |-> FileSize(fs[0]) + n, whole |-> whole])
    IN  \/ /\ files' = [fs EXCEPT ![0] = text(size, TRUE)]
           /\ clean' = clean
        \/ /\ \/ files' = fs
              \/ \E n \in 1 .. size - 1 : files' = [fs EXCEPT ![0] = text(n, FALSE)]
           /\ clean' = FALSE

\* What sink_it_ does once rotate_ has ended.
AfterRotation(size, r) ==
    /\ file' = r.fd
    /\ safe' = 0
    /\ IF r.end = "returned"
       THEN Write(r.files, size, logged + 1) /\ current_size' = size
       ELSE files' = r.files /\ current_size' = r.size /\ clean' = FALSE

\* sink_it_ when the file, with the message or without, has the given length.
LogAt(length, size) ==
    /\ sink /\ logged < MaxMsgs
    /\ logged' = logged + 1
    /\ IF length > MaxSize
       THEN /\ \E r \in Rotate(files, current_size + size) : AfterRotation(size, r)
            /\ UNCHANGED misused
       ELSE /\ current_size' = current_size + size
            /\ UNCHANGED <<safe, file>>
            /\ IF file = "null"
               THEN misused' = TRUE /\ UNCHANGED <<files, clean>>
               ELSE Write(files, size, logged + 1) /\ UNCHANGED misused
    /\ UNCHANGED sink

\* Mutant: the message that goes over the limit is still written.
LogCountsLate(size) == LogAt(current_size, size)

\* sink_it_.  What it throws goes to the error handler of the logger.
Log(size) == LogAt(current_size + size, size)

\* flush_: of a null FILE, fflush flushes all others.
Flush ==
    /\ sink /\ file = "open"
    /\ safe' = Len(files[0])
    /\ UNCHANGED <<files, file, current_size, sink, logged, clean, misused>>

\* ~file_helper
Destruct ==
    /\ sink
    /\ sink' = FALSE /\ file' = "null"
    /\ UNCHANGED <<files, safe, current_size, logged, clean, misused>>

\* The process dies: what stdio had not written is lost.
CrashLog ==
    /\ sink
    /\ sink' = FALSE /\ file' = "null" /\ clean' = FALSE
    /\ IF file = "open"
       THEN \E n \in safe .. Len(files[0]) :
               files' = [files EXCEPT ![0] = SubSeq(@, 1, n)]
       ELSE UNCHANGED files
    /\ UNCHANGED <<safe, current_size, logged, misused>>

RotationNext ==
    \/ \E rotate_on_open \in BOOLEAN : Construct(rotate_on_open)
    \/ \E size \in MsgSizes : Log(size)
    \/ Flush \/ Destruct \/ CrashLog

RotationSpec == RotationInit /\ [][RotationNext]_rotationVars

-----------------------------------------------------------------------------
RotationTypeOK ==
    /\ files \in [Indices -> Seq(Entry) \cup {NoFile}]
    /\ safe \in Nat /\ current_size \in Nat /\ logged \in Nat
    /\ file \in FDs
    /\ {sink, clean, misused} \subseteq BOOLEAN

\* A null FILE is never written, although a rotation may leave one: then
\* current_size_ still says that the next message has to rotate.
NeverNull == ~misused

\* Only a message that is longer than the limit makes a file longer.
SizeBounded ==
    \A i \in Indices :
        files[i] # NoFile /\ FileSize(files[i]) > MaxSize => Len(files[i]) = 1

\* From the last backup to the log file the messages are in the order they were
\* logged, each there once, whatever failed.
OldestFirst ==
    \A i, j \in Indices :
        files[i] # NoFile /\ files[j] # NoFile =>
            \A m \in DOMAIN files[i], n \in DOMAIN files[j] :
                i > j \/ (i = j /\ m < n) => files[i][m].id < files[j][n].id

\* As long as nothing fails the files hold the newest messages without a gap,
\* and the oldest are given up only when every backup is taken.
NothingSkipped ==
    clean =>
        LET kept == UNION {{files[i][m].id : m \in DOMAIN files[i]} :
                             i \in {k \in Indices : files[k] # NoFile}}
        IN  /\ \E first \in 1 .. logged + 1 : kept = first .. logged
            /\ logged > 0 /\ 1 \notin kept
                  => \A i \in Indices : files[i] # NoFile

=============================================================================
