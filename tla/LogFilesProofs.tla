--------------------------- MODULE LogFilesProofs ---------------------------
(***************************************************************************)
(* Proofs about loggers and the files they end in.                         *)
(*                                                                         *)
(* The rotating sink, for every number and size of files, every set of     *)
(* message sizes and every pattern of failures, crashes and restarts: what *)
(* is in the files, and what is missing when nothing failed.               *)
(*                                                                         *)
(* The registry, for any set of loggers, names, levels, settings and       *)
(* ports: the default logger is registered, and global settings reach      *)
(* every logger of the factory.  Every call that moves a shared_ptr is a   *)
(* Keep: Good says of its arguments what KeepsInv turns into the invariant *)
(* of the next state.                                                      *)
(***************************************************************************)
EXTENDS LogRotation, LogRegistry, TLAPS

-----------------------------------------------------------------------------
(* The rotating sink.                                                      *)

\* A file no longer than the limit unless one message made it so; the offsets
\* grow.
Fits(f) ==
    /\ \A m, n \in DOMAIN f : m <= n => f[m].end <= f[n].end
    /\ FileSize(f) > MaxSize => Len(f) = 1

\* The order of OldestFirst, over any files.
Ordered(fs) ==
    \A i, j \in Indices :
        fs[i] # NoFile /\ fs[j] # NoFile =>
            \A m \in DOMAIN fs[i], n \in DOMAIN fs[j] :
                i > j \/ (i = j /\ m < n) => fs[i][m].id < fs[j][n].id

\* Files that hold messages up to id last.
GoodFiles(fs, last) ==
    /\ fs \in [Indices -> Seq(Entry) \cup {NoFile}]
    /\ \A i \in Indices : fs[i] # NoFile => Fits(fs[i])
    /\ \A i \in Indices : fs[i] # NoFile =>
          \A m \in DOMAIN fs[i] : fs[i][m].id <= last
    /\ Ordered(fs)

\* current_size_ covers what is in the open file; without one it demands a
\* rotation.
SizeKnown ==
    sink => /\ file = "null" => current_size > MaxSize
            /\ file = "open" => /\ files[0] # NoFile
                                /\ current_size >= FileSize(files[0])

RotationInv ==
    /\ RotationTypeOK
    /\ GoodFiles(files, logged)
    /\ SizeKnown
    /\ NeverNull

-----------------------------------------------------------------------------
(* Files and their sizes.                                                  *)

LEMMA FileSizeType == \A f \in Seq(Entry) : FileSize(f) \in Nat
<1>1. ASSUME NEW f \in Seq(Entry), f # <<>> PROVE f[Len(f)] \in Entry
  <2>1. Len(f) \in 1 .. Len(f)
    BY <1>1
  <2> QED BY <2>1
<1> QED BY <1>1 DEF FileSize, Entry

LEMMA EmptyFits == Fits(<<>>) /\ FileSize(<<>>) = 0
BY RotationAssumption DEF Fits, FileSize

LEMMA EmptySeq == <<>> \in Seq(Entry)
OBVIOUS

\* The loop of rotate_ keeps the order, wherever it stops.
LEMMA ShiftedGood ==
    ASSUME NEW fs, NEW last \in Nat, GoodFiles(fs, last),
           NEW low \in 1 .. MaxFiles + 1
    PROVE  GoodFiles(Shifted(fs, low), last)
<1> DEFINE gs == Shifted(fs, low)
<1>0. MaxFiles \in Nat /\ 0 \in Indices
  BY RotationAssumption DEF Indices
<1>1. ASSUME NEW i \in Indices
      PROVE  \/ gs[i] = NoFile
             \/ gs[i] = fs[i] /\ (i < low - 1 \/ i = MaxFiles)
             \/ i >= low /\ i - 1 \in Indices /\ gs[i] = fs[i - 1]
  BY <1>0 DEF Shifted, Indices
<1>2. gs \in [Indices -> Seq(Entry) \cup {NoFile}]
  <2>1. ASSUME NEW i \in Indices PROVE gs[i] \in Seq(Entry) \cup {NoFile}
    BY <1>1 DEF GoodFiles
  <2> QED BY <2>1 DEF Shifted
<1>3. ASSUME NEW i \in Indices, gs[i] # NoFile
      PROVE  /\ Fits(gs[i])
             /\ \A m \in DOMAIN gs[i] : gs[i][m].id <= last
  BY <1>1, <1>3 DEF GoodFiles
<1>4. ASSUME NEW i \in Indices, NEW j \in Indices,
             gs[i] # NoFile, gs[j] # NoFile,
             NEW m \in DOMAIN gs[i], NEW n \in DOMAIN gs[j],
             i > j \/ (i = j /\ m < n)
      PROVE  gs[i][m].id < gs[j][n].id
  <2>1. PICK k \in Indices : gs[i] = fs[k] /\ (k = i \/ k = i - 1)
    BY <1>1, <1>4
  <2>2. PICK l \in Indices : gs[j] = fs[l] /\ (l = j \/ l = j - 1)
    BY <1>1, <1>4
  <2>3. CASE i = j
    <3>1. gs[i] = fs[k] /\ gs[j] = fs[k]
      BY <2>1, <2>3
    <3> QED BY <3>1, <2>3, <1>4 DEF GoodFiles, Ordered, Indices
  <2>4. CASE i > j
    <3>1. PICK a \in Indices, b \in Indices :
             gs[i] = fs[a] /\ gs[j] = fs[b] /\ a > b
      <4>1. CASE gs[i] = fs[i - 1] /\ i >= low /\ i - 1 \in Indices
        <5>1. CASE j >= low /\ j - 1 \in Indices /\ gs[j] = fs[j - 1]
          BY <4>1, <5>1, <2>4, <1>0 DEF Indices
        <5>2. CASE gs[j] = fs[j] /\ j < low - 1
          BY <4>1, <5>2, <2>4, <1>0 DEF Indices
        <5> QED BY <1>1, <5>1, <5>2, <1>4, <2>4, <1>0 DEF Indices
      <4>2. CASE gs[i] = fs[i]
        <5>1. CASE j >= low /\ j - 1 \in Indices /\ gs[j] = fs[j - 1]
          BY <4>2, <5>1, <2>4, <1>0 DEF Indices
        <5>2. CASE gs[j] = fs[j]
          BY <4>2, <5>2, <2>4
        <5> QED BY <1>1, <5>1, <5>2, <1>4
      <4> QED BY <1>1, <4>1, <4>2, <1>4
    <3> QED BY <3>1, <1>4 DEF GoodFiles, Ordered
  <2> QED BY <2>3, <2>4, <1>4
<1> QED BY <1>2, <1>3, <1>4 DEF GoodFiles, Ordered

\* A backup may disappear.
LEMMA RemovedGood ==
    ASSUME NEW fs, NEW last \in Nat, GoodFiles(fs, last), NEW k \in Indices
    PROVE  GoodFiles([fs EXCEPT ![k] = NoFile], last)
BY DEF GoodFiles, Ordered

\* So may the text of the log file.
LEMMA TruncatedGood ==
    ASSUME NEW fs, NEW last \in Nat, GoodFiles(fs, last)
    PROVE  GoodFiles([fs EXCEPT ![0] = <<>>], last)
<1>1. 0 \in Indices
  BY RotationAssumption DEF Indices
<1>2. <<>> \in Seq(Entry) /\ DOMAIN <<>> = {}
  OBVIOUS
<1> QED BY <1>1, <1>2, EmptyFits DEF GoodFiles, Ordered

LEMMA OpenGood ==
    ASSUME NEW fs, NEW last \in Nat, GoodFiles(fs, last),
           NEW truncate \in BOOLEAN, NEW fd \in FDs
    PROVE  /\ GoodFiles(OpenFile(fs, truncate, fd), last)
           /\ fd = "open" => OpenFile(fs, truncate, fd)[0] # NoFile
           /\ fd = "open" /\ truncate => OpenFile(fs, truncate, fd)[0] = <<>>
<1>0. <<>> \in Seq(Entry)
  OBVIOUS
<1>1. 0 \in Indices /\ <<>> # NoFile /\ fs \in [Indices -> Seq(Entry) \cup {NoFile}]
  <2>1. 0 \in Indices
    BY RotationAssumption DEF Indices
  <2>2. <<>> # NoFile
    BY <1>0, RotationAssumption
  <2> QED BY <2>1, <2>2 DEF GoodFiles
<1>2. CASE fd = "null"
  BY <1>2 DEF OpenFile
<1>3. CASE fd = "open" /\ (truncate \/ fs[0] = NoFile)
  <2>1. OpenFile(fs, truncate, fd) = [fs EXCEPT ![0] = <<>>]
    BY <1>1, <1>3 DEF OpenFile
  <2>2. [fs EXCEPT ![0] = <<>>][0] = <<>>
    BY <1>1
  <2>3. GoodFiles([fs EXCEPT ![0] = <<>>], last)
    BY TruncatedGood
  <2> QED BY <2>1, <2>2, <2>3, <1>1
<1>4. CASE fd = "open" /\ ~(truncate \/ fs[0] = NoFile)
  <2>1. OpenFile(fs, truncate, fd) = fs
    BY <1>1, <1>4 DEF OpenFile
  <2> QED BY <2>1, <1>4
<1> QED BY <1>2, <1>3, <1>4 DEF FDs

\* What rotate_ leaves: good files; an open log file is empty; one that is not
\* open leaves current_size_ as it was.
GoodOutcome(r, last, size) ==
    /\ GoodFiles(r.files, last)
    /\ r.fd \in FDs /\ r.size \in Nat
    /\ r.end = "returned" => r.fd = "open"
    /\ r.fd = "open" => r.files[0] = <<>>
    /\ r.fd = "null" => r.size = size

LEMMA RotateGood ==
    ASSUME NEW fs, NEW last \in Nat, GoodFiles(fs, last), NEW size \in Nat,
           NEW r \in Rotate(fs, size)
    PROVE  GoodOutcome(r, last, size)
<1>0. MaxFiles \in Nat
  BY RotationAssumption
<1>1. ASSUME NEW hs, GoodFiles(hs, last), NEW fd \in FDs, NEW n \in Nat,
             NEW end, end = "returned" => fd = "open", fd = "null" => n = size
      PROVE  GoodOutcome(Outcome(hs, fd, n, end), last, size)
  <2>1. /\ GoodFiles(OpenFile(hs, TRUE, fd), last)
        /\ fd = "open" => OpenFile(hs, TRUE, fd)[0] = <<>>
    BY <1>1, OpenGood
  <2> QED BY <2>1, <1>1 DEF Outcome, GoodOutcome
<1>2. ASSUME NEW fd \in FDs
      PROVE  GoodOutcome(Outcome(Shifted(fs, 1), fd, size, Opened(fd)), last, size)
  <2>1. GoodFiles(Shifted(fs, 1), last)
    BY <1>0, ShiftedGood
  <2>2. Opened(fd) = "returned" => fd = "open"
    BY DEF Opened
  <2> QED BY <2>1, <2>2, <1>1
<1>3. ASSUME NEW i \in Targets(fs), NEW fd \in FDs, NEW target \in {"removed", "kept"}
      PROVE  GoodOutcome(Outcome(Stuck(fs, i, target), fd,
                                 IF fd = "open" THEN 0 ELSE size, "threw"), last, size)
  <2>1. i \in Indices /\ i + 1 \in 1 .. MaxFiles + 1
    BY <1>0 DEF Targets, Indices
  <2>2. GoodFiles(Stuck(fs, i, target), last)
    BY <2>1, ShiftedGood, RemovedGood DEF Stuck
  <2>3. /\ (IF fd = "open" THEN 0 ELSE size) \in Nat
        /\ fd = "null" => (IF fd = "open" THEN 0 ELSE size) = size
    OBVIOUS
  <2> QED BY <2>2, <2>3, <1>1
<1> QED BY <1>2, <1>3 DEF Rotate

\* A message newer than all others goes at the end of the log file.
LEMMA AppendGood ==
    ASSUME NEW fs, NEW last \in Nat, GoodFiles(fs, last), fs[0] # NoFile,
           NEW e \in Entry, e.id = last + 1, e.end >= FileSize(fs[0]),
           e.end > MaxSize => fs[0] = <<>>
    PROVE  /\ GoodFiles([fs EXCEPT ![0] = Append(fs[0], e)], last + 1)
           /\ FileSize(Append(fs[0], e)) = e.end
<1> DEFINE f == fs[0]
           g == Append(f, e)
           gs == [fs EXCEPT ![0] = g]
<1>1. /\ 0 \in Indices /\ f \in Seq(Entry) /\ g \in Seq(Entry)
      /\ MaxSize \in Nat /\ Indices \subseteq Nat
      /\ fs \in [Indices -> Seq(Entry) \cup {NoFile}]
  BY RotationAssumption DEF Indices, GoodFiles
<1>2. /\ Len(g) = Len(f) + 1 /\ g[Len(g)] = e /\ DOMAIN g = 1 .. Len(g)
      /\ DOMAIN f = 1 .. Len(f) /\ Len(f) \in Nat
      /\ \A m \in DOMAIN f : g[m] = f[m] /\ f[m] \in Entry
  BY <1>1
<1>3. FileSize(g) = e.end
  <2>1. g # <<>>
    BY <1>2, <1>1
  <2> QED BY <2>1, <1>2 DEF FileSize
<1>4. Fits(g)
  <2>1. ASSUME NEW m \in DOMAIN g, NEW n \in DOMAIN g, m <= n
        PROVE  g[m].end <= g[n].end
    <3>0. Fits(f)
      BY <1>1 DEF GoodFiles
    <3>1. CASE n \in DOMAIN f
      BY <2>1, <3>1, <3>0, <1>2 DEF Fits
    <3>2. CASE n = Len(g) /\ m \in DOMAIN f
      <4>1. f # <<>> /\ Len(f) \in DOMAIN f /\ m <= Len(f)
        BY <3>2, <1>2, <1>1
      <4>2. FileSize(f) = f[Len(f)].end
        BY <4>1 DEF FileSize
      <4>3. f[m].end <= f[Len(f)].end
        BY <4>1, <3>2, <3>0 DEF Fits
      <4>4. f[m].end \in Nat /\ f[Len(f)].end \in Nat /\ e.end \in Nat
        BY <4>1, <3>2, <1>2 DEF Entry
      <4> QED BY <4>2, <4>3, <4>4, <3>2, <1>2
    <3>3. CASE n = Len(g) /\ m = Len(g)
      BY <3>3, <1>2 DEF Entry
    <3> QED BY <3>1, <3>2, <3>3, <1>2, <2>1
  <2>2. FileSize(g) > MaxSize => Len(g) = 1
    BY <1>3, <1>2
  <2> QED BY <2>1, <2>2 DEF Fits
<1>5. ASSUME NEW i \in Indices, gs[i] # NoFile
      PROVE  /\ Fits(gs[i])
             /\ \A m \in DOMAIN gs[i] : gs[i][m].id <= last + 1
  <2>1. CASE i = 0
    <3>1. gs[i] = g
      BY <2>1, <1>1
    <3>2. \A m \in DOMAIN f : f[m].id <= last /\ f[m].id \in Nat
      BY <1>1, <1>2 DEF GoodFiles, Entry
    <3>3. \A m \in DOMAIN g : g[m].id <= last + 1
      BY <3>2, <1>2
    <3> QED BY <3>1, <3>3, <1>4
  <2>2. CASE i # 0
    <3>1. gs[i] = fs[i] /\ fs[i] \in Seq(Entry)
      BY <2>2, <1>1, <1>5
    <3>2. \A m \in DOMAIN fs[i] : fs[i][m].id <= last /\ fs[i][m] \in Entry
      BY <3>1, <1>5 DEF GoodFiles
    <3>3. \A m \in DOMAIN fs[i] : fs[i][m].id <= last + 1
      BY <3>2 DEF Entry
    <3>4. Fits(fs[i])
      BY <3>1, <1>5 DEF GoodFiles
    <3> QED BY <3>1, <3>3, <3>4
  <2> QED BY <2>1, <2>2
<1>6. ASSUME NEW i \in Indices, NEW j \in Indices,
             gs[i] # NoFile, gs[j] # NoFile,
             NEW m \in DOMAIN gs[i], NEW n \in DOMAIN gs[j],
             i > j \/ (i = j /\ m < n)
      PROVE  gs[i][m].id < gs[j][n].id
  <2>0. gs[0] = g /\ \A k \in Indices \ {0} : gs[k] = fs[k]
    BY <1>1
  <2>1. CASE j = 0 /\ n = Len(g)
    <3>1. gs[j][n].id = last + 1
      BY <2>0, <2>1, <1>2
    <3>2. gs[i][m].id <= last /\ gs[i][m].id \in Nat
      <4>1. CASE i = 0
        <5>1. m \in DOMAIN f
          BY <4>1, <2>0, <2>1, <1>2, <1>6
        <5> QED BY <5>1, <4>1, <2>0, <1>2, <1>1 DEF GoodFiles, Entry
      <4>2. CASE i # 0
        <5>1. gs[i] = fs[i] /\ fs[i] \in Seq(Entry)
          BY <4>2, <2>0, <1>1, <1>6
        <5>2. fs[i][m].id <= last /\ fs[i][m] \in Entry
          BY <5>1, <1>6 DEF GoodFiles
        <5> QED BY <5>1, <5>2 DEF Entry
      <4> QED BY <4>1, <4>2
    <3> QED BY <3>1, <3>2
  <2>2. CASE ~(j = 0 /\ n = Len(g))
    <3>1. n \in DOMAIN fs[j] /\ gs[j][n] = fs[j][n] /\ fs[j] # NoFile
      BY <2>0, <2>2, <1>2, <1>6
    <3>2. m \in DOMAIN fs[i] /\ gs[i][m] = fs[i][m] /\ fs[i] # NoFile
      <4>1. CASE i = 0
        <5>1. j = 0 /\ m < n /\ n \in DOMAIN f
          BY <4>1, <1>6, <1>1, <3>1
        <5> QED BY <5>1, <4>1, <2>0, <1>2, <1>6
      <4>2. CASE i # 0
        BY <4>2, <2>0, <1>6
      <4> QED BY <4>1, <4>2
    <3> QED BY <3>1, <3>2, <1>6 DEF GoodFiles, Ordered
  <2> QED BY <2>1, <2>2
<1>7. gs \in [Indices -> Seq(Entry) \cup {NoFile}]
  BY <1>1
<1> QED BY <1>3, <1>5, <1>6, <1>7 DEF GoodFiles, Ordered

\* A crash leaves a prefix of the log file.
LEMMA CutGood ==
    ASSUME NEW fs, NEW last \in Nat, GoodFiles(fs, last), fs[0] # NoFile,
           NEW n \in 0 .. Len(fs[0])
    PROVE  GoodFiles([fs EXCEPT ![0] = SubSeq(fs[0], 1, n)], last)
<1> DEFINE f == fs[0]
           g == SubSeq(f, 1, n)
           gs == [fs EXCEPT ![0] = g]
<1>1. /\ 0 \in Indices /\ f \in Seq(Entry) /\ MaxSize \in Nat
      /\ fs \in [Indices -> Seq(Entry) \cup {NoFile}]
  BY RotationAssumption DEF Indices, GoodFiles
<1>2. /\ g \in Seq(Entry) /\ Len(g) = n /\ DOMAIN g = 1 .. n /\ n \in Nat
      /\ DOMAIN f = 1 .. Len(f) /\ Len(f) \in Nat /\ n <= Len(f)
      /\ \A m \in DOMAIN g : g[m] = f[m] /\ m \in DOMAIN f /\ f[m] \in Entry
  BY <1>1
<1>3. Fits(g)
  <2>0. Fits(f)
    BY <1>1 DEF GoodFiles
  <2>1. \A k, m \in DOMAIN g : k <= m => g[k].end <= g[m].end
    BY <2>0, <1>2 DEF Fits
  <2>2. ASSUME FileSize(g) > MaxSize PROVE Len(g) = 1
    <3>1. n >= 1 /\ FileSize(g) = f[n].end
      <4>1. g # <<>>
        BY <2>2, <1>1 DEF FileSize
      <4> QED BY <4>1, <1>2, <1>1 DEF FileSize
    <3>2. f # <<>> /\ FileSize(f) = f[Len(f)].end
      BY <3>1, <1>2, <1>1 DEF FileSize
    <3>3. n \in DOMAIN f /\ Len(f) \in DOMAIN f
      BY <3>1, <1>2
    <3>4. f[n].end <= f[Len(f)].end
      BY <3>3, <2>0, <1>2 DEF Fits
    <3>5. f[n] \in Entry /\ f[Len(f)] \in Entry
      BY <3>3, <1>1, <1>2
    <3>6. FileSize(f) > MaxSize
      BY <3>1, <3>2, <3>4, <3>5, <2>2, <1>1 DEF Entry
    <3> QED BY <3>6, <3>1, <2>0, <1>2 DEF Fits
  <2> QED BY <2>1, <2>2 DEF Fits
<1>4. gs[0] = g /\ \A k \in Indices \ {0} : gs[k] = fs[k]
  BY <1>1
<1>5. gs \in [Indices -> Seq(Entry) \cup {NoFile}]
  BY <1>1, <1>2
<1>6. ASSUME NEW i \in Indices, gs[i] # NoFile
      PROVE  /\ fs[i] # NoFile /\ DOMAIN gs[i] \subseteq DOMAIN fs[i]
             /\ \A m \in DOMAIN gs[i] : gs[i][m] = fs[i][m]
  BY <1>1, <1>2, <1>4, <1>6
<1>7. \A i \in Indices : gs[i] # NoFile => Fits(gs[i])
  BY <1>3, <1>4 DEF GoodFiles
<1>8. \A i \in Indices : gs[i] # NoFile =>
          \A m \in DOMAIN gs[i] : gs[i][m].id <= last
  BY <1>6 DEF GoodFiles
<1>9. Ordered(gs)
  BY <1>6 DEF GoodFiles, Ordered
<1> QED BY <1>5, <1>7, <1>8, <1>9 DEF GoodFiles

\* A number that is not reached yet may be counted.
LEMMA LaterGood ==
    ASSUME NEW fs, NEW last \in Nat, GoodFiles(fs, last)
    PROVE  GoodFiles(fs, last + 1)
<1>1. ASSUME NEW i \in Indices, fs[i] # NoFile, NEW m \in DOMAIN fs[i]
      PROVE  fs[i][m].id <= last + 1
  <2>1. fs[i] \in Seq(Entry)
    BY <1>1 DEF GoodFiles
  <2>2. fs[i][m] \in Entry /\ fs[i][m].id <= last
    BY <2>1, <1>1 DEF GoodFiles
  <2> QED BY <2>2 DEF Entry
<1> QED BY <1>1 DEF GoodFiles

-----------------------------------------------------------------------------
(* The invariant.                                                          *)

LEMMA RotationInit_Inv == RotationInit => RotationInv
<1> SUFFICES ASSUME RotationInit PROVE RotationInv
  OBVIOUS
<1>1. RotationTypeOK
  BY DEF RotationInit, RotationTypeOK, FDs
<1>2. GoodFiles(files, logged)
  BY DEF RotationInit, GoodFiles, Ordered
<1> QED BY <1>1, <1>2 DEF RotationInit, RotationInv, SizeKnown, NeverNull

\* What Write leaves, in files that are good and open.
LEMMA WriteGood ==
    ASSUME NEW fs, NEW last \in Nat, GoodFiles(fs, last), fs[0] # NoFile,
           NEW size \in MsgSizes, Write(fs, size, last + 1), clean \in BOOLEAN,
           FileSize(fs[0]) + size > MaxSize => fs[0] = <<>>
    PROVE  /\ GoodFiles(files', last + 1) /\ files'[0] # NoFile
           /\ FileSize(files'[0]) <= FileSize(fs[0]) + size
           /\ clean' \in BOOLEAN
<1> DEFINE f == fs[0]
           entry(n, whole) ==
               [id |-> last + 1, end |-> FileSize(f) + n, whole |-> whole]
<1>1. /\ size \in Nat /\ 0 \in Indices /\ f \in Seq(Entry) /\ MaxSize \in Nat
      /\ FileSize(f) \in Nat /\ NoFile \notin Seq(Entry)
      /\ fs \in [Indices -> Seq(Entry) \cup {NoFile}]
  BY RotationAssumption, FileSizeType DEF Indices, GoodFiles
<1>2. ASSUME NEW e \in Entry, e.id = last + 1, e.end >= FileSize(f),
             e.end <= FileSize(f) + size, files' = [fs EXCEPT ![0] = Append(f, e)]
      PROVE  /\ GoodFiles(files', last + 1) /\ files'[0] # NoFile
             /\ FileSize(files'[0]) <= FileSize(f) + size
  <2>1. e.end \in Nat
    BY DEF Entry
  <2>2. e.end > MaxSize => f = <<>>
    BY <1>1, <1>2, <2>1
  <2>3. /\ GoodFiles([fs EXCEPT ![0] = Append(f, e)], last + 1)
        /\ FileSize(Append(f, e)) = e.end
    BY <2>2, <1>1, <1>2, AppendGood
  <2>4. files'[0] = Append(f, e) /\ Append(f, e) \in Seq(Entry)
    BY <1>1, <1>2
  <2>5. GoodFiles(files', last + 1)
    BY <2>3, <1>2
  <2>6. files'[0] # NoFile /\ FileSize(files'[0]) = e.end
    BY <2>3, <2>4, <1>1
  <2> QED BY <2>5, <2>6, <1>2
<1>6. clean' \in BOOLEAN
  BY DEF Write
<1>3. CASE files' = fs
  <2>1. FileSize(files'[0]) = FileSize(f) /\ files'[0] # NoFile
    BY <1>3
  <2> QED BY <2>1, <1>3, <1>1, <1>6, LaterGood
<1>7. ASSUME NEW n \in 0 .. size, NEW whole \in BOOLEAN
      PROVE  /\ entry(n, whole) \in Entry /\ entry(n, whole).id = last + 1
             /\ entry(n, whole).end >= FileSize(f)
             /\ entry(n, whole).end <= FileSize(f) + size
  BY <1>1 DEF Entry
<1>4. CASE \E n \in 1 .. size - 1 :
             files' = [fs EXCEPT ![0] = Append(f, entry(n, FALSE))]
  <2>1. PICK n \in 1 .. size - 1 :
             files' = [fs EXCEPT ![0] = Append(f, entry(n, FALSE))]
    BY <1>4
  <2>2. n \in 0 .. size
    BY <1>1
  <2>3. /\ entry(n, FALSE) \in Entry /\ entry(n, FALSE).id = last + 1
        /\ entry(n, FALSE).end >= FileSize(f)
        /\ entry(n, FALSE).end <= FileSize(f) + size
    BY <2>2, <1>7
  <2> HIDE DEF entry
  <2> QED BY <2>1, <2>3, <1>2, <1>6
<1>5. CASE files' = [fs EXCEPT ![0] = Append(f, entry(size, TRUE))]
  <2>1. size \in 0 .. size
    BY <1>1
  <2>3. /\ entry(size, TRUE) \in Entry /\ entry(size, TRUE).id = last + 1
        /\ entry(size, TRUE).end >= FileSize(f)
        /\ entry(size, TRUE).end <= FileSize(f) + size
    BY <2>1, <1>7
  <2> HIDE DEF entry
  <2> QED BY <2>3, <1>5, <1>2, <1>6
<1> QED BY <1>3, <1>4, <1>5, <1>6 DEF Write

LEMMA Construct_Inv ==
    ASSUME RotationInv, NEW rotate_on_open \in BOOLEAN, Construct(rotate_on_open)
    PROVE  RotationInv'
<1>0. /\ RotationTypeOK /\ GoodFiles(files, logged) /\ NeverNull
      /\ 0 \in Indices /\ logged \in Nat
  BY RotationAssumption DEF RotationInv, RotationTypeOK, Indices
<1>1. ASSUME NEW r, GoodFiles(r.files, logged), r.size \in Nat, Constructed(r),
             r.end = "returned" =>
                r.files[0] # NoFile /\ r.size >= FileSize(r.files[0])
      PROVE  RotationInv'
  <2>1. /\ files' = r.files /\ GoodFiles(files', logged')
        /\ logged' = logged /\ misused' = misused
    BY <1>0, <1>1 DEF Construct, Constructed
  <2>2. safe' \in Nat
    <3>1. r.files[0] # NoFile => r.files[0] \in Seq(Entry)
      BY <1>0, <1>1 DEF GoodFiles
    <3> QED BY <3>1, <1>1 DEF Constructed
  <2>3. RotationTypeOK'
    BY <2>1, <2>2, <1>0, <1>1
       DEF RotationTypeOK, Constructed, GoodFiles, FDs
  <2>4. SizeKnown'
    BY <1>1 DEF SizeKnown, Constructed
  <2> QED BY <2>1, <2>3, <2>4, <1>0 DEF RotationInv, NeverNull
<1>2. PICK fd \in FDs :
          LET fs == OpenFile(files, FALSE, fd)
              size == IF fd = "open" THEN FileSize(fs[0]) ELSE 0
          IN  IF rotate_on_open /\ size > 0
              THEN \E r \in Rotate(fs, size) : Constructed(r)
              ELSE Constructed([files |-> fs, size |-> size, end |-> Opened(fd)])
  BY DEF Construct
<1> DEFINE fs == OpenFile(files, FALSE, fd)
           size == IF fd = "open" THEN FileSize(fs[0]) ELSE 0
<1>3. GoodFiles(fs, logged) /\ (fd = "open" => fs[0] # NoFile)
  BY <1>0, OpenGood
<1>4. size \in Nat
  BY <1>0, <1>3, FileSizeType DEF GoodFiles
<1> HIDE DEF fs, size
<1>5. CASE rotate_on_open /\ size > 0
  <2>1. PICK r \in Rotate(fs, size) : Constructed(r)
    BY <1>2, <1>5 DEF fs, size
  <2>2. GoodOutcome(r, logged, size)
    BY <1>0, <1>3, <1>4, RotateGood
  <2>3. <<>> # NoFile
    BY RotationAssumption, EmptySeq
  <2> QED BY <2>1, <2>2, <2>3, <1>1, EmptyFits DEF GoodOutcome
<1>6. CASE ~(rotate_on_open /\ size > 0)
  <2> DEFINE r == [files |-> fs, size |-> size, end |-> Opened(fd)]
  <2>1. Constructed(r)
    BY <1>2, <1>6 DEF fs, size
  <2>2. r.end = "returned" => fd = "open"
    BY DEF Opened
  <2>3. r.files = fs /\ r.size = size
    OBVIOUS
  <2>4. fd = "open" => size = FileSize(fs[0])
    BY DEF size
  <2>5. fd = "open" => FileSize(fs[0]) \in Nat
    BY <1>4, <2>4
  <2> HIDE DEF r
  <2> QED BY <2>1, <2>2, <2>3, <2>4, <2>5, <1>1, <1>3, <1>4
<1> QED BY <1>5, <1>6

LEMMA Log_Inv ==
    ASSUME RotationInv, NEW size \in MsgSizes, Log(size)
    PROVE  RotationInv'
<1>0. /\ RotationTypeOK /\ GoodFiles(files, logged) /\ SizeKnown /\ NeverNull
      /\ 0 \in Indices /\ logged \in Nat /\ size \in Nat /\ current_size \in Nat
      /\ MaxSize \in Nat /\ sink /\ sink' = sink /\ logged' = logged + 1
      /\ file \in FDs /\ sink \in BOOLEAN /\ clean \in BOOLEAN
  BY RotationAssumption DEF RotationInv, RotationTypeOK, Indices, Log, LogAt
<1>1. CASE current_size + size > MaxSize
  <2>1. PICK r \in Rotate(files, current_size + size) :
             AfterRotation(size, r) /\ misused' = misused
    BY <1>1 DEF Log, LogAt
  <2>2. GoodOutcome(r, logged, current_size + size)
    BY <1>0, RotateGood
  <2>3. CASE r.end = "returned"
    <3>1. r.files[0] = <<>> /\ <<>> # NoFile /\ FileSize(r.files[0]) = 0
      BY <2>2, <2>3, RotationAssumption, EmptySeq, EmptyFits DEF GoodOutcome
    <3>2. Write(r.files, size, logged + 1) /\ current_size' = size
      BY <2>1, <2>3 DEF AfterRotation
    <3>3. /\ GoodFiles(files', logged + 1) /\ files'[0] # NoFile
          /\ FileSize(files'[0]) <= size /\ clean' \in BOOLEAN
      BY <3>1, <3>2, <2>2, <1>0, WriteGood DEF GoodOutcome
    <3>4. file' = "open" /\ safe' = 0
      BY <2>1, <2>2, <2>3 DEF AfterRotation, GoodOutcome
    <3>5. FileSize(files'[0]) \in Nat
      BY <3>3, <1>0, FileSizeType DEF GoodFiles
    <3>6. RotationTypeOK'
      BY <3>2, <3>3, <3>4, <2>1, <1>0 DEF RotationTypeOK, GoodFiles, FDs
    <3> QED BY <3>2, <3>3, <3>4, <3>5, <3>6, <2>1, <1>0
            DEF RotationInv, SizeKnown, NeverNull
  <2>4. CASE r.end # "returned"
    <3>1. /\ files' = r.files /\ current_size' = r.size /\ clean' = FALSE
          /\ file' = r.fd /\ safe' = 0
      BY <2>1, <2>4 DEF AfterRotation
    <3>2. GoodFiles(files', logged + 1)
      BY <3>1, <2>2, <1>0, LaterGood DEF GoodOutcome
    <3>3. RotationTypeOK'
      <4>1. files' \in [Indices -> Seq(Entry) \cup {NoFile}]
        BY <3>2 DEF GoodFiles
      <4>2. current_size' \in Nat /\ file' \in FDs
        BY <3>1, <2>2 DEF GoodOutcome
      <4>3. {sink', clean', misused'} \subseteq BOOLEAN
        BY <3>1, <2>1, <1>0 DEF RotationTypeOK
      <4>4. safe' \in Nat /\ logged' \in Nat
        BY <3>1, <1>0
      <4> QED BY <4>1, <4>2, <4>3, <4>4 DEF RotationTypeOK
    <3>4. SizeKnown'
      <4>1. CASE r.fd = "open"
        <5>1. files'[0] = <<>> /\ <<>> # NoFile /\ FileSize(files'[0]) = 0
          BY <4>1, <3>1, <2>2, RotationAssumption, EmptySeq, EmptyFits
             DEF GoodOutcome
        <5> QED BY <5>1, <4>1, <3>1, <2>2 DEF SizeKnown, GoodOutcome
      <4>2. CASE r.fd = "null"
        BY <4>2, <3>1, <2>2, <1>0, <1>1 DEF SizeKnown, GoodOutcome
      <4> QED BY <4>1, <4>2, <2>2 DEF GoodOutcome, FDs
    <3> QED BY <3>2, <3>3, <3>4, <2>1, <1>0 DEF RotationInv, NeverNull
  <2> QED BY <2>3, <2>4
<1>2. CASE ~(current_size + size > MaxSize)
  <2>1. file = "open"
    BY <1>0, <1>2 DEF SizeKnown, FDs
  <2>2. /\ current_size' = current_size + size /\ safe' = safe /\ file' = file
        /\ Write(files, size, logged + 1) /\ misused' = misused
    BY <1>2, <2>1 DEF Log, LogAt
  <2>3. files[0] # NoFile /\ current_size >= FileSize(files[0])
    BY <2>1, <1>0 DEF SizeKnown
  <2>4. FileSize(files[0]) \in Nat
    BY <2>3, <1>0, FileSizeType DEF GoodFiles
  <2>5. ~(FileSize(files[0]) + size > MaxSize)
    BY <2>3, <2>4, <1>0, <1>2
  <2>6. /\ GoodFiles(files', logged + 1) /\ files'[0] # NoFile
        /\ FileSize(files'[0]) <= FileSize(files[0]) + size /\ clean' \in BOOLEAN
    BY <2>2, <2>3, <2>5, <1>0, WriteGood
  <2>7. FileSize(files'[0]) \in Nat
    BY <2>6, <1>0, FileSizeType DEF GoodFiles
  <2>8. RotationTypeOK'
    BY <2>2, <2>6, <1>0 DEF RotationTypeOK, GoodFiles
  <2>9. SizeKnown'
    BY <2>1, <2>2, <2>3, <2>4, <2>6, <2>7, <1>0 DEF SizeKnown
  <2> QED BY <2>2, <2>6, <2>8, <2>9, <1>0 DEF RotationInv, NeverNull
<1> QED BY <1>1, <1>2

LEMMA CrashLog_Inv ==
    ASSUME RotationInv, CrashLog
    PROVE  RotationInv'
<1>0. /\ RotationTypeOK /\ GoodFiles(files, logged) /\ SizeKnown /\ NeverNull
      /\ logged \in Nat /\ safe \in Nat /\ sink /\ sink' = FALSE
      /\ logged' = logged /\ misused' = misused
  BY DEF RotationInv, RotationTypeOK, CrashLog
<1>1. GoodFiles(files', logged)
  <2>1. CASE file = "open"
    <3>1. PICK n \in safe .. Len(files[0]) :
              files' = [files EXCEPT ![0] = SubSeq(files[0], 1, n)]
      BY <2>1 DEF CrashLog
    <3>2. files[0] # NoFile
      BY <2>1, <1>0 DEF SizeKnown
    <3>3. n \in 0 .. Len(files[0])
      BY <1>0
    <3> QED BY <3>1, <3>2, <3>3, <1>0, CutGood
  <2>2. CASE file # "open"
    BY <2>2, <1>0 DEF CrashLog
  <2> QED BY <2>1, <2>2
<1>2. RotationTypeOK'
  BY <1>0, <1>1 DEF RotationTypeOK, CrashLog, GoodFiles, FDs
<1> QED BY <1>0, <1>1, <1>2 DEF RotationInv, SizeKnown, NeverNull

LEMMA RotationNext_Inv == RotationInv /\ [RotationNext]_rotationVars => RotationInv'
<1> SUFFICES ASSUME RotationInv, [RotationNext]_rotationVars PROVE RotationInv'
  OBVIOUS
<1>1. ASSUME NEW rotate_on_open \in BOOLEAN, Construct(rotate_on_open)
      PROVE  RotationInv'
  BY <1>1, Construct_Inv
<1>2. ASSUME NEW size \in MsgSizes, Log(size) PROVE RotationInv'
  BY <1>2, Log_Inv
<1>3. CASE Flush
  <2>1. files[0] \in Seq(Entry)
    BY <1>3, RotationAssumption
       DEF RotationInv, RotationTypeOK, SizeKnown, Flush, Indices
  <2> QED BY <2>1, <1>3
          DEF Flush, RotationInv, RotationTypeOK, SizeKnown, NeverNull
<1>4. CASE Destruct
  BY <1>4 DEF Destruct, RotationInv, RotationTypeOK, SizeKnown, NeverNull, FDs
<1>5. CASE CrashLog
  BY <1>5, CrashLog_Inv
<1>6. CASE UNCHANGED rotationVars
  BY <1>6 DEF rotationVars, RotationInv, RotationTypeOK, SizeKnown, NeverNull
<1> QED BY <1>1, <1>2, <1>3, <1>4, <1>5, <1>6 DEF RotationNext

LEMMA RotationInvariant == RotationSpec => []RotationInv
BY RotationInit_Inv, RotationNext_Inv, PTL DEF RotationSpec

\* The null FILE a failed rotation leaves is never written.
THEOREM NullFileNeverWritten == RotationSpec => []NeverNull
<1>1. RotationInv => NeverNull
  BY DEF RotationInv
<1> QED BY <1>1, RotationInvariant, PTL

\* No file grows over the limit but for a message that is itself longer.
THEOREM FilesBounded == RotationSpec => []SizeBounded
<1>1. RotationInv => SizeBounded
  BY DEF RotationInv, GoodFiles, Fits, SizeBounded
<1> QED BY <1>1, RotationInvariant, PTL

\* Whatever fails, the files hold the messages in order, each once.
THEOREM FilesInOrder == RotationSpec => []OldestFirst
<1>1. RotationInv => OldestFirst
  BY DEF RotationInv, GoodFiles, Ordered, OldestFirst
<1> QED BY <1>1, RotationInvariant, PTL

-----------------------------------------------------------------------------
(* What a log without failures keeps.                                      *)

Ids(fs) == UNION {{fs[i][m].id : m \in DOMAIN fs[i]} : i \in {k \in Indices : fs[k] # NoFile}}

\* There is no place free below a file.
Packed(fs) == \A i, j \in Indices : i <= j /\ fs[j] # NoFile => fs[i] # NoFile

\* The files hold the messages up to last without a gap, and message 1 is given up
\* only when every place is taken.
NoGap(fs, last) ==
    /\ \E first \in 1 .. last + 1 : Ids(fs) = first .. last
    /\ last > 0 /\ 1 \notin Ids(fs) => \A i \in Indices : fs[i] # NoFile

Kept(fs, last) == Packed(fs) /\ NoGap(fs, last)
CleanInv == clean => Kept(files, logged) /\ (sink => file = "open")

LEMMA EmptyFile == <<>> # NoFile /\ DOMAIN <<>> = {} /\ \A i \in DOMAIN <<>> : FALSE
<1>1. <<>> # NoFile
  BY EmptySeq, RotationAssumption
<1>2. DOMAIN <<>> = {}
  OBVIOUS
<1> QED
  BY <1>1, <1>2

LEMMA IdsLemma ==
    ASSUME NEW fs, NEW x
    PROVE  x \in Ids(fs) <=>
              \E i \in Indices : fs[i] # NoFile /\ \E m \in DOMAIN fs[i] : x = fs[i][m].id
  BY DEF Ids

\* The sink opens the log file; an empty one is made if there is none.
LEMMA OpenKept ==
    ASSUME NEW fs, NEW last \in Nat, fs \in [Indices -> Seq(Entry) \cup {NoFile}], Kept(fs, last)
    PROVE  Kept(OpenFile(fs, FALSE, "open"), last)
<1> DEFINE gs == OpenFile(fs, FALSE, "open")
<1>1. 0 \in Indices /\ \A i \in Indices : 0 <= i
  BY RotationAssumption DEF Indices
<1>2. /\ gs[0] = (IF fs[0] = NoFile THEN <<>> ELSE fs[0])
      /\ \A i \in Indices \ {0} : gs[i] = fs[i]
  BY <1>1 DEF OpenFile
<1>3. <<>> # NoFile /\ DOMAIN <<>> = {}
  BY EmptyFile
<1>4. gs[0] # NoFile /\ \A i \in Indices : fs[i] # NoFile => gs[i] # NoFile
  BY <1>2, <1>3
<1> HIDE DEF gs
<1>5. \A x : x \in Ids(gs) <=> x \in Ids(fs)
  <2>1. \A i \in Indices : fs[i] # NoFile => gs[i] = fs[i]
    BY <1>2
  <2>2. \A i \in Indices : fs[i] = NoFile /\ gs[i] # NoFile => gs[i] = <<>>
    BY <1>2
  <2>3. ASSUME NEW x, x \in Ids(gs) PROVE x \in Ids(fs)
    <3>1. PICK i \in Indices : gs[i] # NoFile /\ \E m \in DOMAIN gs[i] : x = gs[i][m].id
      BY <2>3, IdsLemma
    <3>2. fs[i] # NoFile
      BY <1>3, <2>2, <3>1
    <3> QED
      BY <2>1, <3>1, <3>2, IdsLemma
  <2>4. ASSUME NEW x, x \in Ids(fs) PROVE x \in Ids(gs)
    <3>1. PICK i \in Indices : fs[i] # NoFile /\ \E m \in DOMAIN fs[i] : x = fs[i][m].id
      BY <2>4, IdsLemma
    <3>2. gs[i] = fs[i]
      BY <2>1, <3>1
    <3> QED
      BY <3>1, <3>2, IdsLemma
  <2> QED
    BY <2>3, <2>4
<1>6. Ids(gs) = Ids(fs)
  BY <1>5
<1>7. Packed(gs)
  BY <1>1, <1>2, <1>4 DEF Kept, Packed
<1> QED
  BY <1>4, <1>6, <1>7 DEF Kept, NoGap, gs

\* rotate_ gives up the last backup and nothing else; that one holds the oldest.
LEMMA RotatedKept ==
    ASSUME NEW fs, NEW last \in Nat, GoodFiles(fs, last), Kept(fs, last)
    PROVE  Kept(OpenFile(Shifted(fs, 1), TRUE, "open"), last)
<1> DEFINE gs == OpenFile(Shifted(fs, 1), TRUE, "open")
<1>1. /\ 0 \in Indices /\ MaxFiles \in Indices /\ MaxFiles \in Nat
      /\ \A i \in Indices : 0 <= i /\ i <= MaxFiles /\ i \in Nat /\ (i > 0 => i - 1 \in Indices)
      /\ \A i \in Indices : i # MaxFiles => i + 1 \in Indices
  BY RotationAssumption DEF Indices
<1>2. gs[0] = <<>>
  BY <1>1 DEF OpenFile, Shifted
<1>3. \A i \in Indices \ {0} : gs[i] = fs[i - 1]
  <2> SUFFICES ASSUME NEW i \in Indices \ {0} PROVE gs[i] = fs[i - 1]
    OBVIOUS
  <2>1. i >= 1 /\ ~(1 > MaxFiles) /\ i - 1 \in Indices /\ i - 1 <= i /\ ~(i < 1 - 1)
    BY <1>1
  <2>4. gs[i] = Shifted(fs, 1)[i]
    BY <1>1 DEF OpenFile, Shifted
  <2>2. gs[i] = IF fs[i - 1] # NoFile THEN fs[i - 1] ELSE IF i = MaxFiles THEN fs[i] ELSE NoFile
    BY <2>1, <2>4 DEF Shifted
  <2>3. fs[i - 1] = NoFile => fs[i] = NoFile
    BY <2>1 DEF Kept, Packed
  <2> QED
    BY <2>2, <2>3
<1>4. <<>> # NoFile /\ DOMAIN <<>> = {}
  BY EmptyFile
<1> HIDE DEF gs
<1>5. \A x : x \in Ids(gs) <=>
         \E i \in Indices \ {MaxFiles} : fs[i] # NoFile /\ \E m \in DOMAIN fs[i] : x = fs[i][m].id
  <2> SUFFICES ASSUME NEW x
               PROVE  x \in Ids(gs) <=> \E i \in Indices \ {MaxFiles} :
                         fs[i] # NoFile /\ \E m \in DOMAIN fs[i] : x = fs[i][m].id
    OBVIOUS
  <2>1. ASSUME NEW i \in Indices, gs[i] # NoFile, NEW m \in DOMAIN gs[i], x = gs[i][m].id
        PROVE  \E j \in Indices \ {MaxFiles} :
                  fs[j] # NoFile /\ \E n \in DOMAIN fs[j] : x = fs[j][n].id
    <3>1. i # 0
      BY <1>2, <1>4, <2>1
    <3>2. i - 1 \in Indices \ {MaxFiles} /\ gs[i] = fs[i - 1]
      BY <1>1, <1>3, <3>1
    <3> QED
      BY <2>1, <3>2
  <2>2. ASSUME NEW i \in Indices \ {MaxFiles}, fs[i] # NoFile, NEW m \in DOMAIN fs[i], x = fs[i][m].id
        PROVE  \E j \in Indices : gs[j] # NoFile /\ \E n \in DOMAIN gs[j] : x = gs[j][n].id
    <3>1. i + 1 \in Indices \ {0} /\ (i + 1) - 1 = i
      BY <1>1
    <3>2. gs[i + 1] = fs[i]
      BY <1>3, <3>1
    <3> QED
      BY <2>2, <3>1, <3>2
  <2> QED
    BY <2>1, <2>2, IdsLemma
<1>6. \A i \in Indices \ {0} : fs[i - 1] # NoFile <=> gs[i] # NoFile
  BY <1>3
<1>7. Packed(gs)
  <2> SUFFICES ASSUME NEW i \in Indices, NEW j \in Indices, i <= j, gs[j] # NoFile
               PROVE  gs[i] # NoFile
    BY DEF Packed
  <2>1. CASE i = 0
    BY <1>2, <1>4, <2>1
  <2>2. CASE i # 0
    <3>1. i - 1 \in Indices /\ j - 1 \in Indices /\ i - 1 <= j - 1 /\ j # 0
      BY <1>1, <2>2
    <3>2. fs[j - 1] # NoFile
      BY <1>6, <3>1
    <3>3. fs[i - 1] # NoFile
      BY <3>1, <3>2 DEF Kept, Packed
    <3> QED
      BY <1>6, <2>2, <3>3
  <2> QED
    BY <2>1, <2>2
<1>8. ASSUME \A i \in Indices : fs[i] # NoFile PROVE \A i \in Indices : gs[i] # NoFile
  BY <1>1, <1>2, <1>4, <1>6, <1>8
<1>9. PICK first \in 1 .. last + 1 : Ids(fs) = first .. last
  BY DEF Kept, NoGap
<1>10. CASE fs[MaxFiles] = NoFile \/ fs[MaxFiles] = <<>>
  <2>1. \A x : x \in Ids(gs) <=> x \in Ids(fs)
    <3> SUFFICES ASSUME NEW x PROVE x \in Ids(gs) <=> x \in Ids(fs)
      OBVIOUS
    <3>1. x \in Ids(fs) <=> \E i \in Indices : fs[i] # NoFile /\ \E m \in DOMAIN fs[i] : x = fs[i][m].id
      BY IdsLemma
    <3>2. fs[MaxFiles] = NoFile \/ DOMAIN fs[MaxFiles] = {}
      BY <1>4, <1>10
    <3> QED
      BY <1>5, <3>1, <3>2
  <2>2. Ids(gs) = Ids(fs)
    BY <2>1
  <2> QED
    BY <1>7, <1>8, <2>2 DEF Kept, NoGap, gs
<1>11. CASE fs[MaxFiles] # NoFile /\ fs[MaxFiles] # <<>>
  <2> DEFINE f == fs[MaxFiles]
             d == f[Len(f)].id
  <2>1. /\ f \in Seq(Entry) /\ Len(f) \in DOMAIN f /\ DOMAIN f = 1 .. Len(f)
        /\ \A m \in DOMAIN f : f[m] \in Entry /\ f[m].id \in Nat
    <3>1. f \in Seq(Entry)
      BY <1>1, <1>11 DEF GoodFiles
    <3>2. Len(f) \in Nat \ {0} /\ DOMAIN f = 1 .. Len(f)
      BY <1>11, <3>1
    <3>3. \A m \in DOMAIN f : f[m] \in Entry
      BY <3>1
    <3>4. \A m \in DOMAIN f : f[m].id \in Nat
      BY <3>3 DEF Entry
    <3> QED
      BY <3>1, <3>2, <3>3, <3>4
  <2>2. d \in Nat /\ d \in Ids(fs)
    BY <1>1, <1>11, <2>1, IdsLemma
  <2>3. \A m \in DOMAIN f : f[m].id <= d
    <3> SUFFICES ASSUME NEW m \in DOMAIN f PROVE f[m].id <= d
      OBVIOUS
    <3>1. CASE m = Len(f)
      BY <2>2, <3>1
    <3>2. CASE m < Len(f)
      <4>1. f[m].id < d
        BY <1>1, <1>11, <2>1, <3>2 DEF GoodFiles, Ordered
      <4> QED
        BY <2>1, <2>2, <4>1
    <3> QED
      BY <2>1, <3>1, <3>2
  <2>4. ASSUME NEW i \in Indices \ {MaxFiles}, fs[i] # NoFile, NEW m \in DOMAIN fs[i]
        PROVE  d < fs[i][m].id
    <3>1. MaxFiles > i
      BY <1>1
    <3> QED
      BY <1>1, <1>11, <2>1, <2>4, <3>1 DEF GoodFiles, Ordered
  <2> HIDE DEF d
  <2>5. ASSUME NEW x PROVE x \in Ids(gs) <=> x \in Ids(fs) /\ x > d
    <3>1. x \in Ids(gs) => x \in Ids(fs) /\ x > d
      <4> SUFFICES ASSUME x \in Ids(gs) PROVE x \in Ids(fs) /\ x > d
        OBVIOUS
      <4>1. PICK i \in Indices \ {MaxFiles} : fs[i] # NoFile /\ \E m \in DOMAIN fs[i] : x = fs[i][m].id
        BY <1>5
      <4>2. x \in Ids(fs)
        BY <4>1, IdsLemma
      <4>3. x \in Nat
        BY <1>9, <4>2
      <4> QED
        BY <2>2, <2>4, <4>1, <4>2, <4>3
    <3>2. x \in Ids(fs) /\ x > d => x \in Ids(gs)
      <4> SUFFICES ASSUME x \in Ids(fs), x > d PROVE x \in Ids(gs)
        OBVIOUS
      <4>1. PICK i \in Indices : fs[i] # NoFile /\ \E m \in DOMAIN fs[i] : x = fs[i][m].id
        BY IdsLemma
      <4>2. x \in Nat
        BY <1>9
      <4>3. i # MaxFiles
        <5> SUFFICES ASSUME i = MaxFiles PROVE FALSE
          OBVIOUS
        <5>1. \E m \in DOMAIN f : x = f[m].id
          BY <4>1
        <5> QED
          BY <2>2, <2>3, <4>2, <5>1
      <4> QED
        BY <1>5, <4>1, <4>3
    <3> QED
      BY <3>1, <3>2
  <2>6. d \in first .. last
    BY <1>9, <2>2
  <2>7. Ids(gs) = d + 1 .. last /\ d + 1 \in 1 .. last + 1
    <3>1. ASSUME NEW x PROVE x \in Ids(gs) <=> x \in d + 1 .. last
      BY <1>9, <2>5, <2>6
    <3>2. Ids(gs) = d + 1 .. last
      BY <3>1
    <3>3. d + 1 \in 1 .. last + 1
      BY <1>9, <2>6
    <3> QED
      BY <3>2, <3>3
  <2>8. \A i \in Indices : fs[i] # NoFile
    BY <1>1, <1>11 DEF Kept, Packed
  <2> QED
    BY <1>7, <1>8, <2>7, <2>8 DEF Kept, NoGap, gs
<1> QED
  BY <1>10, <1>11

\* The next message follows the others in the log file.
LEMMA WrittenKept ==
    ASSUME NEW fs, NEW last \in Nat, GoodFiles(fs, last), fs[0] # NoFile, Kept(fs, last),
           NEW e \in Entry, e.id = last + 1
    PROVE  Kept([fs EXCEPT ![0] = Append(fs[0], e)], last + 1)
<1> DEFINE f == fs[0]
           g == Append(f, e)
           gs == [fs EXCEPT ![0] = g]
<1>1. /\ 0 \in Indices /\ f \in Seq(Entry) /\ g \in Seq(Entry) /\ g # NoFile
      /\ fs \in [Indices -> Seq(Entry) \cup {NoFile}]
  BY RotationAssumption DEF Indices, GoodFiles
<1>2. /\ DOMAIN g = 1 .. Len(f) + 1 /\ DOMAIN f = 1 .. Len(f) /\ Len(f) \in Nat
      /\ g[Len(f) + 1] = e /\ \A m \in DOMAIN f : g[m] = f[m]
  BY <1>1
<1>3. \A x : (\E m \in DOMAIN g : x = g[m].id) <=> (\E m \in DOMAIN f : x = f[m].id) \/ x = last + 1
  <2>1. \A m \in DOMAIN g : m \in DOMAIN f \/ m = Len(f) + 1
    BY <1>2
  <2>2. DOMAIN f \subseteq DOMAIN g /\ Len(f) + 1 \in DOMAIN g
    BY <1>2
  <2> HIDE DEF g, f
  <2> QED
    BY <1>2, <2>1, <2>2
<1>4. gs[0] = g /\ \A i \in Indices \ {0} : gs[i] = fs[i]
  BY <1>1
<1>5. \A i \in Indices : gs[i] # NoFile <=> fs[i] # NoFile
  BY <1>1, <1>4
<1> HIDE DEF gs, g
<1>6. ASSUME NEW x PROVE x \in Ids(gs) <=> x \in Ids(fs) \/ x = last + 1
  <2>1. x \in Ids(gs) => x \in Ids(fs) \/ x = last + 1
    <3> SUFFICES ASSUME x \in Ids(gs) PROVE x \in Ids(fs) \/ x = last + 1
      OBVIOUS
    <3>1. PICK i \in Indices : gs[i] # NoFile /\ \E m \in DOMAIN gs[i] : x = gs[i][m].id
      BY IdsLemma
    <3> QED
      BY <1>3, <1>4, <1>5, <3>1, IdsLemma
  <2>2. x \in Ids(fs) => x \in Ids(gs)
    <3> SUFFICES ASSUME x \in Ids(fs) PROVE x \in Ids(gs)
      OBVIOUS
    <3>1. PICK i \in Indices : fs[i] # NoFile /\ \E m \in DOMAIN fs[i] : x = fs[i][m].id
      BY IdsLemma
    <3> QED
      BY <1>3, <1>4, <1>5, <3>1, IdsLemma
  <2>3. x = last + 1 => x \in Ids(gs)
    <3>1. gs[0] # NoFile /\ \E m \in DOMAIN gs[0] : last + 1 = gs[0][m].id
      BY <1>1, <1>3, <1>4
    <3> QED
      BY <1>1, <3>1, IdsLemma
  <2> QED
    BY <2>1, <2>2, <2>3
<1>7. PICK first \in 1 .. last + 1 : Ids(fs) = first .. last
  BY DEF Kept, NoGap
<1>8. Ids(gs) = first .. last + 1 /\ first \in 1 .. (last + 1) + 1
  <2>1. ASSUME NEW x PROVE x \in Ids(gs) <=> x \in first .. last + 1
    BY <1>6, <1>7
  <2>2. Ids(gs) = first .. last + 1
    BY <2>1
  <2> QED
    BY <1>7, <2>2
<1>9. 1 \notin Ids(gs) => \A i \in Indices : gs[i] # NoFile
  <2> SUFFICES ASSUME 1 \notin Ids(gs) PROVE \A i \in Indices : fs[i] # NoFile
    BY <1>5
  <2>1. 1 \notin Ids(fs) /\ last + 1 # 1
    BY <1>6
  <2> QED
    BY <2>1 DEF Kept, NoGap
<1>10. Packed(gs)
  BY <1>5 DEF Kept, Packed
<1> QED
  BY <1>8, <1>9, <1>10 DEF Kept, NoGap, gs, g

LEMMA WriteKept ==
    ASSUME NEW fs, NEW last \in Nat, GoodFiles(fs, last), fs[0] # NoFile, Kept(fs, last),
           NEW size \in MsgSizes, Write(fs, size, last + 1), clean'
    PROVE  Kept(files', last + 1)
<1> DEFINE e == [id |-> last + 1, end |-> FileSize(fs[0]) + size, whole |-> TRUE]
<1>1. files' = [fs EXCEPT ![0] = Append(fs[0], e)]
  BY DEF Write
<1>2. 0 \in Indices /\ fs[0] \in Seq(Entry) /\ size \in Nat
  BY RotationAssumption DEF Indices, GoodFiles
<1>3. FileSize(fs[0]) \in Nat
  BY <1>2, FileSizeType
<1>4. e \in Entry /\ e.id = last + 1
  BY <1>2, <1>3 DEF Entry
<1> HIDE DEF e
<1> QED
  BY <1>1, <1>4, WrittenKept

\* A rotation that ends well.
LEMMA ReturnedKept ==
    ASSUME NEW fs, NEW last \in Nat, GoodFiles(fs, last), Kept(fs, last), NEW size,
           NEW r \in Rotate(fs, size), r.end = "returned"
    PROVE  Kept(r.files, last) /\ r.fd = "open"
<1>1. r.files = OpenFile(Shifted(fs, 1), TRUE, "open") /\ r.fd = "open"
  <2>1. \/ \E fd \in FDs : r = Outcome(Shifted(fs, 1), fd, size, Opened(fd))
        \/ \E i \in Targets(fs), fd \in FDs, target \in {"removed", "kept"} :
              r = Outcome(Stuck(fs, i, target), fd, IF fd = "open" THEN 0 ELSE size, "threw")
    BY DEF Rotate
  <2>2. PICK fd \in FDs : r = Outcome(Shifted(fs, 1), fd, size, Opened(fd))
    <3>1. ASSUME NEW hs, NEW fd, NEW n, r = Outcome(hs, fd, n, "threw") PROVE FALSE
      BY <3>1 DEF Outcome
    <3> QED
      BY <2>1, <3>1
  <2>3. r.files = OpenFile(Shifted(fs, 1), TRUE, fd) /\ r.fd = fd /\ Opened(fd) = "returned"
    BY <2>2 DEF Outcome
  <2> QED
    BY <2>3 DEF Opened
<1> QED
  BY <1>1, RotatedKept

LEMMA CleanConstruct ==
    ASSUME RotationInv, CleanInv, NEW rotate_on_open \in BOOLEAN, Construct(rotate_on_open)
    PROVE  CleanInv'
<1> SUFFICES ASSUME clean' PROVE Kept(files', logged') /\ file' = "open"
  BY DEF CleanInv, Construct
<1>1. PICK fd \in FDs :
          LET fs == OpenFile(files, FALSE, fd)
              size == IF fd = "open" THEN FileSize(fs[0]) ELSE 0
          IN  IF rotate_on_open /\ size > 0
              THEN \E r \in Rotate(fs, size) : Constructed(r)
              ELSE Constructed([files |-> fs, size |-> size, end |-> Opened(fd)])
  BY DEF Construct
<1> DEFINE fs == OpenFile(files, FALSE, fd)
           size == IF fd = "open" THEN FileSize(fs[0]) ELSE 0
<1>2. logged' = logged /\ GoodFiles(files, logged) /\ logged \in Nat
  BY DEF Construct, RotationInv, RotationTypeOK
<1>3. ASSUME NEW r, Constructed(r)
      PROVE  /\ r.end = "returned" /\ files' = r.files /\ file' = "open"
             /\ Kept(files, logged)
  BY <1>3 DEF Constructed, CleanInv
<1>4. CASE rotate_on_open /\ size > 0
  <2>1. PICK r \in Rotate(fs, size) : Constructed(r)
    BY <1>1, <1>4
  <2>2. fd = "open"
    <3>1. fd # "open" => size = 0
      OBVIOUS
    <3> HIDE DEF size
    <3> QED
      BY <1>4, <3>1
  <2>3. Kept(fs, logged) /\ GoodFiles(fs, logged)
    BY <1>2, <1>3, <2>1, <2>2, OpenKept, OpenGood DEF GoodFiles
  <2> HIDE DEF fs, size
  <2> QED
    BY <1>2, <1>3, <2>1, <2>3, ReturnedKept
<1>5. CASE ~(rotate_on_open /\ size > 0)
  <2> DEFINE r == [files |-> fs, size |-> size, end |-> Opened(fd)]
  <2>1. Constructed(r) /\ r.files = fs /\ r.end = Opened(fd)
    BY <1>1, <1>5
  <2> HIDE DEF r
  <2>2. Opened(fd) = "returned" /\ files' = fs /\ file' = "open" /\ Kept(files, logged)
    BY <1>3, <2>1
  <2>3. fd = "open"
    BY <2>2 DEF Opened
  <2>4. Kept(fs, logged)
    BY <1>2, <2>2, <2>3, OpenKept DEF GoodFiles
  <2> QED
    BY <1>2, <2>2, <2>4
<1> QED
  BY <1>4, <1>5

LEMMA CleanLog ==
    ASSUME RotationInv, CleanInv, NEW size \in MsgSizes, Log(size)
    PROVE  CleanInv'
<1>0. /\ GoodFiles(files, logged) /\ logged \in Nat /\ logged' = logged + 1 /\ sink /\ sink' = sink
      /\ size \in Nat /\ current_size \in Nat
  BY RotationAssumption DEF RotationInv, RotationTypeOK, Log, LogAt
<1> SUFFICES ASSUME clean' PROVE Kept(files', logged + 1) /\ file' = "open"
  BY <1>0 DEF CleanInv
<1>1. CASE current_size + size > MaxSize
  <2>1. PICK r \in Rotate(files, current_size + size) : AfterRotation(size, r)
    BY <1>1 DEF Log, LogAt
  <2>2. r.end = "returned" /\ Write(r.files, size, logged + 1) /\ file' = r.fd
    BY <2>1 DEF AfterRotation
  <2>3. clean
    BY <2>2 DEF Write
  <2>4. Kept(r.files, logged) /\ r.fd = "open"
    BY <1>0, <2>2, <2>3, ReturnedKept DEF CleanInv
  <2>5. GoodFiles(r.files, logged) /\ r.files[0] = <<>> /\ <<>> # NoFile
    <3>1. GoodOutcome(r, logged, current_size + size)
      BY <1>0, RotateGood
    <3> QED
      BY <2>4, <3>1, EmptyFile DEF GoodOutcome
  <2> QED
    BY <1>0, <2>2, <2>4, <2>5, WriteKept
<1>2. CASE ~(current_size + size > MaxSize)
  <2>1. clean
    BY <1>2 DEF Log, LogAt, Write
  <2>2. file = "open" /\ Kept(files, logged)
    BY <1>0, <2>1 DEF CleanInv
  <2>3. /\ files[0] # NoFile /\ Write(files, size, logged + 1) /\ file' = file
    BY <1>0, <1>2, <2>2 DEF Log, LogAt, RotationInv, SizeKnown
  <2> QED
    BY <1>0, <2>2, <2>3, WriteKept
<1> QED
  BY <1>1, <1>2

LEMMA CleanNext ==
    ASSUME RotationInv, CleanInv, [RotationNext]_rotationVars
    PROVE  CleanInv'
<1>1. ASSUME NEW rotate_on_open \in BOOLEAN, Construct(rotate_on_open) PROVE CleanInv'
  BY <1>1, CleanConstruct
<1>2. ASSUME NEW size \in MsgSizes, Log(size) PROVE CleanInv'
  BY <1>2, CleanLog
<1>3. CASE Flush \/ Destruct \/ CrashLog \/ UNCHANGED rotationVars
  BY <1>3 DEF Flush, Destruct, CrashLog, rotationVars, CleanInv
<1> QED
  BY <1>1, <1>2, <1>3 DEF RotationNext

LEMMA CleanInit == RotationInit => CleanInv
<1> SUFFICES ASSUME RotationInit PROVE CleanInv
  OBVIOUS
<1>1. \A i \in Indices : files[i] = NoFile
  BY DEF RotationInit
<1>2. Ids(files) = {}
  BY <1>1, IdsLemma
<1>3. logged = 0 /\ 1 .. 0 = {} /\ 1 \in 1 .. 0 + 1 /\ sink = FALSE
  BY DEF RotationInit
<1> QED
  BY <1>1, <1>2, <1>3 DEF CleanInv, Kept, Packed, NoGap

\* As long as nothing fails the files hold the newest messages without a gap, and
\* the first is given up only when every backup is taken.
THEOREM NewestMessagesKept == RotationSpec => []NothingSkipped
<1>1. CleanInv => NothingSkipped
  BY DEF CleanInv, Kept, NoGap, NothingSkipped, Ids
<1>2. RotationInv /\ CleanInv /\ [RotationNext]_rotationVars => RotationInv' /\ CleanInv'
  BY RotationNext_Inv, CleanNext
<1>3. RotationInit => RotationInv /\ CleanInv
  BY RotationInit_Inv, CleanInit
<1> QED
  BY <1>1, <1>2, <1>3, PTL DEF RotationSpec

-----------------------------------------------------------------------------
(* The registry.                                                           *)

LoggerSet == [name : Names, level : Levels, settings : Settings]
LevelSet == [named : [Names -> Levels \cup {None}], default : Levels]

LEMMA NoneIsNoLogger == None \notin LoggerSet
  BY RegistryAssumption DEF LoggerSet, Settings

\* A map, a default and references that agree.
Good(objs, map, default, apps, made) ==
    /\ objs \in [LoggerIds -> LoggerSet \cup {None}]
    /\ map \in [Names -> LoggerIds \cup {None}]
    /\ default \in LoggerIds \cup {None}
    /\ apps \subseteq LoggerIds /\ made \subseteq LoggerIds
    /\ \A i \in apps : objs[i] \in LoggerSet
    /\ \A n \in Names : map[n] # None =>
          objs[map[n]] \in LoggerSet /\ objs[map[n]].name = n
    /\ default # None =>
          objs[default] \in LoggerSet /\ map[objs[default].name] = default
    /\ \A i \in fresh \cup made : (\E n \in Names : map[n] = i) =>
          /\ objs[i].settings = global
          /\ levels.named[objs[i].name] = None => objs[i].level = levels.default

RegistryInv ==
    /\ levels \in LevelSet /\ global \in Settings
    /\ fresh \subseteq {i \in LoggerIds : \E n \in Names : loggers[n] = i}
    /\ Good(objects, loggers, default_logger, held, {})

LEMMA BornSettings == Born \in Settings
  BY RegistryAssumption DEF Born, Settings

LEMMA NewLoggerType ==
  ASSUME NEW n \in Names, NEW l \in Levels, NEW s \in Settings
  PROVE  /\ Logger(n, l, s) \in LoggerSet
         /\ Logger(n, l, s).name = n
         /\ Logger(n, l, s).level = l
         /\ Logger(n, l, s).settings = s
  BY DEF Logger, LoggerSet

LEMMA LevelType ==
  ASSUME NEW ls \in LevelSet, NEW n \in Names
  PROVE  /\ LevelOf(ls, n) \in Levels
         /\ ls.named[n] = None => LevelOf(ls, n) = ls.default
  BY RegistryAssumption DEF LevelOf, LevelSet

LEMMA InitInv == RegistryInit => RegistryInv
<1> SUFFICES ASSUME RegistryInit PROVE RegistryInv OBVIOUS
<1>1. PICK i \in LoggerIds :
        /\ objects = [j \in LoggerIds |->
                        IF j = i THEN Logger(DefaultName, Info, Born) ELSE None]
        /\ loggers = [n \in Names |-> IF n = DefaultName THEN i ELSE None]
        /\ default_logger = i
  BY DEF RegistryInit
<1>2. levels \in LevelSet
  BY RegistryAssumption DEF RegistryInit, NoLevels, LevelSet
<1>3. Logger(DefaultName, Info, Born) \in LoggerSet
      /\ Logger(DefaultName, Info, Born).name = DefaultName
  BY NewLoggerType, BornSettings, RegistryAssumption
<1>4. global \in Settings /\ fresh = {} /\ held = {}
  BY BornSettings DEF RegistryInit
<1>5. objects \in [LoggerIds -> LoggerSet \cup {None}]
  BY <1>1, <1>3
<1>6. loggers \in [Names -> LoggerIds \cup {None}]
  BY <1>1
<1>7. \A n \in Names : loggers[n] # None =>
        objects[loggers[n]] \in LoggerSet /\ objects[loggers[n]].name = n
  BY <1>1, <1>3
<1>8. objects[default_logger] \in LoggerSet
      /\ loggers[objects[default_logger].name] = default_logger
  BY <1>1, <1>3, RegistryAssumption
<1> QED
  BY <1>1, <1>2, <1>4, <1>5, <1>6, <1>7, <1>8 DEF RegistryInv, Good

LEMMA KeepsInv ==
  ASSUME RegistryInv,
         NEW objs, NEW map, NEW default, NEW apps, NEW ports, NEW made,
         Good(objs, map, default, apps, made),
         Keep(objs, map, default, apps, ports, made)
  PROVE  RegistryInv'
<1>1. /\ objects' = Alive(objs, map, default, apps, ports)
      /\ loggers' = map /\ default_logger' = default /\ held' = apps
      /\ fresh' = {i \in fresh \cup made : \E n \in Names : map[n] = i}
      /\ levels' = levels /\ global' = global
  BY DEF Keep
<1>2. levels' \in LevelSet /\ global' \in Settings
  BY <1>1 DEF RegistryInv
<1>3. fresh' \subseteq {i \in LoggerIds : \E n \in Names : loggers'[n] = i}
  BY <1>1 DEF RegistryInv, Good
<1>4. objects' \in [LoggerIds -> LoggerSet \cup {None}]
  BY <1>1 DEF Alive, Good
<1>5. \A i \in apps : objects'[i] = objs[i]
  BY <1>1 DEF Alive, Good
<1>6. \A n \in Names : map[n] # None => objects'[map[n]] = objs[map[n]]
  BY <1>1 DEF Alive, Good
<1>7. default # None => objects'[default] = objs[default]
  BY <1>1 DEF Alive, Good
<1>8. \A i \in fresh' : i \in LoggerIds /\ objects'[i] = objs[i]
  BY <1>1, <1>3 DEF Alive
<1>9. \A i \in fresh' :
        /\ objects'[i].settings = global'
        /\ levels'.named[objects'[i].name] = None =>
              objects'[i].level = levels'.default
  BY <1>1, <1>8 DEF Good
<1> QED
  BY <1>1, <1>2, <1>3, <1>4, <1>5, <1>6, <1>7, <1>9 DEF RegistryInv, Good

\* A change of settings that leaves the names alone.
LEMMA ToldInv ==
  ASSUME RegistryInv,
         NEW changed, objects' = Told(changed), UNCHANGED owners,
         levels' \in LevelSet, global' \in Settings,
         \A i \in LoggerIds : objects[i] \in LoggerSet =>
            changed[i] \in LoggerSet /\ changed[i].name = objects[i].name,
         \A i \in fresh : objects[i] \in LoggerSet =>
            /\ changed[i].settings = global'
            /\ levels'.named[objects[i].name] = None =>
                  changed[i].level = levels'.default
  PROVE  RegistryInv'
<1>1. /\ loggers' = loggers /\ default_logger' = default_logger /\ held' = held
      /\ fresh' = fresh
  BY DEF owners
<1>2. \A i \in LoggerIds :
        objects'[i] = IF \E n \in Names : loggers[n] = i THEN changed[i] ELSE objects[i]
  BY DEF Told
<1>3. \A i \in LoggerIds : (\E n \in Names : loggers[n] = i) => objects[i] \in LoggerSet
  BY RegistryAssumption DEF RegistryInv, Good
<1>4. \A i \in LoggerIds : objects[i] \in LoggerSet =>
        objects'[i] \in LoggerSet /\ objects'[i].name = objects[i].name
  BY <1>2
<1>5. \A i \in LoggerIds : objects'[i] \in LoggerSet \cup {None}
  BY <1>2, <1>3, <1>4 DEF RegistryInv, Good
<1>6. objects' \in [LoggerIds -> LoggerSet \cup {None}]
  BY <1>5 DEF Told
<1>7. \A i \in fresh : i \in LoggerIds /\ objects[i] \in LoggerSet
                       /\ objects'[i] = changed[i]
  BY <1>2, <1>3 DEF RegistryInv
<1>8. \A i \in fresh :
        /\ objects'[i].settings = global'
        /\ levels'.named[objects'[i].name] = None =>
              objects'[i].level = levels'.default
  BY <1>4, <1>7
<1>9. \A n \in Names : loggers[n] # None =>
        objects'[loggers[n]] \in LoggerSet /\ objects'[loggers[n]].name = n
  BY <1>4 DEF RegistryInv, Good
<1>10. default_logger # None =>
        objects'[default_logger] \in LoggerSet
        /\ loggers[objects'[default_logger].name] = default_logger
  BY <1>4 DEF RegistryInv, Good
<1>11. \A i \in held : objects'[i] \in LoggerSet
  BY <1>4 DEF RegistryInv, Good
<1> QED
  BY <1>1, <1>6, <1>8, <1>9, <1>10, <1>11 DEF RegistryInv, Good

-----------------------------------------------------------------------------
(* The calls that make, register and drop loggers.                         *)

\* What RegistryInv says of the variables, for the proofs of Good.
LEMMA Facts ==
  ASSUME RegistryInv
  PROVE  /\ objects \in [LoggerIds -> LoggerSet \cup {None}]
         /\ loggers \in [Names -> LoggerIds \cup {None}]
         /\ default_logger \in LoggerIds \cup {None}
         /\ held \subseteq LoggerIds /\ fresh \subseteq LoggerIds
         /\ None \notin LoggerIds
         /\ \A i \in held : objects[i] \in LoggerSet
         /\ \A n \in Names : loggers[n] # None =>
               objects[loggers[n]] \in LoggerSet /\ objects[loggers[n]].name = n
         /\ default_logger # None =>
               /\ objects[default_logger] \in LoggerSet
               /\ objects[default_logger].name \in Names
               /\ loggers[objects[default_logger].name] = default_logger
         /\ \A i \in fresh :
               /\ \E n \in Names : loggers[n] = i
               /\ objects[i] \in LoggerSet
               /\ objects[i].settings = global
               /\ levels.named[objects[i].name] = None => objects[i].level = levels.default
<1>1. None \notin LoggerIds
  BY RegistryAssumption
<1>2. \A i \in fresh : /\ \E n \in Names : loggers[n] = i
                       /\ i \in LoggerIds /\ objects[i] \in LoggerSet
  BY <1>1 DEF RegistryInv, Good
<1>3. \A o \in LoggerSet : o.name \in Names
  BY DEF LoggerSet
<1> QED
  BY <1>1, <1>2, <1>3 DEF RegistryInv, Good

\* Any loss of names and references, as long as the default loses both or none.
LEMMA LessIsGood ==
  ASSUME RegistryInv,
         NEW map \in [Names -> LoggerIds \cup {None}],
         \A n \in Names : map[n] \in {loggers[n], None},
         NEW default \in {default_logger, None},
         default # None => map[objects[default].name] = default,
         NEW apps \in SUBSET held
  PROVE  Good(objects, map, default, apps, {})
<1>1. \A n \in Names : map[n] # None => map[n] = loggers[n]
  OBVIOUS
<1> QED
  BY <1>1, Facts DEF Good

\* A new logger, under its name if that was free.
LEMMA MoreIsGood ==
  ASSUME RegistryInv,
         NEW i \in LoggerIds, objects[i] = None,
         NEW o \in LoggerSet, NEW n \in Names, o.name = n,
         NEW map, map = loggers \/ (loggers[n] = None /\ map = [loggers EXCEPT ![n] = i]),
         NEW apps \in SUBSET (held \cup {i}),
         NEW made \in SUBSET {i},
         i \in made => /\ o.settings = global
                       /\ levels.named[n] = None => o.level = levels.default
  PROVE  Good([objects EXCEPT ![i] = o], map, default_logger, apps, made)
<1> DEFINE objs == [objects EXCEPT ![i] = o]
<1>1. objs \in [LoggerIds -> LoggerSet \cup {None}] /\ objs[i] = o
      /\ \A j \in LoggerIds \ {i} : objs[j] = objects[j]
  BY Facts
<1>2. /\ \A j \in held : j # i
      /\ \A m \in Names : loggers[m] # i
      /\ default_logger # i
      /\ i \notin fresh
  BY Facts, NoneIsNoLogger
<1>3. map \in [Names -> LoggerIds \cup {None}]
  BY Facts
<1>4. \A j \in apps : objs[j] \in LoggerSet
  BY <1>1, <1>2, Facts
<1>5. \A m \in Names : map[m] # None => objs[map[m]] \in LoggerSet /\ objs[map[m]].name = m
  BY <1>1, <1>2, Facts
<1>6. default_logger # None =>
        objs[default_logger] \in LoggerSet /\ map[objs[default_logger].name] = default_logger
  BY <1>1, <1>2, Facts
<1>7. \A j \in fresh \cup made :
        /\ objs[j].settings = global
        /\ levels.named[objs[j].name] = None => objs[j].level = levels.default
  BY <1>1, <1>2, Facts
<1>8. apps \subseteq LoggerIds /\ made \subseteq LoggerIds
      /\ default_logger \in LoggerIds \cup {None}
  BY Facts
<1> HIDE DEF objs
<1>9. Good(objs, map, default_logger, apps, made)
  BY <1>1, <1>3, <1>4, <1>5, <1>6, <1>7, <1>8 DEF Good
<1> QED
  BY <1>9 DEF objs

LEMMA NewLoggerInv ==
  ASSUME RegistryInv, NEW i \in LoggerIds, NEW n \in Names, NewLogger(i, n)
  PROVE  RegistryInv'
<1>1. Logger(n, Info, Born) \in LoggerSet /\ Logger(n, Info, Born).name = n
  BY NewLoggerType, BornSettings, RegistryAssumption
<1>2. Good([objects EXCEPT ![i] = Logger(n, Info, Born)], loggers, default_logger,
           held \cup {i}, {})
  BY <1>1, MoreIsGood DEF NewLogger
<1> QED
  BY <1>2, KeepsInv DEF NewLogger

\* initialize_logger with the port or the application as owner.
LEMMA CreatedInv ==
  ASSUME RegistryInv, NEW i \in LoggerIds, NEW n \in Names, objects[i] = None,
         Registers(n), NEW apps \in SUBSET (held \cup {i}), NEW ports,
         Keep(Initialized(i, n), Registered(i, n), default_logger, apps, ports, {i})
  PROVE  RegistryInv'
<1> DEFINE o == Logger(n, LevelOf(levels, n), global)
<1>1. LevelOf(levels, n) \in Levels /\ global \in Settings
      /\ (levels.named[n] = None => LevelOf(levels, n) = levels.default)
  BY LevelType DEF RegistryInv
<1>2. /\ o \in LoggerSet /\ o.name = n /\ o.settings = global
      /\ levels.named[n] = None => o.level = levels.default
  BY <1>1, NewLoggerType
<1>3. \/ Registered(i, n) = loggers
      \/ loggers[n] = None /\ Registered(i, n) = [loggers EXCEPT ![n] = i]
  BY DEF Registers, Registered
<1> HIDE DEF o
<1>4. Good([objects EXCEPT ![i] = o], Registered(i, n), default_logger, apps, {i})
  BY <1>2, <1>3, MoreIsGood
<1>5. Good(Initialized(i, n), Registered(i, n), default_logger, apps, {i})
  BY <1>4 DEF o, Initialized
<1> QED
  BY <1>5, KeepsInv

LEMMA RegisterInv ==
  ASSUME RegistryInv, NEW i \in LoggerIds, RegisterLogger(i)
  PROVE  RegistryInv'
<1> DEFINE map == [loggers EXCEPT ![objects[i].name] = i]
<1>1. i \in held /\ objects[i] \in LoggerSet /\ objects[i].name \in Names
      /\ loggers[objects[i].name] = None
  BY Facts DEF RegisterLogger, LoggerSet
<1>2. map \in [Names -> LoggerIds \cup {None}]
  BY <1>1, Facts
<1>3. \A n \in Names : map[n] # None => objects[map[n]] \in LoggerSet /\ objects[map[n]].name = n
  BY <1>1, Facts
<1>4. default_logger # None => map[objects[default_logger].name] = default_logger
  BY <1>1, Facts
<1>5. Good(objects, map, default_logger, held, {})
  BY <1>2, <1>3, <1>4, Facts DEF Good
<1> QED
  BY <1>5, KeepsInv DEF RegisterLogger

LEMMA SetDefaultInv ==
  ASSUME RegistryInv, NEW i \in LoggerIds \cup {None}, SetDefaultLogger(i)
  PROVE  RegistryInv'
<1> DEFINE erased == IF default_logger = None THEN loggers
                     ELSE [loggers EXCEPT ![objects[default_logger].name] = None]
           map == IF i = None THEN erased ELSE [erased EXCEPT ![objects[i].name] = i]
<1>1. erased \in [Names -> LoggerIds \cup {None}]
      /\ \A n \in Names : erased[n] \in {loggers[n], None}
  BY Facts
<1>2. i # None => i \in held /\ objects[i] \in LoggerSet /\ objects[i].name \in Names
  BY Facts DEF SetDefaultLogger, LoggerSet
<1> HIDE DEF erased
<1>3. map \in [Names -> LoggerIds \cup {None}]
  BY <1>1, <1>2
<1>4. \A n \in Names : map[n] # None => objects[map[n]] \in LoggerSet /\ objects[map[n]].name = n
  BY <1>1, <1>2, Facts
<1>5. i # None => map[objects[i].name] = i
  BY <1>1, <1>2
<1> HIDE DEF map
<1>6. \A j \in fresh \cup {} :
        /\ objects[j].settings = global
        /\ levels.named[objects[j].name] = None => objects[j].level = levels.default
  BY Facts
<1>7. Good(objects, map, i, held, {})
  BY <1>2, <1>3, <1>4, <1>5, <1>6, Facts DEF Good
<1>8. Keep(objects, map, i, held, port, {})
  BY DEF SetDefaultLogger, map, erased
<1> QED
  BY <1>7, <1>8, KeepsInv

LEMMA DropInv ==
  ASSUME RegistryInv, NEW n \in Names, Drop(n)
  PROVE  RegistryInv'
<1> DEFINE map == [loggers EXCEPT ![n] = None]
           default == IF default_logger # None /\ objects[default_logger].name = n
                      THEN None ELSE default_logger
<1>1. map \in [Names -> LoggerIds \cup {None}] /\ \A m \in Names : map[m] \in {loggers[m], None}
  BY Facts
<1>2. default # None => map[objects[default].name] = default
  BY Facts
<1>3. default \in {default_logger, None}
  OBVIOUS
<1>4. Keep(objects, map, default, held, port, {})
  BY DEF Drop
<1> HIDE DEF map, default
<1>5. Good(objects, map, default, held, {})
  BY <1>1, <1>2, <1>3, LessIsGood
<1> QED
  BY <1>4, <1>5, KeepsInv

\* drop_all, and the destructor of a port, which may do the same.
LEMMA NothingInv ==
  ASSUME RegistryInv, NEW ports, Keep(objects, [n \in Names |-> None], None, held, ports, {})
  PROVE  RegistryInv'
<1>1. Good(objects, [n \in Names |-> None], None, held, {})
  BY LessIsGood
<1> QED
  BY <1>1, KeepsInv

LEMMA SameInv ==
  ASSUME RegistryInv, NEW apps \in SUBSET held, NEW ports,
         Keep(objects, loggers, default_logger, apps, ports, {})
  PROVE  RegistryInv'
<1>1. default_logger # None => loggers[objects[default_logger].name] = default_logger
  BY Facts
<1>2. loggers \in [Names -> LoggerIds \cup {None}]
  BY Facts
<1>3. Good(objects, loggers, default_logger, apps, {})
  BY <1>1, <1>2, LessIsGood
<1> QED
  BY <1>3, KeepsInv

-----------------------------------------------------------------------------
(* The calls that set something, and the specification.                    *)

LEMMA SetLevelInv ==
  ASSUME RegistryInv, NEW l \in Levels, SetLevel(l)
  PROVE  RegistryInv'
<1>1. \A i \in LoggerIds : objects[i] \in LoggerSet =>
        /\ WithLevel(l)[i] \in LoggerSet /\ WithLevel(l)[i].name = objects[i].name
        /\ WithLevel(l)[i].settings = objects[i].settings /\ WithLevel(l)[i].level = l
  BY DEF WithLevel, LoggerSet
<1>2. levels' \in LevelSet /\ levels'.default = l /\ global' = global
      /\ levels'.named = levels.named
  BY DEF SetLevel, RegistryInv, LevelSet
<1>3. \A i \in fresh : /\ WithLevel(l)[i].settings = global'
                       /\ WithLevel(l)[i].level = levels'.default
  BY <1>1, <1>2, Facts
<1>4. global' \in Settings
  BY <1>2 DEF RegistryInv
<1>5. objects' = Told(WithLevel(l)) /\ UNCHANGED owners
  BY DEF SetLevel
<1> QED
  BY <1>1, <1>2, <1>3, <1>4, <1>5, ToldInv

LEMMA SetGlobalInv ==
  ASSUME RegistryInv, NEW k \in Kinds, NEW v \in Values, SetGlobal(k, v)
  PROVE  RegistryInv'
<1> DEFINE changed == [i \in LoggerIds |-> [objects[i] EXCEPT !.settings[k] = v]]
<1>1. \A i \in LoggerIds : objects[i] \in LoggerSet =>
        /\ changed[i] \in LoggerSet /\ changed[i].name = objects[i].name
        /\ changed[i].settings \in Settings
        /\ \A j \in Kinds : changed[i].settings[j] = IF j = k THEN v
                                                     ELSE objects[i].settings[j]
        /\ changed[i].level = objects[i].level
  BY DEF LoggerSet, Settings
<1>2. /\ global' \in Settings /\ levels' = levels /\ levels' \in LevelSet
      /\ \A j \in Kinds : global'[j] = IF j = k THEN v ELSE global[j]
  BY DEF SetGlobal, RegistryInv, Settings
<1>3. objects' = Told(changed) /\ UNCHANGED owners
  BY DEF SetGlobal
<1> HIDE DEF changed
<1>4. \A i \in fresh : /\ i \in LoggerIds /\ objects[i] \in LoggerSet
                       /\ objects[i].settings = global
                       /\ levels.named[objects[i].name] = None =>
                              objects[i].level = levels.default
  BY Facts
<1>5. ASSUME NEW i \in fresh PROVE changed[i].settings = global'
  <2>1. changed[i].settings \in Settings
        /\ \A j \in Kinds : changed[i].settings[j] = global'[j]
    BY <1>1, <1>2, <1>4
  <2> QED
    BY <1>2, <2>1 DEF Settings
<1>6. ASSUME NEW i \in fresh, levels'.named[objects[i].name] = None
      PROVE  changed[i].level = levels'.default
  BY <1>1, <1>2, <1>4, <1>6
<1> QED
  BY <1>1, <1>2, <1>3, <1>5, <1>6, ToldInv

LEMMA UpdateLevelsInv ==
  ASSUME RegistryInv, NEW ls \in LevelSet, UpdateLevels(ls)
  PROVE  RegistryInv'
<1> DEFINE changed == [i \in LoggerIds |->
                         [objects[i] EXCEPT !.level = LevelOf(ls, objects[i].name)]]
<1>1. \A i \in LoggerIds : objects[i] \in LoggerSet =>
        LevelOf(ls, objects[i].name) \in Levels
  BY LevelType DEF LoggerSet
<1>2. \A i \in LoggerIds : objects[i] \in LoggerSet =>
        /\ changed[i] \in LoggerSet /\ changed[i].name = objects[i].name
        /\ changed[i].settings = objects[i].settings
        /\ changed[i].level = LevelOf(ls, objects[i].name)
  BY <1>1 DEF LoggerSet
<1>3. objects' = Told(changed) /\ UNCHANGED owners
  BY DEF UpdateLevels
<1>4. levels' = ls /\ levels' \in LevelSet /\ global' = global /\ global' \in Settings
  BY DEF UpdateLevels, RegistryInv
<1> HIDE DEF changed
<1>5. \A i \in fresh : objects[i] \in LoggerSet /\ objects[i].name \in Names
                       /\ objects[i].settings = global /\ i \in LoggerIds
  BY Facts DEF LoggerSet
<1>6. \A i \in fresh :
        /\ changed[i].settings = global'
        /\ levels'.named[objects[i].name] = None => changed[i].level = levels'.default
  BY <1>2, <1>4, <1>5, LevelType
<1> QED
  BY <1>2, <1>3, <1>4, <1>6, ToldInv

LEMMA QuietInv ==
  ASSUME RegistryInv, UNCHANGED <<objects, loggers, default_logger, levels, global,
                                  held, fresh>>
  PROVE  RegistryInv'
  BY DEF RegistryInv, Good

LEMMA StepInv == RegistryInv /\ [RegistryNext]_registryVars => RegistryInv'
<1> SUFFICES ASSUME RegistryInv, [RegistryNext]_registryVars PROVE RegistryInv'
  OBVIOUS
<1>1. CASE \E i \in LoggerIds, n \in Names : NewLogger(i, n)
  BY <1>1, NewLoggerInv
<1>2. CASE \E i \in LoggerIds, n \in Names : CreateLogger(i, n)
  <2>1. PICK i \in LoggerIds, n \in Names : CreateLogger(i, n)
    BY <1>2
  <2> QED
    BY <2>1, CreatedInv DEF CreateLogger
<1>3. CASE \E i \in LoggerIds : RegisterLogger(i)
  BY <1>3, RegisterInv
<1>4. CASE \E i \in LoggerIds : LetGo(i)
  BY <1>4, SameInv DEF LetGo
<1>5. CASE \E i \in LoggerIds \cup {None} : SetDefaultLogger(i)
  BY <1>5, SetDefaultInv
<1>6. CASE \E n \in Names : Drop(n)
  BY <1>6, DropInv
<1>7. CASE DropAllLoggers
  BY <1>7, NothingInv DEF DropAllLoggers
<1>8. CASE \E l \in Levels : SetLevel(l)
  BY <1>8, SetLevelInv
<1>9. CASE \E k \in Kinds, v \in Values : SetGlobal(k, v)
  BY <1>9, SetGlobalInv
<1>10. CASE \E l \in Levels, named \in [Names -> Levels \cup {None}] :
              UpdateLevels([named |-> named, default |-> l])
  BY <1>10, UpdateLevelsInv DEF LevelSet
<1>11. CASE \E b \in BOOLEAN : SetAutomatic(b)
  BY <1>11, QuietInv DEF SetAutomatic, owners
<1>12. CASE \E p \in Ports, i \in LoggerIds : PortInit(p, i)
  <2>1. PICK p \in Ports, i \in LoggerIds : PortInit(p, i)
    BY <1>12
  <2>2. CASE UNCHANGED <<objects, levels, global, automatic, owners>>
    BY <2>2, QuietInv DEF owners
  <2>3. CASE ~UNCHANGED <<objects, levels, global, automatic, owners>>
    BY <2>1, <2>3, CreatedInv, RegistryAssumption DEF PortInit
  <2> QED
    BY <2>2, <2>3
<1>13. CASE \E p \in Ports : PortInitQuiet(p) \/ PortSwitch(p)
  BY <1>13, QuietInv DEF PortInitQuiet, PortSwitch
<1>14. CASE \E p \in Ports : PortDestroy(p)
  <2>1. PICK p \in Ports : PortDestroy(p)
    BY <1>14
  <2>2. CASE port[p].state = "open" /\ port[p].logs = "yes"
    BY <2>1, <2>2, NothingInv DEF PortDestroy
  <2>3. CASE ~(port[p].state = "open" /\ port[p].logs = "yes")
    BY <2>1, <2>3, SameInv DEF PortDestroy
  <2> QED
    BY <2>2, <2>3
<1>15. CASE UNCHANGED registryVars
  BY <1>15, QuietInv DEF registryVars
<1> QED
  BY <1>1, <1>2, <1>3, <1>4, <1>5, <1>6, <1>7, <1>8, <1>9, <1>10, <1>11, <1>12,
     <1>13, <1>14, <1>15 DEF RegistryNext, RegistryStep

THEOREM RegistrySpecInv == RegistrySpec => []RegistryInv
  BY InitInv, StepInv, PTL DEF RegistrySpec

\* The default logger is always found under its name in the registry
\* (registry::set_default_logger, drop, drop_all, register_logger_).
THEOREM DefaultStaysRegistered == RegistrySpec => []DefaultIsRegistered
<1>1. RegistryInv => DefaultIsRegistered
  BY Facts, NoneIsNoLogger DEF DefaultIsRegistered
<1> QED
  BY <1>1, RegistrySpecInv, PTL

\* Settings reach the loggers there are and those to come (registry::set_level,
\* set_formatter, flush_on, initialize_logger).
THEOREM SettingsReachAll == RegistrySpec => []GlobalsReachAll
<1>1. RegistryInv => GlobalsReachAll
  BY Facts DEF GlobalsReachAll
<1> QED
  BY <1>1, RegistrySpecInv, PTL

=============================================================================
