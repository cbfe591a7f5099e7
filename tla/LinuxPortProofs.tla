--------------------------- MODULE LinuxPortProofs ---------------------------
(***************************************************************************)
(* Theorems about LinuxPort, for every number of callers, receivers,       *)
(* descriptors and bytes, every buffer size, and every liberty the         *)
(* application and the system may take; and for a port that one thread     *)
(* uses, that it implements SerialPort.                                    *)
(***************************************************************************)
EXTENDS LinuxPortRefinement, SequenceTheorems, TLAPS

USE DEF ReceiverPcs, Configuring, CallPcs, Pcs, Threads

\* A thread is a caller or a receiver, never both, and a call returns to
\* where a thread of its kind rests.
LEMMA HomeLemma ==
    /\ \A t \in Threads : t # NoThread
    /\ \A c \in Callers : c \notin Receivers /\ Home(c) = "idle"
    /\ \A r \in Receivers : r \notin Callers /\ Home(r) = "callback"
  BY ThreadsAssumption DEF Home

\* What a step of the configuration does: it goes on, returns or ends in
\* close(), and only the flush touches the input.
LEMMA ConfigLemma ==
    ASSUME NEW t \in Threads, OpenConfig(t)
    PROVE  /\ ~crashed /\ pc[t] \in Configuring
           /\ \E l \in (Configuring \ {"open_fcntl"}) \cup {"open_run", "stop", Home(t)} :
                 pc' = [pc EXCEPT ![t] = l]
           /\ ret' = ret \/ \E v \in Outcomes : ret' = [ret EXCEPT ![t] = v]
           /\ queue' = queue \/ (queue' = <<>> /\ pc[t] = "open_flush")
           /\ UNCHANGED <<fd, running, threadRecv, precv, minNotify, named, freed, mutex, openFds,
                          hung, lastByte, target, hasRead, buf, delivered, crashed>>
<1> USE DEF At, Goto, Return, Refused, Configuring, Outcomes, object, config, tty, line, received
<1>1. CASE OpenFcntl(t)
  BY <1>1 DEF OpenFcntl
<1>2. CASE OpenGetAttr(t)
  BY <1>2 DEF OpenGetAttr
<1>3. CASE OpenFlush(t)
  BY <1>3 DEF OpenFlush
<1>4. CASE OpenSetAttr(t)
  BY <1>4 DEF OpenSetAttr
<1> QED
  BY <1>1, <1>2, <1>3, <1>4 DEF OpenConfig

\* The two parts of a sequence cut after its nth element, and their elements.
LEMMA PartsLemma ==
    ASSUME NEW S, NEW s \in Seq(S), NEW n \in 0 .. Len(s)
    PROVE  /\ SubSeq(s, 1, n) \in Seq(S)
           /\ Len(SubSeq(s, 1, n)) = n
           /\ \A i \in 1 .. n : SubSeq(s, 1, n)[i] = s[i]
           /\ SubSeq(s, n + 1, Len(s)) \in Seq(S)
           /\ Len(SubSeq(s, n + 1, Len(s))) = Len(s) - n
           /\ \A i \in 1 .. Len(s) - n : SubSeq(s, n + 1, Len(s))[i] = s[n + i]
<1>1. \A i \in 1 .. Len(s) : s[i] \in S
  BY ElementOfSeq
<1>2. Len(s) \in Nat
  BY LenProperties
<1>3. /\ SubSeq(s, 1, n) \in Seq(S)
      /\ Len(SubSeq(s, 1, n)) = IF 1 <= n THEN n - 1 + 1 ELSE 0
      /\ \A i \in 1 .. n - 1 + 1 : SubSeq(s, 1, n)[i] = s[1 + i - 1]
  <2>1. \A i \in 1 .. n : s[i] \in S
    BY <1>1, <1>2
  <2> QED
    BY <1>2, <2>1, SubSeqProperties
<1>4. /\ SubSeq(s, n + 1, Len(s)) \in Seq(S)
      /\ Len(SubSeq(s, n + 1, Len(s)))
           = IF n + 1 <= Len(s) THEN Len(s) - (n + 1) + 1 ELSE 0
      /\ \A i \in 1 .. Len(s) - (n + 1) + 1 :
            SubSeq(s, n + 1, Len(s))[i] = s[(n + 1) + i - 1]
  <2>1. \A i \in n + 1 .. Len(s) : s[i] \in S
    BY <1>1, <1>2
  <2> QED
    BY <1>2, <2>1, SubSeqProperties
<1> DEFINE front == SubSeq(s, 1, n)
           back == SubSeq(s, n + 1, Len(s))
<1> HIDE DEF front, back
<1>5. Len(front) = n /\ \A i \in 1 .. n : front[i] = s[i]
  <2>1. \A i \in 1 .. n : i \in 1 .. n - 1 + 1 /\ 1 + i - 1 = i
    BY <1>2
  <2>2. Len(front) = n
    BY <1>2, <1>3 DEF front
  <2>3. ASSUME NEW i \in 1 .. n PROVE front[i] = s[i]
    <3>1. front[i] = s[1 + i - 1] /\ 1 + i - 1 = i
      BY <1>3, <2>1 DEF front
    <3> QED
      BY <3>1
  <2> QED
    BY <2>2, <2>3
<1>6. Len(back) = Len(s) - n /\ \A i \in 1 .. Len(s) - n : back[i] = s[n + i]
  <2>1. \A i \in 1 .. Len(s) - n : i \in 1 .. Len(s) - (n + 1) + 1 /\ (n + 1) + i - 1 = n + i
    BY <1>2
  <2>2. Len(back) = Len(s) - n
    BY <1>2, <1>4 DEF back
  <2>3. ASSUME NEW i \in 1 .. Len(s) - n PROVE back[i] = s[n + i]
    <3>1. back[i] = s[(n + 1) + i - 1] /\ (n + 1) + i - 1 = n + i
      BY <1>4, <2>1 DEF back
    <3> QED
      BY <3>1
  <2> QED
    BY <2>2, <2>3
<1> QED
  BY <1>3, <1>4, <1>5, <1>6 DEF front, back

\* The variables that only a few actions change keep their type.
LEMMA TypeInit == Init => TypeOK
<1> SUFFICES ASSUME Init PROVE TypeOK
  OBVIOUS
<1>1. running \in BOOLEAN /\ precv \in BOOLEAN /\ named \in BOOLEAN
      /\ freed \in BOOLEAN /\ hung \in BOOLEAN /\ crashed \in BOOLEAN
  BY Zenon DEF Init
<1>2. pc \in [Threads -> Pcs] /\ ret \in [Threads -> Outcomes]
  BY DEF Init, Outcomes
<1>3. /\ target \in [Threads -> Receivers \cup {NoThread}]
      /\ hasRead \in [Receivers -> Nat]
      /\ buf \in [Receivers -> Seq(1 .. MaxByte)]
  BY DEF Init
<1>4. /\ fd \in Fds \cup {NoFd} /\ openFds \in SUBSET Fds
      /\ threadRecv \in Receivers \cup {NoThread}
      /\ mutex \in Threads \cup {NoThread}
      /\ minNotify \in 0 .. BufLen /\ lastByte \in 0 .. MaxByte
      /\ queue \in Seq(1 .. MaxByte) /\ delivered \in Seq(1 .. MaxByte)
  BY SizesAssumption DEF Init
<1> QED
  BY <1>1, <1>2, <1>3, <1>4 DEF TypeOK

LEMMA CallingType ==
    ASSUME TypeOK, NEW t \in Threads, Calling(t)
    PROVE  TypeOK'
<1>1. CASE InitPort(t)
  <2>1. pc' \in [Threads -> Pcs] /\ ret' \in [Threads -> Outcomes]
    BY <1>1, HomeLemma DEF TypeOK, InitPort, Return, Outcomes
  <2>2. precv' \in BOOLEAN /\ named' \in BOOLEAN
    BY <1>1, Zenon DEF TypeOK, InitPort
  <2> QED
    BY <1>1, <2>1, <2>2 DEF TypeOK, InitPort, line, tty, received
<1>2. CASE SetReadNotify(t)
  BY <1>2, SizesAssumption DEF TypeOK, SetReadNotify, line, tty, received
<1>3. CASE Open(t)
  <2>1. pc' \in [Threads -> Pcs]
    BY <1>3, HomeLemma DEF TypeOK, Open, Return
  <2>2. ret' \in [Threads -> Outcomes]
    BY <1>3 DEF TypeOK, Open, Return, Outcomes
  <2> QED
    BY <1>3, <2>1, <2>2 DEF TypeOK, Open, config, object, line, tty, received
<1>4. CASE Close(t)
  <2>1. pc' \in [Threads -> Pcs]
    BY <1>4, HomeLemma DEF TypeOK, Close, Return
  <2>2. ret' \in [Threads -> Outcomes]
    BY <1>4 DEF TypeOK, Close, Return, Outcomes
  <2> QED
    BY <1>4, <2>1, <2>2 DEF TypeOK, Close, config, object, line, tty, received
<1>5. CASE Send(t)
  <2>1. pc' \in [Threads -> Pcs]
    BY <1>5, HomeLemma DEF TypeOK, Send, Return, Goto
  <2>2. ret' \in [Threads -> Outcomes]
    BY <1>5 DEF TypeOK, Send, Return, Goto, Outcomes
  <2> QED
    BY <1>5, <2>1, <2>2 DEF TypeOK, Send, config, object, line, tty, received
<1> QED
  BY <1>1, <1>2, <1>3, <1>4, <1>5 DEF Calling

LEMMA CallStepType ==
    ASSUME TypeOK, NEW t \in Threads, CallStep(t)
    PROVE  TypeOK'
<1>1. CASE OpenDevice(t)
  <2>1. pc' \in [Threads -> Pcs]
    BY <1>1, HomeLemma DEF TypeOK, OpenDevice, Return, Goto
  <2>2. ret' \in [Threads -> Outcomes]
    BY <1>1 DEF TypeOK, OpenDevice, Return, Goto, Outcomes
  <2>3. /\ fd' \in Fds \cup {NoFd} /\ openFds' \in SUBSET Fds
        /\ hung' \in BOOLEAN
    BY <1>1 DEF TypeOK, OpenDevice
  <2> QED
    BY <1>1, <2>1, <2>2, <2>3 DEF TypeOK, OpenDevice, config, received
<1>2. CASE OpenConfig(t)
  <2>1. /\ \E l \in Pcs : pc' = [pc EXCEPT ![t] = l]
        /\ ret' = ret \/ \E v \in Outcomes : ret' = [ret EXCEPT ![t] = v]
        /\ queue' = queue \/ queue' = <<>>
    BY <1>2, ConfigLemma, HomeLemma
  <2>2. queue' = queue \/ queue' = <<>>
    BY <2>1
  <2>3. pc' \in [Threads -> Pcs] /\ ret' \in [Threads -> Outcomes]
    <3>1. pc \in [Threads -> Pcs] /\ ret \in [Threads -> Outcomes]
      BY DEF TypeOK
    <3> HIDE DEF Pcs
    <3> QED
      BY <2>1, <3>1
  <2>4. queue' \in Seq(1 .. MaxByte)
    BY <2>2, EmptySeq DEF TypeOK
  <2> QED
    BY <1>2, <2>3, <2>4, ConfigLemma DEF TypeOK
<1>3. CASE StartRun(t)
  BY <1>3, HomeLemma DEF TypeOK, StartRun, At, Goto, config, object, line, tty, received
<1>4. CASE CreateThread(t)
  <2>1. pc' \in [Threads -> Pcs]
    BY <1>4, HomeLemma DEF TypeOK, CreateThread
  <2>2. ret' \in [Threads -> Outcomes]
    BY <1>4 DEF TypeOK, CreateThread, Outcomes
  <2>3. threadRecv' \in Receivers \cup {NoThread}
    BY <1>4 DEF TypeOK, CreateThread
  <2> QED
    BY <1>4, <2>1, <2>2, <2>3 DEF TypeOK, CreateThread, config, object, line, tty, received
<1>5. CASE StopFlag(t)
  BY <1>5, HomeLemma DEF TypeOK, StopFlag, At, Goto, config, object, line, tty, received
<1>6. CASE JoinThread(t)
  <2>1. pc' \in [Threads -> Pcs] /\ ret' = ret
    BY <1>6 DEF TypeOK, JoinThread, Goto
  <2>2. target' \in [Threads -> Receivers \cup {NoThread}]
    BY <1>6 DEF TypeOK, JoinThread
  <2>3. crashed' \in BOOLEAN
    BY <1>6, Zenon DEF TypeOK, JoinThread
  <2> QED
    BY <1>6, <2>1, <2>2, <2>3 DEF TypeOK, JoinThread, config, object, line, tty, received
<1>7. CASE JoinReturn(t)
  <2>1. pc' \in [Threads -> Pcs]
    <3>1. PICK r \in Receivers : pc' = [pc EXCEPT ![r] = "none", ![t] = "dev_close"]
      BY <1>7 DEF JoinReturn
    <3>2. [pc EXCEPT ![r] = "none"] \in [Threads -> Pcs]
      BY DEF TypeOK
    <3>3. pc' = [[pc EXCEPT ![r] = "none"] EXCEPT ![t] = "dev_close"]
      BY <3>1, Zenon
    <3> QED
      BY <3>2, <3>3
  <2>2. target' \in [Threads -> Receivers \cup {NoThread}]
    BY <1>7 DEF TypeOK, JoinReturn
  <2>3. UNCHANGED <<object, mutex, tty, ret, received, crashed>>
    BY <1>7 DEF JoinReturn
  <2> QED
    BY <2>1, <2>2, <2>3 DEF TypeOK, config, object, line, tty, received
<1>8. CASE DevClose(t)
  <2>1. pc' \in [Threads -> Pcs] /\ ret' = ret
    BY <1>8 DEF TypeOK, DevClose, Goto
  <2>2. queue' \in Seq(1 .. MaxByte)
    <3>1. queue' \in {queue, <<>>}
      BY <1>8 DEF DevClose
    <3> QED
      BY <3>1, EmptySeq DEF TypeOK
  <2>3. /\ openFds' \in SUBSET Fds
        /\ threadRecv' \in Receivers \cup {NoThread}
    BY <1>8 DEF TypeOK, DevClose
  <2> QED
    BY <1>8, <2>1, <2>2, <2>3 DEF TypeOK, DevClose, config, object, received
<1>9. CASE ClearFd(t)
  BY <1>9, HomeLemma DEF TypeOK, ClearFd, At, Return, config, object, line, tty, received
<1>10. CASE SendLock(t)
  BY <1>10, HomeLemma DEF TypeOK, SendLock, At, Goto, config, object, line, tty, received
<1>11. CASE SendCheck(t)
  <2>1. pc' \in [Threads -> Pcs] /\ ret' \in [Threads -> Outcomes]
    BY <1>11, HomeLemma DEF TypeOK, SendCheck, Goto, Return, Outcomes
  <2> QED
    BY <1>11, <2>1 DEF TypeOK, SendCheck, config, object, line, tty, received
<1>12. CASE SendWrite(t)
  <2>1. pc' \in [Threads -> Pcs] /\ ret' \in [Threads -> Outcomes]
    BY <1>12, HomeLemma DEF TypeOK, SendWrite, Return, Outcomes
  <2> QED
    BY <1>12, <2>1 DEF TypeOK, SendWrite, config, object, line, tty, received
<1> QED
  BY <1>1, <1>2, <1>3, <1>4, <1>5, <1>6, <1>7, <1>8, <1>9, <1>10, <1>11, <1>12
  DEF CallStep

LEMMA RecvStepType ==
    ASSUME TypeOK, NEW r \in Receivers, RecvStep(r)
    PROVE  TypeOK'
<1>1. CASE RecvCheck(r)
  <2>1. pc' \in [Threads -> Pcs] /\ ret' = ret
    BY <1>1 DEF TypeOK, RecvCheck, Goto
  <2>2. hasRead' \in [Receivers -> Nat]
    <3>1. hasRead' = hasRead \/ hasRead' = [hasRead EXCEPT ![r] = 0]
      BY <1>1, Zenon DEF RecvCheck
    <3>2. hasRead \in [Receivers -> Nat]
      BY DEF TypeOK
    <3> QED
      BY <3>1, <3>2
  <2> QED
    BY <1>1, <2>1, <2>2 DEF TypeOK, RecvCheck, config, object, line, tty
<1>2. CASE RecvPoll(r)
  BY <1>2, HomeLemma DEF TypeOK, RecvPoll, At, Goto, config, object, line, tty
<1>3. CASE RecvLock(r)
  BY <1>3, HomeLemma DEF TypeOK, RecvLock, At, Goto, config, object, line, tty, received
<1>4. CASE RecvOpened(r)
  BY <1>4, HomeLemma DEF TypeOK, RecvOpened, At, Goto, config, object, line, tty, received
<1>5. CASE RecvRead(r)
  BY <1>5, HomeLemma DEF TypeOK, RecvRead, At, Goto, config, object, line, tty, received
<1>6. CASE RecvTake(r)
  <2>1. pc' \in [Threads -> Pcs]
    BY <1>6 DEF TypeOK, RecvTake, Goto
  <2>2. \A n \in 0 .. Len(queue) :
           /\ SubSeq(queue, 1, n) \in Seq(1 .. MaxByte)
           /\ SubSeq(queue, n + 1, Len(queue)) \in Seq(1 .. MaxByte)
    BY PartsLemma DEF TypeOK
  <2>3. (IF hasRead[r] < Len(queue) THEN hasRead[r] ELSE Len(queue))
            \in 0 .. Len(queue)
    BY DEF TypeOK
  <2>4. buf' \in [Receivers -> Seq(1 .. MaxByte)]
    BY <1>6, <2>2, <2>3 DEF TypeOK, RecvTake
  <2>5. queue' \in Seq(1 .. MaxByte)
    <3>1. \/ queue' \in {queue, <<>>}
          \/ \E n \in 0 .. Len(queue) : queue' = SubSeq(queue, n + 1, Len(queue))
      BY <1>6, <2>3 DEF RecvTake
    <3> QED
      BY <2>2, <3>1, EmptySeq DEF TypeOK
  <2>6. ret' = ret /\ UNCHANGED <<object, mutex, openFds, hung, lastByte, target, hasRead,
                                delivered, crashed>>
    BY <1>6 DEF RecvTake, Goto
  <2> QED
    BY <2>1, <2>4, <2>5, <2>6 DEF TypeOK, config, object
<1>7. CASE RecvNotify(r)
  BY <1>7, HomeLemma DEF TypeOK, RecvNotify, At, Goto, config, object, line, tty
<1>8. CASE RecvUnlock(r)
  BY <1>8, HomeLemma DEF TypeOK, RecvUnlock, At, Goto, config, object, line, tty, received
<1> QED
  BY <1>1, <1>2, <1>3, <1>4, <1>5, <1>6, <1>7, <1>8 DEF RecvStep

LEMMA OtherType ==
    ASSUME TypeOK,
           \/ \E t \in Callers : Release(t) \/ Create(t)
           \/ \E r \in Receivers : UseAfterFree(r)
           \/ Arrive \/ Hangup
    PROVE  TypeOK'
<1>1. ASSUME NEW t \in Callers, Release(t) PROVE TypeOK'
  BY <1>1 DEF TypeOK, Release, config, object, line, tty, received
<1>2. ASSUME NEW t \in Callers, Create(t) PROVE TypeOK'
  <2>1. /\ running' \in BOOLEAN /\ precv' \in BOOLEAN
        /\ named' \in BOOLEAN /\ freed' \in BOOLEAN
    BY <1>2, Zenon DEF Create
  <2>2. /\ fd' \in Fds \cup {NoFd} /\ minNotify' \in 0 .. BufLen
        /\ threadRecv' \in Receivers \cup {NoThread}
        /\ mutex' \in Threads \cup {NoThread}
    BY <1>2, SizesAssumption DEF Create
  <2> QED
    BY <1>2, <2>1, <2>2 DEF TypeOK, Create, line, tty, received
<1>3. ASSUME NEW r \in Receivers, UseAfterFree(r) PROVE TypeOK'
  BY <1>3 DEF TypeOK, UseAfterFree, config, object, line, tty, received
<1>4. CASE Arrive
  <2>1. lastByte' \in 1 .. MaxByte
    BY <1>4, SizesAssumption DEF TypeOK, Arrive
  <2>2. queue' \in Seq(1 .. MaxByte)
    <3>1. queue' = queue \/ queue' = Append(queue, lastByte')
      BY <1>4, Zenon DEF Arrive
    <3>2. queue \in Seq(1 .. MaxByte)
      BY DEF TypeOK
    <3>3. Append(queue, lastByte') \in Seq(1 .. MaxByte)
      BY <2>1, <3>2, AppendProperties
    <3> QED
      BY <3>1, <3>2, <3>3
  <2>3. UNCHANGED <<object, mutex, openFds, hung, pc, ret, target, received, crashed>>
    BY <1>4 DEF Arrive
  <2>4. lastByte' \in 0 .. MaxByte
    BY <2>1
  <2> QED
    BY <2>2, <2>3, <2>4 DEF TypeOK, config, object, received
<1>5. CASE Hangup
  BY <1>5 DEF TypeOK, Hangup, config, object, received
<1> QED
  BY <1>1, <1>2, <1>3, <1>4, <1>5

LEMMA StutterType ==
    ASSUME TypeOK, UNCHANGED vars
    PROVE  TypeOK'
  BY DEF TypeOK, vars, config, object, line, tty, received

\* Every variable keeps its type, in every behaviour.
THEOREM TypeCorrect == Spec => []TypeOK
<1>1. TypeOK /\ [Next]_vars => TypeOK'
  BY CallingType, CallStepType, RecvStepType, OtherType, StutterType DEF Next
<1> QED
  BY <1>1, TypeInit, PTL DEF Spec
-----------------------------------------------------------------------------
(* Mutual exclusion *)

USE DEF Holds, At, object

\* In the beginning nobody is inside.
LEMMA MutexInit == Init => MutexInv
  BY ThreadsAssumption
  DEF Init, MutexInv, OwnsMutex, ReceiversDoNotSend, NoCallOnFreed

LEMMA CallingMutex ==
    ASSUME TypeOK, MutexInv, NEW t \in Threads, Calling(t)
    PROVE  MutexInv'
<1> USE HomeLemma DEF TypeOK, MutexInv, OwnsMutex, ReceiversDoNotSend, NoCallOnFreed
<1>1. CASE InitPort(t)
  BY <1>1 DEF InitPort, MayCall, Return
<1>2. CASE SetReadNotify(t)
  BY <1>2 DEF SetReadNotify
<1>3. CASE Open(t)
  <2>1. /\ pc[t] = Home(t) /\ ~freed
        /\ mutex' = mutex /\ freed' = freed
    BY <1>3 DEF Open, MayCall
  <2>2. \E l \in {Home(t), "open_device"} : pc' = [pc EXCEPT ![t] = l]
    BY <1>3 DEF Open, Return
  <2> QED
    BY <2>1, <2>2
<1>4. CASE Close(t)
  <2>1. /\ pc[t] = Home(t) /\ ~freed
        /\ mutex' = mutex /\ freed' = freed
    BY <1>4 DEF Close, MayCall
  <2>2. \E l \in {Home(t), "stop"} : pc' = [pc EXCEPT ![t] = l]
    BY <1>4 DEF Close, Return
  <2> QED
    BY <2>1, <2>2
<1>5. CASE Send(t)
  BY <1>5 DEF Send, MayCall, Return, Goto
<1> QED
  BY <1>1, <1>2, <1>3, <1>4, <1>5 DEF Calling

LEMMA CallStepMutex ==
    ASSUME TypeOK, MutexInv, NEW t \in Threads, CallStep(t)
    PROVE  MutexInv'
<1> USE HomeLemma DEF TypeOK, MutexInv, OwnsMutex, ReceiversDoNotSend, NoCallOnFreed
<1>1. CASE OpenDevice(t)
  BY <1>1 DEF OpenDevice, Return, Goto
<1>2. CASE OpenConfig(t)
  <2>1. /\ mutex' = mutex /\ freed' = freed /\ pc[t] \in Configuring
        /\ \E l \in (Configuring \ {"open_fcntl"}) \cup {"open_run", "stop", Home(t)} :
              pc' = [pc EXCEPT ![t] = l]
    BY <1>2, ConfigLemma
  <2> QED
    BY <2>1
<1>3. CASE StartRun(t)
  BY <1>3 DEF StartRun, Goto
<1>4. CASE CreateThread(t)
  BY <1>4 DEF CreateThread
<1>5. CASE StopFlag(t)
  BY <1>5 DEF StopFlag, Goto
<1>6. CASE JoinThread(t)
  BY <1>6 DEF JoinThread, Goto
<1>7. CASE JoinReturn(t)
  BY <1>7 DEF JoinReturn
<1>8. CASE DevClose(t)
  BY <1>8 DEF DevClose, Goto
<1>9. CASE ClearFd(t)
  BY <1>9 DEF ClearFd, Return
<1>10. CASE SendLock(t)
  \* A free mutex means that nobody is inside, so t is no receiver.
  <2>1. \A u \in Threads : ~Holds(u)
    BY <1>10 DEF SendLock
  <2>2. t \in Callers
    BY <1>10, <2>1 DEF SendLock
  <2> QED
    BY <1>10, <2>1, <2>2 DEF SendLock, Goto
<1>11. CASE SendCheck(t)
  BY <1>11 DEF SendCheck, Goto, Return
<1>12. CASE SendWrite(t)
  <2>1. t \in Callers /\ Holds(t)
    BY <1>12 DEF SendWrite
  <2>2. \A u \in Threads : u # t => ~Holds(u)
    BY <2>1
  <2> QED
    BY <1>12, <2>1, <2>2 DEF SendWrite, Return
<1> QED
  BY <1>1, <1>2, <1>3, <1>4, <1>5, <1>6, <1>7, <1>8, <1>9, <1>10, <1>11, <1>12
  DEF CallStep

LEMMA RecvStepMutex ==
    ASSUME TypeOK, MutexInv, NEW r \in Receivers, RecvStep(r)
    PROVE  MutexInv'
<1> USE HomeLemma DEF TypeOK, MutexInv, OwnsMutex, ReceiversDoNotSend, NoCallOnFreed
<1>1. CASE RecvCheck(r)
  BY <1>1 DEF RecvCheck, Goto
<1>2. CASE RecvPoll(r)
  BY <1>2 DEF RecvPoll, Goto
<1>3. CASE RecvLock(r)
  <2>1. \A u \in Threads : ~Holds(u)
    BY <1>3 DEF RecvLock
  <2> QED
    BY <1>3, <2>1 DEF RecvLock, Goto
<1>4. CASE RecvOpened(r)
  BY <1>4 DEF RecvOpened, Goto
<1>5. CASE RecvRead(r)
  BY <1>5 DEF RecvRead, Goto
<1>6. CASE RecvTake(r)
  BY <1>6 DEF RecvTake, Goto
<1>7. CASE RecvNotify(r)
  BY <1>7 DEF RecvNotify, Goto
<1>8. CASE RecvUnlock(r)
  <2>1. Holds(r)
    BY <1>8 DEF RecvUnlock
  <2>2. \A u \in Threads : u # r => ~Holds(u)
    BY <2>1
  <2> QED
    BY <1>8, <2>1, <2>2 DEF RecvUnlock, Goto
<1> QED
  BY <1>1, <1>2, <1>3, <1>4, <1>5, <1>6, <1>7, <1>8 DEF RecvStep

LEMMA OtherMutex ==
    ASSUME TypeOK, MutexInv,
           \/ \E t \in Callers : Release(t) \/ Create(t)
           \/ \E r \in Receivers : UseAfterFree(r)
           \/ Arrive \/ Hangup
    PROVE  MutexInv'
<1> USE HomeLemma DEF TypeOK, MutexInv, OwnsMutex, ReceiversDoNotSend, NoCallOnFreed
<1>1. ASSUME NEW t \in Callers, Release(t) PROVE MutexInv'
  BY <1>1 DEF Release
<1>2. ASSUME NEW t \in Callers, Create(t) PROVE MutexInv'
  <2>1. \A u \in Threads : ~Holds(u)
    BY <1>2 DEF Create, Alive
  <2> QED
    BY <1>2, <2>1 DEF Create
<1>3. ASSUME NEW r \in Receivers, UseAfterFree(r) PROVE MutexInv'
  BY <1>3 DEF UseAfterFree
<1>4. CASE Arrive
  BY <1>4 DEF Arrive
<1>5. CASE Hangup
  BY <1>5 DEF Hangup
<1> QED
  BY <1>1, <1>2, <1>3, <1>4, <1>5

LEMMA StutterMutex ==
    ASSUME MutexInv, UNCHANGED vars
    PROVE  MutexInv'
  BY DEF MutexInv, OwnsMutex, ReceiversDoNotSend, NoCallOnFreed, vars

\* Whoever is between lock() and unlock() owns the mutex, in every behaviour:
\* with any number of threads racing through open and close, calls from
\* on_recv_data, and send() leaving the mutex locked.
THEOREM MutexCorrect == Spec => [](OwnsMutex /\ ReceiversDoNotSend)
<1>1. TypeOK /\ MutexInv /\ [Next]_vars => MutexInv'
  BY CallingMutex, CallStepMutex, RecvStepMutex, OtherMutex, StutterMutex DEF Next
<1>2. MutexInv => OwnsMutex /\ ReceiversDoNotSend
  BY DEF MutexInv
<1> QED
  BY <1>1, <1>2, MutexInit, TypeCorrect, PTL DEF Spec

\* At most one thread reads, delivers or writes at a time.
THEOREM MutualExclusion == Spec => []OneInside
<1>1. OwnsMutex => OneInside
  BY DEF OwnsMutex, OneInside
<1> QED
  BY <1>1, MutexCorrect, PTL

-----------------------------------------------------------------------------
(* The order of bytes *)

USE DEF Ascending, Before

\* Sequences of bytes are sequences of integers.
LEMMA BytesAreIntegers ==
    ASSUME NEW s \in Seq(1 .. MaxByte)
    PROVE  Len(s) \in Nat /\ \A i \in 1 .. Len(s) : s[i] \in Int
<1>1. Len(s) \in Nat /\ \A i \in 1 .. Len(s) : s[i] \in 1 .. MaxByte
  BY ElementOfSeq, LenProperties
<1>2. \A b \in 1 .. MaxByte : b \in Int
  BY SizesAssumption
<1> QED
  BY <1>1, <1>2

\* Cutting an ascending sequence gives two, the first before the second.
LEMMA CutAscending ==
    ASSUME NEW s \in Seq(1 .. MaxByte), NEW n \in 0 .. Len(s), Ascending(s)
    PROVE  LET first == SubSeq(s, 1, n)
               last == SubSeq(s, n + 1, Len(s))
           IN  Ascending(first) /\ Ascending(last) /\ Before(first, last)
<1> DEFINE first == SubSeq(s, 1, n)
           last == SubSeq(s, n + 1, Len(s))
<1>1. /\ Len(first) = n /\ \A i \in 1 .. n : first[i] = s[i]
      /\ Len(last) = Len(s) - n
      /\ \A i \in 1 .. Len(s) - n : last[i] = s[n + i]
  BY PartsLemma
<1>2. Len(s) \in Nat
  BY LenProperties
<1> HIDE DEF first, last
<1>3. Ascending(first)
  BY <1>1, <1>2
<1>4. Ascending(last)
  BY <1>1, <1>2
<1>5. Before(first, last)
  BY <1>1, <1>2
<1> QED
  BY <1>3, <1>4, <1>5 DEF first, last

\* What is before the whole is before both parts.
LEMMA CutBefore ==
    ASSUME NEW s \in Seq(1 .. MaxByte), NEW n \in 0 .. Len(s),
           NEW u, Before(u, s)
    PROVE  Before(u, SubSeq(s, 1, n)) /\ Before(u, SubSeq(s, n + 1, Len(s)))
<1> DEFINE first == SubSeq(s, 1, n)
           last == SubSeq(s, n + 1, Len(s))
<1>1. /\ Len(first) = n /\ \A i \in 1 .. n : first[i] = s[i]
      /\ Len(last) = Len(s) - n
      /\ \A i \in 1 .. Len(s) - n : last[i] = s[n + i]
  BY PartsLemma
<1>2. Len(s) \in Nat
  BY LenProperties
<1> HIDE DEF first, last
<1>3. Before(u, first)
  BY <1>1, <1>2
<1>4. Before(u, last)
  BY <1>1, <1>2
<1> QED
  BY <1>3, <1>4 DEF first, last

\* Joining two ascending sequences, the first before the second.
LEMMA JoinAscending ==
    ASSUME NEW s \in Seq(1 .. MaxByte), NEW u \in Seq(1 .. MaxByte),
           Ascending(s), Ascending(u), Before(s, u)
    PROVE  Ascending(s \o u)
<1>1. /\ Len(s) \in Nat /\ Len(u) \in Nat
      /\ Len(s \o u) = Len(s) + Len(u)
      /\ \A i \in 1 .. Len(s) + Len(u) :
            (s \o u)[i] = IF i <= Len(s) THEN s[i] ELSE u[i - Len(s)]
  BY ConcatProperties, LenProperties
<1> SUFFICES ASSUME NEW i \in 1 .. Len(s) + Len(u),
                    NEW j \in 1 .. Len(s) + Len(u), i < j
             PROVE  (s \o u)[i] < (s \o u)[j]
  BY <1>1
<1>2. CASE j <= Len(s)
  BY <1>1, <1>2
<1>3. CASE i > Len(s)
  <2> DEFINE m == i - Len(s)
             n == j - Len(s)
  <2>1. /\ m \in 1 .. Len(u) /\ n \in 1 .. Len(u) /\ m < n
        /\ (s \o u)[i] = u[m] /\ (s \o u)[j] = u[n]
    BY <1>1, <1>3
  <2>2. u[m] < u[n]
    BY <2>1 DEF Ascending
  <2> QED
    BY <2>1, <2>2
<1>4. CASE i <= Len(s) /\ j > Len(s)
  <2> DEFINE n == j - Len(s)
  <2>1. /\ i \in 1 .. Len(s) /\ n \in 1 .. Len(u)
        /\ (s \o u)[i] = s[i] /\ (s \o u)[j] = u[n]
    BY <1>1, <1>4
  <2>2. s[i] < u[n]
    BY <2>1 DEF Before
  <2> QED
    BY <2>1, <2>2
<1> QED
  BY <1>1, <1>2, <1>3, <1>4

LEMMA JoinBefore ==
    ASSUME NEW s \in Seq(1 .. MaxByte), NEW u \in Seq(1 .. MaxByte),
           NEW v, Before(s, v), Before(u, v)
    PROVE  Before(s \o u, v)
<1>1. /\ Len(s) \in Nat /\ Len(u) \in Nat
      /\ Len(s \o u) = Len(s) + Len(u)
      /\ \A i \in 1 .. Len(s) + Len(u) :
            (s \o u)[i] = IF i <= Len(s) THEN s[i] ELSE u[i - Len(s)]
  BY ConcatProperties, LenProperties
<1> SUFFICES ASSUME NEW i \in 1 .. Len(s) + Len(u), NEW j \in 1 .. Len(v)
             PROVE  (s \o u)[i] < v[j]
  BY <1>1
<1>2. CASE i <= Len(s)
  BY <1>1, <1>2
<1>3. CASE i > Len(s)
  <2>1. i - Len(s) \in 1 .. Len(u)
    BY <1>1, <1>3
  <2>2. (s \o u)[i] = u[i - Len(s)]
    BY <1>1, <1>3
  <2>3. u[i - Len(s)] < v[j]
    BY <2>1
  <2> QED
    BY <2>2, <2>3
<1> QED
  BY <1>1, <1>2, <1>3

LEMMA OrderInit == Init => OrderInv
  BY SizesAssumption DEF Init, OrderInv, BufferInUse, LineOrder

\* A step that moves no byte and leaves every receiver that holds bytes where
\* it is keeps the order.
LEMMA OrderKept ==
    ASSUME OrderInv, UNCHANGED <<queue, lastByte, buf, delivered>>,
           \A r \in Receivers : pc[r] = "got" => pc'[r] = "got"
    PROVE  OrderInv'
  BY DEF OrderInv, BufferInUse, LineOrder

\* So does a step that only empties the queue of the tty.
LEMMA OrderKeptEmpty ==
    ASSUME TypeOK, OrderInv, queue' = <<>>,
           UNCHANGED <<lastByte, buf, delivered>>,
           \A r \in Receivers : pc[r] = "got" => pc'[r] = "got"
    PROVE  OrderInv'
  BY EmptySeq DEF OrderInv, BufferInUse, LineOrder

LEMMA CallingOrder ==
    ASSUME TypeOK, OrderInv, NEW t \in Threads, Calling(t)
    PROVE  OrderInv'
<1>1. /\ UNCHANGED <<queue, lastByte, buf, delivered>>
      /\ \A r \in Receivers : pc[r] = "got" => pc'[r] = "got"
  <2>1. CASE InitPort(t)
    BY <2>1, HomeLemma DEF TypeOK, InitPort, MayCall, Return, line, tty, received
  <2>2. CASE SetReadNotify(t)
    BY <2>2 DEF SetReadNotify, line, tty, received
  <2>3. CASE Open(t)
    BY <2>3, HomeLemma DEF TypeOK, Open, MayCall, Return, line, tty, received
  <2>4. CASE Close(t)
    BY <2>4, HomeLemma DEF TypeOK, Close, MayCall, Return, line, tty, received
  <2>5. CASE Send(t)
    BY <2>5, HomeLemma DEF TypeOK, Send, MayCall, Return, Goto, line, tty, received
  <2> QED
    BY <2>1, <2>2, <2>3, <2>4, <2>5 DEF Calling
<1> QED
  BY <1>1, OrderKept

LEMMA CallStepOrder ==
    ASSUME TypeOK, OrderInv, NEW t \in Threads, CallStep(t)
    PROVE  OrderInv'
<1>1. ASSUME \/ OpenDevice(t) \/ StartRun(t) \/ CreateThread(t) \/ StopFlag(t)
             \/ JoinThread(t) \/ JoinReturn(t) \/ ClearFd(t)
             \/ SendLock(t) \/ SendCheck(t) \/ SendWrite(t)
      PROVE  OrderInv'
  <2>1. UNCHANGED <<queue, lastByte, buf, delivered>>
    BY <1>1 DEF OpenDevice, StartRun, CreateThread, StopFlag, JoinThread,
                JoinReturn, ClearFd, SendLock, SendCheck, SendWrite, line, tty,
                received
  <2>2. \A r \in Receivers : pc[r] = "got" => pc'[r] = "got"
    <3> USE <1>1 DEF TypeOK
    <3>1. CASE OpenDevice(t)
      BY <3>1 DEF OpenDevice, Return, Goto
    <3>2. CASE StartRun(t) \/ StopFlag(t)
      BY <3>2 DEF StartRun, StopFlag, Goto
    <3>3. CASE CreateThread(t) \/ JoinReturn(t)
      BY <3>3 DEF CreateThread, JoinReturn
    <3>4. CASE JoinThread(t)
      BY <3>4 DEF JoinThread, Goto
    <3>5. CASE ClearFd(t) \/ SendLock(t)
      BY <3>5 DEF ClearFd, SendLock, Return, Goto
    <3>6. CASE SendCheck(t) \/ SendWrite(t)
      BY <3>6 DEF SendCheck, SendWrite, Return, Goto
    <3> QED
      BY <3>1, <3>2, <3>3, <3>4, <3>5, <3>6
  <2> QED
    BY <2>1, <2>2, OrderKept
<1>2. ASSUME OpenConfig(t) \/ DevClose(t)
      PROVE  OrderInv'
  <2>1. queue' = queue \/ queue' = <<>>
    BY <1>2, ConfigLemma DEF DevClose
  <2>2. UNCHANGED <<lastByte, buf, delivered>>
    BY <1>2, ConfigLemma DEF DevClose, received
  <2>3. \E l \in Pcs : pc' = [pc EXCEPT ![t] = l]
    BY <1>2, ConfigLemma DEF DevClose, Goto, Home
  <2>4. pc[t] # "got"
    BY <1>2, ConfigLemma DEF DevClose
  <2>5. \A r \in Receivers : pc[r] = "got" => pc'[r] = "got"
    BY <2>3, <2>4 DEF TypeOK
  <2> QED
    BY <2>1, <2>2, <2>5, OrderKept, OrderKeptEmpty
<1> QED
  BY <1>1, <1>2 DEF CallStep

\* A ::read moves the first bytes of the tty into the buffer of the receiver.
LEMMA RecvTakeOrder ==
    ASSUME TypeOK, OrderInv, NEW r \in Receivers, RecvTake(r)
    PROVE  OrderInv'
<1> DEFINE n == IF hasRead[r] < Len(queue) THEN hasRead[r] ELSE Len(queue)
           taken == SubSeq(queue, 1, n)
           left == SubSeq(queue, n + 1, Len(queue))
<1>1. n \in 0 .. Len(queue) /\ Len(queue) \in Nat
  BY DEF TypeOK
<1>2. /\ Len(taken) = n /\ \A i \in 1 .. n : taken[i] = queue[i]
      /\ Len(left) = Len(queue) - n
      /\ \A i \in 1 .. Len(queue) - n : left[i] = queue[n + i]
  <2>1. queue \in Seq(1 .. MaxByte)
    BY DEF TypeOK
  <2> HIDE DEF n
  <2> QED
    BY <1>1, <2>1, PartsLemma
<1>3. pc[r] = "reading" /\ UNCHANGED <<lastByte, delivered>>
  BY DEF RecvTake
<1>4. CASE pc' = [pc EXCEPT ![r] = "recv_unlock"] /\ UNCHANGED <<queue, buf>>
  <2>1. \A s \in Receivers : pc[s] = "got" => pc'[s] = "got"
    BY <1>3, <1>4 DEF TypeOK
  <2> QED
    BY <1>3, <1>4, <2>1, OrderKept
<1>5. CASE /\ pc' = [pc EXCEPT ![r] = "got"]
           /\ buf' = [buf EXCEPT ![r] = taken]
           /\ queue' = left \/ queue' = <<>>
  <2> HIDE DEF n, taken, left
  <2>1. BufferInUse'
    BY <1>5 DEF TypeOK, OrderInv, BufferInUse
  <2>2. \A s \in Receivers : buf'[s] = IF s = r THEN taken ELSE buf[s]
    BY <1>5 DEF TypeOK
  <2>3. queue \in Seq(1 .. MaxByte)
    BY DEF TypeOK
  <2>4. Ascending(taken) /\ Ascending(left) /\ Before(taken, left)
    BY <1>1, <2>3, CutAscending DEF OrderInv, LineOrder, taken, left
  <2>5. Before(delivered, taken) /\ Before(delivered, left)
    BY <1>1, <2>3, CutBefore DEF OrderInv, LineOrder, taken, left
  <2>6. \A s \in Receivers : Before(buf[s], left)
    BY <1>1, <2>3, CutBefore DEF OrderInv, LineOrder, left
  <2>7. /\ \A i \in 1 .. Len(left) : left[i] <= lastByte
        /\ \A i \in 1 .. Len(taken) : taken[i] <= lastByte
    BY <1>1, <1>2 DEF OrderInv, LineOrder
  <2>8. CASE queue' = left
    BY <1>3, <2>1, <2>2, <2>4, <2>5, <2>6, <2>7, <2>8 DEF OrderInv, LineOrder
  <2>9. CASE queue' = <<>>
    BY <1>3, <2>1, <2>2, <2>4, <2>5, <2>7, <2>9, EmptySeq DEF OrderInv, LineOrder
  <2> QED
    BY <1>5, <2>8, <2>9
<1> QED
  BY <1>4, <1>5 DEF RecvTake, Goto

\* Handing the bytes over keeps the order because no other receiver holds any.
LEMMA RecvNotifyOrder ==
    ASSUME TypeOK, OwnsMutex, OrderInv, NEW r \in Receivers, RecvNotify(r)
    PROVE  OrderInv'
<1>1. \A s \in Receivers : buf'[s] = <<>>
  <2>1. Holds(r)
    BY DEF RecvNotify
  <2>2. \A s \in Receivers : buf[s] # <<>> => s = r
    BY <2>1 DEF OwnsMutex, OrderInv, BufferInUse
  <2>3. buf' = [buf EXCEPT ![r] = <<>>]
    BY DEF RecvNotify
  <2> QED
    BY <2>2, <2>3 DEF TypeOK
<1>2. delivered' = delivered \o buf[r] /\ UNCHANGED <<queue, lastByte>>
  BY DEF RecvNotify, line, tty
<1>3. /\ Len(delivered) \in Nat /\ Len(buf[r]) \in Nat
      /\ Len(delivered') = Len(delivered) + Len(buf[r])
      /\ \A i \in 1 .. Len(delivered) + Len(buf[r]) : delivered'[i] =
            IF i <= Len(delivered) THEN delivered[i]
                                   ELSE buf[r][i - Len(delivered)]
  BY <1>2, ConcatProperties DEF TypeOK
<1>4. Ascending(delivered')
  BY <1>2, JoinAscending DEF OrderInv, LineOrder, TypeOK
<1>5. Before(delivered', queue)
  BY <1>2, JoinBefore DEF OrderInv, LineOrder, TypeOK
<1>6. \A i \in 1 .. Len(delivered') : delivered'[i] <= lastByte
  BY <1>3 DEF OrderInv, LineOrder
<1> QED
  BY <1>1, <1>2, <1>4, <1>5, <1>6, EmptySeq
  DEF OrderInv, BufferInUse, LineOrder

LEMMA RecvStepOrder ==
    ASSUME TypeOK, OwnsMutex, OrderInv, NEW r \in Receivers, RecvStep(r)
    PROVE  OrderInv'
<1>1. ASSUME \/ RecvCheck(r) \/ RecvPoll(r) \/ RecvLock(r) \/ RecvOpened(r)
             \/ RecvRead(r) \/ RecvUnlock(r)
      PROVE  OrderInv'
  <2>1. UNCHANGED <<queue, lastByte, buf, delivered>>
    BY <1>1 DEF RecvCheck, RecvPoll, RecvLock, RecvOpened, RecvRead,
                RecvUnlock, line, tty, received
  <2>2. pc[r] # "got" /\ \E l \in Pcs : pc' = [pc EXCEPT ![r] = l]
    BY <1>1 DEF RecvCheck, RecvPoll, RecvLock, RecvOpened, RecvRead,
                RecvUnlock, Goto
  <2>3. \A s \in Receivers : pc[s] = "got" => pc'[s] = "got"
    BY <2>2 DEF TypeOK
  <2> QED
    BY <2>1, <2>3, OrderKept
<1> QED
  BY <1>1, RecvTakeOrder, RecvNotifyOrder DEF RecvStep

LEMMA ArriveOrder ==
    ASSUME TypeOK, OrderInv, Arrive
    PROVE  OrderInv'
<1>1. lastByte' = lastByte + 1 /\ lastByte \in Nat
  BY SizesAssumption DEF Arrive, TypeOK
<1>2. UNCHANGED <<delivered, buf, pc>>
  BY DEF Arrive, received
<1>3. BufferInUse'
  BY <1>2 DEF OrderInv, BufferInUse
<1>4. /\ \A i \in 1 .. Len(queue) : queue[i] <= lastByte
      /\ \A i \in 1 .. Len(delivered) : delivered[i] <= lastByte
      /\ \A r \in Receivers : \A i \in 1 .. Len(buf[r]) : buf[r][i] <= lastByte
  BY DEF OrderInv, LineOrder
<1>5. /\ \A i \in 1 .. Len(queue) : queue[i] \in Int
      /\ \A i \in 1 .. Len(delivered) : delivered[i] \in Int
      /\ \A r \in Receivers : \A i \in 1 .. Len(buf[r]) : buf[r][i] \in Int
  BY BytesAreIntegers DEF TypeOK
<1>6. /\ \A i \in 1 .. Len(queue) : queue[i] < lastByte'
      /\ \A i \in 1 .. Len(delivered) : delivered[i] < lastByte'
      /\ \A r \in Receivers : \A i \in 1 .. Len(buf[r]) : buf[r][i] < lastByte'
  BY <1>1, <1>4, <1>5
<1>7. /\ \A i \in 1 .. Len(delivered) : delivered[i] <= lastByte'
      /\ \A r \in Receivers : \A i \in 1 .. Len(buf[r]) : buf[r][i] <= lastByte'
  BY <1>1, <1>5, <1>6
<1>8. CASE queue' = queue
  <2>1. \A i \in 1 .. Len(queue) : queue[i] <= lastByte'
    BY <1>1, <1>5, <1>6
  <2> QED
    BY <1>2, <1>3, <1>7, <1>8, <2>1 DEF OrderInv, LineOrder
<1>9. CASE queue' = Append(queue, lastByte')
  <2>1. lastByte' \in 1 .. MaxByte
    BY <1>1, SizesAssumption DEF Arrive
  <2>2. /\ Len(queue) \in Nat /\ Len(queue') = Len(queue) + 1
        /\ \A i \in 1 .. Len(queue) : queue'[i] = queue[i]
        /\ queue'[Len(queue) + 1] = lastByte'
    BY <1>9, <2>1, AppendProperties DEF TypeOK
  <2>3. \A i \in 1 .. Len(queue') :
           queue'[i] = IF i <= Len(queue) THEN queue[i] ELSE lastByte'
    BY <2>2
  <2>4. Ascending(queue')
    BY <1>6, <2>2, <2>3 DEF OrderInv, LineOrder
  <2>5. Before(delivered, queue') /\ \A r \in Receivers : Before(buf[r], queue')
    BY <1>6, <2>2, <2>3 DEF OrderInv, LineOrder
  <2>6. \A i \in 1 .. Len(queue') : queue'[i] <= lastByte'
    BY <1>1, <1>5, <1>6, <2>2, <2>3
  <2> QED
    BY <1>2, <1>3, <1>7, <2>4, <2>5, <2>6 DEF OrderInv, LineOrder
<1> QED
  BY <1>8, <1>9, Zenon DEF Arrive

LEMMA OtherOrder ==
    ASSUME TypeOK, OrderInv,
           \/ \E t \in Callers : Release(t) \/ Create(t)
           \/ \E r \in Receivers : UseAfterFree(r)
           \/ Hangup \/ UNCHANGED vars
    PROVE  OrderInv'
<1>1. UNCHANGED <<lastByte, buf, delivered, pc>> /\ queue' \in {queue, <<>>}
  BY DEF Release, Create, UseAfterFree, Hangup, vars, line, tty, received
<1> QED
  BY <1>1, OrderKept, OrderKeptEmpty

\* on_recv_data is given the bytes in the order in which the line carried
\* them, and none twice, whatever the threads do.
THEOREM DeliveryInOrder == Spec => []InOrder
<1>1. TypeOK /\ OwnsMutex /\ OrderInv /\ [Next]_vars => OrderInv'
  BY CallingOrder, CallStepOrder, RecvStepOrder, ArriveOrder, OtherOrder DEF Next
<1>2. OrderInv => InOrder
  BY DEF OrderInv, LineOrder, InOrder
<1> QED
  BY <1>1, <1>2, OrderInit, TypeCorrect, MutexCorrect, PTL DEF Spec

-----------------------------------------------------------------------------
(* The read buffer *)

ReadingPcs == {"recv_lock", "recv_check", "recv_read", "reading"}

\* Who does not get into the reading part, and keeps the count, keeps the rule.
LEMMA FitsKept ==
    ASSUME ReadFits, hasRead' = hasRead,
           \A r \in Receivers : pc'[r] \in ReadingPcs => pc[r] \in ReadingPcs
    PROVE  ReadFits'
  BY DEF ReadFits, ReadingPcs

LEMMA CallingFits ==
    ASSUME TypeOK, ReadFits, NEW t \in Threads, Calling(t)
    PROVE  ReadFits'
<1>1. UNCHANGED hasRead
  BY DEF Calling, InitPort, SetReadNotify, Open, Close, Send, received
<1>2. \E l \in {Home(t), "open_device", "stop", "send_lock"} :
         pc' = [pc EXCEPT ![t] = l] \/ UNCHANGED pc
  BY DEF Calling, InitPort, SetReadNotify, Open, Close, Send, Return, Goto
<1>3. \A r \in Receivers : pc'[r] \in ReadingPcs => pc[r] \in ReadingPcs
  BY <1>2, HomeLemma DEF ReadingPcs, TypeOK
<1> QED
  BY <1>1, <1>3, FitsKept

LEMMA CallStepFits ==
    ASSUME TypeOK, ReadFits, NEW t \in Threads, CallStep(t)
    PROVE  ReadFits'
<1>1. UNCHANGED hasRead
  BY ConfigLemma DEF CallStep, OpenDevice, StartRun, CreateThread, StopFlag, JoinThread,
         JoinReturn, DevClose, ClearFd, SendLock, SendCheck, SendWrite, received
<1>2. \A r \in Receivers : pc'[r] \in ReadingPcs => pc[r] \in ReadingPcs
  <2> USE HomeLemma DEF ReadingPcs, TypeOK, Return, Goto
  <2>1. CASE OpenDevice(t) \/ StartRun(t) \/ StopFlag(t) \/ JoinThread(t)
    BY <2>1 DEF OpenDevice, StartRun, StopFlag, JoinThread
  <2>2. CASE CreateThread(t) \/ JoinReturn(t)
    BY <2>2 DEF CreateThread, JoinReturn
  <2>3. CASE DevClose(t) \/ ClearFd(t) \/ SendLock(t) \/ SendCheck(t) \/ SendWrite(t)
    BY <2>3 DEF DevClose, ClearFd, SendLock, SendCheck, SendWrite
  <2>4. CASE OpenConfig(t)
    <3>1. \E l \in (Configuring \ {"open_fcntl"}) \cup {"open_run", "stop", Home(t)} :
             pc' = [pc EXCEPT ![t] = l]
      BY <2>4, ConfigLemma
    <3> QED
      BY <3>1
  <2> QED
    BY <2>1, <2>2, <2>3, <2>4 DEF CallStep
<1> QED
  BY <1>1, <1>2, FitsKept

LEMMA RecvStepFits ==
    ASSUME TypeOK, ReadFits, NEW r \in Receivers, RecvStep(r)
    PROVE  ReadFits'
<1> USE DEF TypeOK, Goto
<1>1. CASE RecvCheck(r)
  BY <1>1 DEF ReadFits, RecvCheck
<1>2. CASE RecvPoll(r)
  <2> DEFINE n == IF fd \in openFds /\ ~hung THEN Len(queue) ELSE hasRead[r]
  <2>1. n \in Nat /\ BufLen \in Nat
    BY SizesAssumption
  <2> HIDE DEF n
  <2>2. /\ hasRead' = [hasRead EXCEPT ![r] = n]
        /\ \/ n <= BufLen /\ pc' = [pc EXCEPT ![r] = "recv_lock"]
           \/ pc' = [pc EXCEPT ![r] = "check"]
    <3>1. /\ hasRead' = [hasRead EXCEPT ![r] = n]
          /\ \/ ~(BufLen < n) /\ pc' = [pc EXCEPT ![r] = "recv_lock"]
             \/ pc' = [pc EXCEPT ![r] = "check"]
      BY <1>2, Zenon DEF RecvPoll, n
    <3> QED
      BY <2>1, <3>1
  <2> QED
    BY <2>1, <2>2 DEF ReadFits
<1>3. CASE RecvLock(r) \/ RecvOpened(r) \/ RecvRead(r)
  <2>1. hasRead' = hasRead
    BY <1>3 DEF RecvLock, RecvOpened, RecvRead, received
  <2>2. pc[r] \in ReadingPcs /\ \E l \in Pcs : pc' = [pc EXCEPT ![r] = l]
    BY <1>3 DEF RecvLock, RecvOpened, RecvRead, ReadingPcs
  <2> QED
    BY <2>1, <2>2, FitsKept
<1>4. CASE RecvTake(r) \/ RecvNotify(r) \/ RecvUnlock(r)
  <2>1. hasRead' = hasRead
    BY <1>4 DEF RecvTake, RecvNotify, RecvUnlock, received
  <2>2. \E l \in {"got", "recv_unlock", "callback", "check"} : pc' = [pc EXCEPT ![r] = l]
    BY <1>4 DEF RecvTake, RecvNotify, RecvUnlock
  <2> QED
    BY <2>1, <2>2, FitsKept DEF ReadingPcs
<1> QED
  BY <1>1, <1>2, <1>3, <1>4 DEF RecvStep

LEMMA OtherFits ==
    ASSUME ReadFits,
           \/ \E t \in Callers : Release(t) \/ Create(t)
           \/ \E r \in Receivers : UseAfterFree(r)
           \/ Arrive \/ Hangup \/ UNCHANGED vars
    PROVE  ReadFits'
<1>1. UNCHANGED <<hasRead, pc>>
  BY DEF Release, Create, UseAfterFree, Arrive, Hangup, vars, received
<1> QED
  BY <1>1, FitsKept

\* No receiver asks ::read for more than buf_read holds, although a failing
\* ioctl leaves it the count of an earlier round.
THEOREM BufferNeverOverrun == Spec => []ReadFits
<1>1. Init => ReadFits
  BY DEF Init, ReadFits
<1>2. TypeOK /\ ReadFits /\ [Next]_vars => ReadFits'
  BY CallingFits, CallStepFits, RecvStepFits, OtherFits DEF Next
<1> QED
  BY <1>1, <1>2, TypeCorrect, PTL DEF Spec

-----------------------------------------------------------------------------
(* A port that one thread uses, and closes before it gives it back,        *)
(* implements SerialPort.                                                  *)

\* on_recv_data may send, and no more; the port is closed before sp_release.
\* Of the failures a configuration that is refused is left out: open() gets
\* into close() then, which a SerialPort does not.
UsedAlone ==
    /\ \E c \in Callers : Callers = {c}
    /\ CallbackCalls \cap {"open", "close"} = {}
    /\ Allowed \cap {"config_fails", "release_open"} = {}

\* No two receivers live at a time, and only while the port is open.
OneAtATime == \A r \in Receivers : pc[r] # "none" => threadRecv = r

NoneWhile ==
    fd = NoFd \/ pc[User] \in Configuring \cup {"open_device", "open_run", "open_create",
                                              "dev_close", "clear_fd"}
      => \A r \in Receivers : pc[r] = "none"

JoinsItsOwn ==
    /\ \A t \in Threads : target[t] # NoThread => t = User /\ pc[User] = "join_wait"
    /\ pc[User] = "join_wait" => target[User] = threadRecv

OneDescriptor ==
    /\ openFds = IF fd = NoFd \/ pc[User] = "clear_fd" THEN {} ELSE {fd}
    /\ openFds = {} => queue = <<>>

WhereClosed ==
    /\ fd = NoFd => pc[User] \in {"idle", "open_device", "send_lock", "send_check"}
    /\ pc[User] = "open_device" => fd = NoFd
    /\ pc[User] \in Configuring => ~hung
    /\ freed => fd = NoFd

Places ==
    /\ pc[User] \in {"idle"} \cup CallPcs
    /\ \A r \in Receivers : pc[r] \in ReceiverPcs \cup {"send_lock"}

SingleInv ==
    OneAtATime /\ NoneWhile /\ JoinsItsOwn /\ OneDescriptor /\ WhereClosed /\ Places

LEMMA UserLemma ==
    ASSUME UsedAlone
    PROVE  /\ Callers = {User} /\ User \in Threads /\ User \notin Receivers
           /\ Threads = {User} \cup Receivers /\ Home(User) = "idle"
           /\ NoThread \notin Receivers /\ User # NoThread
           /\ \A r \in Receivers : r # User /\ r \in Threads /\ Home(r) = "callback"
<1>1. Callers = {User}
  BY DEF UsedAlone, User
<1> QED
  BY <1>1, ThreadsAssumption DEF Threads, Home

LEMMA SingleInit == ASSUME UsedAlone, Init PROVE SingleInv
<1> USE UserLemma
<1>1. /\ fd = NoFd /\ freed = FALSE /\ openFds = {} /\ queue = <<>> /\ pc[User] = "idle"
      /\ \A r \in Receivers : pc[r] = "none"
      /\ \A t \in Threads : target[t] = NoThread
  BY DEF Init
<1> QED
  BY <1>1 DEF SingleInv, OneAtATime, NoneWhile, JoinsItsOwn, OneDescriptor, WhereClosed, Places,
              CallPcs, ReceiverPcs

\* Only the places in the program, properties of the object and flags change,
\* and nothing is begun or ended by it.
LEMMA SingleKept ==
    ASSUME UsedAlone, SingleInv, UNCHANGED <<fd, openFds, target, threadRecv>>,
           pc'[User] = pc[User], freed' = freed, hung' = hung \/ pc[User] \notin Configuring,
           queue' = <<>> \/ openFds # {},
           \A r \in Receivers : /\ pc'[r] \in ReceiverPcs \cup {"send_lock"}
                                /\ pc[r] = "none" => pc'[r] = "none"
    PROVE  SingleInv'
  BY DEF SingleInv, OneAtATime, NoneWhile, JoinsItsOwn, OneDescriptor, WhereClosed, Places

LEMMA CallingSingle ==
    ASSUME UsedAlone, TypeOK, SingleInv, NEW t \in Threads, Calling(t)
    PROVE  SingleInv'
<1> USE UserLemma
<1> USE DEF object, config, line, tty, received
<1>1. pc \in [Threads -> Pcs] /\ UNCHANGED <<fd, openFds, queue, target, threadRecv, freed, hung>>
  BY DEF TypeOK, Calling, InitPort, SetReadNotify, Open, Close, Send
<1>2. CASE t = User
  <2>1. /\ ~freed /\ pc[User] = "idle" /\ \A r \in Receivers : pc'[r] = pc[r]
        /\ \/ pc'[User] = "idle"
           \/ pc'[User] = "open_device" /\ fd = NoFd
           \/ pc'[User] = "stop" /\ fd # NoFd
           \/ pc'[User] = "send_lock"
    BY <1>1, <1>2 DEF Calling, InitPort, SetReadNotify, Open, Close, Send, MayCall, At, Return, Goto
  <2> QED
    BY <1>1, <2>1
       DEF SingleInv, OneAtATime, NoneWhile, JoinsItsOwn, OneDescriptor, WhereClosed, Places, CallPcs
<1>3. CASE t \in Receivers
  <2>1. /\ pc[t] = "callback" /\ pc' = [pc EXCEPT ![t] = pc'[t]] /\ pc'[t] \in {"callback", "send_lock"}
    <3>1. ~Open(t) /\ ~Close(t)
      BY <1>3 DEF Open, Close, MayCall, UsedAlone
    <3> QED
      BY <1>1, <1>3, <3>1 DEF Calling, InitPort, SetReadNotify, Send, MayCall, At, Return, Goto
  <2>2. pc'[User] = pc[User]
    BY <1>1, <1>3, <2>1
  <2>3. \A r \in Receivers : r = t \/ pc'[r] = pc[r]
    BY <1>1, <2>1
  <2>4. \A r \in Receivers : /\ pc'[r] \in ReceiverPcs \cup {"send_lock"}
                             /\ pc[r] = "none" => pc'[r] = "none"
    BY <2>1, <2>3 DEF SingleInv, Places, ReceiverPcs
  <2>5. queue' = <<>> \/ openFds # {}
    BY <1>1 DEF SingleInv, OneDescriptor
  <2> QED
    BY <1>1, <2>2, <2>4, <2>5, SingleKept
<1> QED
  BY <1>2, <1>3

\* A receiver that calls send() waits for its own mutex.
LEMMA OnlyUserSteps ==
    ASSUME UsedAlone, SingleInv, OwnsMutex, NEW t \in Threads, CallStep(t)
    PROVE  t = User
<1> USE UserLemma
<1> SUFFICES ASSUME t \in Receivers PROVE FALSE
  OBVIOUS
<1>1. pc[t] \in ReceiverPcs \cup {"send_lock"}
  BY DEF SingleInv, Places
<1>2. pc[t] = "send_lock" => mutex = t
  BY DEF OwnsMutex, Holds
<1> QED
  BY <1>1, <1>2, ConfigLemma DEF ReceiverPcs, CallStep, OpenDevice, StartRun, CreateThread, StopFlag,
       JoinThread, JoinReturn, DevClose, ClearFd, SendLock, SendCheck, SendWrite, At

\* The configuration of a port of one thread is not refused: it takes its four
\* steps, and the input is emptied by the third.
LEMMA ConfigSucceeds ==
    ASSUME UsedAlone, OneDescriptor, WhereClosed, pc \in [Threads -> Pcs], OpenConfig(User)
    PROVE  /\ ~crashed /\ fd # NoFd /\ openFds = {fd} /\ ~hung /\ pc[User] \in Configuring
           /\ \A r \in Receivers : pc'[r] = pc[r]
           /\ UNCHANGED <<fd, threadRecv, precv, named, freed, openFds, hung, mutex, target, crashed>>
           /\ \/ pc[User] = "open_fcntl" /\ pc'[User] = "open_getattr" /\ queue' = queue
              \/ pc[User] = "open_getattr" /\ pc'[User] = "open_flush" /\ queue' = queue
              \/ pc[User] = "open_flush" /\ pc'[User] = "open_setattr" /\ queue' = <<>>
              \/ /\ pc[User] = "open_setattr" /\ queue' = queue
                 /\ pc'[User] = IF precv THEN "open_run" ELSE "idle"
<1> USE UserLemma
<1>1. /\ ~crashed /\ pc[User] \in Configuring
      /\ UNCHANGED <<fd, threadRecv, precv, named, freed, openFds, hung, mutex, target, crashed>>
  BY ConfigLemma
<1>2. fd # NoFd /\ openFds = {fd} /\ ~hung
  BY <1>1 DEF OneDescriptor, WhereClosed
<1>3. Reachable /\ fd \in openFds /\ "config_fails" \notin Allowed
  BY <1>2 DEF Reachable, UsedAlone
<1>4. \A r \in Receivers : pc'[r] = pc[r]
  BY ConfigLemma
<1>5. \/ pc[User] = "open_fcntl" /\ pc'[User] = "open_getattr" /\ queue' = queue
      \/ pc[User] = "open_getattr" /\ pc'[User] = "open_flush" /\ queue' = queue
      \/ pc[User] = "open_flush" /\ pc'[User] = "open_setattr" /\ queue' = <<>>
      \/ /\ pc[User] = "open_setattr" /\ queue' = queue
         /\ pc'[User] = IF precv THEN "open_run" ELSE "idle"
  BY <1>3 DEF OpenConfig, OpenFcntl, OpenGetAttr, OpenFlush, OpenSetAttr, At, Goto, Return, tty, line
<1> QED
  BY <1>1, <1>2, <1>4, <1>5

LEMMA CallStepSingle ==
    ASSUME UsedAlone, TypeOK, OwnsMutex, NoCallOnFreed, SingleInv, NEW t \in Threads, CallStep(t)
    PROVE  SingleInv'
<1> USE UserLemma
<1> USE DEF object, config, line, tty, received, At, Goto, Return
<1> USE DEF SingleInv, OneAtATime, NoneWhile, JoinsItsOwn, OneDescriptor, WhereClosed, Places,
            CallPcs
<1>0. t = User /\ pc \in [Threads -> Pcs] /\ target \in [Threads -> Receivers \cup {NoThread}]
      /\ threadRecv \in Receivers \cup {NoThread}
  BY OnlyUserSteps DEF TypeOK
<1>1. CASE OpenDevice(t)
  <2>1. /\ UNCHANGED <<queue, threadRecv, target, freed>> /\ pc[User] = "open_device"
        /\ \A r \in Receivers : pc'[r] = pc[r] /\ pc[r] = "none"
        /\ fd = NoFd /\ openFds = {} /\ queue = <<>>
    BY <1>0, <1>1 DEF OpenDevice
  <2>2. \A u \in Threads : target[u] = NoThread
    BY <1>0, <2>1
  <2>3. ~freed
    BY <2>1 DEF NoCallOnFreed
  <2>4. \/ \E f \in Fds : fd' = f /\ openFds' = {f} /\ ~hung' /\ pc'[User] = "open_fcntl"
        \/ fd' = NoFd /\ openFds' = {} /\ pc'[User] = "idle"
    BY <1>0, <1>1, <2>1 DEF OpenDevice
  <2> QED
    BY <2>1, <2>2, <2>3, <2>4, FdsAssumption DEF ReceiverPcs
<1>2. CASE OpenConfig(t)
  <2>1. /\ UNCHANGED <<fd, openFds, threadRecv, target, freed, hung>>
        /\ queue' = queue \/ queue' = <<>>
        /\ pc[User] \in Configuring /\ \A r \in Receivers : pc'[r] = pc[r]
        /\ pc'[User] \in Configuring \cup {"open_run", "idle"} /\ fd # NoFd /\ openFds = {fd}
    BY <1>0, <1>2, ConfigSucceeds
  <2>2. \A r \in Receivers : pc'[r] = "none"
    BY <2>1
  <2>3. \A u \in Threads : target[u] = NoThread
    BY <1>0, <2>1
  <2>4. OneAtATime' /\ NoneWhile' /\ Places'
    BY <2>1, <2>2 DEF ReceiverPcs
  <2>5. JoinsItsOwn'
    BY <2>1, <2>3
  <2>6. OneDescriptor' /\ WhereClosed'
    BY <2>1
  <2> QED
    BY <2>4, <2>5, <2>6
<1>3. CASE StartRun(t)
  BY <1>0, <1>3 DEF StartRun
<1>4. CASE CreateThread(t)
  <2>1. \A r \in Receivers : pc[r] = "none"
    BY <1>0, <1>4 DEF CreateThread
  <2>2. /\ UNCHANGED <<fd, openFds, queue, hung, target, freed>> /\ pc'[User] = "idle"
        /\ fd # NoFd /\ pc[User] = "open_create" /\ \A u \in Threads : target[u] = NoThread
    BY <1>0, <1>4 DEF CreateThread
  <2>3. \A r \in Receivers : pc'[r] = "none" \/ (pc'[r] = "check" /\ threadRecv' = r)
    BY <1>0, <1>4, <2>1 DEF CreateThread
  <2> QED
    BY <2>2, <2>3 DEF ReceiverPcs
<1>5. CASE StopFlag(t)
  BY <1>0, <1>5 DEF StopFlag
<1>6. CASE JoinThread(t)
  <2>1. /\ UNCHANGED <<fd, openFds, queue, hung, threadRecv, freed>> /\ pc[User] = "join"
        /\ \A r \in Receivers : pc'[r] = pc[r]
    BY <1>0, <1>6 DEF JoinThread
  <2>2. \A u \in Threads : target[u] = NoThread
    BY <1>0, <2>1
  <2>3. threadRecv # User
    BY <1>0
  <2>4. \/ UNCHANGED <<pc, target>>
        \/ /\ pc[threadRecv] = "none" /\ threadRecv \in Receivers
           /\ pc'[User] = "dev_close" /\ UNCHANGED target
        \/ /\ pc'[User] = "join_wait" /\ target' = [target EXCEPT ![User] = threadRecv]
    BY <1>0, <1>6, <2>2, <2>3 DEF JoinThread
  <2>5. CASE UNCHANGED <<pc, target>>
    BY <2>1, <2>5
  <2>6. CASE /\ pc[threadRecv] = "none" /\ threadRecv \in Receivers
             /\ pc'[User] = "dev_close" /\ UNCHANGED target
    BY <2>1, <2>2, <2>6
  <2>7. CASE pc'[User] = "join_wait" /\ target' = [target EXCEPT ![User] = threadRecv]
    BY <1>0, <2>1, <2>2, <2>7
  <2> QED
    BY <2>4, <2>5, <2>6, <2>7
<1>7. CASE JoinReturn(t)
  <2>1. /\ UNCHANGED <<fd, openFds, queue, hung, threadRecv, freed>> /\ pc[User] = "join_wait"
        /\ pc'[User] = "dev_close" /\ target' = [target EXCEPT ![User] = NoThread]
    BY <1>0, <1>7 DEF JoinReturn
  <2>2. \A r \in Receivers : pc'[r] = "none"
    BY <1>0, <1>7 DEF JoinReturn
  <2>3. \A u \in Threads : target'[u] = NoThread
    BY <1>0, <2>1
  <2> QED
    BY <2>1, <2>2, <2>3 DEF ReceiverPcs
<1>8. CASE DevClose(t)
  <2>1. /\ UNCHANGED <<fd, hung, target, freed>> /\ pc[User] = "dev_close"
        /\ pc'[User] = "clear_fd" /\ openFds' = openFds \ {fd}
        /\ \A r \in Receivers : pc'[r] = "none"
    BY <1>0, <1>8 DEF DevClose
  <2>2. queue' = <<>>
    BY <1>8, <2>1 DEF DevClose, Held
  <2> QED
    BY <2>1, <2>2 DEF ReceiverPcs
<1>9. CASE ClearFd(t)
  BY <1>0, <1>9 DEF ClearFd
<1>10. CASE SendLock(t) \/ SendCheck(t) \/ SendWrite(t)
  <2>1. /\ UNCHANGED <<fd, openFds, queue, hung, threadRecv, target, freed>>
        /\ pc[User] \in {"send_lock", "send_check", "send_write"}
        /\ \A r \in Receivers : pc'[r] = pc[r]
        /\ pc'[User] \in {"idle", "send_check"} \/ (pc'[User] = "send_write" /\ fd # NoFd)
    BY <1>0, <1>10 DEF SendLock, SendCheck, SendWrite
  <2>2. \A u \in Threads : target[u] = NoThread
    BY <1>0, <2>1
  <2> QED
    BY <2>1, <2>2
<1> QED
  BY <1>1, <1>2, <1>3, <1>4, <1>5, <1>6, <1>7, <1>8, <1>9, <1>10 DEF CallStep

LEMMA RecvStepSingle ==
    ASSUME UsedAlone, TypeOK, SingleInv, NEW r \in Receivers, RecvStep(r)
    PROVE  SingleInv'
<1> USE UserLemma
<1>1. pc \in [Threads -> Pcs]
  BY DEF TypeOK
<1>2. /\ UNCHANGED <<fd, openFds, target, threadRecv, freed, hung>>
      /\ pc[r] # "none" /\ \E l \in ReceiverPcs : pc' = [pc EXCEPT ![r] = l]
      /\ queue' = queue \/ pc[r] = "reading"
  BY DEF RecvStep, RecvCheck, RecvPoll, RecvLock, RecvOpened, RecvRead, RecvTake, RecvNotify,
         RecvUnlock, At, Goto, object, config, line, tty, ReceiverPcs
<1>3. pc'[User] = pc[User]
  BY <1>1, <1>2
<1>4. \A s \in Receivers : /\ pc'[s] \in ReceiverPcs \cup {"send_lock"}
                           /\ pc[s] = "none" => pc'[s] = "none"
  BY <1>1, <1>2 DEF SingleInv, Places
<1>5. queue' = <<>> \/ openFds # {}
  BY <1>2 DEF SingleInv, OneDescriptor, NoneWhile
<1> QED
  BY <1>2, <1>3, <1>4, <1>5, SingleKept

LEMMA OtherSingle ==
    ASSUME UsedAlone, TypeOK, NoCallOnFreed, SingleInv,
           \/ \E c \in Callers : Release(c) \/ Create(c)
           \/ \E r \in Receivers : UseAfterFree(r)
           \/ Arrive \/ Hangup \/ UNCHANGED vars
    PROVE  SingleInv'
<1> USE UserLemma
<1> USE DEF object, config, line, tty, received
<1>1. ASSUME NEW c \in Callers, Release(c) PROVE SingleInv'
  BY <1>1 DEF Release, UsedAlone, SingleInv, OneAtATime, NoneWhile, JoinsItsOwn, OneDescriptor,
              WhereClosed, Places
<1>2. ASSUME NEW c \in Callers, Create(c) PROVE SingleInv'
  BY <1>2 DEF Create, At, SingleInv, OneAtATime, NoneWhile, JoinsItsOwn, OneDescriptor,
              WhereClosed, Places
<1>3. CASE Arrive
  BY <1>3, SingleKept DEF Arrive, SingleInv, Places
<1>4. CASE Hangup
  BY <1>4, SingleKept DEF Hangup, UsedAlone, SingleInv, Places
<1>5. CASE (\E r \in Receivers : UseAfterFree(r)) \/ UNCHANGED vars
  BY <1>5 DEF UseAfterFree, vars, SingleInv, OneAtATime, NoneWhile, JoinsItsOwn, OneDescriptor,
              WhereClosed, Places
<1> QED
  BY <1>1, <1>2, <1>3, <1>4, <1>5

LEMMA SingleNext ==
    ASSUME UsedAlone, TypeOK, MutexInv, SingleInv, [Next]_vars
    PROVE  SingleInv'
  BY CallingSingle, CallStepSingle, RecvStepSingle, OtherSingle DEF Next, MutexInv

\* What LinuxPortProofs shows of one step, together.
PortInv == TypeOK /\ MutexInv /\ OrderInv /\ SingleInv

LEMMA PortNextInv == ASSUME UsedAlone, PortInv, [Next]_vars PROVE PortInv'
<1> USE DEF PortInv
<1>1. TypeOK'
  BY CallingType, CallStepType, RecvStepType, OtherType, StutterType DEF Next
<1>2. MutexInv'
  BY CallingMutex, CallStepMutex, RecvStepMutex, OtherMutex, StutterMutex DEF Next
<1>3. OrderInv'
  BY CallingOrder, CallStepOrder, RecvStepOrder, ArriveOrder, OtherOrder DEF Next, MutexInv
<1>4. SingleInv'
  BY SingleNext
<1> QED
  BY <1>1, <1>2, <1>3, <1>4

\* One thread that opens, closes and sends, and a callback that does not open or
\* close: never two receivers, each joined by the close() that ends it, at most
\* one descriptor, and neither of them while the port is closed.
THEOREM SingleCorrect == ASSUME UsedAlone PROVE Spec => []PortInv
<1>1. Init => PortInv
  BY TypeInit, MutexInit, OrderInit, SingleInit DEF PortInv
<1>2. PortInv /\ [Next]_vars => PortInv'
  BY PortNextInv
<1> QED
  BY <1>1, <1>2, PTL DEF Spec

-----------------------------------------------------------------------------
(* Every step is a step of SerialPort or none.                             *)

\* InHand, of any buffers.
HeldIn(b) ==
    IF \E r \in Receivers : b[r] # <<>>
    THEN b[CHOOSE r \in Receivers : b[r] # <<>>]
    ELSE <<>>

LEMMA HeldLemma ==
    ASSUME NEW b
    PROVE  /\ (\A r \in Receivers : b[r] = <<>>) => HeldIn(b) = <<>>
           /\ \A r \in Receivers :
                 (\A s \in Receivers : s # r => b[s] = <<>>) => HeldIn(b) = b[r]
  BY DEF HeldIn

Step == Port!PortNext \/ UNCHANGED <<MappedStatus, MappedWire, delivered>>

\* What is in the hands of a receiver, and in whose.
LEMMA InHandLemma ==
    ASSUME PortInv
    PROVE  /\ InHand = HeldIn(buf) /\ InHand' = HeldIn(buf')
           /\ InHand \in Seq(1 .. MaxByte) /\ queue \in Seq(1 .. MaxByte)
           /\ (\A r \in Receivers : pc[r] = "none") => InHand = <<>>
           /\ \A r \in Receivers : pc[r] # "none" =>
                 InHand = buf[r] /\ \A s \in Receivers : s # r => buf[s] = <<>>
<1>1. InHand = HeldIn(buf) /\ InHand' = HeldIn(buf')
  BY DEF InHand, HeldIn
<1>2. buf \in [Receivers -> Seq(1 .. MaxByte)] /\ queue \in Seq(1 .. MaxByte)
  BY DEF PortInv, TypeOK
<1>3. \A r \in Receivers : buf[r] # <<>> => pc[r] = "got"
  BY DEF PortInv, OrderInv, BufferInUse
<1>4. \A r, s \in Receivers : pc[r] # "none" /\ s # r => buf[s] = <<>>
  BY <1>3 DEF PortInv, SingleInv, OneAtATime
<1>5. \A r \in Receivers : pc[r] # "none" => InHand = buf[r]
  BY <1>1, <1>4, HeldLemma
<1>6. (\A r \in Receivers : pc[r] = "none") => InHand = <<>>
  BY <1>1, <1>3, HeldLemma
<1>7. InHand \in Seq(1 .. MaxByte)
  <2>1. CASE \A r \in Receivers : pc[r] = "none"
    BY <1>6, <2>1, EmptySeq
  <2>2. CASE \E r \in Receivers : pc[r] # "none"
    <3>1. PICK r \in Receivers : pc[r] # "none"
      BY <2>2
    <3> QED
      BY <1>2, <1>5, <3>1
  <2> QED
    BY <2>1, <2>2
<1> QED
  BY <1>1, <1>2, <1>4, <1>5, <1>6, <1>7

\* The wire stays as it is when neither the tty nor a buffer changes.
LEMMA WireKept == ASSUME PortInv, UNCHANGED <<queue, buf>> PROVE MappedWire' = MappedWire
  BY InHandLemma DEF MappedWire

LEMMA CallingMaps ==
    ASSUME UsedAlone, PortInv, NEW t \in Threads, Calling(t)
    PROVE  Step
<1> USE UserLemma
<1> USE DEF object, config, line, tty, received
<1>1. pc \in [Threads -> Pcs] /\ UNCHANGED <<fd, queue, buf, delivered>>
  BY DEF PortInv, TypeOK, Calling, InitPort, SetReadNotify, Open, Close, Send
<1>2. MappedWire' = MappedWire
  BY <1>1, WireKept
<1>3. CASE t = User
  <2>1. /\ pc[User] = "idle"
        /\ \/ pc'[User] \in {"idle", "send_lock"}
           \/ pc'[User] = "open_device" /\ fd = NoFd
           \/ pc'[User] = "stop" /\ fd # NoFd
    BY <1>1, <1>3 DEF Calling, InitPort, SetReadNotify, Open, Close, Send, MayCall, At, Return, Goto
  <2>2. CASE pc'[User] = "stop" /\ fd # NoFd
    <3>1. MappedStatus = "open" /\ MappedStatus' = "closing"
      BY <1>1, <2>1, <2>2 DEF MappedStatus, Closing
    <3> QED
      BY <1>1, <1>2, <3>1 DEF Step, Port!PortNext, Port!ClosePort
  <2>3. CASE pc'[User] \in {"idle", "send_lock"} \/ (pc'[User] = "open_device" /\ fd = NoFd)
    <3>1. MappedStatus' = MappedStatus
      BY <1>1, <2>1, <2>3 DEF MappedStatus, Closing
    <3> QED
      BY <1>1, <1>2, <3>1 DEF Step
  <2> QED
    BY <2>1, <2>2, <2>3
<1>4. CASE t \in Receivers
  <2>1. ~Open(t) /\ ~Close(t)
    BY <1>4 DEF Open, Close, MayCall, UsedAlone
  <2>2. pc'[User] = pc[User]
    BY <1>1, <1>4, <2>1 DEF Calling, InitPort, SetReadNotify, Send, Return, Goto
  <2>3. MappedStatus' = MappedStatus
    BY <1>1, <2>2 DEF MappedStatus
  <2> QED
    BY <1>1, <1>2, <2>3 DEF Step
<1> QED
  BY <1>3, <1>4

LEMMA CallStepMaps ==
    ASSUME UsedAlone, PortInv, NEW t \in Threads, CallStep(t)
    PROVE  Step
<1> USE UserLemma
<1> USE DEF object, config, line, tty, received, At, Goto, Return
<1>0. /\ t = User /\ pc \in [Threads -> Pcs] /\ UNCHANGED <<buf, delivered>>
      /\ InHand' = InHand /\ OneDescriptor /\ NoneWhile /\ WhereClosed
  <2>1. t = User
    BY OnlyUserSteps DEF PortInv, MutexInv
  <2>2. pc \in [Threads -> Pcs] /\ OneDescriptor /\ NoneWhile /\ WhereClosed
    BY DEF PortInv, TypeOK, SingleInv
  <2>3. UNCHANGED <<buf, delivered>>
    BY ConfigLemma DEF CallStep, OpenDevice, StartRun, CreateThread, StopFlag,
           JoinThread, JoinReturn, DevClose, ClearFd, SendLock, SendCheck, SendWrite
  <2> QED
    BY <2>1, <2>2, <2>3, InHandLemma
\* Steps that neither open nor close the port.
<1>1. ASSUME UNCHANGED queue, MappedStatus' = MappedStatus PROVE Step
  BY <1>0, <1>1, WireKept DEF Step
<1>2. CASE OpenDevice(t)
  <2>1. pc[User] = "open_device" /\ UNCHANGED queue /\ MappedStatus = "closed"
    BY <1>0, <1>2 DEF OpenDevice, MappedStatus
  <2>2. CASE fd' # NoFd /\ pc'[User] = "open_fcntl"
    <3>1. MappedStatus' = "opening" /\ MappedWire' = MappedWire
      BY <1>0, <2>1, <2>2, WireKept DEF MappedStatus
    <3> QED
      BY <1>0, <2>1, <3>1 DEF Step, Port!PortNext, Port!OpenPort
  <2>3. CASE fd' = NoFd
    BY <1>1, <2>1, <2>3 DEF MappedStatus
  <2> QED
    BY <1>0, <1>2, <2>2, <2>3, FdsAssumption DEF OpenDevice
<1>3. CASE OpenConfig(t)
  <2>1. /\ fd' = fd /\ fd # NoFd
        /\ \/ pc[User] = "open_fcntl" /\ pc'[User] = "open_getattr" /\ queue' = queue
           \/ pc[User] = "open_getattr" /\ pc'[User] = "open_flush" /\ queue' = queue
           \/ pc[User] = "open_flush" /\ pc'[User] = "open_setattr" /\ queue' = <<>>
           \/ /\ pc[User] = "open_setattr" /\ queue' = queue
              /\ pc'[User] \in {"open_run", "idle"}
    BY <1>0, <1>3, ConfigSucceeds
  <2>2. CASE pc[User] \in {"open_fcntl", "open_getattr"}
    BY <1>1, <2>1, <2>2 DEF MappedStatus
  <2>3. CASE pc[User] = "open_flush"
    <3>1. MappedStatus = "opening" /\ MappedStatus' = "flushed" /\ queue' = <<>>
      BY <2>1, <2>3 DEF MappedStatus
    <3>2. InHand = <<>>
      BY <1>0, <2>3, InHandLemma DEF NoneWhile
    <3>3. MappedWire' = <<>>
      BY <1>0, <3>1, <3>2, ConcatEmptySeq, EmptySeq DEF MappedWire
    <3> QED
      BY <1>0, <3>1, <3>3 DEF Step, Port!PortNext, Port!Flushed
  <2>4. CASE pc[User] = "open_setattr"
    <3>1. MappedStatus = "flushed" /\ MappedStatus' = "open" /\ MappedWire' = MappedWire
      BY <1>0, <2>1, <2>4, WireKept DEF MappedStatus, Closing
    <3> QED
      BY <1>0, <3>1 DEF Step, Port!PortNext, Port!Opened
  <2> QED
    BY <2>1, <2>2, <2>3, <2>4
<1>4. CASE StartRun(t) \/ CreateThread(t) \/ SendLock(t) \/ SendCheck(t) \/ SendWrite(t)
  <2>1. /\ UNCHANGED <<fd, queue>>
        /\ {pc[User], pc'[User]} \subseteq {"idle", "open_run", "open_create", "send_lock",
                                            "send_check", "send_write"}
    BY <1>0, <1>4 DEF StartRun, CreateThread, SendLock, SendCheck, SendWrite
  <2>2. MappedStatus' = MappedStatus
    BY <2>1 DEF MappedStatus, Closing
  <2> QED
    BY <1>1, <2>1, <2>2
<1>5. CASE StopFlag(t) \/ JoinThread(t) \/ JoinReturn(t)
  <2>1. /\ UNCHANGED <<fd, queue>>
        /\ {pc[User], pc'[User]} \subseteq Closing
    BY <1>0, <1>5 DEF StopFlag, JoinThread, JoinReturn, Closing
  <2>2. MappedStatus' = MappedStatus
    BY <2>1 DEF MappedStatus, Closing
  <2> QED
    BY <1>1, <2>1, <2>2
<1>6. CASE DevClose(t)
  <2>1. /\ fd' = fd /\ fd # NoFd /\ pc[User] = "dev_close" /\ pc'[User] = "clear_fd"
        /\ openFds' = openFds \ {fd} /\ openFds = {fd}
        /\ \A r \in Receivers : pc[r] = "none" /\ pc'[r] = "none"
    BY <1>0, <1>6 DEF DevClose, WhereClosed, NoneWhile, OneDescriptor
  <2>2. queue' = <<>>
    BY <1>6, <2>1 DEF DevClose, Held
  <2>3. MappedStatus = "closing" /\ MappedStatus' = "closed"
    BY <2>1 DEF MappedStatus, Closing
  <2>4. MappedWire' = <<>>
    <3>1. InHand = <<>>
      BY <2>1, InHandLemma
    <3> QED
      BY <1>0, <2>2, <3>1, ConcatEmptySeq, EmptySeq DEF MappedWire
  <2> QED
    BY <1>0, <2>3, <2>4 DEF Step, Port!PortNext, Port!Closed
<1>7. CASE ClearFd(t)
  <2>1. MappedStatus = "closed" /\ MappedStatus' = "closed" /\ UNCHANGED queue
    BY <1>0, <1>7 DEF ClearFd, MappedStatus
  <2> QED
    BY <1>1, <2>1
<1> QED
  BY <1>2, <1>3, <1>4, <1>5, <1>6, <1>7 DEF CallStep

\* Two sequences put together and cut apart.
LEMMA ConcatLemma ==
    ASSUME NEW S, NEW s \in Seq(S), NEW q \in Seq(S)
    PROVE  /\ s \o q \in Seq(S) /\ Len(s) \in Nat /\ Len(s) <= Len(s \o q)
           /\ SubSeq(s \o q, 1, Len(s)) = s
           /\ SubSeq(s \o q, Len(s) + 1, Len(s \o q)) = q
           /\ \A i \in 1 .. Len(s \o q) : \/ \E j \in 1 .. Len(s) : (s \o q)[i] = s[j]
                                          \/ \E j \in 1 .. Len(q) : (s \o q)[i] = q[j]
<1> DEFINE u == s \o q
<1>1. /\ u \in Seq(S) /\ Len(u) = Len(s) + Len(q) /\ Len(s) \in Nat /\ Len(q) \in Nat
      /\ \A i \in 1 .. Len(s) + Len(q) : u[i] = IF i <= Len(s) THEN s[i] ELSE q[i - Len(s)]
  BY ConcatProperties, LenProperties
<1> HIDE DEF u
<1>2. Len(s) \in 0 .. Len(u)
  BY <1>1
<1>3. /\ SubSeq(u, 1, Len(s)) \in Seq(S) /\ Len(SubSeq(u, 1, Len(s))) = Len(s)
      /\ \A i \in 1 .. Len(s) : SubSeq(u, 1, Len(s))[i] = u[i]
      /\ SubSeq(u, Len(s) + 1, Len(u)) \in Seq(S)
      /\ Len(SubSeq(u, Len(s) + 1, Len(u))) = Len(u) - Len(s)
      /\ \A i \in 1 .. Len(u) - Len(s) : SubSeq(u, Len(s) + 1, Len(u))[i] = u[Len(s) + i]
  BY <1>1, <1>2, PartsLemma
<1>4. SubSeq(u, 1, Len(s)) = s
  <2>1. \A i \in 1 .. Len(s) : u[i] = s[i]
    BY <1>1
  <2> QED
    BY <1>3, <2>1, SeqEqual
<1>5. SubSeq(u, Len(s) + 1, Len(u)) = q
  <2>1. \A i \in 1 .. Len(q) : u[Len(s) + i] = q[i]
    BY <1>1
  <2> QED
    BY <1>1, <1>3, <2>1, SeqEqual
<1>6. \A i \in 1 .. Len(u) : \/ \E j \in 1 .. Len(s) : u[i] = s[j]
                             \/ \E j \in 1 .. Len(q) : u[i] = q[j]
  <2> SUFFICES ASSUME NEW i \in 1 .. Len(u)
               PROVE  \/ \E j \in 1 .. Len(s) : u[i] = s[j]
                      \/ \E j \in 1 .. Len(q) : u[i] = q[j]
    OBVIOUS
  <2>1. CASE i <= Len(s)
    BY <1>1, <2>1
  <2>2. CASE ~(i <= Len(s))
    <3>1. i - Len(s) \in 1 .. Len(q) /\ u[i] = q[i - Len(s)]
      BY <1>1, <2>2
    <3> QED
      BY <3>1
  <2> QED
    BY <2>1, <2>2
<1>7. u \in Seq(S) /\ Len(s) \in Nat /\ Len(s) <= Len(u)
  BY <1>1
<1> QED
  BY <1>4, <1>5, <1>6, <1>7 DEF u

LEMMA ConcatAppend ==
    ASSUME NEW S, NEW s \in Seq(S), NEW q \in Seq(S), NEW b \in S
    PROVE  s \o Append(q, b) = Append(s \o q, b)
<1>1. <<b>> \in Seq(S)
  OBVIOUS
<1>2. Append(q, b) = q \o <<b>>
  BY AppendIsConcat
<1>3. s \o q \in Seq(S)
  BY ConcatProperties
<1>4. Append(s \o q, b) = (s \o q) \o <<b>>
  BY <1>3, AppendIsConcat
<1> QED
  BY <1>1, <1>2, <1>4, ConcatAssociative

LEMMA RecvTakeMaps ==
    ASSUME UsedAlone, PortInv, NEW r \in Receivers, RecvTake(r)
    PROVE  MappedWire' = MappedWire
<1> DEFINE n == IF hasRead[r] < Len(queue) THEN hasRead[r] ELSE Len(queue)
<1>1. /\ pc[r] = "reading" /\ openFds # {} /\ buf \in [Receivers -> Seq(1 .. MaxByte)]
      /\ hasRead[r] \in Nat /\ queue \in Seq(1 .. MaxByte) /\ Len(queue) \in Nat
  BY LenProperties DEF RecvTake, At, PortInv, TypeOK, SingleInv, OneDescriptor, NoneWhile
<1>2. /\ InHand = <<>> /\ InHand' = HeldIn(buf')
      /\ \A s \in Receivers : s # r => buf[s] = <<>>
  <2>1. buf[r] = <<>>
    BY <1>1 DEF PortInv, OrderInv, BufferInUse
  <2> QED
    BY <1>1, <2>1, InHandLemma
<1>3. n \in 0 .. Len(queue)
  BY <1>1
<1>4. CASE /\ buf' = [buf EXCEPT ![r] = SubSeq(queue, 1, n)]
           /\ queue' = SubSeq(queue, n + 1, Len(queue))
  <2>1. buf'[r] = SubSeq(queue, 1, n) /\ \A s \in Receivers : s # r => buf'[s] = <<>>
    BY <1>1, <1>2, <1>4
  <2>2. InHand' = SubSeq(queue, 1, n)
    BY <1>2, <2>1, HeldLemma
  <2> HIDE DEF n
  <2>3. SubSeq(queue, 1, n) \o SubSeq(queue, n + 1, Len(queue)) = SubSeq(queue, 1, Len(queue))
    <3>1. 1 \in 1 .. Len(queue) + 1 /\ n \in 1 - 1 .. Len(queue) /\ Len(queue) \in n .. Len(queue)
      BY <1>1, <1>3
    <3> QED
      BY <1>1, <3>1, ConcatAdjacentSubSeq
  <2>4. SubSeq(queue, 1, Len(queue)) = queue /\ <<>> \o queue = queue
    BY <1>1, SubSeqFull, ConcatEmptySeq
  <2> QED
    BY <1>2, <1>4, <2>2, <2>3, <2>4 DEF MappedWire
<1>5. CASE UNCHANGED <<queue, buf>>
  BY <1>5, WireKept
<1> HIDE DEF n
<1> QED
  BY <1>1, <1>4, <1>5 DEF RecvTake, n

LEMMA RecvStepMaps ==
    ASSUME UsedAlone, PortInv, NEW r \in Receivers, RecvStep(r)
    PROVE  Step
<1> USE UserLemma
<1>1. pc \in [Threads -> Pcs] /\ pc[r] # "none" /\ fd' = fd /\ pc'[User] = pc[User]
  BY DEF PortInv, TypeOK, RecvStep, RecvCheck, RecvPoll, RecvLock, RecvOpened, RecvRead, RecvTake,
         RecvNotify, RecvUnlock, At, Goto, object
<1>2. MappedStatus' = MappedStatus
  BY <1>1 DEF MappedStatus
<1>3. CASE RecvTake(r)
  BY <1>2, <1>3, RecvTakeMaps DEF RecvTake, Step
<1>4. CASE RecvNotify(r)
  <2>1. /\ delivered' = delivered \o buf[r] /\ buf' = [buf EXCEPT ![r] = <<>>] /\ queue' = queue
        /\ buf \in [Receivers -> Seq(1 .. MaxByte)] /\ delivered \in Seq(1 .. MaxByte)
    BY <1>4 DEF RecvNotify, tty, line, PortInv, TypeOK
  <2>2. /\ InHand = buf[r] /\ InHand' = HeldIn(buf') /\ queue \in Seq(1 .. MaxByte)
        /\ \A s \in Receivers : s # r => buf[s] = <<>>
    BY <1>1, InHandLemma
  <2>3. MappedWire = buf[r] \o queue /\ MappedWire' = queue
    <3>1. \A s \in Receivers : buf'[s] = <<>>
      BY <2>1, <2>2
    <3>2. HeldIn(buf') = <<>>
      BY <3>1, HeldLemma
    <3>3. <<>> \o queue = queue
      BY <2>2, ConcatEmptySeq
    <3> QED
      BY <2>1, <2>2, <3>2, <3>3 DEF MappedWire
  <2>4. CASE buf[r] = <<>>
    <3>1. delivered' = delivered /\ MappedWire = queue
      BY <2>1, <2>2, <2>3, <2>4, ConcatEmptySeq
    <3> QED
      BY <1>2, <2>3, <3>1 DEF Step
  <2>5. CASE buf[r] # <<>>
    <3>1. Len(buf[r]) \in 1 .. Len(MappedWire)
      BY <2>1, <2>2, <2>3, <2>5, ConcatLemma, EmptySeq
    <3>2. /\ SubSeq(MappedWire, 1, Len(buf[r])) = buf[r]
          /\ SubSeq(MappedWire, Len(buf[r]) + 1, Len(MappedWire)) = queue
      BY <2>1, <2>2, <2>3, ConcatLemma
    <3>3. MappedStatus \in {"open", "closing"}
      BY <1>1 DEF MappedStatus, PortInv, SingleInv, NoneWhile
    <3> QED
      BY <1>2, <2>1, <2>3, <3>1, <3>2, <3>3 DEF Step, Port!PortNext, Port!Deliver
  <2> QED
    BY <2>4, <2>5
<1>5. CASE ~RecvTake(r) /\ ~RecvNotify(r)
  <2>1. UNCHANGED <<queue, buf, delivered>>
    BY <1>5 DEF RecvStep, RecvCheck, RecvPoll, RecvLock, RecvOpened, RecvRead, RecvUnlock,
                tty, line, received
  <2> QED
    BY <1>2, <2>1, WireKept DEF Step
<1> QED
  BY <1>3, <1>4, <1>5

LEMMA ArriveMaps ==
    ASSUME UsedAlone, PortInv, Arrive
    PROVE  Step
<1>1. /\ openFds # {} /\ lastByte' = lastByte + 1 /\ lastByte < MaxByte
      /\ UNCHANGED <<fd, pc, buf, delivered>>
      /\ queue' = queue \/ queue' = Append(queue, lastByte')
  BY DEF Arrive, object, received
<1>2. /\ lastByte \in Nat /\ lastByte' \in 1 .. MaxByte /\ delivered \in Seq(1 .. MaxByte)
      /\ buf \in [Receivers -> Seq(1 .. MaxByte)]
  BY <1>1, SizesAssumption DEF PortInv, TypeOK
<1>3. MappedStatus' = MappedStatus /\ MappedStatus # "closed"
  BY <1>1 DEF MappedStatus, PortInv, SingleInv, OneDescriptor, WhereClosed, Closing
<1>4. CASE queue' = queue
  BY <1>1, <1>3, <1>4, WireKept DEF Step
<1>5. CASE queue' = Append(queue, lastByte')
  <2>1. InHand' = InHand /\ InHand \in Seq(1 .. MaxByte) /\ queue \in Seq(1 .. MaxByte)
    BY <1>1, InHandLemma
  <2>2. MappedWire' = Append(MappedWire, lastByte')
    <3>1. InHand \o Append(queue, lastByte') = Append(InHand \o queue, lastByte')
      BY <1>2, <2>1, ConcatAppend
    <3> QED
      BY <1>5, <2>1, <3>1 DEF MappedWire
  <2>3. /\ \A i \in 1 .. Len(InHand) : InHand[i] < lastByte'
        /\ \A i \in 1 .. Len(queue) : queue[i] < lastByte'
        /\ \A i \in 1 .. Len(delivered) : delivered[i] < lastByte'
    <3>1. /\ \A i \in 1 .. Len(queue) : queue[i] <= lastByte
          /\ \A i \in 1 .. Len(delivered) : delivered[i] <= lastByte
          /\ \A r \in Receivers : \A i \in 1 .. Len(buf[r]) : buf[r][i] <= lastByte
      BY DEF PortInv, OrderInv, LineOrder
    <3>2. InHand = <<>> \/ \E r \in Receivers : InHand = buf[r]
      BY InHandLemma
    <3>3. \A i \in 1 .. Len(InHand) : InHand[i] <= lastByte
      BY <3>1, <3>2, EmptySeq
    <3>4. /\ \A i \in 1 .. Len(InHand) : InHand[i] \in Int
          /\ \A i \in 1 .. Len(queue) : queue[i] \in Int
          /\ \A i \in 1 .. Len(delivered) : delivered[i] \in Int
      BY <1>2, <2>1, BytesAreIntegers
    <3> QED
      BY <1>1, <1>2, <3>1, <3>3, <3>4
  <2>4. \A i \in 1 .. Len(MappedWire) : MappedWire[i] < lastByte'
    BY <2>1, <2>3, ConcatLemma DEF MappedWire
  <2> QED
    BY <1>1, <1>2, <1>3, <2>2, <2>3, <2>4 DEF Step, Port!PortNext, Port!ByteArrives
<1> QED
  BY <1>1, <1>4, <1>5

LEMMA OtherMaps ==
    ASSUME UsedAlone, PortInv,
           \/ \E c \in Callers : Release(c) \/ Create(c)
           \/ \E r \in Receivers : UseAfterFree(r)
           \/ Hangup \/ UNCHANGED vars
    PROVE  Step
<1> USE DEF object, config, line, tty, received
<1>1. CASE Hangup
  <2>1. /\ openFds # {} /\ UNCHANGED <<fd, pc, buf, delivered>> /\ queue' = <<>>
    BY <1>1 DEF Hangup
  <2>2. MappedStatus' = MappedStatus /\ MappedStatus # "closed"
    BY <2>1 DEF MappedStatus, PortInv, SingleInv, OneDescriptor, WhereClosed, Closing
  <2>3. InHand' = InHand /\ InHand \in Seq(1 .. MaxByte) /\ queue \in Seq(1 .. MaxByte)
    BY <2>1, InHandLemma
  <2>4. MappedWire' = InHand
    BY <2>1, <2>3, ConcatEmptySeq DEF MappedWire
  <2>5. Len(InHand) \in 0 .. Len(MappedWire) /\ InHand = SubSeq(MappedWire, 1, Len(InHand))
    <3>1. Len(MappedWire) \in Nat
      BY <2>3, ConcatLemma, LenProperties DEF MappedWire
    <3> QED
      BY <2>3, <3>1, ConcatLemma DEF MappedWire
  <2> QED
    BY <2>1, <2>2, <2>4, <2>5 DEF Step, Port!PortNext, Port!DeviceLost
<1>2. CASE ~Hangup
  <2>1. UNCHANGED <<pc, queue, buf, delivered>>
    BY <1>2 DEF Release, Create, UseAfterFree, vars
  <2>2. fd' = fd
    BY <1>2 DEF Release, Create, UseAfterFree, vars, PortInv, SingleInv, WhereClosed
  <2> QED
    BY <2>1, <2>2, WireKept DEF Step, MappedStatus
<1> QED
  BY <1>1, <1>2

\* The port on Linux, used by one thread, is a SerialPort: open, close, the
\* receiver and the tty together show a program the same as the abstract port.
THEOREM ImplementsSerialPort == ASSUME UsedAlone PROVE Spec => IsSerialPort
<1>1. Init => Port!PortInit
  <2> SUFFICES ASSUME Init PROVE Port!PortInit
    OBVIOUS
  <2>1. fd = NoFd /\ queue = <<>> /\ delivered = <<>> /\ \A r \in Receivers : buf[r] = <<>>
    BY DEF Init
  <2>2. InHand = <<>>
    BY <2>1 DEF InHand
  <2> QED
    BY <2>1, <2>2, EmptySeq, ConcatEmptySeq DEF Port!PortInit, MappedStatus, MappedWire
<1>2. PortInv /\ [Next]_vars => [Port!PortNext]_(Port!portVars)
  <2> SUFFICES ASSUME PortInv, [Next]_vars PROVE Step
    BY DEF Step, Port!portVars
  <2> QED
    BY CallingMaps, CallStepMaps, RecvStepMaps, ArriveMaps, OtherMaps DEF Next
<1> QED
  BY <1>1, <1>2, SingleCorrect, PTL DEF Spec, IsSerialPort, Port!PortSpec

-----------------------------------------------------------------------------
(* What close() leaves behind.                                             *)

\* send() is called on an open port only, which keeps its early return with
\* the mutex out of reach: then the mutex is free unless somebody is inside.
SendsOnlyOpen == UsedAlone /\ "send_closed" \notin Allowed

MutexInUse == mutex # NoThread => Holds(mutex)
SendsOpen == fd = NoFd => pc[User] \notin {"send_lock", "send_check", "send_write"}
QuietInv == MutexInUse /\ SendsOpen

\* Threads that do not hold the mutex move on, holders stay inside.
LEMMA MutexKept ==
    ASSUME TypeOK, MutexInUse, mutex' = mutex,
           \A t \in Threads : pc'[t] = pc[t] \/ ~Holds(t) \/ Holds(t)'
    PROVE  MutexInUse'
  BY DEF TypeOK, MutexInUse, Holds

LEMMA CallingQuiet ==
    ASSUME SendsOnlyOpen, PortInv, QuietInv, NEW t \in Threads, Calling(t)
    PROVE  QuietInv'
<1> USE UserLemma DEF SendsOnlyOpen
<1> USE DEF object, config, line, tty, received
<1>1. pc \in [Threads -> Pcs] /\ UNCHANGED <<fd, mutex>> /\ TypeOK /\ MutexInUse
  BY DEF PortInv, TypeOK, QuietInv, Calling, InitPort, SetReadNotify, Open, Close, Send
<1>2. CASE t = User
  <2>1. /\ pc[User] = "idle" /\ \A r \in Receivers : pc'[r] = pc[r]
        /\ pc'[User] \in {"idle", "open_device", "stop"} \/ (pc'[User] = "send_lock" /\ fd # NoFd)
    BY <1>1, <1>2 DEF Calling, InitPort, SetReadNotify, Open, Close, Send, MayCall, At, Return, Goto
  <2>2. \A u \in Threads : pc'[u] = pc[u] \/ ~Holds(u)
    BY <2>1 DEF Holds
  <2> QED
    BY <1>1, <2>1, <2>2, MutexKept DEF QuietInv, SendsOpen
<1>3. CASE t \in Receivers
  <2>1. ~Open(t) /\ ~Close(t)
    BY <1>3 DEF Open, Close, MayCall, UsedAlone
  <2>2. /\ pc[t] = "callback" /\ pc'[t] \in {"callback", "send_lock"}
        /\ \A u \in Threads : u # t => pc'[u] = pc[u]
    BY <1>1, <1>3, <2>1 DEF Calling, InitPort, SetReadNotify, Send, MayCall, At, Return, Goto
  <2>3. \A u \in Threads : pc'[u] = pc[u] \/ Holds(u)'
    BY <1>3, <2>2 DEF Holds
  <2> QED
    BY <1>1, <1>3, <2>2, <2>3, MutexKept DEF QuietInv, SendsOpen
<1> QED
  BY <1>2, <1>3

LEMMA CallStepQuiet ==
    ASSUME SendsOnlyOpen, PortInv, QuietInv, NEW t \in Threads, CallStep(t)
    PROVE  QuietInv'
<1> USE UserLemma DEF SendsOnlyOpen
<1> USE DEF object, config, line, tty, received, At, Goto, Return
<1>1. /\ t = User /\ pc \in [Threads -> Pcs] /\ TypeOK /\ MutexInUse /\ WhereClosed
      /\ mutex \in Threads \cup {NoThread} /\ NoneWhile
  BY OnlyUserSteps DEF PortInv, MutexInv, TypeOK, QuietInv, SingleInv
<1>2. CASE SendLock(t)
  <2>1. mutex' = User /\ pc'[User] = "send_check" /\ fd' = fd /\ pc[User] = "send_lock"
    BY <1>1, <1>2 DEF SendLock
  <2> QED
    BY <2>1 DEF QuietInv, SendsOpen, MutexInUse, Holds
<1>3. CASE SendCheck(t)
  <2>1. /\ fd' = fd /\ fd # NoFd /\ pc'[User] = "send_write" /\ mutex' = mutex
        /\ \A r \in Receivers : pc'[r] = pc[r]
    BY <1>1, <1>3 DEF SendCheck, QuietInv, SendsOpen
  <2>2. \A u \in Threads : pc'[u] = pc[u] \/ Holds(u)'
    BY <2>1 DEF Holds
  <2> QED
    BY <1>1, <2>1, <2>2, MutexKept DEF QuietInv, SendsOpen
<1>4. CASE SendWrite(t)
  BY <1>1, <1>4 DEF SendWrite, QuietInv, SendsOpen, MutexInUse
<1>5. CASE \/ OpenDevice(t) \/ OpenConfig(t) \/ StartRun(t) \/ CreateThread(t) \/ StopFlag(t)
           \/ JoinThread(t) \/ JoinReturn(t) \/ DevClose(t) \/ ClearFd(t)
  <2>1. /\ mutex' = mutex /\ pc[User] \notin {"send_lock", "send_check", "send_write"}
        /\ pc'[User] \notin {"send_lock", "send_check", "send_write"}
    BY <1>1, <1>5, ConfigLemma, ConfigSucceeds DEF OpenDevice, StartRun, CreateThread, StopFlag, JoinThread,
                      JoinReturn, DevClose, ClearFd
  <2>2. \A r \in Receivers : pc'[r] = pc[r] \/ pc[r] \in {"none", "exited"}
    BY <1>1, <1>5, ConfigLemma, ConfigSucceeds DEF OpenDevice, StartRun, CreateThread, StopFlag, JoinThread,
                      JoinReturn, DevClose, ClearFd
  <2>3. \A u \in Threads : pc'[u] = pc[u] \/ ~Holds(u)
    BY <2>1, <2>2 DEF Holds
  <2> QED
    BY <1>1, <2>1, <2>3, MutexKept DEF QuietInv, SendsOpen
<1> QED
  BY <1>2, <1>3, <1>4, <1>5 DEF CallStep

LEMMA RecvStepQuiet ==
    ASSUME SendsOnlyOpen, PortInv, QuietInv, NEW r \in Receivers, RecvStep(r)
    PROVE  QuietInv'
<1> USE UserLemma DEF SendsOnlyOpen
<1> USE DEF object, config, line, tty, received, At, Goto
<1>1. pc \in [Threads -> Pcs] /\ TypeOK /\ MutexInUse /\ SendsOpen
  BY DEF PortInv, TypeOK, QuietInv
<1>2. /\ fd' = fd /\ pc[r] \in ReceiverPcs
      /\ \E l \in ReceiverPcs : pc' = [pc EXCEPT ![r] = l]
  BY DEF RecvStep, RecvCheck, RecvPoll, RecvLock, RecvOpened, RecvRead, RecvTake, RecvNotify,
         RecvUnlock, ReceiverPcs
<1>3. pc'[User] = pc[User] /\ \A u \in Threads : u # r => pc'[u] = pc[u]
  BY <1>1, <1>2
<1>4. SendsOpen'
  BY <1>1, <1>2, <1>3 DEF SendsOpen
<1>5. CASE RecvLock(r)
  <2>1. mutex' = r /\ pc'[r] = "recv_check"
    BY <1>1, <1>5 DEF RecvLock
  <2> QED
    BY <1>4, <2>1 DEF QuietInv, MutexInUse, Holds
<1>6. CASE RecvUnlock(r)
  BY <1>4, <1>6 DEF RecvUnlock, QuietInv, MutexInUse
<1>7. CASE \/ RecvCheck(r) \/ RecvPoll(r) \/ RecvOpened(r) \/ RecvRead(r) \/ RecvTake(r)
           \/ RecvNotify(r)
  <2>1. mutex' = mutex /\ (~Holds(r) \/ Holds(r)')
    BY <1>1, <1>7 DEF RecvCheck, RecvPoll, RecvOpened, RecvRead, RecvTake, RecvNotify, Holds
  <2>2. MutexInUse'
    BY <1>1, <1>3, <2>1, MutexKept
  <2> QED
    BY <1>4, <2>2 DEF QuietInv
<1> QED
  BY <1>5, <1>6, <1>7 DEF RecvStep

LEMMA OtherQuiet ==
    ASSUME SendsOnlyOpen, PortInv, QuietInv,
           \/ \E c \in Callers : Release(c) \/ Create(c)
           \/ \E r \in Receivers : UseAfterFree(r)
           \/ Arrive \/ Hangup \/ UNCHANGED vars
    PROVE  QuietInv'
<1> USE UserLemma DEF SendsOnlyOpen
<1> USE DEF object, config, line, tty, received, QuietInv, MutexInUse, SendsOpen, Holds
<1>1. ASSUME NEW c \in Callers, Create(c) PROVE QuietInv'
  BY <1>1 DEF Create, At
<1>2. CASE \/ \E c \in Callers : Release(c)
           \/ \E r \in Receivers : UseAfterFree(r)
           \/ Arrive \/ Hangup \/ UNCHANGED vars
  BY <1>2 DEF Release, UseAfterFree, Arrive, Hangup, vars
<1> QED
  BY <1>1, <1>2

\* When close() has returned nothing of the port is left, although its
\* receiver may have been anywhere when it was called.
THEOREM CloseLeavesNothing == ASSUME SendsOnlyOpen PROVE Spec => []QuietWhenClosed
<1> USE UserLemma DEF SendsOnlyOpen
<1>1. Init => QuietInv
  BY DEF Init, QuietInv, MutexInUse, SendsOpen
<1>2. PortInv /\ QuietInv /\ [Next]_vars => QuietInv'
  BY CallingQuiet, CallStepQuiet, RecvStepQuiet, OtherQuiet DEF Next
<1>3. PortInv /\ QuietInv => QuietWhenClosed
  <2> SUFFICES ASSUME PortInv, QuietInv, fd = NoFd, pc[User] = "idle"
               PROVE  /\ \A r \in Receivers : pc[r] = "none"
                      /\ openFds = {} /\ mutex = NoThread
    BY DEF QuietWhenClosed
  <2>1. (\A r \in Receivers : pc[r] = "none") /\ openFds = {}
    BY DEF PortInv, SingleInv, NoneWhile, OneDescriptor
  <2>2. \A t \in Threads : ~Holds(t)
    BY <2>1 DEF Holds
  <2> QED
    BY <2>1, <2>2 DEF QuietInv, MutexInUse, PortInv, TypeOK
<1> QED
  BY <1>1, <1>2, <1>3, SingleCorrect, PTL DEF Spec

-----------------------------------------------------------------------------
(* close() joins what open() created, as long as every init() brings a     *)
(* receiver and every thread can be created.                               *)

AlwaysReceives ==
    UsedAlone /\ Allowed \cap {"null_receiver", "thread_fails"} = {} /\ Receivers # {}

\* A thread belongs to every port that is open, but while it is opened or closed.
HasThread ==
    fd # NoFd /\ pc[User] \notin Configuring \cup {"open_run", "open_create", "dev_close", "clear_fd"}
      => threadRecv \in Receivers /\ pc[threadRecv] # "none"

JoinsInv ==
    /\ ~crashed /\ HasThread
    /\ named \/ pc[User] \in Configuring => precv

LEMMA JoinsKept ==
    ASSUME JoinsInv, UNCHANGED <<crashed, named, precv, fd, threadRecv>>, pc'[User] = pc[User],
           \A r \in Receivers : pc[r] # "none" => pc'[r] # "none"
    PROVE  JoinsInv'
  BY DEF JoinsInv, HasThread

LEMMA CallingJoins ==
    ASSUME AlwaysReceives, PortInv, JoinsInv, NEW t \in Threads, Calling(t)
    PROVE  JoinsInv'
<1> USE UserLemma DEF AlwaysReceives
<1> USE DEF object, config, line, tty, received
<1>1. /\ pc \in [Threads -> Pcs] /\ UNCHANGED <<fd, threadRecv, crashed>>
      /\ named' \/ precv => precv'
  BY DEF PortInv, TypeOK, JoinsInv, Calling, InitPort, SetReadNotify, Open, Close, Send
<1>2. CASE t = User
  <2>1. /\ pc[User] = "idle" /\ \A r \in Receivers : pc'[r] = pc[r]
        /\ pc'[User] \in {"idle", "open_device", "stop", "send_lock"}
    BY <1>1, <1>2 DEF Calling, InitPort, SetReadNotify, Open, Close, Send, MayCall, At, Return, Goto
  <2> QED
    BY <1>1, <2>1 DEF JoinsInv, HasThread
<1>3. CASE t \in Receivers
  <2>1. ~Open(t) /\ ~Close(t)
    BY <1>3 DEF Open, Close, MayCall, UsedAlone
  <2>2. /\ pc'[User] = pc[User] /\ pc[t] = "callback"
        /\ \A r \in Receivers : pc[r] # "none" => pc'[r] # "none"
    BY <1>1, <1>3, <2>1 DEF Calling, InitPort, SetReadNotify, Send, MayCall, At, Return, Goto
  <2> QED
    BY <1>1, <2>2 DEF JoinsInv, HasThread
<1> QED
  BY <1>2, <1>3

LEMMA CallStepJoins ==
    ASSUME AlwaysReceives, PortInv, JoinsInv, NEW t \in Threads, CallStep(t)
    PROVE  JoinsInv'
<1> USE UserLemma DEF AlwaysReceives
<1> USE DEF object, config, line, tty, received, At, Goto, Return
<1>1. /\ t = User /\ pc \in [Threads -> Pcs] /\ target \in [Threads -> Receivers \cup {NoThread}]
      /\ WhereClosed /\ NoneWhile /\ JoinsItsOwn
      /\ UNCHANGED <<named, precv>>
  <2>1. t = User /\ TypeOK /\ SingleInv
    BY OnlyUserSteps DEF PortInv, MutexInv
  <2>2. UNCHANGED <<named, precv>>
    BY ConfigLemma DEF CallStep, OpenDevice, StartRun, CreateThread, StopFlag, JoinThread,
           JoinReturn, DevClose, ClearFd, SendLock, SendCheck, SendWrite
  <2> QED
    BY <2>1, <2>2 DEF TypeOK, SingleInv
<1>2. CASE OpenDevice(t)
  <2>1. /\ crashed' = crashed
        /\ (pc'[User] = "open_fcntl" /\ named) \/ (pc'[User] = "idle" /\ fd' = NoFd)
    BY <1>1, <1>2 DEF OpenDevice
  <2> QED
    BY <1>1, <2>1 DEF JoinsInv, HasThread
<1>3. CASE OpenConfig(t)
  <2>1. /\ crashed' = crashed /\ pc[User] \in Configuring
        /\ pc'[User] \in Configuring \/ pc'[User] = IF precv THEN "open_run" ELSE "idle"
    BY <1>1, <1>3, ConfigSucceeds DEF PortInv, SingleInv
  <2>2. pc'[User] \in Configuring \cup {"open_run"}
    BY <2>1 DEF JoinsInv
  <2> QED
    BY <1>1, <2>1, <2>2 DEF JoinsInv, HasThread
<1>4. CASE StartRun(t)
  BY <1>1, <1>4 DEF StartRun, JoinsInv, HasThread
<1>5. CASE CreateThread(t)
  <2>1. \A r \in Receivers : pc[r] = "none"
    BY <1>1, <1>5 DEF CreateThread, NoneWhile
  <2>2. \E r \in Receivers : threadRecv' = r /\ pc' = [pc EXCEPT ![r] = "check", ![t] = Home(t)]
    BY <1>5, <2>1 DEF CreateThread
  <2>3. crashed' = crashed /\ pc'[User] = "idle" /\ threadRecv' \in Receivers /\ pc'[threadRecv'] = "check"
    BY <1>1, <1>5, <2>2 DEF CreateThread
  <2> QED
    BY <1>1, <2>3 DEF JoinsInv, HasThread
<1>6. CASE StopFlag(t)
  <2>1. /\ UNCHANGED <<fd, threadRecv, crashed>> /\ pc[User] = "stop" /\ pc'[User] = "join"
        /\ \A r \in Receivers : pc'[r] = pc[r]
    BY <1>1, <1>6 DEF StopFlag
  <2> QED
    BY <1>1, <2>1 DEF JoinsInv, HasThread
<1>7. CASE JoinThread(t)
  <2>1. pc[User] = "join" /\ fd # NoFd /\ UNCHANGED <<fd, threadRecv>>
    BY <1>1, <1>7 DEF JoinThread, WhereClosed
  <2>2. threadRecv \in Receivers /\ pc[threadRecv] # "none" /\ threadRecv # t /\ threadRecv # NoThread
    BY <1>1, <2>1 DEF JoinsInv, HasThread
  <2>3. \A u \in Threads : target[u] # threadRecv
    BY <1>1, <2>1, <2>2 DEF JoinsItsOwn
  <2>4. pc'[User] = "join_wait" /\ crashed' = crashed /\ \A r \in Receivers : pc'[r] = pc[r]
    BY <1>1, <1>7, <2>2, <2>3 DEF JoinThread
  <2> QED
    BY <1>1, <2>1, <2>2, <2>4 DEF JoinsInv, HasThread
<1>8. CASE JoinReturn(t)
  BY <1>1, <1>8 DEF JoinReturn, JoinsInv, HasThread
<1>9. CASE DevClose(t)
  BY <1>1, <1>9 DEF DevClose, JoinsInv, HasThread
<1>10. CASE ClearFd(t)
  BY <1>1, <1>10 DEF ClearFd, JoinsInv, HasThread
<1>11. CASE SendLock(t) \/ SendCheck(t) \/ SendWrite(t)
  <2>1. /\ UNCHANGED <<fd, threadRecv, crashed>> /\ \A r \in Receivers : pc'[r] = pc[r]
        /\ pc[User] \in {"send_lock", "send_check", "send_write"}
        /\ pc'[User] \in {"idle", "send_check", "send_write"}
    BY <1>1, <1>11 DEF SendLock, SendCheck, SendWrite
  <2> QED
    BY <1>1, <2>1 DEF JoinsInv, HasThread
<1> QED
  BY <1>2, <1>3, <1>4, <1>5, <1>6, <1>7, <1>8, <1>9, <1>10, <1>11 DEF CallStep

LEMMA OtherJoins ==
    ASSUME AlwaysReceives, PortInv, JoinsInv,
           \/ \E c \in Callers : Release(c) \/ Create(c)
           \/ \E r \in Receivers : RecvStep(r) \/ UseAfterFree(r)
           \/ Arrive \/ Hangup \/ UNCHANGED vars
    PROVE  JoinsInv'
<1> USE UserLemma DEF AlwaysReceives
<1> USE DEF object, config, line, tty, received
<1>0. pc \in [Threads -> Pcs]
  BY DEF PortInv, TypeOK
<1>1. ASSUME NEW c \in Callers, Create(c) PROVE JoinsInv'
  BY <1>1 DEF Create, At, JoinsInv, HasThread
<1>2. ASSUME NEW r \in Receivers, RecvStep(r) PROVE JoinsInv'
  <2>1. /\ UNCHANGED <<crashed, named, precv, fd, threadRecv>>
        /\ \E l \in ReceiverPcs \ {"none"} : pc' = [pc EXCEPT ![r] = l]
    BY <1>2 DEF RecvStep, RecvCheck, RecvPoll, RecvLock, RecvOpened, RecvRead, RecvTake, RecvNotify,
         RecvUnlock, At, Goto, ReceiverPcs
  <2>2. pc'[User] = pc[User] /\ \A s \in Receivers : pc[s] # "none" => pc'[s] # "none"
    BY <1>0, <2>1
  <2> QED
    BY <2>1, <2>2, JoinsKept
<1>3. ASSUME NEW r \in Receivers, UseAfterFree(r) PROVE FALSE
  <2>1. fd = NoFd /\ pc[r] # "none"
    BY <1>3 DEF UseAfterFree, Alive, PortInv, SingleInv, WhereClosed
  <2> QED
    BY <2>1 DEF PortInv, SingleInv, NoneWhile
<1>4. CASE (\E c \in Callers : Release(c)) \/ Arrive \/ Hangup \/ UNCHANGED vars
  BY <1>4 DEF Release, Arrive, Hangup, vars, JoinsInv, HasThread
<1> QED
  BY <1>1, <1>2, <1>3, <1>4

\* What open() created runs until close() joins it: no port is open without a
\* receiver, nobody uses memory that was given back.
LEMMA JoinsCorrect == ASSUME AlwaysReceives PROVE Spec => [](PortInv /\ JoinsInv)
<1> USE UserLemma DEF AlwaysReceives
<1>1. Init => JoinsInv
  BY DEF Init, JoinsInv, HasThread
<1>2. PortInv /\ JoinsInv /\ [Next]_vars => JoinsInv'
  BY CallingJoins, CallStepJoins, OtherJoins DEF Next
<1> QED
  BY <1>1, <1>2, SingleCorrect, PTL DEF Spec

\* JoinsCreatedThread: pthread_join in stop_thread_recv is given a thread that
\* open() created and nobody joined, in every close() of a port whose init() had
\* a receiver.
THEOREM CloseJoinsItsThread == ASSUME AlwaysReceives PROVE Spec => []JoinsCreatedThread
<1> USE UserLemma DEF AlwaysReceives
<1>1. PortInv /\ JoinsInv => JoinsCreatedThread
  <2> SUFFICES ASSUME PortInv, JoinsInv, NEW t \in Threads, pc[t] = "join"
               PROVE  threadRecv \in Receivers /\ pc[threadRecv] # "none"
    BY DEF JoinsCreatedThread
  <2>1. t = User
    BY DEF PortInv, SingleInv, Places, ReceiverPcs
  <2>2. fd # NoFd
    BY <2>1 DEF PortInv, SingleInv, WhereClosed
  <2> QED
    BY <2>1, <2>2 DEF JoinsInv, HasThread
<1> QED
  BY <1>1, JoinsCorrect, PTL

=============================================================================
