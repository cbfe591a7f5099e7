---------------------------- MODULE WinPortProofs ----------------------------
(***************************************************************************)
(* Theorems about WinPort, for every set of callers, receivers and         *)
(* handles, both modes, and every liberty: callers that open and close at  *)
(* the same time, receivers that outlive their port, a mutex that stays    *)
(* locked; and for a port one caller uses, what is left with the driver.   *)
(***************************************************************************)
EXTENDS WinPort, TLAPS

Pcs == CallerPcs \cup ReceiverPcs

\* Whoever is between lock() and unlock() owns the mutex.
HolderOwns == \A t \in Threads : Holds(t) => mutex = t
HeldInv == pc \in [Threads -> Pcs] /\ HolderOwns

USE DEF Pcs, CallerPcs, ReceiverPcs, Threads

LEMMA HeldInit == Init => HeldInv
  BY DEF Init, HeldInv, HolderOwns, Holds

\* A step that leaves the mutex alone and after which nobody is inside who
\* was not.
LEMMA NobodyEnters ==
    ASSUME HeldInv, mutex' = mutex, pc' \in [Threads -> Pcs],
           \A t \in Threads : pc'[t] = pc[t] \/ ~Holds(t)' \/ Holds(t)
    PROVE  HeldInv'
  BY DEF HeldInv, HolderOwns, Holds

\* A thread that goes to a place outside of the mutex.
LEMMA GoesOutside ==
    ASSUME HeldInv, mutex' = mutex, NEW t \in Threads, NEW l \in Pcs, Goto(t, l),
           l \notin {"send_write", "sync_write", "relock", "read_file"}
    PROVE  HeldInv'
<1>1. pc' \in [Threads -> Pcs]
  BY DEF HeldInv, Goto
<1>2. \A u \in Threads : pc'[u] = pc[u] \/ ~Holds(u)'
  BY DEF HeldInv, Goto, Holds
<1> QED
  BY <1>1, <1>2, NobodyEnters

\* Setting the event of the monitor moves receivers that sleep, and the
\* thread that set it may have moved before.
LEMMA WakesOutside ==
    ASSUME HeldInv, mutex' = mutex, NEW t \in Threads, NEW l \in Pcs,
           l \notin {"send_write", "sync_write", "relock", "read_file"},
           NEW pcs, pcs = pc \/ pcs = [pc EXCEPT ![t] = l],
           pc' = pcs \/ pc' = Woken(pcs)
    PROVE  HeldInv'
<1>1. pcs \in [Threads -> Pcs]
  BY DEF HeldInv
<1>2. \A u \in Threads : pcs[u] = pc[u] \/ pcs[u] = l
  BY DEF HeldInv
<1>3. /\ pc' \in [Threads -> Pcs]
      /\ \A u \in Threads : pc'[u] = pcs[u] \/ pc'[u] = "result"
  BY <1>1 DEF Woken
<1>4. \A u \in Threads : pc'[u] = pc[u] \/ ~Holds(u)'
  BY <1>2, <1>3 DEF Holds
<1> QED
  BY <1>3, <1>4, NobodyEnters

LEMMA CallingHeld ==
    ASSUME HeldInv, NEW c \in Callers, Calling(c)
    PROVE  HeldInv'
<1> USE GoesOutside DEF Return
<1>1. CASE InitPort(c)
  BY <1>1 DEF InitPort
<1>2. CASE SetReadNotify(c)
  BY <1>2, NobodyEnters DEF SetReadNotify, HeldInv
<1>3. CASE Open(c)
  BY <1>3 DEF Open
<1>4. CASE Close(c)
  BY <1>4 DEF Close
<1>5. CASE Send(c)
  BY <1>5 DEF Send
<1> QED
  BY <1>1, <1>2, <1>3, <1>4, <1>5 DEF Calling

LEMMA OpenStepHeld ==
    ASSUME HeldInv, NEW c \in Callers,
           CreateFile(c) \/ OpenConfig(c) \/ StartRun(c) \/ StartThread(c)
    PROVE  HeldInv'
<1> USE GoesOutside DEF Return
<1>1. CASE CreateFile(c)
  BY <1>1 DEF CreateFile
<1>2. CASE OpenConfig(c)
  BY <1>2 DEF OpenConfig
<1>3. CASE StartRun(c)
  BY <1>3 DEF StartRun
<1>4. CASE StartThread(c)
  <2>1. mutex' = mutex
    BY <1>4 DEF StartThread
  <2>2. /\ pc' \in [Threads -> Pcs]
        /\ \A u \in Threads : pc'[u] \in {pc[u], "start", "idle"}
    BY <1>4 DEF StartThread, HeldInv
  <2> QED
    BY <2>1, <2>2, NobodyEnters DEF Holds
<1> QED
  BY <1>1, <1>2, <1>3, <1>4

LEMMA CloseStepHeld ==
    ASSUME HeldInv, NEW c \in Callers,
           \/ CloseTest(c) \/ StopFlag(c) \/ StopFlagOwned(c) \/ StopWait(c)
           \/ Unmask(c) \/ CloseHandle(c) \/ ClearHandle(c) \/ ResetMonitor(c)
    PROVE  HeldInv'
<1> USE GoesOutside DEF Return
<1>1. CASE CloseTest(c)
  BY <1>1 DEF CloseTest
<1>2. CASE StopFlag(c)
  BY <1>2 DEF StopFlag
<1>3. CASE StopFlagOwned(c)
  BY <1>3, NobodyEnters DEF StopFlagOwned, HeldInv
<1>4. CASE StopWait(c)
  <2>1. mutex' = mutex
    BY <1>4 DEF StopWait
  <2>2. /\ pc' \in [Threads -> Pcs]
        /\ \A u \in Threads : pc'[u] \in {pc[u], "unmask", "none"}
    BY <1>4 DEF StopWait, HeldInv
  <2> QED
    BY <2>1, <2>2, NobodyEnters DEF Holds
<1>5. CASE Unmask(c)
  <2>1. mutex' = mutex
    BY <1>5 DEF Unmask
  <2>2. \/ Goto(c, "reset_event")
        \/ pc' = [pc EXCEPT ![c] = "close_handle"]
        \/ pc' = Woken([pc EXCEPT ![c] = "close_handle"])
    BY <1>5 DEF Unmask, CompleteWait, Goto
  <2> QED
    BY <2>1, <2>2, WakesOutside
<1>6. CASE CloseHandle(c)
  <2>1. mutex' = mutex
    BY <1>6 DEF CloseHandle
  <2>2. \/ pc' = [pc EXCEPT ![c] = "clear_handle"]
        \/ pc' = Woken([pc EXCEPT ![c] = "clear_handle"])
    BY <1>6 DEF CloseHandle, CompleteWait
  <2> QED
    BY <2>1, <2>2, WakesOutside
<1>7. CASE ClearHandle(c)
  BY <1>7 DEF ClearHandle
<1>8. CASE ResetMonitor(c)
  BY <1>8 DEF ResetMonitor
<1> QED
  BY <1>1, <1>2, <1>3, <1>4, <1>5, <1>6, <1>7, <1>8

LEMMA SendStepHeld ==
    ASSUME HeldInv, NEW c \in Callers,
           \/ SendPrepare(c) \/ SendLock(c) \/ SendWrite(c) \/ SendResult(c)
           \/ SyncWrite(c) \/ LockOwned(c)
    PROVE  HeldInv'
<1> USE GoesOutside DEF Return
<1>1. CASE SendPrepare(c)
  BY <1>1 DEF SendPrepare
<1>2. CASE SendLock(c)
  <2>1. \A u \in Threads : ~Holds(u)
    BY <1>2, WinThreadsAssumption DEF SendLock, HeldInv, HolderOwns
  <2>2. pc' = [pc EXCEPT ![c] = "send_write"] \/ pc' = [pc EXCEPT ![c] = "sync_write"]
    BY <1>2 DEF SendLock, Goto
  <2> QED
    BY <1>2, <2>1, <2>2 DEF SendLock, HeldInv, HolderOwns, Holds
<1>3. CASE SendWrite(c)
  <2>1. \A u \in Threads \ {c} : ~Holds(u)
    BY <1>3 DEF SendWrite, At, HeldInv, HolderOwns, Holds
  <2>2. pc' = [pc EXCEPT ![c] = "idle"] \/ pc' = [pc EXCEPT ![c] = "send_result"]
    BY <1>3 DEF SendWrite, Goto
  <2> QED
    BY <2>1, <2>2 DEF HeldInv, HolderOwns, Holds
<1>4. CASE SendResult(c)
  BY <1>4 DEF SendResult
<1>5. CASE SyncWrite(c)
  <2>1. pc' = [pc EXCEPT ![c] = "relock"] /\ Holds(c) /\ mutex' = mutex
    BY <1>5 DEF SyncWrite, Goto, At, Holds
  <2> QED
    BY <2>1, NobodyEnters DEF HeldInv
<1>6. CASE LockOwned(c)
  BY <1>6 DEF LockOwned
<1> QED
  BY <1>1, <1>2, <1>3, <1>4, <1>5, <1>6

LEMMA RecvStepHeld ==
    ASSUME HeldInv, NEW r \in Receivers, RecvStep(r)
    PROVE  HeldInv'
<1> USE GoesOutside DEF Ends
<1>1. CASE RecvStart(r)
  BY <1>1 DEF RecvStart
<1>2. CASE RecvCheck(r)
  BY <1>2 DEF RecvCheck
<1>3. CASE RecvWait(r)
  <2>1. mutex' = mutex
    BY <1>3 DEF RecvWait
  <2>2. \/ pc' = [pc EXCEPT ![r] = "enter"]
        \/ pc' = Woken([pc EXCEPT ![r] = "enter"])
    BY <1>3 DEF RecvWait
  <2> QED
    BY <2>1, <2>2, WakesOutside
<1>4. CASE RecvEnter(r)
  BY <1>4 DEF RecvEnter
<1>5. CASE RecvResult(r)
  BY <1>5 DEF RecvResult
<1>6. CASE RecvEvents(r)
  BY <1>6 DEF RecvEvents
<1>7. CASE RecvReadTest(r)
  BY <1>7 DEF RecvReadTest
<1>8. CASE RecvReadLock(r)
  <2>1. \A u \in Threads : ~Holds(u)
    BY <1>8, WinThreadsAssumption DEF RecvReadLock, HeldInv, HolderOwns
  <2> QED
    BY <1>8, <2>1 DEF RecvReadLock, Goto, HeldInv, HolderOwns, Holds
<1>9. CASE RecvReadFile(r)
  <2>1. \A u \in Threads \ {r} : ~Holds(u)
    BY <1>9 DEF RecvReadFile, At, HeldInv, HolderOwns, Holds
  <2>2. pc' = [pc EXCEPT ![r] = "tx_result"]
    BY <1>9 DEF RecvReadFile, Goto
  <2> QED
    BY <2>1, <2>2 DEF HeldInv, HolderOwns, Holds
<1>10. CASE RecvTx(r)
  BY <1>10 DEF RecvTx
<1> QED
  BY <1>1, <1>2, <1>3, <1>4, <1>5, <1>6, <1>7, <1>8, <1>9, <1>10 DEF RecvStep

\* The driver reports an event or completes a write.
LEMMA DriverHeld ==
    ASSUME HeldInv, Arrive \/ \E c \in Callers : WriteDone(c)
    PROVE  HeldInv'
<1>1. mutex' = mutex
  BY DEF Arrive, WriteDone
<1>2. pc' = pc \/ pc' = Woken(pc)
  BY DEF Arrive, WriteDone, Raise, CompleteWait
<1>3. /\ pc' \in [Threads -> Pcs]
      /\ \A u \in Threads : pc'[u] \in {pc[u], "result"}
  BY <1>2 DEF HeldInv, Woken
<1> QED
  BY <1>1, <1>3, NobodyEnters DEF Holds

\* No two threads are between lock() and unlock() at once, however many
\* threads open, close and send and however many receivers are left behind:
\* a WriteFile never runs beside another or beside the ReadFile of a receiver.
THEOREM WinMutualExclusion == Spec => []OneInside
<1>1. HeldInv /\ [Next]_vars => HeldInv'
  <2> SUFFICES ASSUME HeldInv, [Next]_vars PROVE HeldInv'
    OBVIOUS
  <2>1. CASE UNCHANGED vars
    BY <2>1 DEF vars, HeldInv, HolderOwns, Holds
  <2>2. CASE Next
    BY <2>2, CallingHeld, OpenStepHeld, CloseStepHeld, SendStepHeld, RecvStepHeld, DriverHeld
       DEF Next, CallStep
  <2> QED
    BY <2>1, <2>2
<1>2. HeldInv => OneInside
  BY DEF HeldInv, HolderOwns, OneInside
<1> QED
  BY <1>1, <1>2, HeldInit, PTL DEF Spec

-----------------------------------------------------------------------------
(* One thread that uses the port.                                          *)

UsedByOne == \E c \in Callers : Callers = {c}
User == CHOOSE c \in Callers : TRUE

\* The handle the system knows is that of the object, but for the moment
\* between CloseHandle and the assignment that follows it.
CommIsHandle == comm = IF pc[User] = "clear_handle" THEN NoHandle ELSE handle
NoneToCreate == pc[User] = "create_file" => handle = NoHandle

\* Without a handle the driver holds no wait and no write, wherever the
\* receivers are that still run.
QuietDriver == comm = NoHandle => waiter = NoThread /\ writing = {}

\* A write that the driver holds is waited for, and not forgotten.
WriteAwaited == \A c \in writing : c = User /\ pc[c] = "send_result" /\ writePending

AloneInv ==
    /\ pc \in [Threads -> Pcs] /\ pc[User] \in CallerPcs
    /\ CommIsHandle /\ NoneToCreate /\ QuietDriver /\ WriteAwaited

LEMMA WinUserLemma ==
    ASSUME UsedByOne
    PROVE  /\ Callers = {User} /\ User \in Threads /\ User \notin Receivers
           /\ \A r \in Receivers : r \in Threads /\ r # User
<1>1. Callers = {User}
  BY DEF UsedByOne, User
<1> QED
  BY <1>1, WinThreadsAssumption

\* A step after which the port and its driver are as before, or hold less.
LEMMA AloneKept ==
    ASSUME UsedByOne, AloneInv, UNCHANGED <<handle, comm>>,
           pc' \in [Threads -> Pcs], pc'[User] \in CallerPcs,
           pc'[User] = pc[User] \/ {pc[User], pc'[User]} \cap {"clear_handle", "create_file"} = {},
           waiter' \in {waiter, NoThread}, writing' \subseteq writing,
           writing' # {} => pc'[User] = pc[User] /\ writePending'
    PROVE  AloneInv'
  BY WinUserLemma DEF AloneInv, CommIsHandle, NoneToCreate, QuietDriver, WriteAwaited

\* A call moves its thread alone, or with it the receivers that wake.
LEMMA MovesUser ==
    ASSUME UsedByOne, AloneInv, NEW l \in CallerPcs, NEW pcs, pcs = [pc EXCEPT ![User] = l],
           pc' = pcs \/ pc' = Woken(pcs)
    PROVE  pc' \in [Threads -> Pcs] /\ pc'[User] = l
  BY WinUserLemma DEF AloneInv, Woken

LEMMA CallingAlone ==
    ASSUME UsedByOne, AloneInv, NEW c \in Callers, Calling(c)
    PROVE  AloneInv'
<1> USE WinUserLemma DEF object, monitor, signal, driver
<1>1. /\ UNCHANGED <<handle, comm, waiter, writing>> /\ c = User /\ pc[User] = "idle"
  BY DEF Calling, InitPort, SetReadNotify, Open, Close, Send, MayCall, At
<1>2. writing = {}
  BY <1>1 DEF AloneInv, WriteAwaited
<1>3. \/ pc' = pc
      \/ \E l \in CallerPcs : pc' = [pc EXCEPT ![User] = l] /\ (l = "create_file" => handle = NoHandle)
                                                          /\ l # "clear_handle"
  BY <1>1 DEF Calling, InitPort, SetReadNotify, Open, Close, Send, Return, Goto
<1>4. CASE pc' = pc
  BY <1>1, <1>2, <1>4, AloneKept DEF AloneInv
<1>5. ASSUME NEW l \in CallerPcs, pc' = [pc EXCEPT ![User] = l], l # "clear_handle",
             l = "create_file" => handle = NoHandle
      PROVE  AloneInv'
  <2>1. pc' \in [Threads -> Pcs] /\ pc'[User] = l
    BY <1>5, MovesUser
  <2> QED
    BY <1>1, <1>2, <1>5, <2>1 DEF AloneInv, CommIsHandle, NoneToCreate, QuietDriver, WriteAwaited
<1> QED
  BY <1>3, <1>4, <1>5

LEMMA OpenStepAlone ==
    ASSUME UsedByOne, AloneInv, NEW c \in Callers,
           CreateFile(c) \/ OpenConfig(c) \/ StartRun(c) \/ StartThread(c)
    PROVE  AloneInv'
<1> USE WinUserLemma DEF object, monitor, signal, driver, At, Goto, Return
<1>1. /\ c = User /\ pc[User] \in {"create_file", "open_config", "open_run", "open_thread"}
      /\ writing = {} /\ writing' = writing /\ waiter' = waiter
  BY DEF CreateFile, OpenConfig, StartRun, StartThread, AloneInv, WriteAwaited
<1>2. CASE CreateFile(c)
  <2>1. PICK l \in {"open_config", "close_test"} : pc' = [pc EXCEPT ![User] = l]
    BY <1>1, <1>2 DEF CreateFile
  <2>2. comm' = handle' /\ (comm' = NoHandle => comm = NoHandle)
    BY <1>1, <1>2, WinHandlesAssumption DEF CreateFile, AloneInv, CommIsHandle, NoneToCreate
  <2>3. pc' \in [Threads -> Pcs] /\ pc'[User] = l
    BY <2>1, MovesUser
  <2> QED
    BY <1>1, <2>2, <2>3 DEF AloneInv, CommIsHandle, NoneToCreate, QuietDriver, WriteAwaited
<1>3. CASE OpenConfig(c) \/ StartRun(c)
  <2>1. /\ UNCHANGED <<handle, comm>>
        /\ \E l \in {"open_run", "idle", "close_test", "open_thread"} : pc' = [pc EXCEPT ![User] = l]
        /\ pc[User] # "create_file"
    BY <1>1, <1>3 DEF OpenConfig, StartRun
  <2>2. PICK l \in {"open_run", "idle", "close_test", "open_thread"} : pc' = [pc EXCEPT ![User] = l]
    BY <2>1
  <2>3. pc' \in [Threads -> Pcs] /\ pc'[User] = l
    BY <2>2, MovesUser
  <2> QED
    BY <1>1, <2>1, <2>3, AloneKept
<1>4. CASE StartThread(c)
  <2>1. /\ UNCHANGED <<handle, comm>> /\ pc[User] = "open_thread"
        /\ pc' \in [Threads -> Pcs] /\ pc'[User] = "idle"
    BY <1>1, <1>4 DEF StartThread, AloneInv
  <2> QED
    BY <1>1, <2>1, AloneKept
<1> QED
  BY <1>2, <1>3, <1>4

LEMMA CloseStepAlone ==
    ASSUME UsedByOne, AloneInv, NEW c \in Callers,
           \/ CloseTest(c) \/ StopFlag(c) \/ StopFlagOwned(c) \/ StopWait(c)
           \/ Unmask(c) \/ CloseHandle(c) \/ ClearHandle(c) \/ ResetMonitor(c)
    PROVE  AloneInv'
<1> USE WinUserLemma DEF object, monitor, signal, driver, At, Goto, Return
<1>1. /\ c = User /\ writing = {} /\ writing' = {}
      /\ pc[User] \in {"close_test", "stop_flag", "stop_wait", "unmask", "close_handle",
                       "clear_handle", "reset_event"}
  BY DEF CloseTest, StopFlag, StopFlagOwned, StopWait, Unmask, CloseHandle, ClearHandle,
         ResetMonitor, AloneInv, WriteAwaited
<1>2. CASE CloseTest(c) \/ StopFlag(c) \/ StopFlagOwned(c) \/ ResetMonitor(c)
  <2>1. /\ UNCHANGED <<handle, comm, waiter>> /\ pc[User] # "clear_handle"
        /\ \/ pc' = pc
           \/ \E l \in {"idle", "stop_flag", "unmask", "stop_wait", "stuck"} : pc' = [pc EXCEPT ![User] = l]
    BY <1>1, <1>2 DEF CloseTest, StopFlag, StopFlagOwned, ResetMonitor
  <2>2. CASE pc' = pc
    BY <1>1, <2>1, <2>2, AloneKept DEF AloneInv
  <2>3. ASSUME NEW l \in {"idle", "stop_flag", "unmask", "stop_wait", "stuck"}, pc' = [pc EXCEPT ![User] = l]
        PROVE  AloneInv'
    <3>1. pc' \in [Threads -> Pcs] /\ pc'[User] = l
      BY <2>3, MovesUser
    <3> QED
      BY <1>1, <2>1, <3>1, AloneKept
  <2> QED
    BY <2>1, <2>2, <2>3
<1>3. CASE StopWait(c)
  <2>1. /\ UNCHANGED <<handle, comm, waiter>> /\ pc[User] = "stop_wait"
        /\ pc' \in [Threads -> Pcs] /\ pc'[User] = "unmask"
    BY <1>1, <1>3 DEF StopWait, AloneInv
  <2> QED
    BY <1>1, <2>1, AloneKept
<1>4. CASE Unmask(c)
  <2>1. /\ UNCHANGED <<handle, comm>> /\ pc[User] = "unmask" /\ waiter' \in {waiter, NoThread}
        /\ \E l \in {"close_handle", "reset_event"} :
              \E pcs : pcs = [pc EXCEPT ![User] = l] /\ (pc' = pcs \/ pc' = Woken(pcs))
    BY <1>1, <1>4 DEF Unmask, CompleteWait
  <2>2. pc' \in [Threads -> Pcs] /\ pc'[User] \in {"close_handle", "reset_event"}
    BY <2>1, MovesUser
  <2> QED
    BY <1>1, <2>1, <2>2, AloneKept
<1>5. CASE CloseHandle(c)
  <2>1. /\ handle' = handle /\ pc[User] = "close_handle"
        /\ \E pcs : pcs = [pc EXCEPT ![User] = "clear_handle"] /\ (pc' = pcs \/ pc' = Woken(pcs))
        /\ comm' = NoHandle /\ waiter' = NoThread
    BY <1>1, <1>5 DEF CloseHandle, CompleteWait, AloneInv, CommIsHandle, QuietDriver
  <2>2. pc' \in [Threads -> Pcs] /\ pc'[User] = "clear_handle"
    BY <2>1, MovesUser
  <2> QED
    BY <1>1, <2>1, <2>2 DEF AloneInv, CommIsHandle, NoneToCreate, QuietDriver, WriteAwaited
<1>6. CASE ClearHandle(c)
  <2>1. /\ handle' = NoHandle /\ comm' = comm /\ waiter' = waiter /\ pc[User] = "clear_handle"
        /\ pc' = [pc EXCEPT ![User] = "reset_event"]
    BY <1>1, <1>6 DEF ClearHandle
  <2>2. pc' \in [Threads -> Pcs] /\ pc'[User] = "reset_event"
    BY <2>1, MovesUser
  <2> QED
    BY <1>1, <2>1, <2>2 DEF AloneInv, CommIsHandle, NoneToCreate, QuietDriver, WriteAwaited
<1> QED
  BY <1>2, <1>3, <1>4, <1>5, <1>6

LEMMA SendStepAlone ==
    ASSUME UsedByOne, AloneInv, NEW c \in Callers,
           \/ SendPrepare(c) \/ SendLock(c) \/ SendWrite(c) \/ SendResult(c)
           \/ SyncWrite(c) \/ LockOwned(c)
    PROVE  AloneInv'
<1> USE WinUserLemma DEF object, monitor, signal, driver, At, Goto, Return
<1>1. /\ c = User /\ UNCHANGED <<handle, comm, waiter>> /\ writing' \in {writing, {User}}
      /\ pc[User] \in {"prepare", "send_lock", "sync_lock", "send_write", "send_result",
                       "sync_write", "relock"}
      /\ \E l \in {"send_lock", "send_write", "sync_write", "idle", "send_result", "relock", "stuck"} :
            pc' = [pc EXCEPT ![User] = l]
  BY DEF SendPrepare, SendLock, SendWrite, SendResult, SyncWrite, LockOwned, AloneInv, WriteAwaited
<1>2. PICK l \in {"send_lock", "send_write", "sync_write", "idle", "send_result", "relock", "stuck"} :
            pc' = [pc EXCEPT ![User] = l]
  BY <1>1
<1>3. pc' \in [Threads -> Pcs] /\ pc'[User] = l
  BY <1>2, MovesUser
<1>4. writing = {}
  BY <1>1 DEF SendPrepare, SendLock, SendWrite, SendResult, SyncWrite, LockOwned, AloneInv, WriteAwaited
<1>5. writing' # {} => comm # NoHandle /\ l = "send_result" /\ writePending'
  BY <1>1, <1>3, <1>4 DEF SendPrepare, SendLock, SendWrite, SendResult, SyncWrite, LockOwned, AloneInv
<1> QED
  BY <1>1, <1>3, <1>4, <1>5 DEF AloneInv, CommIsHandle, NoneToCreate, QuietDriver, WriteAwaited

LEMMA RecvStepAlone ==
    ASSUME UsedByOne, AloneInv, NEW r \in Receivers, RecvStep(r)
    PROVE  AloneInv'
<1> USE WinUserLemma DEF object, monitor, signal, driver, At, Goto
<1>1. UNCHANGED <<handle, comm, writing, writePending>> /\ pc[r] \in ReceiverPcs
  BY DEF RecvStep, RecvStart, RecvCheck, RecvWait, RecvEnter, RecvResult, RecvEvents, RecvReadTest,
         RecvReadLock, RecvReadFile, RecvTx
<1>2. \E l \in ReceiverPcs : \E pcs : pcs = [pc EXCEPT ![r] = l] /\ (pc' = pcs \/ pc' = Woken(pcs))
  BY DEF RecvStep, RecvStart, RecvCheck, RecvWait, RecvEnter, RecvResult, RecvEvents, RecvReadTest,
         RecvReadLock, RecvReadFile, RecvTx, Ends
<1>3. pc' \in [Threads -> Pcs] /\ pc'[User] = pc[User]
  BY <1>2 DEF AloneInv, Woken
<1>4. waiter' \in {waiter, NoThread} \/ comm # NoHandle
  BY DEF RecvStep, RecvStart, RecvCheck, RecvWait, RecvEnter, RecvResult, RecvEvents, RecvReadTest,
         RecvReadLock, RecvReadFile, RecvTx
<1> QED
  BY <1>1, <1>3, <1>4 DEF AloneInv, CommIsHandle, NoneToCreate, QuietDriver, WriteAwaited

LEMMA DriverAlone ==
    ASSUME UsedByOne, AloneInv, Arrive \/ \E c \in Callers : WriteDone(c)
    PROVE  AloneInv'
<1> USE WinUserLemma DEF object
<1>1. /\ UNCHANGED <<handle, comm>> /\ waiter' \in {waiter, NoThread}
      /\ writing' \subseteq writing /\ (writing' # {} => writePending' = writePending)
  BY DEF Arrive, WriteDone, Raise, CompleteWait, AloneInv, WriteAwaited
<1>2. pc' = pc \/ pc' = Woken(pc)
  BY DEF Arrive, WriteDone, Raise, CompleteWait
<1>3. pc' \in [Threads -> Pcs] /\ pc'[User] = pc[User]
  BY <1>2 DEF AloneInv, Woken
<1> QED
  BY <1>1, <1>3, AloneKept DEF AloneInv, WriteAwaited

\* One thread, any number of receivers: what the object and the driver know of
\* the port agrees, and nothing is left with a driver whose port is closed.
THEOREM WinAloneCorrect == ASSUME UsedByOne PROVE Spec => []AloneInv
<1> USE WinUserLemma
<1>1. Init => AloneInv
  BY DEF Init, AloneInv, CommIsHandle, NoneToCreate, QuietDriver, WriteAwaited
<1>2. AloneInv /\ [Next]_vars => AloneInv'
  <2> SUFFICES ASSUME AloneInv, [Next]_vars PROVE AloneInv'
    OBVIOUS
  <2>1. CASE UNCHANGED vars
    BY <2>1 DEF vars, object, monitor, signal, driver, AloneInv, CommIsHandle, NoneToCreate, QuietDriver,
                WriteAwaited
  <2>2. CASE Next
    BY <2>2, CallingAlone, OpenStepAlone, CloseStepAlone, SendStepAlone, RecvStepAlone, DriverAlone
       DEF Next, CallStep
  <2> QED
    BY <2>1, <2>2
<1> QED
  BY <1>1, <1>2, PTL DEF Spec

\* When close(), or an open() that failed, has returned, the driver has no
\* handle, no wait and no write of the port, although a receiver may still be
\* anywhere between its checks.
THEOREM NothingLeftWithDriver == ASSUME UsedByOne PROVE Spec => []NothingHeldWhenClosed
<1>1. AloneInv => NothingHeldWhenClosed
  BY WinUserLemma DEF AloneInv, CommIsHandle, QuietDriver, NothingHeldWhenClosed
<1> QED
  BY <1>1, WinAloneCorrect, PTL

=============================================================================
