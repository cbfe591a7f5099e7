------------------------------ MODULE WinPort ------------------------------
(***************************************************************************)
(* serial_port_win_base: one port object, the application threads that     *)
(* call it, the receiver threads open() starts, and what the system and    *)
(* the serial driver do below.                                             *)
(*                                                                         *)
(* A receiver sleeps on one event (hEvent of _over_lapped_monitor) that    *)
(* the driver sets when a WaitCommEvent completes.  close() has no hold on *)
(* the receiver but that event, and waits for it 512 ms at most.           *)
(*                                                                         *)
(* Of the input only its amount matters: read_data never takes any while   *)
(* the port is open.  What the calls return is left out.                   *)
(***************************************************************************)
EXTENDS Integers, FiniteSets

CONSTANTS
    Callers,        \* application threads
    Receivers,      \* the receiver threads the process has room for
    Handles,        \* what CreateFile may return for the port
    NoHandle,       \* INVALID_HANDLE_VALUE in _comm_info._handle
    NoThread,       \* INVALID_HANDLE_VALUE in _thread._handle; "mutex free"
    QueueCap,       \* bound: input the driver holds
    PathCap,        \* bound: prefixes that leave the name within a path
    EventCap,       \* bound: lost events that are told apart
    CallerCalls,    \* the calls the application threads make
    Modes,          \* the modes the application asks for: "async", "sync"
    Allowed         \* the liberties taken by the application and the system

Threads == Callers \cup Receivers

Calls == { "init", "open", "close", "send", "set_read_notify" }

Liberties ==
    { "reopen_early",   \* open() while an earlier receiver still runs
      "slow_threads",   \* 512 ms pass over a receiver that could go on
      "config_fails",   \* SetCommConfig or SetCommMask refuse
      "thread_fails" }  \* _beginthreadex returns 0

ASSUME WinThreadsAssumption ==
    /\ Callers \cap Receivers = {}
    /\ NoThread \notin Threads
ASSUME WinHandlesAssumption == NoHandle \notin Handles
ASSUME WinSizesAssumption ==
    QueueCap \in Nat /\ PathCap \in Nat /\ EventCap \in Nat
ASSUME WinLibertiesAssumption ==
    /\ CallerCalls \subseteq Calls
    /\ Modes \subseteq {"async", "sync"}
    /\ Allowed \subseteq Liberties

VARIABLES
    handle,         \* _comm_info._handle
    threadHandle,   \* _thread._handle
    running,        \* _thread._is_running
    isInit,         \* _is_init
    mode,           \* _spp._op_mode
    precv,          \* _precv_data is set
    minNotify,      \* _min_bytes_read_notify
    prefixes,       \* how often "\\.\" stands before the name in _spp._name
    mutex,          \* _mutex_recv: its owner
    event,          \* the event of _over_lapped_monitor is signalled
    pending,        \* Internal of _over_lapped_monitor is STATUS_PENDING
    writePending,   \* Internal of _over_lapped_write is STATUS_PENDING
    comm,           \* the handle the system knows for the port (exclusive)
    masked,         \* SetCommMask asked for events
    raised,         \* events the driver has seen and not reported
    waiter,         \* the receiver whose WaitCommEvent the driver holds
    inQueue,        \* bytes of input the driver holds
    writing,        \* the threads whose WriteFile the driver holds
    pc,             \* where each thread is
    seen,           \* event_mask of each receiver
    lostEvents,     \* events made for a send that no handle names any more
    crashed         \* the process died

object == <<handle, threadHandle, running, isInit, mode, precv, minNotify,
            prefixes>>
signal == <<event, pending, raised, waiter>>
monitor == <<signal, seen>>
driver == <<comm, masked, inQueue, writing>>
process == <<lostEvents, crashed>>
vars == <<object, mutex, monitor, writePending, driver, pc, process>>

Events == {"rx", "tx"}      \* EV_RXCHAR, EV_TXEMPTY

ReceiverPcs == { "none", "start", "check", "wait", "enter", "blocked",
                 "result", "events", "read_test", "read_lock", "read_file",
                 "tx_result", "exited" }
CallerPcs == { "idle", "create_file", "open_config", "open_run",
               "open_thread", "close_test", "stop_flag", "stop_wait",
               "unmask", "close_handle", "clear_handle", "reset_event",
               "prepare", "send_lock", "send_write", "send_result",
               "sync_lock", "sync_write", "relock", "stuck" }

Alive(r) == r \in Receivers /\ pc[r] \notin {"none", "exited"}

At(t, l) == ~crashed /\ pc[t] = l
Goto(t, l) == pc' = [pc EXCEPT ![t] = l]
Return(c) == Goto(c, "idle")
MayCall(c, op) == At(c, "idle") /\ op \in CallerCalls

\* A receiver that ends, and its event_mask with it.  Its identity is free again
\* once no handle names it.
Ends(r) ==
    /\ Goto(r, IF threadHandle = r THEN "exited" ELSE "none")
    /\ seen' = [seen EXCEPT ![r] = {}]

\* pcs after the event of the monitor is set: whoever sleeps on it wakes,
\* also when the event is reset right afterwards.
Woken(pcs) ==
    [t \in Threads |-> IF pcs[t] = "blocked" THEN "result" ELSE pcs[t]]

\* The driver completes the WaitCommEvent it holds, if any, with mask.
CompleteWait(mask, pcs) ==
    IF waiter = NoThread
    THEN pc' = pcs /\ UNCHANGED <<event, pending, waiter, seen>>
    ELSE /\ event' = TRUE /\ pending' = FALSE /\ waiter' = NoThread
         /\ seen' = [seen EXCEPT ![waiter] = mask]
         /\ pc' = Woken(pcs)

\* The driver sees an event: it is reported to the wait it holds or kept.
Raise(e) ==
    /\ IF masked THEN CompleteWait({e}, pc)
                 ELSE UNCHANGED <<event, pending, waiter, seen, pc>>
    /\ raised' = IF masked /\ waiter = NoThread THEN raised \cup {e} ELSE raised

Init ==
    /\ handle = NoHandle /\ threadHandle = NoThread /\ running = FALSE
    /\ isInit = FALSE /\ mode = "async" /\ precv = FALSE /\ minNotify = 1
    /\ prefixes = 0 /\ lostEvents = 0
    /\ mutex = NoThread
    /\ event = FALSE /\ pending = FALSE /\ writePending = FALSE
    /\ comm = NoHandle /\ masked = FALSE /\ raised = {} /\ waiter = NoThread
    /\ inQueue = 0 /\ writing = {}
    /\ pc = [t \in Threads |-> IF t \in Receivers THEN "none" ELSE "idle"]
    /\ seen = [r \in Receivers |-> {}]
    /\ crashed = FALSE

-----------------------------------------------------------------------------
(* init, set_read_notify *)

InitPort(c) ==
    /\ MayCall(c, "init")
    /\ \/ Return(c) /\ UNCHANGED <<isInit, mode, precv, prefixes>>
       \/ /\ Return(c)
          /\ isInit' = TRUE /\ prefixes' = 0
          /\ mode' \in Modes
          /\ precv' \in {precv, TRUE}
    /\ UNCHANGED <<handle, threadHandle, running, minNotify, mutex, monitor,
                   writePending, driver, process>>

SetReadNotify(c) ==
    /\ MayCall(c, "set_read_notify")
    /\ \E len \in 0 .. QueueCap + 1 : minNotify' = IF len = 0 THEN 1 ELSE len
    /\ UNCHANGED <<handle, threadHandle, running, isInit, mode, precv, prefixes,
                   mutex, monitor, writePending, driver, pc, process>>

-----------------------------------------------------------------------------
(* open *)

\* The name grows by a prefix at every open, also of a port that is open, and
\* only init takes it back.  Past PathCap the model stops counting.
GrowName ==
    prefixes' = IF prefixes <= PathCap THEN prefixes + 1 ELSE prefixes

\* A port that is open is closed: every error but the first goes to close().
Open(c) ==
    /\ MayCall(c, "open")
    /\ \/ "reopen_early" \in Allowed
       \/ handle # NoHandle
       \/ \A r \in Receivers : ~Alive(r)
    /\ \/ ~isInit /\ Return(c) /\ UNCHANGED prefixes
       \/ isInit /\ handle # NoHandle /\ GrowName /\ Goto(c, "close_test")
       \/ isInit /\ handle = NoHandle /\ GrowName /\ Goto(c, "create_file")
    /\ UNCHANGED <<handle, threadHandle, running, isInit, mode, precv, minNotify,
                   mutex, monitor, writePending, driver, process>>

\* CreateFile stores its result in _handle, INVALID_HANDLE_VALUE too.  It may
\* refuse any name, and refuses one that is too long for a path.
CreateFile(c) ==
    /\ At(c, "create_file")
    /\ \/ /\ comm = NoHandle /\ prefixes <= PathCap
          /\ comm' \in Handles
          /\ handle' = comm'
          /\ masked' = FALSE /\ raised' = {} /\ inQueue' = 0
          /\ Goto(c, "open_config")
       \/ /\ handle' = NoHandle
          /\ Goto(c, "close_test")
          /\ UNCHANGED <<comm, masked, raised, inQueue>>
    /\ UNCHANGED <<threadHandle, running, isInit, mode, precv, minNotify,
                   prefixes, mutex, event, pending, waiter, seen, writePending,
                   writing, process>>

\* Mutant: no event is asked for.
OpenConfigUnmasked(c) ==
    /\ At(c, "open_config")
    /\ \/ /\ handle # NoHandle /\ handle = comm
          /\ inQueue' = 0
          /\ Goto(c, IF mode = "async" THEN "open_run" ELSE "idle")
       \/ /\ "config_fails" \in Allowed \/ handle # comm
          /\ Goto(c, "close_test")
          /\ UNCHANGED inQueue
    /\ UNCHANGED <<object, mutex, event, pending, waiter, seen, writePending,
                   comm, writing, masked, raised, process>>

\* SetCommConfig, PurgeComm, SetCommTimeouts and, in asynchronous mode,
\* SetCommMask.
OpenConfig(c) ==
    /\ At(c, "open_config")
    /\ \/ /\ handle # NoHandle /\ handle = comm
          /\ inQueue' = 0
          /\ IF mode = "async"
             THEN masked' = TRUE /\ raised' = {} /\ Goto(c, "open_run")
             ELSE Return(c) /\ UNCHANGED <<masked, raised>>
       \/ /\ "config_fails" \in Allowed \/ handle # comm
          /\ Goto(c, "close_test")
          /\ UNCHANGED <<inQueue, masked, raised>>
    /\ UNCHANGED <<object, mutex, event, pending, waiter, seen, writePending,
                   comm, writing, process>>

\* The flag is set here without the mutex.
StartRun(c) ==
    /\ At(c, "open_run")
    /\ running' = TRUE
    /\ Goto(c, "open_thread")
    /\ UNCHANGED <<handle, threadHandle, isInit, mode, precv, minNotify,
                   prefixes, mutex, monitor, writePending, driver, process>>

\* _beginthreadex fails with 0, which passes for a thread: the calls close()
\* makes with it fail at once, as if _handle held no thread.
StartThread(c) ==
    /\ At(c, "open_thread")
    /\ \/ \E r \in Receivers :
             /\ pc[r] = "none"
             /\ threadHandle' = r
             /\ pc' = [pc EXCEPT ![r] = "start", ![c] = "idle"]
       \/ /\ "thread_fails" \in Allowed \/ \A r \in Receivers : pc[r] # "none"
          /\ threadHandle' = NoThread
          /\ pc' = [pc EXCEPT ![c] = "idle"]
    /\ UNCHANGED <<handle, running, isInit, mode, precv, minNotify,
                   prefixes, mutex, monitor, writePending, driver, process>>

-----------------------------------------------------------------------------
(* close *)

Close(c) ==
    /\ MayCall(c, "close")
    /\ Goto(c, "close_test")
    /\ UNCHANGED <<object, mutex, monitor, writePending, driver, process>>

CloseTest(c) ==
    /\ At(c, "close_test")
    /\ IF handle = NoHandle THEN Return(c) ELSE Goto(c, "stop_flag")
    /\ UNCHANGED <<object, mutex, monitor, writePending, driver, process>>

\* Mutant: the receiver is not told to stop.
StopFlagForgotten(c) ==
    /\ At(c, "stop_flag")
    /\ mutex = NoThread
    /\ Goto(c, IF threadHandle = NoThread THEN "unmask" ELSE "stop_wait")
    /\ UNCHANGED <<object, mutex, monitor, writePending, driver, process>>

\* SetCommMask on the handle of the thread is refused.  The flag is written
\* under the mutex, in a function that is noexcept.
StopFlag(c) ==
    /\ At(c, "stop_flag")
    /\ mutex = NoThread
    /\ running' = FALSE
    /\ Goto(c, IF threadHandle = NoThread THEN "unmask" ELSE "stop_wait")
    /\ UNCHANGED <<handle, threadHandle, isInit, mode, precv, minNotify,
                   prefixes, mutex, monitor, writePending, driver, process>>

\* The 512 ms are over.
TimeIsUp ==
    "slow_threads" \in Allowed \/ \A r \in Receivers : Alive(r) => pc[r] = "blocked"

\* Mutant: the receiver is waited for without a limit.
StopWaitForever(c) ==
    /\ At(c, "stop_wait")
    /\ \A r \in Receivers : threadHandle = r => pc[r] = "exited"
    /\ threadHandle' = NoThread
    /\ pc' = [t \in Threads |->
                IF t = c THEN "unmask"
                ELSE IF t = threadHandle /\ pc[t] = "exited" THEN "none"
                ELSE pc[t]]
    /\ UNCHANGED <<handle, running, isInit, mode, precv, minNotify,
                   prefixes, mutex, monitor, writePending, driver, process>>

\* WaitForSingleObject for 512 ms, then CloseHandle whatever came of it.
StopWait(c) ==
    /\ At(c, "stop_wait")
    /\ \/ \A r \in Receivers : threadHandle = r => pc[r] = "exited"
       \/ TimeIsUp
    /\ threadHandle' = NoThread
    /\ pc' = [t \in Threads |->
                IF t = c THEN "unmask"
                ELSE IF t = threadHandle /\ pc[t] = "exited" THEN "none"
                ELSE pc[t]]
    /\ UNCHANGED <<handle, running, isInit, mode, precv, minNotify,
                   prefixes, mutex, monitor, writePending, driver, process>>

\* SetCommMask(0) completes the wait the driver holds; PurgeComm drops input
\* and completes every write.
Unmask(c) ==
    LET pcs == [pc EXCEPT ![c] = "close_handle"]
    IN  /\ At(c, "unmask")
        /\ \/ /\ handle # NoHandle /\ handle = comm
              /\ CompleteWait({}, pcs)
              /\ masked' = FALSE /\ raised' = {}
              /\ inQueue' = 0 /\ writing' = {}
              /\ writePending' = (writePending /\ writing = {})
           \/ /\ handle # NoHandle /\ handle # comm
              /\ pc' = pcs
              /\ UNCHANGED <<monitor, masked, inQueue, writing, writePending>>
           \/ /\ handle = NoHandle
              /\ pc' = [pc EXCEPT ![c] = "reset_event"]
              /\ UNCHANGED <<monitor, masked, inQueue, writing, writePending>>
        /\ UNCHANGED <<object, mutex, comm, process>>

\* Mutant: the handle is forgotten and not closed.
CloseHandleForgotten(c) ==
    /\ At(c, "close_handle")
    /\ Goto(c, "clear_handle")
    /\ UNCHANGED <<object, mutex, monitor, driver, writePending, process>>

\* The last handle: what the driver still holds is completed.
CloseHandle(c) ==
    LET pcs == [pc EXCEPT ![c] = "clear_handle"]
    IN  /\ At(c, "close_handle")
        /\ IF handle # NoHandle /\ handle = comm
           THEN /\ comm' = NoHandle
                /\ CompleteWait({}, pcs)
                /\ masked' = FALSE /\ raised' = {}
                /\ inQueue' = 0 /\ writing' = {}
                /\ writePending' = (writePending /\ writing = {})
           ELSE /\ pc' = pcs
                /\ UNCHANGED <<monitor, driver, writePending>>
        /\ UNCHANGED <<object, mutex, process>>

ClearHandle(c) ==
    /\ At(c, "clear_handle")
    /\ handle' = NoHandle
    /\ Goto(c, "reset_event")
    /\ UNCHANGED <<threadHandle, running, isInit, mode, precv, minNotify,
                   prefixes, mutex, monitor, writePending, driver, process>>

ResetMonitor(c) ==
    /\ At(c, "reset_event")
    /\ event' = FALSE
    /\ Return(c)
    /\ UNCHANGED <<object, mutex, pending, raised, waiter, seen, writePending,
                   driver, process>>


-----------------------------------------------------------------------------
(* send *)

Send(c) ==
    /\ MayCall(c, "send")
    /\ \/ Return(c)                     \* -1: no data
       \/ handle = NoHandle /\ Return(c)
       \/ /\ handle # NoHandle
          /\ Goto(c, IF mode = "async" THEN "prepare" ELSE "sync_lock")
    /\ UNCHANGED <<object, mutex, monitor, writePending, driver, process>>

\* The OVERLAPPED of the object is reset before the mutex is taken, and gets a
\* new event.  The event of the send before is never closed.
SendPrepare(c) ==
    /\ At(c, "prepare")
    /\ writePending' = FALSE
    /\ lostEvents' = IF lostEvents < EventCap THEN lostEvents + 1 ELSE lostEvents
    /\ Goto(c, "send_lock")
    /\ UNCHANGED <<object, mutex, monitor, driver, crashed>>

\* Mutant: the mutex is taken without waiting for it.
SendLockNot(c) ==
    /\ \/ At(c, "send_lock") /\ Goto(c, "send_write")
       \/ At(c, "sync_lock") /\ Goto(c, "sync_write")
    /\ mutex' = c
    /\ UNCHANGED <<object, monitor, writePending, driver, process>>

SendLock(c) ==
    /\ \/ At(c, "send_lock") /\ Goto(c, "send_write")
       \/ At(c, "sync_lock") /\ Goto(c, "sync_write")
    /\ mutex = NoThread
    /\ mutex' = c
    /\ UNCHANGED <<object, monitor, writePending, driver, process>>

\* WriteFile and unlock(): done at once, held by the driver, or refused,
\* which leaves STATUS_PENDING in the OVERLAPPED.
SendWrite(c) ==
    /\ At(c, "send_write")
    /\ mutex' = NoThread
    /\ \/ /\ handle # NoHandle /\ handle = comm
          /\ Return(c)
          /\ UNCHANGED <<writePending, writing>>
       \/ /\ handle # NoHandle /\ handle = comm
          /\ writing' = writing \cup {c} /\ writePending' = TRUE
          /\ Goto(c, "send_result")
       \/ /\ Return(c)
          /\ writePending' = TRUE
          /\ UNCHANGED writing
    /\ UNCHANGED <<object, monitor, comm, masked, inQueue, process>>

\* GetOverlappedResult waits while the OVERLAPPED says pending.
SendResult(c) ==
    /\ At(c, "send_result")
    /\ ~writePending
    /\ Return(c)
    /\ UNCHANGED <<object, mutex, monitor, writePending, driver, process>>

SyncWrite(c) ==
    /\ At(c, "sync_write")
    /\ Goto(c, "relock")
    /\ UNCHANGED <<object, mutex, monitor, writePending, driver, process>>

\* lock() by the owner of a std::mutex is undefined.  It blocks or throws,
\* which send() catches; the mutex stays locked.
LockOwned(c) ==
    /\ mutex = c
    /\ At(c, "send_lock") \/ At(c, "sync_lock") \/ At(c, "relock")
    /\ Return(c) \/ Goto(c, "stuck")
    /\ UNCHANGED <<object, mutex, monitor, writePending, driver, process>>

\* The same in set_recv_thread_is_running, which lets nothing through.
StopFlagOwned(c) ==
    /\ mutex = c
    /\ At(c, "stop_flag")
    /\ \/ crashed' = TRUE /\ UNCHANGED pc
       \/ Goto(c, "stuck") /\ UNCHANGED crashed
    /\ UNCHANGED <<object, mutex, monitor, writePending, driver, lostEvents>>

-----------------------------------------------------------------------------
(* thread_recv_data_monitor, read_data *)

RecvStart(r) ==
    /\ At(r, "start")
    /\ \/ handle = NoHandle /\ Ends(r)
       \/ /\ handle # NoHandle
          /\ Goto(r, "check")
          /\ seen' = [seen EXCEPT ![r] = {}]
    /\ UNCHANGED <<object, mutex, signal, writePending, driver, process>>

\* The flag is read under the mutex.
RecvCheck(r) ==
    /\ At(r, "check")
    /\ mutex = NoThread
    /\ \/ ~running /\ Ends(r)
       \/ running /\ Goto(r, "wait") /\ UNCHANGED seen
    /\ UNCHANGED <<object, mutex, signal, writePending, driver, process>>

\* WaitCommEvent: refused for a handle that is closed; refused, the event
\* reset, when nothing is masked or another wait is held; answered with what
\* the driver has kept; or held.
RecvWait(r) ==
    LET pcs == [pc EXCEPT ![r] = "enter"]
    IN  /\ At(r, "wait")
        /\ \/ /\ handle = NoHandle \/ handle # comm
              /\ pending' = TRUE
              /\ pc' = pcs
              /\ UNCHANGED <<event, raised, waiter, seen>>
           \/ /\ handle # NoHandle /\ handle = comm
              /\ ~masked \/ waiter # NoThread
              /\ pending' = TRUE /\ event' = FALSE
              /\ pc' = pcs
              /\ UNCHANGED <<raised, waiter, seen>>
           \/ /\ handle # NoHandle /\ handle = comm
              /\ masked /\ waiter = NoThread /\ raised # {}
              /\ pending' = FALSE /\ event' = TRUE
              /\ seen' = [seen EXCEPT ![r] = raised] /\ raised' = {}
              /\ pc' = Woken(pcs)
              /\ UNCHANGED waiter
           \/ /\ handle # NoHandle /\ handle = comm
              /\ masked /\ waiter = NoThread /\ raised = {}
              /\ pending' = TRUE /\ event' = FALSE /\ waiter' = r
              /\ pc' = pcs
              /\ UNCHANGED <<raised, seen>>
        /\ UNCHANGED <<object, mutex, writePending, driver, process>>

\* WaitForSingleObject(hEvent, INFINITE).
RecvEnter(r) ==
    /\ At(r, "enter")
    /\ Goto(r, IF event THEN "result" ELSE "blocked")
    /\ UNCHANGED <<object, mutex, monitor, writePending, driver, process>>

\* GetOverlappedResult without waiting; "incomplete" ends the thread.
RecvResult(r) ==
    /\ At(r, "result")
    /\ \/ pending /\ Ends(r)
       \/ ~pending /\ Goto(r, "events") /\ UNCHANGED seen
    /\ UNCHANGED <<object, mutex, signal, writePending, driver, process>>

\* ClearCommError tells how much input there is; on a handle that is closed
\* it fails and the count is that of before.
RecvEvents(r) ==
    /\ At(r, "events")
    /\ \/ /\ "rx" \in seen[r]
          /\ minNotify <= inQueue \/ handle # comm
          /\ Goto(r, "read_test")
       \/ /\ "rx" \notin seen[r] \/ inQueue < minNotify \/ handle # comm
          /\ Goto(r, "tx_result")
    /\ UNCHANGED <<object, mutex, monitor, writePending, driver, process>>

\* read_data returns at once when the handle is valid.
RecvReadTest(r) ==
    /\ At(r, "read_test")
    /\ Goto(r, IF handle # NoHandle THEN "tx_result" ELSE "read_lock")
    /\ UNCHANGED <<object, mutex, monitor, writePending, driver, process>>

RecvReadLock(r) ==
    /\ At(r, "read_lock")
    /\ mutex = NoThread
    /\ mutex' = r
    /\ Goto(r, "read_file")
    /\ UNCHANGED <<object, monitor, writePending, driver, process>>

\* ReadFile fails, unless the port was opened again meanwhile; then
\* on_recv_data is called, in synchronous mode through a null pointer if
\* there is none.
RecvReadFile(r) ==
    /\ At(r, "read_file")
    /\ mutex' = NoThread
    /\ Goto(r, "tx_result")
    /\ \/ /\ handle = NoHandle \/ handle # comm
          /\ UNCHANGED <<inQueue, crashed>>
       \/ /\ handle # NoHandle /\ handle = comm
          /\ inQueue' \in 0 .. inQueue
          /\ crashed' = (mode = "sync" /\ ~precv)
    /\ UNCHANGED <<object, monitor, writePending, comm, masked, writing,
                   lostEvents>>

\* For EV_TXEMPTY the thread waits for the monitor's OVERLAPPED once more.
RecvTx(r) ==
    /\ At(r, "tx_result")
    /\ "tx" \in seen[r] => ~pending \/ event
    /\ Goto(r, "check")
    /\ UNCHANGED <<object, mutex, monitor, writePending, driver, process>>

-----------------------------------------------------------------------------
(* the driver *)

Arrive ==
    /\ ~crashed /\ comm # NoHandle /\ inQueue < QueueCap
    /\ inQueue' = inQueue + 1
    /\ Raise("rx")
    /\ UNCHANGED <<object, mutex, writePending, comm, masked, writing, process>>

WriteDone(c) ==
    /\ ~crashed /\ c \in writing
    /\ writing' = writing \ {c}
    /\ writePending' = FALSE
    /\ Raise("tx")
    /\ UNCHANGED <<object, mutex, comm, masked, inQueue, process>>

-----------------------------------------------------------------------------

\* A call that begins.
Calling(c) ==
    InitPort(c) \/ SetReadNotify(c) \/ Open(c) \/ Close(c) \/ Send(c)

\* A call in progress.
CallStep(c) ==
    \/ CreateFile(c) \/ OpenConfig(c) \/ StartRun(c) \/ StartThread(c)
    \/ CloseTest(c) \/ StopFlag(c) \/ StopFlagOwned(c) \/ StopWait(c)
    \/ Unmask(c) \/ CloseHandle(c) \/ ClearHandle(c) \/ ResetMonitor(c)
    \/ SendPrepare(c) \/ SendLock(c) \/ SendWrite(c) \/ SendResult(c)
    \/ SyncWrite(c) \/ LockOwned(c)

RecvStep(r) ==
    \/ RecvStart(r) \/ RecvCheck(r) \/ RecvWait(r) \/ RecvEnter(r)
    \/ RecvResult(r) \/ RecvEvents(r) \/ RecvReadTest(r) \/ RecvReadLock(r)
    \/ RecvReadFile(r) \/ RecvTx(r)

Next ==
    \/ \E c \in Callers : Calling(c) \/ CallStep(c) \/ WriteDone(c)
    \/ \E r \in Receivers : RecvStep(r)
    \/ Arrive

Spec == Init /\ [][Next]_vars

\* Every thread that can run does, and the driver completes its writes.  No
\* call has to be made and no input has to come.
Fairness ==
    /\ \A c \in Callers : WF_vars(CallStep(c)) /\ WF_vars(WriteDone(c))
    /\ \A r \in Receivers : WF_vars(RecvStep(r))

FairSpec == Spec /\ Fairness

-----------------------------------------------------------------------------

TypeOK ==
    /\ handle \in Handles \cup {NoHandle}
    /\ threadHandle \in Receivers \cup {NoThread}
    /\ running \in BOOLEAN /\ isInit \in BOOLEAN /\ precv \in BOOLEAN
    /\ mode \in {"async", "sync"}
    /\ minNotify \in 1 .. QueueCap + 1
    /\ prefixes \in 0 .. PathCap + 1 /\ lostEvents \in 0 .. EventCap
    /\ mutex \in Threads \cup {NoThread}
    /\ event \in BOOLEAN /\ pending \in BOOLEAN /\ writePending \in BOOLEAN
    /\ comm \in Handles \cup {NoHandle}
    /\ masked \in BOOLEAN
    /\ raised \in SUBSET Events
    /\ waiter \in Receivers \cup {NoThread}
    /\ inQueue \in 0 .. QueueCap
    /\ writing \in SUBSET Callers
    /\ pc \in [Threads -> CallerPcs \cup ReceiverPcs]
    /\ seen \in [Receivers -> SUBSET Events]
    /\ crashed \in BOOLEAN

\* The threads that are between lock() and unlock().
Holds(t) == pc[t] \in { "send_write", "sync_write", "relock", "read_file" }

\* No two threads are inside the mutex at once: a WriteFile never runs beside
\* another one or beside the ReadFile of a receiver, whoever opens or closes
\* the port meanwhile.
OneInside == \A t, u \in Threads : Holds(t) /\ Holds(u) => t = u

\* Once close() or an open() that failed has returned to a program with one
\* thread, the system holds nothing of the port: no handle, no event that is
\* waited for, no write.  (A receiver may still be on its way out.)
NothingHeldWhenClosed ==
    handle = NoHandle /\ (\A c \in Callers : pc[c] = "idle") =>
        comm = NoHandle /\ waiter = NoThread /\ writing = {}

\* No wake-up is lost: a receiver that sleeps under an open port has its
\* WaitCommEvent with the driver, so that the next event reaches it.
SleeperIsAwaited ==
    \A r \in Receivers : pc[r] = "blocked" /\ handle # NoHandle => waiter = r

\* The receiver that close() tells to stop ends, although close() gives up
\* waiting: SetCommMask(0) wakes it.
ReceiverEnds ==
    \A r \in Receivers :
        (Alive(r) /\ handle = NoHandle) ~> (~Alive(r) \/ handle # NoHandle)

\* close() returns, whatever the receiver does.
CloseReturns ==
    \A c \in Callers : pc[c] = "stop_flag" ~> pc[c] = "idle"

\* Input that reaches the threshold is read by a receiver, which hands it to
\* on_recv_data, or the port is closed or configured anew.
InputIsRead ==
    (handle # NoHandle /\ precv /\ mode = "async" /\ inQueue >= minNotify)
        ~> \/ \E r \in Receivers : pc[r] = "read_file"
           \/ inQueue < minNotify \/ handle = NoHandle

=============================================================================
