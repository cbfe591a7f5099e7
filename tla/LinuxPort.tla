----------------------------- MODULE LinuxPort -----------------------------
(***************************************************************************)
(* serial_port_linux_base: one port object, the application threads that   *)
(* call it, the receiver threads open() creates, and the tty below it.     *)
(*                                                                         *)
(* A thread is either a caller (an application thread) or a receiver (it   *)
(* runs thread_recv_data_monitor; while it runs the application's          *)
(* on_recv_data it may call the object too).  pc[t] is where a thread      *)
(* stands between two accesses to shared state.                            *)
(***************************************************************************)
EXTENDS Integers, Sequences, FiniteSets

CONSTANTS
    Callers,        \* application threads
    Receivers,      \* the receiver threads the process has room for
    Fds,            \* the file descriptors ::open may return
    NoFd,           \* invalid_value in _fd
    NoThread,       \* invalid_value in _thread_recv; also "mutex is free"
    BufLen,         \* len_buf_1024, scaled down
    QueueCap,       \* what the tty queues before it drops input
    MaxByte,        \* bound: the line carries the bytes 1 .. MaxByte
    CallerCalls,    \* the calls the application threads make
    CallbackCalls,  \* the calls on_recv_data makes back into the port
    Allowed         \* the liberties taken by the application and the system

Threads == Callers \cup Receivers

Liberties ==
    { "null_receiver",  \* init() without an irecv_data
      "send_closed",    \* send() on a port that is not open
      "release_open",   \* sp_release() without a close() before it
      "config_fails",   \* fcntl, tcgetattr or tcsetattr refuse after ::open
      "thread_fails",   \* pthread_create fails
      "hangup" }        \* the device goes away

Calls == { "init", "open", "close", "send", "set_read_notify" }

ASSUME ThreadsAssumption ==
    /\ Callers \cap Receivers = {}
    /\ NoThread \notin Threads
ASSUME FdsAssumption == NoFd \notin Fds
ASSUME SizesAssumption ==
    /\ BufLen \in Nat \ {0}
    /\ QueueCap \in Nat \ {0}
    /\ MaxByte \in Nat
ASSUME LibertiesAssumption ==
    /\ Allowed \subseteq Liberties
    /\ CallerCalls \subseteq Calls /\ CallbackCalls \subseteq Calls

VARIABLES
    fd,          \* _fd
    running,     \* _thread_recv_is_running
    threadRecv,  \* _thread_recv
    precv,       \* _precv_data is set
    minNotify,   \* _min_byte_read_notify
    named,       \* _spp holds the properties of a port
    freed,       \* sp_release gave the memory of the object back
    mutex,       \* _mutex_recv: its owner
    openFds,     \* descriptors of the tty that are open in the kernel
    queue,       \* input the tty holds
    hung,        \* the tty was hung up
    lastByte,    \* last byte the line carried
    pc,          \* where each thread is
    ret,         \* ret_val of each thread's current or last call
    target,      \* the thread a pthread_join waits for
    hasRead,     \* has_read_bytes of each receiver
    buf,         \* buf_read of each receiver, what ::read filled
    delivered,   \* history: bytes given to on_recv_data
    crashed      \* the process died

config == <<precv, minNotify, named>>
line == <<queue, hung, lastByte>>
object == <<fd, running, threadRecv, config, freed>>
tty == <<openFds, line>>
received == <<hasRead, buf, delivered>>
vars == <<object, mutex, tty, pc, ret, target, received, crashed>>

ReceiverPcs == { "none", "check", "poll", "recv_lock", "recv_check",
                 "recv_read", "reading", "got", "callback", "recv_unlock",
                 "exited" }
\* Where an open() stands that configures the device it opened.
Configuring == { "open_fcntl", "open_getattr", "open_flush", "open_setattr" }
CallPcs == { "open_device" } \cup Configuring \cup
           { "open_run", "open_create",
             "stop", "join", "join_wait", "dev_close", "clear_fd",
             "send_lock", "send_check", "send_write" }
Pcs == {"idle"} \cup CallPcs \cup ReceiverPcs

\* 0, or a count of bytes, against every negative result and every errno.
Outcomes == { "ok", "error" }

\* The receivers that are inside thread_recv_data_monitor.
Alive(r) == r \in Receivers /\ pc[r] \notin {"none", "exited"}

At(t, l) == ~crashed /\ pc[t] = l
Goto(t, l) == pc' = [pc EXCEPT ![t] = l] /\ UNCHANGED ret

\* Where a thread is when it is in no call.
Home(t) == IF t \in Receivers THEN "callback" ELSE "idle"

MayCall(t, op) ==
    /\ At(t, Home(t)) /\ ~freed
    /\ op \in (IF t \in Receivers THEN CallbackCalls ELSE CallerCalls)

Return(t, v) ==
    /\ pc' = [pc EXCEPT ![t] = Home(t)]
    /\ ret' = [ret EXCEPT ![t] = v]

\* The tty is released when its last descriptor is closed and no ::read is
\* blocked in it.
Held == openFds # {} \/ \E r \in Receivers : pc[r] = "reading"

Init ==
    /\ fd = NoFd /\ running = FALSE /\ threadRecv = NoThread
    /\ precv = FALSE /\ minNotify = 1 /\ named = FALSE /\ freed = FALSE
    /\ mutex = NoThread
    /\ openFds = {} /\ queue = <<>> /\ hung = FALSE /\ lastByte = 0
    /\ pc = [t \in Threads |-> IF t \in Receivers THEN "none" ELSE "idle"]
    /\ ret = [t \in Threads |-> "ok"]
    /\ target = [t \in Threads |-> NoThread]
    /\ hasRead = [r \in Receivers |-> 0]
    /\ buf = [r \in Receivers |-> <<>>]
    /\ delivered = <<>>
    /\ crashed = FALSE

-----------------------------------------------------------------------------
(* init, set_read_notify *)

InitPort(t) ==
    /\ MayCall(t, "init")
    /\ \/ /\ Return(t, "error")                  \* is_right refused it
          /\ UNCHANGED <<named, precv>>
       \/ /\ Return(t, "ok")
          /\ named' = TRUE
          /\ \/ precv' = TRUE
             \/ "null_receiver" \in Allowed /\ UNCHANGED precv
    /\ UNCHANGED <<fd, running, threadRecv, minNotify, freed, mutex, tty,
                   target, received, crashed>>

SetReadNotify(t) ==
    /\ MayCall(t, "set_read_notify")
    /\ \E len \in 0 .. BufLen + 1 :
          minNotify' = IF BufLen < len THEN BufLen ELSE len
    /\ UNCHANGED <<fd, running, threadRecv, precv, named, freed, mutex, tty,
                   pc, ret, target, received, crashed>>

-----------------------------------------------------------------------------
(* open *)

Open(t) ==
    /\ MayCall(t, "open")
    /\ IF fd # NoFd
       THEN Return(t, "error")
       ELSE pc' = [pc EXCEPT ![t] = "open_device"]
            /\ ret' = [ret EXCEPT ![t] = "ok"]
    /\ UNCHANGED <<object, mutex, tty, target, received, crashed>>

\* ::open stores its result in _fd, -1 too.  A device that was hung up can
\* be opened again once it is back and nothing holds the dead one.
OpenDevice(t) ==
    /\ At(t, "open_device")
    /\ \/ /\ named /\ (hung => ~Held)
          /\ \E f \in Fds \ openFds : fd' = f /\ openFds' = openFds \cup {f}
          /\ hung' = FALSE
          /\ Goto(t, "open_fcntl")
       \/ /\ fd' = NoFd
          /\ Return(t, "error")
          /\ UNCHANGED <<openFds, hung>>
    /\ UNCHANGED <<running, threadRecv, config, freed, mutex, queue, lastByte,
                   target, received, crashed>>

\* The descriptor open() configures is open, of a device that is there.
Reachable == fd \in openFds /\ ~hung

\* What fails in a configuration ends in close(), before open() returns the
\* error.
Refused(t) ==
    IF fd = NoFd
    THEN Return(t, "error")
    ELSE pc' = [pc EXCEPT ![t] = "stop"] /\ ret' = [ret EXCEPT ![t] = "error"]

\* fcntl makes the descriptor blocking.
OpenFcntl(t) ==
    /\ At(t, "open_fcntl")
    /\ \/ fd \in openFds /\ Goto(t, "open_getattr")
       \/ (fd \notin openFds \/ "config_fails" \in Allowed) /\ Refused(t)
    /\ UNCHANGED <<object, mutex, tty, target, received, crashed>>

\* set_port_params: tcgetattr.
OpenGetAttr(t) ==
    /\ At(t, "open_getattr")
    /\ \/ Reachable /\ Goto(t, "open_flush")
       \/ (~Reachable \/ "config_fails" \in Allowed) /\ Refused(t)
    /\ UNCHANGED <<object, mutex, tty, target, received, crashed>>

\* Mutant: the input queue is not flushed.
OpenFlushNot(t) ==
    /\ At(t, "open_flush")
    /\ Goto(t, "open_setattr")
    /\ UNCHANGED <<object, mutex, tty, target, received, crashed>>

\* tcflush, whose result is ignored, empties the input queue.
OpenFlush(t) ==
    /\ At(t, "open_flush")
    /\ queue' = IF Reachable THEN <<>> ELSE queue
    /\ Goto(t, "open_setattr")
    /\ UNCHANGED <<object, mutex, openFds, hung, lastByte, target, received,
                   crashed>>

\* tcsetattr leaves the input alone that arrived after the flush.
OpenSetAttr(t) ==
    /\ At(t, "open_setattr")
    /\ \/ /\ Reachable
          /\ IF precv THEN Goto(t, "open_run") ELSE Return(t, "ok")
       \/ (~Reachable \/ "config_fails" \in Allowed) /\ Refused(t)
    /\ UNCHANGED <<object, mutex, tty, target, received, crashed>>

OpenConfig(t) ==
    OpenFcntl(t) \/ OpenGetAttr(t) \/ OpenFlush(t) \/ OpenSetAttr(t)

StartRun(t) ==
    /\ At(t, "open_run")
    /\ running' = TRUE
    /\ Goto(t, "open_create")
    /\ UNCHANGED <<fd, threadRecv, config, freed, mutex, tty, target, received,
                   crashed>>

\* start_thread_recv takes only a negative result of pthread_create for a
\* failure, and there is none: open() returns 0 either way.  A pthread_create
\* that fails leaves _thread_recv as it was or without a meaning.
CreateThread(t) ==
    /\ At(t, "open_create")
    /\ \/ \E r \in Receivers :
             /\ pc[r] = "none"
             /\ threadRecv' = r
             /\ pc' = [pc EXCEPT ![r] = "check", ![t] = Home(t)]
       \/ /\ \/ "thread_fails" \in Allowed
             \/ \A r \in Receivers : pc[r] # "none"
          /\ threadRecv' \in {threadRecv, NoThread}
          /\ pc' = [pc EXCEPT ![t] = Home(t)]
    /\ ret' = [ret EXCEPT ![t] = "ok"]
    /\ UNCHANGED <<fd, running, config, freed, mutex, tty, target, received,
                   crashed>>

-----------------------------------------------------------------------------
(* close *)

\* Mutant: close() does not look whether the port is open.
CloseAlways(t) ==
    /\ MayCall(t, "close")
    /\ pc' = [pc EXCEPT ![t] = "stop"]
    /\ ret' = [ret EXCEPT ![t] = "ok"]
    /\ UNCHANGED <<object, mutex, tty, target, received, crashed>>

Close(t) ==
    /\ MayCall(t, "close")
    /\ IF fd = NoFd
       THEN Return(t, "error")
       ELSE pc' = [pc EXCEPT ![t] = "stop"]
            /\ ret' = [ret EXCEPT ![t] = "ok"]
    /\ UNCHANGED <<object, mutex, tty, target, received, crashed>>

StopFlag(t) ==
    /\ At(t, "stop")
    /\ running' = FALSE
    /\ Goto(t, "join")
    /\ UNCHANGED <<fd, threadRecv, config, freed, mutex, tty, target, received,
                   crashed>>

\* Mutant: the receiver is told to stop and not waited for.
JoinThreadNot(t) ==
    /\ At(t, "join")
    /\ Goto(t, "dev_close")
    /\ UNCHANGED <<object, mutex, tty, target, received, crashed>>

\* pthread_join of a thread that was never created dereferences -1; of one
\* that was joined before, it reads memory that was given back and may get
\* away with it.  Joining oneself, or a thread another thread joins, is
\* refused with an error nobody looks at.
JoinThread(t) ==
    LET joined == threadRecv \in Receivers /\ pc[threadRecv] = "none"
        refused == threadRecv = t \/ \E u \in Threads : target[u] = threadRecv
    IN  /\ At(t, "join")
        /\ \/ /\ threadRecv = NoThread \/ joined
              /\ crashed' = TRUE
              /\ UNCHANGED <<pc, ret, target>>
           \/ /\ threadRecv # NoThread
              /\ joined \/ refused
              /\ Goto(t, "dev_close")
              /\ UNCHANGED <<target, crashed>>
           \/ /\ threadRecv # NoThread
              /\ ~joined /\ ~refused
              /\ Goto(t, "join_wait")
              /\ target' = [target EXCEPT ![t] = threadRecv]
              /\ UNCHANGED crashed
        /\ UNCHANGED <<object, mutex, tty, received>>

JoinReturn(t) ==
    /\ At(t, "join_wait")
    /\ \E r \in Receivers :
          /\ target[t] = r /\ pc[r] = "exited"
          /\ pc' = [pc EXCEPT ![r] = "none", ![t] = "dev_close"]
    /\ target' = [target EXCEPT ![t] = NoThread]
    /\ UNCHANGED <<object, mutex, tty, ret, received, crashed>>

\* _thread_recv = invalid_value, then ::close(_fd) with the _fd of now.
DevClose(t) ==
    /\ At(t, "dev_close")
    /\ Goto(t, "clear_fd")
    /\ threadRecv' = NoThread
    /\ openFds' = openFds \ {fd}
    /\ queue' = IF Held' THEN queue ELSE <<>>
    /\ UNCHANGED <<fd, running, config, freed, mutex, hung, lastByte, target,
                   received, crashed>>

ClearFd(t) ==
    /\ At(t, "clear_fd")
    /\ fd' = NoFd
    /\ Return(t, ret[t])
    /\ UNCHANGED <<running, threadRecv, config, freed, mutex, tty, target,
                   received, crashed>>

-----------------------------------------------------------------------------
(* send *)

Send(t) ==
    /\ MayCall(t, "send")
    /\ \/ Return(t, "error")                     \* -1: no data
       \/ /\ fd # NoFd \/ "send_closed" \in Allowed
          /\ Goto(t, "send_lock")
    /\ UNCHANGED <<object, mutex, tty, target, received, crashed>>

SendLock(t) ==
    /\ At(t, "send_lock")
    /\ mutex = NoThread
    /\ mutex' = t
    /\ Goto(t, "send_check")
    /\ UNCHANGED <<object, tty, target, received, crashed>>

\* Mutant: the mutex is given back before the write.
SendCheckUnlocks(t) ==
    /\ At(t, "send_check")
    /\ IF fd = NoFd THEN Return(t, "error") ELSE Goto(t, "send_write")
    /\ mutex' = NoThread
    /\ UNCHANGED <<object, tty, target, received, crashed>>

\* The early return of -2 keeps the mutex.
SendCheck(t) ==
    /\ At(t, "send_check")
    /\ IF fd = NoFd THEN Return(t, "error") ELSE Goto(t, "send_write")
    /\ UNCHANGED <<object, mutex, tty, target, received, crashed>>

\* Mutant: a write that fails returns without unlock().
SendWriteKeeps(t) ==
    /\ At(t, "send_write")
    /\ \/ fd \in openFds /\ ~hung /\ Return(t, "ok") /\ mutex' = NoThread
       \/ (fd \notin openFds \/ hung) /\ Return(t, "error") /\ UNCHANGED mutex
    /\ UNCHANGED <<object, tty, target, received, crashed>>

SendWrite(t) ==
    /\ At(t, "send_write")
    /\ \/ fd \in openFds /\ ~hung /\ Return(t, "ok")
       \/ (fd \notin openFds \/ hung) /\ Return(t, "error")
    /\ mutex' = NoThread
    /\ UNCHANGED <<object, tty, target, received, crashed>>

-----------------------------------------------------------------------------
(* sp_create, sp_release *)

\* delete through iserial_port, which has no virtual destructor: the
\* destructor that would close the port does not run.
Release(t) ==
    /\ t \in Callers
    /\ \A u \in Callers : At(u, "idle")
    /\ ~freed
    /\ fd = NoFd \/ "release_open" \in Allowed
    /\ freed' = TRUE
    /\ UNCHANGED <<fd, running, threadRecv, config, mutex, tty, pc, ret,
                   target, received, crashed>>

\* A new object, once nothing uses the memory of the old one.
Create(t) ==
    /\ t \in Callers
    /\ At(t, "idle") /\ freed
    /\ \A r \in Receivers : ~Alive(r)
    /\ fd' = NoFd /\ running' = FALSE /\ threadRecv' = NoThread
    /\ precv' = FALSE /\ minNotify' = 1 /\ named' = FALSE /\ freed' = FALSE
    /\ mutex' = NoThread
    /\ UNCHANGED <<tty, pc, ret, target, received, crashed>>

\* A receiver that outlives the object reads memory that was given back: it
\* finds what was there (its other actions) or dies.
UseAfterFree(r) ==
    /\ freed /\ ~crashed /\ Alive(r)
    /\ crashed' = TRUE
    /\ UNCHANGED <<object, mutex, tty, pc, ret, target, received>>

-----------------------------------------------------------------------------
(* thread_recv_data_monitor *)

RecvCheck(r) ==
    /\ At(r, "check")
    /\ \/ running /\ Goto(r, "poll") /\ UNCHANGED hasRead
       \/ ~running /\ Goto(r, "exited") /\ hasRead' = [hasRead EXCEPT ![r] = 0]
    /\ UNCHANGED <<object, mutex, tty, target, buf, delivered, crashed>>

\* Mutant: any number of bytes goes on to ::read.
RecvPollUnbounded(r) ==
    LET n == IF fd \in openFds /\ ~hung THEN Len(queue) ELSE hasRead[r]
    IN  /\ At(r, "poll")
        /\ hasRead' = [hasRead EXCEPT ![r] = n]
        /\ Goto(r, IF n < minNotify THEN "check" ELSE "recv_lock")
        /\ UNCHANGED <<object, mutex, tty, target, buf, delivered, crashed>>

\* Mutant: the threshold has to be passed, not reached.
RecvPollStrict(r) ==
    LET n == IF fd \in openFds /\ ~hung THEN Len(queue) ELSE hasRead[r]
    IN  /\ At(r, "poll")
        /\ hasRead' = [hasRead EXCEPT ![r] = n]
        /\ Goto(r, IF BufLen < n \/ n <= minNotify THEN "check"
                                                   ELSE "recv_lock")
        /\ UNCHANGED <<object, mutex, tty, target, buf, delivered, crashed>>

\* ioctl(FIONREAD), whose failure leaves has_read_bytes as it was.
RecvPoll(r) ==
    LET n == IF fd \in openFds /\ ~hung THEN Len(queue) ELSE hasRead[r]
    IN  /\ At(r, "poll")
        /\ hasRead' = [hasRead EXCEPT ![r] = n]
        /\ Goto(r, IF BufLen < n \/ n < minNotify THEN "check"
                                                  ELSE "recv_lock")
        /\ UNCHANGED <<object, mutex, tty, target, buf, delivered, crashed>>

\* Mutant: the receiver does not wait for the mutex.
RecvLockNot(r) ==
    /\ At(r, "recv_lock")
    /\ mutex' = r
    /\ Goto(r, "recv_check")
    /\ UNCHANGED <<object, tty, target, received, crashed>>

RecvLock(r) ==
    /\ At(r, "recv_lock")
    /\ mutex = NoThread
    /\ mutex' = r
    /\ Goto(r, "recv_check")
    /\ UNCHANGED <<object, tty, target, received, crashed>>

RecvOpened(r) ==
    /\ At(r, "recv_check")
    /\ Goto(r, IF fd = NoFd THEN "recv_unlock" ELSE "recv_read")
    /\ UNCHANGED <<object, mutex, tty, target, received, crashed>>

\* ::read looks the descriptor up and fails if it was closed meanwhile.
RecvRead(r) ==
    /\ At(r, "recv_read")
    /\ Goto(r, IF fd \in openFds THEN "reading" ELSE "recv_unlock")
    /\ UNCHANGED <<object, mutex, tty, target, received, crashed>>

\* Mutant: the mutex covers ::read and not on_recv_data.
RecvTakeUnlocks(r) ==
    LET n == IF hasRead[r] < Len(queue) THEN hasRead[r] ELSE Len(queue)
    IN  /\ At(r, "reading")
        /\ n > 0
        /\ buf' = [buf EXCEPT ![r] = SubSeq(queue, 1, n)]
        /\ Goto(r, "got")
        /\ queue' = SubSeq(queue, n + 1, Len(queue))
        /\ mutex' = NoThread
        /\ UNCHANGED <<object, openFds, hung, lastByte, target, hasRead,
                       delivered, crashed>>

\* ::read returns what there is, up to has_read_bytes (VMIN = 1: it waits for
\* a byte), or nothing: zero bytes wanted, a hangup, or a descriptor open()
\* has not made blocking yet.
RecvTake(r) ==
    LET n == IF hasRead[r] < Len(queue) THEN hasRead[r] ELSE Len(queue)
    IN  /\ At(r, "reading")
        /\ \/ /\ n > 0
              /\ buf' = [buf EXCEPT ![r] = SubSeq(queue, 1, n)]
              /\ Goto(r, "got")
              /\ queue' = IF openFds # {} THEN SubSeq(queue, n + 1, Len(queue))
                                          ELSE <<>>
           \/ /\ \/ hasRead[r] = 0 \/ hung
                 \/ queue = <<>> /\ \E t \in Threads : pc[t] = "open_fcntl"
              /\ Goto(r, "recv_unlock")
              /\ UNCHANGED <<queue, buf>>
        /\ UNCHANGED <<object, mutex, openFds, hung, lastByte, target, hasRead,
                       delivered, crashed>>

\* on_recv_data is called with the mutex held, then the buffer is reset.
RecvNotify(r) ==
    /\ At(r, "got")
    /\ delivered' = delivered \o buf[r]
    /\ buf' = [buf EXCEPT ![r] = <<>>]
    /\ Goto(r, "callback")
    /\ UNCHANGED <<object, mutex, tty, target, hasRead, crashed>>

\* Mutant: the mutex is given back only after a callback.
RecvUnlockKeeps(r) ==
    /\ \/ At(r, "callback") /\ mutex' = NoThread
       \/ At(r, "recv_unlock") /\ UNCHANGED mutex
    /\ Goto(r, "check")
    /\ UNCHANGED <<object, tty, target, received, crashed>>

RecvUnlock(r) ==
    /\ At(r, "callback") \/ At(r, "recv_unlock")
    /\ mutex' = NoThread
    /\ Goto(r, "check")
    /\ UNCHANGED <<object, tty, target, received, crashed>>

-----------------------------------------------------------------------------
(* the line *)

\* A byte arrives while the tty is open; a full queue drops it.
Arrive ==
    /\ ~crashed /\ openFds # {} /\ ~hung
    /\ lastByte < MaxByte
    /\ lastByte' = lastByte + 1
    /\ queue' = IF Len(queue) < QueueCap THEN Append(queue, lastByte')
                                         ELSE queue
    /\ UNCHANGED <<object, mutex, openFds, hung, pc, ret, target, received,
                   crashed>>

\* The device goes away and the input it held is lost.  Under an open() that
\* is configuring it this makes the configuration fail.
Hangup ==
    /\ "hangup" \in Allowed
    /\ \/ "config_fails" \in Allowed
       \/ \A t \in Threads : pc[t] \notin Configuring
    /\ ~crashed /\ openFds # {} /\ ~hung
    /\ hung' = TRUE /\ queue' = <<>>
    /\ UNCHANGED <<object, mutex, openFds, lastByte, pc, ret, target, received,
                   crashed>>

-----------------------------------------------------------------------------

\* A call that begins, and the application's hold on the object.
Calling(t) ==
    InitPort(t) \/ SetReadNotify(t) \/ Open(t) \/ Close(t) \/ Send(t)

\* A call in progress.
CallStep(t) ==
    \/ OpenDevice(t) \/ OpenConfig(t) \/ StartRun(t) \/ CreateThread(t)
    \/ StopFlag(t) \/ JoinThread(t) \/ JoinReturn(t) \/ DevClose(t)
    \/ ClearFd(t)
    \/ SendLock(t) \/ SendCheck(t) \/ SendWrite(t)

RecvStep(r) ==
    \/ RecvCheck(r) \/ RecvPoll(r) \/ RecvLock(r) \/ RecvOpened(r)
    \/ RecvRead(r) \/ RecvTake(r) \/ RecvNotify(r) \/ RecvUnlock(r)

Next ==
    \/ \E t \in Threads : Calling(t) \/ CallStep(t)
    \/ \E t \in Callers : Release(t) \/ Create(t)
    \/ \E r \in Receivers : RecvStep(r) \/ UseAfterFree(r)
    \/ Arrive
    \/ Hangup

Spec == Init /\ [][Next]_vars

\* The scheduler runs every thread that can run, and a mutex that is free
\* again and again is not refused for ever to one thread that waits for it.
\* No call has to be made, and the line carries what it likes.
Fairness ==
    /\ \A t \in Threads : WF_vars(CallStep(t)) /\ SF_vars(SendLock(t))
    /\ \A r \in Receivers : WF_vars(RecvStep(r)) /\ SF_vars(RecvLock(r))

FairSpec == Spec /\ Fairness
-----------------------------------------------------------------------------
(* Properties that hold however the object is used *)

TypeOK ==
    /\ fd \in Fds \cup {NoFd}
    /\ running \in BOOLEAN
    /\ threadRecv \in Receivers \cup {NoThread}
    /\ precv \in BOOLEAN
    /\ minNotify \in 0 .. BufLen
    /\ named \in BOOLEAN
    /\ freed \in BOOLEAN
    /\ mutex \in Threads \cup {NoThread}
    /\ openFds \in SUBSET Fds
    /\ queue \in Seq(1 .. MaxByte)
    /\ hung \in BOOLEAN
    /\ lastByte \in 0 .. MaxByte
    /\ pc \in [Threads -> Pcs]
    /\ ret \in [Threads -> Outcomes]
    /\ target \in [Threads -> Receivers \cup {NoThread}]
    /\ hasRead \in [Receivers -> Nat]
    /\ buf \in [Receivers -> Seq(1 .. MaxByte)]
    /\ delivered \in Seq(1 .. MaxByte)
    /\ crashed \in BOOLEAN

\* The threads that are between lock() and unlock().  A receiver is inside
\* during the whole of on_recv_data, and in every call made from it.
Holds(t) ==
    IF t \in Receivers
    THEN pc[t] \notin {"none", "check", "poll", "recv_lock", "exited"}
    ELSE pc[t] \in {"send_check", "send_write"}

\* Whoever is between lock() and unlock() owns the mutex (thread_recv_data_-
\* monitor and send), whatever else calls open, close or send meanwhile.
OwnsMutex == \A t \in Threads : Holds(t) => mutex = t

\* No two threads are inside the mutex at once: a ::write never runs beside a
\* ::read or beside on_recv_data, and on_recv_data is never entered twice,
\* even when two threads raced through open() and two receivers run.
OneInside == \A t, u \in Threads : Holds(t) /\ Holds(u) => t = u

\* A receiver at on_recv_data that calls send() never gets past lock(): it
\* owns the mutex already.
ReceiversDoNotSend ==
    \A r \in Receivers : pc[r] \notin {"send_check", "send_write"}

\* No application thread is in a call on an object it gave back.
NoCallOnFreed == freed => \A c \in Callers : pc[c] = "idle"

Ascending(s) == \A i, j \in 1 .. Len(s) : i < j => s[i] < s[j]
Before(s, u) == \A i \in 1 .. Len(s), j \in 1 .. Len(u) : s[i] < u[j]

\* on_recv_data sees the bytes in the order of the line and none twice: read
\* and notification are one critical section, so two receivers cannot swap.
InOrder == Ascending(delivered)

\* Bytes that were read and not handed over are in the hands of a receiver
\* that is about to hand them over.
BufferInUse == \A r \in Receivers : buf[r] # <<>> => pc[r] = "got"

\* What was delivered came before what a receiver holds, and that before what
\* the tty holds; the line carried nothing newer than lastByte.
LineOrder ==
    /\ Ascending(delivered) /\ Ascending(queue) /\ Before(delivered, queue)
    /\ \A r \in Receivers :
          /\ Ascending(buf[r])
          /\ Before(delivered, buf[r]) /\ Before(buf[r], queue)
    /\ \A i \in 1 .. Len(queue) : queue[i] <= lastByte
    /\ \A i \in 1 .. Len(delivered) : delivered[i] <= lastByte
    /\ \A r \in Receivers : \A i \in 1 .. Len(buf[r]) : buf[r][i] <= lastByte

\* The inductive invariants of mutual exclusion and of the order of bytes.
MutexInv == OwnsMutex /\ ReceiversDoNotSend /\ NoCallOnFreed
OrderInv == BufferInUse /\ LineOrder

\* A receiver that goes on to ::read asks for no more bytes than buf_read
\* holds, even after ioctl failed and left the count of an earlier round.
ReadFits ==
    \A r \in Receivers :
        pc[r] \in {"recv_lock", "recv_check", "recv_read", "reading"} =>
            hasRead[r] <= BufLen

-----------------------------------------------------------------------------
(* Properties of a port that one application thread uses *)

\* Once close() or an open() whose ::open failed has returned nothing is left
\* behind: no receiver runs, no descriptor is open and the mutex is free.
QuietWhenClosed ==
    fd = NoFd /\ (\A c \in Callers : pc[c] = "idle") =>
        /\ \A r \in Receivers : pc[r] = "none"
        /\ openFds = {}
        /\ mutex = NoThread

\* pthread_join in stop_thread_recv is given a thread that was created and
\* that nobody joined before.
JoinsCreatedThread ==
    \A t \in Threads :
        pc[t] = "join" => threadRecv \in Receivers /\ pc[threadRecv] # "none"

\* close() returns: the receiver sees the flag, leaves the loop and is
\* joined, whatever it was doing, on_recv_data and ::read included.
CloseReturns ==
    \A t \in Threads : pc[t] = "stop" ~> pc[t] = Home(t)

\* send() returns.
SendReturns ==
    \A t \in Threads : pc[t] = "send_lock" ~> pc[t] = Home(t)

Queued(b) == \E i \in 1 .. Len(queue) : queue[i] = b

\* Input that reaches the threshold and fits the buffer does not stay in the
\* tty: it is read, or the port is closed or reconfigured, or it grows beyond
\* the buffer.
InputIsRead ==
    \A b \in 1 .. MaxByte :
        (Queued(b) /\ Len(queue) >= minNotify)
            ~> \/ ~Queued(b) \/ Len(queue) > BufLen
               \/ Len(queue) < minNotify \/ ~precv

=============================================================================
