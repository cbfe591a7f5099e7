----------------------------- MODULE LogAsync -----------------------------
(***************************************************************************)
(* Asynchronous logging of spdlog: the queue of the thread pool with its   *)
(* two condition variables (mpmc_blocking_queue over circular_q), the      *)
(* workers, the loggers that post to them, the periodic flusher and        *)
(* spdlog::shutdown.                                                       *)
(*                                                                         *)
(* The pool lives as long as somebody holds a shared_ptr to it: the        *)
(* registry, or a thread between thread_pool_.lock() and the end of its    *)
(* post.  Whoever lets go of it last runs its destructor.                  *)
(*                                                                         *)
(* What is done under queue_mutex_ is one step; the notify_one that        *)
(* follows the unlock is a step of its own.                                *)
(***************************************************************************)
EXTENDS Integers, FiniteSets, Sequences, SequencesExt

CONSTANTS
    Apps,           \* threads of the application, each with a logger
    Workers,        \* threads a pool may have
    Crews,          \* the sets of workers to consider
    Flusher,        \* the thread of the periodic_worker
    Main,           \* the thread that calls spdlog::shutdown
    Nobody,         \* no thread
    Capacity,       \* q_max_items
    NonBlocking,    \* the threads whose logger has policy overrun_oldest
    MaxId,          \* bound: messages and flushes posted by the Apps
    MaxTicks        \* bound: intervals of the periodic_worker

Threads == Apps \cup Workers \cup {Flusher, Main}

ASSUME AsyncThreadsAssumption ==
    /\ IsFiniteSet(Workers) /\ Crews \subseteq (SUBSET Workers) \ {{}}
    /\ Apps \cap Workers = {} /\ Flusher # Main
    /\ {Flusher, Main} \cap (Apps \cup Workers) = {}
    /\ Nobody \notin Threads /\ "registry" \notin Threads
    /\ NonBlocking \subseteq Apps \cup {Flusher}
ASSUME AsyncSizesAssumption == Capacity \in Nat \ {0} /\ {MaxId, MaxTicks} \subseteq Nat

VARIABLES
    queue,          \* circular_q: the messages, oldest first
    overrun,        \* the messages overwritten; overrun_counter_ is their number
    pc,             \* where each thread is
    hand,           \* the async_msg each thread holds
    holders,        \* who holds a shared_ptr to the pool
    terminates,     \* terminate messages the destructor has posted
    poolGone,       \* the destructor of the pool has returned
    registered,     \* the registry has the loggers
    replaced,       \* history: init_thread_pool was called again
    flushing,       \* the periodic_worker is in flush_all, with its mutex_ and
                    \* logger_map_mutex_ locked
    active,         \* active_ of the periodic_worker
    ticks,          \* intervals that ended so far
    crew,           \* the workers of this pool: threads_n of them
    count,          \* calls of the Apps so far
    accepted,       \* history: the messages and flushes of the Apps posted
    written,        \* what the sinks got from the Apps, flushes too
    crashed         \* an exception left a thread function: std::terminate

pool == <<queue, overrun, holders, terminates, poolGone>>
registry == <<registered, replaced>>
timer == <<flushing, active, ticks>>
calls == <<crew, count, accepted>>
vars == <<pool, pc, hand, registry, timer, calls, written, crashed>>

NoMsg == [type |-> "none", id |-> 0, from |-> Nobody]
Msg(type, id, t) == [type |-> type, id |-> id, from |-> t]
Terminate(t) == Msg("terminate", 0, t)

\* "drop_pool" and "destroy" are the release of a shared_ptr to the pool.
AppPcs == {"idle"}
PostPcs == {"post", "full_wait", "notify_push", "drop_pool", "destroy", "join"}
WorkerPcs == {"unused", "take", "empty_wait", "notify_pop", "process", "exited"}
FlusherPcs == {"sleep", "flush_logger", "unlock", "exited"}
MainPcs == {"running", "lock_timer", "join_timer", "drop_all", "returned"}
Pcs == AppPcs \cup PostPcs \cup WorkerPcs \cup FlusherPcs \cup MainPcs

At(t, l) == ~crashed /\ pc[t] = l
Goto(t, l) == pc' = [pc EXCEPT ![t] = l]
Full == Len(queue) = Capacity

\* Where a thread goes on when its post, and what may follow it, is done.
Resume(t) == IF t = Flusher THEN "unlock"
             ELSE IF t = Main THEN "returned" ELSE "idle"

StartsAt(t) == CASE t \in Apps -> "idle" [] t \in crew -> "take"
                 [] t \in Workers \ crew -> "unused"
                 [] t = Flusher -> "sleep" [] t = Main -> "running"

Init ==
    /\ queue = <<>> /\ overrun = {} /\ holders = {"registry"}
    /\ terminates = 0 /\ poolGone = FALSE
    /\ crew \in Crews
    /\ pc = [t \in Threads |-> StartsAt(t)]
    /\ hand = [t \in Threads |-> NoMsg]
    /\ registered = TRUE /\ replaced = FALSE
    /\ flushing = FALSE /\ active = TRUE /\ ticks = 0
    /\ count = 0 /\ accepted = {} /\ written = <<>>
    /\ crashed = FALSE

-----------------------------------------------------------------------------
(* The loggers: thread_pool_.lock() and the message to post.               *)

\* async_logger::sink_it_ and flush_ by an application.  Without a pool the
\* exception of a log goes to the error handler, that of a flush to the caller.
AppLogs(a, type) ==
    /\ At(a, "idle") /\ count < MaxId
    /\ count' = count + 1
    /\ IF holders = {}
       THEN UNCHANGED <<holders, hand, accepted, pc>>
       ELSE LET m == Msg(type, count + 1, a)
            IN  /\ holders' = holders \cup {a}
                /\ hand' = [hand EXCEPT ![a] = m]
                /\ accepted' = accepted \cup {m}
                /\ Goto(a, "post")
    /\ UNCHANGED <<queue, overrun, terminates, poolGone, registry, timer, crew,
                   written, crashed>>

\* registry::flush_all, called by the periodic_worker: nothing catches what
\* flush_ throws.
FlushLogger ==
    /\ At(Flusher, "flush_logger")
    /\ IF ~registered
       THEN Goto(Flusher, "unlock") /\ UNCHANGED <<holders, hand, crashed>>
       ELSE IF holders = {}
       THEN crashed' = TRUE /\ UNCHANGED <<holders, hand, pc>>
       ELSE /\ holders' = holders \cup {Flusher}
            /\ hand' = [hand EXCEPT ![Flusher] = Msg("flush", 0, Flusher)]
            /\ Goto(Flusher, "post")
            /\ UNCHANGED crashed
    /\ UNCHANGED <<queue, overrun, terminates, poolGone, registry, timer, calls,
                   written>>

-----------------------------------------------------------------------------
(* The queue.                                                              *)

\* Where a thread goes after notify_one: who posts for himself holds the pool.
Posted(t) == IF t \in holders THEN "drop_pool" ELSE "destroy"

\* enqueue: sleep while the queue is full.
EnqueueBlocking(t) ==
    IF Full
    THEN Goto(t, "full_wait") /\ UNCHANGED <<queue, overrun, hand>>
    ELSE /\ queue' = Append(queue, hand[t])
         /\ hand' = [hand EXCEPT ![t] = NoMsg]
         /\ Goto(t, "notify_push")
         /\ UNCHANGED overrun

\* enqueue_nowait: push_back overwrites the oldest of a full queue.
EnqueueNoWait(t) ==
    /\ queue' = Append(IF Full THEN Tail(queue) ELSE queue, hand[t])
    /\ overrun' = IF Full THEN overrun \cup {Head(queue)} ELSE overrun
    /\ hand' = [hand EXCEPT ![t] = NoMsg]
    /\ Goto(t, "notify_push")

\* Mutant: the message is put in front.
EnqueueInFront(t) ==
    /\ At(t, "post") /\ ~Full
    /\ queue' = <<hand[t]>> \o queue
    /\ hand' = [hand EXCEPT ![t] = NoMsg]
    /\ Goto(t, "notify_push")
    /\ UNCHANGED <<overrun, holders, terminates, poolGone, registry, timer, calls,
                   written, crashed>>

\* The terminate messages, and the flushes of loggers that block, wait.
Enqueue(t) ==
    /\ At(t, "post")
    /\ IF t \in NonBlocking /\ hand[t].type # "terminate"
       THEN EnqueueNoWait(t) ELSE EnqueueBlocking(t)
    /\ UNCHANGED <<holders, terminates, poolGone, registry, timer, calls, written,
                   crashed>>

\* One of the threads at l, if any, is woken and looks again; t goes on.
NotifyOne(t, l, target, to) ==
    IF \E s \in Threads : pc[s] = l
    THEN \E s \in Threads :
            pc[s] = l /\ pc' = [pc EXCEPT ![s] = target, ![t] = to]
    ELSE Goto(t, to)

\* Mutant: a worker is told only of the first message.
NotifyPushFirst(t) ==
    /\ At(t, "notify_push")
    /\ IF Len(queue) = 1
       THEN NotifyOne(t, "empty_wait", "take", Posted(t))
       ELSE Goto(t, Posted(t))
    /\ UNCHANGED <<pool, hand, registry, timer, calls, written, crashed>>

\* push_cv_.notify_one()
NotifyPush(t) ==
    /\ At(t, "notify_push")
    /\ NotifyOne(t, "empty_wait", "take", Posted(t))
    /\ UNCHANGED <<pool, hand, registry, timer, calls, written, crashed>>

\* Mutant: the message stays in the queue.
DequeueCopies(w) ==
    /\ At(w, "take") /\ queue # <<>>
    /\ hand' = [hand EXCEPT ![w] = Head(queue)]
    /\ Goto(w, "notify_pop")
    /\ UNCHANGED <<pool, registry, timer, calls, written, crashed>>

\* dequeue_for: sleep while the queue is empty.
Dequeue(w) ==
    /\ At(w, "take")
    /\ IF queue = <<>>
       THEN Goto(w, "empty_wait") /\ UNCHANGED <<queue, hand>>
       ELSE /\ hand' = [hand EXCEPT ![w] = Head(queue)]
            /\ queue' = Tail(queue)
            /\ Goto(w, "notify_pop")
    /\ UNCHANGED <<overrun, holders, terminates, poolGone, registry, timer,
                   calls, written, crashed>>

\* wait_for gives up after 10 s, or wakes for nothing.
DequeueTimeout(w) ==
    /\ At(w, "empty_wait")
    /\ Goto(w, "take")
    /\ UNCHANGED <<pool, hand, registry, timer, calls, written, crashed>>

\* Mutant: those who wait for room are not told.
NotifyPopForgotten(w) ==
    /\ At(w, "notify_pop")
    /\ Goto(w, "process")
    /\ UNCHANGED <<pool, hand, registry, timer, calls, written, crashed>>

\* pop_cv_.notify_one()
NotifyPop(w) ==
    /\ At(w, "notify_pop")
    /\ NotifyOne(w, "full_wait", "post", "process")
    /\ UNCHANGED <<pool, hand, registry, timer, calls, written, crashed>>

-----------------------------------------------------------------------------
(* The workers: process_next_msg_.                                         *)

\* backend_sink_it_ and backend_flush_ (what a sink throws goes to the error
\* handler).  Of the flusher's requests no record is kept.
Process(w) ==
    /\ At(w, "process") /\ hand[w].type # "terminate"
    /\ written' = IF hand[w].from \in Apps THEN Append(written, hand[w])
                                           ELSE written
    /\ hand' = [hand EXCEPT ![w] = NoMsg]
    /\ Goto(w, "take")
    /\ UNCHANGED <<pool, registry, timer, calls, crashed>>

ProcessTerminate(w) ==
    /\ At(w, "process") /\ hand[w].type = "terminate"
    /\ hand' = [hand EXCEPT ![w] = NoMsg]
    /\ Goto(w, "exited")
    /\ UNCHANGED <<pool, registry, timer, calls, written, crashed>>

-----------------------------------------------------------------------------
(* The end of the pool.                                                    *)

\* The shared_ptr a post held goes away, with the pool if it was the last.
DropPool(t) ==
    /\ At(t, "drop_pool")
    /\ holders' = holders \ {t}
    /\ Goto(t, IF holders = {t} THEN "destroy" ELSE Resume(t))
    /\ UNCHANGED <<queue, overrun, terminates, poolGone, hand, registry, timer,
                   calls, written, crashed>>

\* The next of n terminate messages, or the joins.
DestroyWith(n, t) ==
    /\ At(t, "destroy")
    /\ IF terminates < n
       THEN /\ terminates' = terminates + 1
            /\ hand' = [hand EXCEPT ![t] = Terminate(t)]
            /\ Goto(t, "post")
       ELSE Goto(t, "join") /\ UNCHANGED <<terminates, hand>>
    /\ UNCHANGED <<queue, overrun, holders, poolGone, registry, timer, calls,
                   written, crashed>>

\* Mutant: one terminate message for all the workers.
DestroyOnce(t) == DestroyWith(1, t)

\* ~thread_pool: one terminate message for each worker, ...
Destroy(t) == DestroyWith(Cardinality(crew), t)

\* Mutant: the workers are not waited for.
JoinWorkersNot(t) ==
    /\ At(t, "join")
    /\ poolGone' = TRUE
    /\ Goto(t, Resume(t))
    /\ UNCHANGED <<queue, overrun, holders, terminates, hand, registry, timer,
                   calls, written, crashed>>

\* ... then all of them are joined.
JoinWorkers(t) ==
    /\ At(t, "join")
    /\ \A w \in crew : pc[w] = "exited"
    /\ poolGone' = TRUE
    /\ Goto(t, Resume(t))
    /\ UNCHANGED <<queue, overrun, holders, terminates, hand, registry, timer,
                   calls, written, crashed>>

-----------------------------------------------------------------------------
(* The periodic flusher.                                                   *)

\* wait_for: the interval is over, or the destructor asks for the end.
FlusherWakes ==
    /\ At(Flusher, "sleep") /\ (active => ticks < MaxTicks)
    /\ ticks' = IF active THEN ticks + 1 ELSE ticks
    /\ flushing' = active
    /\ Goto(Flusher, IF active THEN "flush_logger" ELSE "exited")
    /\ UNCHANGED <<pool, hand, registry, active, calls, written, crashed>>

\* flush_all is over, and the next wait_for lets go of mutex_.
FlusherUnlocks ==
    /\ At(Flusher, "unlock")
    /\ flushing' = FALSE
    /\ Goto(Flusher, "sleep")
    /\ UNCHANGED <<pool, hand, registry, active, ticks, calls, written, crashed>>

-----------------------------------------------------------------------------
(* spdlog::shutdown and spdlog::init_thread_pool.                          *)

\* The registry's shared_ptr goes away, with the pool if it was the last.
RegistryDropsPool(to) ==
    /\ holders' = holders \ {"registry"}
    /\ Goto(Main, IF holders = {"registry"} THEN "destroy" ELSE to)

\* Mutant: the pool goes before the flusher.
ShutdownPoolFirst ==
    /\ At(Main, "running")
    /\ holders' = holders \ {"registry"}
    /\ Goto(Main, "lock_timer")
    /\ UNCHANGED <<queue, overrun, terminates, poolGone, hand, registry, timer,
                   calls, written, crashed>>

Shutdown ==
    /\ At(Main, "running")
    /\ Goto(Main, "lock_timer")
    /\ UNCHANGED <<pool, hand, registry, timer, calls, written, crashed>>

\* ~periodic_worker: active_ is cleared under the mutex, ...
StopTimer ==
    /\ At(Main, "lock_timer") /\ ~flushing
    /\ active' = FALSE
    /\ Goto(Main, "join_timer")
    /\ UNCHANGED <<pool, hand, registry, flushing, ticks, calls, written, crashed>>

\* ... and the thread joined.
JoinTimer ==
    /\ At(Main, "join_timer") /\ pc[Flusher] = "exited"
    /\ Goto(Main, "drop_all")
    /\ UNCHANGED <<pool, hand, registry, timer, calls, written, crashed>>

\* drop_all; then tp_.reset()
DropAll ==
    /\ At(Main, "drop_all") /\ ~flushing
    /\ registered' = FALSE
    /\ RegistryDropsPool("returned")
    /\ UNCHANGED <<queue, overrun, terminates, poolGone, hand, replaced,
                   timer, calls, written, crashed>>

\* init_thread_pool(...) once more: set_tp lets go of the first pool.  The
\* second pool has no loggers yet and is left out.
ReplacePool ==
    /\ At(Main, "running")
    /\ replaced' = TRUE
    /\ RegistryDropsPool("returned")
    /\ UNCHANGED <<queue, overrun, terminates, poolGone, hand, registered,
                   timer, calls, written, crashed>>

-----------------------------------------------------------------------------
Posting(t) ==
    Enqueue(t) \/ NotifyPush(t) \/ DropPool(t) \/ Destroy(t) \/ JoinWorkers(t)
WorkerStep(w) ==
    \/ Dequeue(w) \/ NotifyPop(w)
    \/ Process(w) \/ ProcessTerminate(w)
FlusherStep == FlushLogger \/ FlusherUnlocks
MainStep == StopTimer \/ JoinTimer \/ DropAll

Next ==
    \/ \E a \in Apps : AppLogs(a, "log") \/ AppLogs(a, "flush")
    \/ \E t \in Threads : Posting(t)
    \/ \E w \in Workers : WorkerStep(w) \/ DequeueTimeout(w)
    \/ FlusherWakes \/ FlusherStep
    \/ Shutdown \/ MainStep \/ ReplacePool

Spec == Init /\ [][Next]_vars

\* Threads that can run do.  Nobody has to log or to shut down, no interval
\* has to end, and no time-out: a wake-up must come from a notify.
FairSpec ==
    /\ Spec
    /\ \A t \in Threads : WF_vars(Posting(t))
    /\ \A w \in Workers : WF_vars(WorkerStep(w))
    /\ WF_vars(FlusherStep) /\ WF_vars(MainStep)
    /\ WF_vars(~active /\ FlusherWakes)

-----------------------------------------------------------------------------
Messages == [type : {"log", "flush"}, id : 0 .. MaxId, from : Apps \cup {Flusher}]
              \cup {Terminate(t) : t \in Threads}

TypeOK ==
    /\ queue \in SeqOf(Messages, Capacity)
    /\ overrun \subseteq Messages /\ accepted \subseteq Messages
    /\ pc \in [Threads -> Pcs]
    /\ hand \in [Threads -> Messages \cup {NoMsg}]
    /\ holders \subseteq Threads \cup {"registry"}
    /\ terminates \in 0 .. Cardinality(crew)
    /\ {poolGone, registered, replaced, flushing, active, crashed} \subseteq BOOLEAN
    /\ count \in 0 .. MaxId /\ ticks \in 0 .. MaxTicks

\* Every message an application posted is in one place, and in one only: on
\* its way, in the queue, at a worker, in the sinks, or overwritten.  Nothing
\* is lost between two threads and nothing comes twice.
InOnePlace ==
    \A m \in accepted :
        Cardinality({t \in Threads : hand[t] = m})
        + Cardinality({i \in DOMAIN queue : queue[i] = m})
        + Cardinality({i \in DOMAIN written : written[i] = m})
        + Cardinality({m} \cap overrun) = 1

\* "Upon destruction, logs all remaining messages in the queue": when the
\* destructor of the pool returns, no message is left behind and no thread is
\* still inside the pool.
DrainedWhenGone ==
    poolGone =>
        /\ queue = <<>>
        /\ accepted \subseteq ToSet(written) \cup overrun
        /\ \A t \in Threads :
              pc[t] \notin PostPcs \cup (WorkerPcs \ {"unused", "exited"})

\* With one worker the sinks get what a thread logs, and its flushes, in the
\* order of its calls, whatever was lost in between.
InOrder ==
    Cardinality(crew) = 1 =>
        \A i, j \in DOMAIN written :
            i < j /\ written[i].from = written[j].from
                => written[i].id <= written[j].id

\* The flusher dies of an exception only if the pool was replaced under it;
\* shutdown stops it before it takes the pool away.
FlusherSurvives == crashed => replaced

\* shutdown returns, although the queue may be full and the flusher in it.
ShutdownReturns ==
    pc[Main] = "lock_timer" ~> (pc[Main] = "returned" \/ crashed)

\* A thread that posts goes on: room is made and it is told of it.
PostReturns ==
    \A t \in Apps \cup {Flusher} :
        pc[t] = "post" ~> (pc[t] \notin PostPcs \/ crashed)

\* What was posted reaches the sinks although every time-out may be missed.
MessagesArrive ==
    \A a \in Apps, i \in 1 .. MaxId :
        Msg("log", i, a) \in accepted
            ~> (Msg("log", i, a) \in ToSet(written) \cup overrun
                \/ crashed)

=============================================================================
