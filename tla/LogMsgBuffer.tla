---------------------------- MODULE LogMsgBuffer ----------------------------
(***************************************************************************)
(* log_msg_buffer: a message that owns its text, kept in the slots of a    *)
(* circular_q.  The text is in a memory_buffer of fmt, inside the object   *)
(* while it is short and in a block of the heap when it is long, and the   *)
(* views logger_name and payload point into it: they have to follow every  *)
(* move.  The queue is that of the async logger, whose worker moves        *)
(* messages out, or that of a backtracer, which is read in place and       *)
(* copied and exchanged with the logger it belongs to.                     *)
(*                                                                         *)
(* world has the objects that live, what their inline stores hold and what *)
(* the heap holds.  A cell of memory has a character of a message, or      *)
(* Junk.                                                                   *)
(***************************************************************************)
EXTENDS Integers, Sequences

CONSTANTS
    Inline,         \* inline_buffer_size: 500 in the code
    LogTexts,       \* messages
    NameLen,        \* length of the name of the logger, by message
    TextLen,        \* length of the payload, by message
    QueueSize,      \* messages the queue holds
    MaxLogged,      \* bound: messages logged
    Junk0           \* what no message has written

ASSUME BufferAssumption ==
    /\ Inline \in Nat \ {0} /\ QueueSize \in Nat \ {0}
    /\ \A m \in LogTexts : NameLen[m] \in Nat /\ TextLen[m] \in Nat
    /\ Junk0 \notin LogTexts

VARIABLES
    user,       \* "async" or "backtrace"
    world,
    queue,      \* head_, tail_ and the vector of the circular_q
    twin,       \* likewise of the copy of the logger; NoQueue
    kept,       \* the messages queue and twin should have, oldest first
    twinKept,
    taken,      \* the message popped_item should have; Junk0
    captured    \* how many messages were logged

bufferVars == <<user, world, queue, twin, kept, twinKept, taken, captured>>

-----------------------------------------------------------------------------
(* Objects and memory.                                                     *)

Slots == 0 .. QueueSize
Vectors == {"first", "second"}
Item == <<"item", 0>>           \* the temporary that is moved into the queue
Popped == <<"popped", 0>>       \* popped_item of the worker
Objects == {Item, Popped} \cup Vectors \X Slots
Blocks == 1 .. 2 * (QueueSize + 1) + 3

Dead == [data |-> <<"none", 0>>, size |-> 0, capacity |-> 0, logger_name |-> <<>>, payload |-> <<>>]
Store(o) == <<"store", o>>
Block(b) == <<"heap", b>>
OnHeap(p) == p[1] = "heap"

Cells(w, p) == IF OnHeap(p) THEN w.heap[p[2]] ELSE w.store[p[2]]
Junks(n) == [i \in 1 .. n |-> Junk0]

\* The n cells from a place on; there is only junk past the end.
Cut(cells, from, n) ==
    [i \in 1 .. n |-> IF from + i <= Len(cells) THEN cells[from + i] ELSE Junk0]

\* A view: where, from which cell on, how many.
StringView(p, from, n) == [at |-> p, from |-> from, len |-> n]
NoView == StringView(<<"none", 0>>, 0, 0)
ReadView(w, v) == IF v.len = 0 THEN <<>> ELSE Cut(Cells(w, v.at), v.from, v.len)

NameOf(m) == [i \in 1 .. NameLen[m] |-> <<m, "name", i>>]
PayloadOf(m) == [i \in 1 .. TextLen[m] |-> <<m, "payload", i>>]

-----------------------------------------------------------------------------
(* fmt::basic_memory_buffer                                                *)

\* The default constructor, of the buffer and of the message around it.
Construct0(w, o) ==
    [w EXCEPT !.obj[o] = [data |-> Store(o), size |-> 0, capacity |-> Inline,
                          logger_name |-> NoView, payload |-> NoView],
              !.store[o] = Junks(Inline)]

Deallocate(w, o) ==
    LET p == w.obj[o].data
    IN IF OnHeap(p) THEN [w EXCEPT !.heap[p[2]] = <<>>] ELSE w

FreeBlock(w) == CHOOSE b \in Blocks : w.heap[b] = <<>> /\ \A c \in 1 .. b - 1 : w.heap[c] # <<>>

\* grow: half as much again, or as much as is needed.
Grow(w, o, size) ==
    LET old == w.obj[o]
        more == old.capacity + old.capacity \div 2
        capacity == IF size > more THEN size ELSE more
        b == FreeBlock(w)
        moved == [w EXCEPT !.heap[b] = Cut(Cells(w, old.data), 0, old.size) \o Junks(capacity - old.size)]
    IN [Deallocate(moved, o) EXCEPT !.obj[o].data = Block(b), !.obj[o].capacity = capacity]

Reserve(w, o, size) == IF size > w.obj[o].capacity THEN Grow(w, o, size) ELSE w

WriteCells(w, p, from, text) ==
    LET Put(cells) == [i \in DOMAIN cells |-> IF i \in from + 1 .. from + Len(text) THEN text[i - from] ELSE cells[i]]
    IN IF OnHeap(p) THEN [w EXCEPT !.heap[p[2]] = Put(@)] ELSE [w EXCEPT !.store[p[2]] = Put(@)]

AppendText(w, o, text) ==
    LET size == w.obj[o].size + Len(text)
        room == Reserve(w, o, size)
    IN [WriteCells(room, room.obj[o].data, w.obj[o].size, text) EXCEPT !.obj[o].size = size]

Resize(w, o, size) == [Reserve(w, o, size) EXCEPT !.obj[o].size = size]

\* move: a text inside is copied, a block changes hands and leaves the other
\* buffer with no room and its old size.
MoveBuffer(w, to, from) ==
    LET other == w.obj[from]
        inline == [w EXCEPT !.obj[to].data = Store(to), !.obj[to].capacity = other.capacity,
                            !.store[to] = Cut(w.store[from], 0, other.size) \o Junks(Inline - other.size)]
        stolen == [w EXCEPT !.obj[to].data = other.data, !.obj[to].capacity = other.capacity,
                            !.obj[from].data = Store(from), !.obj[from].capacity = 0]
    IN Resize(IF OnHeap(other.data) THEN stolen ELSE inline, to, other.size)

-----------------------------------------------------------------------------
(* log_msg_buffer                                                          *)

update_string_views(w, o) ==
    LET m == w.obj[o]
    IN [w EXCEPT !.obj[o].logger_name = StringView(m.data, 0, m.logger_name.len),
                 !.obj[o].payload = StringView(m.data, m.logger_name.len, m.payload.len)]

\* The texts behind the views are appended; the views get their lengths.
Capture(w, o, name, payload) ==
    LET made == AppendText(AppendText(Construct0(w, o), o, name), o, payload)
    IN update_string_views([made EXCEPT !.obj[o].logger_name.len = Len(name),
                                        !.obj[o].payload.len = Len(payload)], o)

CopyConstruct(w, to, from) ==
    Capture(w, to, ReadView(w, w.obj[from].logger_name), ReadView(w, w.obj[from].payload))

\* log_msg::operator=
CopyViews(w, to, from) ==
    [w EXCEPT !.obj[to].logger_name = w.obj[from].logger_name, !.obj[to].payload = w.obj[from].payload]

\* Mutant: the views stay where those of the other point.
MoveAssignKeepsViews(w, to, from) == MoveBuffer(Deallocate(CopyViews(w, to, from), to), to, from)

MoveAssign(w, to, from) ==
    update_string_views(MoveBuffer(Deallocate(CopyViews(w, to, from), to), to, from), to)

Destroy0(w, o) == [Deallocate(w, o) EXCEPT !.obj[o] = Dead, !.store[o] = <<>>]

-----------------------------------------------------------------------------
(* circular_q and who uses it.                                             *)

\* The elements of a vector, one after the other.
NewVector(w, v) ==
    LET upTo[i \in 0 .. QueueSize + 1] ==
            IF i = 0 THEN w ELSE Construct0(upTo[i - 1], <<v, i - 1>>)
    IN upTo[QueueSize + 1]

DeleteVector(w, v) ==
    LET upTo[i \in 0 .. QueueSize + 1] ==
            IF i = 0 THEN w ELSE Destroy0(upTo[i - 1], <<v, i - 1>>)
    IN upTo[QueueSize + 1]

CopyVector(w, to, from) ==
    LET upTo[i \in 0 .. QueueSize + 1] ==
            IF i = 0 THEN w ELSE CopyConstruct(upTo[i - 1], <<to, i - 1>>, <<from, i - 1>>)
    IN upTo[QueueSize + 1]

NoQueue == [head |-> 0, tail |-> 0, v |-> "none"]
Around(i) == (i + 1) % (QueueSize + 1)

BufferInit ==
    /\ user \in {"async", "backtrace"}
    /\ world = NewVector([obj |-> [o \in Objects |-> Dead], store |-> [o \in Objects |-> <<>>],
                          heap |-> [b \in Blocks |-> <<>>]], "first")
    /\ queue = [head |-> 0, tail |-> 0, v |-> "first"]
    /\ twin = NoQueue /\ kept = <<>> /\ twinKept = <<>> /\ taken = Junk0 /\ captured = 0

\* push_back of a temporary made of a log_msg; the oldest goes when there is
\* no room.
PushMessage ==
    /\ captured < MaxLogged /\ captured' = captured + 1
    /\ \E m \in LogTexts :
          LET item == Capture(world, Item, NameOf(m), PayloadOf(m))
              full == Around(queue.tail) = queue.head
          IN /\ world' = Destroy0(MoveAssign(item, <<queue.v, queue.tail>>, Item), Item)
             /\ queue' = [queue EXCEPT !.tail = Around(@), !.head = IF full THEN Around(@) ELSE @]
             /\ kept' = Append(IF full THEN Tail(kept) ELSE kept, m)
             /\ UNCHANGED <<user, twin, twinKept, taken>>

\* dequeue_for: the front is moved into popped_item, which the worker made.
PopMessage ==
    /\ user = "async" /\ taken = Junk0 /\ queue.head # queue.tail
    /\ world' = MoveAssign(Construct0(world, Popped), Popped, <<queue.v, queue.head>>)
    /\ queue' = [queue EXCEPT !.head = Around(@)]
    /\ taken' = Head(kept) /\ kept' = Tail(kept)
    /\ UNCHANGED <<user, twin, twinKept, captured>>

\* process_next_msg_ is through with it.
DonePopped ==
    /\ taken # Junk0
    /\ world' = Destroy0(world, Popped) /\ taken' = Junk0
    /\ UNCHANGED <<user, queue, twin, kept, twinKept, captured>>

\* One round of foreach_pop: the message stays in its slot.
DumpMessage ==
    /\ user = "backtrace" /\ queue.head # queue.tail
    /\ queue' = [queue EXCEPT !.head = Around(@)] /\ kept' = Tail(kept)
    /\ UNCHANGED <<user, world, twin, twinKept, taken, captured>>

\* enable: another queue takes the place of the old one.
EnableTrace ==
    /\ user = "backtrace"
    /\ world' = NewVector(DeleteVector(world, queue.v), queue.v)
    /\ queue' = [queue EXCEPT !.head = 0, !.tail = 0] /\ kept' = <<>>
    /\ UNCHANGED <<user, twin, twinKept, taken, captured>>

\* The logger is cloned, and its backtracer copied with all slots, in use or
\* not.
CloneLogger ==
    /\ user = "backtrace" /\ twin = NoQueue
    /\ \E v \in Vectors \ {queue.v} :
          /\ world' = CopyVector(world, v, queue.v)
          /\ twin' = [queue EXCEPT !.v = v]
    /\ twinKept' = kept
    /\ UNCHANGED <<user, queue, kept, taken, captured>>

\* swap of the two loggers: the vectors change hands, not their elements.
SwapLoggers ==
    /\ twin # NoQueue
    /\ queue' = twin /\ twin' = queue /\ kept' = twinKept /\ twinKept' = kept
    /\ UNCHANGED <<user, world, taken, captured>>

\* The clone goes.
DropClone ==
    /\ twin # NoQueue
    /\ world' = DeleteVector(world, twin.v)
    /\ twin' = NoQueue /\ twinKept' = <<>>
    /\ UNCHANGED <<user, queue, kept, taken, captured>>

BufferNext ==
    \/ PushMessage \/ PopMessage \/ DonePopped \/ DumpMessage
    \/ EnableTrace \/ CloneLogger \/ SwapLoggers \/ DropClone

BufferSpec == BufferInit /\ [][BufferNext]_bufferVars

-----------------------------------------------------------------------------
\* A message in a slot or with the worker reads, through its views, what was
\* logged, from memory that is its own.
Readable(o, m) ==
    LET it == world.obj[o]
    IN /\ it.logger_name.at = it.data /\ it.payload.at = it.data
       /\ ReadView(world, it.logger_name) = NameOf(m)
       /\ ReadView(world, it.payload) = PayloadOf(m)

AllReadable(q, messages) ==
    \A i \in DOMAIN messages : Readable(<<q.v, (q.head + i - 1) % (QueueSize + 1)>>, messages[i])

\* Every message that waits, was cloned or is being processed has its own text
\* and nobody else's; a block of the heap has one owner, and none is forgotten.
MessagesReadable ==
    /\ AllReadable(queue, kept) /\ AllReadable(twin, twinKept)
    /\ taken # Junk0 => Readable(Popped, taken)
    /\ \A b \in Blocks :
          LET owners == {o \in Objects : world.obj[o].data = Block(b)}
          IN IF world.heap[b] = <<>> THEN owners = {}
             ELSE \E o \in Objects : owners = {o}

=============================================================================
