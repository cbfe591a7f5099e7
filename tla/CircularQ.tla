----------------------------- MODULE CircularQ -----------------------------
(***************************************************************************)
(* details::circular_q: a vector with one slot more than it may hold, and  *)
(* a head and a tail that go round.  Slots are numbered from 0; Nothing  *)
(* is in the slots that are not in use, whatever was left there.  max 0 is *)
(* the disabled queue of the default constructor and of a queue moved      *)
(* from.                                                                   *)
(***************************************************************************)
EXTENDS Integers, Sequences

CONSTANT Nothing

DisabledQ == [max |-> 0, head |-> 0, tail |-> 0, v |-> [i \in {} |-> Nothing]]
NewQ(n) == [max |-> n + 1, head |-> 0, tail |-> 0, v |-> [i \in 0 .. n |-> Nothing]]

\* Mutant: the oldest is not overrun.
PushQNoOverrun(q, x) ==
    [q EXCEPT !.v[q.tail] = x, !.tail = (@ + 1) % q.max]

PushQ(q, x) ==
    IF q.max = 0 THEN q
    ELSE LET next == (q.tail + 1) % q.max
             put == [q EXCEPT !.v[q.tail] = x, !.tail = next]
         IN  IF next = q.head
             THEN [put EXCEPT !.v[next] = Nothing, !.head = (next + 1) % q.max]
             ELSE put

PopQ(q) == [q EXCEPT !.v[q.head] = Nothing, !.head = (@ + 1) % q.max]

FrontQ(q) == q.v[q.head]
EmptyQ(q) == q.tail = q.head
FullQ(q) == q.max > 0 /\ (q.tail + 1) % q.max = q.head
SizeQ(q) == IF q.tail >= q.head THEN q.tail - q.head ELSE q.max - (q.head - q.tail)
AtQ(q, i) == q.v[(q.head + i) % q.max]

ContentsQ(q) == [i \in 1 .. SizeQ(q) |-> AtQ(q, i - 1)]

=============================================================================
