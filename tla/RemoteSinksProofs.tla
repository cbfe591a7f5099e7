-------------------------- MODULE RemoteSinksProofs --------------------------
(***************************************************************************)
(* Theorems about RemoteSinks, for every number and kind of sinks, on      *)
(* either system, whichever calls fail: what becomes of the sockets, and   *)
(* what the servers read on them.                                          *)
(***************************************************************************)
EXTENDS RemoteSinks, SequenceTheorems, TLAPS

Connecting == {"resolve", "attempt"}

\* A sink that connects has no socket; only a sink that connects or sends makes
\* or uses one, and that is a tcp_sink.
NoHandleYet == \A s \in Sinks : doing[s].step \in Connecting => handle[s] = NoHandle
TcpOnly == \A s \in Sinks : doing[s].step \in Connecting \cup {"send"} => kind[s] = "tcp"

\* The records the sinks keep, field by field.
Doing(l, m, a, n, r) == [step |-> l, msg |-> m, at |-> a, sent |-> n, tries |-> r]
Socket(o, p, a, st) == [owner |-> o, open |-> p, alive |-> a, stream |-> st]
IsDoing(d) == \E l, m, a, n, r : d = Doing(l, m, a, n, r)
IsSocket(r) == \E o, p, a, st : r = Socket(o, p, a, st)

Functions ==
    /\ doing = [s \in Sinks |-> doing[s]] /\ \A s \in Sinks : IsDoing(doing[s])
    /\ handle = [s \in Sinks |-> handle[s]]

\* l is a list of sockets, each of a tcp_sink.
IsSequence(l) == \E S : l \in Seq(S)
AreSockets(l) ==
    /\ IsSequence(l)
    /\ \A k \in DOMAIN l : IsSocket(l[k]) /\ l[k].owner \in Sinks /\ kind[l[k].owner] = "tcp"

\* NoSocketLost, for sockets l and handles h.
NoneLost(l, h) == \A k \in DOMAIN l : l[k].open => h[l[k].owner] = k

SocketInv ==
    Functions /\ NoHandleYet /\ TcpOnly /\ AreSockets(sockets) /\ NoneLost(sockets, handle)

\* Sockets of the same sinks, of which none was opened.
NoneOpened(l, m) ==
    /\ IsSequence(m) /\ DOMAIN m = DOMAIN l
    /\ \A k \in DOMAIN l : IsSocket(m[k]) /\ m[k].owner = l[k].owner /\ (m[k].open => l[k].open)

LEMMA SequenceLemma ==
    ASSUME NEW l, IsSequence(l)
    PROVE  Len(l) \in Nat /\ DOMAIN l = 1 .. Len(l) /\ l = [k \in DOMAIN l |-> l[k]]
<1>1. PICK S : l \in Seq(S)
  BY DEF IsSequence
<1> QED
  BY <1>1, LenProperties

\* A function on the places of a sequence is a sequence.
LEMMA MapLemma ==
    ASSUME NEW l, IsSequence(l), NEW m, DOMAIN m = DOMAIN l, m = [k \in DOMAIN l |-> m[k]]
    PROVE  IsSequence(m)
<1> DEFINE S == {m[k] : k \in DOMAIN l}
<1>1. m \in [1 .. Len(l) -> S] /\ Len(l) \in Nat
  BY SequenceLemma
<1>2. m \in Seq(S)
  BY <1>1, SeqDef
<1> QED
  BY <1>2, Zenon DEF IsSequence

LEMMA SocketFields ==
    ASSUME NEW o, NEW p, NEW a, NEW st, NEW v
    PROVE  /\ Socket(o, p, a, st).owner = o
           /\ Socket(o, p, a, st).open = p
           /\ [Socket(o, p, a, st) EXCEPT !.alive = v] = Socket(o, p, v, st)
           /\ [Socket(o, p, a, st) EXCEPT !.stream = v] = Socket(o, p, a, v)
           /\ [Socket(o, p, a, st) EXCEPT !.open = v] = Socket(o, v, a, st)
<1>1. Socket(o, p, a, st).owner = o
  BY DEF Socket
<1>2. Socket(o, p, a, st).open = p
  BY DEF Socket
<1>3. [Socket(o, p, a, st) EXCEPT !.alive = v] = Socket(o, p, v, st)
  BY DEF Socket
<1>4. [Socket(o, p, a, st) EXCEPT !.stream = v] = Socket(o, p, a, v)
  BY DEF Socket
<1>5. [Socket(o, p, a, st) EXCEPT !.open = v] = Socket(o, v, a, st)
  BY DEF Socket
<1> QED
  BY <1>1, <1>2, <1>3, <1>4, <1>5

\* What a sink does to a socket keeps its sink, and opens none.
LEMMA SocketChanged ==
    ASSUME NEW r, IsSocket(r), NEW v
    PROVE  /\ IsSocket([r EXCEPT !.alive = v]) /\ [r EXCEPT !.alive = v].owner = r.owner
           /\ [r EXCEPT !.alive = v].open = r.open
           /\ IsSocket([r EXCEPT !.stream = v]) /\ [r EXCEPT !.stream = v].owner = r.owner
           /\ [r EXCEPT !.stream = v].open = r.open
           /\ IsSocket([r EXCEPT !.open = v]) /\ [r EXCEPT !.open = v].owner = r.owner
           /\ [r EXCEPT !.open = v].open = v
<1>1. PICK o, p, a, st : r = Socket(o, p, a, st)
  BY DEF IsSocket
<1>2. r.owner = o /\ r.open = p
  BY <1>1, SocketFields
<1>3. /\ [r EXCEPT !.alive = v] = Socket(o, p, v, st)
      /\ [r EXCEPT !.stream = v] = Socket(o, p, a, v)
      /\ [r EXCEPT !.open = v] = Socket(o, v, a, st)
  BY <1>1, SocketFields
<1>4. /\ IsSocket(Socket(o, p, v, st)) /\ IsSocket(Socket(o, p, a, v))
      /\ IsSocket(Socket(o, v, a, st))
  BY DEF IsSocket
<1>5. /\ Socket(o, p, v, st).owner = o /\ Socket(o, p, v, st).open = p
      /\ Socket(o, p, a, v).owner = o /\ Socket(o, p, a, v).open = p
      /\ Socket(o, v, a, st).owner = o /\ Socket(o, v, a, st).open = v
  BY SocketFields
<1> QED
  BY <1>2, <1>3, <1>4, <1>5, Zenon

LEMMA OpenChanged ==
    ASSUME NEW r, IsSocket(r), NEW v
    PROVE  /\ IsSocket([r EXCEPT !.open = v]) /\ [r EXCEPT !.open = v].owner = r.owner
           /\ [r EXCEPT !.open = v].open = v
<1>1. PICK o, p, a, st : r = Socket(o, p, a, st)
  BY DEF IsSocket
<1>2. [r EXCEPT !.open = v] = Socket(o, v, a, st) /\ r.owner = o
  BY <1>1, SocketFields
<1>3. IsSocket(Socket(o, v, a, st))
  BY DEF IsSocket
<1>4. Socket(o, v, a, st).owner = o /\ Socket(o, v, a, st).open = v
  BY SocketFields
<1> QED
  BY <1>2, <1>3, <1>4, Zenon

\* How a socket may be changed that is not opened.
Worse(x, y) ==
    \/ y = x
    \/ \E v : \/ y = [x EXCEPT !.alive = v] \/ y = [x EXCEPT !.stream = v]
              \/ y = [x EXCEPT !.open = v] /\ v = FALSE

LEMMA DoingFields ==
    ASSUME NEW d, IsDoing(d), NEW v
    PROVE  /\ IsDoing([d EXCEPT !.step = v]) /\ [d EXCEPT !.step = v].step = v
           /\ IsDoing([d EXCEPT !.at = v]) /\ [d EXCEPT !.at = v].step = d.step
           /\ IsDoing([d EXCEPT !.sent = v]) /\ [d EXCEPT !.sent = v].step = d.step
           /\ IsDoing([d EXCEPT !.tries = v]) /\ [d EXCEPT !.tries = v].step = d.step
<1>1. PICK l, m, a, n, r : d = Doing(l, m, a, n, r)
  BY DEF IsDoing
<1>2. /\ [d EXCEPT !.step = v] = Doing(v, m, a, n, r)
      /\ [d EXCEPT !.at = v] = Doing(l, m, v, n, r)
      /\ [d EXCEPT !.sent = v] = Doing(l, m, a, v, r)
      /\ [d EXCEPT !.tries = v] = Doing(l, m, a, n, v)
  <2>1. [Doing(l, m, a, n, r) EXCEPT !.step = v] = Doing(v, m, a, n, r)
    BY DEF Doing
  <2>2. [Doing(l, m, a, n, r) EXCEPT !.at = v] = Doing(l, m, v, n, r)
    BY DEF Doing
  <2>3. [Doing(l, m, a, n, r) EXCEPT !.sent = v] = Doing(l, m, a, v, r)
    BY DEF Doing
  <2>4. [Doing(l, m, a, n, r) EXCEPT !.tries = v] = Doing(l, m, a, n, v)
    BY DEF Doing
  <2> QED
    BY <1>1, <2>1, <2>2, <2>3, <2>4
<1>3. /\ IsDoing(Doing(v, m, a, n, r)) /\ IsDoing(Doing(l, m, v, n, r))
      /\ IsDoing(Doing(l, m, a, v, r)) /\ IsDoing(Doing(l, m, a, n, v))
  BY DEF IsDoing
<1>4. /\ Doing(v, m, a, n, r).step = v /\ Doing(l, m, v, n, r).step = l
      /\ Doing(l, m, a, v, r).step = l /\ Doing(l, m, a, n, v).step = l
      /\ d.step = l
  BY <1>1 DEF Doing
<1> QED
  BY <1>2, <1>3, <1>4, Zenon

\* Stores to the sockets that keep the sinks and open none.
LEMMA OpensNone ==
    ASSUME NEW l, AreSockets(l), NEW m, DOMAIN m = DOMAIN l, m = [k \in DOMAIN l |-> m[k]],
           \A k \in DOMAIN l : Worse(l[k], m[k])
    PROVE  NoneOpened(l, m)
<1>1. IsSequence(m)
  BY MapLemma DEF AreSockets
<1> SUFFICES ASSUME NEW k \in DOMAIN l
             PROVE  IsSocket(m[k]) /\ m[k].owner = l[k].owner /\ (m[k].open => l[k].open)
  BY <1>1 DEF NoneOpened
<1>2. IsSocket(l[k])
  BY DEF AreSockets
<1>3. CASE m[k] = l[k]
  BY <1>2, <1>3
<1>4. ASSUME NEW v, m[k] = [l[k] EXCEPT !.alive = v]
      PROVE  IsSocket(m[k]) /\ m[k].owner = l[k].owner /\ (m[k].open => l[k].open)
  <2>1. /\ IsSocket([l[k] EXCEPT !.alive = v]) /\ [l[k] EXCEPT !.alive = v].owner = l[k].owner
        /\ [l[k] EXCEPT !.alive = v].open = l[k].open
    BY <1>2, SocketChanged, Zenon
  <2> QED
    BY <1>4, <2>1, Zenon
<1>5. ASSUME NEW v, m[k] = [l[k] EXCEPT !.stream = v]
      PROVE  IsSocket(m[k]) /\ m[k].owner = l[k].owner /\ (m[k].open => l[k].open)
  <2>1. /\ IsSocket([l[k] EXCEPT !.stream = v]) /\ [l[k] EXCEPT !.stream = v].owner = l[k].owner
        /\ [l[k] EXCEPT !.stream = v].open = l[k].open
    BY <1>2, SocketChanged, Zenon
  <2> QED
    BY <1>5, <2>1, Zenon
<1>6. ASSUME NEW v, m[k] = [l[k] EXCEPT !.open = v], v = FALSE
      PROVE  IsSocket(m[k]) /\ m[k].owner = l[k].owner /\ (m[k].open => l[k].open)
  <2>1. /\ IsSocket([l[k] EXCEPT !.open = v]) /\ [l[k] EXCEPT !.open = v].owner = l[k].owner
        /\ [l[k] EXCEPT !.open = v].open = v
    BY <1>2, OpenChanged
  <2>2. IsSocket(m[k]) /\ m[k].owner = l[k].owner /\ m[k].open = v
    BY <1>6, <2>1, Zenon
  <2> QED
    BY <1>6, <2>2, Zenon
<1> QED
  BY <1>3, <1>4, <1>5, <1>6, Zenon DEF Worse

LEMMA CleanupOpensNone ==
    ASSUME NEW l, AreSockets(l), NEW n
    PROVE  NoneOpened(l, AfterCleanup(l, n))
<1>1. l = [k \in DOMAIN l |-> l[k]]
  BY SequenceLemma DEF AreSockets
<1>2. CASE AfterCleanup(l, n) = l
  <2>1. \A k \in DOMAIN l : Worse(l[k], l[k])
    BY DEF Worse
  <2> QED
    BY <1>1, <1>2, <2>1, OpensNone, Zenon
<1>3. CASE AfterCleanup(l, n) = [k \in DOMAIN l |-> [l[k] EXCEPT !.alive = FALSE]]
  <2> DEFINE m == [k \in DOMAIN l |-> [l[k] EXCEPT !.alive = FALSE]]
  <2>1. /\ DOMAIN m = DOMAIN l /\ m = [k \in DOMAIN l |-> m[k]]
        /\ \A k \in DOMAIN l : m[k] = [l[k] EXCEPT !.alive = FALSE]
    BY Zenon
  <2> HIDE DEF m
  <2>2. \A k \in DOMAIN l : Worse(l[k], m[k])
    BY <2>1, Zenon DEF Worse
  <2>3. NoneOpened(l, m)
    BY <2>1, <2>2, OpensNone, Zenon
  <2> QED
    BY <1>3, <2>3 DEF m
<1> QED
  BY <1>2, <1>3, Zenon DEF AfterCleanup

LEMMA NoneOpenedLemma ==
    ASSUME NEW l, AreSockets(l), NEW m, NoneOpened(l, m), NEW h, NoneLost(l, h)
    PROVE  AreSockets(m) /\ NoneLost(m, h)
  BY Zenon DEF AreSockets, NoneOpened, NoneLost

\* Another socket, after those there are.
LEMMA AppendLemma ==
    ASSUME NEW l, AreSockets(l), NEW r, IsSocket(r), r.owner \in Sinks, kind[r.owner] = "tcp"
    PROVE  LET m == Append(l, r)
           IN  /\ AreSockets(m) /\ Len(l) + 1 \in Nat \ {0} /\ Len(m) = Len(l) + 1
               /\ m[Len(l) + 1] = r
               /\ \A k \in DOMAIN m : k = Len(l) + 1 \/ (k \in DOMAIN l /\ m[k] = l[k])
               /\ \A k \in DOMAIN l : k # Len(l) + 1 /\ k \in Nat \ {0}
<1> DEFINE m == Append(l, r)
<1>1. PICK S : l \in Seq(S)
  BY DEF AreSockets, IsSequence
<1>2. /\ m \in Seq(S \cup {r}) /\ Len(m) = Len(l) + 1 /\ Len(l) \in Nat
      /\ \A k \in 1 .. Len(l) : m[k] = l[k]
      /\ m[Len(l) + 1] = r
      /\ DOMAIN m = 1 .. Len(m) /\ DOMAIN l = 1 .. Len(l)
  <2>1. l \in Seq(S \cup {r})
    BY <1>1, SeqMonotonic
  <2> QED
    BY <2>1, AppendProperties, LenProperties
<1> HIDE DEF m
<1>3. \A k \in DOMAIN m : k = Len(l) + 1 \/ (k \in DOMAIN l /\ m[k] = l[k])
  BY <1>2
<1>4. AreSockets(m)
  BY <1>2, <1>3, Zenon DEF AreSockets, IsSequence
<1>5. \A k \in DOMAIN l : k # Len(l) + 1 /\ k \in Nat \ {0}
  BY <1>2
<1> QED
  BY <1>2, <1>3, <1>4, <1>5 DEF m

\* A socket that was closed again is no loss.
LEMMA ClosedSocket ==
    ASSUME NEW l, AreSockets(l), NEW h, NoneLost(l, h), NEW s \in Sinks, kind[s] = "tcp",
           NEW a, NEW st
    PROVE  LET m == Append(l, Socket(s, FALSE, a, st)) IN AreSockets(m) /\ NoneLost(m, h)
<1> DEFINE r == Socket(s, FALSE, a, st)
           m == Append(l, r)
<1>1. IsSocket(r) /\ r.owner = s /\ r.open = FALSE
  <2>1. r.owner = s /\ r.open = FALSE
    BY DEF Socket
  <2> QED
    BY <2>1, Zenon DEF IsSocket
<1> HIDE DEF r
<1>2. /\ AreSockets(m) /\ m[Len(l) + 1] = r
      /\ \A k \in DOMAIN m : k = Len(l) + 1 \/ (k \in DOMAIN l /\ m[k] = l[k])
  BY <1>1, AppendLemma
<1> HIDE DEF m
<1>3. NoneLost(m, h)
  <2> SUFFICES ASSUME NEW k \in DOMAIN m, m[k].open PROVE h[m[k].owner] = k
    BY DEF NoneLost
  <2>1. m[k] # r
    BY <1>1, Zenon
  <2>2. k \in DOMAIN l /\ m[k] = l[k]
    BY <1>2, <2>1, Zenon
  <2> QED
    BY <2>2, Zenon DEF NoneLost
<1> QED
  BY <1>2, <1>3 DEF m, r

\* A sink without a socket may open one.
LEMMA OpenSocket ==
    ASSUME NEW l, AreSockets(l), NEW h, NoneLost(l, h), h = [s \in Sinks |-> h[s]],
           NEW s \in Sinks, kind[s] = "tcp", h[s] = NoHandle, NEW a, NEW st
    PROVE  LET m == Append(l, Socket(s, TRUE, a, st))
           IN  AreSockets(m) /\ NoneLost(m, [h EXCEPT ![s] = Len(m)])
<1> DEFINE r == Socket(s, TRUE, a, st)
           m == Append(l, r)
           g == [h EXCEPT ![s] = Len(m)]
<1>1. IsSocket(r) /\ r.owner = s
  <2>1. r.owner = s
    BY DEF Socket
  <2> QED
    BY <2>1, Zenon DEF IsSocket
<1> HIDE DEF r
<1>2. /\ AreSockets(m) /\ m[Len(l) + 1] = r /\ Len(m) = Len(l) + 1
      /\ \A k \in DOMAIN m : k = Len(l) + 1 \/ (k \in DOMAIN l /\ m[k] = l[k])
      /\ \A k \in DOMAIN l : k # Len(l) + 1 /\ k \in Nat \ {0}
  BY <1>1, AppendLemma
<1>3. g[s] = Len(l) + 1 /\ \A u \in Sinks : u # s => g[u] = h[u]
  BY <1>2
<1> HIDE DEF m, g
<1>4. NoneLost(m, g)
  <2> SUFFICES ASSUME NEW k \in DOMAIN m, m[k].open PROVE g[m[k].owner] = k
    BY DEF NoneLost
  <2>1. CASE k = Len(l) + 1
    BY <1>1, <1>2, <1>3, <2>1
  <2>2. CASE k \in DOMAIN l /\ m[k] = l[k]
    <3>1. h[l[k].owner] = k /\ l[k].owner \in Sinks
      BY <2>2, Zenon DEF NoneLost, AreSockets
    <3>2. l[k].owner # s
      BY <1>2, <2>2, <3>1, RemoteAssumption
    <3> QED
      BY <1>3, <2>2, <3>1, <3>2
  <2> QED
    BY <1>2, <2>1, <2>2
<1> QED
  BY <1>2, <1>4 DEF m, r, g

\* A sink that closes its socket, or has none, loses none.
LEMMA CloseLemma ==
    ASSUME NEW l, AreSockets(l), NEW h, NoneLost(l, h), h = [s \in Sinks |-> h[s]],
           NEW s \in Sinks, NEW m, NoneOpened(l, m),
           \A k \in DOMAIN l : h[s] = k => m[k].open = FALSE
    PROVE  AreSockets(m) /\ NoneLost(m, [h EXCEPT ![s] = NoHandle])
<1> DEFINE g == [h EXCEPT ![s] = NoHandle]
<1>1. AreSockets(m) /\ NoneLost(m, h)
  BY NoneOpenedLemma
<1>2. \A u \in Sinks : u # s => g[u] = h[u]
  OBVIOUS
<1> HIDE DEF g
<1>3. NoneLost(m, g)
  <2> SUFFICES ASSUME NEW k \in DOMAIN m, m[k].open PROVE g[m[k].owner] = k
    BY DEF NoneLost
  <2>1. h[m[k].owner] = k /\ m[k].owner \in Sinks
    BY <1>1, Zenon DEF NoneLost, AreSockets
  <2>2. k \in DOMAIN l /\ h[s] # k
    <3>1. k \in DOMAIN l
      BY DEF NoneOpened
    <3>2. m[k].open # FALSE
      BY Zenon
    <3> QED
      BY <3>1, <3>2, Zenon
  <2> QED
    BY <1>2, <2>1, <2>2
<1> QED
  BY <1>1, <1>3 DEF g

-----------------------------------------------------------------------------
(* The steps of the sinks.                                                 *)

LEMMA IdleLemma == IsDoing(Idle) /\ Idle.step = "idle"
<1>1. Idle = Doing("idle", 0, 0, 0, 0)
  BY DEF Idle, Doing
<1>2. Doing("idle", 0, 0, 0, 0).step = "idle"
  BY DEF Doing
<1> QED
  BY <1>1, <1>2, Zenon DEF IsDoing

\* s goes on to d and does what it likes with its own handle.
LEMMA GoesOn ==
    ASSUME SocketInv, kind' = kind, NEW s \in Sinks, NEW d, IsDoing(d), NEW x,
           doing' = [doing EXCEPT ![s] = d], handle' = [handle EXCEPT ![s] = x],
           d.step \in Connecting \cup {"send"} => kind[s] = "tcp",
           d.step \in Connecting => x = NoHandle,
           AreSockets(sockets'), NoneLost(sockets', handle')
    PROVE  SocketInv'
<1>1. \A u \in Sinks : u # s => doing'[u] = doing[u] /\ handle'[u] = handle[u]
  BY DEF SocketInv, Functions
<1>2. doing'[s] = d /\ handle'[s] = x
  BY DEF SocketInv, Functions
<1>3. Functions'
  BY <1>1, <1>2, Zenon DEF SocketInv, Functions
<1>4. NoHandleYet'
  BY <1>1, <1>2 DEF SocketInv, NoHandleYet
<1>5. TcpOnly'
  BY <1>1, <1>2 DEF SocketInv, TcpOnly
<1>6. AreSockets(sockets)' /\ NoneLost(sockets, handle)'
  BY DEF AreSockets, NoneLost
<1> QED
  BY <1>3, <1>4, <1>5, <1>6 DEF SocketInv

\* s goes on and keeps its handle.
LEMMA KeepsHandle ==
    ASSUME SocketInv, kind' = kind, handle' = handle, NEW s \in Sinks, NEW d, IsDoing(d),
           doing' = [doing EXCEPT ![s] = d],
           d.step \in Connecting \cup {"send"} => kind[s] = "tcp",
           d.step \in Connecting => handle[s] = NoHandle,
           sockets' = sockets \/ NoneOpened(sockets, sockets')
    PROVE  SocketInv'
<1>1. handle' = [handle EXCEPT ![s] = handle[s]]
  BY DEF SocketInv, Functions
<1>2. AreSockets(sockets') /\ NoneLost(sockets', handle')
  BY NoneOpenedLemma DEF SocketInv
<1> QED
  BY <1>1, <1>2, GoesOn

\* The same, of a log() that ends.
LEMMA EndsLemma ==
    ASSUME SocketInv, kind' = kind, handle' = handle, NEW s \in Sinks, NEW f, Ends(s, f),
           sockets' = sockets \/ NoneOpened(sockets, sockets')
    PROVE  SocketInv'
<1>1. doing' = [doing EXCEPT ![s] = Idle]
  BY DEF Ends
<1> QED
  BY <1>1, IdleLemma, KeepsHandle DEF Connecting

\* close(): the socket of s is closed.
LEMMA CloseKeeps ==
    ASSUME SocketInv, NEW s \in Sinks, Close(s)
    PROVE  AreSockets(sockets') /\ NoneLost(sockets', handle')
<1> DEFINE h == handle[s]
           closed == IF h = NoHandle THEN sockets ELSE [sockets EXCEPT ![h].open = FALSE]
<1>1. AreSockets(sockets) /\ NoneLost(sockets, handle) /\ handle = [u \in Sinks |-> handle[u]]
  BY DEF SocketInv, Functions
<1>2. /\ NoneOpened(sockets, closed)
      /\ \A k \in DOMAIN sockets : h = k => closed[k].open = FALSE
  <2>1. sockets = [k \in DOMAIN sockets |-> sockets[k]]
    BY <1>1, SequenceLemma DEF AreSockets
  <2>2. CASE h = NoHandle
    <3>1. closed = sockets
      BY <2>2
    <3>2. NoneOpened(sockets, sockets)
      BY <1>1, Zenon DEF NoneOpened, AreSockets
    <3>3. \A k \in DOMAIN sockets : k # h
      <4>1. Len(sockets) \in Nat /\ DOMAIN sockets = 1 .. Len(sockets)
        BY <1>1, SequenceLemma DEF AreSockets
      <4> QED
        BY <2>2, <4>1, RemoteAssumption
    <3> QED
      BY <3>1, <3>2, <3>3, Zenon
  <2>3. CASE h # NoHandle
    <3> DEFINE m == [sockets EXCEPT ![h].open = FALSE]
    <3>1. closed = m
      BY <2>3
    <3> HIDE DEF closed
    <3>2. /\ DOMAIN m = DOMAIN sockets /\ m = [k \in DOMAIN sockets |-> m[k]]
          /\ \A k \in DOMAIN sockets : k # h => m[k] = sockets[k]
          /\ h \in DOMAIN sockets => m[h] = [sockets[h] EXCEPT !.open = FALSE]
      BY <2>1, Zenon
    <3> HIDE DEF m
    <3>3. \A k \in DOMAIN sockets : Worse(sockets[k], m[k])
      BY <3>2, Zenon DEF Worse
    <3>4. NoneOpened(sockets, m)
      BY <1>1, <3>2, <3>3, OpensNone, Zenon
    <3>5. h \in DOMAIN sockets => m[h].open = FALSE
      <4> SUFFICES ASSUME h \in DOMAIN sockets PROVE m[h].open = FALSE
        OBVIOUS
      <4>2. IsSocket(sockets[h])
        BY <1>1 DEF AreSockets
      <4>1. \A v : [sockets[h] EXCEPT !.open = v].open = v
        BY <4>2, OpenChanged
      <4> QED
        BY <3>2, <4>1, Zenon
    <3> QED
      BY <3>1, <3>4, <3>5, Zenon
  <2> QED
    BY <2>2, <2>3
<1>3. sockets' = AfterCleanup(closed, winsock) /\ handle' = [handle EXCEPT ![s] = NoHandle]
  BY Zenon DEF Close
<1> HIDE DEF closed
<1>4. AreSockets(closed) /\ NoneLost(closed, [handle EXCEPT ![s] = NoHandle])
  BY <1>1, <1>2, CloseLemma, Zenon
<1>5. NoneOpened(closed, sockets')
  BY <1>3, <1>4, CleanupOpensNone
<1> QED
  BY <1>3, <1>4, <1>5, NoneOpenedLemma

LEMMA RemoteLogKeeps ==
    ASSUME SocketInv, NEW s \in Sinks, RemoteLog(s)
    PROVE  SocketInv'
<1> DEFINE l == IF kind[s] # "tcp" THEN "write"
                ELSE IF handle[s] = NoHandle THEN "resolve" ELSE "send"
           d == Doing(l, made + 1, 1, 0, 0)
<1>1. IsDoing(d)
  BY DEF IsDoing
<1>2. d.step = l
  BY DEF Doing
<1>3. doing' = [doing EXCEPT ![s] = d] /\ UNCHANGED <<kind, handle, sockets>>
  BY Zenon DEF RemoteLog, Doing
<1>4. /\ l \in Connecting \cup {"send"} => kind[s] = "tcp"
      /\ l \in Connecting => handle[s] = NoHandle
  BY DEF Connecting
<1> HIDE DEF l, d
<1> QED
  BY <1>1, <1>2, <1>3, <1>4, KeepsHandle

LEMMA ConnectKeeps ==
    ASSUME SocketInv, NEW s \in Sinks,
           Resolve(s) \/ NoSocket(s) \/ ConnectFails(s) \/ ConnectThrows(s)
    PROVE  SocketInv'
<1>1. kind' = kind /\ handle' = handle /\ doing[s].step \in Connecting
  BY DEF Resolve, NoSocket, ConnectFails, ConnectThrows, Connecting
<1>2. kind[s] = "tcp" /\ handle[s] = NoHandle /\ IsDoing(doing[s])
  BY <1>1 DEF SocketInv, TcpOnly, NoHandleYet, Functions
<1>3. AreSockets(sockets) /\ NoneLost(sockets, handle)
  BY DEF SocketInv
<1>4. CASE Resolve(s)
  <2>1. \/ sockets' = sockets \/ \E n : sockets' = AfterCleanup(sockets, n)
    BY <1>4 DEF Resolve
  <2>2. sockets' = sockets \/ NoneOpened(sockets, sockets')
    BY <1>3, <2>1, CleanupOpensNone, Zenon
  <2>3. \/ \E f : Ends(s, f)
        \/ doing' = [doing EXCEPT ![s] = [doing[s] EXCEPT !.step = "attempt"]]
    BY <1>4 DEF Resolve, Goes
  <2>4. CASE \E f : Ends(s, f)
    BY <1>1, <2>2, <2>4, EndsLemma
  <2>5. CASE doing' = [doing EXCEPT ![s] = [doing[s] EXCEPT !.step = "attempt"]]
    <3> DEFINE d == [doing[s] EXCEPT !.step = "attempt"]
    <3>1. IsDoing(d)
      BY <1>2, DoingFields, Zenon
    <3>2. doing' = [doing EXCEPT ![s] = d]
      BY <2>5
    <3> HIDE DEF d
    <3> QED
      BY <1>1, <1>2, <2>2, <3>1, <3>2, KeepsHandle
  <2> QED
    BY <2>3, <2>4, <2>5
<1>5. CASE NoSocket(s) \/ ConnectFails(s)
  <2> DEFINE d == [doing[s] EXCEPT !.at = doing[s].at + 1]
  <2>1. IsDoing(d)
    BY <1>2, DoingFields, Zenon
  <2>2. doing' = [doing EXCEPT ![s] = d]
    BY <1>5, Zenon DEF NoSocket, ConnectFails, NextAddress, Goes
  <2> HIDE DEF d
  <2>3. \E l : /\ AreSockets(l) /\ NoneLost(l, handle)
               /\ sockets' = AfterCleanup(l, winsock)
    <3>1. CASE NoSocket(s)
      BY <1>3, <3>1, Zenon DEF NoSocket
    <3>2. CASE ConnectFails(s)
      <4>1. sockets' = AfterCleanup(Append(sockets, Socket(s, FALSE, FALSE, <<>>)), winsock)
        BY <3>2, Zenon DEF ConnectFails, Socket
      <4>2. /\ AreSockets(Append(sockets, Socket(s, FALSE, FALSE, <<>>)))
            /\ NoneLost(Append(sockets, Socket(s, FALSE, FALSE, <<>>)), handle)
        BY <1>2, <1>3, ClosedSocket
      <4> QED
        BY <4>1, <4>2, Zenon
    <3> QED
      BY <1>5, <3>1, <3>2
  <2>4. AreSockets(sockets') /\ NoneLost(sockets', handle)
    <3>1. PICK l : AreSockets(l) /\ NoneLost(l, handle) /\ sockets' = AfterCleanup(l, winsock)
      BY <2>3
    <3>2. NoneOpened(l, sockets')
      BY <3>1, CleanupOpensNone
    <3> QED
      BY <3>1, <3>2, NoneOpenedLemma
  <2>5. handle' = [handle EXCEPT ![s] = NoHandle]
    BY <1>1, <1>2 DEF SocketInv, Functions
  <2> QED
    BY <1>1, <1>2, <2>1, <2>2, <2>4, <2>5, GoesOn
<1>6. CASE ConnectThrows(s)
  <2>1. Ends(s, "reported") /\ sockets' = AfterCleanup(sockets, winsock)
    BY <1>6 DEF ConnectThrows
  <2> QED
    BY <1>1, <1>3, <2>1, CleanupOpensNone, EndsLemma
<1> QED
  BY <1>4, <1>5, <1>6

LEMMA ConnectsKeeps ==
    ASSUME SocketInv, NEW s \in Sinks, Connects(s)
    PROVE  SocketInv'
<1>1. kind[s] = "tcp" /\ handle[s] = NoHandle /\ IsDoing(doing[s])
  BY DEF Connects, SocketInv, TcpOnly, NoHandleYet, Functions, Connecting
<1> DEFINE d == [doing[s] EXCEPT !.step = "send"]
<1>2. IsDoing(d) /\ d.step = "send"
  BY <1>1, DoingFields, Zenon
<1>3. /\ doing' = [doing EXCEPT ![s] = d] /\ kind' = kind
      /\ handle' = [handle EXCEPT ![s] = Len(sockets')]
  BY DEF Connects, Goes
<1> HIDE DEF d
<1>4. sockets' = Append(sockets, Socket(s, TRUE, TRUE, <<>>))
  BY Zenon DEF Connects, Connected, Socket
<1>5. AreSockets(sockets') /\ NoneLost(sockets', handle')
  BY <1>1, <1>3, <1>4, OpenSocket DEF SocketInv, Functions
<1> QED
  BY <1>1, <1>2, <1>3, <1>5, GoesOn DEF Connecting

LEMMA SendsKeeps ==
    ASSUME SocketInv, NEW s \in Sinks, Sends(s) \/ SendsNothing(s) \/ SendFails(s)
    PROVE  SocketInv'
<1>1. doing[s].step = "send" /\ kind' = kind
  BY DEF Sends, SendsNothing, SendFails
<1>2. kind[s] = "tcp" /\ IsDoing(doing[s])
  BY <1>1 DEF SocketInv, TcpOnly, Functions
<1>3. CASE Sends(s)
  <2> DEFINE h == handle[s]
  <2>1. handle' = handle
    BY <1>3 DEF Sends
  <2>2. NoneOpened(sockets, sockets')
    <3>1. \E v : sockets' = [sockets EXCEPT ![h].stream = v]
      BY <1>3, Zenon DEF Sends
    <3>2. PICK v : sockets' = [sockets EXCEPT ![h].stream = v]
      BY <3>1
    <3>3. sockets = [k \in DOMAIN sockets |-> sockets[k]]
      BY SequenceLemma DEF SocketInv, AreSockets
    <3>4. /\ DOMAIN sockets' = DOMAIN sockets
          /\ sockets' = [k \in DOMAIN sockets |-> sockets'[k]]
          /\ \A k \in DOMAIN sockets :
                sockets'[k] = sockets[k] \/ sockets'[k] = [sockets[k] EXCEPT !.stream = v]
      BY <3>2, <3>3, Zenon
    <3>5. \A k \in DOMAIN sockets : Worse(sockets[k], sockets'[k])
      BY <3>4, Zenon DEF Worse
    <3> QED
      BY <3>4, <3>5, OpensNone, Zenon DEF SocketInv
  <2>3. \/ Ends(s, "taken")
        \/ \E v : doing' = [doing EXCEPT ![s] = [doing[s] EXCEPT !.sent = v]]
    BY <1>3, Zenon DEF Sends, Goes
  <2>4. CASE Ends(s, "taken")
    BY <1>1, <2>1, <2>2, <2>4, EndsLemma
  <2>5. ASSUME NEW v, doing' = [doing EXCEPT ![s] = [doing[s] EXCEPT !.sent = v]]
        PROVE  SocketInv'
    <3> DEFINE d == [doing[s] EXCEPT !.sent = v]
    <3>1. IsDoing(d) /\ d.step = doing[s].step
      BY <1>2, DoingFields, Zenon
    <3>2. doing' = [doing EXCEPT ![s] = d]
      BY <2>5
    <3> HIDE DEF d
    <3> QED
      BY <1>1, <1>2, <2>1, <2>2, <3>1, <3>2, KeepsHandle DEF Connecting
  <2> QED
    BY <2>3, <2>4, <2>5
<1>4. CASE SendFails(s)
  <2>1. /\ doing' = [doing EXCEPT ![s] = Idle] /\ Close(s)
        /\ handle' = [handle EXCEPT ![s] = NoHandle]
    BY <1>4 DEF SendFails, Ends, Close
  <2> QED
    BY <1>1, <2>1, CloseKeeps, IdleLemma, GoesOn DEF Connecting
<1>5. CASE SendsNothing(s)
  <2>1. Ends(s, "cut") /\ handle' = handle /\ sockets' = sockets
    BY <1>5 DEF SendsNothing
  <2> QED
    BY <1>1, <2>1, EndsLemma
<1> QED
  BY <1>3, <1>4, <1>5

LEMMA BreaksKeeps ==
    ASSUME SocketInv, Breaks
    PROVE  SocketInv'
<1>1. UNCHANGED <<kind, doing, handle>>
  BY DEF Breaks
<1>2. PICK i \in DOMAIN sockets : sockets' = [sockets EXCEPT ![i].alive = FALSE]
  BY DEF Breaks
<1>3. sockets = [k \in DOMAIN sockets |-> sockets[k]]
  BY SequenceLemma DEF SocketInv, AreSockets
<1>4. /\ DOMAIN sockets' = DOMAIN sockets
      /\ sockets' = [k \in DOMAIN sockets |-> sockets'[k]]
      /\ \A k \in DOMAIN sockets :
            sockets'[k] = sockets[k] \/ sockets'[k] = [sockets[k] EXCEPT !.alive = FALSE]
  BY <1>2, <1>3, Zenon
<1>5. \A k \in DOMAIN sockets : Worse(sockets[k], sockets'[k])
  BY <1>4, Zenon DEF Worse
<1>6. NoneOpened(sockets, sockets')
  BY <1>4, <1>5, OpensNone, Zenon DEF SocketInv
<1>7. AreSockets(sockets') /\ NoneLost(sockets', handle)
  BY <1>6, NoneOpenedLemma DEF SocketInv
<1>8. AreSockets(sockets)' /\ NoneLost(sockets, handle)'
  BY <1>1, <1>7 DEF AreSockets, NoneLost
<1> QED
  BY <1>1, <1>8 DEF SocketInv, Functions, NoHandleYet, TcpOnly

\* ~tcp_client closes; the next client has no socket either.
LEMMA DestroyKeeps ==
    ASSUME SocketInv, NEW s \in Sinks, Destroy(s)
    PROVE  SocketInv'
<1>1. /\ kind' = kind /\ doing' = doing /\ doing[s].step = "idle" /\ Close(s)
      /\ handle' = [handle EXCEPT ![s] = NoHandle]
  BY DEF Destroy, Close
<1>2. doing' = [doing EXCEPT ![s] = doing[s]] /\ IsDoing(doing[s])
  BY <1>1 DEF SocketInv, Functions
<1> QED
  BY <1>1, <1>2, CloseKeeps, GoesOn DEF Connecting

LEMMA OthersKeep ==
    ASSUME SocketInv, NEW s \in Sinks, EventLog(s) \/ Android(s) \/ Journal(s)
    PROVE  SocketInv'
<1>1. /\ doing[s].step = "write" /\ kind[s] # "tcp" /\ kind' = kind /\ sockets' = sockets
  BY DEF EventLog, Android, Journal
<1>2. AreSockets(sockets) /\ NoneLost(sockets, handle) /\ IsDoing(doing[s])
  BY DEF SocketInv, Functions
<1>3. CASE EventLog(s)
  <2>1. PICK h : handle' = [handle EXCEPT ![s] = h] /\ doing' = [doing EXCEPT ![s] = Idle]
    BY <1>3 DEF EventLog, Ends
  <2>2. \A u \in Sinks : u # s => handle'[u] = handle[u]
    BY <2>1 DEF SocketInv, Functions
  <2>3. NoneLost(sockets', handle')
    BY <1>1, <1>2, <2>2, Zenon DEF NoneLost, AreSockets
  <2> QED
    BY <1>1, <1>2, <2>1, <2>3, IdleLemma, GoesOn DEF Connecting
<1>4. CASE Android(s)
  <2>1. handle' = handle
    BY <1>4 DEF Android
  <2>2. \/ \E f : Ends(s, f)
        \/ \E v : doing' = [doing EXCEPT ![s] = [doing[s] EXCEPT !.tries = v]]
    BY <1>4, Zenon DEF Android, Goes
  <2>3. CASE \E f : Ends(s, f)
    BY <1>1, <2>1, <2>3, EndsLemma
  <2>4. ASSUME NEW v, doing' = [doing EXCEPT ![s] = [doing[s] EXCEPT !.tries = v]]
        PROVE  SocketInv'
    <3> DEFINE d == [doing[s] EXCEPT !.tries = v]
    <3>1. IsDoing(d) /\ d.step = "write"
      BY <1>1, <1>2, DoingFields, Zenon
    <3>2. doing' = [doing EXCEPT ![s] = d]
      BY <2>4
    <3> HIDE DEF d
    <3> QED
      BY <1>1, <2>1, <3>1, <3>2, KeepsHandle DEF Connecting
  <2> QED
    BY <2>2, <2>3, <2>4
<1>5. CASE Journal(s)
  <2>1. handle' = handle /\ \E f : Ends(s, f)
    BY <1>5 DEF Journal
  <2> QED
    BY <1>1, <2>1, EndsLemma
<1> QED
  BY <1>3, <1>4, <1>5

LEMMA RemoteStart == RemoteInit => SocketInv
<1> SUFFICES ASSUME RemoteInit PROVE SocketInv
  OBVIOUS
<1>1. /\ doing = [s \in Sinks |-> Idle] /\ handle = [s \in Sinks |-> NoHandle]
      /\ sockets = <<>>
  BY DEF RemoteInit
<1>2. \A s \in Sinks : doing[s] = Idle /\ doing[s].step = "idle"
  BY <1>1, IdleLemma
<1>3. Functions
  BY <1>1, <1>2, IdleLemma, Zenon DEF Functions
<1>4. NoHandleYet /\ TcpOnly
  BY <1>2 DEF NoHandleYet, TcpOnly, Connecting
<1>5. <<>> \in Seq({}) /\ DOMAIN sockets = {}
  BY <1>1
<1>6. AreSockets(sockets) /\ NoneLost(sockets, handle)
  BY <1>1, <1>5, Zenon DEF AreSockets, NoneLost, IsSequence
<1> QED
  BY <1>3, <1>4, <1>6 DEF SocketInv

LEMMA StepKeeps ==
    ASSUME SocketInv, [RemoteNext]_remoteVars
    PROVE  SocketInv'
<1>1. CASE UNCHANGED remoteVars
  BY <1>1 DEF remoteVars, SocketInv, Functions, NoHandleYet, TcpOnly, AreSockets, NoneLost
<1> QED
  BY <1>1, RemoteLogKeeps, ConnectKeeps, ConnectsKeeps, SendsKeeps, BreaksKeeps,
     DestroyKeeps, OthersKeep
     DEF RemoteNext

\* Whatever address fails, whenever a connection breaks and whoever lets go of
\* his client, an open socket is the one its sink will use and close.
THEOREM EverySocketIsUsed == RemoteSpec => []NoSocketLost
<1>1. SocketInv => NoSocketLost
  BY Zenon DEF SocketInv, NoneLost, NoSocketLost
<1> QED
  BY <1>1, RemoteStart, StepKeeps, PTL DEF RemoteSpec

-----------------------------------------------------------------------------
(* What the server reads.                                                  *)

\* Every message has its fate when log() is over, and one log() at a time is about it.
Fates ==
    /\ made \in Nat /\ fate = [m \in 1 .. made |-> fate[m]]
    /\ \A s \in Sinks :
          /\ doing[s].msg \in 0 .. made /\ (doing[s].msg = 0 <=> doing[s].step = "idle")
          /\ doing[s].msg # 0 => fate[doing[s].msg] = "pending"
    /\ \A s, u \in Sinks : doing[s].msg = doing[u].msg => s = u \/ doing[s].msg = 0
    /\ \A m \in 1 .. made : fate[m] = "pending" => \E s \in Sinks : doing[s].msg = m

\* The streams of l, of messages up to n with the fates f.
Streams(l, n, f) ==
    \A k \in DOMAIN l :
        /\ IsSequence(l[k].stream) /\ Whole(f, l[k].stream) /\ InStream(l[k].stream) \subseteq 1 .. n
        /\ \A j \in DOMAIN l \ {k} : InStream(l[k].stream) \cap InStream(l[j].stream) = {}

\* What was sent last was the end of its message, or its message was cut.
AtAnEnd(f, st) == st = <<>> \/ st[Len(st)][2] = MsgLen \/ f[st[Len(st)][1]] = "cut"

\* What s has sent of its message, d, is the end of its stream, and in no other.
Sending(l, s, d, h, f) ==
    /\ d.sent \in Nat /\ (d.sent > 0 => d.step = "send") /\ (d.step = "send" => h # NoHandle)
    /\ kind[s] = "tcp" /\ h # NoHandle =>
          /\ h \in DOMAIN l /\ l[h].owner = s
          /\ LET st == l[h].stream IN
             /\ d.sent = 0 => AtAnEnd(f, st)
             /\ d.sent > 0 => st # <<>> /\ st[Len(st)] = <<d.msg, d.sent>>
             /\ d.msg # 0 => \A m \in InStream(st) : m <= d.msg
    /\ d.msg # 0 => \A k \in DOMAIN l : d.msg \in InStream(l[k].stream) => k = h /\ d.sent > 0

\* A message of a stream of l that was cut stays so.
StillCut(l, f, g) ==
    \A k \in DOMAIN l : \A m \in InStream(l[k].stream) : f[m] = "cut" => g[m] = "cut"

TakenWhole(l, f) ==
    \A k \in DOMAIN l : \A m \in InStream(l[k].stream) :
        f[m] = "taken" => \E i \in DOMAIN l[k].stream : l[k].stream[i] = <<m, MsgLen>>

StreamInv ==
    /\ Fates /\ Streams(sockets, made, fate) /\ TakenWhole(sockets, fate)
    /\ \A s \in Sinks : Sending(sockets, s, doing[s], handle[s], fate)

\* m has the streams of l, and sockets nothing was sent on yet.
Grown(l, m) ==
    /\ DOMAIN l \subseteq DOMAIN m
    /\ \A k \in DOMAIN l : m[k].owner = l[k].owner /\ m[k].stream = l[k].stream
    /\ \A k \in DOMAIN m : k \in DOMAIN l \/ m[k].stream = <<>>

\* What the steps set in the records.
WithAlive(r, v) == [r EXCEPT !.alive = v]
WithOpen(r, v) == [r EXCEPT !.open = v]
WithStream(r, v) == [r EXCEPT !.stream = v]
WithStep(d, v) == [d EXCEPT !.step = v]
WithAt(d, v) == [d EXCEPT !.at = v]
WithSent(d, v) == [d EXCEPT !.sent = v]
WithTries(d, v) == [d EXCEPT !.tries = v]

LEMMA StreamKept ==
    ASSUME NEW r, IsSocket(r), NEW v
    PROVE  /\ WithAlive(r, v).stream = r.stream /\ WithOpen(r, v).stream = r.stream
           /\ WithStream(r, v).stream = v /\ WithAlive(r, v).owner = r.owner
           /\ WithOpen(r, v).owner = r.owner /\ WithStream(r, v).owner = r.owner
<1>1. PICK o, p, a, st : r = Socket(o, p, a, st)
  BY DEF IsSocket
<1>2. WithAlive(r, v).stream = r.stream /\ WithAlive(r, v).owner = r.owner
  BY <1>1 DEF Socket, WithAlive
<1>3. WithOpen(r, v).stream = r.stream /\ WithOpen(r, v).owner = r.owner
  BY <1>1 DEF Socket, WithOpen
<1>4. WithStream(r, v).stream = v /\ WithStream(r, v).owner = r.owner
  BY <1>1 DEF Socket, WithStream
<1> QED
  BY <1>2, <1>3, <1>4

LEMMA DoingKept ==
    ASSUME NEW d, IsDoing(d), NEW v
    PROVE  /\ WithStep(d, v).msg = d.msg /\ WithStep(d, v).sent = d.sent /\ WithStep(d, v).step = v
           /\ WithAt(d, v).msg = d.msg /\ WithAt(d, v).sent = d.sent /\ WithAt(d, v).step = d.step
           /\ WithTries(d, v).msg = d.msg /\ WithTries(d, v).sent = d.sent
           /\ WithTries(d, v).step = d.step
           /\ WithSent(d, v).msg = d.msg /\ WithSent(d, v).sent = v /\ WithSent(d, v).step = d.step
<1>1. PICK l, m, a, n, r : d = Doing(l, m, a, n, r)
  BY DEF IsDoing
<1>2. WithStep(d, v).msg = d.msg /\ WithStep(d, v).sent = d.sent /\ WithStep(d, v).step = v
  BY <1>1 DEF Doing, WithStep
<1>3. WithAt(d, v).msg = d.msg /\ WithAt(d, v).sent = d.sent /\ WithAt(d, v).step = d.step
  BY <1>1 DEF Doing, WithAt
<1>4. /\ WithTries(d, v).msg = d.msg /\ WithTries(d, v).sent = d.sent
      /\ WithTries(d, v).step = d.step
  BY <1>1 DEF Doing, WithTries
<1>5. WithSent(d, v).msg = d.msg /\ WithSent(d, v).sent = v /\ WithSent(d, v).step = d.step
  BY <1>1 DEF Doing, WithSent
<1> QED
  BY <1>2, <1>3, <1>4, <1>5

LEMMA GrownItself == ASSUME NEW l PROVE Grown(l, l)
  BY Zenon DEF Grown

LEMMA GrownTwice ==
    ASSUME NEW l, NEW m, NEW n, Grown(l, m), Grown(m, n)
    PROVE  Grown(l, n)
<1>1. /\ DOMAIN l \subseteq DOMAIN n
      /\ \A k \in DOMAIN l : n[k].owner = l[k].owner /\ n[k].stream = l[k].stream
  BY Zenon DEF Grown
<1>2. \A k \in DOMAIN n : k \in DOMAIN l \/ n[k].stream = <<>>
  BY Zenon DEF Grown
<1> QED
  BY <1>1, <1>2 DEF Grown

LEMMA CleanupGrows ==
    ASSUME NEW l, AreSockets(l), NEW n
    PROVE  Grown(l, AfterCleanup(l, n))
<1>1. CASE AfterCleanup(l, n) = l
  BY <1>1, GrownItself
<1>2. CASE AfterCleanup(l, n) = [k \in DOMAIN l |-> [l[k] EXCEPT !.alive = FALSE]]
  <2> DEFINE m == [k \in DOMAIN l |-> [l[k] EXCEPT !.alive = FALSE]]
  <2>1. DOMAIN m = DOMAIN l /\ \A k \in DOMAIN l : m[k] = WithAlive(l[k], FALSE)
    BY Zenon DEF WithAlive
  <2> HIDE DEF m
  <2>2. ASSUME NEW k \in DOMAIN l
        PROVE  m[k].owner = l[k].owner /\ m[k].stream = l[k].stream
    <3>1. IsSocket(l[k])
      BY DEF AreSockets
    <3>2. m[k] = WithAlive(l[k], FALSE)
      BY <2>1, Zenon
    <3>3. /\ WithAlive(l[k], FALSE).owner = l[k].owner
          /\ WithAlive(l[k], FALSE).stream = l[k].stream
      BY <3>1, StreamKept, Zenon
    <3> QED
      BY <3>2, <3>3, Zenon
  <2>3. Grown(l, m)
    BY <2>1, <2>2, Zenon DEF Grown
  <2> QED
    BY <1>2, <2>3 DEF m
<1> QED
  BY <1>1, <1>2, Zenon DEF AfterCleanup

LEMMA NewSocket ==
    ASSUME NEW s, NEW p, NEW a
    PROVE  LET r == Socket(s, p, a, <<>>) IN IsSocket(r) /\ r.owner = s /\ r.stream = <<>>
<1> DEFINE r == Socket(s, p, a, <<>>)
<1>1. r.owner = s /\ r.stream = <<>>
  BY DEF Socket
<1> QED
  BY <1>1, Zenon DEF IsSocket

LEMMA AppendGrows ==
    ASSUME NEW l, AreSockets(l), NEW s \in Sinks, kind[s] = "tcp",
           NEW r, IsSocket(r), r.owner = s, r.stream = <<>>
    PROVE  /\ Grown(l, Append(l, r)) /\ Len(Append(l, r)) \in DOMAIN Append(l, r)
           /\ Len(Append(l, r)) \notin DOMAIN l /\ Len(Append(l, r)) \in Nat \ {0}
           /\ Append(l, r)[Len(Append(l, r))].owner = s
<1> DEFINE m == Append(l, r)
<1>1. /\ AreSockets(m) /\ Len(l) + 1 \in Nat \ {0} /\ Len(m) = Len(l) + 1 /\ m[Len(l) + 1] = r
      /\ \A k \in DOMAIN m : k = Len(l) + 1 \/ (k \in DOMAIN l /\ m[k] = l[k])
      /\ \A k \in DOMAIN l : k # Len(l) + 1 /\ k \in Nat \ {0}
  BY AppendLemma
<1> HIDE DEF m
<1>2. DOMAIN m = 1 .. Len(l) + 1 /\ DOMAIN l = 1 .. Len(l) /\ Len(l) \in Nat
  BY <1>1, SequenceLemma DEF AreSockets
<1>3. \A k \in DOMAIN l : k \in DOMAIN m /\ m[k] = l[k]
  BY <1>1, <1>2
<1>4. Len(l) + 1 \in DOMAIN m /\ Len(l) + 1 \notin DOMAIN l
  BY <1>2
<1>5. Grown(l, m)
  BY <1>1, <1>3, Zenon DEF Grown
<1> QED
  BY <1>1, <1>4, <1>5 DEF m

LEMMA CloseGrows ==
    ASSUME SocketInv, NEW s \in Sinks, Close(s)
    PROVE  Grown(sockets, sockets') /\ handle' = [handle EXCEPT ![s] = NoHandle]
<1> DEFINE h == handle[s]
           closed == IF h = NoHandle THEN sockets ELSE [sockets EXCEPT ![h].open = FALSE]
<1>1. AreSockets(sockets) /\ sockets = [k \in DOMAIN sockets |-> sockets[k]]
  BY SequenceLemma DEF SocketInv, AreSockets
<1>2. Grown(sockets, closed) /\ AreSockets(closed)
  <2>1. CASE h = NoHandle
    BY <1>1, <2>1, GrownItself
  <2>2. CASE h # NoHandle
    <3> DEFINE m == [sockets EXCEPT ![h].open = FALSE]
    <3>1. closed = m
      BY <2>2
    <3> HIDE DEF closed
    <3>2. /\ DOMAIN m = DOMAIN sockets /\ m = [k \in DOMAIN sockets |-> m[k]]
          /\ \A k \in DOMAIN sockets :
                m[k] = sockets[k] \/ m[k] = [sockets[k] EXCEPT !.open = FALSE]
      BY <1>1, Zenon
    <3> HIDE DEF m
    <3>3. \A k \in DOMAIN sockets : Worse(sockets[k], m[k])
      BY <3>2, Zenon DEF Worse
    <3>4. AreSockets(m)
      BY <1>1, <3>2, <3>3, OpensNone, NoneOpenedLemma, Zenon DEF SocketInv
    <3>5. ASSUME NEW k \in DOMAIN sockets
          PROVE  m[k].owner = sockets[k].owner /\ m[k].stream = sockets[k].stream
      <4>1. IsSocket(sockets[k])
        BY <1>1 DEF AreSockets
      <4>2. m[k] = sockets[k] \/ m[k] = WithOpen(sockets[k], FALSE)
        BY <3>2, Zenon DEF WithOpen
      <4>3. /\ WithOpen(sockets[k], FALSE).owner = sockets[k].owner
            /\ WithOpen(sockets[k], FALSE).stream = sockets[k].stream
        BY <4>1, StreamKept, Zenon
      <4> QED
        BY <4>2, <4>3, Zenon
    <3>6. Grown(sockets, m)
      BY <3>2, <3>5, Zenon DEF Grown
    <3> QED
      BY <3>1, <3>4, <3>6
  <2> QED
    BY <2>1, <2>2
<1>3. sockets' = AfterCleanup(closed, winsock) /\ handle' = [handle EXCEPT ![s] = NoHandle]
  BY Zenon DEF Close
<1> HIDE DEF closed
<1> QED
  BY <1>2, <1>3, CleanupGrows, GrownTwice

LEMMA EndLemma ==
    ASSUME NEW l, NEW f, NEW g, StillCut(l, f, g), NEW k \in DOMAIN l, IsSequence(l[k].stream),
           AtAnEnd(f, l[k].stream)
    PROVE  AtAnEnd(g, l[k].stream)
<1> DEFINE st == l[k].stream
<1>1. PICK S : st \in Seq(S)
  BY DEF IsSequence
<1>2. st # <<>> => Len(st) \in DOMAIN st
  BY <1>1, LenProperties, EmptySeq
<1>3. st # <<>> => st[Len(st)][1] \in InStream(st)
  BY <1>2 DEF InStream
<1> QED
  BY <1>3 DEF AtAnEnd, StillCut

\* The connection of s is as it was, and what s is at says the same of it.
LEMMA SendingKept ==
    ASSUME NEW l, NEW m, Grown(l, m), NEW f, NEW g, StillCut(l, f, g), NEW s, NEW d, NEW h,
           Sending(l, s, d, h, f),
           kind[s] = "tcp" /\ h # NoHandle => IsSequence(l[h].stream)
    PROVE  Sending(m, s, d, h, g)
<1>1. ASSUME kind[s] = "tcp", h # NoHandle
      PROVE  /\ h \in DOMAIN m /\ m[h].owner = s
             /\ LET st == m[h].stream IN
                /\ d.sent = 0 => AtAnEnd(g, st)
                /\ d.sent > 0 => st # <<>> /\ st[Len(st)] = <<d.msg, d.sent>>
                /\ d.msg # 0 => \A i \in InStream(st) : i <= d.msg
  <2>1. h \in DOMAIN l /\ l[h].owner = s /\ (d.sent = 0 => AtAnEnd(f, l[h].stream))
    BY <1>1, Zenon DEF Sending
  <2>2. h \in DOMAIN m /\ m[h].owner = s /\ m[h].stream = l[h].stream
    BY <2>1, Zenon DEF Grown
  <2>3. ASSUME AtAnEnd(f, l[h].stream) PROVE AtAnEnd(g, l[h].stream)
    BY <1>1, <2>1, <2>3, EndLemma
  <2> QED
    BY <1>1, <2>1, <2>2, <2>3, Zenon DEF Sending
<1>2. ASSUME d.msg # 0, NEW k \in DOMAIN m, d.msg \in InStream(m[k].stream)
      PROVE  k = h /\ d.sent > 0
  <2>1. InStream(<<>>) = {}
    BY DEF InStream
  <2>2. k \in DOMAIN l /\ m[k].stream = l[k].stream
    BY <1>2, <2>1, Zenon DEF Grown
  <2> QED
    BY <1>2, <2>2, Zenon DEF Sending
<1> QED
  BY <1>1, <1>2, Zenon DEF Sending

LEMMA WholeKept ==
    ASSUME NEW st, IsSequence(st), NEW f, NEW g, Whole(f, st),
           \A i \in InStream(st) : f[i] = "cut" => g[i] = "cut"
    PROVE  Whole(g, st)
<1> SUFFICES ASSUME NEW i \in DOMAIN st
             PROVE  st[i][2] \in 1 .. MsgLen /\ IF i = 1 THEN st[i][2] = 1
                                                ELSE Follows(g, st[i - 1], st[i])
  BY DEF Whole
<1>1. st[i][2] \in 1 .. MsgLen /\ IF i = 1 THEN st[i][2] = 1 ELSE Follows(f, st[i - 1], st[i])
  BY DEF Whole
<1>2. CASE i = 1
  BY <1>1, <1>2
<1>3. CASE i # 1
  <2>1. i - 1 \in DOMAIN st
    BY <1>3, SequenceLemma
  <2>2. st[i - 1][1] \in InStream(st)
    BY <2>1 DEF InStream
  <2> QED
    BY <1>1, <1>3, <2>2 DEF Follows
<1> QED
  BY <1>2, <1>3

LEMMA StreamsKept ==
    ASSUME NEW l, NEW m, Grown(l, m), NEW n \in Nat, NEW p \in Nat, n <= p,
           NEW f, NEW g, StillCut(l, f, g), Streams(l, n, f)
    PROVE  Streams(m, p, g)
<1>1. InStream(<<>>) = {} /\ IsSequence(<<>>) /\ Whole(g, <<>>)
  <2>1. <<>> \in Seq({})
    OBVIOUS
  <2> QED
    BY <2>1 DEF InStream, IsSequence, Whole
<1>2. \A k \in DOMAIN m : \/ k \in DOMAIN l /\ m[k].stream = l[k].stream
                          \/ m[k].stream = <<>>
  BY Zenon DEF Grown
<1>3. 1 .. n \subseteq 1 .. p
  OBVIOUS
<1>4. ASSUME NEW k \in DOMAIN m
      PROVE  /\ IsSequence(m[k].stream) /\ Whole(g, m[k].stream)
             /\ InStream(m[k].stream) \subseteq 1 .. p
  <2>1. CASE k \in DOMAIN l /\ m[k].stream = l[k].stream
    <3>1. /\ IsSequence(l[k].stream) /\ Whole(f, l[k].stream)
          /\ InStream(l[k].stream) \subseteq 1 .. n
      BY <2>1, Zenon DEF Streams
    <3>2. \A i \in InStream(l[k].stream) : f[i] = "cut" => g[i] = "cut"
      BY <2>1, Zenon DEF StillCut
    <3>3. Whole(g, l[k].stream)
      BY <3>1, <3>2, WholeKept
    <3> QED
      BY <1>3, <2>1, <3>1, <3>3, Zenon
  <2>2. CASE m[k].stream = <<>>
    BY <1>1, <2>2, Zenon
  <2> QED
    BY <1>2, <2>1, <2>2
<1>5. ASSUME NEW k \in DOMAIN m, NEW j \in DOMAIN m \ {k}
      PROVE  InStream(m[k].stream) \cap InStream(m[j].stream) = {}
  <2>1. CASE m[k].stream = <<>> \/ m[j].stream = <<>>
    BY <1>1, <2>1, Zenon
  <2>2. CASE /\ k \in DOMAIN l /\ m[k].stream = l[k].stream
             /\ j \in DOMAIN l /\ m[j].stream = l[j].stream
    BY <2>2, Zenon DEF Streams
  <2> QED
    BY <1>2, <2>1, <2>2
<1> QED
  BY <1>4, <1>5 DEF Streams

LEMMA TakenKept ==
    ASSUME NEW l, NEW m, Grown(l, m), NEW f, TakenWhole(l, f), NEW g,
           \A k \in DOMAIN l : \A i \in InStream(l[k].stream) : g[i] = "taken" => f[i] = "taken"
    PROVE  TakenWhole(m, g)
<1> SUFFICES ASSUME NEW k \in DOMAIN m, NEW i \in InStream(m[k].stream), g[i] = "taken"
             PROVE  \E j \in DOMAIN m[k].stream : m[k].stream[j] = <<i, MsgLen>>
  BY DEF TakenWhole
<1>1. InStream(<<>>) = {}
  BY DEF InStream
<1>2. k \in DOMAIN l /\ m[k].stream = l[k].stream
  BY <1>1, Zenon DEF Grown
<1>3. f[i] = "taken"
  BY <1>2
<1> QED
  BY <1>2, <1>3, Zenon DEF TakenWhole

LEMMA SendingStays ==
    ASSUME StreamInv, Grown(sockets, sockets'), StillCut(sockets, fate, fate'), NEW u \in Sinks
    PROVE  Sending(sockets', u, doing[u], handle[u], fate')
<1>1. Sending(sockets, u, doing[u], handle[u], fate) /\ Streams(sockets, made, fate)
  BY DEF StreamInv
<1>2. kind[u] = "tcp" /\ handle[u] # NoHandle => IsSequence(sockets[handle[u]].stream)
  BY <1>1, Zenon DEF Sending, Streams
<1> QED
  BY <1>1, <1>2, SendingKept

\* A step of s that sends nothing.
LEMMA NothingSent ==
    ASSUME StreamInv, kind' = kind, Grown(sockets, sockets'), Fates', made <= made',
           NEW s \in Sinks,
           \A u \in Sinks : u # s => doing'[u] = doing[u] /\ handle'[u] = handle[u],
           \A k \in DOMAIN sockets : \A i \in InStream(sockets[k].stream) :
                fate'[i] = "taken" => fate[i] = "taken",
           StillCut(sockets, fate, fate'),
           Sending(sockets', s, doing'[s], handle'[s], fate')
    PROVE  StreamInv'
<1>1. Streams(sockets', made', fate')
  <2>1. made \in Nat /\ made' \in Nat /\ Streams(sockets, made, fate)
    BY DEF StreamInv, Fates
  <2>2. \A n, p \in Nat : n <= p /\ Streams(sockets, n, fate) => Streams(sockets', p, fate')
    BY StreamsKept
  <2> QED
    BY <2>1, <2>2
<1>2. TakenWhole(sockets', fate')
  <2>1. TakenWhole(sockets, fate)
    BY DEF StreamInv
  <2> QED
    BY <2>1, TakenKept
<1>3. \A u \in Sinks : Sending(sockets', u, doing'[u], handle'[u], fate')
  <2> SUFFICES ASSUME NEW u \in Sinks PROVE Sending(sockets', u, doing'[u], handle'[u], fate')
    OBVIOUS
  <2>1. CASE u = s
    BY <2>1
  <2>2. CASE u # s
    <3>1. Sending(sockets, u, doing[u], handle[u], fate)
      BY Zenon DEF StreamInv
    <3>2. Sending(sockets', u, doing[u], handle[u], fate')
      BY <3>1, SendingStays, Zenon
    <3> QED
      BY <2>2, <3>2, Zenon
  <2> QED
    BY <2>1, <2>2
<1>4. Streams(sockets, made, fate)'
  BY <1>1 DEF Streams
<1>5. TakenWhole(sockets, fate)'
  BY <1>2 DEF TakenWhole
<1>6. \A u \in Sinks : Sending(sockets, u, doing[u], handle[u], fate)'
  BY <1>3, Zenon DEF Sending
<1> QED
  BY <1>4, <1>5, <1>6 DEF StreamInv

\* s goes on with the message it is at.
LEMMA FatesKept ==
    ASSUME SocketInv, StreamInv, made' = made, fate' = fate, NEW s \in Sinks, NEW d,
           doing' = [doing EXCEPT ![s] = d], d.msg = doing[s].msg,
           d.step = "idle" <=> doing[s].step = "idle"
    PROVE  Fates' /\ doing'[s] = d /\ \A u \in Sinks : u # s => doing'[u] = doing[u]
<1>1. doing'[s] = d /\ \A u \in Sinks : u # s => doing'[u] = doing[u]
  BY DEF SocketInv, Functions
<1>2. /\ \A u \in Sinks : doing'[u].msg = doing[u].msg
      /\ \A u \in Sinks : doing'[u].step = "idle" <=> doing[u].step = "idle"
  BY <1>1, Zenon
<1>3. /\ made \in Nat /\ fate = [m \in 1 .. made |-> fate[m]]
      /\ \A u \in Sinks :
            /\ doing[u].msg \in 0 .. made /\ (doing[u].msg = 0 <=> doing[u].step = "idle")
            /\ doing[u].msg # 0 => fate[doing[u].msg] = "pending"
      /\ \A u, v \in Sinks : doing[u].msg = doing[v].msg => u = v \/ doing[u].msg = 0
      /\ \A m \in 1 .. made : fate[m] = "pending" => \E u \in Sinks : doing[u].msg = m
  BY DEF StreamInv, Fates
<1>4. made' \in Nat /\ fate' = [m \in 1 .. made' |-> fate'[m]]
  BY <1>3
<1>5. \A u \in Sinks :
            /\ doing'[u].msg \in 0 .. made' /\ (doing'[u].msg = 0 <=> doing'[u].step = "idle")
            /\ doing'[u].msg # 0 => fate'[doing'[u].msg] = "pending"
  BY <1>2, <1>3
<1>6. \A u, v \in Sinks : doing'[u].msg = doing'[v].msg => u = v \/ doing'[u].msg = 0
  BY <1>2, <1>3
<1>7. \A m \in 1 .. made' : fate'[m] = "pending" => \E u \in Sinks : doing'[u].msg = m
  BY <1>2, <1>3
<1> QED
  BY <1>1, <1>4, <1>5, <1>6, <1>7 DEF Fates

LEMMA IdleFields == Idle.msg = 0 /\ Idle.sent = 0 /\ Idle.step = "idle"
  BY DEF Idle

\* log() is over for s.
LEMMA FateKnown ==
    ASSUME SocketInv, StreamInv, made' = made, NEW s \in Sinks, NEW f, f # "pending",
           Ends(s, f), doing[s].step # "idle"
    PROVE  /\ Fates' /\ doing'[s] = Idle
           /\ \A u \in Sinks : u # s => doing'[u] = doing[u]
           /\ doing[s].msg \in 1 .. made /\ fate'[doing[s].msg] = f
           /\ \A m \in 1 .. made : m # doing[s].msg => fate'[m] = fate[m]
<1> DEFINE n == doing[s].msg
<1>1. Fates
  BY DEF StreamInv
<1>2. n \in 1 .. made /\ fate = [m \in 1 .. made |-> fate[m]] /\ made \in Nat
  BY <1>1 DEF Fates
<1>3. doing'[s] = Idle /\ \A u \in Sinks : u # s => doing'[u] = doing[u]
  BY DEF SocketInv, Functions, Ends
<1>4. /\ fate' = [m \in 1 .. made |-> fate'[m]] /\ fate'[n] = f
      /\ \A m \in 1 .. made : m # n => fate'[m] = fate[m]
  BY <1>2 DEF Ends
<1>5. \A u \in Sinks : u # s => doing[u].msg # n
  BY <1>1, <1>2 DEF Fates
<1>6. ASSUME NEW u \in Sinks
      PROVE  /\ doing'[u].msg \in 0 .. made /\ (doing'[u].msg = 0 <=> doing'[u].step = "idle")
             /\ doing'[u].msg # 0 => fate'[doing'[u].msg] = "pending"
  <2>1. CASE u = s
    BY <1>2, <1>3, <2>1, IdleFields
  <2>2. CASE u # s
    <3>1. /\ doing[u].msg \in 0 .. made /\ (doing[u].msg = 0 <=> doing[u].step = "idle")
          /\ doing[u].msg # 0 => fate[doing[u].msg] = "pending" /\ doing[u].msg \in 1 .. made
      BY <1>1 DEF Fates
    <3> QED
      BY <1>3, <1>4, <1>5, <2>2, <3>1
  <2> QED
    BY <2>1, <2>2
<1>7. \A u, v \in Sinks : doing'[u].msg = doing'[v].msg => u = v \/ doing'[u].msg = 0
  <2> SUFFICES ASSUME NEW u \in Sinks, NEW v \in Sinks, doing'[u].msg = doing'[v].msg,
                      doing'[u].msg # 0
               PROVE  u = v
    OBVIOUS
  <2>1. u # s /\ v # s
    BY <1>3, IdleFields, Zenon
  <2>2. doing[u].msg = doing[v].msg /\ doing[u].msg # 0
    BY <1>3, <2>1, Zenon
  <2>3. \A x, y \in Sinks : doing[x].msg = doing[y].msg => x = y \/ doing[x].msg = 0
    BY <1>1 DEF Fates
  <2> QED
    BY <2>2, <2>3, Zenon
<1>8. ASSUME NEW m \in 1 .. made, fate'[m] = "pending"
      PROVE  \E u \in Sinks : doing'[u].msg = m
  <2>1. m # n /\ fate[m] = "pending"
    BY <1>4, <1>8
  <2>2. PICK u \in Sinks : doing[u].msg = m
    BY <1>1, <2>1 DEF Fates
  <2> QED
    BY <1>3, <2>1, <2>2
<1> QED
  BY <1>2, <1>3, <1>4, <1>6, <1>7, <1>8 DEF Fates

\* s goes on, and does not send.
LEMMA MovesOn ==
    ASSUME SocketInv, StreamInv, kind' = kind, made' = made, fate' = fate, handle' = handle,
           NEW s \in Sinks, NEW d, doing' = [doing EXCEPT ![s] = d],
           d.msg = doing[s].msg, d.sent = doing[s].sent,
           doing[s].step \notin {"idle", "send"}, d.step \notin {"idle", "send"},
           Grown(sockets, sockets')
    PROVE  StreamInv'
<1>1. Fates' /\ doing'[s] = d /\ \A u \in Sinks : u # s => doing'[u] = doing[u]
  BY FatesKept
<1>2. Sending(sockets, s, doing[s], handle[s], fate) /\ made \in Nat
  BY DEF StreamInv, Fates
<1>3. Sending(sockets', s, doing[s], handle[s], fate') /\ StillCut(sockets, fate, fate')
  <2>1. StillCut(sockets, fate, fate')
    BY DEF StillCut
  <2> QED
    BY <2>1, SendingStays
<1>4. Sending(sockets', s, d, handle[s], fate')
  <2>1. d.sent \in Nat /\ ~(d.sent > 0)
    BY <1>3 DEF Sending
  <2> QED
    BY <1>3, <2>1 DEF Sending
<1> QED
  BY <1>1, <1>2, <1>3, <1>4, NothingSent

\* What was cut is not pending.
LEMMA StaysCut ==
    ASSUME StreamInv, NEW s \in Sinks, doing[s].msg \in 1 .. made,
           \A m \in 1 .. made : m # doing[s].msg => fate'[m] = fate[m]
    PROVE  StillCut(sockets, fate, fate')
<1>1. \A k \in DOMAIN sockets : \A m \in InStream(sockets[k].stream) : m \in 1 .. made
  BY Zenon DEF StreamInv, Streams
<1>2. made \in Nat /\ fate[doing[s].msg] = "pending"
  BY DEF StreamInv, Fates
<1> QED
  BY <1>1, <1>2 DEF StillCut

\* A log() of s is over that nothing was sent of, or that was not taken.
LEMMA IsOver ==
    ASSUME SocketInv, StreamInv, kind' = kind, made' = made, NEW s \in Sinks, NEW f,
           f # "pending", Ends(s, f), doing[s].step # "idle", f = "taken" => doing[s].sent = 0,
           Grown(sockets, sockets'), \A u \in Sinks : u # s => handle'[u] = handle[u],
           handle'[s] = NoHandle \/ kind[s] # "tcp"
    PROVE  StreamInv'
<1>1. /\ Fates' /\ doing'[s] = Idle /\ \A u \in Sinks : u # s => doing'[u] = doing[u]
      /\ doing[s].msg \in 1 .. made /\ fate'[doing[s].msg] = f
      /\ \A m \in 1 .. made : m # doing[s].msg => fate'[m] = fate[m]
  BY FateKnown
<1>2. Sending(sockets', s, doing'[s], handle'[s], fate')
  BY <1>1, IdleFields DEF Sending
<1>3. made \in Nat /\ Sending(sockets, s, doing[s], handle[s], fate) /\ Streams(sockets, made, fate)
  BY DEF StreamInv, Fates
<1>4. ASSUME NEW k \in DOMAIN sockets, NEW i \in InStream(sockets[k].stream), fate'[i] = "taken"
      PROVE  fate[i] = "taken"
  <2>1. i \in 1 .. made
    BY <1>3 DEF Streams
  <2>2. i # doing[s].msg
    <3> SUFFICES ASSUME i = doing[s].msg PROVE FALSE
      OBVIOUS
    <3>1. doing[s].msg # 0 /\ doing[s].sent = 0
      BY <1>1, <1>4
    <3> QED
      BY <1>3, <3>1 DEF Sending
  <2> QED
    BY <1>1, <1>4, <2>1, <2>2
<1>5. StillCut(sockets, fate, fate')
  BY <1>1, StaysCut
<1> QED
  BY <1>1, <1>2, <1>3, <1>4, <1>5, NothingSent

LEMMA ConnectStreams ==
    ASSUME SocketInv, StreamInv, NEW s \in Sinks,
           Resolve(s) \/ NoSocket(s) \/ ConnectFails(s) \/ ConnectThrows(s)
    PROVE  StreamInv'
<1>1. kind' = kind /\ handle' = handle /\ made' = made /\ doing[s].step \in Connecting
  BY DEF Resolve, NoSocket, ConnectFails, ConnectThrows, Connecting
<1>2. kind[s] = "tcp" /\ handle[s] = NoHandle /\ IsDoing(doing[s]) /\ AreSockets(sockets)
  BY <1>1 DEF SocketInv, TcpOnly, NoHandleYet, Functions
<1>3. Grown(sockets, sockets')
  <2>1. CASE Resolve(s) \/ NoSocket(s) \/ ConnectThrows(s)
    <3>1. sockets' = sockets \/ \E n : sockets' = AfterCleanup(sockets, n)
      BY <2>1 DEF Resolve, NoSocket, ConnectThrows
    <3> QED
      BY <1>2, <3>1, GrownItself, CleanupGrows
  <2>2. CASE ConnectFails(s)
    <3> DEFINE m == Append(sockets, Socket(s, FALSE, FALSE, <<>>))
    <3>1. sockets' = AfterCleanup(m, winsock)
      BY <2>2, Zenon DEF ConnectFails, Socket
    <3>2. AreSockets(m)
      BY <1>2, ClosedSocket DEF SocketInv
    <3>3. Grown(sockets, m)
      BY <1>2, NewSocket, AppendGrows, Zenon
    <3> HIDE DEF m
    <3>4. Grown(m, sockets')
      BY <3>1, <3>2, CleanupGrows
    <3> QED
      BY <3>3, <3>4, GrownTwice
  <2> QED
    BY <2>1, <2>2
<1>4. CASE Ends(s, "reported")
  BY <1>1, <1>2, <1>3, <1>4, IsOver DEF Connecting
<1>5. ASSUME NEW d, d.msg = doing[s].msg, d.sent = doing[s].sent, d.step \in Connecting, Goes(s, d)
      PROVE  StreamInv'
  <2>1. doing' = [doing EXCEPT ![s] = d] /\ fate' = fate
    BY <1>5 DEF Goes
  <2> QED
    BY <1>1, <1>3, <1>5, <2>1, MovesOn DEF Connecting
<1>6. CASE NoSocket(s) \/ ConnectFails(s)
  <2>1. Goes(s, WithAt(doing[s], doing[s].at + 1))
    BY <1>6, Zenon DEF NoSocket, ConnectFails, NextAddress, WithAt
  <2>2. /\ WithAt(doing[s], doing[s].at + 1).msg = doing[s].msg
        /\ WithAt(doing[s], doing[s].at + 1).sent = doing[s].sent
        /\ WithAt(doing[s], doing[s].at + 1).step = doing[s].step
    BY <1>2, DoingKept
  <2> QED
    BY <1>1, <1>5, <2>1, <2>2, Zenon
<1>7. CASE Goes(s, [doing[s] EXCEPT !.step = "attempt"])
  <2>1. Goes(s, WithStep(doing[s], "attempt"))
    BY <1>7, Zenon DEF WithStep
  <2>2. \A v : /\ WithStep(doing[s], v).msg = doing[s].msg
              /\ WithStep(doing[s], v).sent = doing[s].sent /\ WithStep(doing[s], v).step = v
    BY <1>2, DoingKept
  <2> QED
    BY <1>5, <2>1, <2>2 DEF Connecting
<1> QED
  BY <1>4, <1>6, <1>7 DEF Resolve, ConnectThrows

LEMMA ConnectsStreams ==
    ASSUME SocketInv, StreamInv, NEW s \in Sinks, Connects(s)
    PROVE  StreamInv'
<1> DEFINE d == WithStep(doing[s], "send")
           r == Socket(s, TRUE, TRUE, <<>>)
           m == Append(sockets, r)
<1>1. /\ kind[s] = "tcp" /\ handle[s] = NoHandle /\ IsDoing(doing[s]) /\ AreSockets(sockets)
      /\ handle = [u \in Sinks |-> handle[u]]
  BY DEF Connects, SocketInv, TcpOnly, NoHandleYet, Functions, Connecting
<1>2. d.msg = doing[s].msg /\ d.sent = doing[s].sent /\ d.step = "send"
  <2>1. \A v : /\ WithStep(doing[s], v).msg = doing[s].msg
              /\ WithStep(doing[s], v).sent = doing[s].sent /\ WithStep(doing[s], v).step = v
    BY <1>1, DoingKept
  <2> QED
    BY <2>1
<1>3. /\ doing' = [doing EXCEPT ![s] = d] /\ fate' = fate /\ kind' = kind /\ made' = made
      /\ handle' = [handle EXCEPT ![s] = Len(sockets')] /\ doing[s].step = "attempt"
  BY Zenon DEF Connects, Goes, WithStep
<1> HIDE DEF d
<1>4. sockets' = m
  BY Zenon DEF Connects, Connected, Socket
<1>r. IsSocket(r) /\ r.owner = s /\ r.stream = <<>>
  BY NewSocket, Zenon
<1> HIDE DEF r
<1>5. /\ Grown(sockets, m) /\ Len(m) \in DOMAIN m /\ Len(m) \notin DOMAIN sockets
      /\ Len(m) \in Nat \ {0} /\ m[Len(m)].owner = s
  BY <1>1, <1>r, AppendGrows
<1> HIDE DEF m
<1>6. /\ handle'[s] = Len(m) /\ \A u \in Sinks : u # s => handle'[u] = handle[u]
  BY <1>1, <1>3, <1>4
<1>7. Fates' /\ doing'[s] = d /\ \A u \in Sinks : u # s => doing'[u] = doing[u]
  BY <1>2, <1>3, FatesKept
<1>8. /\ made \in Nat /\ Sending(sockets, s, doing[s], handle[s], fate)
      /\ doing[s].msg # 0
  <2>1. doing[s].step # "idle"
    BY <1>3
  <2> QED
    BY <2>1 DEF StreamInv, Fates
<1>9. Sending(m, s, d, Len(m), fate')
  <2>1. d.sent = 0 /\ \A k \in DOMAIN sockets : d.msg \notin InStream(sockets[k].stream)
    BY <1>2, <1>3, <1>8 DEF Sending
  <2>2. m[Len(m)].stream = <<>> /\ InStream(<<>>) = {}
    <3>1. m[Len(m)].stream = <<>>
      BY <1>5, Zenon DEF Grown
    <3> QED
      BY <3>1 DEF InStream
  <2>3. \A k \in DOMAIN m : d.msg \notin InStream(m[k].stream)
    <3>1. ASSUME NEW k \in DOMAIN m PROVE d.msg \notin InStream(m[k].stream)
      <4>1. m[k].stream = <<>> \/ (k \in DOMAIN sockets /\ m[k].stream = sockets[k].stream)
        BY <1>5, Zenon DEF Grown
      <4> QED
        BY <2>1, <2>2, <4>1
    <3> QED
      BY <3>1
  <2>4. Len(m) # NoHandle
    BY <1>5, RemoteAssumption
  <2> QED
    BY <1>2, <1>5, <2>1, <2>2, <2>3, <2>4 DEF Sending, AtAnEnd
<1>10. Sending(sockets', s, doing'[s], handle'[s], fate')
  BY <1>4, <1>6, <1>7, <1>9, Zenon
<1>11. StillCut(sockets, fate, fate')
  BY <1>3 DEF StillCut
<1> QED
  BY <1>3, <1>4, <1>5, <1>6, <1>7, <1>8, <1>10, <1>11, NothingSent

LEMMA RemoteLogStreams ==
    ASSUME SocketInv, StreamInv, NEW s \in Sinks, RemoteLog(s)
    PROVE  StreamInv'
<1> DEFINE l == IF kind[s] # "tcp" THEN "write"
                ELSE IF handle[s] = NoHandle THEN "resolve" ELSE "send"
           d == Doing(l, made + 1, 1, 0, 0)
<1>1. d.step = l /\ d.msg = made + 1 /\ d.sent = 0
  BY DEF Doing
<1>2. /\ doing' = [doing EXCEPT ![s] = d] /\ UNCHANGED <<kind, handle, sockets>>
      /\ doing[s].step = "idle" /\ made' = made + 1 /\ fate' = Append(fate, "pending")
  BY Zenon DEF RemoteLog, Doing
<1>3. l # "idle" /\ (l = "send" /\ kind[s] = "tcp" => handle[s] # NoHandle)
      /\ (l = "send" => kind[s] = "tcp")
  OBVIOUS
<1> HIDE DEF l, d
<1>4. doing'[s] = d /\ \A u \in Sinks : u # s => doing'[u] = doing[u]
  BY <1>2 DEF SocketInv, Functions
<1>5. Fates /\ Streams(sockets, made, fate) /\ Sending(sockets, s, doing[s], handle[s], fate)
  BY DEF StreamInv
<1>6. made \in Nat /\ fate = [m \in 1 .. made |-> fate[m]]
  BY <1>5 DEF Fates
<1>7. /\ fate' = [m \in 1 .. made' |-> fate'[m]] /\ fate'[made'] = "pending"
      /\ \A m \in 1 .. made : fate'[m] = fate[m]
  <2> DEFINE S == {fate[m] : m \in 1 .. made} \cup {"pending"}
  <2>1. fate \in Seq(S) /\ Len(fate) = made
    <3>1. fate \in [1 .. made -> S]
      BY <1>6
    <3>2. fate \in Seq(S)
      BY <1>6, <3>1, SeqDef
    <3> QED
      BY <1>6, <3>1, <3>2, LenProperties
  <2> HIDE DEF S
  <2>2. "pending" \in S
    BY DEF S
  <2> QED
    BY <1>2, <1>6, <2>1, <2>2, AppendProperties, LenProperties
<1>8. Fates'
  <2>1. ASSUME NEW u \in Sinks
        PROVE  /\ doing'[u].msg \in 0 .. made'
               /\ (doing'[u].msg = 0 <=> doing'[u].step = "idle")
               /\ doing'[u].msg # 0 => fate'[doing'[u].msg] = "pending"
    <3>1. CASE u = s
      BY <1>1, <1>2, <1>3, <1>4, <1>6, <1>7, <3>1
    <3>2. CASE u # s
      <4>1. /\ doing[u].msg \in 0 .. made /\ (doing[u].msg = 0 <=> doing[u].step = "idle")
            /\ doing[u].msg # 0 => fate[doing[u].msg] = "pending" /\ doing[u].msg \in 1 .. made
        BY <1>5 DEF Fates
      <4> QED
        BY <1>2, <1>4, <1>6, <1>7, <3>2, <4>1
    <3> QED
      BY <3>1, <3>2
  <2>2. \A u \in Sinks : u # s => doing'[u].msg # made + 1
    BY <1>4, <1>5, <1>6 DEF Fates
  <2>3. \A u, v \in Sinks : doing'[u].msg = doing'[v].msg => u = v \/ doing'[u].msg = 0
    <3> SUFFICES ASSUME NEW u \in Sinks, NEW v \in Sinks, doing'[u].msg = doing'[v].msg,
                        doing'[u].msg # 0, u # v
                 PROVE  FALSE
      OBVIOUS
    <3>1. u # s /\ v # s
      BY <1>1, <1>4, <2>2
    <3>2. doing[u].msg = doing[v].msg /\ doing[u].msg # 0
      BY <1>4, <3>1
    <3>3. \A x, y \in Sinks : doing[x].msg = doing[y].msg => x = y \/ doing[x].msg = 0
      BY <1>5 DEF Fates
    <3> QED
      BY <3>2, <3>3
  <2>4. ASSUME NEW m \in 1 .. made', fate'[m] = "pending"
        PROVE  \E u \in Sinks : doing'[u].msg = m
    <3>1. CASE m = made'
      BY <1>1, <1>2, <1>4, <3>1
    <3>2. CASE m # made'
      <4>1. m \in 1 .. made /\ fate[m] = "pending"
        BY <1>2, <1>6, <1>7, <2>4, <3>2
      <4>2. PICK u \in Sinks : doing[u].msg = m
        BY <1>5, <4>1 DEF Fates
      <4>3. u # s
        BY <1>2, <1>5, <4>1, <4>2 DEF Fates
      <4> QED
        BY <1>4, <4>2, <4>3
    <3> QED
      BY <3>1, <3>2
  <2> QED
    BY <1>2, <1>6, <1>7, <2>1, <2>3, <2>4 DEF Fates
<1>11. \A k \in DOMAIN sockets : \A i \in InStream(sockets[k].stream) : fate'[i] = fate[i]
  BY <1>5, <1>7 DEF Streams
<1>13. StillCut(sockets, fate, fate')
  BY <1>11 DEF StillCut
<1>9. Sending(sockets, s, d, handle[s], fate')
  <2>1. \A k \in DOMAIN sockets : \A m \in InStream(sockets[k].stream) : m \in 1 .. made
    BY <1>5, Zenon DEF Streams
  <2>2. doing[s].sent = 0
    BY <1>2, <1>5 DEF Sending
  <2>3. kind[s] = "tcp" /\ handle[s] # NoHandle =>
          /\ handle[s] \in DOMAIN sockets /\ sockets[handle[s]].owner = s
          /\ AtAnEnd(fate', sockets[handle[s]].stream)
    <3> SUFFICES ASSUME kind[s] = "tcp", handle[s] # NoHandle
                 PROVE  /\ handle[s] \in DOMAIN sockets /\ sockets[handle[s]].owner = s
                        /\ AtAnEnd(fate', sockets[handle[s]].stream)
      OBVIOUS
    <3>1. /\ handle[s] \in DOMAIN sockets /\ sockets[handle[s]].owner = s
          /\ AtAnEnd(fate, sockets[handle[s]].stream)
      BY <1>5, <2>2, Zenon DEF Sending
    <3>2. IsSequence(sockets[handle[s]].stream)
      BY <1>5, <3>1, Zenon DEF Streams
    <3> QED
      BY <1>13, <3>1, <3>2, EndLemma
  <2>4. kind[s] = "tcp" /\ handle[s] # NoHandle =>
            \A m \in InStream(sockets[handle[s]].stream) : m <= d.msg
    <3> SUFFICES ASSUME handle[s] \in DOMAIN sockets,
                        NEW m \in InStream(sockets[handle[s]].stream)
                 PROVE  m <= d.msg
      BY <2>3
    <3>1. m \in 1 .. made
      BY <2>1, Zenon
    <3> QED
      BY <1>1, <1>6, <3>1
  <2>5. \A k \in DOMAIN sockets : d.msg \notin InStream(sockets[k].stream)
    BY <1>1, <1>6, <2>1
  <2> QED
    BY <1>1, <1>3, <2>3, <2>4, <2>5 DEF Sending
<1>10. Grown(sockets, sockets')
  BY <1>2, GrownItself
<1>12. /\ kind' = kind /\ \A u \in Sinks : u # s => doing'[u] = doing[u] /\ handle'[u] = handle[u]
       /\ Sending(sockets', s, doing'[s], handle'[s], fate') /\ made <= made'
  BY <1>2, <1>4, <1>6, <1>9
<1> QED
  BY <1>8, <1>10, <1>11, <1>12, <1>13, NothingSent

LEMMA SendFailsStreams ==
    ASSUME SocketInv, StreamInv, NEW s \in Sinks, SendFails(s)
    PROVE  StreamInv'
<1>1. /\ Ends(s, "reported") /\ Close(s) /\ doing[s].step = "send"
      /\ kind' = kind /\ made' = made
  BY DEF SendFails
<1>2. Grown(sockets, sockets') /\ handle' = [handle EXCEPT ![s] = NoHandle]
  BY <1>1, CloseGrows
<1>3. handle'[s] = NoHandle /\ \A u \in Sinks : u # s => handle'[u] = handle[u]
  BY <1>2 DEF SocketInv, Functions
<1> QED
  BY <1>1, <1>2, <1>3, IsOver

LEMMA DestroyStreams ==
    ASSUME SocketInv, StreamInv, NEW s \in Sinks, Destroy(s)
    PROVE  StreamInv'
<1>1. /\ doing[s].step = "idle" /\ Close(s) /\ UNCHANGED <<kind, doing, made, fate>>
  BY DEF Destroy
<1>2. Grown(sockets, sockets') /\ handle' = [handle EXCEPT ![s] = NoHandle]
  BY <1>1, CloseGrows
<1>3. handle'[s] = NoHandle /\ \A u \in Sinks : u # s => handle'[u] = handle[u]
  BY <1>2 DEF SocketInv, Functions
<1>4. Fates' /\ made \in Nat /\ doing[s].msg = 0 /\ Sending(sockets, s, doing[s], handle[s], fate)
  BY <1>1 DEF StreamInv, Fates
<1>5. Sending(sockets', s, doing'[s], handle'[s], fate')
  BY <1>1, <1>3, <1>4 DEF Sending
<1>6. StillCut(sockets, fate, fate')
  BY <1>1 DEF StillCut
<1> QED
  BY <1>1, <1>2, <1>3, <1>4, <1>5, <1>6, NothingSent

LEMMA BreaksStreams ==
    ASSUME SocketInv, StreamInv, Breaks
    PROVE  StreamInv'
<1>1. UNCHANGED <<kind, doing, handle, made, fate>>
  BY DEF Breaks
<1>2. PICK i \in DOMAIN sockets : sockets' = [sockets EXCEPT ![i].alive = FALSE]
  BY DEF Breaks
<1>3. AreSockets(sockets) /\ sockets = [k \in DOMAIN sockets |-> sockets[k]]
  BY SequenceLemma DEF SocketInv, AreSockets
<1>4. /\ DOMAIN sockets' = DOMAIN sockets
      /\ \A k \in DOMAIN sockets :
            sockets'[k] = sockets[k] \/ sockets'[k] = WithAlive(sockets[k], FALSE)
  BY <1>2, <1>3, Zenon DEF WithAlive
<1>5. ASSUME NEW k \in DOMAIN sockets
      PROVE  /\ sockets'[k].owner = sockets[k].owner
             /\ sockets'[k].stream = sockets[k].stream
  <2>1. IsSocket(sockets[k])
    BY <1>3 DEF AreSockets
  <2>2. /\ WithAlive(sockets[k], FALSE).owner = sockets[k].owner
        /\ WithAlive(sockets[k], FALSE).stream = sockets[k].stream
    BY <2>1, StreamKept, Zenon
  <2> QED
    BY <1>4, <2>2, Zenon
<1>6. Grown(sockets, sockets')
  BY <1>4, <1>5, Zenon DEF Grown
<1>7. sockets[i].owner \in Sinks
  BY <1>3 DEF AreSockets
<1>8. /\ \A u \in Sinks : doing'[u] = doing[u] /\ handle'[u] = handle[u]
      /\ \A k \in DOMAIN sockets : \A m \in InStream(sockets[k].stream) : fate'[m] = fate[m]
      /\ Fates' /\ made <= made' /\ kind' = kind
  BY <1>1 DEF StreamInv, Fates
<1>10. StillCut(sockets, fate, fate')
  BY <1>8 DEF StillCut
<1>9. \A u \in Sinks : Sending(sockets', u, doing'[u], handle'[u], fate')
  <2> SUFFICES ASSUME NEW u \in Sinks PROVE Sending(sockets', u, doing'[u], handle'[u], fate')
    OBVIOUS
  <2>2. Sending(sockets', u, doing[u], handle[u], fate')
    BY <1>6, <1>10, SendingStays, Zenon
  <2> QED
    BY <1>8, <2>2, Zenon
<1> QED
  BY <1>6, <1>7, <1>8, <1>9, <1>10, NothingSent

LEMMA OthersStreams ==
    ASSUME SocketInv, StreamInv, NEW s \in Sinks, EventLog(s) \/ Android(s) \/ Journal(s)
    PROVE  StreamInv'
<1>1. /\ doing[s].step = "write" /\ kind[s] # "tcp"
      /\ kind' = kind /\ sockets' = sockets /\ made' = made
  BY DEF EventLog, Android, Journal
<1>2. \A u \in Sinks : u # s => handle'[u] = handle[u]
  BY DEF EventLog, Android, Journal, SocketInv, Functions
<1>3. Grown(sockets, sockets')
  BY <1>1, GrownItself
<1>4. doing[s].sent = 0
  <2>1. Sending(sockets, s, doing[s], handle[s], fate)
    BY DEF StreamInv
  <2> QED
    BY <1>1, <2>1 DEF Sending
<1>5. ASSUME NEW f, f # "pending", Ends(s, f) PROVE StreamInv'
  BY <1>1, <1>2, <1>3, <1>4, <1>5, IsOver
<1>6. ASSUME NEW v, Goes(s, WithTries(doing[s], v)), handle' = handle PROVE StreamInv'
  <2>1. IsDoing(doing[s])
    BY DEF SocketInv, Functions
  <2>2. /\ WithTries(doing[s], v).msg = doing[s].msg
        /\ WithTries(doing[s], v).sent = doing[s].sent
        /\ WithTries(doing[s], v).step = doing[s].step
    BY <2>1, DoingKept
  <2>3. doing' = [doing EXCEPT ![s] = WithTries(doing[s], v)] /\ fate' = fate
    BY <1>6 DEF Goes
  <2> QED
    BY <1>1, <1>3, <1>6, <2>2, <2>3, MovesOn
<1>7. \/ \E f : f # "pending" /\ Ends(s, f)
      \/ handle' = handle /\ Goes(s, WithTries(doing[s], doing[s].tries + 1))
  <2>1. CASE EventLog(s)
    BY <2>1 DEF EventLog
  <2>2. CASE Journal(s)
    BY <2>2 DEF Journal
  <2>3. CASE Android(s)
    BY <2>3 DEF Android, WithTries
  <2> QED
    BY <2>1, <2>2, <2>3
<1> QED
  BY <1>5, <1>6, <1>7

\* n more bytes of message b, after the a bytes that were sent.
Bytes(b, a, n) == [i \in 1 .. n |-> <<b, a + i>>]
Longer(st, b, a, n) == st \o Bytes(b, a, n)

LEMMA MoreBytes ==
    ASSUME NEW f, NEW st, IsSequence(st), Whole(f, st), NEW p \in Nat, InStream(st) \subseteq 1 .. p,
           NEW b \in Nat, NEW a \in Nat, NEW n \in 1 .. MsgLen - a,
           \A m \in InStream(st) : m <= b, b \in InStream(st) => a > 0,
           a = 0 => AtAnEnd(f, st),
           a > 0 => st # <<>> /\ st[Len(st)] = <<b, a>>
    PROVE  LET m == Longer(st, b, a, n) IN
           /\ IsSequence(m) /\ Whole(f, m) /\ InStream(m) = InStream(st) \cup {b}
           /\ Len(m) \in DOMAIN m /\ m[Len(m)] = <<b, a + n>> /\ m # <<>>
           /\ \A i \in DOMAIN st : i \in DOMAIN m /\ m[i] = st[i]
<1> DEFINE m == st \o Bytes(b, a, n)
<1>1. MsgLen \in Nat /\ n \in Nat \ {0} /\ a + n <= MsgLen
  BY RemoteAssumption
<1>2. PICK S : st \in Seq(S)
  BY DEF IsSequence
<1> DEFINE T == S \cup {<<b, a + i>> : i \in 1 .. n}
<1>3. st \in Seq(T) /\ Bytes(b, a, n) \in Seq(T) /\ Len(Bytes(b, a, n)) = n
  <2>1. st \in Seq(T)
    BY <1>2, SeqMonotonic
  <2>2. Bytes(b, a, n) \in [1 .. n -> T]
    BY DEF Bytes
  <2>3. Bytes(b, a, n) \in Seq(T)
    BY <1>1, <2>2, SeqDef
  <2> QED
    BY <1>1, <2>1, <2>2, <2>3, LenProperties
<1> HIDE DEF T
<1>4. /\ m \in Seq(T) /\ Len(m) = Len(st) + n /\ Len(st) \in Nat
      /\ \A i \in 1 .. Len(m) :
            m[i] = IF i <= Len(st) THEN st[i] ELSE Bytes(b, a, n)[i - Len(st)]
  <2> DEFINE u == Bytes(b, a, n)
  <2>1. st \in Seq(T) /\ u \in Seq(T) /\ Len(u) = n
    BY <1>3
  <2> HIDE DEF u
  <2>2. /\ st \o u \in Seq(T) /\ Len(st \o u) = Len(st) + Len(u)
        /\ \A i \in 1 .. Len(st) + Len(u) :
              (st \o u)[i] = IF i <= Len(st) THEN st[i] ELSE u[i - Len(st)]
    BY <2>1, ConcatProperties
  <2>3. Len(st) \in Nat
    BY <2>1, LenProperties
  <2> QED
    BY <2>1, <2>2, <2>3 DEF u
<1>5. DOMAIN m = 1 .. Len(st) + n /\ DOMAIN st = 1 .. Len(st) /\ (st = <<>> <=> Len(st) = 0)
  <2>1. DOMAIN m = 1 .. Len(m) /\ DOMAIN st = 1 .. Len(st)
    <3> HIDE DEF m
    <3> QED
      BY <1>3, <1>4, LenProperties
  <2>2. st = <<>> <=> Len(st) = 0
    BY <1>3, EmptySeq
  <2> QED
    BY <1>4, <2>1, <2>2
<1> HIDE DEF m
<1>6. \A i \in 1 .. n : Bytes(b, a, n)[i] = <<b, a + i>>
  BY DEF Bytes
<1>7. /\ \A i \in 1 .. Len(st) : m[i] = st[i]
      /\ \A i \in 1 .. Len(st) + n : i > Len(st) => m[i] = <<b, a + (i - Len(st))>>
  <2>1. ASSUME NEW i \in 1 .. Len(st) PROVE m[i] = st[i]
    BY <1>1, <1>4
  <2>2. ASSUME NEW i \in 1 .. Len(st) + n, i > Len(st) PROVE m[i] = <<b, a + (i - Len(st))>>
    <3>1. i - Len(st) \in 1 .. n /\ ~(i <= Len(st)) /\ i \in 1 .. Len(m)
      BY <1>1, <1>4, <2>2
    <3>2. m[i] = Bytes(b, a, n)[i - Len(st)]
      BY <1>4, <3>1
    <3> QED
      BY <1>6, <3>1, <3>2
  <2> QED
    BY <2>1, <2>2
<1>8. InStream(m) = InStream(st) \cup {b}
  <2>1. \A i \in 1 .. Len(st) + n : i > Len(st) => m[i][1] = b
    BY <1>7
  <2>2. Len(st) + 1 \in 1 .. Len(st) + n /\ Len(st) + 1 > Len(st)
    BY <1>1, <1>4
  <2>3. \A i \in DOMAIN m : m[i][1] \in InStream(st) \cup {b}
    BY <1>1, <1>4, <1>5, <1>7, <2>1 DEF InStream
  <2>4. InStream(st) \subseteq InStream(m)
    BY <1>1, <1>4, <1>5, <1>7 DEF InStream
  <2>5. b \in InStream(m)
    BY <1>5, <2>1, <2>2 DEF InStream
  <2> QED
    BY <2>3, <2>4, <2>5 DEF InStream
<1>9. Whole(f, m)
  <2> SUFFICES ASSUME NEW i \in DOMAIN m
               PROVE  /\ m[i][2] \in 1 .. MsgLen
                      /\ i = 1 => m[i][2] = 1
                      /\ i # 1 => Follows(f, m[i - 1], m[i])
    BY DEF Whole
  <2>1. CASE i <= Len(st)
    <3>1. /\ i \in DOMAIN st /\ m[i] = st[i] /\ (i # 1 => m[i - 1] = st[i - 1])
      BY <1>4, <1>5, <1>7, <2>1
    <3> QED
      BY <3>1 DEF Whole
  <2>2. CASE i = Len(st) + 1
    <3>1. m[i] = <<b, a + 1>> /\ a + 1 \in 1 .. MsgLen
      BY <1>1, <1>4, <1>5, <1>7, <2>2
    <3>2. CASE i = 1
      <4>1. st = <<>>
        BY <1>4, <1>5, <2>2, <3>2
      <4> QED
        BY <3>1, <3>2, <4>1
    <3>3. CASE i # 1
      <4>1. i - 1 = Len(st) /\ Len(st) \in DOMAIN st /\ m[i - 1] = st[Len(st)] /\ st # <<>>
        BY <1>4, <1>5, <1>7, <2>2, <3>3
      <4>2. CASE a > 0
        BY <3>1, <3>3, <4>1, <4>2 DEF Follows
      <4>3. CASE a = 0
        <5>1. /\ st[Len(st)][2] = MsgLen \/ f[st[Len(st)][1]] = "cut"
              /\ st[Len(st)][1] \in InStream(st)
          BY <4>1, <4>3 DEF InStream, AtAnEnd
        <5>2. st[Len(st)][1] < b
          BY <4>3, <5>1
        <5> QED
          BY <3>1, <3>3, <4>1, <4>3, <5>1, <5>2 DEF Follows
      <4> QED
        BY <4>2, <4>3
    <3> QED
      BY <3>2, <3>3
  <2>3. CASE i > Len(st) + 1
    <3>1. i \in 1 .. Len(st) + n /\ Len(st) \in Nat
      BY <1>4, <1>5
    <3>2. /\ i - 1 \in 1 .. Len(st) + n /\ i - 1 > Len(st) /\ i > Len(st)
          /\ i # 1 /\ a + (i - Len(st)) = (a + ((i - 1) - Len(st))) + 1
          /\ a + (i - Len(st)) \in 1 .. MsgLen
      <4>1. /\ i - 1 \in 1 .. Len(st) + n /\ i - 1 > Len(st) /\ i > Len(st) /\ i # 1
            /\ i \in Int /\ i <= Len(st) + n
        BY <1>1, <2>3, <3>1
      <4>2. a + (i - Len(st)) = (a + ((i - 1) - Len(st))) + 1
        BY <3>1, <4>1
      <4>3. a + (i - Len(st)) \in 1 .. MsgLen
        BY <1>1, <3>1, <4>1
      <4> QED
        BY <4>1, <4>2, <4>3
    <3>3. m[i] = <<b, a + (i - Len(st))>> /\ m[i - 1] = <<b, a + ((i - 1) - Len(st))>>
      BY <1>7, <3>1, <3>2
    <3> QED
      BY <3>2, <3>3 DEF Follows
  <2> QED
    BY <1>4, <1>5, <2>1, <2>2, <2>3
<1>10. Len(m) \in DOMAIN m /\ m[Len(m)] = <<b, a + n>> /\ m # <<>>
  BY <1>1, <1>4, <1>5, <1>7
<1>11. IsSequence(m) /\ \A i \in DOMAIN st : i \in DOMAIN m /\ m[i] = st[i]
  BY <1>1, <1>4, <1>5, <1>7 DEF IsSequence
<1> QED
  BY <1>8, <1>9, <1>10, <1>11 DEF m, Longer

LEMMA SendsStreams ==
    ASSUME SocketInv, StreamInv, NEW s \in Sinks, Sends(s)
    PROVE  StreamInv'
<1> DEFINE h == handle[s]
           b == doing[s].msg
           a == doing[s].sent
           st == sockets[h].stream
<1>1. doing[s].step = "send" /\ UNCHANGED <<kind, handle, made>>
  BY DEF Sends
<1>2. kind[s] = "tcp" /\ IsDoing(doing[s]) /\ AreSockets(sockets)
  BY <1>1 DEF SocketInv, TcpOnly, Functions
<1>3. PICK n \in 1 .. MsgLen - a :
          /\ sockets' = [sockets EXCEPT ![h] = WithStream(sockets[h], Longer(st, b, a, n))]
          /\ \/ a + n = MsgLen /\ Ends(s, "taken")
             \/ Goes(s, WithSent(doing[s], a + n))
  BY Zenon DEF Sends, Bytes, Longer, WithStream, WithSent
<1>4. /\ Fates /\ Streams(sockets, made, fate) /\ TakenWhole(sockets, fate)
      /\ Sending(sockets, s, doing[s], h, fate)
  BY DEF StreamInv
<1>5. made \in Nat /\ b \in 1 .. made
  BY <1>1, <1>4 DEF Fates
<1>6. /\ a \in Nat /\ h # NoHandle /\ h \in DOMAIN sockets /\ sockets[h].owner = s
      /\ a = 0 => AtAnEnd(fate, st)
      /\ a > 0 => st # <<>> /\ st[Len(st)] = <<b, a>>
      /\ \A m \in InStream(st) : m <= b
      /\ \A k \in DOMAIN sockets : b \in InStream(sockets[k].stream) => k = h /\ a > 0
  BY <1>1, <1>2, <1>4, <1>5 DEF Sending
<1>7. /\ IsSequence(st) /\ Whole(fate, st) /\ InStream(st) \subseteq 1 .. made
      /\ \A j \in DOMAIN sockets \ {h} : InStream(st) \cap InStream(sockets[j].stream) = {}
  BY <1>4, <1>6 DEF Streams
<1> DEFINE t == Longer(st, b, a, n)
<1>8. /\ IsSequence(t) /\ Whole(fate, t) /\ InStream(t) = InStream(st) \cup {b}
      /\ Len(t) \in DOMAIN t /\ t[Len(t)] = <<b, a + n>> /\ t # <<>>
      /\ \A i \in DOMAIN st : i \in DOMAIN t /\ t[i] = st[i]
  <2>1. /\ b \in Nat /\ (b \in InStream(st) => a > 0) /\ n \in 1 .. MsgLen - a
    BY <1>3, <1>5, <1>6
  <2> HIDE DEF st, a, b
  <2> QED
    BY <1>5, <1>6, <1>7, <2>1, MoreBytes
<1>9. /\ DOMAIN sockets' = DOMAIN sockets
      /\ sockets'[h].owner = s /\ sockets'[h].stream = t
      /\ \A k \in DOMAIN sockets : k # h => sockets'[k] = sockets[k]
  <2>1. IsSocket(sockets[h])
    BY <1>2, <1>6 DEF AreSockets
  <2>2. WithStream(sockets[h], t).stream = t /\ WithStream(sockets[h], t).owner = s
    BY <1>6, <2>1, StreamKept
  <2>3. /\ DOMAIN sockets' = DOMAIN sockets /\ sockets'[h] = WithStream(sockets[h], t)
        /\ \A k \in DOMAIN sockets : k # h => sockets'[k] = sockets[k]
    BY <1>3, <1>6, Zenon
  <2> QED
    BY <2>2, <2>3, Zenon
<1> HIDE DEF t
<1>16. /\ \A m \in 1 .. made : fate[m] = "cut" => fate'[m] = "cut"
       /\ StillCut(sockets, fate, fate') /\ Whole(fate', t)
  <2>1. b \in 1 .. made /\ fate[b] = "pending"
    BY <1>4, <1>5 DEF Fates
  <2>2. fate' = fate \/ \A m \in 1 .. made : m # b => fate'[m] = fate[m]
    <3>1. CASE Ends(s, "taken")
      BY <1>1, <3>1, FateKnown
    <3>2. CASE Goes(s, WithSent(doing[s], a + n))
      BY <3>2 DEF Goes
    <3> QED
      BY <1>3, <3>1, <3>2
  <2>3. \A m \in 1 .. made : fate[m] = "cut" => fate'[m] = "cut"
    BY <2>1, <2>2
  <2>4. StillCut(sockets, fate, fate')
    BY <1>4, <2>3, Zenon DEF StillCut, Streams
  <2>5. InStream(t) \subseteq 1 .. made
    BY <1>7, <1>8, <2>1
  <2>6. Whole(fate', t)
    BY <1>8, <2>3, <2>5, WholeKept
  <2> QED
    BY <2>3, <2>4, <2>6
<1>10. Streams(sockets', made', fate')
  <2>1. ASSUME NEW k \in DOMAIN sockets'
        PROVE  /\ IsSequence(sockets'[k].stream) /\ Whole(fate', sockets'[k].stream)
               /\ InStream(sockets'[k].stream) \subseteq 1 .. made'
    <3>1. CASE k = h
      BY <1>1, <1>5, <1>7, <1>8, <1>9, <1>16, <3>1
    <3>2. CASE k # h
      <4>1. /\ k \in DOMAIN sockets /\ sockets'[k] = sockets[k] /\ IsSequence(sockets[k].stream)
            /\ Whole(fate, sockets[k].stream) /\ InStream(sockets[k].stream) \subseteq 1 .. made
        BY <1>4, <1>9, <3>2, Zenon DEF Streams
      <4>2. Whole(fate', sockets[k].stream)
        BY <1>16, <4>1, WholeKept
      <4> QED
        BY <1>1, <4>1, <4>2
    <3> QED
      BY <3>1, <3>2
  <2>2. ASSUME NEW k \in DOMAIN sockets', NEW j \in DOMAIN sockets' \ {k}
        PROVE  InStream(sockets'[k].stream) \cap InStream(sockets'[j].stream) = {}
    <3>1. ASSUME NEW i \in DOMAIN sockets \ {h}
          PROVE  InStream(t) \cap InStream(sockets[i].stream) = {}
      BY <1>6, <1>7, <1>8
    <3>2. CASE k = h \/ j = h
      BY <1>9, <3>1, <3>2
    <3>3. CASE k # h /\ j # h
      BY <1>4, <1>9, <3>3 DEF Streams
    <3> QED
      BY <3>2, <3>3
  <2> QED
    BY <2>1, <2>2 DEF Streams
<1>11. \A u \in Sinks : u # s => Sending(sockets', u, doing[u], handle[u], fate')
  <2> SUFFICES ASSUME NEW u \in Sinks, u # s PROVE Sending(sockets', u, doing[u], handle[u], fate')
    OBVIOUS
  <2>1. Sending(sockets, u, doing[u], handle[u], fate) /\ (doing[u].msg # 0 => doing[u].msg # b)
    BY <1>4, <1>5 DEF StreamInv, Fates
  <2>2. kind[u] = "tcp" /\ handle[u] # NoHandle =>
           /\ handle[u] \in DOMAIN sockets /\ handle[u] # h
           /\ sockets'[handle[u]] = sockets[handle[u]]
    BY <1>6, <1>9, <2>1 DEF Sending
  <2>4. kind[u] = "tcp" /\ handle[u] # NoHandle /\ AtAnEnd(fate, sockets[handle[u]].stream) =>
            AtAnEnd(fate', sockets[handle[u]].stream)
    <3>1. kind[u] = "tcp" /\ handle[u] # NoHandle => IsSequence(sockets[handle[u]].stream)
      BY <1>4, <2>2, Zenon DEF Streams
    <3> QED
      BY <1>16, <2>2, <3>1, EndLemma
  <2>3. ASSUME doing[u].msg # 0, NEW k \in DOMAIN sockets',
               doing[u].msg \in InStream(sockets'[k].stream)
        PROVE  k = handle[u] /\ doing[u].sent > 0
    <3>1. doing[u].msg \in InStream(sockets[k].stream) /\ k \in DOMAIN sockets
      BY <1>8, <1>9, <2>1, <2>3
    <3> QED
      BY <2>1, <2>3, <3>1, Zenon DEF Sending
  <2> QED
    BY <1>9, <2>1, <2>2, <2>3, <2>4 DEF Sending
<1>12. /\ TakenWhole(sockets', fate') /\ Fates' /\ Sending(sockets', s, doing'[s], handle'[s], fate')
       /\ \A u \in Sinks : u # s => doing'[u] = doing[u]
  <2>1. \A k \in DOMAIN sockets : \A m \in InStream(sockets[k].stream) : m \in 1 .. made
    BY <1>4, Zenon DEF Streams
  <2>2. ASSUME NEW f, \A m \in 1 .. made : m # b => f[m] = fate[m],
               f[b] = "taken" => a + n = MsgLen
        PROVE  TakenWhole(sockets', f)
    <3> SUFFICES ASSUME NEW k \in DOMAIN sockets', NEW m \in InStream(sockets'[k].stream),
                        f[m] = "taken"
                 PROVE  \E i \in DOMAIN sockets'[k].stream : sockets'[k].stream[i] = <<m, MsgLen>>
      BY DEF TakenWhole
    <3>1. CASE m = b
      <4>1. k = h
        BY <1>6, <1>9, <3>1
      <4> QED
        BY <1>8, <1>9, <2>2, <3>1, <4>1
    <3>2. CASE m # b
      <4>1. k \in DOMAIN sockets /\ m \in InStream(sockets[k].stream)
        BY <1>8, <1>9, <3>2
      <4>2. fate[m] = "taken"
        BY <2>1, <2>2, <3>2, <4>1
      <4>3. PICK i \in DOMAIN sockets[k].stream : sockets[k].stream[i] = <<m, MsgLen>>
        BY <1>4, <4>1, <4>2, Zenon DEF TakenWhole
      <4> QED
        BY <1>8, <1>9, <4>1, <4>3
    <3> QED
      BY <3>1, <3>2
  <2>3. ASSUME NEW d, d.step = "send" \/ (d.step = "idle" /\ d.msg = 0 /\ d.sent = 0),
               d.sent = 0 => a + n = MsgLen, d.sent > 0 => d.sent = a + n /\ d.step = "send",
               d.msg # 0 => d.msg = b /\ d.sent > 0, d.sent \in Nat,
               d.sent > 0 => d.msg = b
        PROVE  Sending(sockets', s, d, h, fate')
    <3>1. t[Len(t)][2] = a + n /\ \A m \in InStream(t) : m <= b
      BY <1>5, <1>6, <1>8
    <3>2. \A k \in DOMAIN sockets' : b \in InStream(sockets'[k].stream) => k = h
      BY <1>6, <1>9
    <3> QED
      BY <1>6, <1>8, <1>9, <2>3, <3>1, <3>2 DEF Sending, AtAnEnd
  <2>4. CASE a + n = MsgLen /\ Ends(s, "taken")
    <3>1. /\ Fates' /\ doing'[s] = Idle /\ \A u \in Sinks : u # s => doing'[u] = doing[u]
          /\ \A m \in 1 .. made : m # b => fate'[m] = fate[m]
      BY <1>1, <2>4, FateKnown
    <3>2. Sending(sockets', s, Idle, h, fate')
      BY <2>3, <2>4, IdleFields
    <3> QED
      BY <1>1, <2>2, <2>4, <3>1, <3>2
  <2>5. CASE Goes(s, WithSent(doing[s], a + n))
    <3> DEFINE d == WithSent(doing[s], a + n)
    <3>1. d.msg = b /\ d.sent = a + n /\ d.step = "send"
      BY <1>1, <1>2, DoingKept
    <3>2. doing' = [doing EXCEPT ![s] = d] /\ fate' = fate
      BY <2>5 DEF Goes
    <3> HIDE DEF d
    <3>3. Fates' /\ doing'[s] = d /\ \A u \in Sinks : u # s => doing'[u] = doing[u]
      BY <1>1, <3>1, <3>2, FatesKept
    <3>4. a + n > 0 /\ a + n \in Nat /\ fate[b] = "pending"
      <4>1. MsgLen \in Nat /\ a \in Nat /\ n \in 1 .. MsgLen - a /\ b # 0
        BY <1>3, <1>5, <1>6, RemoteAssumption
      <4>2. fate[b] = "pending"
        BY <1>4, <4>1 DEF Fates
      <4> QED
        BY <4>1, <4>2
    <3>5. Sending(sockets', s, d, h, fate')
      BY <2>3, <3>1, <3>4
    <3> QED
      BY <1>1, <2>2, <3>2, <3>3, <3>4, <3>5
  <2> QED
    BY <1>3, <2>4, <2>5
<1>13. \A u \in Sinks : Sending(sockets', u, doing'[u], handle'[u], fate')
  BY <1>1, <1>11, <1>12
<1>14. Streams(sockets, made, fate)' /\ TakenWhole(sockets, fate)'
  BY <1>10, <1>12 DEF Streams, TakenWhole
<1>15. \A u \in Sinks : Sending(sockets, u, doing[u], handle[u], fate)'
  BY <1>1, <1>13, Zenon DEF Sending
<1> QED
  BY <1>12, <1>14, <1>15 DEF StreamInv

\* A write of no bytes: the connection is at the end of the part of a message
\* that was cut.
LEMMA SendsNothingStreams ==
    ASSUME SocketInv, StreamInv, NEW s \in Sinks, SendsNothing(s)
    PROVE  StreamInv'
<1> DEFINE h == handle[s]
           b == doing[s].msg
<1>1. /\ doing[s].step = "send" /\ Ends(s, "cut")
      /\ UNCHANGED <<kind, handle, sockets, made>>
  BY DEF SendsNothing
<1>2. kind[s] = "tcp"
  BY <1>1 DEF SocketInv, TcpOnly
<1>3. /\ Fates' /\ doing'[s] = Idle /\ \A u \in Sinks : u # s => doing'[u] = doing[u]
      /\ b \in 1 .. made /\ fate'[b] = "cut"
      /\ \A m \in 1 .. made : m # b => fate'[m] = fate[m]
  BY <1>1, FateKnown
<1>4. StillCut(sockets, fate, fate')
  BY <1>3, StaysCut
<1>5. Sending(sockets, s, doing[s], h, fate) /\ Streams(sockets, made, fate) /\ made \in Nat
  BY DEF StreamInv, Fates
<1>6. h # NoHandle /\ h \in DOMAIN sockets /\ sockets[h].owner = s
  BY <1>1, <1>2, <1>5 DEF Sending
<1>7. AtAnEnd(fate', sockets[h].stream)
  <2>1. CASE doing[s].sent = 0
    <3>1. AtAnEnd(fate, sockets[h].stream) /\ IsSequence(sockets[h].stream)
      BY <1>2, <1>5, <1>6, <2>1 DEF Sending, Streams
    <3> QED
      BY <1>4, <1>6, <3>1, EndLemma
  <2>2. CASE doing[s].sent > 0
    <3>1. sockets[h].stream[Len(sockets[h].stream)] = <<b, doing[s].sent>>
      BY <1>2, <1>5, <1>6, <2>2 DEF Sending
    <3> QED
      BY <1>3, <3>1 DEF AtAnEnd
  <2> QED
    BY <1>5, <2>1, <2>2 DEF Sending
<1>8. Sending(sockets', s, doing'[s], handle'[s], fate')
  BY <1>1, <1>3, <1>6, <1>7, IdleFields DEF Sending
<1>9. \A k \in DOMAIN sockets : \A i \in InStream(sockets[k].stream) :
          fate'[i] = "taken" => fate[i] = "taken"
  BY <1>3, <1>5 DEF Streams
<1>10. Grown(sockets, sockets') /\ \A u \in Sinks : handle'[u] = handle[u]
  BY <1>1, GrownItself
<1> QED
  BY <1>1, <1>3, <1>4, <1>5, <1>8, <1>9, <1>10, NothingSent

LEMMA StreamsStart == RemoteInit => StreamInv
<1> SUFFICES ASSUME RemoteInit PROVE StreamInv
  OBVIOUS
<1>1. /\ doing = [s \in Sinks |-> Idle] /\ handle = [s \in Sinks |-> NoHandle]
      /\ sockets = <<>> /\ made = 0 /\ fate = <<>>
  BY DEF RemoteInit
<1>2. DOMAIN sockets = {} /\ 1 .. made = {}
  BY <1>1
<1>3. Fates
  BY <1>1, <1>2, IdleFields DEF Fates
<1>4. Streams(sockets, made, fate) /\ TakenWhole(sockets, fate)
  BY <1>2 DEF Streams, TakenWhole
<1>5. \A s \in Sinks : Sending(sockets, s, doing[s], handle[s], fate)
  BY <1>1, <1>2, IdleFields DEF Sending
<1> QED
  BY <1>3, <1>4, <1>5 DEF StreamInv

\* However the messages are cut and the connections broken, a server reads whole
\* messages but for those whose send() was left at a write of no bytes, and every
\* other loss of one is reported.
THEOREM ServersReadWholeMessages == RemoteSpec => []WholeMessages
<1>1. SocketInv /\ StreamInv /\ [RemoteNext]_remoteVars => StreamInv'
  <2> SUFFICES ASSUME SocketInv, StreamInv, [RemoteNext]_remoteVars PROVE StreamInv'
    OBVIOUS
  <2>1. CASE UNCHANGED remoteVars
    <3>1. UNCHANGED <<kind, doing, handle, sockets, made, fate>>
      BY <2>1 DEF remoteVars
    <3>2. Fates'
      BY <3>1 DEF StreamInv, Fates
    <3>4. Streams(sockets, made, fate)' /\ TakenWhole(sockets, fate)'
      BY <3>1 DEF StreamInv, Streams, TakenWhole
    <3>3. \A s \in Sinks : Sending(sockets, s, doing[s], handle[s], fate)'
      BY <3>1 DEF StreamInv, Sending
    <3> QED
      BY <3>2, <3>3, <3>4 DEF StreamInv
  <2> QED
    BY <2>1, RemoteLogStreams, ConnectStreams, ConnectsStreams, SendsStreams, SendsNothingStreams,
       SendFailsStreams, BreaksStreams, DestroyStreams, OthersStreams
       DEF RemoteNext
<1>2. SocketInv /\ [RemoteNext]_remoteVars => SocketInv'
  BY StepKeeps
<1>3. StreamInv => WholeMessages
  <2> SUFFICES ASSUME StreamInv PROVE WholeMessages
    OBVIOUS
  <2>1. \A k \in DOMAIN sockets :
          /\ Whole(fate, sockets[k].stream)
          /\ \A l \in DOMAIN sockets \ {k} :
                InStream(sockets[k].stream) \cap InStream(sockets[l].stream) = {}
    BY DEF StreamInv, Streams
  <2>2. ASSUME NEW m \in 1 .. made, \A s \in Sinks : doing[s].msg # m PROVE fate[m] # "pending"
    BY <2>2, Zenon DEF StreamInv, Fates
  <2>3. ASSUME NEW m \in 1 .. made, NEW k \in DOMAIN sockets, fate[m] = "taken",
               m \in InStream(sockets[k].stream)
        PROVE  \E i \in DOMAIN sockets[k].stream : sockets[k].stream[i] = <<m, MsgLen>>
    BY <2>3, Zenon DEF StreamInv, TakenWhole
  <2> QED
    BY <2>1, <2>2, <2>3 DEF WholeMessages
<1> QED
  BY <1>1, <1>2, <1>3, RemoteStart, StreamsStart, PTL DEF RemoteSpec

=============================================================================
