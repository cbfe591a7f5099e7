---------------------------- MODULE RemoteSinks -----------------------------
(***************************************************************************)
(* Sinks that hand a message to something outside of the process: a server *)
(* (tcp_sink with the tcp_client of each system), the event log of Windows,*)
(* the journal, the log of Android.  Each sink is used by a thread of its  *)
(* own, under its mutex; on Windows all of them share Winsock, which is    *)
(* started and stopped for the whole process.  Connections fail, break and *)
(* take a part of what they are given; every other call may fail.          *)
(***************************************************************************)
EXTENDS Naturals, Sequences, FiniteSets

CONSTANTS
    Sinks,          \* sinks, each with its thread
    SinkKinds,      \* functions that give the sinks their kinds
    Systems,        \* "posix", "windows"
    MsgLen,         \* bytes of a message
    Addresses,      \* addresses of the server, as many as getaddrinfo finds
    AndroidRetries, \* SPDLOG_ANDROID_RETRIES
    NoHandle,       \* -1, INVALID_SOCKET, nullptr
    Denied,         \* (HANDLE)ERROR_ACCESS_DENIED
    Source,         \* a handle of RegisterEventSource
    MaxMessages,    \* bound: messages logged
    MaxSockets      \* bound: sockets made

\* What means "no socket" is no descriptor: the first socket is number 1.
ASSUME RemoteAssumption ==
    /\ NoHandle \notin Nat \ {0} /\ NoHandle \notin {Denied, Source}
    /\ {MsgLen, Addresses, AndroidRetries, MaxMessages, MaxSockets} \subseteq Nat

VARIABLES
    os, kind,
    doing,      \* what log() of the sink is at: [step, msg, at, sent, tries]
    handle,     \* socket_ or hEventLog_
    sockets,    \* [owner, open, alive, stream] in the order they were made
    winsock,    \* calls of WSAStartup without a WSACleanup
    made,       \* messages so far
    fate        \* of each message: "pending", "taken", "reported", "cut"

remoteVars == <<os, kind, doing, handle, sockets, winsock, made, fate>>

Idle == [step |-> "idle", msg |-> 0, at |-> 0, sent |-> 0, tries |-> 0]

RemoteInit ==
    /\ os \in Systems /\ kind \in SinkKinds
    /\ doing = [s \in Sinks |-> Idle]
    /\ handle = [s \in Sinks |-> NoHandle]
    /\ sockets = <<>> /\ winsock = 0
    /\ made = 0 /\ fate = <<>>

-----------------------------------------------------------------------------
\* The call of log() is over; an exception reaches the logger's handler.
Ends(s, f) ==
    /\ doing' = [doing EXCEPT ![s] = Idle]
    /\ fate' = [fate EXCEPT ![doing[s].msg] = f]

Goes(s, d) == doing' = [doing EXCEPT ![s] = d] /\ UNCHANGED fate

\* WSACleanup: at the last one Winsock breaks every socket there is.
AfterCleanup(socks, n) ==
    IF os = "windows" /\ n <= 1 THEN [k \in DOMAIN socks |-> [socks[k] EXCEPT !.alive = FALSE]]
    ELSE socks
Cleanup(n) == IF n = 0 THEN 0 ELSE n - 1

\* close(): without a socket, nothing on Linux, a WSACleanup all the same on Windows.
Close(s) ==
    LET closed == IF handle[s] = NoHandle THEN sockets
                  ELSE [sockets EXCEPT ![handle[s]].open = FALSE]
    IN  /\ sockets' = AfterCleanup(closed, winsock)
        /\ winsock' = Cleanup(winsock)
        /\ handle' = [handle EXCEPT ![s] = NoHandle]

RemoteLog(s) ==
    /\ doing[s].step = "idle" /\ made < MaxMessages
    /\ made' = made + 1 /\ fate' = Append(fate, "pending")
    /\ doing' = [doing EXCEPT ![s] =
            [step |-> IF kind[s] # "tcp" THEN "write"
                      ELSE IF handle[s] = NoHandle THEN "resolve" ELSE "send",
             msg |-> made + 1, at |-> 1, sent |-> 0, tries |-> 0]]
    /\ UNCHANGED <<os, kind, handle, sockets, winsock>>

\* connect() up to getaddrinfo: Winsock is started if no socket can be had.
Resolve(s) ==
    /\ doing[s].step = "resolve"
    /\ \E initialized \in IF os = "posix" THEN {TRUE} ELSE IF winsock = 0 THEN {FALSE} ELSE BOOLEAN :
          LET started == IF initialized THEN winsock ELSE winsock + 1 IN
          \/ /\ Goes(s, [doing[s] EXCEPT !.step = "attempt"])
             /\ winsock' = started /\ UNCHANGED sockets
          \/ /\ Ends(s, "reported")    \* WSAStartup failed
             /\ ~initialized /\ UNCHANGED <<winsock, sockets>>
          \/ /\ Ends(s, "reported")    \* getaddrinfo failed
             /\ winsock' = IF os = "windows" THEN Cleanup(started) ELSE winsock
             /\ sockets' = AfterCleanup(sockets, started)
    /\ UNCHANGED <<os, kind, handle, made>>

Connected(s, alive) == Append(sockets, [owner |-> s, open |-> TRUE, alive |-> alive, stream |-> <<>>])

\* The next address is tried.
NextAddress(s) == Goes(s, [doing[s] EXCEPT !.at = @ + 1])

\* socket() failed for an address.
NoSocket(s) ==
    /\ doing[s].step = "attempt" /\ doing[s].at <= Addresses
    /\ NextAddress(s)
    /\ sockets' = AfterCleanup(sockets, winsock)
    /\ winsock' = Cleanup(winsock)
    /\ UNCHANGED <<os, kind, handle, made>>

\* Mutant: the socket that did not connect is not closed.
ConnectFailsOpen(s) ==
    /\ doing[s].step = "attempt" /\ doing[s].at <= Addresses
    /\ Len(sockets) < MaxSockets /\ (os = "windows" => winsock > 0)
    /\ NextAddress(s)
    /\ sockets' = AfterCleanup(Connected(s, FALSE), winsock)
    /\ winsock' = Cleanup(winsock)
    /\ UNCHANGED <<os, kind, handle, made>>

\* connect() failed for an address: the socket is closed, and on Windows
\* Winsock with it.
ConnectFails(s) ==
    /\ doing[s].step = "attempt" /\ doing[s].at <= Addresses
    /\ Len(sockets) < MaxSockets /\ (os = "windows" => winsock > 0)
    /\ NextAddress(s)
    /\ sockets' = AfterCleanup(Append(sockets, [owner |-> s, open |-> FALSE, alive |-> FALSE,
                                                stream |-> <<>>]), winsock)
    /\ winsock' = Cleanup(winsock)
    /\ UNCHANGED <<os, kind, handle, made>>

\* An address connects.
Connects(s) ==
    /\ doing[s].step = "attempt" /\ doing[s].at <= Addresses
    /\ Len(sockets) < MaxSockets /\ (os = "windows" => winsock > 0)
    /\ sockets' = Connected(s, TRUE)
    /\ handle' = [handle EXCEPT ![s] = Len(sockets')]
    /\ Goes(s, [doing[s] EXCEPT !.step = "send"])
    /\ UNCHANGED <<os, kind, winsock, made>>

\* No address is left.
ConnectThrows(s) ==
    /\ doing[s].step = "attempt" /\ doing[s].at > Addresses
    /\ Ends(s, "reported")
    /\ sockets' = AfterCleanup(sockets, winsock)
    /\ winsock' = Cleanup(winsock)
    /\ UNCHANGED <<os, kind, handle, made>>

\* One ::send, which takes a part of what is left; send() goes on until it is
\* all taken.
Sends(s) ==
    /\ doing[s].step = "send" /\ sockets[handle[s]].alive
    /\ \E n \in 1 .. MsgLen - doing[s].sent :
          /\ sockets' = [sockets EXCEPT ![handle[s]].stream =
                            @ \o [i \in 1 .. n |-> <<doing[s].msg, doing[s].sent + i>>]]
          /\ IF doing[s].sent + n = MsgLen THEN Ends(s, "taken")
             ELSE Goes(s, [doing[s] EXCEPT !.sent = @ + n])
    /\ UNCHANGED <<os, kind, handle, winsock, made>>

\* ::send takes nothing and reports no error: send() leaves its loop, and log()
\* is over as if the message had gone.
SendsNothing(s) ==
    /\ doing[s].step = "send" /\ sockets[handle[s]].alive
    /\ Ends(s, "cut")
    /\ UNCHANGED <<os, kind, handle, sockets, winsock, made>>

\* Mutant: the connection is kept.
SendFailsOpen(s) ==
    /\ doing[s].step = "send"
    /\ Ends(s, "reported") /\ UNCHANGED <<handle, sockets, winsock>>
    /\ UNCHANGED <<os, kind, made>>

\* ::send fails: the connection is given up and the message with it.
SendFails(s) ==
    /\ doing[s].step = "send"
    /\ Ends(s, "reported") /\ Close(s)
    /\ UNCHANGED <<os, kind, made>>

\* External: a connection breaks.
Breaks ==
    /\ \E k \in DOMAIN sockets :
          sockets[k].alive /\ sockets' = [sockets EXCEPT ![k].alive = FALSE]
    /\ UNCHANGED <<os, kind, doing, handle, winsock, made, fate>>

\* ~tcp_client, between messages, connected or not; a new sink takes its place.
Destroy(s) ==
    /\ kind[s] = "tcp" /\ doing[s].step = "idle"
    /\ Close(s)
    /\ UNCHANGED <<os, kind, doing, made, fate>>

-----------------------------------------------------------------------------
\* win_eventlog_sink: the source is registered once.  A refusal is kept like a
\* handle, so that it is not asked for again and every later report fails.
EventLog(s) ==
    /\ doing[s].step = "write" /\ kind[s] = "eventlog"
    /\ \E h \in IF handle[s] = NoHandle THEN {NoHandle, Denied, Source} ELSE {handle[s]} :
          /\ handle' = [handle EXCEPT ![s] = h]
          /\ \/ h = Source /\ Ends(s, "taken")
             \/ Ends(s, "reported")
    /\ UNCHANGED <<os, kind, sockets, winsock, made>>

\* android_sink: a log that is full is tried again AndroidRetries times.
Android(s) ==
    /\ doing[s].step = "write" /\ kind[s] = "android"
    /\ \/ Ends(s, "taken")
       \/ Ends(s, "reported")
       \/ doing[s].tries < AndroidRetries /\ Goes(s, [doing[s] EXCEPT !.tries = @ + 1])
    /\ UNCHANGED <<os, kind, handle, sockets, winsock, made>>

\* systemd_sink: the journal takes a message or not.
Journal(s) ==
    /\ doing[s].step = "write" /\ kind[s] = "systemd"
    /\ \E f \in {"taken", "reported"} : Ends(s, f)
    /\ UNCHANGED <<os, kind, handle, sockets, winsock, made>>

RemoteNext ==
    \/ Breaks
    \/ \E s \in Sinks :
          \/ RemoteLog(s) \/ Resolve(s) \/ NoSocket(s) \/ ConnectFails(s) \/ Connects(s)
          \/ ConnectThrows(s) \/ Sends(s) \/ SendsNothing(s) \/ SendFails(s)
          \/ Destroy(s) \/ EventLog(s) \/ Android(s) \/ Journal(s)

RemoteSpec == RemoteInit /\ [][RemoteNext]_remoteVars

-----------------------------------------------------------------------------
\* The messages of a stream.
InStream(s) == {s[i][1] : i \in DOMAIN s}

\* Byte b comes after a on a connection: the next of the same message, or the
\* first of a later one after the last, or after the cut of a message that f
\* says was cut.
Follows(f, a, b) ==
    \/ b = <<a[1], a[2] + 1>>
    \/ b[2] = 1 /\ a[1] < b[1] /\ (a[2] = MsgLen \/ f[a[1]] = "cut")

\* Messages one after the other, whole but for those that f says were cut, and
\* perhaps for the last.
Whole(f, s) ==
    \A i \in DOMAIN s :
        s[i][2] \in 1 .. MsgLen /\ IF i = 1 THEN s[i][2] = 1 ELSE Follows(f, s[i - 1], s[i])

\* What a server reads on a connection is messages in the order they were
\* logged, and nothing follows the part of a message whose send failed: if one
\* follows a message that is not whole, that one's send() was left at a write of
\* no bytes.  No message is in two connections, and when its log() is over it was
\* taken whole, its loss was reported, or such a write cut it.
WholeMessages ==
    /\ \A k \in DOMAIN sockets :
          /\ Whole(fate, sockets[k].stream)
          /\ \A l \in DOMAIN sockets \ {k} :
                InStream(sockets[k].stream) \cap InStream(sockets[l].stream) = {}
    /\ \A m \in 1 .. made :
          /\ (\A s \in Sinks : doing[s].msg # m) => fate[m] # "pending"
          /\ \A k \in DOMAIN sockets :
                fate[m] = "taken" /\ m \in InStream(sockets[k].stream) =>
                    \E i \in DOMAIN sockets[k].stream : sockets[k].stream[i] = <<m, MsgLen>>

\* A socket that is open is the one its sink uses: none is lost, whichever
\* addresses fail.
NoSocketLost ==
    \A k \in DOMAIN sockets : sockets[k].open => handle[sockets[k].owner] = k

=============================================================================
