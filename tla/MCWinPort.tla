----------------------------- MODULE MCWinPort -----------------------------
(***************************************************************************)
(* Instances of WinPort for TLC.                                           *)
(***************************************************************************)
EXTENDS WinPort, TLC

CONSTANTS c1, c2, r1, r2, h1, h2

OneCaller == {c1}
TwoCallers == {c1, c2}
OneReceiverSlot == {r1}
TwoReceiverSlots == {r1, r2}
OneHandle == {h1}
TwoHandles == {h1, h2}

AllCalls == Calls
PortCalls == {"init", "open", "close", "send"}

Async == {"async"}
BothModes == {"async", "sync"}

Nothing == {}
Failures == {"config_fails", "thread_fails"}
EarlyOpen == {"reopen_early"}
Hurried == {"reopen_early", "slow_threads"}

\* The threads of each kind are interchangeable, and so are the handles.
Interchangeable == Permutations({c1, c2}) \cup Permutations({r1, r2})
                     \cup Permutations({h1, h2})

\* The same with one thread and one handle.
InterchangeableReceivers == Permutations({r1, r2})

=============================================================================
