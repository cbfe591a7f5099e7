---------------------------- MODULE MCLinuxPort ----------------------------
(***************************************************************************)
(* Instances of LinuxPort for TLC.                                         *)
(***************************************************************************)
EXTENDS LinuxPortRefinement, TLC

CONSTANTS c1, c2, r1, r2, f1, f2

OneCaller == {c1}
TwoCallers == {c1, c2}
OneReceiverSlot == {r1}
TwoReceiverSlots == {r1, r2}
OneFd == {f1}
TwoFds == {f1, f2}

NoCalls == {}
AllCalls == Calls
PortCalls == {"init", "open", "close", "send"}

Nothing == {}
Unplugged == {"hangup"}
Everything == Liberties
Failures == {"null_receiver", "send_closed"}
NullReceiver == {"null_receiver"}
SendClosed == {"send_closed"}

\* The two threads, and the two receivers, are interchangeable.
Interchangeable == Permutations({c1, c2}) \cup Permutations({r1, r2})
                     \cup Permutations({f1, f2})

=============================================================================
