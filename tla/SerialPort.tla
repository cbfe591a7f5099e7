----------------------------- MODULE SerialPort -----------------------------
(***************************************************************************)
(* What iserial_port and irecv_data promise a program with one thread that *)
(* opens, uses and closes a port: bytes the line carries while the port is *)
(* open reach on_recv_data in the order of the line, each at most once,    *)
(* and none reaches it while the port is closed.  Opening discards what    *)
(* waits at one moment: a byte from before it never reaches on_recv_data,  *)
(* one that comes after it does, even before the settings of the port are  *)
(* in force.  Bytes may be lost: at that moment, when the buffer below is  *)
(* full, when the device goes away and when the port is closed.            *)
(***************************************************************************)
EXTENDS Integers, Sequences

CONSTANTS Bytes     \* what the line may carry, naturals in the order of arrival

VARIABLES
    status,     \* "closed", "opening", "flushed", "open" or "closing"
    wire,       \* bytes that arrived and were not delivered
    got         \* bytes on_recv_data was given

portVars == <<status, wire, got>>

PortTypeOK ==
    /\ status \in {"closed", "opening", "flushed", "open", "closing"}
    /\ wire \in Seq(Bytes)
    /\ got \in Seq(Bytes)

PortInit == status = "closed" /\ wire = <<>> /\ got = <<>>

OpenPort ==
    /\ status = "closed"
    /\ status' = "opening"
    /\ UNCHANGED <<wire, got>>

\* The input that arrived so far is discarded, the settings not yet made.
Flushed ==
    /\ status = "opening"
    /\ status' = "flushed" /\ wire' = <<>>
    /\ UNCHANGED got

\* What has arrived since then waits for the receiver.
Opened ==
    /\ status = "flushed"
    /\ status' = "open"
    /\ UNCHANGED <<wire, got>>

\* Nobody delivers while the port is being opened.
OpenFailed ==
    /\ status \in {"opening", "flushed"}
    /\ status' = "closed" /\ wire' = <<>>
    /\ UNCHANGED got

ClosePort ==
    /\ status = "open"
    /\ status' = "closing"
    /\ UNCHANGED <<wire, got>>

Closed ==
    /\ status = "closing"
    /\ status' = "closed" /\ wire' = <<>>
    /\ UNCHANGED got

\* A byte is newer than every byte before it.
ByteArrives ==
    /\ status # "closed"
    /\ \E b \in Bytes :
          /\ \A i \in 1 .. Len(wire) : wire[i] < b
          /\ \A i \in 1 .. Len(got) : got[i] < b
          /\ wire' = Append(wire, b)
    /\ UNCHANGED <<status, got>>

DeviceLost ==
    /\ status # "closed"
    /\ \E n \in 0 .. Len(wire) : wire' = SubSeq(wire, 1, n)
    /\ UNCHANGED <<status, got>>

Deliver ==
    /\ status \in {"open", "closing"}
    /\ \E n \in 1 .. Len(wire) :
          /\ got' = got \o SubSeq(wire, 1, n)
          /\ wire' = SubSeq(wire, n + 1, Len(wire))
    /\ UNCHANGED status

PortNext ==
    \/ OpenPort \/ Flushed \/ Opened \/ OpenFailed \/ ClosePort \/ Closed
    \/ ByteArrives \/ DeviceLost \/ Deliver

PortSpec == PortInit /\ [][PortNext]_portVars

=============================================================================
