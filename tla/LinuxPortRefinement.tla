------------------------ MODULE LinuxPortRefinement ------------------------
(***************************************************************************)
(* The port on Linux, used by one thread, is a SerialPort.                 *)
(***************************************************************************)
EXTENDS LinuxPort

\* The thread that uses the port.
User == CHOOSE c \in Callers : TRUE

Closing == { "stop", "join", "join_wait", "dev_close" }

\* The port is closed from the moment ::close returned, before _fd says so.
MappedStatus ==
    IF fd = NoFd \/ pc[User] \in {"open_device", "clear_fd"} THEN "closed"
    ELSE IF pc[User] = "open_setattr" THEN "flushed"
    ELSE IF pc[User] \in Configuring THEN "opening"
    ELSE IF pc[User] \in Closing THEN "closing"
    ELSE "open"

\* What a receiver has read and not handed over comes before what the tty
\* still holds.  A single receiver has read something at a time.
InHand ==
    IF \E r \in Receivers : buf[r] # <<>>
    THEN buf[CHOOSE r \in Receivers : buf[r] # <<>>]
    ELSE <<>>

MappedWire == InHand \o queue

Port == INSTANCE SerialPort
            WITH Bytes <- 1 .. MaxByte, status <- MappedStatus,
                 wire <- MappedWire, got <- delivered

\* The port delivers in order, nothing twice, and nothing while it is closed.
IsSerialPort == Port!PortSpec

=============================================================================
