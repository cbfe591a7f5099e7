--------------------------- MODULE MCLinuxTermios ---------------------------
(***************************************************************************)
(* Instances of LinuxTermios for TLC.                                      *)
(***************************************************************************)
EXTENDS LinuxTermios

OneRate == {9600}
Rates == {9600, 115200}
NoMarks == {}
SomeStops == {"stop_2", Unknown}
SomeBits == {7, 8, UnknownBits}
AllStops == StopBits \cup {Unknown}
AllBits == DataBits \cup {UnknownBits}

\* The termios a serial tty starts with.
Default ==
    [ cflag |-> B9600 \cup CharSize[8] \cup CREAD,
      iflag |-> ICRNL \cup IXON,
      oflag |-> OPOST,
      lflag |-> ISIG \cup ICANON \cup ECHO \cup ECHOE ]

\* What another program may have left: 7 bits, odd parity, two stop bits and
\* both kinds of flow control.
Left ==
    [ cflag |-> UNION {B9600, CharSize[7], CREAD, PARENB, PARODD, CSTOPB, CRTSCTS},
      iflag |-> UNION {INPCK, IXON, IXOFF},
      oflag |-> {},
      lflag |-> {} ]

\* The same with mark parity.
MarkParity == [Left EXCEPT !.cflag = Left.cflag \cup CMSPAR]

Found == {Default, Left, MarkParity}
Fresh == {Default}

=============================================================================
