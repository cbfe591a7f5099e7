---------------------------- MODULE LinuxTermios ----------------------------
(***************************************************************************)
(* set_port_params on Linux: what a sequence of init(), open() and close() *)
(* leaves in the termios of the tty.  The tty keeps its termios from one   *)
(* open to the next, and from one program to the next, so a bit that no    *)
(* branch writes is whatever was there before.                             *)
(*                                                                         *)
(* A flag word is the set of its bits, by number, with the values of the   *)
(* Linux headers; the names of two words share numbers (INPCK of c_iflag   *)
(* is a bit of CSIZE in c_cflag), and a name used on the wrong word hits   *)
(* the other's bit.                                                        *)
(***************************************************************************)
EXTENDS SpParams

CONSTANTS Inherited     \* the termios a tty may have when the program starts

VARIABLES
    spp,        \* _spp
    opened,     \* the port is open, and configured from spp when it opened
    used,       \* the properties the port was configured from
    termios     \* of the tty: c_cflag, c_iflag, c_oflag, c_lflag

configVars == <<spp, opened, used, termios>>

\* c_cflag
CBAUD == {0, 1, 2, 3, 12}
CSIZE == {4, 5}
CharSize == [bits \in DataBits |->
               CASE bits = 5 -> {} [] bits = 6 -> {4}
                 [] bits = 7 -> {5} [] bits = 8 -> {4, 5}]
CSTOPB == {6}
CREAD == {7}
PARENB == {8}
PARODD == {9}
CMSPAR == {30}
CRTSCTS == {31}
B9600 == {0, 2, 3}
\* c_iflag
BRKINT == {1}
INPCK == {4}
ISTRIP == {5}
ICRNL == {8}
IXON == {10}
IXANY == {11}
IXOFF == {12}
\* c_oflag
OPOST == {0}
\* c_lflag
ISIG == {0}
ICANON == {1}
ECHO == {3}
ECHOE == {4}

\* cfsetispeed and cfsetospeed take the code of a rate (B9600, at most 4111,
\* the bits of CBAUD or the codes above 38400); anything else they refuse.
\* They are given the rate itself.
IsSpeedCode(rate) == rate \in 0 .. 15 \cup 4097 .. 4111
set_speed(cflag, rate) ==
    IF IsSpeedCode(rate)
    THEN (cflag \ CBAUD) \cup {b \in CBAUD : (rate \div 2^b) % 2 = 1}
    ELSE cflag

set_data_bits(cflag, bits) ==
    IF bits \in DataBits THEN (cflag \ CSIZE) \cup CharSize[bits] ELSE cflag

set_stop_bits(cflag, stop) ==
    IF stop \in StopBits THEN cflag \ CSTOPB ELSE cflag

set_flow_ctl(cflag, flow) ==
    CASE flow = "flow_ctl_none" -> cflag \ CRTSCTS
      [] flow = "flow_ctl_hardware" -> cflag \cup CRTSCTS
      [] flow = "flow_ctl_software" -> cflag \cup IXON \cup IXOFF \cup IXANY
      [] OTHER -> cflag

\* Mutant: even parity does not take back what odd parity set.
set_parity_odd_kept(cflag, parity) ==
    CASE parity = "parity_none" -> cflag \ (PARENB \cup INPCK)
      [] parity = "parity_odd" -> cflag \cup PARENB \cup PARODD \cup INPCK \cup ISTRIP
      [] parity = "parity_even" -> cflag \cup PARENB \cup INPCK \cup ISTRIP
      [] parity = "parity_space" -> cflag \ (PARENB \cup CSTOPB)
      [] OTHER -> cflag

set_parity(cflag, parity) ==
    CASE parity = "parity_none" -> cflag \ (PARENB \cup INPCK)
      [] parity = "parity_odd" -> cflag \cup PARENB \cup PARODD \cup INPCK \cup ISTRIP
      [] parity = "parity_even" ->
            (cflag \cup PARENB \cup INPCK \cup ISTRIP) \ PARODD
      [] parity = "parity_space" -> cflag \ (PARENB \cup CSTOPB)
      [] OTHER -> cflag

set_port_params(old, p) ==
    [ cflag |-> LET speed == set_speed(old.cflag, p.baud_rate)
                    size == set_data_bits(speed, p.data_bits)
                    stop == set_stop_bits(size, p.stop_bits)
                    flow == set_flow_ctl(stop, p.flow_ctl)
                IN  set_parity(flow, p.parity),
      iflag |-> old.iflag \ UNION {BRKINT, ICRNL, INPCK, ISTRIP, IXON},
      oflag |-> old.oflag \ OPOST,
      lflag |-> old.lflag \ UNION {ICANON, ECHO, ECHOE, ISIG} ]

ConfigInit ==
    /\ spp = ZeroProp
    /\ opened = FALSE
    /\ used = ZeroProp
    /\ termios \in Inherited

\* parity_mark is not among the parities of Linux.
InitProps(p) ==
    /\ is_right(p) = 0 /\ p.parity \notin Marks
    /\ spp' = p
    /\ UNCHANGED <<opened, used, termios>>

OpenPort ==
    /\ ~opened /\ spp.name # ""
    /\ opened' = TRUE
    /\ used' = spp
    /\ termios' = set_port_params(termios, spp)
    /\ UNCHANGED spp

ClosePort ==
    /\ opened
    /\ opened' = FALSE
    /\ used' = ZeroProp
    /\ UNCHANGED <<spp, termios>>

ConfigNext == (\E p \in Props : InitProps(p)) \/ OpenPort \/ ClosePort

ConfigSpec == ConfigInit /\ [][ConfigNext]_configVars

-----------------------------------------------------------------------------

\* The parity the tty gives a character.
LineParity ==
    CASE termios.cflag \cap PARENB = {} -> "none"
      [] PARENB \subseteq termios.cflag /\ termios.cflag \cap CMSPAR = {} ->
            IF PARODD \subseteq termios.cflag THEN "odd" ELSE "even"
      [] OTHER -> IF PARODD \subseteq termios.cflag THEN "mark" ELSE "space"

\* Of the parity, the stop bits and the RTS/CTS handshake a tty had, nothing is
\* left that the code writes.  None, odd and even parity are what was asked for,
\* but for the stick bit CMSPAR, which turns odd into mark and even into space,
\* and which a tty has only if it had it before the program; the handshake is on
\* for hardware flow control and off for none.  For what the code writes
\* otherwise than the enumerations say, it is what the code writes: space parity
\* is none, and every number of stop bits is one.
LineAsAsked ==
    LET stuck == CMSPAR \subseteq termios.cflag
    IN  /\ stuck => \E t \in Inherited : CMSPAR \subseteq t.cflag
        /\ opened =>
              /\ used.parity \in {"parity_none", "parity_space"} => LineParity = "none"
              /\ used.parity = "parity_odd" =>
                    LineParity = IF stuck THEN "mark" ELSE "odd"
              /\ used.parity = "parity_even" =>
                    LineParity = IF stuck THEN "space" ELSE "even"
              /\ used.stop_bits \in StopBits => termios.cflag \cap CSTOPB = {}
              /\ used.flow_ctl = "flow_ctl_hardware" => CRTSCTS \subseteq termios.cflag
              /\ used.flow_ctl = "flow_ctl_none" => termios.cflag \cap CRTSCTS = {}

\* A character has the number of data bits the program asked for.
CharSizeAsAsked ==
    opened /\ used.data_bits \in DataBits =>
        termios.cflag \cap CSIZE = CharSize[used.data_bits]

=============================================================================
