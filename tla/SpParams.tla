------------------------------ MODULE SpParams ------------------------------
(***************************************************************************)
(* The properties of a port (sp_prop) and the check init() makes of them   *)
(* (sp_params_check).                                                      *)
(***************************************************************************)
EXTENDS Integers

CONSTANTS
    BaudRates,      \* the rates an application asks for, in the enum or not
    KnownBaudRates, \* the rates of the enum
    AskedStops,     \* the stop bits and the data bits it asks for
    AskedBits,
    Marks           \* {"mark"} where parity_mark exists (Windows), or {}

StopBits == {"stop_1", "stop_1_5", "stop_2"}
DataBits == 5 .. 8
FlowControls == {"flow_ctl_none", "flow_ctl_hardware", "flow_ctl_software"}
Parities == {"parity_none", "parity_odd", "parity_even", "parity_space"} \cup Marks

\* A value of an enum type that names no enumerator.
Unknown == "unknown"
UnknownBits == 9

ASSUME AskedAssumption ==
    /\ AskedStops \subseteq StopBits \cup {Unknown}
    /\ AskedBits \subseteq DataBits \cup {UnknownBits}

\* What an application may pass to init().
Props == [ name : {"", "port"},
           baud_rate : BaudRates,
           stop_bits : AskedStops,
           data_bits : AskedBits,
           flow_ctl : FlowControls \cup {Unknown},
           parity : Parities \cup {Unknown} ]

\* serial_port_prop_::zero().
ZeroProp == [ name |-> "", baud_rate |-> 9600, stop_bits |-> "stop_1",
              data_bits |-> 8, flow_ctl |-> "flow_ctl_none",
              parity |-> "parity_even" ]

\* A rate that is not in the map ends the check with the 0 it began with.
is_right(p) ==
    IF p.name = "" THEN -1
    ELSE IF p.baud_rate \notin KnownBaudRates THEN 0
    ELSE IF p.stop_bits \notin StopBits THEN -3
    ELSE IF p.data_bits \notin DataBits THEN -4
    ELSE IF p.flow_ctl \notin FlowControls THEN -5
    ELSE IF p.parity \notin Parities THEN -6
    ELSE 0

=============================================================================
