---------------------------- MODULE WinSettings ----------------------------
(***************************************************************************)
(* open() on Windows: the DCB it gives the driver.  The driver keeps its   *)
(* settings from one open to the next and from one program to the next,    *)
(* and open() starts from what GetCommConfig and GetCommState return.      *)
(***************************************************************************)
EXTENDS SpParams

CONSTANTS InheritedDcb      \* what a driver may have when the program starts

\* The members of DCB that open() writes.
ASSUME DcbAssumption ==
    \A d \in InheritedDcb :
        d = [line |-> d.line, fOutxCtsFlow |-> d.fOutxCtsFlow, fRtsControl |-> d.fRtsControl,
             fInX |-> d.fInX, fOutX |-> d.fOutX]

VARIABLES
    winSpp,     \* _spp
    winOpened,  \* what the port that is open was opened with, ZeroProp if closed
    dcb         \* the settings of the driver

winSettingsVars == <<winSpp, winOpened, dcb>>

WinSettingsInit == winSpp = ZeroProp /\ winOpened = ZeroProp /\ dcb \in InheritedDcb

\* is_to_log, the operator mode and the receiver are in WinPort.
WinInitProps(p) ==
    /\ is_right(p) = 0
    /\ winSpp' = p
    /\ UNCHANGED <<winOpened, dcb>>

\* The line and the XON/XOFF flags: all that open sets before set_flow_ctl.
Line(d, p) ==
    [d EXCEPT !.line = <<p.baud_rate, p.data_bits, p.parity, p.stop_bits>>,
              !.fInX = "FALSE", !.fOutX = "FALSE"]

\* Mutant: none leaves what was set before.
win_set_flow_ctl_kept(d, flow) ==
    CASE flow = "flow_ctl_hardware" ->
            [d EXCEPT !.fOutxCtsFlow = "FALSE", !.fRtsControl = "DISABLE",
                      !.fInX = "TRUE", !.fOutX = "TRUE"]
      [] flow = "flow_ctl_software" ->
            [d EXCEPT !.fOutxCtsFlow = "TRUE", !.fRtsControl = "HANDSHAKE",
                      !.fInX = "FALSE", !.fOutX = "FALSE"]
      [] OTHER -> d

\* "hardware" turns on XON/XOFF, and "software" the handshake by RTS and CTS.
win_set_flow_ctl(d, flow) ==
    CASE flow = "flow_ctl_none" ->
            [d EXCEPT !.fOutxCtsFlow = "FALSE", !.fRtsControl = "DISABLE",
                      !.fInX = "FALSE", !.fOutX = "FALSE"]
      [] flow = "flow_ctl_hardware" ->
            [d EXCEPT !.fOutxCtsFlow = "FALSE", !.fRtsControl = "DISABLE",
                      !.fInX = "TRUE", !.fOutX = "TRUE"]
      [] flow = "flow_ctl_software" ->
            [d EXCEPT !.fOutxCtsFlow = "TRUE", !.fRtsControl = "HANDSHAKE",
                      !.fInX = "FALSE", !.fOutX = "FALSE"]
      [] OTHER -> d

\* set_flow_ctl gives the driver the settings, and so does open after it; a
\* driver may refuse either time, and if it does at the second, open closes.
WinOpen ==
    /\ winOpened = ZeroProp /\ winSpp # ZeroProp
    /\ LET asked == win_set_flow_ctl(Line(dcb, winSpp), winSpp.flow_ctl)
       IN  \/ dcb' = asked /\ winOpened' \in {winSpp, ZeroProp}
           \/ UNCHANGED <<dcb, winOpened>>
    /\ UNCHANGED winSpp

WinClose ==
    /\ winOpened # ZeroProp
    /\ winOpened' = ZeroProp
    /\ UNCHANGED <<winSpp, dcb>>

WinSettingsNext == (\E p \in Props : WinInitProps(p)) \/ WinOpen \/ WinClose

WinSettingsSpec == WinSettingsInit /\ [][WinSettingsNext]_winSettingsVars

-----------------------------------------------------------------------------
\* The handshakes a driver makes: by RTS and CTS, by XON and XOFF.
Handshakes ==
    (IF dcb.fOutxCtsFlow = "TRUE" \/ dcb.fRtsControl = "HANDSHAKE" THEN {"rts_cts"} ELSE {})
        \cup (IF dcb.fInX = "TRUE" \/ dcb.fOutX = "TRUE" THEN {"xon_xoff"} ELSE {})

\* Of the handshakes a driver had, nothing is left in a port that is open: it
\* has none when none was asked for, and otherwise the one the code has for the
\* flow control asked for, alone.  (Which of the two that is, the enumeration
\* says the other way round: HardwareIsRtsCts.)
OneFlowControl ==
    winOpened # ZeroProp =>
        /\ winOpened.flow_ctl = "flow_ctl_none" => Handshakes = {}
        /\ winOpened.flow_ctl = "flow_ctl_hardware" => Handshakes = {"xon_xoff"}
        /\ winOpened.flow_ctl = "flow_ctl_software" => Handshakes = {"rts_cts"}

\* A port opened with hardware flow control makes its handshakes by RTS and CTS.
HardwareIsRtsCts ==
    winOpened # ZeroProp /\ winOpened.flow_ctl = "flow_ctl_hardware" =>
        Handshakes = {"rts_cts"}

=============================================================================
