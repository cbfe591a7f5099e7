----------------------------- MODULE MCSettings -----------------------------
(***************************************************************************)
(* The settings of a port side by side: the line settings of both systems  *)
(* and the enumeration of ports.  They share no state, so a behaviour is   *)
(* one of a single part, chosen at the beginning.                          *)
(***************************************************************************)
EXTENDS MCLinuxTermios, WinSettings, PortList

VARIABLE part

settingsVars == <<part, configVars, winSettingsVars, listVars>>

MarksOfWindows == {"parity_mark"}

\* A driver as Windows sets it up, and one that another program left with both
\* kinds of flow control.
FoundDcb ==
    {[line |-> <<>>, fOutxCtsFlow |-> b, fRtsControl |-> rts, fInX |-> b, fOutX |-> b] :
        b \in {"TRUE", "FALSE"}, rts \in {"ENABLE", "HANDSHAKE"}}

AllAnswers == {"plain", "8250", "unsure", "bare", "nameless"}

TermiosIdle == spp = ZeroProp /\ opened = FALSE /\ used = ZeroProp /\ termios = Default
WinSettingsIdle ==
    /\ winSpp = ZeroProp /\ winOpened = ZeroProp
    /\ dcb = CHOOSE d \in FoundDcb : TRUE
ListIdle ==
    /\ devices = <<>> /\ steady = {} /\ system = "linux" /\ step = "done" /\ at = 1
    /\ found = <<>> /\ probing = <<>> /\ stdin = "used"

SettingsInit ==
    \/ part = "termios" /\ ConfigInit /\ WinSettingsIdle /\ ListIdle
    \/ part = "windows" /\ TermiosIdle /\ WinSettingsInit /\ ListIdle
    \/ part = "list" /\ TermiosIdle /\ WinSettingsIdle /\ ListInit

SettingsNext ==
    /\ UNCHANGED part
    /\ \/ part = "termios" /\ ConfigNext /\ UNCHANGED <<winSettingsVars, listVars>>
       \/ part = "windows" /\ WinSettingsNext /\ UNCHANGED <<configVars, listVars>>
       \/ part = "list" /\ ListNext /\ UNCHANGED <<configVars, winSettingsVars>>

SettingsSpec == SettingsInit /\ [][SettingsNext]_settingsVars

=============================================================================
