--------------------------- MODULE SettingsProofs ---------------------------
(***************************************************************************)
(* Theorems about the sequential parts of lib_sp: the line settings of     *)
(* both systems, for everything a tty or a driver may have had before, and *)
(* the enumeration of ports, for every number of devices and order of      *)
(* events.                                                                 *)
(***************************************************************************)
EXTENDS LinuxTermios, WinSettings, PortList, FiniteSetTheorems, SequenceTheorems, TLAPS

-----------------------------------------------------------------------------
(* Linux: set_parity comes last; it leaves RTS/CTS alone and sets no second*)
(* stop bit.                                                               *)

LEMMA ParityLemma ==
    ASSUME NEW c, NEW q
    PROVE  LET d == set_parity(c, q)
           IN  /\ q \in {"parity_none", "parity_space"} => d \cap PARENB = {}
               /\ q = "parity_odd" => PARENB \cup PARODD \subseteq d
               /\ q = "parity_even" => PARENB \subseteq d /\ d \cap PARODD = {}
               /\ CRTSCTS \subseteq c => CRTSCTS \subseteq d
               /\ c \cap CRTSCTS = {} => d \cap CRTSCTS = {}
               /\ c \cap CSTOPB = {} => d \cap CSTOPB = {}
<1>1. CASE q = "parity_none"
  BY <1>1 DEF set_parity, PARENB, INPCK, CRTSCTS, CSTOPB
<1>2. CASE q = "parity_odd"
  BY <1>2 DEF set_parity, PARENB, PARODD, INPCK, ISTRIP, CRTSCTS, CSTOPB
<1>3. CASE q = "parity_even"
  BY <1>3 DEF set_parity, PARENB, PARODD, INPCK, ISTRIP, CRTSCTS, CSTOPB
<1>4. CASE q = "parity_space"
  BY <1>4 DEF set_parity, PARENB, CSTOPB, CRTSCTS
<1>5. CASE q \notin {"parity_none", "parity_odd", "parity_even", "parity_space"}
  BY <1>5 DEF set_parity
<1> QED
  BY <1>1, <1>2, <1>3, <1>4, <1>5

\* What the flow control asks of RTS/CTS.
LEMMA FlowLemma ==
    ASSUME NEW c, NEW f
    PROVE  /\ f = "flow_ctl_hardware" => CRTSCTS \subseteq set_flow_ctl(c, f)
           /\ f = "flow_ctl_none" => set_flow_ctl(c, f) \cap CRTSCTS = {}
<1>1. CASE f = "flow_ctl_hardware"
  BY <1>1 DEF set_flow_ctl
<1>2. CASE f = "flow_ctl_none"
  BY <1>2 DEF set_flow_ctl
<1> QED
  BY <1>1, <1>2

\* After set_stop_bits and set_flow_ctl there is one stop bit.
LEMMA StopLemma ==
    ASSUME NEW c, NEW s \in StopBits, NEW f
    PROVE  set_flow_ctl(set_stop_bits(c, s), f) \cap CSTOPB = {}
BY DEF set_stop_bits, set_flow_ctl, CSTOPB, CRTSCTS, IXON, IXOFF, IXANY

\* The stick bit is not among those that the code writes.
LEMMA StickLemma ==
    ASSUME NEW t, NEW p
    PROVE  CMSPAR \subseteq set_port_params(t, p).cflag <=> CMSPAR \subseteq t.cflag
<1> DEFINE speed == set_speed(t.cflag, p.baud_rate)
           size == set_data_bits(speed, p.data_bits)
           stop == set_stop_bits(size, p.stop_bits)
           flow == set_flow_ctl(stop, p.flow_ctl)
<1>1. 30 \in speed <=> 30 \in t.cflag
  BY DEF set_speed, CBAUD
<1>2. 30 \in size <=> 30 \in speed
  <2>1. ASSUME p.data_bits \in DataBits PROVE 30 \notin CharSize[p.data_bits]
    BY <2>1 DEF CharSize, DataBits
  <2> HIDE DEF speed
  <2> QED
    BY <2>1 DEF set_data_bits, CSIZE
<1> HIDE DEF size
<1>3. 30 \in stop <=> 30 \in size
  BY DEF set_stop_bits, CSTOPB
<1> HIDE DEF stop
<1>4. 30 \in flow <=> 30 \in stop
  BY DEF set_flow_ctl, CRTSCTS, IXON, IXOFF, IXANY
<1> HIDE DEF flow
<1>5. 30 \in set_parity(flow, p.parity) <=> 30 \in flow
  BY DEF set_parity, PARENB, PARODD, INPCK, ISTRIP, CSTOPB
<1>6. set_port_params(t, p).cflag = set_parity(flow, p.parity)
  BY DEF set_port_params, flow, stop, size, speed
<1> QED
  BY <1>1, <1>2, <1>3, <1>4, <1>5, <1>6 DEF CMSPAR

\* Whatever parity, stop bits and handshake a tty had, and whatever sequence of
\* configurations it went through: none, odd and even parity are as it was opened
\* with, unless the tty had the stick bit before the program, RTS/CTS is on for
\* hardware flow control and off for none, and space parity and any number of stop
\* bits are what the code makes of them, no parity and one.
THEOREM SettingsAsAsked == ConfigSpec => []LineAsAsked
<1>1. ConfigInit => LineAsAsked
  BY DEF ConfigInit, LineAsAsked
<1>2. LineAsAsked /\ [ConfigNext]_configVars => LineAsAsked'
  <2> SUFFICES ASSUME LineAsAsked, [ConfigNext]_configVars PROVE LineAsAsked'
    OBVIOUS
  <2>1. CASE UNCHANGED <<opened, used, termios>>
    BY <2>1 DEF LineAsAsked, LineParity
  <2>2. CASE ClosePort
    BY <2>2 DEF ClosePort, LineAsAsked
  <2>3. CASE OpenPort
    <3>1. PICK c : termios'.cflag = set_parity(set_flow_ctl(set_stop_bits(c, spp.stop_bits),
                                                            spp.flow_ctl), spp.parity)
      BY <2>3 DEF OpenPort, set_port_params
    <3>2. used' = spp /\ termios' = set_port_params(termios, spp)
      BY <2>3 DEF OpenPort
    <3>3. CMSPAR \subseteq termios'.cflag => \E t \in Inherited : CMSPAR \subseteq t.cflag
      BY <3>2, StickLemma DEF LineAsAsked
    <3>4. /\ spp.parity \in {"parity_none", "parity_space"} => LineParity' = "none"
          /\ spp.parity = "parity_odd" =>
                LineParity' = IF CMSPAR \subseteq termios'.cflag THEN "mark" ELSE "odd"
          /\ spp.parity = "parity_even" =>
                LineParity' = IF CMSPAR \subseteq termios'.cflag THEN "space" ELSE "even"
      BY <3>1, ParityLemma DEF LineParity, PARENB, PARODD, CMSPAR
    <3>5. /\ spp.flow_ctl = "flow_ctl_hardware" => CRTSCTS \subseteq termios'.cflag
          /\ spp.flow_ctl = "flow_ctl_none" => termios'.cflag \cap CRTSCTS = {}
      BY <3>1, ParityLemma, FlowLemma
    <3>6. spp.stop_bits \in StopBits => termios'.cflag \cap CSTOPB = {}
      BY <3>1, ParityLemma, StopLemma
    <3> QED
      BY <3>2, <3>3, <3>4, <3>5, <3>6 DEF LineAsAsked
  <2> QED
    BY <2>1, <2>2, <2>3 DEF ConfigNext, configVars, InitProps
<1> QED
  BY <1>1, <1>2, PTL DEF ConfigSpec

-----------------------------------------------------------------------------
(* Windows: set_flow_ctl writes all that is asked for.                     *)

Dcb(l, out, rts, in, x) ==
    [line |-> l, fOutxCtsFlow |-> out, fRtsControl |-> rts, fInX |-> in, fOutX |-> x]
IsDcb(d) == \E l, out, rts, in, x : d = Dcb(l, out, rts, in, x)

\* A DCB with one flow control, that which is meant by f.
OneOf(d, f) ==
    /\ f = "flow_ctl_none" => d.fOutxCtsFlow = "FALSE" /\ d.fRtsControl = "DISABLE"
                               /\ d.fInX = "FALSE" /\ d.fOutX = "FALSE"
    /\ f = "flow_ctl_hardware" => d.fOutxCtsFlow = "FALSE" /\ d.fRtsControl = "DISABLE"
                                   /\ d.fInX = "TRUE" /\ d.fOutX = "TRUE"
    /\ f = "flow_ctl_software" => d.fOutxCtsFlow = "TRUE" /\ d.fRtsControl = "HANDSHAKE"
                                   /\ d.fInX = "FALSE" /\ d.fOutX = "FALSE"

\* The line settings leave a DCB a DCB.
LEMMA LineLemma ==
    ASSUME NEW d, IsDcb(d), NEW p
    PROVE  IsDcb(Line(d, p))
<1>1. PICK l, out, rts, in, x : d = Dcb(l, out, rts, in, x)
  BY DEF IsDcb
<1> DEFINE v == <<p.baud_rate, p.data_bits, p.parity, p.stop_bits>>
<1>2. Line(d, p) = [d EXCEPT !.line = v, !.fInX = "FALSE", !.fOutX = "FALSE"]
  BY DEF Line
<1> HIDE DEF v
<1>3. Line(d, p) = Dcb(v, out, rts, "FALSE", "FALSE")
  BY <1>1, <1>2 DEF Dcb
<1> QED
  BY <1>3, Zenon DEF IsDcb

\* Whatever was in the DCB, the flow control asked for is the one in it then.
LEMMA WinFlowLemma ==
    ASSUME NEW d, IsDcb(d), NEW f
    PROVE  LET e == win_set_flow_ctl(d, f) IN IsDcb(e) /\ OneOf(e, f)
<1> DEFINE e == win_set_flow_ctl(d, f)
<1>1. PICK l, out, rts, in, x : d = Dcb(l, out, rts, in, x)
  BY DEF IsDcb
<1>2. CASE f = "flow_ctl_none"
  <2>1. e = Dcb(l, "FALSE", "DISABLE", "FALSE", "FALSE")
    BY <1>1, <1>2 DEF win_set_flow_ctl, Dcb
  <2>2. OneOf(e, f)
    BY <1>2, <2>1 DEF OneOf, Dcb
  <2> QED
    BY <2>1, <2>2, Zenon DEF IsDcb
<1>3. CASE f = "flow_ctl_hardware"
  <2>1. e = Dcb(l, "FALSE", "DISABLE", "TRUE", "TRUE")
    BY <1>1, <1>3 DEF win_set_flow_ctl, Dcb
  <2>2. OneOf(e, f)
    BY <1>3, <2>1 DEF OneOf, Dcb
  <2> QED
    BY <2>1, <2>2, Zenon DEF IsDcb
<1>4. CASE f = "flow_ctl_software"
  <2>1. e = Dcb(l, "TRUE", "HANDSHAKE", "FALSE", "FALSE")
    BY <1>1, <1>4 DEF win_set_flow_ctl, Dcb
  <2>2. OneOf(e, f)
    BY <1>4, <2>1 DEF OneOf, Dcb
  <2> QED
    BY <2>1, <2>2, Zenon DEF IsDcb
<1>5. CASE f \notin {"flow_ctl_none", "flow_ctl_hardware", "flow_ctl_software"}
  BY <1>5 DEF win_set_flow_ctl, OneOf
<1> QED
  BY <1>2, <1>3, <1>4, <1>5

\* A DCB with the flow control of the port, while one is open.
DcbInv == IsDcb(dcb) /\ (winOpened # ZeroProp => OneOf(dcb, winOpened.flow_ctl))

\* Whatever handshakes a driver had, after whatever sequence of configurations: an
\* open port has none of them when it was opened with none, and otherwise the one
\* the code has for what it was opened with, alone.
THEOREM FlowControlIsOne == WinSettingsSpec => []OneFlowControl
<1>1. WinSettingsInit => DcbInv
  <2> SUFFICES ASSUME WinSettingsInit PROVE DcbInv
    OBVIOUS
  <2>1. dcb = Dcb(dcb.line, dcb.fOutxCtsFlow, dcb.fRtsControl, dcb.fInX, dcb.fOutX)
    BY DcbAssumption DEF WinSettingsInit, Dcb
  <2>2. IsDcb(dcb)
    BY <2>1, Zenon DEF IsDcb
  <2> QED
    BY <2>2 DEF WinSettingsInit, DcbInv
<1>2. DcbInv /\ [WinSettingsNext]_winSettingsVars => DcbInv'
  <2> SUFFICES ASSUME DcbInv, [WinSettingsNext]_winSettingsVars PROVE DcbInv'
    OBVIOUS
  <2>1. CASE UNCHANGED <<winOpened, dcb>>
    BY <2>1 DEF DcbInv
  <2>2. CASE WinClose
    BY <2>2 DEF WinClose, DcbInv
  <2>3. CASE WinOpen
    <3> DEFINE asked == win_set_flow_ctl(Line(dcb, winSpp), winSpp.flow_ctl)
    <3>1. IsDcb(asked) /\ OneOf(asked, winSpp.flow_ctl)
      BY LineLemma, WinFlowLemma DEF DcbInv
    <3>2. \/ dcb' = asked /\ winOpened' \in {winSpp, ZeroProp}
          \/ UNCHANGED <<dcb, winOpened>>
      BY <2>3 DEF WinOpen
    <3> HIDE DEF asked
    <3> QED
      BY <3>1, <3>2, <2>1 DEF DcbInv
  <2> QED
    BY <2>1, <2>2, <2>3 DEF WinSettingsNext, winSettingsVars, WinInitProps
<1>3. DcbInv => OneFlowControl
  BY DEF DcbInv, OneOf, OneFlowControl, Handshakes
<1> QED
  BY <1>1, <1>2, <1>3, PTL DEF WinSettingsSpec

-----------------------------------------------------------------------------
(* The enumeration.                                                        *)

Named == {d \in DOMAIN devices : devices[d] \in {"plain", "8250"}}
Elems(s) == {s[i] : i \in DOMAIN s}
Distinct(s) == \A i, j \in DOMAIN s : s[i] = s[j] => i = j

\* The devices the call has yet to come to.
Coming ==
    CASE step = "visit" -> Elems(probing) \cup at .. Len(devices)
      [] step = "probe" -> {probing[i] : i \in at .. Len(probing)}
      [] OTHER -> {}

ListTypes ==
    /\ \E n \in 0 .. MaxDevices : devices \in [1 .. n -> Answers \cup {"gone"}]
    /\ steady \subseteq {d \in DOMAIN devices : devices[d] # "gone"}
    /\ system \in {"linux", "windows"} /\ step \in {"visit", "probe", "terminals", "done"}
    /\ at \in Nat \ {0} /\ found \in Seq(Nat) /\ probing \in Seq(DOMAIN devices)

\* Linux: a steady port is listed or will be come to, but for the one that was
\* given descriptor 0; none that is listed will be come to again.
Covered ==
    \E m : \A d \in steady \cap Named :
        d \in Elems(found) \cup Coming \/ (stdin = "leaked" /\ d = m)
Once ==
    /\ Elems(found) \cap Coming = {} /\ Distinct(probing)
    /\ step # "done" => Elems(found) \subseteq DOMAIN devices
    /\ step = "visit" => Elems(found) \cup Elems(probing) \subseteq 1 .. at - 1
ProbeNeeded == \A d \in Elems(probing) : devices[d] # "plain"

LinuxList == Distinct(found) /\ Covered /\ Once /\ ProbeNeeded

\* Windows: the devices the loop has passed are listed, each under its name at
\* most once; it ends at one without a description, without a key or gone.
Ending == {"unsure", "bare", "gone"}
NamedOnce(s) == \A i, j \in DOMAIN s : s[i] = s[j] => i = j \/ s[i] = NoName
WinList ==
    /\ step \in {"visit", "done"} /\ Elems(found) \subseteq 0 .. at - 1 /\ NamedOnce(found)
    /\ Named \cap 1 .. at - 1 \subseteq Elems(found)
    /\ step = "done" /\ at \in DOMAIN devices => devices[at] \in Ending

ListInv ==
    /\ ListTypes
    /\ system = "linux" => LinuxList
    /\ system = "windows" => WinList

\* The lengths of the listing and of the two lists.
LEMMA DevicesLemma ==
    ASSUME ListTypes
    PROVE  /\ Len(devices) \in Nat /\ Len(devices) <= MaxDevices
           /\ DOMAIN devices = 1 .. Len(devices)
           /\ devices \in [1 .. Len(devices) -> Answers \cup {"gone"}]
           /\ found \in Seq(Nat) /\ DOMAIN found = 1 .. Len(found) /\ Len(found) \in Nat
           /\ DOMAIN probing = 1 .. Len(probing) /\ Len(probing) \in Nat
<1>1. PICK n \in 0 .. MaxDevices : devices \in [1 .. n -> Answers \cup {"gone"}]
  BY DEF ListTypes
<1>2. n \in Nat /\ n <= MaxDevices
  BY <1>1, AnswersAssumption
<1>3. devices \in Seq(Answers \cup {"gone"})
  BY <1>1, <1>2, SeqDef
<1>4. Len(devices) = n
  BY <1>1, <1>2, <1>3, LenProperties
<1>5. found \in Seq(Nat) /\ probing \in Seq(DOMAIN devices)
  BY DEF ListTypes
<1> QED
  BY <1>1, <1>2, <1>4, <1>5, LenProperties

\* One more element, which was not in the list.
LEMMA AppendedLemma ==
    ASSUME NEW S, NEW s \in Seq(S), NEW x \in S
    PROVE  /\ Append(s, x) \in Seq(S) /\ Elems(Append(s, x)) = Elems(s) \cup {x}
           /\ Distinct(s) /\ x \notin Elems(s) => Distinct(Append(s, x))
<1> DEFINE t == Append(s, x)
<1>1. /\ t \in Seq(S) /\ Len(t) = Len(s) + 1 /\ t[Len(s) + 1] = x /\ Len(s) \in Nat
      /\ \A i \in 1 .. Len(s) : t[i] = s[i]
      /\ DOMAIN t = 1 .. Len(s) + 1 /\ DOMAIN s = 1 .. Len(s)
  BY AppendProperties, LenProperties
<1> HIDE DEF t
<1>2. Elems(t) = Elems(s) \cup {x}
  <2>1. \A i \in DOMAIN t : t[i] \in Elems(s) \cup {x}
    BY <1>1 DEF Elems
  <2>2. \A i \in DOMAIN s : s[i] \in Elems(t)
    BY <1>1 DEF Elems
  <2>3. x \in Elems(t)
    BY <1>1 DEF Elems
  <2> QED
    BY <2>1, <2>2, <2>3 DEF Elems
<1>3. ASSUME Distinct(s), x \notin Elems(s) PROVE Distinct(t)
  <2> SUFFICES ASSUME NEW i \in DOMAIN t, NEW j \in DOMAIN t, t[i] = t[j] PROVE i = j
    BY DEF Distinct
  <2>1. \A k \in DOMAIN s : s[k] # x
    BY <1>3 DEF Elems
  <2>2. CASE i \in DOMAIN s /\ j \in DOMAIN s
    BY <1>1, <1>3, <2>2 DEF Distinct
  <2>3. CASE i = Len(s) + 1 \/ j = Len(s) + 1
    BY <1>1, <2>1, <2>3
  <2> QED
    BY <1>1, <2>2, <2>3
<1> QED
  BY <1>1, <1>2, <1>3 DEF t

\* The same for a list in which only what has a name is told apart.
LEMMA NamedLemma ==
    ASSUME NEW s \in Seq(Nat), NEW x \in Nat, NamedOnce(s), x = NoName \/ x \notin Elems(s)
    PROVE  /\ Append(s, x) \in Seq(Nat) /\ Elems(Append(s, x)) = Elems(s) \cup {x}
           /\ NamedOnce(Append(s, x))
<1> DEFINE t == Append(s, x)
<1>1. /\ t \in Seq(Nat) /\ Len(t) = Len(s) + 1 /\ t[Len(s) + 1] = x /\ Len(s) \in Nat
      /\ \A i \in 1 .. Len(s) : t[i] = s[i]
      /\ DOMAIN t = 1 .. Len(s) + 1 /\ DOMAIN s = 1 .. Len(s)
  BY AppendProperties, LenProperties
<1>2. Elems(t) = Elems(s) \cup {x}
  BY AppendedLemma
<1> HIDE DEF t
<1>3. NamedOnce(t)
  <2> SUFFICES ASSUME NEW i \in DOMAIN t, NEW j \in DOMAIN t, t[i] = t[j], t[i] # NoName
               PROVE  i = j
    BY DEF NamedOnce
  <2>1. CASE i \in DOMAIN s /\ j \in DOMAIN s
    BY <1>1, <2>1 DEF NamedOnce
  <2>2. CASE i = Len(s) + 1 \/ j = Len(s) + 1
    <3>1. t[i] = x /\ t[j] = x
      BY <1>1, <2>2
    <3>2. \A k \in DOMAIN s : s[k] # x
      BY <3>1 DEF Elems
    <3> QED
      BY <1>1, <3>1, <3>2
  <2> QED
    BY <1>1, <2>1, <2>2
<1> QED
  BY <1>1, <1>2, <1>3 DEF t

\* What is listed and named is no more than before; the rest stays.
LEMMA UnplugKeeps == ASSUME ListInv, NEW d \in DOMAIN devices, Unplug(d) PROVE ListInv'
<1>1. /\ devices' = [devices EXCEPT ![d] = "gone"] /\ steady' = steady \ {d} /\ step # "done"
      /\ UNCHANGED <<system, step, at, found, probing, stdin>>
  BY DEF Unplug
<1>2. /\ Len(devices) \in Nat /\ Len(devices) <= MaxDevices
      /\ DOMAIN devices = 1 .. Len(devices)
      /\ devices \in [1 .. Len(devices) -> Answers \cup {"gone"}]
  BY DevicesLemma DEF ListInv
<1>3. /\ devices' \in [1 .. Len(devices) -> Answers \cup {"gone"}] /\ DOMAIN devices' = DOMAIN devices
      /\ devices'[d] = "gone" /\ \A e \in DOMAIN devices : e # d => devices'[e] = devices[e]
  BY <1>1, <1>2
<1>4. ListTypes'
  <2>1. Len(devices) \in 0 .. MaxDevices
    BY <1>2, AnswersAssumption
  <2>2. steady' \subseteq {e \in DOMAIN devices' : devices'[e] # "gone"}
    BY <1>1, <1>3 DEF ListInv, ListTypes
  <2> QED
    BY <1>1, <1>3, <2>1, <2>2 DEF ListInv, ListTypes
<1>5. Len(devices') = Len(devices)
  <2>1. devices' \in Seq(Answers \cup {"gone"})
    BY <1>2, <1>3, SeqDef
  <2> QED
    BY <1>2, <1>3, <2>1, LenProperties
<1>6. Coming' = Coming /\ Elems(found)' = Elems(found) /\ Elems(probing)' = Elems(probing)
  BY <1>1, <1>5 DEF Coming, Elems
<1>7. steady' \cap Named' \subseteq steady \cap Named /\ Named' \subseteq Named
  BY <1>1, <1>3 DEF Named
<1>8. system = "linux" => LinuxList'
  <2> SUFFICES ASSUME system = "linux" PROVE LinuxList'
    OBVIOUS
  <2>1. Distinct(found) /\ Covered /\ Once /\ ProbeNeeded
    BY DEF ListInv, LinuxList
  <2>2. Covered'
    <3>1. PICK m : \A e \in steady \cap Named :
                       e \in Elems(found) \cup Coming \/ (stdin = "leaked" /\ e = m)
      BY <2>1 DEF Covered
    <3>2. \A e \in steady' \cap Named' :
              e \in Elems(found)' \cup Coming' \/ (stdin' = "leaked" /\ e = m)
      BY <1>1, <1>6, <1>7, <3>1
    <3> QED
      BY <3>2 DEF Covered
  <2>3. Once'
    BY <1>1, <1>3, <1>6, <2>1 DEF Once, Distinct
  <2>4. ProbeNeeded'
    <3>1. \A e \in Elems(probing) : e \in DOMAIN devices
      BY DEF ListInv, ListTypes, Elems
    <3> QED
      BY <1>3, <1>6, <2>1, <3>1 DEF ProbeNeeded
  <2> QED
    BY <1>1, <2>1, <2>2, <2>3, <2>4 DEF LinuxList, Distinct
<1>9. system = "windows" => WinList'
  <2> SUFFICES ASSUME system = "windows" PROVE WinList'
    OBVIOUS
  <2>1. WinList
    BY DEF ListInv
  <2>2. NamedOnce(found)'
    BY <1>1, <2>1 DEF WinList, NamedOnce
  <2>3. (step \in {"visit", "done"} /\ Elems(found) \subseteq 0 .. at - 1)'
    BY <1>1, <1>6, <2>1 DEF WinList
  <2>4. (Named \cap 1 .. at - 1 \subseteq Elems(found))'
    <3>1. Named \cap 1 .. at - 1 \subseteq Elems(found)
      BY <2>1 DEF WinList
    <3> QED
      BY <1>1, <1>6, <1>7, <3>1
  <2> QED
    <3>1. step' = step /\ step' # "done"
      BY <1>1
    <3> QED
      BY <2>2, <2>3, <2>4, <3>1 DEF WinList
<1> QED
  BY <1>1, <1>4, <1>8, <1>9 DEF ListInv

\* A device is listed, kept for the probe, or has no name: in any case it is
\* come to no more.
LEMMA VisitKeeps == ASSUME ListInv, Visit PROVE ListInv'
<1> DEFINE n == Len(devices)
<1>1. /\ system = "linux" /\ step = "visit"
      /\ UNCHANGED <<stdin, devices, steady, system>>
  BY DEF Visit, Walk
<1>2. ListTypes /\ Distinct(found) /\ Covered /\ Once /\ ProbeNeeded
  BY <1>1 DEF ListInv, LinuxList
<1>3. /\ n \in Nat /\ DOMAIN devices = 1 .. n /\ at \in Nat \ {0}
      /\ devices \in [1 .. n -> Answers \cup {"gone"}]
      /\ found \in Seq(Nat) /\ probing \in Seq(1 .. n)
      /\ DOMAIN probing = 1 .. Len(probing) /\ Len(probing) \in Nat
  BY <1>2, DevicesLemma DEF ListTypes
<1>4. Coming = Elems(probing) \cup at .. n
  BY <1>1 DEF Coming
<1>5. /\ Elems(found) \cap Coming = {} /\ Distinct(probing)
      /\ Elems(found) \cup Elems(probing) \subseteq 1 .. at - 1
      /\ Elems(found) \subseteq 1 .. n
  BY <1>1, <1>2, <1>3 DEF Once
<1>6. PICK m : \A e \in steady \cap Named :
                   e \in Elems(found) \cup Coming \/ (stdin = "leaked" /\ e = m)
  BY <1>2 DEF Covered
<1>7. Named' = Named /\ steady' = steady /\ system' = system /\ stdin' = stdin
  BY <1>1 DEF Named
<1>8. CASE at > n
  <2>1. step' = "probe" /\ at' = 1 /\ UNCHANGED <<found, probing>>
    BY <1>8 DEF Visit
  <2>2. Coming' = Elems(probing)
    BY <1>3, <2>1 DEF Coming, Elems
  <2>3. Coming = Elems(probing)
    BY <1>3, <1>4, <1>8
  <2>4. ListTypes'
    BY <1>1, <1>2, <2>1 DEF ListTypes
  <2>5. Covered'
    BY <1>6, <1>7, <2>1, <2>2, <2>3 DEF Covered
  <2>6. Once'
    BY <1>1, <1>3, <1>5, <2>1, <2>2, <2>3 DEF Once
  <2>7. ProbeNeeded' /\ Distinct(found)'
    BY <1>1, <1>2, <2>1 DEF ProbeNeeded
  <2> QED
    BY <1>1, <1>7, <2>4, <2>5, <2>6, <2>7 DEF ListInv, LinuxList
<1>9. CASE ~(at > n)
  <2>1. Register(at) /\ at' = at + 1 /\ step' = step
    BY <1>9 DEF Visit
  <2>2. at \in 1 .. n /\ at \in DOMAIN devices
    BY <1>3, <1>9
  <2>3. Coming' = Elems(probing') \cup at + 1 .. n
    BY <1>1, <2>1 DEF Coming
  <2>4. at \notin Elems(found) /\ at \notin Elems(probing)
    BY <1>3, <1>5
  <2>5. CASE devices[at] = "plain"
    <3>1. found' = Append(found, at) /\ probing' = probing
      BY <2>1, <2>5 DEF Register
    <3>2. /\ found' \in Seq(Nat) /\ Elems(found') = Elems(found) \cup {at} /\ Distinct(found')
      BY <1>2, <1>3, <2>4, <3>1, AppendedLemma
    <3>3. ListTypes'
      BY <1>1, <1>2, <1>3, <2>1, <3>1, <3>2 DEF ListTypes
    <3>4. Coming \subseteq Coming' \cup {at} /\ at \notin Coming' /\ Coming' \subseteq Coming
      BY <1>3, <1>4, <2>3, <2>4, <3>1
    <3>5. Covered'
      <4>1. \A e \in steady' \cap Named' :
                e \in Elems(found') \cup Coming' \/ (stdin' = "leaked" /\ e = m)
        BY <1>6, <1>7, <3>2, <3>4
      <4> QED
        BY <4>1 DEF Covered
    <3>6. Once'
      BY <1>1, <1>3, <1>5, <2>1, <2>2, <3>1, <3>2, <3>4 DEF Once
    <3>7. ProbeNeeded'
      BY <1>1, <1>2, <3>1 DEF ProbeNeeded
    <3> QED
      BY <1>1, <1>7, <3>2, <3>3, <3>5, <3>6, <3>7 DEF ListInv, LinuxList
  <2>6. CASE devices[at] \in {"8250", "unsure"}
    <3>1. probing' = Append(probing, at) /\ found' = found
      BY <2>1, <2>6 DEF Register
    <3>2. /\ probing' \in Seq(1 .. n) /\ Elems(probing') = Elems(probing) \cup {at}
          /\ Distinct(probing')
      BY <1>3, <1>5, <2>2, <2>4, <3>1, AppendedLemma
    <3>3. ListTypes'
      BY <1>1, <1>2, <1>3, <2>1, <3>1, <3>2 DEF ListTypes
    <3>4. Coming' = Coming
      BY <1>3, <1>4, <2>2, <2>3, <3>2
    <3>5. Covered'
      <4>1. \A e \in steady' \cap Named' :
                e \in Elems(found') \cup Coming' \/ (stdin' = "leaked" /\ e = m)
        BY <1>6, <1>7, <3>1, <3>4
      <4> QED
        BY <4>1 DEF Covered
    <3>6. Once'
      BY <1>1, <1>3, <1>5, <2>1, <2>2, <3>1, <3>2, <3>4 DEF Once
    <3>7. ProbeNeeded'
      BY <1>1, <1>2, <2>6, <3>2 DEF ProbeNeeded
    <3> QED
      BY <1>1, <1>2, <1>7, <3>1, <3>3, <3>5, <3>6, <3>7 DEF ListInv, LinuxList
  <2>7. CASE devices[at] \notin {"plain", "8250", "unsure"}
    <3>1. UNCHANGED <<found, probing>>
      BY <2>1, <2>7 DEF Register
    <3>2. ListTypes'
      BY <1>1, <1>2, <1>3, <2>1, <3>1 DEF ListTypes
    <3>3. Coming \subseteq Coming' \cup {at} /\ Coming' \subseteq Coming /\ at \notin Named
      BY <1>3, <1>4, <2>3, <2>7, <3>1 DEF Named
    <3>4. Covered'
      <4>1. \A e \in steady' \cap Named' :
                e \in Elems(found') \cup Coming' \/ (stdin' = "leaked" /\ e = m)
        BY <1>6, <1>7, <3>1, <3>3
      <4> QED
        BY <4>1 DEF Covered
    <3>5. Once'
      BY <1>1, <1>3, <1>5, <2>1, <3>1, <3>3 DEF Once
    <3>6. ProbeNeeded'
      BY <1>1, <1>2, <3>1 DEF ProbeNeeded
    <3> QED
      BY <1>1, <1>2, <1>7, <3>1, <3>2, <3>4, <3>5, <3>6 DEF ListInv, LinuxList
  <2> QED
    BY <2>5, <2>6, <2>7
<1> QED
  BY <1>8, <1>9

\* The first device opened while descriptor 0 is free is missed; it takes the
\* descriptor, so that no other is.
LEMMA ProbeKeeps == ASSUME ListInv, Probe PROVE ListInv'
<1> DEFINE n == Len(devices)
<1>1. /\ system = "linux" /\ step = "probe"
      /\ UNCHANGED <<probing, devices, steady, system>>
  BY DEF Probe, Walk
<1>2. ListTypes /\ Distinct(found) /\ Covered /\ Once /\ ProbeNeeded
  BY <1>1 DEF ListInv, LinuxList
<1>3. /\ n \in Nat /\ DOMAIN devices = 1 .. n /\ at \in Nat \ {0}
      /\ devices \in [1 .. n -> Answers \cup {"gone"}]
      /\ found \in Seq(Nat) /\ probing \in Seq(1 .. n)
      /\ DOMAIN probing = 1 .. Len(probing) /\ Len(probing) \in Nat
  BY <1>2, DevicesLemma DEF ListTypes
<1>4. Coming = {probing[i] : i \in at .. Len(probing)}
  BY <1>1 DEF Coming
<1>5. Elems(found) \cap Coming = {} /\ Distinct(probing) /\ Elems(found) \subseteq 1 .. n
  BY <1>1, <1>2, <1>3 DEF Once
<1>6. PICK m : \A e \in steady \cap Named :
                   e \in Elems(found) \cup Coming \/ (stdin = "leaked" /\ e = m)
  BY <1>2 DEF Covered
<1>7. Named' = Named /\ steady' = steady /\ system' = system /\ ProbeNeeded'
  BY <1>1, <1>2 DEF Named, ProbeNeeded
<1>8. CASE at > Len(probing)
  <2>1. step' = "terminals" /\ UNCHANGED <<at, found, stdin>>
    BY <1>8 DEF Probe
  <2>2. Coming = {} /\ Coming' = {}
    BY <1>3, <1>4, <1>8, <2>1 DEF Coming
  <2>3. ListTypes'
    BY <1>1, <1>2, <2>1 DEF ListTypes
  <2>4. Covered'
    BY <1>6, <1>7, <2>1, <2>2 DEF Covered
  <2>5. Once'
    BY <1>1, <1>3, <1>5, <2>1, <2>2 DEF Once
  <2> QED
    BY <1>1, <1>2, <1>7, <2>1, <2>3, <2>4, <2>5 DEF ListInv, LinuxList
<1>9. CASE ~(at > Len(probing))
  <2> DEFINE d == probing[at]
  <2>1. /\ found' = IF devices[d] = "8250" /\ stdin # "free" THEN Append(found, d) ELSE found
        /\ stdin' = IF devices[d] # "gone" /\ stdin = "free" THEN "leaked" ELSE stdin
        /\ at' = at + 1 /\ step' = step
    BY <1>9 DEF Probe
  <2>2. at \in DOMAIN probing /\ d \in 1 .. n /\ d \in Coming /\ d \notin Elems(found)
    BY <1>3, <1>4, <1>5, <1>9
  <2>3. Coming' = {probing[i] : i \in at + 1 .. Len(probing)}
    BY <1>1, <2>1 DEF Coming
  <2>4. Coming \subseteq Coming' \cup {d} /\ Coming' \subseteq Coming
    BY <1>3, <1>4, <2>3
  <2>5. d \notin Coming'
    <3> SUFFICES ASSUME NEW i \in at + 1 .. Len(probing), probing[i] = d PROVE FALSE
      BY <2>3
    <3>1. i \in DOMAIN probing /\ i # at
      BY <1>3
    <3> QED
      BY <1>5, <2>2, <3>1 DEF Distinct
  <2>6. devices[d] \in {"8250", "unsure", "bare", "nameless", "gone"}
    <3>1. d \in Elems(probing)
      BY <2>2 DEF Elems
    <3> QED
      BY <1>2, <1>3, <2>2, <3>1, AnswersAssumption DEF ProbeNeeded
  <2> HIDE DEF d
  <2>7. CASE devices[d] = "8250" /\ stdin # "free"
    <3>1. found' = Append(found, d) /\ stdin' = stdin
      BY <2>1, <2>7
    <3>2. /\ found' \in Seq(Nat) /\ Elems(found') = Elems(found) \cup {d} /\ Distinct(found')
      BY <1>2, <1>3, <2>2, <3>1, AppendedLemma
    <3>3. ListTypes'
      BY <1>1, <1>2, <1>3, <2>1, <3>2 DEF ListTypes
    <3>4. Covered'
      <4>1. \A e \in steady' \cap Named' :
                e \in Elems(found') \cup Coming' \/ (stdin' = "leaked" /\ e = m)
        BY <1>6, <1>7, <2>4, <3>1, <3>2
      <4> QED
        BY <4>1 DEF Covered
    <3>5. Once'
      BY <1>1, <1>3, <1>5, <2>1, <2>2, <2>4, <2>5, <3>2 DEF Once
    <3> QED
      BY <1>1, <1>7, <3>2, <3>3, <3>4, <3>5 DEF ListInv, LinuxList
  <2>8. CASE ~(devices[d] = "8250" /\ stdin # "free")
    <3>1. found' = found
      BY <2>1, <2>8
    <3>2. ListTypes'
      BY <1>1, <1>2, <1>3, <2>1, <3>1 DEF ListTypes
    <3>3. Covered'
      <4>1. CASE d \notin Named
        <5>1. stdin = "leaked" => stdin' = "leaked"
          BY <2>1
        <5> QED
          BY <1>6, <1>7, <2>4, <3>1, <4>1, <5>1 DEF Covered
      <4>2. CASE d \in Named
        <5>1. devices[d] = "8250"
          BY <2>6, <4>2 DEF Named
        <5>2. stdin = "free" /\ stdin' = "leaked"
          BY <2>1, <2>8, <5>1
        <5>3. \A e \in steady' \cap Named' :
                  e \in Elems(found') \cup Coming' \/ (stdin' = "leaked" /\ e = d)
          BY <1>6, <1>7, <2>4, <3>1, <5>2
        <5> QED
          BY <5>3 DEF Covered
      <4> QED
        BY <4>1, <4>2
    <3>4. Once'
      BY <1>1, <1>3, <1>5, <2>1, <2>4, <3>1 DEF Once
    <3> QED
      BY <1>1, <1>2, <1>7, <3>1, <3>2, <3>3, <3>4 DEF ListInv, LinuxList
  <2> QED
    BY <2>7, <2>8
<1> QED
  BY <1>8, <1>9

\* The pseudo terminals are no devices.
LEMMA TerminalsKeep == ASSUME ListInv, Terminals PROVE ListInv'
<1>1. /\ system = "linux" /\ step = "terminals" /\ step' = "done"
      /\ UNCHANGED <<at, probing, stdin, devices, steady, system>>
  BY DEF Terminals, Walk
<1>2. PICK n \in 0 .. MaxTerminals : found' = found \o [k \in 1 .. n |-> MaxDevices + k]
  BY DEF Terminals
<1>3. ListTypes /\ Distinct(found) /\ Covered /\ Once /\ ProbeNeeded
  BY <1>1 DEF ListInv, LinuxList
<1>4. /\ found \in Seq(Nat) /\ Len(found) \in Nat /\ DOMAIN found = 1 .. Len(found)
      /\ Elems(found) \subseteq 1 .. MaxDevices /\ MaxDevices \in Nat
  <2>1. /\ found \in Seq(Nat) /\ Len(found) \in Nat /\ DOMAIN found = 1 .. Len(found)
        /\ Len(devices) \in Nat /\ Len(devices) <= MaxDevices /\ DOMAIN devices = 1 .. Len(devices)
    BY <1>3, DevicesLemma
  <2>2. Elems(found) \subseteq 1 .. Len(devices)
    BY <1>1, <1>3, <2>1 DEF Once
  <2> QED
    BY <2>1, <2>2, AnswersAssumption
<1> DEFINE t == [k \in 1 .. n |-> MaxDevices + k]
<1>5. n \in Nat /\ t \in Seq(Nat) /\ Len(t) = n
  <2>1. n \in Nat
    BY <1>2
  <2>2. t \in [1 .. n -> Nat]
    BY <1>4, <2>1
  <2>3. t \in Seq(Nat)
    BY <2>1, <2>2, SeqDef
  <2> QED
    BY <2>1, <2>2, <2>3, LenProperties
<1>6. \A k \in 1 .. n : t[k] = MaxDevices + k
  OBVIOUS
<1> HIDE DEF t
<1>7. /\ found' \in Seq(Nat) /\ DOMAIN found' = 1 .. Len(found) + n
      /\ \A i \in 1 .. Len(found) : found'[i] = found[i]
      /\ \A i \in 1 .. Len(found) + n : i > Len(found) => found'[i] = MaxDevices + (i - Len(found))
  <2>1. found' = found \o t
    BY <1>2 DEF t
  <2>2. /\ found \o t \in Seq(Nat) /\ Len(found \o t) = Len(found) + n
        /\ \A i \in 1 .. Len(found) + n :
              (found \o t)[i] = IF i <= Len(found) THEN found[i] ELSE t[i - Len(found)]
    BY <1>4, <1>5, ConcatProperties
  <2>3. found' \in Seq(Nat) /\ DOMAIN found' = 1 .. Len(found) + n
    BY <2>1, <2>2, LenProperties
  <2>4. ASSUME NEW i \in 1 .. Len(found) PROVE found'[i] = found[i]
    BY <1>4, <1>5, <2>1, <2>2
  <2>5. ASSUME NEW i \in 1 .. Len(found) + n, i > Len(found)
        PROVE  found'[i] = MaxDevices + (i - Len(found))
    <3>1. i - Len(found) \in 1 .. n /\ ~(i <= Len(found))
      BY <1>4, <1>5, <2>5
    <3> QED
      BY <1>6, <2>1, <2>2, <3>1
  <2> QED
    BY <2>3, <2>4, <2>5
<1>8. Distinct(found')
  <2> SUFFICES ASSUME NEW i \in DOMAIN found', NEW j \in DOMAIN found', found'[i] = found'[j]
               PROVE  i = j
    BY DEF Distinct
  <2>1. \A k \in DOMAIN found' : k <= Len(found) => found'[k] \in 1 .. MaxDevices
    BY <1>4, <1>7 DEF Elems
  <2>2. \A k \in DOMAIN found' :
            k > Len(found) => found'[k] = MaxDevices + (k - Len(found)) /\ found'[k] > MaxDevices
    <3> SUFFICES ASSUME NEW k \in DOMAIN found', k > Len(found)
                 PROVE  found'[k] = MaxDevices + (k - Len(found)) /\ found'[k] > MaxDevices
      OBVIOUS
    <3>1. k \in 1 .. Len(found) + n /\ found'[k] = MaxDevices + (k - Len(found))
      BY <1>7
    <3> QED
      BY <1>4, <1>5, <3>1
  <2>3. CASE i <= Len(found) /\ j <= Len(found)
    BY <1>3, <1>4, <1>7, <2>3 DEF Distinct
  <2>4. CASE i > Len(found) /\ j > Len(found)
    BY <1>4, <1>7, <2>2, <2>4
  <2>5. CASE (i <= Len(found) /\ j > Len(found)) \/ (i > Len(found) /\ j <= Len(found))
    BY <1>4, <2>1, <2>2, <2>5
  <2> QED
    <3>1. i \in 1 .. Len(found) + n /\ j \in 1 .. Len(found) + n
      BY <1>7
    <3>2. (i <= Len(found) \/ i > Len(found)) /\ (j <= Len(found) \/ j > Len(found))
      BY <1>4, <1>5, <3>1
    <3> QED
      BY <2>3, <2>4, <2>5, <3>2
<1>9. Elems(found) \subseteq Elems(found') /\ Coming = {} /\ Coming' = {}
  BY <1>1, <1>4, <1>5, <1>7 DEF Elems, Coming
<1>10. ListTypes'
  BY <1>1, <1>3, <1>7 DEF ListTypes
<1>11. Covered'
  <2>1. PICK m : \A e \in steady \cap Named :
                     e \in Elems(found) \cup Coming \/ (stdin = "leaked" /\ e = m)
    BY <1>3 DEF Covered
  <2>2. Named' = Named
    BY <1>1 DEF Named
  <2> QED
    BY <1>1, <1>9, <2>1, <2>2 DEF Covered
<1>12. Once' /\ ProbeNeeded'
  BY <1>1, <1>3, <1>9 DEF Once, ProbeNeeded
<1> QED
  BY <1>1, <1>8, <1>10, <1>11, <1>12 DEF ListInv, LinuxList

\* The list grows by the next device, under its name or an empty one, or ends.
LEMMA EnumerateKeeps == ASSUME ListInv, Enumerate PROVE ListInv'
<1>1. system = "windows" /\ step = "visit" /\ UNCHANGED <<probing, stdin, devices, steady, system>>
  BY DEF Enumerate, Walk
<1>2. /\ ListTypes /\ NamedOnce(found) /\ Elems(found) \subseteq 0 .. at - 1 /\ at \in Nat \ {0}
      /\ Named \cap 1 .. at - 1 \subseteq Elems(found)
  BY <1>1 DEF ListInv, WinList, ListTypes
<1>3. found \in Seq(Nat) /\ DOMAIN devices = 1 .. Len(devices) /\ Len(devices) \in Nat
  BY <1>2, DevicesLemma
<1>4. Named' = Named
  BY <1>1 DEF Named
<1>5. ASSUME NEW x \in {at, NoName}, found' = Append(found, x), at' = at + 1, step' = step,
             at \in Named => x = at
      PROVE  ListInv'
  <2>1. x \in Nat /\ (x = NoName \/ x \notin Elems(found)) /\ x \in 0 .. at
    BY <1>2 DEF NoName
  <2>2. found' \in Seq(Nat) /\ Elems(found') = Elems(found) \cup {x} /\ NamedOnce(found')
    BY <1>2, <1>3, <1>5, <2>1, NamedLemma
  <2>3. Elems(found') \subseteq 0 .. at' - 1 /\ at' \in Nat \ {0}
    BY <1>2, <1>5, <2>1, <2>2
  <2>4. Named' \cap 1 .. at' - 1 \subseteq Elems(found')
    BY <1>2, <1>4, <1>5, <2>2
  <2>5. ListTypes'
    BY <1>1, <1>2, <1>5, <2>2, <2>3 DEF ListTypes
  <2> QED
    BY <1>1, <1>5, <2>2, <2>3, <2>4, <2>5 DEF ListInv, WinList
<1>6. CASE at <= Len(devices) /\ devices[at] \in {"plain", "8250"} /\ found' = Append(found, at)
           /\ at' = at + 1 /\ step' = step
  BY <1>5, <1>6
<1>7. CASE at <= Len(devices) /\ devices[at] \in {"nameless", "gone"} /\ found' = Append(found, NoName)
           /\ at' = at + 1 /\ step' = step
  BY <1>5, <1>7 DEF Named
<1>8. CASE /\ at <= Len(devices) => devices[at] \in {"unsure", "bare", "gone"}
           /\ step' = "done" /\ UNCHANGED <<at, found>>
  <2>1. ListTypes'
    BY <1>1, <1>2, <1>8 DEF ListTypes
  <2> QED
    BY <1>1, <1>2, <1>3, <1>4, <1>8, <2>1 DEF ListInv, WinList, Elems, NamedOnce, Ending
<1> QED
  BY <1>6, <1>7, <1>8 DEF Enumerate

\* Every device is yet to come.
LEMMA ListStart == ListInit => ListInv
<1> SUFFICES ASSUME ListInit PROVE ListInv
  OBVIOUS
<1>1. PICK n \in 0 .. MaxDevices : devices \in [1 .. n -> Answers]
  BY DEF ListInit
<1>2. /\ steady = DOMAIN devices /\ system \in {"linux", "windows"} /\ step = "visit" /\ at = 1
      /\ found = <<>> /\ probing = <<>> /\ stdin \in {"used", "free"}
  BY DEF ListInit
<1>3. ListTypes
  <2>1. devices \in [1 .. n -> Answers \cup {"gone"}]
    BY <1>1
  <2>2. \A d \in DOMAIN devices : devices[d] # "gone"
    BY <1>1, AnswersAssumption
  <2> QED
    BY <1>2, <2>1, <2>2 DEF ListTypes
<1>4. DOMAIN devices = 1 .. Len(devices) /\ Len(devices) \in Nat
  BY <1>3, DevicesLemma
<1>5. Elems(found) = {} /\ Elems(probing) = {} /\ Distinct(found) /\ Distinct(probing)
  BY <1>2 DEF Elems, Distinct
<1>6. Coming = 1 .. Len(devices)
  BY <1>2, <1>5 DEF Coming
<1>7. LinuxList
  BY <1>2, <1>4, <1>5, <1>6 DEF LinuxList, Covered, Once, ProbeNeeded
<1>8. WinList
  BY <1>2, <1>5 DEF WinList, NamedOnce
<1> QED
  BY <1>3, <1>7, <1>8 DEF ListInv

\* However many devices there are and whichever are unplugged when: what stays is
\* listed, once, but for the ports the two systems are known to miss.
THEOREM SteadyPortsAreListed == ListSpec => []SteadyPortsListed
<1>1. ListInv /\ [ListNext]_listVars => ListInv'
  <2> SUFFICES ASSUME ListInv, [ListNext]_listVars PROVE ListInv'
    OBVIOUS
  <2>1. CASE UNCHANGED listVars
    <3>1. UNCHANGED <<devices, steady, system, step, at, found, probing, stdin>>
      BY <2>1 DEF listVars
    <3>2. /\ Coming' = Coming /\ Named' = Named
          /\ Elems(found)' = Elems(found) /\ Elems(probing)' = Elems(probing)
      BY <3>1 DEF Coming, Named, Elems
    <3>3. ListTypes'
      BY <3>1 DEF ListInv, ListTypes
    <3>4. system = "linux" => LinuxList'
      <4> SUFFICES ASSUME system = "linux" PROVE LinuxList'
        OBVIOUS
      <4>1. Covered'
        BY <3>1, <3>2 DEF ListInv, LinuxList, Covered
      <4>2. Once'
        BY <3>1, <3>2 DEF ListInv, LinuxList, Once, Distinct
      <4>3. ProbeNeeded'
        BY <3>1, <3>2 DEF ListInv, LinuxList, ProbeNeeded
      <4>4. Distinct(found)'
        BY <3>1 DEF ListInv, LinuxList, Distinct
      <4> QED
        BY <4>1, <4>2, <4>3, <4>4 DEF LinuxList
    <3>5. system = "windows" => WinList'
      BY <3>1, <3>2 DEF ListInv, WinList, NamedOnce
    <3> QED
      BY <3>1, <3>3, <3>4, <3>5 DEF ListInv
  <2> QED
    BY <2>1, UnplugKeeps, VisitKeeps, ProbeKeeps, TerminalsKeep, EnumerateKeeps DEF ListNext
<1>2. ListInv => SteadyPortsListed
  <2> SUFFICES ASSUME ListInv, step = "done" PROVE SteadyPortsListed
    BY DEF SteadyPortsListed
  <2> DEFINE missed == (steady \cap Named) \ Elems(found)
  <2>1. \A i, j \in DOMAIN found : found[i] = found[j] => i = j \/ found[i] = NoName
    BY DEF ListInv, ListTypes, LinuxList, WinList, Distinct, NamedOnce
  <2>2. system = "linux" => Cardinality(missed) <= IF stdin = "leaked" THEN 1 ELSE 0
    <3> SUFFICES ASSUME system = "linux"
                 PROVE  Cardinality(missed) <= IF stdin = "leaked" THEN 1 ELSE 0
      OBVIOUS
    <3>1. PICK m : \A d \in steady \cap Named :
                       d \in Elems(found) \cup Coming \/ (stdin = "leaked" /\ d = m)
      BY DEF ListInv, LinuxList, Covered
    <3>2. Coming = {}
      BY DEF Coming
    <3>3. missed = {} \/ (stdin = "leaked" /\ missed = {m})
      BY <3>1, <3>2
    <3>4. Cardinality({}) = 0 /\ Cardinality({m}) = 1
      BY FS_EmptySet, FS_Singleton
    <3> QED
      BY <3>3, <3>4
  <2>3. system = "windows" =>
            \A d \in missed : \E b \in 1 .. d - 1 : devices[b] \in {"unsure", "bare", "gone"}
    <3> SUFFICES ASSUME system = "windows", NEW d \in missed
                 PROVE  \E b \in 1 .. d - 1 : devices[b] \in {"unsure", "bare", "gone"}
      OBVIOUS
    <3>1. /\ Named \cap 1 .. at - 1 \subseteq Elems(found) /\ at \in Nat \ {0}
          /\ at \in DOMAIN devices => devices[at] \in Ending
      BY DEF ListInv, WinList, ListTypes
    <3>2. d \in Nat \ {0} /\ d \in Named /\ d \notin 1 .. at - 1
      BY <3>1, DevicesLemma DEF ListInv, Named
    <3>3. DOMAIN devices = 1 .. Len(devices) /\ Len(devices) \in Nat /\ d \in DOMAIN devices
      BY DevicesLemma DEF ListInv, Named
    <3>4. at \in DOMAIN devices /\ d # at
      BY <3>1, <3>2, <3>3 DEF Named, Ending
    <3>5. at \in 1 .. d - 1
      BY <3>1, <3>2, <3>4
    <3> QED
      BY <3>1, <3>4, <3>5 DEF Ending
  <2> QED
    BY <2>1, <2>2, <2>3 DEF SteadyPortsListed, Named, Elems
<1> QED
  BY <1>1, <1>2, ListStart, PTL DEF ListSpec

=============================================================================
