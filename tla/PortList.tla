------------------------------ MODULE PortList ------------------------------
(***************************************************************************)
(* get_available_serial_port on both systems: a walk over the devices,     *)
(* while devices are taken away and one of the ports is asked about again  *)
(* later.  A device is a record of what the system answers about it.       *)
(***************************************************************************)
EXTENDS Integers, Sequences, FiniteSets

CONSTANTS
    MaxDevices,     \* devices in a listing
    MaxTerminals,   \* bound: pseudo terminals in /dev/pts
    Answers         \* what the system may answer about a device

\* "plain"  a driver; a name and a key in the registry
\* "8250"   the driver serial8250, of a type the kernel knows
\* "unsure" the driver serial8250 without a known type; no friendly name
\* "bare"   no driver; no registry key
\* "nameless" no driver; a key without the value PortName
\* "gone"   taken away: nothing can be opened or read
ASSUME AnswersAssumption ==
    /\ Answers \subseteq {"plain", "8250", "unsure", "bare", "nameless"}
    /\ MaxDevices \in Nat

\* What stands in the listing for a device whose name is empty.
NoName == 0

VARIABLES
    devices,    \* the devices in the order of the directory or the class
    steady,     \* those that have not been taken away since the call began
    system,     \* "linux" or "windows"
    step,       \* "visit", "probe", "terminals", "done"
    at,         \* the device to visit or probe next
    found,      \* comlist, list_sp: the devices listed, by number
    probing,    \* comList8250
    stdin       \* descriptor 0: "used", "free" (closed by the program) or
                \* "leaked" (given to a device and never closed)

listVars == <<devices, steady, system, step, at, found, probing, stdin>>

ListInit ==
    /\ \E n \in 0 .. MaxDevices : devices \in [1 .. n -> Answers]
    /\ steady = DOMAIN devices
    /\ system \in {"linux", "windows"}
    /\ step = "visit" /\ at = 1 /\ found = <<>> /\ probing = <<>>
    /\ stdin \in {"used", "free"}

Unplug(d) ==
    /\ step # "done" /\ devices[d] # "gone"
    /\ devices' = [devices EXCEPT ![d] = "gone"]
    /\ steady' = steady \ {d}
    /\ UNCHANGED <<system, step, at, found, probing, stdin>>

Walk == UNCHANGED <<devices, steady, system>>

-----------------------------------------------------------------------------
(* Linux: the names are those scandir returned at the beginning.           *)

\* Mutant: devices of serial8250 are not kept for the probe.
RegisterForgets(d) ==
    IF devices[d] = "plain" THEN found' = Append(found, d) /\ UNCHANGED probing
    ELSE UNCHANGED <<found, probing>>

\* register_comport, with get_driver.
Register(d) ==
    CASE devices[d] = "plain" -> found' = Append(found, d) /\ UNCHANGED probing
      [] devices[d] \in {"8250", "unsure"} ->
            probing' = Append(probing, d) /\ UNCHANGED found
      [] OTHER -> UNCHANGED <<found, probing>>

Visit ==
    /\ system = "linux" /\ step = "visit"
    /\ IF at > Len(devices)
       THEN step' = "probe" /\ at' = 1 /\ UNCHANGED <<found, probing>>
       ELSE Register(at) /\ at' = at + 1 /\ UNCHANGED step
    /\ UNCHANGED stdin /\ Walk

\* probe_serial8250_comports: descriptor 0 counts as a failure of open, and
\* stays open.
Probe ==
    /\ system = "linux" /\ step = "probe"
    /\ IF at > Len(probing)
       THEN step' = "terminals" /\ UNCHANGED <<at, found, stdin>>
       ELSE LET d == probing[at]
            IN  /\ found' = IF devices[d] = "8250" /\ stdin # "free"
                            THEN Append(found, d) ELSE found
                /\ stdin' = IF devices[d] # "gone" /\ stdin = "free"
                            THEN "leaked" ELSE stdin
                /\ at' = at + 1 /\ UNCHANGED step
    /\ UNCHANGED probing /\ Walk

\* Pseudo terminals are listed under the directory of the other devices, where
\* no device has such a name: they get numbers of their own.
Terminals ==
    /\ system = "linux" /\ step = "terminals"
    /\ \E n \in 0 .. MaxTerminals :
          found' = found \o [k \in 1 .. n |-> MaxDevices + k]
    /\ step' = "done"
    /\ UNCHANGED <<at, probing, stdin>> /\ Walk

-----------------------------------------------------------------------------
(* Windows: the device information set is made at the beginning.           *)

\* Each failure ends the loop: for a device taken away with a break, for one
\* without a description or a key by the loop's condition.  Whether the name
\* could be read is not looked at: a device without one, or taken away before
\* it is asked for, is listed under an empty name.
Enumerate ==
    /\ system = "windows" /\ step = "visit"
    /\ \/ /\ at <= Len(devices) /\ devices[at] \in {"plain", "8250"}
          /\ found' = Append(found, at) /\ at' = at + 1 /\ UNCHANGED step
       \/ /\ at <= Len(devices) /\ devices[at] \in {"nameless", "gone"}
          /\ found' = Append(found, NoName) /\ at' = at + 1 /\ UNCHANGED step
       \/ /\ at <= Len(devices) => devices[at] \in {"unsure", "bare", "gone"}
          /\ step' = "done" /\ UNCHANGED <<at, found>>
    /\ UNCHANGED <<probing, stdin>> /\ Walk

ListNext == (\E d \in DOMAIN devices : Unplug(d)) \/ Visit \/ Probe \/ Terminals \/ Enumerate

ListSpec == ListInit /\ [][ListNext]_listVars

-----------------------------------------------------------------------------
\* A port that is there from the beginning to the end of the call is listed,
\* whatever else is unplugged meanwhile, and none is listed twice under its name:
\* on Windows as far as the devices before it have a description and a key, on
\* Linux but for the one that was given descriptor 0.
SteadyPortsListed ==
    step = "done" =>
        LET named == {d \in DOMAIN devices : devices[d] \in {"plain", "8250"}}
            missed == (steady \cap named) \ {found[i] : i \in DOMAIN found}
        IN  /\ \A i, j \in DOMAIN found :
                  found[i] = found[j] => i = j \/ found[i] = NoName
            /\ system = "linux" =>
                  Cardinality(missed) <= IF stdin = "leaked" THEN 1 ELSE 0
            /\ system = "windows" =>
                  \A d \in missed : \E b \in 1 .. d - 1 :
                      devices[b] \in {"unsure", "bare", "gone"}

=============================================================================
