---------------------------- MODULE MCSequential ----------------------------
(***************************************************************************)
(* The parts of the repository that run in one thread at a time: the line  *)
(* settings and the enumeration of ports (MCSettings), and of the logging  *)
(* library the registry of loggers, the rotating and the daily file, the   *)
(* sinks that keep or filter messages, and those that hand messages to     *)
(* another program.  The parts share no state, so a behaviour is one of a  *)
(* single part, chosen at the beginning.                                   *)
(***************************************************************************)
EXTENDS MCSettings, LogRegistry, LogRotation, LogSinks, DailySink, RemoteSinks, TLC

logVars == <<registryVars, rotationVars, sinksVars, dailyVars, remoteVars>>

sequentialVars == <<settingsVars, logVars>>

Loggers == Permutations(LoggerIds)

\* Two sinks of a kind, or one that connects beside one that does not.
SomeKinds ==
    {[s \in Sinks |-> k] : k \in {"tcp", "android", "eventlog"}}
    \cup {[s \in Sinks |-> IF s = 1 THEN "tcp" ELSE "systemd"]}

\* The registry and the rotating file have one initial state; the other parts
\* rest in one of theirs.
SinksIdle ==
    /\ now = 0 /\ level = InfoLevel /\ tracer = [enabled |-> FALSE, q |-> DisabledQ]
    /\ filter = [time |-> 0, payload |-> Nothing, skips |-> 0] /\ attached = 1
    /\ ring = NewQ(1) /\ newest = <<>> /\ traced = <<>>
DailyIdle ==
    /\ clock = 0 /\ onDisk = {} /\ max_files = 1 /\ rotation = 0 /\ daily = NoSink
    /\ known = {} /\ faultless = TRUE
RemoteIdle ==
    /\ os = "posix" /\ kind = [s \in Sinks |-> "tcp"] /\ doing = [s \in Sinks |-> Idle]
    /\ handle = [s \in Sinks |-> NoHandle] /\ sockets = <<>> /\ winsock = 0
    /\ made = 0 /\ fate = <<>>

LogInit ==
    /\ RegistryInit /\ RotationInit
    /\ \/ part \in {"registry", "rotation"} /\ SinksIdle /\ DailyIdle /\ RemoteIdle
       \/ part = "sinks" /\ SinksInit /\ DailyIdle /\ RemoteIdle
       \/ part = "daily" /\ SinksIdle /\ DailyInit /\ RemoteIdle
       \/ part = "remote" /\ SinksIdle /\ DailyIdle /\ RemoteInit

LogNext ==
    \/ part = "registry" /\ RegistryNext
       /\ UNCHANGED <<rotationVars, sinksVars, dailyVars, remoteVars>>
    \/ part = "rotation" /\ RotationNext
       /\ UNCHANGED <<registryVars, sinksVars, dailyVars, remoteVars>>
    \/ part = "sinks" /\ SinksNext
       /\ UNCHANGED <<registryVars, rotationVars, dailyVars, remoteVars>>
    \/ part = "daily" /\ DailyNext
       /\ UNCHANGED <<registryVars, rotationVars, sinksVars, remoteVars>>
    \/ part = "remote" /\ RemoteNext
       /\ UNCHANGED <<registryVars, rotationVars, sinksVars, dailyVars>>

SequentialInit ==
    \/ /\ SettingsInit
       /\ RegistryInit /\ RotationInit /\ SinksIdle /\ DailyIdle /\ RemoteIdle
    \/ TermiosIdle /\ WinSettingsIdle /\ ListIdle /\ LogInit

SequentialNext ==
    \/ SettingsNext /\ UNCHANGED logVars
    \/ LogNext /\ UNCHANGED settingsVars

SequentialSpec == SequentialInit /\ [][SequentialNext]_sequentialVars

=============================================================================
