---------------------------- MODULE LogRegistry ----------------------------
(***************************************************************************)
(* The registry of spdlog, the calls of spdlog.h on it, the factory that   *)
(* makes loggers, and the Windows ports of lib_sp that use them.           *)
(*                                                                         *)
(* A logger lives as long as the map, the default, the application or a    *)
(* port has a shared_ptr to it.  Formatter, flush level, error handler and *)
(* backtrace are handled alike: they are the Kinds of settings, with 0 for *)
(* what a logger is born with.  Every call holds logger_map_mutex_.        *)
(***************************************************************************)
EXTENDS Integers

CONSTANTS
    LoggerIds,      \* loggers that may exist at a time
    Names,          \* names of loggers
    DefaultName,    \* ""
    PortLogName,    \* "lib_sp_log"
    Levels,         \* levels of messages
    Info,           \* level::info
    Kinds,          \* kinds of settings
    Values,         \* values of settings
    Ports,          \* objects of serial_port_win_base
    None            \* no logger, no level

ASSUME RegistryAssumption ==
    /\ {DefaultName, PortLogName} \subseteq Names
    /\ Info \in Levels /\ None \notin LoggerIds \cup Levels
    /\ None \notin [name : Names, level : Levels, settings : [Kinds -> Values]]
    /\ 0 \in Values

VARIABLES
    objects,        \* the loggers that live, None for the others
    loggers,        \* loggers_: the logger of each name
    default_logger, \* default_logger_
    levels,         \* levels_: the levels by name and default_level_
    global,         \* formatter_, flush_level_, err_handler_, backtrace_n_messages_
    automatic,      \* automatic_registration_
    held,           \* loggers the application holds
    fresh,          \* loggers of the factory, in the map ever since
    port,           \* each port: whether it is open and its _plog
    terminated      \* an exception left a noexcept function

registryVars == <<objects, loggers, default_logger, levels, global, automatic, held,
                  fresh, port, terminated>>

Settings == [Kinds -> Values]
Born == [k \in Kinds |-> 0]
Logger(n, level, settings) == [name |-> n, level |-> level, settings |-> settings]

LevelOf(ls, n) == IF ls.named[n] # None THEN ls.named[n] ELSE ls.default
NoLevels(l) == [named |-> [n \in Names |-> None], default |-> l]

\* The loggers that somebody still has, of those in objs.
Alive(objs, map, default, apps, ports) ==
    [i \in LoggerIds |->
        IF \/ i \in apps \/ default = i
           \/ \E n \in Names : map[n] = i
           \/ \E p \in Ports : ports[p].plog = i
        THEN objs[i] ELSE None]

\* The shared_ptrs after a call, and the loggers made by it; what nobody has is
\* gone.
Keep(objs, map, default, apps, ports, made) ==
    /\ objects' = Alive(objs, map, default, apps, ports)
    /\ loggers' = map /\ default_logger' = default /\ held' = apps /\ port' = ports
    /\ fresh' = {i \in fresh \cup made : \E n \in Names : map[n] = i}
    /\ UNCHANGED <<levels, global, automatic, terminated>>

owners == <<loggers, default_logger, held, fresh, port>>

\* registry::registry: a default logger, which no setting has been told.
RegistryInit ==
    /\ \E i \in LoggerIds :
          /\ objects = [j \in LoggerIds |->
                          IF j = i THEN Logger(DefaultName, Info, Born) ELSE None]
          /\ loggers = [n \in Names |-> IF n = DefaultName THEN i ELSE None]
          /\ default_logger = i
    /\ levels = NoLevels(Info) /\ global = Born /\ automatic = TRUE
    /\ held = {} /\ fresh = {} /\ terminated = FALSE
    /\ port = [p \in Ports |-> [state |-> "none", logs |-> "no", plog |-> None]]

-----------------------------------------------------------------------------
(* Loggers come and go.                                                    *)

\* logger::logger by the application itself: nobody tells it the settings.
NewLogger(i, n) ==
    /\ objects[i] = None
    /\ Keep([objects EXCEPT ![i] = Logger(n, Info, Born)],
            loggers, default_logger, held \cup {i}, port, {})

\* registry::initialize_logger, before it registers.
Initialized(i, n) == [objects EXCEPT ![i] = Logger(n, LevelOf(levels, n), global)]

\* register_logger_ throws if the name is taken.
Registers(n) == ~automatic \/ loggers[n] = None
Registered(i, n) == IF automatic THEN [loggers EXCEPT ![n] = i] ELSE loggers

\* synchronous_factory::create: the sink first, which may be refused its file;
\* what throws leaves no logger.
CreateLogger(i, n) ==
    /\ objects[i] = None
    /\ Registers(n)
    /\ Keep(Initialized(i, n), Registered(i, n), default_logger, held \cup {i}, port, {i})

\* registry::register_logger, if it does not throw.
RegisterLogger(i) ==
    /\ i \in held
    /\ loggers[objects[i].name] = None
    /\ Keep(objects, [loggers EXCEPT ![objects[i].name] = i],
            default_logger, held, port, {})

\* registry::set_default_logger, of None for nullptr.
SetDefaultLogger(i) ==
    /\ i \in held \cup {None}
    /\ LET erased == IF default_logger = None THEN loggers
                     ELSE [loggers EXCEPT ![objects[default_logger].name] = None]
       IN  Keep(objects,
                IF i = None THEN erased ELSE [erased EXCEPT ![objects[i].name] = i],
                i, held, port, {})

\* Mutant: the default logger stays although its name is dropped.
DropOnlyName(n) ==
    Keep(objects, [loggers EXCEPT ![n] = None], default_logger, held, port, {})

\* registry::drop
Drop(n) ==
    Keep(objects, [loggers EXCEPT ![n] = None],
         IF default_logger # None /\ objects[default_logger].name = n
         THEN None ELSE default_logger,
         held, port, {})

\* registry::drop_all, and registry::shutdown, which ends the threads too.
DropAllLoggers == Keep(objects, [n \in Names |-> None], None, held, port, {})

\* The application lets go of a logger.
LetGo(i) ==
    /\ i \in held
    /\ Keep(objects, loggers, default_logger, held \ {i}, port, {})

-----------------------------------------------------------------------------
(* Settings: for the loggers in the map and for those to come.             *)

\* The loggers of the map as in changed, the others as they are.
Told(changed) ==
    [i \in LoggerIds |-> IF \E n \in Names : loggers[n] = i THEN changed[i] ELSE objects[i]]

WithLevel(l) == [i \in LoggerIds |-> [objects[i] EXCEPT !.level = l]]

\* Mutant: the loggers to come are forgotten.
SetLevelNow(l) ==
    /\ objects' = Told(WithLevel(l))
    /\ UNCHANGED <<levels, global, automatic, terminated, owners>>

\* registry::set_level: the levels by name stay, for loggers to come.
SetLevel(l) ==
    /\ objects' = Told(WithLevel(l))
    /\ levels' = [levels EXCEPT !.default = l]
    /\ UNCHANGED <<global, automatic, terminated, owners>>

\* registry::set_formatter, flush_on, set_error_handler, enable_backtrace and
\* disable_backtrace.
SetGlobal(k, v) ==
    /\ objects' = Told([i \in LoggerIds |-> [objects[i] EXCEPT !.settings[k] = v]])
    /\ global' = [global EXCEPT ![k] = v]
    /\ UNCHANGED <<levels, automatic, terminated, owners>>

\* registry::update_levels with the levels that cfg::helpers::extract_levels
\* makes: one default, info if none is given, and levels by name.
UpdateLevels(ls) ==
    /\ levels' = ls
    /\ objects' = Told([i \in LoggerIds |->
                          [objects[i] EXCEPT !.level = LevelOf(ls, objects[i].name)]])
    /\ UNCHANGED <<global, automatic, terminated, owners>>

\* registry::set_automatic_registration
SetAutomatic(b) ==
    /\ automatic' = b
    /\ UNCHANGED <<objects, levels, global, terminated, owners>>

-----------------------------------------------------------------------------
(* The ports.                                                              *)

AfterInit(p) == IF port[p].state = "none" THEN "closed" ELSE port[p].state

\* serial_port_win_base::init with logging: rotating_logger_mt throws if the
\* name is taken or the file refused, and init is noexcept.
PortInit(p, i) ==
    /\ objects[i] = None /\ port[p].state # "gone"
    /\ \/ /\ Registers(PortLogName)
          /\ Keep(Initialized(i, PortLogName), Registered(i, PortLogName),
                  default_logger, held,
                  [port EXCEPT ![p] = [state |-> AfterInit(p), logs |-> "yes",
                                       plog |-> i]],
                  {i})
       \/ /\ terminated' = TRUE
          /\ UNCHANGED <<objects, levels, global, automatic, owners>>

\* init without logging: a logger made before stays.
PortInitQuiet(p) ==
    /\ port[p].state # "gone"
    /\ port' = [port EXCEPT ![p].state = AfterInit(p), ![p].logs = "no"]
    /\ UNCHANGED <<objects, loggers, default_logger, levels, global, automatic, held,
                   fresh, terminated>>

\* open and close by the application.
PortSwitch(p) ==
    /\ port[p].state \in {"closed", "open"}
    /\ port' = [port EXCEPT ![p].state = IF @ = "open" THEN "closed" ELSE "open"]
    /\ UNCHANGED <<objects, loggers, default_logger, levels, global, automatic, held,
                   fresh, terminated>>

\* serial_port_win_base::~serial_port_win_base: the registry is shut down only
\* by a port that is still open and logs.
PortDestroy(p) ==
    /\ port[p].state \in {"closed", "open"}
    /\ LET all == port[p].state = "open" /\ port[p].logs = "yes"
       IN  Keep(objects,
                IF all THEN [n \in Names |-> None] ELSE loggers,
                IF all THEN None ELSE default_logger,
                held,
                [port EXCEPT ![p] = [state |-> "gone", logs |-> "no", plog |-> None]],
                {})

RegistryStep ==
    \/ \E i \in LoggerIds, n \in Names : NewLogger(i, n) \/ CreateLogger(i, n)
    \/ \E i \in LoggerIds : RegisterLogger(i) \/ LetGo(i)
    \/ \E i \in LoggerIds \cup {None} : SetDefaultLogger(i)
    \/ \E n \in Names : Drop(n)
    \/ DropAllLoggers
    \/ \E l \in Levels : SetLevel(l)
    \/ \E k \in Kinds, v \in Values : SetGlobal(k, v)
    \/ \E l \in Levels, named \in [Names -> Levels \cup {None}] :
          UpdateLevels([named |-> named, default |-> l])
    \/ \E b \in BOOLEAN : SetAutomatic(b)
    \/ \E p \in Ports, i \in LoggerIds : PortInit(p, i)
    \/ \E p \in Ports : PortInitQuiet(p) \/ PortSwitch(p) \/ PortDestroy(p)

RegistryNext == ~terminated /\ RegistryStep

RegistrySpec == RegistryInit /\ [][RegistryNext]_registryVars

-----------------------------------------------------------------------------
\* The default logger is in the map under its name: what is told to all loggers
\* reaches the one behind spdlog::info, and dropping its name drops it.
DefaultIsRegistered ==
    default_logger # None =>
        /\ objects[default_logger] # None
        /\ loggers[objects[default_logger].name] = default_logger

\* Every name leads to a logger that lives and has this name.
NamesMatch ==
    \A n \in Names : loggers[n] # None =>
        objects[loggers[n]] # None /\ objects[loggers[n]].name = n

\* What was set for all holds for a logger whatever came first, the logger or
\* the setting; for its level, unless it is one of those given by name.
GlobalsReachAll ==
    \A i \in fresh :
        /\ objects[i].settings = global
        /\ levels.named[objects[i].name] = None => objects[i].level = levels.default

=============================================================================
