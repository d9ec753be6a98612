----------------------------- MODULE BootConfig -----------------------------
(***************************************************************************)
(* Where the configuration of a process life comes from: config.Load reads *)
(* the environment, the file .env (which it writes with the defaults when  *)
(* there is none), the command line and the host's own address.  The       *)
(* module composes it with RuntimeConfig, whose variables boot and         *)
(* explicit are what Load returns; BootSpec implements Spec.               *)
(*                                                                         *)
(* A source of settings gives a text for some settings and Unset for the   *)
(* others.  Empty is the empty text: giving it is not the same as giving   *)
(* none.                                                                   *)
(***************************************************************************)
EXTENDS RuntimeConfig

CONSTANTS
    Environments,   \* environments that the process may be started in
    EnvFiles,       \* contents of .env that an operator may leave there
    CommandLines,   \* command lines
    Unset, NoFile,
    Hosts,          \* addresses the host may have
    DefaultPort, DefaultDevice, BaseDir

(* defaultEnvValues, and the default tags of EnvConfig, which repeat them. *)
Default == [Port |-> DefaultPort, OutDir |-> Empty,
            TabloDevice |-> DefaultDevice, IPAddress |-> Empty]

Texts(f) == CASE f = "Port"        -> Ports
              [] f = "OutDir"      -> OutDirs \union {Empty}
              [] f = "TabloDevice" -> TabloDevices
              [] f = "IPAddress"   -> Addresses \union {Empty}

Sources == {s \in [Settings -> Ports \union OutDirs \union TabloDevices
                                 \union Addresses \union {Empty, Unset}] :
              \A f \in Settings : s[f] \in Texts(f) \union {Unset}}

ASSUME DefaultsAssumption == /\ DefaultPort \in Ports /\ DefaultDevice \in TabloDevices
                             /\ BaseDir \in OutDirs /\ Hosts \subseteq Addresses
ASSUME SourcesAssumption  == /\ Environments \subseteq Sources
                             /\ CommandLines \subseteq Sources
                             /\ EnvFiles \subseteq Sources
ASSUME UnsetAssumption    == \A f \in Settings : Unset \notin Texts(f)
ASSUME NoFileAssumption   == NoFile \notin Sources
ASSUME AllAssumption      == Overridable = Settings

VARIABLES
    env,      \* the environment of this process life
    dotenv,   \* the file .env
    flags,    \* its command line
    host      \* firstIPv4()

sources  == <<env, dotenv, flags, host>>
bootVars == <<vars, sources>>

(* ensureEnvFile *)
Ensured(file) == IF file = NoFile THEN Default ELSE file

Given(s) == {f \in Settings : s[f] # Unset}

FileAllExplicit(e, file, line) ==   \* mutant: without "&& value != defaultValue"
    Given(e) \union Given(file) \union Given(line)

(* explicitEnv, the loop over the file's values, and flag.Visit: a value   *)
(* of the file counts when it is not the default.                          *)
ExplicitFields(e, file, line) ==
    Given(e) \union {f \in Given(file) : file[f] # Default[f]} \union Given(line)

(* What becomes of a setting's text: os.Setenv gives the file's value only *)
(* where the environment has none, envconfig.Process falls back to the     *)
(* default, and the result is the default of the flag.                     *)
Text(e, file, line, f) ==
    IF line[f] # Unset THEN line[f]
    ELSE IF e[f] # Unset THEN e[f]
    ELSE IF file[f] # Unset THEN file[f]
    ELSE Default[f]

(* The configuration Load returns: no directory is the working directory,  *)
(* no address is the one the host has now.                                 *)
Loaded(e, file, line, h) ==
    LET T(f)   == Text(e, file, line, f)
        Dir    == IF T("OutDir") = Empty THEN BaseDir ELSE T("OutDir")
        Addr   == IF T("IPAddress") = Empty THEN h ELSE T("IPAddress")
    IN  [Port |-> T("Port"), OutDir |-> Dir, TabloDevice |-> T("TabloDevice"),
         IPAddress |-> Addr, ServerURL |-> [host |-> Addr, port |-> T("Port")]]

BootInit ==
    /\ env \in Environments /\ flags \in CommandLines /\ host \in Hosts
    /\ dotenv \in {Ensured(file) : file \in EnvFiles \union {NoFile}}
    /\ boot     = Loaded(env, dotenv, flags, host)
    /\ explicit = ExplicitFields(env, dotenv, flags)
    /\ Init

(* A new process life: the operator may have edited or deleted the file,   *)
(* given other variables and flags, and moved the host to another address. *)
BootRestart ==
    /\ env' \in Environments /\ flags' \in CommandLines /\ host' \in Hosts
    /\ dotenv' \in {Ensured(file) : file \in EnvFiles \union {NoFile, dotenv}}
    /\ boot'     = Loaded(env', dotenv', flags', host')
    /\ explicit' = ExplicitFields(env', dotenv', flags')
    /\ Restart

BootNext ==
    \/ Proceed /\ UNCHANGED sources
    \/ BootRestart

BootSpec == BootInit /\ [][BootNext]_bootVars

-----------------------------------------------------------------------------
(* The settings of a process life are those of the command line, else of   *)
(* the environment, else of a .env that an operator has edited, else the   *)
(* stored ones: neither the defaults nor the file the program wrote itself *)
(* undo what was set on the page.                                          *)
Resolved(f, text) ==
    CASE f = "OutDir" /\ text = Empty    -> BaseDir
      [] f = "IPAddress" /\ text = Empty -> host
      [] OTHER                           -> text

SettingsPrecedence ==
    [][LoadConfig => \A f \in Settings :
         row'.config[f] =
           CASE flags[f] # Unset -> Resolved(f, flags[f])
             [] flags[f] = Unset /\ env[f] # Unset -> Resolved(f, env[f])
             [] /\ flags[f] = Unset /\ env[f] = Unset
                /\ dotenv[f] \notin {Unset, Default[f]} -> Resolved(f, dotenv[f])
             [] OTHER -> row.config[f]]_bootVars
=============================================================================
