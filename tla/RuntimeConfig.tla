--------------------------- MODULE RuntimeConfig ---------------------------
(***************************************************************************)
(* The runtime configuration and its copies: the row in the database       *)
(* (internal/store), Server.cfg with the flag "restart", Service.cfg of    *)
(* internal/tablo, and what the process only reads while it starts: the    *)
(* listener's port, the schedulers' directory and interval.  main.go loads *)
(* the row at boot and overrides it with explicit settings;                *)
(* handleAdminConfig (PUT) and handleTabloSelectDevice change it later,    *)
(* each as one goroutine of a request.                                     *)
(*                                                                         *)
(* Four fields stand for all: Port and OutDir need a restart and keep      *)
(* their value when a form leaves them empty, IPAddress keeps its value    *)
(* and takes effect at once, TabloDevice is also set by select-device.     *)
(* ServerURL is derived.  The database is the same in every process life   *)
(* (DB_PATH is given or OUT_DIR never changes).  Where the settings of a   *)
(* process life come from is module BootConfig.                            *)
(***************************************************************************)
EXTENDS Integers, Functions

CONSTANTS
    Handlers,     \* admin requests being served at the same time
    Ports, OutDirs, TabloDevices, Addresses,   \* values of the fields
    Empty,        \* a text field left empty
    NoRow,        \* the database holds no configuration yet
    Overridable,  \* the fields an environment may set explicitly
    MaxRestarts   \* bound on the crashes and restarts of a behaviour

ASSUME EmptyAssumption    == Empty \notin Ports \union OutDirs \union Addresses
ASSUME RestartsAssumption == MaxRestarts \in Nat

Configs == [Port : Ports, OutDir : OutDirs, TabloDevice : TabloDevices,
            IPAddress : Addresses, ServerURL : [host : Addresses, port : Ports]]
Forms   == [Port : Ports \union {Empty}, OutDir : OutDirs \union {Empty},
            TabloDevice : TabloDevices, IPAddress : Addresses \union {Empty}]
Rows    == [config : Configs, restartPending : BOOLEAN]

ASSUME NoRowAssumption    == NoRow \notin Rows
Settings == {"Port", "OutDir", "TabloDevice", "IPAddress"}
ASSUME OverridesAssumption == Overridable \subseteq Settings

VARIABLES
    row,        \* database: app_config
    main,       \* where the main goroutine is: "init", "override", "start" or "up"
    boot,       \* the configuration of environment and flags in this process life
    explicit,   \* the fields that are explicit in it
    cfg,        \* Server.cfg
    restart,    \* Server.restart
    tabloCfg,   \* Service.cfg
    running,    \* what the process took from its configuration when it started
    pc,         \* next step of a handler
    work,       \* the configuration it has in hand
    flag,       \* the restartPending it has in hand
    told,       \* history: the configuration the operator has been told of
    asked,      \* history: what the requests ask for that are not saved yet
    restarts    \* crashes and restarts so far

process == <<main, boot, explicit>>
memory  == <<cfg, restart, tabloCfg>>
local   == <<pc, work, flag>>
vars    == <<row, process, memory, running, local, told, asked, restarts>>

Goto(h, step) == pc' = [pc EXCEPT ![h] = step]

(* fmt.Sprintf("http://%s:%s", cfg.IPAddress, cfg.Port)                    *)
URL(c) == [host |-> c.IPAddress, port |-> c.Port]

(* config.ApplyDerived.  An empty IPAddress, which it would replace, never *)
(* gets there: Load and Merge have filled it in.                           *)
ApplyDerived(c) == [c EXCEPT !.ServerURL = URL(c)]

Derived == {c \in Configs : c.ServerURL = URL(c)}

OverrideAll(c, b, fields) == b  \* mutant: boot.Explicit is not consulted

(* config.ApplyStartupOverrides: the explicit fields of b over those of c. *)
Override(c, b, fields) ==
    LET Pick(f) == IF f \in fields THEN b[f] ELSE c[f]
    IN  ApplyDerived([c EXCEPT !.Port           = Pick("Port"),
                               !.OutDir         = Pick("OutDir"),
                               !.TabloDevice    = Pick("TabloDevice"),
                               !.IPAddress      = Pick("IPAddress")])

MergeKeepsEmpty(current, form) ==  \* mutant: an empty field is taken as it is
    ApplyDerived([current EXCEPT
        !.Port           = form.Port,
        !.OutDir         = form.OutDir,
        !.TabloDevice    = form.TabloDevice,
        !.IPAddress      = form.IPAddress])

MergeStaleUrl(current, form) ==  \* mutant: without ApplyDerived at the end
    [current EXCEPT
        !.Port           = IF form.Port = Empty THEN @ ELSE form.Port,
        !.OutDir         = IF form.OutDir = Empty THEN @ ELSE form.OutDir,
        !.TabloDevice    = form.TabloDevice,
        !.IPAddress      = IF form.IPAddress = Empty THEN @ ELSE form.IPAddress]

(* configFromAdmin and mergeManagedConfig.                                 *)
Merge(current, form) ==
    ApplyDerived([current EXCEPT
        !.Port           = IF form.Port = Empty THEN @ ELSE form.Port,
        !.OutDir         = IF form.OutDir = Empty THEN @ ELSE form.OutDir,
        !.TabloDevice    = form.TabloDevice,
        !.IPAddress      = IF form.IPAddress = Empty THEN @ ELSE form.IPAddress])

(* What a request gives, and what is asked for while h is served and when  *)
(* it has been.                                                            *)
Edit(form)  == Restrict(form, {f \in Settings : f = "TabloDevice" \/ form[f] # Empty})
Ask(h, edit) ==
    asked' = [g \in DOMAIN asked \union {h} |-> IF g = h THEN edit ELSE asked[g]]
Answer(h)   == asked' = Restrict(asked, DOMAIN asked \ {h})

(* DBPath, the third field of the code, is never changed by Merge.         *)
RequiresRestart(current, next) ==
    current.Port # next.Port \/ current.OutDir # next.OutDir

Init ==
    /\ row = NoRow
    /\ main = "init"
    /\ boot \in Derived /\ explicit \in SUBSET Overridable
    /\ cfg = boot /\ tabloCfg = boot /\ running = boot /\ told = boot
    /\ asked = [h \in {} |-> {}]
    /\ restart = FALSE
    /\ pc   = [h \in Handlers |-> "idle"]
    /\ work = [h \in Handlers |-> boot]
    /\ flag = [h \in Handlers |-> FALSE]
    /\ restarts = 0

-----------------------------------------------------------------------------
(* main: from config.Load to the start of the services.                    *)

(* Store.Init: the first boot's configuration becomes the row.             *)
InitStore ==
    /\ main = "init"
    /\ main' = "override"
    /\ IF row = NoRow
       THEN row' = [config |-> boot, restartPending |-> FALSE] /\ told' = boot
       ELSE UNCHANGED <<row, told>>
    /\ UNCHANGED <<boot, explicit, memory, running, local, asked, restarts>>

(* LoadConfig, the overrides, and a save if they changed something.  Any   *)
(* error ends the process, which Restart covers.                           *)
LoadConfig ==
    /\ main = "override"
    /\ main' = "start"
    /\ row'  = [row EXCEPT !.config = Override(@, boot, explicit)]
    /\ told' = [f \in DOMAIN told |-> IF f \in explicit THEN boot[f] ELSE told[f]]
    /\ UNCHANGED <<boot, explicit, memory, running, local, asked, restarts>>

(* The services get the configuration, the listener opens, and requests    *)
(* are served from now on.                                                 *)
StartServices ==
    /\ main = "start"
    /\ main' = "up"
    /\ cfg'      = row.config
    /\ tabloCfg' = row.config
    /\ running'  = row.config
    /\ restart'  = row.restartPending
    /\ UNCHANGED <<row, boot, explicit, local, told, asked, restarts>>

(* The process dies and is started again, perhaps with other settings.  A  *)
(* request cut off after its save may have been done or not.               *)
Saved(h) == pc[h] \in {"reflag", "set", "settablo"}

Restart ==
    /\ restarts < MaxRestarts
    /\ restarts' = restarts + 1
    /\ main' = "init"
    /\ boot' \in Derived /\ explicit' \in SUBSET Overridable
    /\ told' = IF main = "up" /\ \E h \in Handlers : Saved(h) THEN row.config ELSE told
    /\ cfg' = boot' /\ tabloCfg' = boot' /\ running' = boot' /\ restart' = FALSE
    /\ pc'   = [h \in Handlers |-> "idle"]
    /\ work' = [h \in Handlers |-> boot']
    /\ flag' = [h \in Handlers |-> FALSE]
    /\ asked' = [h \in {} |-> {}]
    /\ UNCHANGED row

-----------------------------------------------------------------------------
(* The two requests that change the configuration.                         *)

(* PUT /admin/api/config: read the current one, merge the form into it ... *)
ReadForPut(h) ==
    /\ main = "up" /\ pc[h] = "idle"
    /\ \E form \in Forms :
         work' = [work EXCEPT ![h] = Merge(cfg, form)] /\ Ask(h, Edit(form))
    /\ flag' = [flag EXCEPT ![h] = RequiresRestart(cfg, work'[h])]
    /\ Goto(h, "flag")
    /\ UNCHANGED <<row, process, memory, running, told, restarts>>

FlagForgets(h) ==  \* mutant: s.restartPending() is not consulted
    /\ pc[h] = "flag"
    /\ Goto(h, "save")
    /\ UNCHANGED <<row, process, memory, running, work, flag, told, asked, restarts>>

(* ... then the flag, which once set is kept.                              *)
FlagPending(h) ==
    /\ pc[h] = "flag"
    /\ flag' = [flag EXCEPT ![h] = restart \/ flag[h]]
    /\ Goto(h, "save")
    /\ UNCHANGED <<row, process, memory, running, work, told, asked, restarts>>

(* select-device: the device goes into a copy of the configuration ...     *)
ReadForSelect(h) ==
    /\ main = "up" /\ pc[h] = "idle"
    /\ \E d \in TabloDevices :
         /\ work' = [work EXCEPT ![h] = ApplyDerived([cfg EXCEPT !.TabloDevice = d])]
         /\ Ask(h, [f \in {"TabloDevice"} |-> d])
    /\ Goto(h, "selflag")
    /\ UNCHANGED <<row, process, memory, running, flag, told, restarts>>

SelectForgets(h) ==  \* mutant: the flag is stored as it is at the start
    /\ pc[h] \in {"selflag", "reflag"}
    /\ flag' = [flag EXCEPT ![h] = FALSE]
    /\ Goto(h, IF pc[h] = "selflag" THEN "selsave" ELSE "set")
    /\ UNCHANGED <<row, process, memory, running, work, told, asked, restarts>>

(* ... and the flag is read, once for the row and once for the server.     *)
FlagForSelect(h) ==
    /\ pc[h] \in {"selflag", "reflag"}
    /\ flag' = [flag EXCEPT ![h] = restart]
    /\ Goto(h, IF pc[h] = "selflag" THEN "selsave" ELSE "set")
    /\ UNCHANGED <<row, process, memory, running, work, told, asked, restarts>>

SaveErrorIgnored(h) ==  \* mutant: no return when SaveConfig fails
    /\ pc[h] \in {"save", "selsave"}
    /\ row' \in {row, [config |-> work[h], restartPending |-> flag[h]]}
    /\ Goto(h, IF pc[h] = "save" THEN "set" ELSE "reflag")
    /\ Answer(h)
    /\ UNCHANGED <<process, memory, running, work, flag, told, restarts>>

(* Store.SaveConfig; when it fails the request ends and nothing changes.   *)
SaveConfig(h) ==
    /\ pc[h] \in {"save", "selsave"}
    /\ \/ /\ row' = [config |-> ApplyDerived(work[h]), restartPending |-> flag[h]]
          /\ Goto(h, IF pc[h] = "save" THEN "set" ELSE "reflag")
       \/ Goto(h, "idle") /\ UNCHANGED row
    /\ Answer(h)
    /\ UNCHANGED <<process, memory, running, work, flag, told, restarts>>

(* Server.setConfig *)
SetConfig(h) ==
    /\ pc[h] = "set"
    /\ cfg'     = work[h]
    /\ restart' = flag[h]
    /\ Goto(h, "settablo")
    /\ UNCHANGED <<row, process, tabloCfg, running, work, flag, told, asked, restarts>>

(* Service.SetConfig, and the answer.                                      *)
SetTabloConfig(h) ==
    /\ pc[h] = "settablo"
    /\ tabloCfg' = work[h]
    /\ told'     = work[h]
    /\ Goto(h, "idle")
    /\ UNCHANGED <<row, process, cfg, restart, running, work, flag, asked, restarts>>

Step(h) ==
    \/ ReadForPut(h) \/ FlagPending(h) \/ ReadForSelect(h) \/ FlagForSelect(h)
    \/ SaveConfig(h) \/ SetConfig(h) \/ SetTabloConfig(h)

Proceed ==
    \/ InitStore \/ LoadConfig \/ StartServices
    \/ \E h \in Handlers : Step(h)

Next == Proceed \/ Restart

Spec == Init /\ [][Next]_vars

-----------------------------------------------------------------------------
(* The row and the requests not saved yet, as a store of settings.         *)
Stored == [f \in IF row = NoRow THEN {} ELSE Settings |-> row.config[f]]

Store == INSTANCE SettingsStore
         WITH Fields     <- Settings,
              Values     <- Ports \union OutDirs \union TabloDevices \union Addresses,
              Restarting <- {"Port", "OutDir"},
               Requests   <- Handlers,
              settings   <- Stored,
              pending    <- row # NoRow /\ row.restartPending,
              given      <- explicit,
              serving    <- main = "up"

AskedOK ==
    /\ DOMAIN asked = {h \in Handlers : pc[h] \in {"flag", "save", "selflag", "selsave"}}
    /\ \A h \in DOMAIN asked : Store!IsEdit(asked[h])

TypeOK ==
    /\ row \in Rows \union (IF main = "init" THEN {NoRow} ELSE {})
    /\ main \in {"init", "override", "start", "up"}
    /\ boot \in Configs /\ explicit \subseteq Overridable
    /\ cfg \in Configs /\ restart \in BOOLEAN /\ tabloCfg \in Configs
    /\ running \in Configs /\ told \in Configs
    /\ AskedOK
    /\ pc \in [Handlers -> {"idle", "flag", "save", "selflag", "selsave",
                            "reflag", "set", "settablo"}]
    /\ work \in [Handlers -> Configs] /\ flag \in [Handlers -> BOOLEAN]
    /\ restarts \in 0 .. MaxRestarts

(* Between requests the three copies agree, the flag's two as well: what   *)
(* the proxy does is what a restart will find ("Stores runtime             *)
(* configuration in SQLite after first boot.", README.md:14).              *)
ConfigsAgree ==
    (main = "up" /\ \A h \in Handlers : ~Saved(h))
        => /\ row.config = cfg /\ tabloCfg = cfg
           /\ row.restartPending = restart

(* No setting the operator was told is saved is lost, by a crash, a failed *)
(* save or a restart, except to an explicit setting of the environment.    *)
SettingsKept ==
    (row # NoRow /\ \A h \in Handlers : ~Saved(h))
        => \A f \in Settings : row.config[f] = told[f]

(* While the port or the directory the process runs with is not the        *)
(* configured one, the page says so: the flag survives later requests that *)
(* change neither.                                                         *)
StaleFieldsFlagged ==
    main = "up" /\ RequiresRestart(running, cfg) => restart

(* Unless a restart is asked for, the URL that discovery hands out names   *)
(* the configured address and the port of the open listener.               *)
UrlServed ==
    main = "up" /\ ~restart
        => cfg.ServerURL = [host |-> cfg.IPAddress, port |-> running.Port]

(* One request at a time, put and select-device, which read the            *)
(* configuration, compute, save it, and copy it to two places, change the  *)
(* stored settings as if in one step: by exactly the settings the form     *)
(* gives and no others, or, if the save fails or the process dies before   *)
(* it, not at all; a start changes only what is explicit; and the flag is  *)
(* set with the first change that needs it and kept through every later    *)
(* request and restart.  (Requests that overlap are another matter: each   *)
(* saves what it has computed from the configuration it read, and so the   *)
(* later save can undo the other's change.)                                *)
StoreImplemented == Store!StoreSpec

(* A process that has just started has nothing left to restart for:        *)
(* "Proxy running. Restart required for some changes."                     *)
(* (internal/server/web/app.js:91) is for changes made since.              *)
FreshNeedsNoRestart == [][StartServices => ~restart']_vars
=============================================================================
