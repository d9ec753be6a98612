----------------------------- MODULE Activation -----------------------------
(***************************************************************************)
(* How the proxy becomes active: activateProxy of main.go, run once at     *)
(* boot and again by every select-device request, with the credential and  *)
(* lineup operations of internal/tablo/client.go it is made of, the admin  *)
(* requests and the lineup scheduler that run the same operations beside   *)
(* it, and the process dying between any two steps.                        *)
(*                                                                         *)
(* A device stands for all that is particular to it: its credentials, and  *)
(* the channel list of its account.  The schedule file, streams and the    *)
(* contents of the guide are left to other modules.  lineup.json and       *)
(* guide.xml are those of the directory config.OutDir names: where a PUT or*)
(* a start names another one, they may be what any earlier time has left   *)
(* there, and a file that is open remains where it is.  Credentials are    *)
(* stored under a key made of a secret of the environment, and come out    *)
(* again only under the same one.  "net" and "local" are the two kinds of  *)
(* failure: of a request to the cloud or the device, and of the database   *)
(* or the file system.                                                     *)
(***************************************************************************)
EXTENDS Integers

CONSTANTS
    Devices,      \* the devices of the Tablo account
    NoDevice,     \* "none": no credentials, no lineup, no device configured
    Main,         \* the main goroutine
    Loop,         \* the goroutine(s) of the lineup scheduler
    Handlers,     \* admin requests being served at the same time
    Secrets,      \* values of CREDENTIAL_SECRET, RSA or the built-in default
    Surroundings  \* [secrets, flags, logins, devices, guides, moves, restarts]:
                  \* what starts and PUTs may bring: secrets; flags [creds,
                  \* lineup] for --creds and --lineup; "given" or "none" for
                  \* user name and password; devices; CreateXML on or off;
                  \* whether OutDir changes; and how often a process dies

ASSUME DevicesAssumption  == NoDevice \notin Devices \union {"absent", "bad"}
ASSUME FileAssumption     == Devices \intersect {"absent", "bad"} = {}
ASSUME ProcsAssumption    == Main # Loop /\ {Main, Loop} \intersect Handlers = {}
ASSUME SurroundingsAssumption ==
    Surroundings \subseteq [secrets : SUBSET Secrets,
                            flags   : SUBSET [creds : BOOLEAN, lineup : BOOLEAN],
                            logins  : SUBSET {"given", "none"},
                            devices : SUBSET (Devices \union {NoDevice}),
                            guides  : SUBSET BOOLEAN, moves : BOOLEAN,
                            restarts : Nat]

VARIABLES
    dbCreds,            \* database: the encrypted credentials
    sealed,             \* database: the secret they are encrypted with
    secret,             \* the secret of this process life ...
    flags,              \* ... its flags: config.ForceCreds, ForceLineup ...
    login,              \* ... and whether it has config.UserName and UserPass
    cfgDevice,          \* database and memory: config.TabloDevice
    createXML,          \* database and memory: config.CreateXML
    lineupFile,         \* lineup.json: "absent", "bad" or whose channels
    guideFile,          \* guide.xml exists
    away,               \* who has lineup.json open in a former directory
    creds,              \* Service.creds
    setup,              \* Service.setup is set: a login awaits its device
    lineup,             \* Service.lineup: whose channels
    schedulersStarted,  \* main's variable of that name
    ready,              \* Server.proxyReady
    pc,                 \* next step of a process
    op,                 \* what it does: "activate", "select" or "refresh"
    dev,                \* the device whose data it has in hand
    activeXML,          \* whose activation has CreateXML in its activeCfg
    chosen,             \* history: the device a select request asked for
    fault,              \* history: what failed under this request
    torn,               \* history: a crash or a failed write cut lineup.json
    unsaved,            \* history: saving the credentials in use failed
    warm,               \* history: at boot nothing was left to fetch
    fresh,              \* history: whose activation began since OutDir was
                        \* changed or the guide enabled ...
    settled,            \* ... and whether such a one was completed
    restarts,           \* crashes and restarts so far
    bounds              \* the one of Surroundings

stored  == <<dbCreds, sealed>>
files   == <<lineupFile, guideFile, away>>
disk    == <<stored, cfgDevice, createXML, files>>
service == <<creds, setup, lineup>>
process == <<secret, flags, login>>
startup == <<process, schedulersStarted, ready>>
history == <<chosen, torn, unsaved, warm, settled, restarts, bounds>>
mine    == <<activeXML, fresh>>
vars    == <<disk, service, startup, pc, mine, op, dev, fault, history>>

Procs == {Main, Loop} \union Handlers
Steps == {"ensure", "read", "readset", "login", "create", "createset",
          "createsave", "savecfg", "file", "make", "fetch", "write", "parse",
          "save", "load", "loadset", "guide", "start", "startset", "setready",
          "idle", "serving", "exited"}
Some  == Devices \union {NoDevice}

(* decryptCredentials: under another key the padding or the JSON is wrong. *)
Opens(key, of) == key = of

(* Where a boot under that key finds all it needs on disk.                 *)
Stocked(key) ==
    /\ dbCreds # NoDevice /\ Opens(key, sealed)
    /\ lineupFile \in Devices
    /\ guideFile \/ ~createXML

Init ==
    /\ dbCreds = NoDevice /\ cfgDevice = NoDevice
    /\ bounds \in Surroundings
    /\ secret \in bounds.secrets /\ sealed = secret
    /\ flags \in bounds.flags /\ login \in bounds.logins
    /\ createXML \in bounds.guides
    /\ lineupFile = "absent" /\ guideFile = FALSE /\ away = {}
    /\ creds = NoDevice /\ setup = FALSE /\ lineup = NoDevice
    /\ schedulersStarted = FALSE /\ ready = FALSE
    /\ pc = [p \in Procs |-> IF p = Main THEN "ensure" ELSE "idle"]
    /\ op = [p \in Procs |-> "activate"]
    /\ dev = [p \in Procs |-> NoDevice] /\ activeXML = {}
    /\ chosen = [p \in Procs |-> NoDevice]
    /\ fault = [p \in Procs |-> "none"]
    /\ torn = FALSE /\ unsaved = FALSE /\ warm = FALSE /\ restarts = 0
    /\ fresh = {Main} /\ settled = FALSE

(* p goes on, and so does its activation, if it is in one.                 *)
Goto(p, step) == pc' = [pc EXCEPT ![p] = step] /\ UNCHANGED mine
Take(p, d)    == dev' = [dev EXCEPT ![p] = d]

(* A request is answered; main goes on to Run, active or not.              *)
Finish(p) ==
    /\ pc' = [pc EXCEPT ![p] = IF p = Main THEN "serving" ELSE "idle"]
    /\ activeXML' = activeXML \ {p} /\ fresh' = fresh \ {p}

(* p gives up on a failure of that kind.                                   *)
Fail(p, kind) ==
    /\ Finish(p)
    /\ fault' = [fault EXCEPT ![p] = kind]

-----------------------------------------------------------------------------
(* Requests, served once main has reached Run.                             *)

Serving(h) == pc[Main] = "serving" /\ pc[h] = "idle"

(* LoginForDevices; one that fails changes nothing.                        *)
Login(h) ==
    /\ Serving(h)
    /\ setup' = TRUE
    /\ UNCHANGED <<disk, creds, lineup, startup, pc, mine, op, dev, fault, history>>

(* SelectDevice of a pending login; without one it is refused at once.     *)
SelectDevice(h, d) ==
    /\ Serving(h)
    /\ setup
    /\ Goto(h, "create") /\ Take(h, d)
    /\ op'     = [op EXCEPT ![h] = "select"]
    /\ chosen' = [chosen EXCEPT ![h] = d]
    /\ fault'  = [fault EXCEPT ![h] = "none"]
    /\ UNCHANGED <<disk, service, startup, torn, unsaved, warm, settled, restarts, bounds>>

(* refresh-lineup, or the scheduler's turn: MakeLineup alone.              *)
Refresh(p) ==
    /\ \/ p \in Handlers /\ Serving(p)
       \/ p = Loop /\ schedulersStarted /\ pc[p] = "idle"
    /\ Goto(p, "make")
    /\ op'    = [op EXCEPT ![p] = "refresh"]
    /\ fault' = [fault EXCEPT ![p] = "none"]
    /\ UNCHANGED <<disk, service, startup, dev, history>>

(* config.OutDir names another directory: what is in it was left there at  *)
(* some earlier time.                                                      *)
Move ==
    /\ bounds.moves
    /\ lineupFile' \in Devices \union {"absent", "bad"} /\ guideFile' \in BOOLEAN
    /\ torn' = (lineupFile' = "bad")

(* A PUT of the settings, which puts in the device of its form and drops   *)
(* UserPass; the running proxy works with them at once.                    *)
PutConfig(h) ==
    /\ Serving(h)
    /\ cfgDevice' \in bounds.devices /\ createXML' \in bounds.guides
    /\ login' = "none"
    /\ \/ /\ UNCHANGED <<files, torn>>
          /\ IF createXML' /\ ~createXML
             THEN fresh' = {} /\ settled' = FALSE
             ELSE UNCHANGED <<fresh, settled>>
       \/ /\ Move /\ away' = away \union {p \in Procs : pc[p] = "write"}
          /\ fresh' = {} /\ settled' = FALSE
    /\ UNCHANGED <<stored, service, secret, flags, schedulersStarted, ready, pc,
                   activeXML, op, dev, fault, chosen, unsaved, warm, restarts, bounds>>

-----------------------------------------------------------------------------
(* EnsureCredentialsNonInteractive.                                        *)

Ensure(p) ==
    /\ pc[p] = "ensure"
    /\ \/ /\ IF dbCreds # NoDevice /\ ~flags.creds THEN Goto(p, "read")
             ELSE IF login = "given" THEN Goto(p, "login")
             ELSE Finish(p)   \* ErrCredentialsMissing
          /\ UNCHANGED fault
       \/ Fail(p, "local")
    /\ UNCHANGED <<disk, service, startup, op, dev, history>>

(* loginAccount with the environment's account, then selectDevice.         *)
LoginAccount(p) ==
    /\ pc[p] = "login"
    /\ \/ /\ \E d \in IF cfgDevice = NoDevice THEN Devices ELSE {cfgDevice} : Take(p, d)
          /\ Goto(p, "create")
          /\ UNCHANGED fault
       \/ Fail(p, "net") /\ UNCHANGED dev
    /\ UNCHANGED <<disk, service, startup, op, history>>

(* ReadCredentials: out of the database ...                                *)
Read(p) ==
    /\ pc[p] = "read"
    /\ \/ /\ Opens(secret, sealed)
          /\ Goto(p, "readset") /\ Take(p, dbCreds) /\ UNCHANGED fault
       \/ ~Opens(secret, sealed) /\ Finish(p) /\ UNCHANGED <<dev, fault>>
       \/ Fail(p, "local") /\ UNCHANGED dev
    /\ UNCHANGED <<disk, service, startup, op, history>>

(* ... and into the service.                                               *)
ReadSet(p) ==
    /\ pc[p] = "readset"
    /\ creds' = dev[p]
    /\ Goto(p, IF op[p] = "refresh" THEN "make" ELSE "file")
    /\ UNCHANGED <<disk, setup, lineup, startup, op, dev, fault, history>>

(* createCredentialsForSelection: two requests, then memory, then the      *)
(* database.                                                               *)
Create(p) ==
    /\ pc[p] = "create"
    /\ \/ Goto(p, "createset") /\ UNCHANGED fault
       \/ Fail(p, "net")
    /\ UNCHANGED <<disk, service, startup, op, dev, history>>

CreateSet(p) ==
    /\ pc[p] = "createset"
    /\ creds' = dev[p]
    /\ setup' = FALSE
    /\ Goto(p, "createsave")
    /\ UNCHANGED <<disk, lineup, startup, op, dev, fault, history>>

SaveErrorIgnored(p) ==  \* mutant: the error of SaveTabloCredentials is dropped
    /\ pc[p] = "createsave"
    /\ dbCreds' \in {dbCreds, dev[p]} /\ sealed' = secret
    /\ Goto(p, IF op[p] = "select" THEN "savecfg" ELSE "file")
    /\ UNCHANGED <<cfgDevice, createXML, files, service, startup, op, dev,
                   fault, history>>

CreateSave(p) ==
    /\ pc[p] = "createsave"
    /\ \/ /\ dbCreds' = dev[p] /\ sealed' = secret
          /\ unsaved' = FALSE
          /\ Goto(p, IF op[p] = "select" THEN "savecfg" ELSE "file")
          /\ UNCHANGED fault
       \/ /\ Fail(p, "local")
          /\ unsaved' = TRUE
          /\ UNCHANGED stored
    /\ UNCHANGED <<cfgDevice, createXML, files, service, startup, op, dev,
                   chosen, torn, warm, settled, restarts, bounds>>

ConfigNotSaved(p) ==  \* mutant: the selected device is not put into the config
    /\ pc[p] = "savecfg"
    /\ op' = [op EXCEPT ![p] = "activate"]
    /\ Goto(p, "ensure")
    /\ UNCHANGED <<disk, service, startup, dev, fault, history>>

NoSetupHandler(p) ==  \* mutant: the setup handler is not called
    /\ pc[p] = "savecfg"
    /\ cfgDevice' = dev[p]
    /\ Finish(p)
    /\ UNCHANGED <<stored, createXML, files, service, startup, op, dev,
                   fault, history>>

(* handleTabloSelectDevice saves the choice, then runs activateProxy.      *)
SaveConfig(p) ==
    /\ pc[p] = "savecfg"
    /\ \/ /\ cfgDevice' = dev[p]
          /\ op' = [op EXCEPT ![p] = "activate"]
          /\ pc' = [pc EXCEPT ![p] = "ensure"]
          /\ fresh' = fresh \union {p}
          /\ UNCHANGED <<activeXML, fault>>
       \/ Fail(p, "local") /\ UNCHANGED <<cfgDevice, op>>
    /\ UNCHANGED <<stored, createXML, files, service, startup, dev, history>>

-----------------------------------------------------------------------------
(* The lineup: fetched and cached when forced or missing, then loaded.     *)

(* activeCfg is the configuration of now; p goes on.                       *)
WithConfig(p, step) ==
    /\ pc' = [pc EXCEPT ![p] = step]
    /\ activeXML' = IF createXML THEN activeXML \union {p} ELSE activeXML \ {p}
    /\ UNCHANGED fresh

NoLoad(p) ==  \* mutant: LoadLineup is skipped when the file is there
    /\ pc[p] = "file"
    /\ WithConfig(p, IF flags.lineup \/ lineupFile = "absent" THEN "make" ELSE "guide")
    /\ UNCHANGED <<disk, service, startup, op, dev, fault, history>>

AlwaysMake(p) ==  \* mutant: LineupExists is not consulted
    /\ pc[p] = "file"
    /\ WithConfig(p, "make")
    /\ UNCHANGED <<disk, service, startup, op, dev, fault, history>>

LineupFile(p) ==
    /\ pc[p] = "file"
    /\ WithConfig(p, IF flags.lineup \/ lineupFile = "absent" THEN "make" ELSE "load")
    /\ UNCHANGED <<disk, service, startup, op, dev, fault, history>>

(* MakeLineup takes its own copy of the credentials, reading them first if *)
(* the service has none.                                                   *)
Make(p) ==
    /\ pc[p] = "make"
    /\ \/ /\ creds # NoDevice
          /\ Take(p, creds) /\ Goto(p, "fetch")
          /\ UNCHANGED fault
       \/ /\ creds = NoDevice /\ dbCreds # NoDevice
          /\ Goto(p, "read")
          /\ UNCHANGED <<dev, fault>>
       \/ /\ creds = NoDevice /\ dbCreds = NoDevice
          /\ Fail(p, "local") /\ UNCHANGED dev
    /\ UNCHANGED <<disk, service, startup, op, history>>

(* The channels arrive and storage.WriteFile truncates lineup.json; or the *)
(* request, or opening the file, fails and the file is left as it was.     *)
Fetch(p) ==
    /\ pc[p] = "fetch"
    /\ \/ lineupFile' = "bad" /\ Goto(p, "write") /\ UNCHANGED fault
       \/ (Fail(p, "net") \/ Fail(p, "local")) /\ UNCHANGED lineupFile
    /\ UNCHANGED <<stored, cfgDevice, createXML, guideFile, away, service, startup, op,
                   dev, history>>

(* The file that was opened may be that of a former directory.             *)
Write(p) ==
    LET Leaves(file) ==
          \/ lineupFile' = file /\ torn' = (file = "bad")
          \/ p \in away /\ UNCHANGED <<lineupFile, torn>>
    IN  /\ pc[p] = "write"
        /\ \/ Leaves(dev[p]) /\ Goto(p, "parse") /\ UNCHANGED fault
           \/ Leaves("bad") /\ Fail(p, "local")
        /\ away' = away \ {p}
        /\ UNCHANGED <<stored, cfgDevice, createXML, guideFile, service, startup, op,
                       dev, chosen, unsaved, warm, settled, restarts, bounds>>

(* ParseLineup; a refresh ends with it, RunNow goes on to save its file.   *)
Parse(p) ==
    /\ pc[p] = "parse"
    /\ lineup' = dev[p]
    /\ IF op[p] = "refresh" THEN Finish(p) ELSE Goto(p, "save")
    /\ UNCHANGED <<disk, creds, setup, startup, op, dev, fault, history>>

SaveSchedule(p) ==
    /\ pc[p] = "save"
    /\ \/ Goto(p, "load") /\ UNCHANGED fault
       \/ Fail(p, "local")
    /\ UNCHANGED <<disk, service, startup, op, dev, history>>

LoadUnchecked(p) ==  \* mutant: the error of ReadJSONFile is dropped
    /\ pc[p] = "load"
    /\ Take(p, lineupFile)
    /\ Goto(p, "loadset")
    /\ UNCHANGED <<disk, service, startup, op, fault, history>>

(* LoadLineup: a file that does not parse is an error, a missing one too.  *)
Load(p) ==
    /\ pc[p] = "load"
    /\ \/ /\ lineupFile \in Devices
          /\ Take(p, lineupFile) /\ Goto(p, "loadset") /\ UNCHANGED fault
       \/ lineupFile \notin Devices /\ Finish(p) /\ UNCHANGED <<dev, fault>>
       \/ Fail(p, "local") /\ UNCHANGED dev
    /\ UNCHANGED <<disk, service, startup, op, history>>

LoadSet(p) ==
    /\ pc[p] = "loadset"
    /\ lineup' = dev[p]
    /\ Goto(p, "guide")
    /\ UNCHANGED <<disk, creds, setup, startup, op, dev, fault, history>>

GuideErrorIgnored(p) ==  \* mutant: a failed guide does not stop the activation
    /\ pc[p] = "guide"
    /\ Goto(p, "start")
    /\ guideFile' \in {guideFile, (p \in activeXML)}
    /\ UNCHANGED <<stored, cfgDevice, createXML, lineupFile, away, service, startup, op,
                   dev, fault, history>>

(* The guide, fetched when forced or missing.  Its fetches cannot fail it; *)
(* an unreadable lineup.json or a file that cannot be written can.         *)
Guide(p) ==
    /\ pc[p] = "guide"
    /\ IF p \in activeXML /\ (flags.lineup \/ ~guideFile)
       THEN \/ /\ lineupFile \in Devices
               /\ guideFile' = TRUE /\ Goto(p, "start") /\ UNCHANGED fault
            \/ /\ lineupFile \notin Devices
               /\ Finish(p) /\ UNCHANGED <<guideFile, fault>>
            \/ Fail(p, "local") /\ (guideFile' = TRUE \/ UNCHANGED guideFile)
       ELSE Goto(p, "start") /\ UNCHANGED <<guideFile, fault>>
    /\ UNCHANGED <<stored, cfgDevice, createXML, lineupFile, away, service, startup, op,
                   dev, history>>

(* The schedulers, once: a test, and a set after the two calls of Start.   *)
(* Of the loops only whether they were started is kept: two activations    *)
(* that overlap may both start them, and they end with the context of the  *)
(* activation that did (Scheduler).                                        *)
StartTest(p) ==
    /\ pc[p] = "start"
    /\ Goto(p, IF schedulersStarted THEN "setready" ELSE "startset")
    /\ UNCHANGED <<disk, service, startup, op, dev, fault, history>>

StartSet(p) ==
    /\ pc[p] = "startset"
    /\ schedulersStarted' = TRUE
    /\ Goto(p, "setready")
    /\ UNCHANGED <<disk, service, process, ready, op, dev, fault, history>>

SetProxyReady(p) ==
    /\ pc[p] = "setready"
    /\ ready' = TRUE
    /\ settled' = (settled \/ p \in fresh)
    /\ Finish(p)
    /\ UNCHANGED <<disk, service, process, schedulersStarted, op, dev, fault, chosen,
                   torn, unsaved, warm, restarts, bounds>>

-----------------------------------------------------------------------------
(* ListenAndServe fails, say because the port is taken, and main exits.    *)
ListenFails ==
    /\ pc[Main] = "serving"
    /\ pc' = [p \in Procs |-> "exited"]
    /\ UNCHANGED <<disk, service, startup, mine, op, dev, fault, history>>

(* The process dies at any point and is started again, perhaps with other  *)
(* flags, another secret, with or without a login; its environment may name*)
(* another directory and switch the guide on or off.                       *)
Restart ==
    /\ restarts < bounds.restarts
    /\ restarts' = restarts + 1
    /\ secret' \in bounds.secrets /\ flags' \in bounds.flags
    /\ login' \in bounds.logins /\ createXML' \in bounds.guides /\ away' = {}
    /\ UNCHANGED <<stored, cfgDevice, bounds>>
    /\ \/ Move
       \/ UNCHANGED <<lineupFile, guideFile>> /\ torn' = (lineupFile = "bad")
    /\ creds' = NoDevice /\ setup' = FALSE /\ lineup' = NoDevice
    /\ schedulersStarted' = FALSE /\ ready' = FALSE
    /\ pc'     = [p \in Procs |-> IF p = Main THEN "ensure" ELSE "idle"]
    /\ op'     = [p \in Procs |-> "activate"]
    /\ dev'    = [p \in Procs |-> NoDevice]
    /\ chosen' = [p \in Procs |-> NoDevice]
    /\ fault'  = [p \in Procs |-> "none"]
    /\ unsaved' = FALSE
    /\ warm'    = (Stocked(secret)' /\ ~flags'.creds /\ ~flags'.lineup)
    /\ activeXML' = {} /\ fresh' = {Main} /\ settled' = FALSE

Step(p) ==
    \/ Ensure(p) \/ LoginAccount(p) \/ Read(p) \/ ReadSet(p)
    \/ Create(p) \/ CreateSet(p) \/ CreateSave(p) \/ SaveConfig(p)
    \/ LineupFile(p) \/ Make(p) \/ Fetch(p) \/ Write(p) \/ Parse(p)
    \/ SaveSchedule(p) \/ Load(p) \/ LoadSet(p) \/ Guide(p)
    \/ StartTest(p) \/ StartSet(p) \/ SetProxyReady(p)

Request(h) ==
    \/ Login(h) \/ Refresh(h) \/ PutConfig(h)
    \/ \E d \in Devices : SelectDevice(h, d)

Next ==
    \/ \E p \in Procs : Step(p)
    \/ \E h \in Handlers : Request(h)
    \/ Refresh(Loop)
    \/ ListenFails \/ Restart

Spec == Init /\ [][Next]_vars

-----------------------------------------------------------------------------
TypeOK ==
    /\ dbCreds \in Some /\ cfgDevice \in Some
    /\ sealed \in Secrets /\ secret \in Secrets
    /\ bounds \in Surroundings
    /\ flags \in [creds : BOOLEAN, lineup : BOOLEAN] /\ login \in {"given", "none"}
    /\ lineupFile \in Devices \union {"absent", "bad"} /\ guideFile \in BOOLEAN
    /\ createXML \in BOOLEAN /\ away \subseteq Procs
    /\ creds \in Some /\ setup \in BOOLEAN /\ lineup \in Some
    /\ schedulersStarted \in BOOLEAN /\ ready \in BOOLEAN
    /\ pc \in [Procs -> Steps]
    /\ op \in [Procs -> {"activate", "select", "refresh"}]
    /\ dev \in [Procs -> Some] /\ chosen \in [Procs -> Some]
    /\ activeXML \subseteq Procs /\ fresh \subseteq Procs /\ settled \in BOOLEAN
    /\ fault \in [Procs -> {"none", "net", "local"}]
    /\ torn \in BOOLEAN /\ unsaved \in BOOLEAN /\ warm \in BOOLEAN
    /\ restarts \in 0 .. bounds.restarts

(* Before discover.json, lineup.json, streams and the announcements open,  *)
(* the lineup is loaded, the credentials streams need are in memory and    *)
(* the schedulers have been started (whose loops may have ended since, with*)
(* the request that started them): whoever completed the activation, and   *)
(* whatever runs beside it.                                                *)
ReadyMeansServable ==
    ready => lineup # NoDevice /\ creds # NoDevice /\ schedulersStarted

(* An active proxy has left on disk what a boot needs to become active     *)
(* again under the same secret, as soon as an activation has been completed*)
(* from beginning to end since a PUT or a start named another directory or *)
(* enabled the guide (a PUT alone gives the proxy a directory in which     *)
(* nothing may be), and unless lineup.json is cut at that moment.          *)
ReadySurvivesRestart ==
    ready /\ settled /\ lineupFile # "bad" => Stocked(secret)

(* What the service works with is what a restart will find: between two    *)
(* creations of credentials, memory holds those of the database, unless    *)
(* saving them failed ("stores encrypted credentials in SQLite",           *)
(* README.md:9).                                                           *)
CredsSaved ==
    (\A p \in Procs : pc[p] \notin {"createsave", "exited"}) /\ ~unsaved
        => creds \in {NoDevice, dbCreds}

(* A boot that finds credentials it can decrypt, lineup and guide on disk  *)
(* becomes active with the cloud and the device unreachable: only its own  *)
(* database or file system can stop it.                                    *)
WarmStart ==
    warm /\ pc[Main] = "serving" => ready \/ fault[Main] = "local"

(* h finishes a select-device request in this step.                        *)
SelectEnds(h) ==
    /\ op[h] \in {"activate", "select"} /\ pc[h] # "idle"
    /\ pc'[h] = "idle" /\ pc'[Main] # "ensure"

(* A select-device request under which nothing failed leaves the proxy     *)
(* active, whatever was stored under a former secret, unless an earlier    *)
(* crash or failed write cut lineup.json, or --creds asks for a login that *)
(* is not there or was dropped by a PUT: what                              *)
(* "Configure Tablo credentials to start the proxy." (main.go:138) says.   *)
SelectActivates ==
    [][\A h \in Handlers :
         SelectEnds(h) /\ fault'[h] = "none"
            => ready' \/ torn \/ (flags.creds /\ login = "none")]_vars

(* Such a request leaves its device in all three places that name one: the *)
(* running credentials, the stored ones and the configuration.             *)
SelectedDeviceSaved ==
    [][\A h \in Handlers :
         SelectEnds(h) /\ fault'[h] = "none"
            => {creds', dbCreds', cfgDevice'} = {chosen[h]}]_vars

(* And the proxy serves the device that was selected: "Select the Tablo    *)
(* device this proxy should use." (internal/server/web/app.js:158)         *)
SelectedDeviceServed ==
    [][\A h \in Handlers :
         SelectEnds(h) /\ fault'[h] = "none" /\ ready' => lineup' = chosen[h]]_vars
=============================================================================
