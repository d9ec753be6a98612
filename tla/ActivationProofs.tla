-------------------------- MODULE ActivationProofs --------------------------
(***************************************************************************)
(* Proofs about Activation, for any devices, secrets and surroundings.     *)
(*                                                                         *)
(* With any number of concurrent requests: types, ReadyMeansServable,      *)
(* ReadySurvivesRestart and WarmStart.  The first two say what holds once  *)
(* ready is set, and the argument goes backwards along activateProxy:      *)
(* Earned(p) lists what a process at a given step has already seen         *)
(* established, by itself or by another, and nothing but a restart ever    *)
(* takes any of it back.  What it has seen of the files (FilesEarned) a PUT*)
(* of the settings takes back too: it holds of those who are in fresh.     *)
(*                                                                         *)
(* With requests one at a time (Alone): CredsSaved, SelectedDeviceSaved and*)
(* SelectActivates.  Turns says who can be at work while who is, from which*)
(* follows that the boot or the one request activates with only the loop's *)
(* MakeLineup beside it.                                                   *)
(*                                                                         *)
(* At the end, about Sealing: credentials are read back as they were       *)
(* written.                                                                *)
(***************************************************************************)
EXTENDS Activation, Sealing, SequenceTheorems, TLAPS

InHand      == {"create", "createset", "createsave", "savecfg", "readset",
                "fetch", "write", "parse", "loadset"}
LoadingOn   == {"save", "load", "loadset", "guide", "start", "startset", "setready"}
GuideOn     == {"guide", "start", "startset", "setready"}
StartOn     == {"start", "startset", "setready"}

Earned(p) ==
    /\ pc[p] \in InHand => dev[p] \in Devices
    /\ pc[p] \in {"read", "readset", "file"} \union LoadingOn => dbCreds # NoDevice
    /\ pc[p] \in {"make", "fetch", "write", "parse"} /\ op[p] # "refresh"
         => dbCreds # NoDevice /\ sealed = secret
    /\ pc[p] \in {"readset", "file"} \union LoadingOn => sealed = secret
    /\ pc[p] \in {"createsave", "file", "fetch", "write", "parse"} \union LoadingOn => creds # NoDevice
    /\ pc[p] \in GuideOn => lineup # NoDevice
    /\ pc[p] = "setready" => schedulersStarted

(* The files of an activation that began with this directory and guide.    *)
FilesEarned(p) ==
    p \in fresh =>
      /\ pc[p] \in {"write", "parse"} \union LoadingOn => lineupFile # "absent"
      /\ createXML =>
           /\ pc[p] \in {"make", "fetch", "write", "parse"} /\ op[p] # "refresh"
                => p \in activeXML
           /\ pc[p] \in {"save", "load", "loadset", "guide"} => p \in activeXML
           /\ pc[p] \in StartOn => guideFile

(* What ready promises,                                                    *)
Promised ==
    /\ lineup # NoDevice /\ creds # NoDevice /\ schedulersStarted
    /\ dbCreds # NoDevice /\ sealed = secret

(* and what a completed activation has left in the directory.              *)
FilesPromised == lineupFile # "absent" /\ (createXML => guideFile)

ActivationInv ==
    /\ TypeOK
    /\ \A p \in Procs : Earned(p) /\ FilesEarned(p)
    /\ ready => Promised
    /\ settled => FilesPromised

LEMMA BoundsFacts ==
    ASSUME bounds \in Surroundings
    PROVE  /\ bounds.secrets \subseteq Secrets
           /\ bounds.flags \subseteq [creds : BOOLEAN, lineup : BOOLEAN]
           /\ bounds.logins \subseteq {"given", "none"} /\ bounds.devices \subseteq Some
           /\ bounds.guides \subseteq BOOLEAN /\ bounds.restarts \in Nat
BY SurroundingsAssumption DEF Some

-----------------------------------------------------------------------------
LEMMA TypeInit == Init => TypeOK
<1> SUFFICES ASSUME Init PROVE TypeOK
    OBVIOUS
<1>1. /\ guideFile \in BOOLEAN /\ setup \in BOOLEAN /\ schedulersStarted \in BOOLEAN
      /\ ready \in BOOLEAN /\ torn \in BOOLEAN /\ unsaved \in BOOLEAN /\ warm \in BOOLEAN
      /\ settled \in BOOLEAN
      BY Zenon DEF Init
<1>2. /\ pc \in [Procs -> Steps]
      /\ op \in [Procs -> {"activate", "select", "refresh"}]
      /\ dev \in [Procs -> Some] /\ chosen \in [Procs -> Some]
      /\ fault \in [Procs -> {"none", "net", "local"}]
      BY DEF Init, Steps, Some
<1>3. /\ dbCreds \in Some /\ cfgDevice \in Some /\ creds \in Some /\ lineup \in Some
      /\ lineupFile \in Devices \union {"absent", "bad"}
      /\ away \subseteq Procs /\ activeXML \subseteq Procs /\ fresh \subseteq Procs
      BY DEF Init, Some, Procs
<1>4. /\ bounds \in Surroundings /\ restarts \in 0 .. bounds.restarts
      /\ secret \in Secrets /\ sealed \in Secrets
      /\ flags \in [creds : BOOLEAN, lineup : BOOLEAN]
      /\ login \in {"given", "none"} /\ createXML \in BOOLEAN
      BY BoundsFacts DEF Init
<1>5. QED  BY <1>1, <1>2, <1>3, <1>4 DEF TypeOK

LEMMA TypeStep ==
    ASSUME TypeOK, \A p \in Procs : Earned(p), [Next]_vars
    PROVE  TypeOK'
<1> USE DEF disk, stored, files, mine, service, process, startup, history
<1>1. ASSUME NEW p \in Procs, Step(p)
      PROVE  TypeOK'
  <2> USE DEF Goto, Take, Finish, Fail
  <2>1. CASE Ensure(p)
        BY <2>1 DEF Ensure, TypeOK, Steps
  <2>2. CASE LoginAccount(p)
        BY <2>2 DEF LoginAccount, TypeOK, Steps, Some
  <2>3. CASE Read(p)
        BY <2>3 DEF Read, TypeOK, Steps
  <2>4. CASE ReadSet(p)
        BY <2>4 DEF ReadSet, TypeOK, Steps
  <2>5. CASE Create(p)
        BY <2>5 DEF Create, TypeOK, Steps
  <2>6. CASE CreateSet(p)
    <3>1. setup' \in BOOLEAN
          BY <2>6 DEF CreateSet
    <3>2. QED  BY <2>6, <3>1 DEF CreateSet, TypeOK, Steps
  <2>7. CASE CreateSave(p)
    <3>1. unsaved' \in BOOLEAN
          BY <2>7 DEF CreateSave
    <3>2. QED  BY <2>7, <3>1 DEF CreateSave, TypeOK, Steps
  <2>8. CASE SaveConfig(p)
        BY <2>8 DEF SaveConfig, TypeOK, Steps
  <2>9. CASE LineupFile(p)
        BY <2>9 DEF LineupFile, WithConfig, TypeOK, Steps
  <2>10. CASE Make(p)
        BY <2>10 DEF Make, TypeOK, Steps
  <2>11. CASE Fetch(p)
        BY <2>11 DEF Fetch, TypeOK, Steps
  <2>12. CASE Write(p)
    <3>1. torn' \in BOOLEAN
          BY <2>12, Zenon DEF Write, TypeOK
    <3>2. lineupFile' \in Devices \union {"absent", "bad"}
          BY <2>12 DEF Write, Earned, InHand, TypeOK
    <3>3. QED  BY <2>12, <3>1, <3>2 DEF Write, TypeOK, Steps
  <2>13. CASE Parse(p)
        BY <2>13 DEF Parse, TypeOK, Steps
  <2>14. CASE SaveSchedule(p)
        BY <2>14 DEF SaveSchedule, TypeOK, Steps
  <2>15. CASE Load(p)
        BY <2>15 DEF Load, TypeOK, Steps, Some
  <2>16. CASE LoadSet(p)
        BY <2>16 DEF LoadSet, TypeOK, Steps
  <2>17. CASE Guide(p)
    <3>1. guideFile' \in BOOLEAN
          BY <2>17 DEF Guide, TypeOK
    <3>2. QED  BY <2>17, <3>1 DEF Guide, TypeOK, Steps
  <2>18. CASE StartTest(p)
        BY <2>18 DEF StartTest, TypeOK, Steps
  <2>19. CASE StartSet(p)
    <3>1. schedulersStarted' \in BOOLEAN
          BY <2>19 DEF StartSet
    <3>2. QED  BY <2>19, <3>1 DEF StartSet, TypeOK, Steps
  <2>20. CASE SetProxyReady(p)
    <3>1. ready' \in BOOLEAN /\ settled' \in BOOLEAN
          BY <2>20, Zenon DEF SetProxyReady, TypeOK
    <3>2. QED  BY <2>20, <3>1 DEF SetProxyReady, TypeOK, Steps
  <2>21. QED
        BY <1>1, <2>1, <2>2, <2>3, <2>4, <2>5, <2>6, <2>7, <2>8, <2>9, <2>10,
           <2>11, <2>12, <2>13, <2>14, <2>15, <2>16, <2>17, <2>18, <2>19, <2>20
        DEF Step
<1>2. ASSUME NEW h \in Handlers, Request(h)
      PROVE  TypeOK'
  <2>1. h \in Procs
        BY DEF Procs
  <2>2. CASE Login(h)
    <3>1. setup' \in BOOLEAN
          BY <2>2 DEF Login
    <3>2. QED  BY <2>2, <3>1 DEF Login, TypeOK
  <2>3. CASE Refresh(h)
        BY <2>1, <2>3 DEF Refresh, Goto, TypeOK, Steps
  <2>4. ASSUME NEW d \in Devices, SelectDevice(h, d)
        PROVE  TypeOK'
        BY <2>1, <2>4 DEF SelectDevice, Goto, Take, TypeOK, Steps, Some
  <2>5. CASE PutConfig(h)
    <3>1. /\ createXML' \in BOOLEAN /\ cfgDevice' \in Some /\ login' \in {"given", "none"}
          /\ away' \subseteq Procs /\ fresh' \subseteq Procs
          BY <2>5, BoundsFacts DEF PutConfig, TypeOK
    <3>2. /\ lineupFile' \in Devices \union {"absent", "bad"} /\ guideFile' \in BOOLEAN
          BY <2>5 DEF PutConfig, Move, TypeOK
    <3>3. torn' \in BOOLEAN /\ settled' \in BOOLEAN
          BY <2>5, Zenon DEF PutConfig, Move, TypeOK
    <3>4. QED  BY <2>5, <3>1, <3>2, <3>3 DEF PutConfig, TypeOK
  <2>6. QED  BY <1>2, <2>2, <2>3, <2>4, <2>5 DEF Request
<1>3. CASE Refresh(Loop)
  <2>1. Loop \in Procs
        BY DEF Procs
  <2>2. QED  BY <1>3, <2>1 DEF Refresh, Goto, TypeOK, Steps
<1>4. CASE ListenFails
      BY <1>4 DEF ListenFails, TypeOK, Steps
<1>5. CASE Restart
  <2>1. /\ setup' \in BOOLEAN /\ schedulersStarted' \in BOOLEAN /\ ready' \in BOOLEAN
        /\ torn' \in BOOLEAN /\ unsaved' \in BOOLEAN /\ warm' \in BOOLEAN
    <3>1. setup' = FALSE /\ schedulersStarted' = FALSE /\ ready' = FALSE /\ unsaved' = FALSE
          BY <1>5 DEF Restart
    <3>2. torn' \in BOOLEAN
          BY <1>5, Zenon DEF Restart, Move
    <3>3. warm' \in BOOLEAN
          BY <1>5, Zenon DEF Restart, Stocked, Opens
    <3>4. QED  BY <3>1, <3>2, <3>3
  <2>2. /\ pc' \in [Procs -> Steps]
        /\ op' \in [Procs -> {"activate", "select", "refresh"}]
        /\ dev' \in [Procs -> Some] /\ chosen' \in [Procs -> Some]
        /\ fault' \in [Procs -> {"none", "net", "local"}]
        BY <1>5 DEF Restart, Steps, Some
  <2>3. /\ creds' \in Some /\ lineup' \in Some
        /\ secret' \in Secrets /\ flags' \in [creds : BOOLEAN, lineup : BOOLEAN]
        /\ login' \in {"given", "none"} /\ createXML' \in BOOLEAN
        BY <1>5, BoundsFacts DEF Restart, Some, TypeOK
  <2>4. bounds' \in Surroundings /\ restarts' \in 0 .. bounds'.restarts
        BY <1>5, BoundsFacts DEF Restart, TypeOK
  <2>5. /\ lineupFile' \in Devices \union {"absent", "bad"} /\ guideFile' \in BOOLEAN
        BY <1>5 DEF Restart, Move, TypeOK
  <2>6. /\ away' \subseteq Procs /\ activeXML' \subseteq Procs /\ fresh' \subseteq Procs
        BY <1>5 DEF Restart, Procs
  <2>7. settled' \in BOOLEAN
        BY <1>5, Zenon DEF Restart
  <2>8. QED  BY <1>5, <2>1, <2>2, <2>3, <2>4, <2>5, <2>6, <2>7 DEF Restart, TypeOK
<1>6. CASE UNCHANGED vars
      BY <1>6 DEF vars, TypeOK
<1>7. QED  BY <1>1, <1>2, <1>3, <1>4, <1>5, <1>6 DEF Next

-----------------------------------------------------------------------------
(* Within a process life, what is established stays established.           *)
Kept ==
    /\ dbCreds # NoDevice => dbCreds' # NoDevice
    /\ sealed = secret => sealed' = secret'
    /\ creds # NoDevice => creds' # NoDevice
    /\ lineup # NoDevice => lineup' # NoDevice
    /\ schedulersStarted => schedulersStarted'

FilesKept ==
    /\ lineupFile # "absent" => lineupFile' # "absent"
    /\ guideFile => guideFile'
    /\ createXML' => createXML

LEMMA StepKeeps ==
    ASSUME ActivationInv, NEW p \in Procs, Step(p)
    PROVE  Kept /\ FilesKept
<1> USE DevicesAssumption, FileAssumption DEF disk, stored, files, mine, service, process,
        startup, history
<1>1. Earned(p)
      BY DEF ActivationInv
<1>2. CASE \/ Ensure(p) \/ LoginAccount(p) \/ Read(p) \/ Create(p)
           \/ SaveConfig(p) \/ LineupFile(p) \/ Make(p) \/ SaveSchedule(p)
           \/ Load(p) \/ StartTest(p) \/ SetProxyReady(p)
      BY <1>2 DEF Kept, FilesKept, Ensure, LoginAccount, Read, Create, SaveConfig,
         LineupFile, WithConfig,
         Make, SaveSchedule, Load, StartTest, SetProxyReady
<1>3. CASE ReadSet(p) \/ CreateSet(p) \/ CreateSave(p)
      BY <1>1, <1>3 DEF Kept, FilesKept, ReadSet, CreateSet, CreateSave, Earned, InHand
<1>4. CASE Fetch(p) \/ Write(p) \/ Parse(p) \/ LoadSet(p)
      BY <1>1, <1>4 DEF Kept, FilesKept, Fetch, Write, Parse, LoadSet, Earned, InHand
<1>5. CASE Guide(p) \/ StartSet(p)
      BY <1>5 DEF Kept, FilesKept, Guide, StartSet
<1>6. QED  BY <1>2, <1>3, <1>4, <1>5 DEF Step

(* A step of p earns what its next step of the activation relies on.       *)
LEMMA StepEarns ==
    ASSUME ActivationInv, NEW p \in Procs, Step(p)
    PROVE  Earned(p)' /\ FilesEarned(p)'
<1> USE DevicesAssumption, FileAssumption DEF disk, stored, files, mine, service, process,
        startup, history
<1>1. Kept /\ FilesKept /\ Earned(p) /\ FilesEarned(p) /\ TypeOK
      BY StepKeeps DEF ActivationInv
<1> USE <1>1 DEF Goto, Take, Finish, Fail, Earned, FilesEarned, Kept, FilesKept, TypeOK,
        InHand, LoadingOn,
                GuideOn, StartOn
<1>2. CASE Ensure(p) \/ LoginAccount(p)
      BY <1>2 DEF Ensure, LoginAccount, Some
<1>3. CASE Read(p) \/ ReadSet(p)
      BY <1>3 DEF Read, ReadSet, Opens, Some
<1>4. CASE Create(p) \/ CreateSet(p)
      BY <1>4 DEF Create, CreateSet
<1>5. CASE CreateSave(p)
      BY <1>5 DEF CreateSave
<1>6. CASE SaveConfig(p) \/ LineupFile(p)
      BY <1>6 DEF SaveConfig, LineupFile, WithConfig
<1>7. CASE Make(p)
      BY <1>7 DEF Make, Some
<1>8. CASE Fetch(p) \/ Write(p)
      BY <1>8 DEF Fetch, Write
<1>9. CASE Parse(p) \/ SaveSchedule(p)
      BY <1>9 DEF Parse, SaveSchedule
<1>10. CASE Load(p) \/ LoadSet(p)
      BY <1>10 DEF Load, LoadSet
<1>11. CASE Guide(p)
      BY <1>11 DEF Guide
<1>12. CASE StartTest(p) \/ StartSet(p) \/ SetProxyReady(p)
      BY <1>12 DEF StartTest, StartSet, SetProxyReady
<1>13. QED
      BY <1>2, <1>3, <1>4, <1>5, <1>6, <1>7, <1>8, <1>9, <1>10, <1>11, <1>12 DEF Step

(* ... and takes nothing from the others.                                  *)
LEMMA OthersKeep ==
    ASSUME NEW q \in Procs, Earned(q), FilesEarned(q), Kept, FilesKept \/ fresh' = {},
           pc'[q] = pc[q], op'[q] = op[q], dev'[q] = dev[q],
           q \in fresh' => q \in fresh, q \in activeXML => q \in activeXML'
    PROVE  Earned(q)' /\ FilesEarned(q)'
<1>1. Earned(q)'
      BY DEF Earned, Kept
<1>2. FilesEarned(q)'
      BY DEF FilesEarned, FilesKept
<1>3. QED  BY <1>1, <1>2

LEMMA ActivationInvInit == Init => ActivationInv
<1> SUFFICES ASSUME Init PROVE ActivationInv
    OBVIOUS
<1>1. \A p \in Procs : Earned(p) /\ FilesEarned(p)
      BY DEF Init, Earned, FilesEarned, InHand, LoadingOn, GuideOn, StartOn
<1>2. QED  BY <1>1, TypeInit DEF ActivationInv, Init

Inductive ==
    /\ \A p \in Procs : Earned(p) /\ FilesEarned(p)
    /\ ready => Promised
    /\ settled => FilesPromised

LEMMA ActivationInvStep == ActivationInv /\ [Next]_vars => ActivationInv'
<1> SUFFICES ASSUME ActivationInv, [Next]_vars PROVE Inductive'
    BY TypeStep, Zenon DEF ActivationInv, Inductive
<1> USE DEF disk, stored, files, mine, service, process, startup, history
<1>1. ASSUME NEW p \in Procs, Step(p)
      PROVE  Inductive'
  <2>1. Kept /\ FilesKept /\ Earned(p)' /\ FilesEarned(p)'
        BY <1>1, StepKeeps, StepEarns
  <2>2. \A q \in Procs : q # p =>
           /\ pc'[q] = pc[q] /\ op'[q] = op[q] /\ dev'[q] = dev[q]
           /\ q \in fresh' => q \in fresh
           /\ q \in activeXML => q \in activeXML'
        BY <1>1 DEF Step, Ensure, LoginAccount, Read, ReadSet, Create, CreateSet,
           CreateSave, SaveConfig, LineupFile, WithConfig, Make, Fetch, Write, Parse,
           SaveSchedule, Load, LoadSet, Guide, StartTest, StartSet, SetProxyReady, Goto,
           Take, Finish, Fail, ActivationInv, TypeOK
  <2>3. \A q \in Procs : Earned(q)' /\ FilesEarned(q)'
        BY <2>1, <2>2, OthersKeep DEF ActivationInv
  <2>4. /\ ready' => ready \/ SetProxyReady(p)
        /\ settled' => settled \/ (SetProxyReady(p) /\ p \in fresh)
    <3>1. CASE SetProxyReady(p)
      <4>1. settled' = (settled \/ p \in fresh)
            BY <3>1, Zenon DEF SetProxyReady
      <4>2. QED  BY <3>1, <4>1, Zenon
    <3>2. CASE ~SetProxyReady(p)
      <4>1. ready' = ready
            BY <1>1, <3>2 DEF Step, Ensure, LoginAccount, Read, ReadSet, Create, CreateSet,
               CreateSave, SaveConfig, LineupFile, Make, Fetch, Write, Parse, SaveSchedule,
               Load, LoadSet, Guide, StartTest, StartSet
      <4>2. settled' = settled
            BY <1>1, <3>2 DEF Step, Ensure, LoginAccount, Read, ReadSet, Create, CreateSet,
               CreateSave, SaveConfig, LineupFile, Make, Fetch, Write, Parse, SaveSchedule,
               Load, LoadSet, Guide, StartTest, StartSet
      <4>3. QED  BY <4>1, <4>2, Zenon
    <3>3. QED  BY <3>1, <3>2
  <2>5. SetProxyReady(p) => Promised /\ (p \in fresh => FilesPromised)
    <3> SUFFICES ASSUME SetProxyReady(p)
                 PROVE  Promised /\ (p \in fresh => FilesPromised)
        OBVIOUS
    <3>1. pc[p] = "setready" /\ Earned(p) /\ FilesEarned(p)
          BY DEF SetProxyReady, ActivationInv
    <3>2. /\ lineup # NoDevice /\ creds # NoDevice
          /\ dbCreds # NoDevice /\ sealed = secret
          BY <3>1 DEF Earned, LoadingOn, GuideOn
    <3>3. schedulersStarted
          BY <3>1 DEF Earned
    <3>4. p \in fresh => FilesPromised
          BY <3>1 DEF FilesEarned, FilesPromised, LoadingOn, StartOn
    <3>5. QED  BY <3>2, <3>3, <3>4 DEF Promised
  <2>6. Promised => Promised'
        BY <2>1, Zenon DEF Kept, Promised
  <2>7. FilesPromised => FilesPromised'
        BY <2>1, Zenon DEF FilesKept, FilesPromised
  <2>8. (ready => Promised) /\ (settled => FilesPromised)
        BY DEF ActivationInv
  <2>9. QED  BY <2>3, <2>4, <2>5, <2>6, <2>7, <2>8, Zenon DEF Inductive
<1>2. ASSUME NEW h \in Procs,
             Login(h) \/ Refresh(h) \/ PutConfig(h) \/ \E d \in Devices : SelectDevice(h, d)
      PROVE  Inductive'
  <2>1. /\ Kept /\ (ready' => ready) /\ (settled' => settled)
        /\ FilesKept \/ (fresh' = {} /\ ~settled')
    <3>1. CASE Login(h)
          BY <3>1, Zenon DEF Login, Kept, FilesKept
    <3>2. CASE Refresh(h)
          BY <3>2, Zenon DEF Refresh, Kept, FilesKept
    <3>3. CASE PutConfig(h)
      <4>1. Kept /\ (ready' => ready)
            BY <3>3, Zenon DEF PutConfig, Kept
      <4>2. (fresh' = {} /\ ~settled') \/ (FilesKept /\ (settled' => settled))
            BY <3>3, Zenon DEF PutConfig, FilesKept
      <4>3. QED  BY <4>1, <4>2, Zenon
    <3>4. ASSUME NEW d \in Devices, SelectDevice(h, d)
          PROVE  Kept /\ FilesKept /\ (ready' => ready) /\ (settled' => settled)
          BY <3>4, Zenon DEF SelectDevice, Kept, FilesKept
    <3>5. QED  BY <1>2, <3>1, <3>2, <3>3, <3>4, Zenon
  <2>2. \A q \in Procs : q # h => pc'[q] = pc[q] /\ op'[q] = op[q] /\ dev'[q] = dev[q]
        BY <1>2 DEF Login, Refresh, PutConfig, SelectDevice, Goto, Take, ActivationInv, TypeOK
  <2>3. activeXML' = activeXML /\ \A q \in Procs : q \in fresh' => q \in fresh
        BY <1>2 DEF Login, Refresh, PutConfig, SelectDevice, Goto
  <2>4. Earned(h)' /\ FilesEarned(h)'
    <3>1. CASE Login(h) \/ PutConfig(h)
          BY <2>1, <2>3, <3>1, OthersKeep DEF Login, PutConfig, ActivationInv
    <3>2. CASE Refresh(h)
          BY <3>2 DEF Refresh, Goto, Earned, FilesEarned, ActivationInv, TypeOK, InHand,
             LoadingOn, GuideOn, StartOn
    <3>3. ASSUME NEW d \in Devices, SelectDevice(h, d)
          PROVE  Earned(h)' /\ FilesEarned(h)'
          BY <3>3 DEF SelectDevice, Goto, Take, Earned, FilesEarned, ActivationInv, TypeOK,
             InHand, LoadingOn, GuideOn, StartOn
    <3>4. QED  BY <1>2, <3>1, <3>2, <3>3
  <2>5. \A q \in Procs : Earned(q)' /\ FilesEarned(q)'
        BY <2>1, <2>2, <2>3, <2>4, OthersKeep DEF ActivationInv
  <2>6. (ready => Promised) /\ (settled => FilesPromised)
        BY DEF ActivationInv
  <2>7. QED  BY <2>1, <2>5, <2>6, Zenon DEF Kept, FilesKept, Promised, FilesPromised, Inductive
<1>3. CASE ListenFails
  <2>1. \A q \in Procs : pc'[q] = "exited"
        BY <1>3 DEF ListenFails
  <2>2. \A q \in Procs : Earned(q)' /\ FilesEarned(q)'
        BY <2>1 DEF Earned, FilesEarned, InHand, LoadingOn, GuideOn, StartOn
  <2>3. (ready => Promised)' /\ (settled => FilesPromised)'
        BY <1>3 DEF ListenFails, ActivationInv, Promised, FilesPromised
  <2>4. QED  BY <2>2, <2>3, Zenon DEF Inductive
<1>4. CASE Restart
  <2>1. \A q \in Procs : pc'[q] \in {"ensure", "idle"}
        BY <1>4 DEF Restart
  <2>2. \A q \in Procs : Earned(q)' /\ FilesEarned(q)'
        BY <2>1 DEF Earned, FilesEarned, InHand, LoadingOn, GuideOn, StartOn
  <2>3. ~ready' /\ ~settled'
        BY <1>4 DEF Restart
  <2>4. QED  BY <2>2, <2>3, Zenon DEF Inductive
<1>5. CASE UNCHANGED vars
  <2>1. \A q \in Procs : Earned(q)' /\ FilesEarned(q)'
        BY <1>5 DEF vars, ActivationInv, Earned, FilesEarned
  <2>2. (ready => Promised)' /\ (settled => FilesPromised)'
        BY <1>5 DEF vars, ActivationInv, Promised, FilesPromised
  <2>3. QED  BY <2>1, <2>2, Zenon DEF Inductive
<1>6. Loop \in Procs /\ Handlers \subseteq Procs
      BY DEF Procs
<1>7. QED
      BY <1>1, <1>2, <1>3, <1>4, <1>5, <1>6, Zenon DEF Next, Request

LEMMA ActivationInvariant == Spec => []ActivationInv
BY ActivationInvInit, ActivationInvStep, PTL DEF Spec

-----------------------------------------------------------------------------
(* Types: in particular nothing but a device of the account is ever taken  *)
(* for credentials or loaded as a lineup.                                  *)
THEOREM TypeCorrect == Spec => []TypeOK
BY ActivationInvariant, PTL DEF ActivationInv

(* An active proxy can serve: lineup loaded, credentials in memory, and the*)
(* schedulers were started (they may have ended with their request),       *)
(* whoever activated it and whatever ran meanwhile.                        *)
THEOREM ActiveCanServe == Spec => []ReadyMeansServable
<1>1. ActivationInv => ReadyMeansServable
      BY DEF ActivationInv, Promised, ReadyMeansServable
<1>2. QED  BY <1>1, ActivationInvariant, PTL

(* An active proxy that is killed becomes active again by itself, unless   *)
(* it died while lineup.json was cut: everything a boot needs is on disk,  *)
(* in the directory of the settings too, as soon as an activation has been *)
(* completed since a PUT or a start named it or enabled the guide.         *)
THEOREM ActiveSurvivesRestart == Spec => []ReadySurvivesRestart
<1>1. ActivationInv => ReadySurvivesRestart
      BY DEF ActivationInv, TypeOK, Promised, FilesPromised, ReadySurvivesRestart, Stocked,
         Opens
<1>2. QED  BY <1>1, ActivationInvariant, PTL
-----------------------------------------------------------------------------
(* What every step of p leaves alone.                                      *)
LEMMA StepFrame ==
    ASSUME TypeOK, NEW p \in Procs, Step(p)
    PROVE  /\ pc[p] \notin {"idle", "serving", "exited"}
           /\ \A q \in Procs \ {p} : /\ pc'[q] = pc[q] /\ op'[q] = op[q]
                                     /\ dev'[q] = dev[q] /\ fault'[q] = fault[q]
           /\ pc[p] # "startset" => (schedulersStarted' <=> schedulersStarted)
           /\ pc[p] = "setready" => pc'[p] \in {"serving", "idle"}
           /\ pc'[p] # "serving" \/ p = Main
           /\ secret' = secret /\ flags' = flags /\ warm' = warm /\ chosen' = chosen
BY DEF Step, Ensure, LoginAccount, Read, ReadSet, Create, CreateSet, CreateSave,
   SaveConfig, LineupFile, WithConfig, Make, Fetch, Write, Parse, SaveSchedule, Load, LoadSet,
   Guide, StartTest, StartSet, SetProxyReady, Goto, Take, Finish, Fail, TypeOK,
   disk, stored, files, mine, service, process, startup, history

(* Who can be at work at what time.  The handlers wait until main serves,  *)
(* the loop until somebody has started it, and by then the credentials are *)
(* in memory, so that the loop never reads them.                           *)
LoopSteps == {"make", "fetch", "write", "parse"}

Turns ==
    /\ pc[Main] # "idle"
    /\ pc[Main] \notin {"serving", "exited"} => \A h \in Handlers : pc[h] = "idle"
    /\ pc[Main] \notin {"serving", "exited", "setready"} => ~schedulersStarted
    /\ ~schedulersStarted => pc[Loop] \in {"idle", "exited"}
    /\ schedulersStarted => creds # NoDevice
    /\ pc[Loop] \in LoopSteps \union {"idle", "exited"}
    /\ pc[Loop] \in LoopSteps => op[Loop] = "refresh"

TurnsInv == ActivationInv /\ Turns

LEMMA TurnsInit == Init => Turns
BY ProcsAssumption DEF Init, Turns, LoopSteps, Procs

LEMMA MainTurns ==
    ASSUME TurnsInv, Step(Main)
    PROVE  Turns'
<1>1. /\ Main \in Procs /\ Loop \in Procs \ {Main} /\ Handlers \subseteq Procs \ {Main}
      /\ TypeOK /\ Kept /\ Earned(Main)
      BY StepKeeps, ProcsAssumption DEF Procs, TurnsInv, ActivationInv
<1>2. /\ pc[Main] \notin {"idle", "serving", "exited"}
      /\ pc'[Loop] = pc[Loop] /\ op'[Loop] = op[Loop]
      /\ \A h \in Handlers : pc'[h] = "idle"
      BY <1>1, StepFrame DEF TurnsInv, Turns
<1>3. pc'[Main] # "idle"
      BY <1>1, <1>2 DEF Step, Ensure, LoginAccount, Read, ReadSet, Create, CreateSet,
         CreateSave,
         SaveConfig, LineupFile, WithConfig, Make, Fetch, Write, Parse, SaveSchedule, Load,
         LoadSet,
         Guide, StartTest, StartSet, SetProxyReady, Goto, Finish, Fail, TypeOK
<1>4. CASE pc[Main] = "startset"
  <2>1. StartSet(Main)
        BY <1>4 DEF Step, Ensure, LoginAccount, Read, ReadSet, Create, CreateSet, CreateSave,
           SaveConfig, LineupFile, WithConfig, Make, Fetch, Write, Parse, SaveSchedule,
           Load, LoadSet,
           Guide, StartTest, StartSet, SetProxyReady
  <2>2. schedulersStarted' /\ pc'[Main] = "setready" /\ creds' # NoDevice
        BY <1>1, <1>4, <2>1 DEF StartSet, Goto, TypeOK, TurnsInv, Turns, Earned, LoadingOn, Kept
  <2>3. schedulersStarted'
        BY <2>1 DEF StartSet
  <2>4. QED  BY <1>2, <2>2, <2>3, Zenon DEF TurnsInv, Turns
<1>5. CASE pc[Main] # "startset"
  <2>1. (schedulersStarted' <=> schedulersStarted) /\ (pc[Main] = "setready" => pc'[Main] \in {"serving", "idle"})
        BY <1>1, <1>5, StepFrame
  <2>2. schedulersStarted => creds' # NoDevice
        BY <1>1, Zenon DEF TurnsInv, Turns, Kept
  <2>3. pc'[Main] \notin {"serving", "exited", "setready"} => ~schedulersStarted'
        BY <1>2, <1>3, <2>1 DEF TurnsInv, Turns
  <2>4. /\ ~schedulersStarted' => pc'[Loop] \in {"idle", "exited"}
        /\ pc'[Loop] \in LoopSteps \union {"idle", "exited"}
        /\ pc'[Loop] \in LoopSteps => op'[Loop] = "refresh"
        BY <1>2, <2>1 DEF TurnsInv, Turns
  <2>5. QED  BY <1>2, <1>3, <2>1, <2>2, <2>3, <2>4, Zenon DEF Turns
<1>6. QED  BY <1>4, <1>5

(* The loop refreshes the lineup and does nothing else.                    *)
LEMMA LoopTurns ==
    ASSUME TurnsInv, Step(Loop)
    PROVE  /\ Turns'
           /\ Make(Loop) \/ Fetch(Loop) \/ Write(Loop) \/ Parse(Loop)
           /\ pc[Main] \in {"serving", "exited", "setready"} /\ op[Loop] = "refresh"
           /\ schedulersStarted
<1>1. /\ Loop \in Procs /\ Main \in Procs \ {Loop} /\ Handlers \subseteq Procs \ {Loop}
      /\ TypeOK /\ Kept
      BY StepKeeps, ProcsAssumption DEF Procs, TurnsInv, ActivationInv
<1>2. pc[Loop] \in LoopSteps
      BY <1>1, StepFrame DEF TurnsInv, Turns
<1>3. Make(Loop) \/ Fetch(Loop) \/ Write(Loop) \/ Parse(Loop)
      BY <1>2 DEF LoopSteps, Step, Ensure, LoginAccount, Read, ReadSet, Create, CreateSet,
         CreateSave,
         SaveConfig, LineupFile, WithConfig, Make, Fetch, Write, Parse, SaveSchedule, Load,
         LoadSet,
         Guide, StartTest, StartSet, SetProxyReady
<1>4. schedulersStarted /\ op[Loop] = "refresh" /\ creds # NoDevice
      BY <1>2 DEF TurnsInv, Turns, LoopSteps
<1>5. pc[Main] \in {"serving", "exited", "setready"}
      BY <1>4 DEF TurnsInv, Turns
<1>6. op'[Loop] = op[Loop] /\ pc'[Loop] \in LoopSteps \union {"idle"} /\ (schedulersStarted' <=> schedulersStarted)
      BY <1>1, <1>3, <1>4, ProcsAssumption DEF LoopSteps, Make, Fetch, Write, Parse, Goto,
         Finish, Fail, TypeOK, service, startup, disk
<1>7. /\ pc'[Main] = pc[Main]
      /\ \A h \in Handlers : pc'[h] = pc[h]
      BY <1>1, StepFrame
<1>8. creds' # NoDevice /\ schedulersStarted'
      BY <1>1, <1>4, Zenon DEF TurnsInv, Turns, Kept
<1>9. Turns'
      BY <1>4, <1>6, <1>7, <1>8, Zenon DEF TurnsInv, Turns
<1>10. QED  BY <1>3, <1>4, <1>5, <1>9

LEMMA HandlerTurns ==
    ASSUME TurnsInv, NEW h \in Handlers, Step(h)
    PROVE  Turns' /\ pc[Main] \in {"serving", "exited"}
<1>1. /\ h \in Procs /\ Main \in Procs \ {h} /\ Loop \in Procs \ {h}
      /\ TypeOK /\ Kept /\ Earned(h)
      BY StepKeeps, ProcsAssumption DEF Procs, TurnsInv, ActivationInv
<1>2. /\ pc[Main] \in {"serving", "exited"}
      /\ pc'[Main] = pc[Main] /\ pc'[Loop] = pc[Loop] /\ op'[Loop] = op[Loop]
      /\ pc[h] # "startset" => (schedulersStarted' <=> schedulersStarted)
      BY <1>1, StepFrame DEF TurnsInv, Turns
<1>3. CASE pc[h] = "startset"
  <2>1. StartSet(h)
        BY <1>3 DEF Step, Ensure, LoginAccount, Read, ReadSet, Create, CreateSet, CreateSave,
           SaveConfig, LineupFile, WithConfig, Make, Fetch, Write, Parse, SaveSchedule,
           Load, LoadSet,
           Guide, StartTest, StartSet, SetProxyReady
  <2>2. schedulersStarted' /\ creds' # NoDevice
        BY <1>1, <1>3, <2>1 DEF StartSet, TypeOK, Earned, LoadingOn, Kept
  <2>3. schedulersStarted'
        BY <2>1 DEF StartSet
  <2>4. QED  BY <1>2, <2>2, <2>3, Zenon DEF TurnsInv, Turns
<1>4. CASE pc[h] # "startset"
  <2>1. schedulersStarted => creds' # NoDevice
        BY <1>1, Zenon DEF TurnsInv, Turns, Kept
  <2>2. /\ (schedulersStarted' <=> schedulersStarted)
        /\ schedulersStarted' => creds' # NoDevice
        BY <1>2, <1>4, <2>1, Zenon
  <2>3. ~schedulersStarted' => pc'[Loop] \in {"idle", "exited"}
        BY <1>2, <2>2, Zenon DEF TurnsInv, Turns
  <2>4. QED  BY <1>2, <2>2, <2>3, Zenon DEF TurnsInv, Turns
<1>5. QED  BY <1>2, <1>3, <1>4

LEMMA RequestTurns ==
    ASSUME TurnsInv, NEW h \in Handlers, Request(h)
    PROVE  Turns' /\ pc[Main] = "serving" /\ pc[h] = "idle"
<1>1. h # Main /\ h # Loop /\ h \in Procs /\ TypeOK
      BY ProcsAssumption DEF Procs, TurnsInv, ActivationInv
<1>2. pc[Main] = "serving" /\ pc[h] = "idle"
      BY <1>1 DEF Request, Login, Refresh, PutConfig, SelectDevice, Serving
<1>3. /\ pc'[Main] = pc[Main] /\ pc'[Loop] = pc[Loop] /\ op'[Loop] = op[Loop]
      /\ UNCHANGED <<creds, schedulersStarted>>
      BY <1>1 DEF Request, Login, Refresh, PutConfig, SelectDevice, Goto, TypeOK, Procs,
         service, startup, process
<1>4. QED  BY <1>2, <1>3, Zenon DEF TurnsInv, Turns

LEMMA TurnsStep == TurnsInv /\ [Next]_vars => TurnsInv'
<1> SUFFICES ASSUME TurnsInv, [Next]_vars PROVE Turns'
    BY ActivationInvStep DEF TurnsInv
<1>1. Main \in Procs /\ Loop \in Procs /\ Main # Loop /\ TypeOK
      BY ProcsAssumption DEF Procs, TurnsInv, ActivationInv
<1>2. CASE \E p \in Procs : Step(p)
      BY <1>2, MainTurns, LoopTurns, HandlerTurns DEF Procs
<1>3. CASE \E h \in Handlers : Request(h)
      BY <1>3, RequestTurns
<1>4. CASE Refresh(Loop)
  <2>1. /\ schedulersStarted /\ pc'[Loop] = "make" /\ op'[Loop] = "refresh"
        /\ pc'[Main] = pc[Main] /\ UNCHANGED <<creds, schedulersStarted>>
        /\ \A h \in Handlers : pc'[h] = pc[h]
        BY <1>1, <1>4, ProcsAssumption DEF Refresh, Goto, TypeOK, service, startup, Procs
  <2>2. QED  BY <2>1, Zenon DEF TurnsInv, Turns, LoopSteps
<1>5. CASE ListenFails
      BY <1>1, <1>5, Zenon DEF ListenFails, TurnsInv, Turns, LoopSteps, service, startup
<1>6. CASE Restart
      BY <1>1, <1>6, ProcsAssumption DEF Restart, Turns, LoopSteps, Procs
<1>7. CASE UNCHANGED vars
      BY <1>7, Zenon DEF vars, service, startup, TurnsInv, Turns
<1>8. QED  BY <1>2, <1>3, <1>4, <1>5, <1>6, <1>7 DEF Next

LEMMA TurnsInvariant == Spec => []TurnsInv
<1>1. Init => TurnsInv
      BY ActivationInvInit, TurnsInit DEF TurnsInv
<1>2. QED  BY <1>1, TurnsStep, PTL DEF Spec
-----------------------------------------------------------------------------
(* WarmStart.  A boot that finds all it needs goes the short way along     *)
(* activateProxy, and nobody touches the files before main is past them.   *)
WarmSteps == {"ensure", "read", "readset", "file", "load", "loadset", "guide",
              "start", "startset", "setready"}

WarmBoot ==
    warm =>
      /\ pc[Main] \in WarmSteps =>
           /\ ~flags.creds /\ ~flags.lineup /\ fault[Main] = "none"
           /\ pc[Main] = "ensure" => dbCreds # NoDevice
           /\ pc[Main] \in {"ensure", "read"} => sealed = secret
           /\ pc[Main] \in {"ensure", "read", "readset", "file", "load"} =>
                lineupFile \in Devices
           /\ pc[Main] \in {"ensure", "read", "readset", "file"} => (guideFile \/ ~createXML)
           /\ pc[Main] \in {"load", "loadset", "guide"} => (guideFile \/ Main \notin activeXML)
           /\ op[Main] = "activate"
      /\ pc[Main] \in WarmSteps \union {"serving", "exited"}
      /\ pc[Main] = "serving" => ready \/ fault[Main] = "local"

WarmInv == TurnsInv /\ WarmBoot

LEMMA WarmMain ==
    ASSUME WarmInv, Step(Main)
    PROVE  WarmBoot'
<1> SUFFICES ASSUME warm' PROVE WarmBoot'
    BY DEF WarmBoot
<1>1. /\ Main \in Procs /\ TypeOK /\ warm /\ secret' = secret /\ flags' = flags
      /\ pc[Main] \in WarmSteps
      BY StepFrame DEF Procs, WarmInv, TurnsInv, ActivationInv, WarmBoot
<1> USE DevicesAssumption, FileAssumption
    DEF disk, stored, files, mine, service, process, startup, history, Goto, Take, Finish, Fail
<1>2. CASE Ensure(Main)
      BY <1>1, <1>2 DEF Ensure, WarmInv, WarmBoot, WarmSteps, TypeOK
<1>3. CASE Read(Main) \/ ReadSet(Main)
      BY <1>1, <1>3 DEF Read, ReadSet, Opens, WarmInv, WarmBoot, WarmSteps, TypeOK
<1>4. CASE LineupFile(Main)
      BY <1>1, <1>4 DEF LineupFile, WithConfig, WarmInv, WarmBoot, WarmSteps, TypeOK
<1>5. CASE Load(Main) \/ LoadSet(Main)
      BY <1>1, <1>5 DEF Load, LoadSet, WarmInv, WarmBoot, WarmSteps, TypeOK
<1>6. CASE Guide(Main)
      BY <1>1, <1>6 DEF Guide, WarmInv, WarmBoot, WarmSteps, TypeOK
<1>7. CASE StartTest(Main) \/ StartSet(Main)
      BY <1>1, <1>7 DEF StartTest, StartSet, WarmInv, WarmBoot, WarmSteps, TypeOK
<1>8. CASE SetProxyReady(Main)
      BY <1>1, <1>8 DEF SetProxyReady, WarmInv, WarmBoot, WarmSteps, TypeOK
<1>9. QED
      BY <1>1, <1>2, <1>3, <1>4, <1>5, <1>6, <1>7, <1>8 DEF WarmSteps, Step, LoginAccount,
         Create, CreateSet, CreateSave, SaveConfig, Make, Fetch, Write, Parse, SaveSchedule

(* Others are at work only when main serves or is about to.                *)
LEMMA WarmOthers ==
    ASSUME WarmInv, /\ pc'[Main] = pc[Main] /\ fault'[Main] = fault[Main]
                    /\ op'[Main] = op[Main] /\ warm' = warm /\ flags' = flags
                    /\ ready => ready',
           pc[Main] \in {"serving", "exited", "setready"}
    PROVE  WarmBoot'
BY DEF WarmInv, WarmBoot, WarmSteps

LEMMA WarmStep == WarmInv /\ [Next]_vars => WarmInv'
<1> SUFFICES ASSUME WarmInv, [Next]_vars PROVE WarmBoot'
    BY TurnsStep DEF WarmInv
<1>1. /\ Main \in Procs /\ Loop \in Procs \ {Main} /\ Handlers \subseteq Procs \ {Main}
      /\ TypeOK /\ TurnsInv
      BY ProcsAssumption DEF Procs, WarmInv, TurnsInv, ActivationInv
<1>2. CASE Step(Main)
      BY <1>2, WarmMain
<1>3. ASSUME NEW p \in Procs \ {Main}, Step(p)
      PROVE  WarmBoot'
  <2>1. pc[Main] \in {"serving", "exited", "setready"}
        BY <1>1, <1>3, LoopTurns, HandlerTurns DEF Procs
  <2>2. /\ pc'[Main] = pc[Main] /\ fault'[Main] = fault[Main] /\ op'[Main] = op[Main]
        /\ warm' = warm /\ flags' = flags
        BY <1>1, <1>3, StepFrame
  <2>3. ready => ready'
        BY <1>3, Zenon DEF Step, Ensure, LoginAccount, Read, ReadSet, Create, CreateSet,
           CreateSave, SaveConfig, LineupFile, WithConfig, Make, Fetch, Write, Parse,
           SaveSchedule, Load,
           LoadSet, Guide, StartTest, StartSet, SetProxyReady, startup
  <2>4. QED  BY <2>1, <2>2, <2>3, WarmOthers
<1>4. ASSUME NEW h \in Handlers, Request(h)
      PROVE  WarmBoot'
  <2>1. pc[Main] = "serving"
        BY <1>1, <1>4, RequestTurns
  <2>2. /\ pc'[Main] = pc[Main] /\ fault'[Main] = fault[Main] /\ op'[Main] = op[Main]
        /\ warm' = warm /\ flags' = flags
        BY <1>1, <1>4 DEF Request, Login, Refresh, PutConfig, SelectDevice, Goto, TypeOK,
           history, startup, process
  <2>3. ready => ready'
        BY <1>4, Zenon DEF Request, Login, Refresh, PutConfig, SelectDevice, startup
  <2>4. QED  BY <2>1, <2>2, <2>3, WarmOthers
<1>5. CASE Refresh(Loop)
  <2>1. pc[Main] \in {"serving", "exited", "setready"}
        BY <1>1, <1>5, ProcsAssumption DEF Refresh, Procs, TurnsInv, Turns
  <2>2. /\ pc'[Main] = pc[Main] /\ fault'[Main] = fault[Main] /\ op'[Main] = op[Main]
        /\ warm' = warm /\ flags' = flags
        BY <1>1, <1>5 DEF Refresh, Goto, TypeOK, history, startup, process
  <2>3. ready => ready'
        BY <1>5, Zenon DEF Refresh, startup
  <2>4. QED  BY <2>1, <2>2, <2>3, WarmOthers
<1>6. CASE ListenFails
      BY <1>1, <1>6 DEF ListenFails, WarmInv, WarmBoot, WarmSteps, history
<1>7. CASE Restart
  <2>1. /\ pc'[Main] = "ensure" /\ op'[Main] = "activate" /\ fault'[Main] = "none"
        BY <1>1, <1>7 DEF Restart
  <2>2. warm' => Stocked(secret)' /\ ~flags'.creds /\ ~flags'.lineup
        BY <1>7, Zenon DEF Restart
  <2>3. Stocked(secret)' =>
          /\ dbCreds' # NoDevice /\ sealed' = secret' /\ lineupFile' \in Devices
          /\ guideFile' \/ ~createXML'
        BY Zenon DEF Stocked, Opens
  <2>4. QED  BY <2>1, <2>2, <2>3, Zenon DEF WarmBoot, WarmSteps
<1>8. CASE UNCHANGED vars
      BY <1>8, Zenon DEF vars, disk, stored, files, mine, service, process, startup,
         history, WarmInv, WarmBoot
<1>9. QED
      BY <1>2, <1>3, <1>4, <1>5, <1>6, <1>7, <1>8 DEF Next

(* A boot that finds everything on disk, and has the right secret, becomes *)
(* active without the cloud, unless its own database or files fail.        *)
THEOREM WarmBootActivates == Spec => []WarmStart
<1>1. Init => WarmInv
      BY ActivationInvInit, TurnsInit DEF Init, TurnsInv, WarmInv, WarmBoot
<1>2. WarmInv => WarmStart
      BY Zenon DEF WarmInv, WarmBoot, WarmStart
<1>3. QED  BY <1>1, <1>2, WarmStep, PTL DEF Spec
-----------------------------------------------------------------------------
(* Requests one at a time.                                                 *)
Alone == \A g, h \in Handlers : g = h

(* Then only one process activates at a time: the loop never does.         *)
Sole(p) == \A q \in Procs \ {p, Loop} : pc[q] \in {"idle", "serving", "exited"}

LEMMA OneActivates ==
    ASSUME Alone, TurnsInv, NEW p \in Procs, p # Loop, Step(p)
    PROVE  Sole(p)
<1>1. TypeOK
      BY DEF TurnsInv, ActivationInv
<1>2. CASE p = Main
      BY <1>1, <1>2, StepFrame DEF TurnsInv, Turns, Sole, Procs
<1>3. CASE p \in Handlers
      BY <1>3, HandlerTurns DEF Alone, Sole, Procs
<1>4. QED  BY <1>2, <1>3 DEF Procs

-----------------------------------------------------------------------------
(* What is in memory and what is in the database: they differ only between *)
(* the two steps of a creation, or after the second of them failed.        *)
Saving ==
    /\ \A p \in Procs : /\ pc[p] = "readset" => dev[p] = dbCreds
                        /\ pc[p] = "createsave" => creds = dev[p]
    /\ CredsSaved

SavingInv == TurnsInv /\ Saving

LEMMA SavingOwn ==
    ASSUME Alone, SavingInv, NEW p \in Procs, p # Loop, Step(p)
    PROVE  Saving'
<1>1. /\ TypeOK /\ Sole(p) /\ pc[p] \notin {"idle", "serving", "exited"}
      /\ \A q \in Procs \ {p} : pc'[q] = pc[q] /\ dev'[q] = dev[q]
      /\ Loop \in Procs
      BY OneActivates, StepFrame DEF SavingInv, TurnsInv, ActivationInv, Procs
<1>2. \A q \in Procs \ {p} : pc[q] \notin {"readset", "createsave"}
      BY <1>1 DEF Sole, SavingInv, TurnsInv, Turns, LoopSteps
<1> USE <1>1, <1>2 DEF disk, stored, files, mine, service, process, startup, history, Goto,
        Take, Finish,
        Fail, TypeOK, SavingInv, Saving, CredsSaved
<1>3. CASE CreateSet(p)
      BY <1>3 DEF CreateSet
<1>4. CASE CreateSave(p)
  <2>1. CASE unsaved'
        BY <1>4, <2>1 DEF CreateSave
  <2>2. CASE ~unsaved'
        BY <1>4, <2>2 DEF CreateSave
  <2>3. QED  BY <2>1, <2>2
<1>5. CASE Read(p) \/ ReadSet(p)
      BY <1>5 DEF Read, ReadSet
<1>6. CASE ~(CreateSet(p) \/ CreateSave(p) \/ Read(p) \/ ReadSet(p))
  <2>1. /\ UNCHANGED <<creds, dbCreds, unsaved>>
        /\ pc'[p] \notin {"readset", "createsave"}
        /\ pc[p] \notin {"readset", "createsave"}
        BY <1>6 DEF Step, Ensure, LoginAccount, Create, SaveConfig, LineupFile, WithConfig,
           Make, Fetch,
           Write, Parse, SaveSchedule, Load, LoadSet, Guide, StartTest, StartSet, SetProxyReady
  <2>2. QED  BY <2>1
<1>7. QED  BY <1>3, <1>4, <1>5, <1>6

LEMMA SavingStep == Alone /\ SavingInv /\ [Next]_vars => SavingInv'
<1> SUFFICES ASSUME Alone, SavingInv, [Next]_vars PROVE Saving'
    BY TurnsStep DEF SavingInv
<1>1. /\ Main \in Procs /\ Loop \in Procs /\ Handlers \subseteq Procs /\ TypeOK
      /\ TurnsInv
      BY DEF Procs, SavingInv, TurnsInv, ActivationInv
<1>2. ASSUME NEW p \in Procs \ {Loop}, Step(p)
      PROVE  Saving'
      BY <1>2, SavingOwn
<1>3. CASE Step(Loop)
  <2>1. Make(Loop) \/ Fetch(Loop) \/ Write(Loop) \/ Parse(Loop)
        BY <1>1, <1>3, LoopTurns
  <2>2. op[Loop] = "refresh" /\ creds # NoDevice
        BY <1>1, <1>3, LoopTurns DEF TurnsInv, Turns
  <2>3. /\ UNCHANGED <<creds, dbCreds, unsaved>>
        /\ pc[Loop] \notin {"readset", "createsave", "exited"}
        /\ pc'[Loop] \notin {"readset", "createsave", "exited"}
        BY <1>1, <2>1, <2>2, ProcsAssumption DEF Make, Fetch, Write, Parse, Goto, Finish, Fail,
           TypeOK, disk, stored, files, mine, service, history
  <2>4. \A q \in Procs \ {Loop} : pc'[q] = pc[q] /\ dev'[q] = dev[q]
        BY <1>1, <1>3, StepFrame
  <2>5. QED  BY <1>1, <2>3, <2>4 DEF SavingInv, Saving, CredsSaved
<1>4. ASSUME NEW h \in Procs, Login(h) \/ Refresh(h) \/ PutConfig(h) \/ \E d \in Devices : SelectDevice(h, d)
      PROVE  Saving'
  <2>1. /\ UNCHANGED <<creds, dbCreds, unsaved>> /\ pc[h] = "idle"
        /\ pc'[h] \notin {"readset", "createsave", "exited"}
        /\ \A q \in Procs \ {h} : pc'[q] = pc[q] /\ dev'[q] = dev[q]
        BY <1>1, <1>4 DEF Login, Refresh, PutConfig, SelectDevice, Serving, Goto, Take, TypeOK,
           disk, stored, files, mine, service, history
  <2>2. QED  BY <2>1 DEF SavingInv, Saving, CredsSaved
<1>5. CASE ListenFails
  <2>1. \A p \in Procs : pc'[p] = "exited"
        BY <1>5 DEF ListenFails
  <2>2. QED  BY <1>1, <2>1 DEF Saving, CredsSaved
<1>6. CASE Restart
  <2>1. creds' = NoDevice /\ \A p \in Procs : pc'[p] \in {"ensure", "idle"}
        BY <1>6 DEF Restart
  <2>2. QED  BY <2>1 DEF Saving, CredsSaved
<1>7. CASE UNCHANGED vars
      BY <1>7, Zenon DEF vars, disk, stored, files, mine, service, history, SavingInv,
         Saving, CredsSaved
<1>8. QED  BY <1>1, <1>2, <1>3, <1>4, <1>5, <1>6, <1>7 DEF Next, Request

(* One request at a time leaves in the database what is in memory, unless  *)
(* saving it failed.                                                       *)
THEOREM CredsSavedAlone ==
    ASSUME Alone
    PROVE  Spec => []CredsSaved
<1>1. Init => SavingInv
      BY ActivationInvInit, TurnsInit DEF Init, TurnsInv, SavingInv, Saving, CredsSaved
<1>2. SavingInv /\ [Next]_vars => SavingInv'
      BY SavingStep
<1>3. SavingInv => CredsSaved
      BY DEF SavingInv, Saving
<1>4. QED  BY <1>1, <1>2, <1>3, PTL DEF Spec
-----------------------------------------------------------------------------
(* Select-device.  From the creation of its credentials to the last step   *)
(* of activateProxy, h holds on to the device it was asked for.            *)
Selecting(h) ==
    /\ pc[h] \notin {"idle", "exited"} /\ op[h] = "select" =>
         /\ pc[h] \in {"create", "createset", "createsave", "savecfg"}
         /\ dev[h] = chosen[h]
         /\ pc[h] = "savecfg" => creds = dev[h] /\ dbCreds = dev[h] /\ sealed = secret
    /\ pc[h] \notin {"idle", "exited"} /\ op[h] = "activate" =>
         /\ chosen[h] # NoDevice /\ sealed = secret /\ h \in fresh
         /\ creds = chosen[h] /\ dbCreds = chosen[h] /\ cfgDevice = chosen[h]
         /\ pc[h] \in {"create", "createset", "createsave", "readset"} => dev[h] = chosen[h]
    /\ pc[h] = "savecfg" => op[h] = "select"

(* A lineup.json that is cut was so by an accident, or is being written.   *)
Cut ==
    /\ pc[Main] = "exited" => \A p \in Procs : pc[p] = "exited"
    /\ lineupFile = "bad" /\ pc[Main] # "exited"
         => torn \/ \E p \in Procs \ away : pc[p] = "write"
    /\ \A p \in away : pc[p] \in {"write", "exited"}
    /\ schedulersStarted /\ pc[Main] # "exited"
         => ready \/ \E p \in Procs : pc[p] = "setready"

SelectInv == SavingInv /\ (\A h \in Handlers : Selecting(h)) /\ Cut

LEMMA CutStep == SelectInv /\ [Next]_vars => Cut'
<1> SUFFICES ASSUME SelectInv, [Next]_vars PROVE Cut'
    OBVIOUS
<1> USE DEF disk, stored, files, mine, service, process, startup, history
<1>1. /\ Main \in Procs /\ Loop \in Procs /\ Main # Loop /\ Handlers \subseteq Procs \ {Main, Loop}
      /\ TypeOK /\ Cut /\ away \subseteq Procs
      BY ProcsAssumption DEF Procs, SelectInv, SavingInv, TurnsInv, ActivationInv, TypeOK
<1>2. ASSUME NEW p \in Procs, Step(p)
      PROVE  Cut'
  <2>1. \A q \in Procs \ {p} : pc'[q] = pc[q]
        BY <1>1, <1>2, StepFrame
  <2>2. pc[p] # "exited" /\ pc[Main] # "exited" /\ pc'[p] # "exited"
        BY <1>1, <1>2, StepFrame DEF Cut, Step, Ensure, LoginAccount, Read, ReadSet, Create,
           CreateSet, CreateSave, SaveConfig, LineupFile, WithConfig, Make, Fetch, Write, Parse,
           SaveSchedule, Load, LoadSet, Guide, StartTest, StartSet, SetProxyReady, Goto,
           Finish, Fail, TypeOK
  <2>3. pc'[Main] # "exited"
        BY <1>1, <2>1, <2>2
  <2>4. /\ lineupFile' = "bad" => torn' \/ \E q \in Procs \ away' : pc'[q] = "write"
        /\ \A q \in away' : pc'[q] \in {"write", "exited"}
    <3>1. CASE Fetch(p)
      <4>1. away' = away /\ p \notin away /\ torn' = torn
            BY <1>1, <3>1 DEF Fetch, Cut
      <4>2. CASE pc'[p] = "write"
            BY <1>1, <2>1, <4>1, <4>2, Zenon DEF Cut
      <4>3. CASE pc'[p] # "write"
        <5>1. lineupFile' = lineupFile /\ pc[p] # "write"
              BY <1>1, <3>1, <4>3 DEF Fetch, Goto, TypeOK
        <5>2. QED  BY <1>1, <2>1, <2>2, <4>1, <5>1, Zenon DEF Cut
      <4>4. QED  BY <4>2, <4>3
    <3>2. CASE Write(p)
      <4>1. dev[p] # "bad" /\ away' = away \ {p}
            BY <3>2, FileAssumption DEF Write, SelectInv, SavingInv, TurnsInv, ActivationInv,
               Earned, InHand
      <4>2. \A q \in away' : q # p /\ q \in away /\ pc'[q] = pc[q]
            BY <1>1, <2>1, <4>1 DEF TypeOK
      <4>3. \/ lineupFile' = dev[p] \/ torn'
            \/ p \in away /\ lineupFile' = lineupFile /\ torn' = torn
            BY <3>2, Zenon DEF Write
      <4>4. CASE p \in away /\ lineupFile' = lineupFile /\ torn' = torn
        <5>1. \A q \in Procs \ away : q # p /\ q \notin away' /\ pc'[q] = pc[q]
              BY <2>1, <4>1, <4>4
        <5>2. QED  BY <1>1, <2>2, <4>2, <4>4, <5>1, Zenon DEF Cut
      <4>5. QED  BY <1>1, <4>1, <4>2, <4>3, <4>4, Zenon DEF Cut
    <3>3. CASE ~Fetch(p) /\ ~Write(p)
      <4>1. lineupFile' = lineupFile /\ away' = away /\ pc[p] # "write"
            BY <1>2, <3>3 DEF Step, Ensure, LoginAccount, Read, ReadSet, Create, CreateSet,
               CreateSave, SaveConfig, LineupFile, Make, Parse, SaveSchedule, Load, LoadSet,
               Guide, StartTest, StartSet, SetProxyReady
      <4>2. torn => torn'
            BY <1>2, <3>3, Zenon DEF Step, Ensure, LoginAccount, Read, ReadSet, Create,
               CreateSet,
               CreateSave, SaveConfig, LineupFile, Make, Parse, SaveSchedule, Load,
               LoadSet, Guide, StartTest, StartSet, SetProxyReady
      <4>3. QED  BY <1>1, <2>1, <2>2, <4>1, <4>2, Zenon DEF Cut, TypeOK
    <3>4. QED  BY <3>1, <3>2, <3>3
  <2>5. schedulersStarted' => ready' \/ \E q \in Procs : pc'[q] = "setready"
    <3>1. CASE StartSet(p)
      <4>1. pc'[p] = "setready"
            BY <1>1, <3>1 DEF StartSet, Goto, TypeOK
      <4>2. QED  BY <4>1
    <3>2. CASE SetProxyReady(p)
          BY <3>2, Zenon DEF SetProxyReady
    <3>3. CASE ~StartSet(p) /\ ~SetProxyReady(p)
      <4>1. (schedulersStarted' <=> schedulersStarted) /\ pc[p] # "setready"
            BY <1>2, <3>3 DEF Step, Ensure, LoginAccount, Read, ReadSet, Create, CreateSet,
               CreateSave, SaveConfig, LineupFile, WithConfig, Make, Fetch, Write, Parse,
               SaveSchedule, Load,
               LoadSet, Guide, StartTest, startup
      <4>2. ready => ready'
            BY <1>2, <3>3, Zenon DEF Step, Ensure, LoginAccount, Read, ReadSet, Create,
               CreateSet,
               CreateSave, SaveConfig, LineupFile, WithConfig, Make, Fetch, Write, Parse,
               SaveSchedule, Load,
               LoadSet, Guide, StartTest, startup
      <4>3. QED  BY <1>1, <2>1, <2>2, <4>1, <4>2, Zenon DEF Cut
    <3>4. QED  BY <3>1, <3>2, <3>3
  <2>6. QED  BY <2>3, <2>4, <2>5, Zenon DEF Cut
<1>3. ASSUME NEW h \in Procs, Login(h) \/ Refresh(h) \/ PutConfig(h) \/ \E d \in Devices : SelectDevice(h, d)
      PROVE  Cut'
  <2>1. /\ pc[h] = "idle" /\ pc'[h] # "exited" /\ (schedulersStarted' <=> schedulersStarted)
        /\ \A q \in Procs \ {h} : pc'[q] = pc[q]
        BY <1>1, <1>3 DEF Login, Refresh, PutConfig, SelectDevice, Serving, Goto, TypeOK
  <2>2. h # Main /\ h \notin away /\ pc[Main] # "exited"
        BY <1>1, <2>1 DEF SelectInv, SavingInv, TurnsInv, Turns, Cut
  <2>3. ready => ready'
        BY <1>3, Zenon DEF Login, Refresh, PutConfig, SelectDevice
  <2>4. \/ UNCHANGED <<lineupFile, away, torn>>
        \/ /\ torn' = (lineupFile' = "bad")
           /\ away' = away \union {q \in Procs : pc[q] = "write"}
    <3>1. CASE Login(h)
          BY <3>1, Zenon DEF Login
    <3>2. CASE Refresh(h)
          BY <3>2, Zenon DEF Refresh
    <3>3. CASE PutConfig(h)
          BY <3>3, Zenon DEF PutConfig, Move
    <3>4. ASSUME NEW d \in Devices, SelectDevice(h, d)
          PROVE  UNCHANGED <<lineupFile, away, torn>>
          BY <3>4, Zenon DEF SelectDevice
    <3>5. QED  BY <1>3, <3>1, <3>2, <3>3, <3>4, Zenon
  <2>5. /\ lineupFile' = "bad" => torn' \/ \E q \in Procs \ away' : pc'[q] = "write"
        /\ \A q \in away' : pc'[q] \in {"write", "exited"}
    <3>1. \A q \in Procs : pc[q] \in {"write", "exited"} => pc'[q] = pc[q]
          BY <2>1
    <3>2. CASE UNCHANGED <<lineupFile, away, torn>>
          BY <1>1, <2>2, <3>1, <3>2, Zenon DEF Cut, TypeOK
    <3>3. CASE /\ torn' = (lineupFile' = "bad")
               /\ away' = away \union {q \in Procs : pc[q] = "write"}
      <4>1. \A q \in away' : q \in Procs /\ pc[q] \in {"write", "exited"}
            BY <1>1, <3>3 DEF Cut, TypeOK
      <4>2. QED  BY <3>1, <3>3, <4>1, Zenon
    <3>4. QED  BY <2>4, <3>2, <3>3
  <2>6. QED  BY <1>1, <2>1, <2>2, <2>3, <2>5, Zenon DEF Cut
<1>4. CASE ListenFails
  <2>1. \A q \in Procs : pc'[q] = "exited"
        BY <1>4 DEF ListenFails
  <2>2. away' \subseteq Procs
        BY <1>1, <1>4 DEF ListenFails, TypeOK
  <2>3. QED  BY <1>1, <2>1, <2>2, Zenon DEF Cut
<1>5. CASE Restart
  <2>1. pc'[Main] = "ensure" /\ ~schedulersStarted' /\ away' = {}
        BY <1>1, <1>5 DEF Restart
  <2>2. lineupFile' = "bad" => torn'
        BY <1>5, Zenon DEF Restart, Move
  <2>3. QED  BY <2>1, <2>2, Zenon DEF Cut
<1>6. CASE UNCHANGED vars
      BY <1>1, <1>6, Zenon DEF vars, Cut
<1>7. QED  BY <1>1, <1>2, <1>3, <1>4, <1>5, <1>6, Zenon DEF Next, Request

(* The others leave a select-device request what it holds on to.           *)
LEMMA SelectingKept ==
    ASSUME NEW h \in Handlers, Selecting(h),
           UNCHANGED <<creds, dbCreds, sealed, secret, cfgDevice>>, h \in fresh => h \in fresh',
           pc'[h] = pc[h], op'[h] = op[h], dev'[h] = dev[h], chosen'[h] = chosen[h]
    PROVE  Selecting(h)'
BY DEF Selecting

LEMMA SelectingOwn ==
    ASSUME Alone, SelectInv, NEW h \in Handlers, Step(h)
    PROVE  Selecting(h)'
<1>1. /\ h \in Procs /\ h # Main /\ TypeOK /\ Selecting(h) /\ Earned(h)
      /\ pc[h] = "createsave" => creds = dev[h]
      BY ProcsAssumption DEF Procs, SelectInv, SavingInv, Saving, TurnsInv, ActivationInv
<1>2. /\ pc[h] \notin {"idle", "exited"}
      /\ secret' = secret /\ chosen' = chosen
      BY <1>1, StepFrame
<1> USE <1>1, <1>2, DevicesAssumption DEF Selecting, TypeOK, disk, stored, files, mine,
        service, process,
        startup, history, Goto, Take, Finish, Fail
<1>3. CASE Ensure(h)
      BY <1>3 DEF Ensure
<1>4. CASE LoginAccount(h)
      BY <1>4 DEF LoginAccount
<1>5. CASE Read(h) \/ ReadSet(h)
      BY <1>5 DEF Read, ReadSet
<1>6. CASE Create(h)
      BY <1>6 DEF Create
<1>7. CASE CreateSet(h)
  <2>1. /\ pc[h] = "createset" /\ pc'[h] = "createsave" /\ creds' = dev[h]
        /\ UNCHANGED <<dbCreds, sealed, cfgDevice, op, dev, fresh>>
        BY <1>7 DEF CreateSet
  <2>2. QED  BY <2>1
<1>8. CASE CreateSave(h)
  <2>1. CASE pc'[h] = "idle"
        BY <2>1
  <2>2. CASE pc'[h] # "idle"
    <3>1. /\ pc[h] = "createsave" /\ dbCreds' = dev[h] /\ sealed' = secret
          /\ pc'[h] = (IF op[h] = "select" THEN "savecfg" ELSE "file")
          /\ UNCHANGED <<creds, cfgDevice, op, dev, fresh>>
          BY <1>8, <2>2, ProcsAssumption DEF CreateSave
    <3>2. QED  BY <3>1
  <2>3. QED  BY <2>1, <2>2
<1>9. CASE SaveConfig(h)
  <2>1. dev[h] # NoDevice /\ pc[h] = "savecfg"
        BY <1>9 DEF SaveConfig, Earned, InHand
  <2>2. CASE pc'[h] = "idle"
        BY <2>2
  <2>3. CASE pc'[h] # "idle"
    <3>1. /\ cfgDevice' = dev[h] /\ op'[h] = "activate" /\ pc'[h] = "ensure"
          /\ UNCHANGED <<creds, dbCreds, sealed, dev>> /\ fresh' = fresh \union {h}
          BY <1>9, <2>3, ProcsAssumption DEF SaveConfig
    <3>2. op[h] = "select"
          BY <2>1
    <3>3. QED  BY <2>1, <3>1, <3>2
  <2>4. QED  BY <2>2, <2>3
<1>10. CASE LineupFile(h) \/ Make(h)
      BY <1>10 DEF LineupFile, WithConfig, Make
<1>11. CASE Fetch(h) \/ Write(h) \/ Parse(h) \/ SaveSchedule(h)
      BY <1>11 DEF Fetch, Write, Parse, SaveSchedule
<1>12. CASE Load(h) \/ LoadSet(h)
      BY <1>12 DEF Load, LoadSet
<1>13. CASE Guide(h)
      BY <1>13 DEF Guide
<1>14. CASE StartTest(h) \/ StartSet(h) \/ SetProxyReady(h)
      BY <1>14 DEF StartTest, StartSet, SetProxyReady
<1>15. QED
      BY <1>3, <1>4, <1>5, <1>6, <1>7, <1>8, <1>9, <1>10, <1>11, <1>12, <1>13, <1>14 DEF Step

LEMMA SelectStep == Alone /\ SelectInv /\ [Next]_vars => SelectInv'
<1> SUFFICES ASSUME Alone, SelectInv, [Next]_vars, NEW h \in Handlers PROVE Selecting(h)'
    BY SavingStep, CutStep DEF SelectInv
<1>1. /\ Main \in Procs /\ Loop \in Procs /\ Handlers \subseteq Procs \ {Main, Loop}
      /\ TypeOK /\ TurnsInv /\ Selecting(h)
      BY ProcsAssumption DEF Procs, SelectInv, SavingInv, TurnsInv, ActivationInv
<1>2. CASE Step(Main)
  <2>1. pc[h] = "idle" /\ pc'[h] = "idle"
        BY <1>1, <1>2, StepFrame DEF TurnsInv, Turns
  <2>2. QED  BY <2>1 DEF Selecting
<1>3. CASE Step(Loop)
  <2>1. /\ Make(Loop) \/ Fetch(Loop) \/ Write(Loop) \/ Parse(Loop)
        /\ \A q \in Procs \ {Loop} : pc'[q] = pc[q] /\ op'[q] = op[q] /\ dev'[q] = dev[q]
        /\ chosen' = chosen
        BY <1>1, <1>3, LoopTurns, StepFrame
  <2>2. UNCHANGED <<creds, dbCreds, sealed, secret, cfgDevice>> /\ (h \in fresh => h \in fresh')
        BY <1>1, <2>1 DEF Make, Fetch, Write, Parse, Goto, Finish, Fail, disk, stored,
           files, mine,
           service, startup, process
  <2>3. QED  BY <1>1, <2>1, <2>2, SelectingKept
<1>4. ASSUME NEW g \in Handlers, Step(g)
      PROVE  Selecting(h)'
      BY <1>4, SelectingOwn DEF Alone
<1>5. ASSUME NEW g \in Handlers, Request(g)
      PROVE  Selecting(h)'
  <2>1. g = h /\ pc[h] = "idle"
        BY <1>1, <1>5, RequestTurns DEF Alone
  <2>2. CASE Login(h) \/ PutConfig(h)
        BY <2>1, <2>2 DEF Login, PutConfig, Selecting
  <2>3. CASE Refresh(h)
        BY <1>1, <2>3 DEF Refresh, Goto, TypeOK, Selecting
  <2>4. ASSUME NEW d \in Devices, SelectDevice(h, d)
        PROVE  Selecting(h)'
        BY <1>1, <2>4 DEF SelectDevice, Goto, Take, TypeOK, Selecting
  <2>5. QED  BY <1>5, <2>1, <2>2, <2>3, <2>4 DEF Request
<1>6. CASE Refresh(Loop)
  <2>1. /\ UNCHANGED <<creds, dbCreds, sealed, secret, cfgDevice, fresh>>
        /\ pc'[h] = pc[h] /\ op'[h] = op[h] /\ dev'[h] = dev[h] /\ chosen'[h] = chosen[h]
        BY <1>1, <1>6 DEF Refresh, Goto, TypeOK, disk, stored, files, mine, service,
           startup, process, history
  <2>2. QED  BY <1>1, <2>1, SelectingKept
<1>7. CASE ListenFails \/ Restart
  <2>1. pc'[h] \in {"idle", "exited"}
        BY <1>1, <1>7 DEF ListenFails, Restart
  <2>2. QED  BY <2>1 DEF Selecting
<1>8. CASE UNCHANGED vars
      BY <1>1, <1>8, SelectingKept DEF vars, disk, stored, files, mine, service, startup,
         process, history
<1>9. QED  BY <1>2, <1>3, <1>4, <1>5, <1>6, <1>7, <1>8 DEF Next, Procs

LEMMA SelectInit == Init => SelectInv
<1> SUFFICES ASSUME Init PROVE SelectInv
    OBVIOUS
<1>1. SavingInv
      BY ActivationInvInit, TurnsInit DEF Init, TurnsInv, SavingInv, Saving, CredsSaved
<1>2. \A h \in Handlers : Selecting(h)
      BY ProcsAssumption DEF Init, Selecting, Procs
<1>3. Cut
      BY DEF Init, Cut, Procs
<1>4. QED  BY <1>1, <1>2, <1>3 DEF SelectInv

(* The steps in which a request ends without a failure.                    *)
LEMMA SelectEnd ==
    ASSUME Alone, SelectInv, [Next]_vars, NEW h \in Handlers, SelectEnds(h), fault'[h] = "none"
    PROVE  /\ Step(h) /\ op[h] = "activate"
           /\ Ensure(h) \/ Read(h) \/ Load(h) \/ Guide(h) \/ SetProxyReady(h)
           /\ UNCHANGED <<creds, dbCreds, cfgDevice>>
<1>1. /\ Main \in Procs /\ Loop \in Procs /\ Handlers \subseteq Procs \ {Main, Loop}
      /\ h \in Procs /\ TypeOK /\ Selecting(h)
      /\ op[h] \in {"activate", "select"} /\ pc[h] # "idle" /\ pc'[h] = "idle"
      /\ pc'[Main] # "ensure"
      BY ProcsAssumption DEF Procs, SelectInv, SavingInv, TurnsInv, ActivationInv, SelectEnds
<1>2. ~Restart /\ ~ListenFails /\ vars' # vars
  <2>1. ~Restart
        BY <1>1 DEF Restart
  <2>2. ~ListenFails
        BY <1>1 DEF ListenFails
  <2>3. vars' # vars
        BY <1>1 DEF vars
  <2>4. QED  BY <2>1, <2>2, <2>3
<1>3. ~Refresh(Loop)
      BY <1>1 DEF Refresh, Goto, TypeOK
<1>4. ASSUME NEW g \in Handlers, Request(g)
      PROVE  FALSE
      BY <1>1, <1>4 DEF Alone, Request, Login, Refresh, PutConfig, SelectDevice, Serving
<1>5. ASSUME NEW p \in Procs \ {h}, Step(p)
      PROVE  FALSE
      BY <1>1, <1>5, StepFrame
<1>6. Step(h)
      BY <1>2, <1>3, <1>4, <1>5 DEF Next
<1>7. Ensure(h) \/ Read(h) \/ Load(h) \/ Guide(h) \/ SetProxyReady(h)
      BY <1>1, <1>6 DEF Step, LoginAccount, ReadSet, Create, CreateSet, CreateSave, SaveConfig,
         LineupFile, WithConfig, Make, Fetch, Write, Parse, SaveSchedule, LoadSet,
         StartTest, StartSet,
         Goto, Finish, Fail, TypeOK
<1>8. op[h] = "activate"
      BY <1>1, <1>7 DEF Ensure, Read, Load, Guide, SetProxyReady, Selecting
<1>9. UNCHANGED <<creds, dbCreds, cfgDevice>>
      BY <1>7 DEF Ensure, Read, Load, Guide, SetProxyReady, disk, stored, service
<1>10. QED  BY <1>6, <1>7, <1>8, <1>9

(* One request at a time: a select-device request under which nothing      *)
(* failed leaves its device in memory, in the database and in the settings.*)
THEOREM SelectedDeviceSavedAlone ==
    ASSUME Alone
    PROVE  Spec => SelectedDeviceSaved
<1>1. SelectInv /\ [Next]_vars =>
        \A h \in Handlers : SelectEnds(h) /\ fault'[h] = "none"
            => {creds', dbCreds', cfgDevice'} = {chosen[h]}
  <2> SUFFICES ASSUME SelectInv, [Next]_vars, NEW h \in Handlers,
                      SelectEnds(h), fault'[h] = "none"
               PROVE  {creds', dbCreds', cfgDevice'} = {chosen[h]}
      OBVIOUS
  <2>1. /\ op[h] = "activate" /\ UNCHANGED <<creds, dbCreds, cfgDevice>>
        /\ Ensure(h) \/ Read(h) \/ Load(h) \/ Guide(h) \/ SetProxyReady(h)
        BY SelectEnd
  <2>2. pc[h] \notin {"idle", "exited"}
        BY <2>1 DEF Ensure, Read, Load, Guide, SetProxyReady
  <2>3. creds = chosen[h] /\ dbCreds = chosen[h] /\ cfgDevice = chosen[h]
        BY <2>1, <2>2 DEF SelectInv, Selecting
  <2>4. QED  BY <2>1, <2>3
<1>2. QED  BY <1>1, SelectInit, SelectStep, PTL DEF Spec, SelectedDeviceSaved

(* One request at a time: it leaves the proxy active, unless lineup.json   *)
(* was cut by accident or --creds finds no login.                          *)
THEOREM SelectActivatesAlone ==
    ASSUME Alone
    PROVE  Spec => SelectActivates
<1>1. SelectInv /\ [Next]_vars =>
        \A h \in Handlers : SelectEnds(h) /\ fault'[h] = "none"
            => ready' \/ torn \/ (flags.creds /\ login = "none")
  <2> SUFFICES ASSUME SelectInv, [Next]_vars, NEW h \in Handlers,
                      SelectEnds(h), fault'[h] = "none",
                      ~torn, ~(flags.creds /\ login = "none")
               PROVE  ready'
      OBVIOUS
  <2>1. /\ Step(h) /\ op[h] = "activate" /\ pc'[h] = "idle"
        /\ Ensure(h) \/ Read(h) \/ Load(h) \/ Guide(h) \/ SetProxyReady(h)
        BY SelectEnd DEF SelectEnds
  <2>2. /\ h \in Procs /\ h # Loop /\ h # Main /\ Main \in Procs /\ Loop \in Procs
        /\ TypeOK /\ TurnsInv /\ Cut /\ Earned(h) /\ FilesEarned(h) /\ Selecting(h)
        BY ProcsAssumption DEF Procs, SelectInv, SavingInv, TurnsInv, ActivationInv
  <2>3. pc[h] \notin {"idle", "serving", "exited"} /\ Sole(h)
        BY <2>1, <2>2, StepFrame, OneActivates
  <2>4. dbCreds # NoDevice /\ sealed = secret
        BY <2>1, <2>2, <2>3 DEF Selecting
  <2>5. ~Ensure(h)
        BY <2>1, <2>2, <2>4 DEF Ensure, Goto, Finish, Fail, TypeOK
  <2>6. ~Read(h)
        BY <2>1, <2>2, <2>4 DEF Read, Opens, Goto, Finish, Fail, TypeOK
  <2>7. CASE Load(h) \/ Guide(h)
    <3>1. lineupFile \notin Devices /\ pc[h] \in {"load", "guide"}
          BY <2>1, <2>2, <2>7 DEF Load, Guide, Goto, Finish, Fail, TypeOK
    <3>2. lineupFile = "bad"
          BY <2>1, <2>2, <2>3, <3>1 DEF Selecting, FilesEarned, LoadingOn, TypeOK
    <3>3. pc[Main] # "exited"
          BY <2>2, <2>3 DEF Cut
    <3>4. PICK q \in Procs \ away : pc[q] = "write"
          BY <2>2, <3>2, <3>3, Zenon DEF Cut
    <3>5. pc[Loop] = "write"
          BY <2>3, <3>1, <3>4 DEF Sole
    <3>6. schedulersStarted
          BY <2>2, <3>5 DEF TurnsInv, Turns
    <3>7. \A r \in Procs : pc[r] # "setready"
          BY <2>3, <3>1, <3>5 DEF Sole
    <3>8. ready
          BY <2>2, <3>3, <3>6, <3>7, Zenon DEF Cut
    <3>9. ready' = ready
          BY <2>7, Zenon DEF Load, Guide, startup
    <3>10. QED  BY <3>8, <3>9, Zenon
  <2>8. CASE SetProxyReady(h)
        BY <2>8, Zenon DEF SetProxyReady
  <2>9. QED  BY <2>1, <2>5, <2>6, <2>7, <2>8
<1>2. QED  BY <1>1, SelectInit, SelectStep, PTL DEF Spec, SelectActivates

-----------------------------------------------------------------------------
(* Sealing: what Pad makes of data, whose padding has n bytes.             *)
LEMMA PadFacts ==
    ASSUME NEW data \in Bytes, NEW n, n = BlockSize - (Len(data) % BlockSize)
    PROVE  /\ n \in 1 .. BlockSize /\ Len(data) \in Nat
           /\ Pad(data) \in Bytes /\ Len(Pad(data)) = Len(data) + n
           /\ (Len(data) + n) % BlockSize = 0
           /\ \A i \in 1 .. Len(data) : Pad(data)[i] = data[i]
           /\ \A i \in Len(data) + 1 .. Len(data) + n : Pad(data)[i] = n
<1> DEFINE tail == [i \in 1 .. n |-> n]
<1>1. Len(data) \in Nat
      BY LenProperties DEF Bytes
<1>2. n \in 1 .. BlockSize /\ (Len(data) + n) % BlockSize = 0
      BY <1>1 DEF BlockSize
<1>3. tail \in Bytes /\ Len(tail) = n /\ \A i \in 1 .. n : tail[i] = n
  <2>1. n \in Nat /\ n \in Byte
        BY <1>2 DEF BlockSize, Byte
  <2>2. QED  BY <2>1 DEF Bytes
<1>4. Pad(data) = data \o tail
      BY DEF Pad
<1> HIDE DEF tail
<1>5. /\ data \o tail \in Bytes /\ Len(data \o tail) = Len(data) + n
      /\ \A i \in 1 .. Len(data) + n :
           (data \o tail)[i] = IF i <= Len(data) THEN data[i] ELSE tail[i - Len(data)]
      BY <1>3, ConcatProperties DEF Bytes
<1>6. QED  BY <1>1, <1>2, <1>3, <1>4, <1>5 DEF BlockSize

LEMMA ArrayIsBytes ==
    ASSUME NEW m \in Nat, NEW a \in [1 .. m -> Byte]
    PROVE  a \in Bytes /\ Len(a) = m
BY DEF Bytes

LEMMA PaddingLength ==
    ASSUME NEW l \in Nat, l % 16 = 0, NEW n \in 1 .. 16, n <= l
    PROVE  n = 16 - ((l - n) % 16)
<1>1. PICK q \in Nat : l = 16 * q
  <2>1. l = (l % 16) + (l \div 16) * 16 /\ l \div 16 \in Nat
        OBVIOUS
  <2>2. QED  BY <2>1
<1>2. (l - n) % 16 = 16 - n \/ n = 16
      BY <1>1
<1>3. QED  BY <1>1, <1>2

(* What was padded is read back as it was,                                 *)
LEMMA PadReadsBack ==
    ASSUME NEW data \in Bytes
    PROVE  Unpad(Pad(data)) = data
<1> DEFINE n == BlockSize - (Len(data) % BlockSize)
           p == Pad(data)
<1>1. /\ n \in 1 .. BlockSize /\ Len(data) \in Nat
      /\ p \in Bytes /\ Len(p) = Len(data) + n
      /\ (Len(data) + n) % BlockSize = 0
      /\ \A i \in 1 .. Len(data) : p[i] = data[i]
      /\ \A i \in Len(data) + 1 .. Len(data) + n : p[i] = n
      BY PadFacts
<1> HIDE DEF n, p
<1>2. p[Len(p)] = n /\ Len(p) - n = Len(data) /\ Len(p) # 0 /\ n # 0 /\ n <= Len(p)
      BY <1>1 DEF BlockSize
<1>3. Unpad(p) = SubSeq(p, 1, Len(data))
      BY <1>1, <1>2 DEF Unpad, BlockSize
<1>4. SubSeq(p, 1, Len(data)) = data
  <2>1. /\ SubSeq(p, 1, Len(data)) \in Bytes
        /\ Len(SubSeq(p, 1, Len(data))) = Len(data)
        /\ \A i \in 1 .. Len(data) : SubSeq(p, 1, Len(data))[i] = p[i]
    <3>1. \A i \in 1 .. Len(data) : p[i] \in Byte
          BY <1>1, ElementOfSeq DEF Bytes
    <3>2. QED  BY <1>1, <3>1, SubSeqProperties DEF Bytes
  <2>2. QED  BY <1>1, <2>1, SeqEqual DEF Bytes
<1>5. QED  BY <1>3, <1>4 DEF p

(* and nothing else is taken for padded: whatever a decryption under       *)
(* another key or of a damaged row gives, pkcs7Unpad refuses it unless     *)
(* pkcs7Pad makes exactly that of what it returns.                         *)
THEOREM PaddingExact ==
    \A data \in Bytes : Unpad(data) # Failed =>
        Unpad(data) \in Bytes /\ Pad(Unpad(data)) = data
<1> SUFFICES ASSUME NEW data \in Bytes, Unpad(data) # Failed
             PROVE  Unpad(data) \in Bytes /\ Pad(Unpad(data)) = data
    OBVIOUS
<1> DEFINE n == data[Len(data)]
           m == Len(data) - n
           s == SubSeq(data, 1, m)
<1>1. Len(data) \in Nat
      BY LenProperties DEF Bytes
<1>2. /\ Len(data) # 0 /\ Len(data) % BlockSize = 0
      /\ n # 0 /\ ~(n > BlockSize) /\ ~(n > Len(data))
      /\ \A i \in m + 1 .. Len(data) : data[i] = n
      /\ Unpad(data) = s
      BY DEF Unpad
<1>3. n \in Byte /\ n \in 1 .. BlockSize /\ m \in 0 .. Len(data)
  <2>1. Len(data) \in 1 .. Len(data)
        BY <1>1, <1>2
  <2>2. n \in Byte
        BY <2>1, ElementOfSeq DEF Bytes
  <2> HIDE DEF n
  <2>3. QED  BY <1>1, <1>2, <2>2 DEF Byte, BlockSize
<1> HIDE DEF n
<1>4. s \in Bytes /\ Len(s) = m /\ \A i \in 1 .. m : s[i] = data[i]
  <2>1. \A i \in 1 .. m : data[i] \in Byte
        BY <1>1, <1>3, ElementOfSeq DEF Bytes
  <2>2. QED  BY <1>3, <2>1, SubSeqProperties DEF Bytes
<1> HIDE DEF s
<1>5. n = BlockSize - (Len(s) % BlockSize)
  <2>1. n \in 1 .. 16 /\ n <= Len(data) /\ Len(data) % 16 = 0
        BY <1>1, <1>2, <1>3 DEF BlockSize
  <2>2. n = 16 - ((Len(data) - n) % 16)
        BY <1>1, <2>1, PaddingLength
  <2>3. QED  BY <1>4, <2>2 DEF BlockSize
<1>6. /\ Pad(s) \in Bytes /\ Len(Pad(s)) = Len(data)
      /\ \A i \in 1 .. m : Pad(s)[i] = data[i]
      /\ \A i \in m + 1 .. Len(data) : Pad(s)[i] = data[i]
  <2>1. /\ Pad(s) \in Bytes /\ Len(Pad(s)) = Len(s) + n
        /\ \A i \in 1 .. Len(s) : Pad(s)[i] = s[i]
        /\ \A i \in Len(s) + 1 .. Len(s) + n : Pad(s)[i] = n
        BY <1>4, <1>5, PadFacts
  <2>2. QED  BY <1>1, <1>2, <1>3, <1>4, <2>1
<1>7. \A i \in 1 .. Len(Pad(s)) : Pad(s)[i] = data[i]
      BY <1>1, <1>3, <1>6
<1>8. Pad(s) = data
      BY <1>6, <1>7, SeqEqual DEF Bytes
<1>9. QED  BY <1>2, <1>4, <1>8

(* The credentials that encryptCredentials has sealed under a key are      *)
(* those that decryptCredentials returns under it, whatever their length   *)
(* and the initial vector: what Activation takes for granted of Opens.     *)
THEOREM SealedReadsBack ==
    \A key \in Keys, vector \in Vectors, plain \in Plains :
        Unseal(key, Seal(key, vector, plain)) = plain
<1> SUFFICES ASSUME NEW key \in Keys, NEW vector \in Vectors, NEW plain \in Plains
             PROVE  Unseal(key, Seal(key, vector, plain)) = plain
    OBVIOUS
<1> DEFINE text == Encipher(key, vector, Pad(plain))
           s    == vector \o text
<1>1. /\ vector \in Bytes /\ Len(vector) = BlockSize
      /\ plain \in Bytes
  <2>1. vector \in [1 .. BlockSize -> Byte] /\ plain \in Bytes
        BY PlainAssumption
  <2>2. BlockSize \in Nat
        BY DEF BlockSize
  <2>3. QED  BY <2>1, <2>2, ArrayIsBytes
<1>2. /\ text \in Bytes /\ Len(text) = Len(Pad(plain))
      /\ Decipher(key, vector, text) = Pad(plain)
      BY CipherAssumption
<1>3. Len(text) \in Nat /\ Len(text) % BlockSize = 0 /\ Len(text) > 0
  <2> DEFINE n == BlockSize - (Len(plain) % BlockSize)
  <2>1. /\ n \in 1 .. BlockSize /\ Len(plain) \in Nat
        /\ Len(Pad(plain)) = Len(plain) + n /\ (Len(plain) + n) % BlockSize = 0
        BY <1>1, PadFacts
  <2> HIDE DEF n
  <2>2. QED  BY <1>2, <2>1 DEF BlockSize
<1> HIDE DEF text
<1>4. /\ s \in Bytes /\ Len(s) = BlockSize + Len(text)
      /\ \A i \in 1 .. BlockSize : s[i] = vector[i]
      /\ \A i \in BlockSize + 1 .. Len(s) : s[i] = text[i - BlockSize]
  <2>1. /\ s \in Bytes /\ Len(s) = BlockSize + Len(text)
        /\ \A i \in 1 .. BlockSize + Len(text) :
             s[i] = IF i <= BlockSize THEN vector[i] ELSE text[i - BlockSize]
    <3>1. vector \in Seq(Byte) /\ text \in Seq(Byte)
          BY <1>1, <1>2 DEF Bytes
    <3>2. /\ vector \o text \in Seq(Byte) /\ Len(vector \o text) = Len(vector) + Len(text)
          /\ \A i \in 1 .. Len(vector) + Len(text) :
               (vector \o text)[i]
                 = IF i <= Len(vector) THEN vector[i] ELSE text[i - Len(vector)]
          BY <3>1, ConcatProperties
    <3>3. Len(vector) = BlockSize
          BY <1>1
    <3>4. QED  BY <3>2, <3>3, Zenon DEF Bytes
  <2>2. QED  BY <1>3, <2>1 DEF BlockSize
<1> HIDE DEF s
<1>5. /\ ~(Len(s) < BlockSize) /\ Len(s) % BlockSize = 0
      BY <1>3, <1>4 DEF BlockSize
<1>6. \A i \in 1 .. Len(s) : s[i] \in Byte
      BY <1>4, ElementOfSeq DEF Bytes
<1>7. SubSeq(s, 1, BlockSize) = vector
  <2>1. /\ SubSeq(s, 1, BlockSize) \in Bytes /\ Len(SubSeq(s, 1, BlockSize)) = BlockSize
        /\ \A i \in 1 .. BlockSize : SubSeq(s, 1, BlockSize)[i] = s[i]
        BY <1>3, <1>4, <1>6, SubSeqProperties DEF Bytes, BlockSize
  <2>2. QED  BY <1>1, <1>4, <2>1, SeqEqual DEF Bytes
<1>8. SubSeq(s, BlockSize + 1, Len(s)) = text
  <2> DEFINE r == SubSeq(s, BlockSize + 1, Len(s))
  <2>1. /\ r \in Bytes /\ Len(r) = Len(text)
        /\ \A i \in 1 .. Len(text) : r[i] = s[BlockSize + i]
        BY <1>3, <1>4, <1>6, SubSeqProperties DEF Bytes, BlockSize
  <2> HIDE DEF r
  <2>2. \A i \in 1 .. Len(text) : s[BlockSize + i] = text[i]
        BY <1>3, <1>4 DEF BlockSize
  <2>3. r = text
        BY <1>2, <2>1, <2>2, SeqEqual DEF Bytes
  <2>4. QED  BY <2>3 DEF r
<1>9. Unseal(key, s) = Unpad(Pad(plain))
      BY <1>2, <1>5, <1>7, <1>8 DEF Unseal
<1>10. QED  BY <1>1, <1>9, PadReadsBack DEF s, text, Seal
=============================================================================
