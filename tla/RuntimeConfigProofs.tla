------------------------ MODULE RuntimeConfigProofs ------------------------
(***************************************************************************)
(* Proofs about RuntimeConfig and BootConfig.  TypeOK and what BootConfig  *)
(* says of a start hold for any number of requests.  That the copies       *)
(* agree, that settings are kept, that the flag is sound and that the      *)
(* advertised URL is served are proved for requests served one at a time   *)
(* (Alone): TLC shows that overlapping requests break the first three.     *)
(***************************************************************************)
EXTENDS BootConfig, TLAPS

-----------------------------------------------------------------------------
(* The configurations that requests and main compute.                      *)

LEMMA DeriveType ==
    ASSUME NEW c \in Configs
    PROVE  /\ ApplyDerived(c) \in Configs
           /\ ApplyDerived(c).ServerURL = URL(c)
           /\ ApplyDerived(c).Port = c.Port /\ ApplyDerived(c).OutDir = c.OutDir
           /\ \A f \in Settings : ApplyDerived(c)[f] = c[f]
           /\ c.ServerURL = URL(c) => ApplyDerived(c) = c
BY DEF ApplyDerived, URL, Configs, Settings

LEMMA OverrideType ==
    ASSUME NEW c \in Configs, NEW b \in Configs, NEW fields \in SUBSET Settings
    PROVE  /\ Override(c, b, fields) \in Configs
           /\ Override(c, b, fields).ServerURL = URL(Override(c, b, fields))
           /\ \A f \in Settings :
                Override(c, b, fields)[f] = IF f \in fields THEN b[f] ELSE c[f]
BY DEF Override, ApplyDerived, URL, Configs, Settings

LEMMA MergeType ==
    ASSUME NEW c \in Configs, NEW form \in Forms
    PROVE  /\ Merge(c, form) \in Configs
           /\ Merge(c, form).ServerURL = URL(Merge(c, form))
BY EmptyAssumption DEF Merge, ApplyDerived, URL, Configs, Forms

LEMMA SelectType ==
    ASSUME NEW c \in Configs, NEW d \in TabloDevices
    PROVE  /\ ApplyDerived([c EXCEPT !.TabloDevice = d]) \in Configs
           /\ ApplyDerived([c EXCEPT !.TabloDevice = d]).ServerURL
                = URL(ApplyDerived([c EXCEPT !.TabloDevice = d]))
           /\ ApplyDerived([c EXCEPT !.TabloDevice = d]).Port = c.Port
           /\ ApplyDerived([c EXCEPT !.TabloDevice = d]).OutDir = c.OutDir
BY DEF ApplyDerived, URL, Configs

LEMMA ToldType ==
    ASSUME NEW t \in Configs, NEW b \in Configs, NEW fields \in SUBSET Settings
    PROVE  [f \in DOMAIN t |-> IF f \in fields THEN b[f] ELSE t[f]] \in Configs
BY DEF Configs, Settings

(* What a request gives is an edit of the settings.                        *)
LEMMA EditType == \A form \in Forms : Store!IsEdit(Edit(form))
<1> SUFFICES ASSUME NEW form \in Forms PROVE Store!IsEdit(Edit(form))
    OBVIOUS
<1> DEFINE S == {f \in Settings : f = "TabloDevice" \/ form[f] # Empty}
           e == Edit(form)
<1>1. e = [f \in S |-> form[f]]
      BY DEF Edit, Restrict
<1>2. \A f \in S : form[f] \in Ports \union OutDirs \union TabloDevices \union Addresses
      BY DEF Settings, Forms
<1> HIDE DEF S
<1>3. e \in [S -> Ports \union OutDirs \union TabloDevices \union Addresses]
      BY <1>1, <1>2
<1>4. DOMAIN e = S /\ S \subseteq Settings
      BY <1>1 DEF S
<1> HIDE DEF e
<1>5. Store!IsEdit(e)
      BY <1>3, <1>4 DEF Store!IsEdit
<1>6. QED  BY <1>5 DEF e

LEMMA SelectEdit == \A d \in TabloDevices : Store!IsEdit([f \in {"TabloDevice"} |-> d])
BY DEF Store!IsEdit, Settings

(* A request that comes adds to what is asked for, one that is saved or    *)
(* refused takes away.                                                     *)
LEMMA Asked ==
    ASSUME NEW h, NEW e, Ask(h, e)
    PROVE  /\ DOMAIN asked' = DOMAIN asked \union {h} /\ asked'[h] = e
           /\ \A g \in DOMAIN asked : g # h => asked'[g] = asked[g]
BY DEF Ask

LEMMA Answered ==
    ASSUME NEW h, Answer(h)
    PROVE  /\ DOMAIN asked' = DOMAIN asked \ {h}
           /\ \A g \in DOMAIN asked' : asked'[g] = asked[g]
BY DEF Answer, Restrict

-----------------------------------------------------------------------------
(* The type invariant.                                                     *)

Unsaved == {"flag", "save", "selflag", "selsave"}

LEMMA AskedStep == TypeOK /\ [Next]_vars => AskedOK'
<1> SUFFICES ASSUME TypeOK, [Next]_vars PROVE AskedOK'
    OBVIOUS
<1> USE DEF Goto
<1>1. AskedOK /\ DOMAIN pc = Handlers
      BY DEF TypeOK
<1>2. CASE InitStore \/ LoadConfig \/ StartServices \/ UNCHANGED vars
  <2>1. asked' = asked /\ pc' = pc
        BY <1>2 DEF InitStore, LoadConfig, StartServices, vars, local
  <2>2. QED  BY <1>1, <2>1 DEF AskedOK, Store!IsEdit
<1>3. CASE Restart
  <2>1. DOMAIN asked' = {} /\ \A h \in Handlers : pc'[h] = "idle"
        BY <1>3 DEF Restart
  <2>2. QED  BY <2>1 DEF AskedOK
<1>4. ASSUME NEW h \in Handlers, Step(h)
      PROVE  AskedOK'
  <2>1. ASSUME NEW e, Ask(h, e), Store!IsEdit(e), NEW step \in Unsaved,
               pc' = [pc EXCEPT ![h] = step]
        PROVE  AskedOK'
    <3>1. /\ DOMAIN asked' = DOMAIN asked \union {h} /\ asked'[h] = e
          /\ \A g \in DOMAIN asked : g # h => asked'[g] = asked[g]
          BY <2>1, Asked
    <3>2. DOMAIN asked' = {g \in Handlers : pc'[g] \in Unsaved}
          BY <1>1, <2>1, <3>1 DEF AskedOK, Unsaved
    <3>3. \A g \in DOMAIN asked' : asked'[g] = e \/ (g \in DOMAIN asked /\ asked'[g] = asked[g])
          BY <3>1
    <3>4. \A g \in DOMAIN asked' : Store!IsEdit(asked'[g])
          BY <1>1, <2>1, <3>3, Zenon DEF AskedOK
    <3>5. QED  BY <3>2, <3>4 DEF AskedOK, Unsaved
  <2>2. CASE ReadForPut(h)
    <3>1. PICK form \in Forms : Ask(h, Edit(form))
          BY <2>2 DEF ReadForPut
    <3>2. Store!IsEdit(Edit(form)) /\ pc' = [pc EXCEPT ![h] = "flag"]
          BY <2>2, EditType DEF ReadForPut
    <3>3. QED  BY <2>1, <3>1, <3>2 DEF Unsaved
  <2>3. CASE ReadForSelect(h)
    <3>1. PICK d \in TabloDevices : Ask(h, [f \in {"TabloDevice"} |-> d])
          BY <2>3 DEF ReadForSelect
    <3>2. /\ Store!IsEdit([f \in {"TabloDevice"} |-> d])
          /\ pc' = [pc EXCEPT ![h] = "selflag"]
          BY <2>3, SelectEdit DEF ReadForSelect
    <3>3. QED  BY <2>1, <3>1, <3>2 DEF Unsaved
  <2>4. CASE FlagPending(h) \/ FlagForSelect(h) \/ SetConfig(h) \/ SetTabloConfig(h)
    <3>1. asked' = asked
          BY <2>4 DEF FlagPending, FlagForSelect, SetConfig, SetTabloConfig
    <3>2. \A g \in Handlers : pc'[g] \in Unsaved <=> pc[g] \in Unsaved
          BY <1>1, <2>4 DEF FlagPending, FlagForSelect, SetConfig, SetTabloConfig, Unsaved
    <3>3. QED  BY <1>1, <3>1, <3>2 DEF AskedOK, Unsaved, Store!IsEdit
  <2>5. CASE SaveConfig(h)
    <3>1. /\ DOMAIN asked' = DOMAIN asked \ {h}
          /\ \A g \in DOMAIN asked' : asked'[g] = asked[g]
          BY <2>5, Answered DEF SaveConfig
    <3>2. \A g \in Handlers : pc'[g] \in Unsaved <=> pc[g] \in Unsaved /\ g # h
          BY <1>1, <2>5 DEF SaveConfig, Unsaved
    <3>3. QED  BY <1>1, <3>1, <3>2 DEF AskedOK, Unsaved, Store!IsEdit
  <2>6. QED  BY <1>4, <2>2, <2>3, <2>4, <2>5 DEF Step
<1>5. QED  BY <1>2, <1>3, <1>4 DEF Next, Proceed

LEMMA TypeInit == Init => TypeOK
<1> SUFFICES ASSUME Init PROVE TypeOK
    OBVIOUS
<1>0. AskedOK
      BY DEF Init, AskedOK
<1>1. boot \in Configs
      BY DEF Init, Derived
<1>2. restart \in BOOLEAN
      BY Zenon DEF Init
<1>3. flag \in [Handlers -> BOOLEAN]
      BY Zenon DEF Init
<1>4. QED  BY <1>0, <1>1, <1>2, <1>3, RestartsAssumption DEF Init, TypeOK

LEMMA TypeStep == TypeOK /\ [Next]_vars => TypeOK'
<1> SUFFICES ASSUME TypeOK, [Next]_vars PROVE TypeOK'
    OBVIOUS
<1>0. AskedOK'
      BY AskedStep
<1> USE <1>0
<1> USE DEF process, memory
<1>1. CASE InitStore
  <2>1. [config |-> boot, restartPending |-> FALSE] \in Rows
        BY DEF TypeOK, Rows
  <2>2. row' \in Rows /\ told' \in Configs
        BY <1>1, <2>1 DEF InitStore, TypeOK
  <2>3. QED  BY <1>1, <2>2 DEF InitStore, TypeOK, local
<1>2. CASE LoadConfig
  <2>1. row \in Rows /\ explicit \in SUBSET Settings
        BY <1>2, OverridesAssumption DEF LoadConfig, TypeOK
  <2>2. row' \in Rows
    <3>1. Override(row.config, boot, explicit) \in Configs
          BY <2>1, OverrideType DEF TypeOK, Rows
    <3>2. QED  BY <1>2, <2>1, <3>1 DEF LoadConfig, Rows
  <2>3. told' \in Configs
        BY <1>2, <2>1, ToldType DEF LoadConfig, TypeOK
  <2>4. QED  BY <1>2, <2>2, <2>3 DEF LoadConfig, TypeOK, local
<1>3. CASE StartServices
  <2>1. row \in Rows
        BY <1>3 DEF StartServices, TypeOK
  <2>2. restart' \in BOOLEAN /\ row.config \in Configs
        BY <1>3, <2>1 DEF StartServices, Rows
  <2>3. QED  BY <1>3, <2>1, <2>2 DEF StartServices, TypeOK, local
<1>4. CASE Restart
  <2>1. boot' \in Configs /\ explicit' \subseteq Overridable
        BY <1>4 DEF Restart, Derived
  <2>2. restart' \in BOOLEAN
        BY <1>4, Zenon DEF Restart
  <2>3. flag' \in [Handlers -> BOOLEAN]
        BY <1>4, Zenon DEF Restart
  <2>4. told' \in Configs
    <3>1. main = "up" => row \in Rows
          BY DEF TypeOK
    <3>2. QED  BY <1>4, <3>1 DEF Restart, TypeOK, Rows
  <2>5. restarts' \in 0 .. MaxRestarts
        BY <1>4, RestartsAssumption DEF Restart, TypeOK
  <2>6. QED  BY <1>4, <2>1, <2>2, <2>3, <2>4, <2>5 DEF Restart, TypeOK
<1>5. ASSUME NEW h \in Handlers, Step(h)
      PROVE  TypeOK'
  <2>1. CASE ReadForPut(h)
    <3>1. work' \in [Handlers -> Configs]
          BY <2>1, MergeType DEF ReadForPut, TypeOK
    <3>2. flag' \in [Handlers -> BOOLEAN]
      <4>1. RequiresRestart(cfg, work'[h]) \in BOOLEAN
            BY Zenon DEF RequiresRestart
      <4>2. flag \in [Handlers -> BOOLEAN]
            BY Zenon DEF TypeOK
      <4>3. flag' = [flag EXCEPT ![h] = RequiresRestart(cfg, work'[h])]
            BY <2>1, Zenon DEF ReadForPut
      <4>4. QED  BY <4>1, <4>2, <4>3, Zenon
    <3>3. QED  BY <2>1, <3>1, <3>2 DEF ReadForPut, Goto, TypeOK
  <2>2. CASE FlagPending(h)
    <3>1. flag' \in [Handlers -> BOOLEAN]
      <4>1. (restart \/ flag[h]) \in BOOLEAN
            OBVIOUS
      <4>2. flag \in [Handlers -> BOOLEAN]
            BY Zenon DEF TypeOK
      <4>3. flag' = [flag EXCEPT ![h] = restart \/ flag[h]]
            BY <2>2, Zenon DEF FlagPending
      <4>4. QED  BY <4>1, <4>2, <4>3, Zenon
    <3>2. QED  BY <2>2, <3>1 DEF FlagPending, Goto, TypeOK
  <2>3. CASE ReadForSelect(h)
    <3>1. work' \in [Handlers -> Configs]
          BY <2>3, SelectType DEF ReadForSelect, TypeOK
    <3>2. QED  BY <2>3, <3>1 DEF ReadForSelect, Goto, TypeOK
  <2>4. CASE FlagForSelect(h)
    <3>1. flag' \in [Handlers -> BOOLEAN]
          BY <2>4 DEF FlagForSelect, TypeOK
    <3>2. QED  BY <2>4, <3>1 DEF FlagForSelect, Goto, TypeOK
  <2>5. CASE SaveConfig(h)
    <3>1. [config |-> ApplyDerived(work[h]), restartPending |-> flag[h]] \in Rows
          BY DeriveType DEF TypeOK, Rows
    <3>2. QED  BY <2>5, <3>1 DEF SaveConfig, Goto, TypeOK
  <2>6. CASE SetConfig(h)
    <3>1. restart' \in BOOLEAN
          BY <2>6 DEF SetConfig, TypeOK
    <3>2. QED  BY <2>6, <3>1 DEF SetConfig, Goto, TypeOK
  <2>7. CASE SetTabloConfig(h)
        BY <2>7 DEF SetTabloConfig, Goto, TypeOK
  <2>8. QED  BY <1>5, <2>1, <2>2, <2>3, <2>4, <2>5, <2>6, <2>7 DEF Step
<1>6. CASE UNCHANGED vars
      BY <1>6 DEF vars, local, TypeOK
<1>7. QED  BY <1>1, <1>2, <1>3, <1>4, <1>5, <1>6 DEF Next, Proceed

(* Whatever requests overlap, the configurations are configurations.       *)
THEOREM TypeCorrect == Spec => []TypeOK
BY TypeInit, TypeStep, PTL DEF Spec

-----------------------------------------------------------------------------
(* Requests served one at a time: what a request has in hand at each of    *)
(* its steps, and how it relates to the copies and to the running process. *)

Alone == \A g, h \in Handlers : g = h

Quiet   == main # "up" => \A h \in Handlers : pc[h] = "idle"
RowDerived == row # NoRow => row.config.ServerURL = URL(row.config)
InHandDerived == /\ boot.ServerURL = URL(boot) /\ cfg.ServerURL = URL(cfg)
                 /\ \A h \in Handlers : work[h].ServerURL = URL(work[h])

(* The copies of the configuration around the save and the two sets.       *)
Copies == \A h \in Handlers :
    /\ pc[h] \in {"reflag", "set"} => row.config = work[h]
    /\ pc[h] = "settablo" => row.config = work[h] /\ cfg = work[h]

(* The copies of the flag.                                                 *)
Flags == \A h \in Handlers :
    /\ pc[h] = "selsave"  => flag[h] = restart
    /\ pc[h] = "reflag"   => row.restartPending = restart
    /\ pc[h] = "set"      => row.restartPending = flag[h]
    /\ pc[h] = "settablo" => row.restartPending = flag[h] /\ restart = flag[h]

(* A configuration that the process does not run with is never about to be *)
(* stored without the flag.                                                *)
Stale == \A h \in Handlers :
    /\ pc[h] = "flag" /\ RequiresRestart(running, work[h]) => restart \/ flag[h]
    /\ pc[h] \in {"selflag", "reflag"} /\ RequiresRestart(running, work[h]) => restart
    /\ pc[h] \in {"save", "selsave", "set"} /\ RequiresRestart(running, work[h])
         => flag[h]

SafetyInv == /\ TypeOK /\ Quiet /\ RowDerived /\ InHandDerived
             /\ Copies /\ Flags /\ Stale
             /\ ConfigsAgree /\ SettingsKept /\ StaleFieldsFlagged

LEMMA RestartTransitive ==
    ASSUME NEW a, NEW b, NEW c, RequiresRestart(a, c)
    PROVE  RequiresRestart(a, b) \/ RequiresRestart(b, c)
BY DEF RequiresRestart

LEMMA SafetyInit == Init => SafetyInv
<1> SUFFICES ASSUME Init PROVE SafetyInv
    OBVIOUS
<1>1. TypeOK
      BY TypeInit
<1>2. Quiet /\ RowDerived /\ Copies /\ Flags /\ Stale
      BY DEF Init, Quiet, RowDerived, Copies, Flags, Stale
<1>3. InHandDerived
      BY DEF Init, InHandDerived, Derived, URL
<1>4. ConfigsAgree /\ SettingsKept /\ StaleFieldsFlagged
      BY DEF Init, ConfigsAgree, SettingsKept, StaleFieldsFlagged
<1>5. QED  BY <1>1, <1>2, <1>3, <1>4 DEF SafetyInv

(* The steps of main and the restart: no request is being served.          *)
LEMMA SafetyMain ==
    ASSUME SafetyInv, TypeOK', InitStore \/ LoadConfig \/ StartServices \/ Restart
    PROVE  SafetyInv'
<1> USE DEF process, memory, local, SafetyInv
<1>1. CASE InitStore
  <2>1. Quiet' /\ Copies' /\ Flags' /\ Stale'
        BY <1>1 DEF InitStore, Quiet, Copies, Flags, Stale
  <2>2. RowDerived' /\ InHandDerived'
        BY <1>1 DEF InitStore, RowDerived, InHandDerived, URL
  <2>3. SettingsKept'
        BY <1>1 DEF InitStore, SettingsKept, Quiet, Saved
  <2>4. ConfigsAgree' /\ StaleFieldsFlagged'
        BY <1>1 DEF InitStore, ConfigsAgree, StaleFieldsFlagged
  <2>5. QED  BY <2>1, <2>2, <2>3, <2>4
<1>2. CASE LoadConfig
  <2>1. row \in Rows /\ explicit \in SUBSET Settings /\ row # NoRow
        BY <1>2, OverridesAssumption, NoRowAssumption DEF LoadConfig, TypeOK
  <2>2. row'.config = Override(row.config, boot, explicit)
        BY <1>2, <2>1 DEF LoadConfig, Rows
  <2>3. /\ row'.config.ServerURL = URL(row'.config)
        /\ \A f \in Settings :
             row'.config[f] = IF f \in explicit THEN boot[f] ELSE row.config[f]
        BY <2>1, <2>2, OverrideType DEF TypeOK, Rows
  <2>4. \A f \in Settings : told'[f] = IF f \in explicit THEN boot[f] ELSE told[f]
        BY <1>2 DEF LoadConfig, TypeOK, Configs, Settings
  <2>5. Quiet' /\ Copies' /\ Flags' /\ Stale'
        BY <1>2 DEF LoadConfig, Quiet, Copies, Flags, Stale
  <2>6. RowDerived' /\ InHandDerived'
        BY <1>2, <2>3 DEF LoadConfig, RowDerived, InHandDerived, URL
  <2>7. SettingsKept'
    <3>1. \A f \in Settings : row.config[f] = told[f]
          BY <1>2, <2>1 DEF LoadConfig, SettingsKept, Quiet, Saved
    <3>2. QED  BY <2>3, <2>4, <3>1 DEF SettingsKept
  <2>8. ConfigsAgree' /\ StaleFieldsFlagged'
        BY <1>2 DEF LoadConfig, ConfigsAgree, StaleFieldsFlagged
  <2>9. QED  BY <2>5, <2>6, <2>7, <2>8
<1>3. CASE StartServices
  <2>1. \A h \in Handlers : pc[h] = "idle" /\ pc'[h] = "idle"
        BY <1>3 DEF StartServices, Quiet
  <2>2. Quiet' /\ Copies' /\ Flags' /\ Stale'
        BY <1>3, <2>1 DEF StartServices, Quiet, Copies, Flags, Stale
  <2>3. RowDerived' /\ InHandDerived'
    <3>1. row # NoRow
          BY <1>3, NoRowAssumption DEF StartServices, TypeOK
    <3>2. QED  BY <1>3, <3>1 DEF StartServices, RowDerived, InHandDerived, URL
  <2>4. SettingsKept'
        BY <1>3 DEF StartServices, SettingsKept, Saved
  <2>5. ConfigsAgree'
        BY <1>3 DEF StartServices, ConfigsAgree
  <2>6. StaleFieldsFlagged'
        BY <1>3 DEF StartServices, StaleFieldsFlagged, RequiresRestart
  <2>7. QED  BY <2>2, <2>3, <2>4, <2>5, <2>6
<1>4. CASE Restart
  <2>1. \A h \in Handlers : pc'[h] = "idle"
        BY <1>4 DEF Restart
  <2>2. Quiet' /\ Copies' /\ Flags' /\ Stale'
        BY <2>1 DEF Quiet, Copies, Flags, Stale
  <2>3. RowDerived' /\ InHandDerived'
        BY <1>4 DEF Restart, RowDerived, InHandDerived, Derived, URL
  <2>4. SettingsKept'
    <3>1. CASE \E h \in Handlers : Saved(h)
      <4>1. main = "up"
            BY <3>1 DEF Saved, Quiet
      <4>2. QED  BY <1>4, <3>1, <4>1 DEF Restart, SettingsKept
    <3>2. CASE \A h \in Handlers : ~Saved(h)
          BY <1>4, <3>2 DEF Restart, SettingsKept
    <3>3. QED  BY <3>1, <3>2
  <2>5. ConfigsAgree' /\ StaleFieldsFlagged'
        BY <1>4 DEF Restart, ConfigsAgree, StaleFieldsFlagged
  <2>6. QED  BY <2>2, <2>3, <2>4, <2>5
<1>5. QED  BY <1>1, <1>2, <1>3, <1>4

(* A step of the only request being served.                                *)
LEMMA SafetyRequest ==
    ASSUME SafetyInv, TypeOK', Alone, NEW h \in Handlers, Step(h)
    PROVE  SafetyInv'
<1> USE DEF process, memory, SafetyInv
<1>0. \A g \in Handlers : g = h
      BY DEF Alone
<1>1. main = "up" /\ row \in Rows /\ row # NoRow
  <2>1. main = "up" /\ row \in Rows
        BY DEF Step, Quiet, ReadForPut, FlagPending, ReadForSelect, FlagForSelect,
               SaveConfig, SetConfig, SetTabloConfig, TypeOK
  <2>2. QED  BY <2>1, NoRowAssumption
<1>2. CASE ReadForPut(h)
  <2>1. PICK form \in Forms : work' = [work EXCEPT ![h] = Merge(cfg, form)]
        BY <1>2 DEF ReadForPut
  <2>2. pc' = [pc EXCEPT ![h] = "flag"] /\ UNCHANGED <<row, main, boot, cfg, restart, tabloCfg, running, told>>
        BY <1>2 DEF ReadForPut, Goto
  <2>3. pc'[h] = "flag" /\ work'[h].ServerURL = URL(work'[h])
        BY <2>1, <2>2, MergeType DEF TypeOK
  <2>4. Quiet' /\ Copies' /\ Flags'
        BY <1>0, <1>1, <2>2, <2>3 DEF Quiet, Copies, Flags
  <2>5. RowDerived' /\ InHandDerived'
        BY <1>0, <2>2, <2>3 DEF RowDerived, InHandDerived, URL
  <2>6. Stale'
    <3>1. flag'[h] <=> RequiresRestart(cfg, work'[h])
          BY <1>2, Zenon DEF ReadForPut, TypeOK
    <3>2. RequiresRestart(running, work'[h]) => restart \/ flag'[h]
          BY <1>1, <3>1, RestartTransitive DEF StaleFieldsFlagged
    <3>3. QED  BY <1>0, <2>2, <2>3, <3>2 DEF Stale, RequiresRestart
  <2>7. \A g \in Handlers : ~Saved(g) /\ ~Saved(g)'
        BY <1>0, <1>2, <2>3 DEF ReadForPut, Saved
  <2>8. ConfigsAgree' /\ SettingsKept' /\ StaleFieldsFlagged'
        BY <2>2, <2>7 DEF ConfigsAgree, SettingsKept, StaleFieldsFlagged, RequiresRestart
  <2>9. QED  BY <2>4, <2>5, <2>6, <2>8
<1>3. CASE FlagPending(h)
  <2>1. pc[h] = "flag" /\ pc'[h] = "save"
        BY <1>3 DEF FlagPending, Goto, TypeOK
  <2>2. UNCHANGED <<row, main, boot, cfg, restart, tabloCfg, running, work, told>>
        BY <1>3 DEF FlagPending
  <2>3. Quiet' /\ Copies' /\ Flags'
        BY <1>0, <1>1, <2>1, <2>2 DEF Quiet, Copies, Flags
  <2>4. RowDerived' /\ InHandDerived'
        BY <2>2 DEF RowDerived, InHandDerived, URL
  <2>5. Stale'
    <3>1. flag'[h] <=> restart \/ flag[h]
          BY <1>3, Zenon DEF FlagPending, TypeOK
    <3>2. RequiresRestart(running, work[h]) => flag'[h]
          BY <2>1, <3>1 DEF Stale
    <3>3. QED  BY <1>0, <2>1, <2>2, <3>2 DEF Stale, RequiresRestart
  <2>6. \A g \in Handlers : ~Saved(g) /\ ~Saved(g)'
        BY <1>0, <2>1 DEF Saved
  <2>7. ConfigsAgree' /\ SettingsKept' /\ StaleFieldsFlagged'
        BY <2>2, <2>6 DEF ConfigsAgree, SettingsKept, StaleFieldsFlagged, RequiresRestart
  <2>8. QED  BY <2>3, <2>4, <2>5, <2>7
<1>4. CASE ReadForSelect(h)
  <2>1. PICK d \in TabloDevices :
          work' = [work EXCEPT ![h] = ApplyDerived([cfg EXCEPT !.TabloDevice = d])]
        BY <1>4 DEF ReadForSelect
  <2>2. pc'[h] = "selflag" /\ UNCHANGED <<row, main, boot, cfg, restart, tabloCfg, running, told>>
        BY <1>4 DEF ReadForSelect, Goto, TypeOK
  <2>3. work'[h].ServerURL = URL(work'[h]) /\ work'[h].Port = cfg.Port
        /\ work'[h].OutDir = cfg.OutDir
        BY <2>1, SelectType DEF TypeOK
  <2>4. Quiet' /\ Copies' /\ Flags'
        BY <1>0, <1>1, <2>2 DEF Quiet, Copies, Flags
  <2>5. RowDerived' /\ InHandDerived'
        BY <1>0, <2>2, <2>3 DEF RowDerived, InHandDerived, URL
  <2>6. Stale'
    <3>1. RequiresRestart(running, work'[h]) => restart
          BY <1>1, <2>3 DEF StaleFieldsFlagged, RequiresRestart
    <3>2. QED  BY <1>0, <2>2, <3>1 DEF Stale, RequiresRestart
  <2>7. \A g \in Handlers : ~Saved(g) /\ ~Saved(g)'
        BY <1>0, <1>4, <2>2 DEF ReadForSelect, Saved
  <2>8. ConfigsAgree' /\ SettingsKept' /\ StaleFieldsFlagged'
        BY <2>2, <2>7 DEF ConfigsAgree, SettingsKept, StaleFieldsFlagged, RequiresRestart
  <2>9. QED  BY <2>4, <2>5, <2>6, <2>8
<1>5. CASE FlagForSelect(h)
  <2>1. UNCHANGED <<row, main, boot, cfg, restart, tabloCfg, running, work, told>>
        BY <1>5 DEF FlagForSelect
  <2>2. flag'[h] = restart
        BY <1>5 DEF FlagForSelect, TypeOK
  <2>3. \/ pc[h] = "selflag" /\ pc'[h] = "selsave"
        \/ pc[h] = "reflag" /\ pc'[h] = "set"
        BY <1>5 DEF FlagForSelect, Goto, TypeOK
  <2>4. Quiet' /\ Copies'
        BY <1>0, <1>1, <2>1, <2>3 DEF Quiet, Copies
  <2>5. Flags'
        BY <1>0, <2>1, <2>2, <2>3 DEF Flags
  <2>6. RowDerived' /\ InHandDerived'
        BY <2>1 DEF RowDerived, InHandDerived, URL
  <2>7. Stale'
    <3>1. RequiresRestart(running, work[h]) => restart
          BY <2>3 DEF Stale
    <3>2. QED  BY <1>0, <2>1, <2>2, <2>3, <3>1 DEF Stale, RequiresRestart
  <2>8. \A g \in Handlers : Saved(g) <=> Saved(g)'
        BY <1>0, <2>3 DEF Saved
  <2>9. ConfigsAgree' /\ SettingsKept' /\ StaleFieldsFlagged'
        BY <2>1, <2>8 DEF ConfigsAgree, SettingsKept, StaleFieldsFlagged, RequiresRestart
  <2>10. QED  BY <2>4, <2>5, <2>6, <2>7, <2>9
<1>6. CASE SaveConfig(h)
  <2>1. UNCHANGED <<main, boot, cfg, restart, tabloCfg, running, work, flag, told>>
        BY <1>6 DEF SaveConfig
  <2>2. ApplyDerived(work[h]) = work[h] /\ work[h] \in Configs
        BY DeriveType DEF TypeOK, InHandDerived, URL
  <2>3. pc[h] \in {"save", "selsave"} /\ ~Saved(h)
        BY <1>6 DEF SaveConfig, Saved
  <2>4. CASE row' = [config |-> ApplyDerived(work[h]), restartPending |-> flag[h]]
             /\ Goto(h, IF pc[h] = "save" THEN "set" ELSE "reflag")
    <3>1. row'.config = work[h] /\ row'.restartPending = flag[h]
          BY <2>2, <2>4
    <3>2. \/ pc[h] = "save" /\ pc'[h] = "set"
          \/ pc[h] = "selsave" /\ pc'[h] = "reflag"
          BY <2>3, <2>4 DEF Goto, TypeOK
    <3>3. Quiet' /\ Copies'
          BY <1>0, <1>1, <2>1, <3>1, <3>2 DEF Quiet, Copies
    <3>4. Flags'
          BY <1>0, <2>1, <3>1, <3>2 DEF Flags
    <3>5. RowDerived' /\ InHandDerived'
          BY <2>1, <3>1 DEF RowDerived, InHandDerived, URL
    <3>6. Stale'
          BY <1>0, <2>1, <3>2 DEF Stale, RequiresRestart, Flags
    <3>7. Saved(h)'
          BY <3>2 DEF Saved
    <3>8. ConfigsAgree' /\ SettingsKept' /\ StaleFieldsFlagged'
          BY <2>1, <3>7 DEF ConfigsAgree, SettingsKept, StaleFieldsFlagged, RequiresRestart
    <3>9. QED  BY <3>3, <3>4, <3>5, <3>6, <3>8
  <2>5. CASE Goto(h, "idle") /\ UNCHANGED row
    <3>1. pc'[h] = "idle"
          BY <2>5 DEF Goto, TypeOK
    <3>2. Quiet' /\ Copies' /\ Flags' /\ Stale'
          BY <1>0, <1>1, <2>1, <3>1 DEF Quiet, Copies, Flags, Stale
    <3>3. RowDerived' /\ InHandDerived'
          BY <2>1, <2>5 DEF RowDerived, InHandDerived, URL
    <3>4. \A g \in Handlers : ~Saved(g) /\ ~Saved(g)'
          BY <1>0, <2>3, <3>1 DEF Saved
    <3>5. ConfigsAgree' /\ SettingsKept' /\ StaleFieldsFlagged'
          BY <2>1, <2>5, <3>4 DEF ConfigsAgree, SettingsKept, StaleFieldsFlagged, RequiresRestart
    <3>6. QED  BY <3>2, <3>3, <3>5
  <2>6. QED  BY <1>6, <2>4, <2>5 DEF SaveConfig
<1>7. CASE SetConfig(h)
  <2>1. cfg' = work[h] /\ restart' = flag[h]
        /\ UNCHANGED <<row, main, boot, tabloCfg, running, work, flag, told>>
        BY <1>7 DEF SetConfig
  <2>2. pc[h] = "set" /\ pc'[h] = "settablo"
        BY <1>7 DEF SetConfig, Goto, TypeOK
  <2>3. Quiet' /\ Copies'
        BY <1>0, <1>1, <2>1, <2>2 DEF Quiet, Copies
  <2>4. Flags'
        BY <1>0, <2>1, <2>2 DEF Flags
  <2>5. RowDerived' /\ InHandDerived'
        BY <2>1 DEF RowDerived, InHandDerived, URL
  <2>6. Stale'
        BY <1>0, <2>2 DEF Stale
  <2>7. StaleFieldsFlagged'
        BY <2>1, <2>2 DEF StaleFieldsFlagged, Stale, RequiresRestart
  <2>8. Saved(h)'
        BY <2>2 DEF Saved
  <2>9. ConfigsAgree' /\ SettingsKept'
        BY <2>8 DEF ConfigsAgree, SettingsKept
  <2>10. QED  BY <2>3, <2>4, <2>5, <2>6, <2>7, <2>9
<1>8. CASE SetTabloConfig(h)
  <2>1. tabloCfg' = work[h] /\ told' = work[h]
        /\ UNCHANGED <<row, main, boot, cfg, restart, running, work, flag>>
        BY <1>8 DEF SetTabloConfig
  <2>2. pc[h] = "settablo" /\ pc'[h] = "idle"
        BY <1>8 DEF SetTabloConfig, Goto, TypeOK
  <2>3. Quiet' /\ Copies' /\ Flags' /\ Stale'
        BY <1>0, <1>1, <2>2 DEF Quiet, Copies, Flags, Stale
  <2>4. RowDerived' /\ InHandDerived'
        BY <2>1 DEF RowDerived, InHandDerived, URL
  <2>5. row.config = work[h] /\ cfg = work[h]
        BY <2>2 DEF Copies
  <2>6. row.restartPending = restart
        BY <2>2 DEF Flags
  <2>7. ConfigsAgree' /\ SettingsKept'
        BY <2>1, <2>5, <2>6 DEF ConfigsAgree, SettingsKept
  <2>8. StaleFieldsFlagged'
        BY <2>1 DEF StaleFieldsFlagged, RequiresRestart
  <2>9. QED  BY <2>3, <2>4, <2>7, <2>8
<1>9. QED  BY <1>2, <1>3, <1>4, <1>5, <1>6, <1>7, <1>8 DEF Step

-----------------------------------------------------------------------------
(* What holds when the requests that change the configuration come one     *)
(* after the other, through any number of crashes and failed saves.        *)

LEMMA SafetyStep == ASSUME Alone PROVE SafetyInv /\ [Next]_vars => SafetyInv'
<1> SUFFICES ASSUME SafetyInv, [Next]_vars PROVE SafetyInv'
    OBVIOUS
<1>1. TypeOK'
      BY TypeStep DEF SafetyInv
<1>2. CASE InitStore \/ LoadConfig \/ StartServices \/ Restart
      BY <1>1, <1>2, SafetyMain
<1>3. CASE \E h \in Handlers : Step(h)
      BY <1>1, <1>3, SafetyRequest
<1>4. CASE UNCHANGED vars
  <2>1. \A h \in Handlers : Saved(h)' <=> Saved(h)
        BY <1>4 DEF vars, local, Saved
  <2>2. (Quiet /\ RowDerived /\ InHandDerived /\ Copies /\ Flags)'
        BY <1>4 DEF vars, process, memory, local, SafetyInv, Quiet, RowDerived,
                    InHandDerived, URL, Copies, Flags
  <2>3. (Stale /\ StaleFieldsFlagged)'
        BY <1>4 DEF vars, process, memory, local, SafetyInv, Stale,
                    StaleFieldsFlagged, RequiresRestart
  <2>4. (ConfigsAgree /\ SettingsKept)'
        BY <1>4, <2>1 DEF vars, process, memory, SafetyInv, ConfigsAgree, SettingsKept
  <2>5. QED  BY <1>1, <2>2, <2>3, <2>4 DEF SafetyInv
<1>5. QED  BY <1>2, <1>3, <1>4 DEF Next, Proceed

LEMMA SafetyAlone == ASSUME Alone PROVE Spec => []SafetyInv
<1>1. SafetyInv /\ [Next]_vars => SafetyInv'
      BY SafetyStep
<1>2. QED  BY <1>1, SafetyInit, PTL DEF Spec

(* The row, the server's copy and the Tablo client's are the same again    *)
(* after every request, and so are the two flags.                          *)
THEOREM CopiesAgree == ASSUME Alone PROVE Spec => []ConfigsAgree
<1>1. SafetyInv => ConfigsAgree
      BY DEF SafetyInv
<1>2. QED  BY <1>1, SafetyAlone, PTL

(* What the operator was told is saved is what the row holds, unless the   *)
(* environment of a later start says otherwise.                            *)
THEOREM SettingsSurvive == ASSUME Alone PROVE Spec => []SettingsKept
<1>1. SafetyInv => SettingsKept
      BY DEF SafetyInv
<1>2. QED  BY <1>1, SafetyAlone, PTL

(* A port or directory that differs from the one in use is always flagged. *)
THEOREM StalenessFlagged == ASSUME Alone PROVE Spec => []StaleFieldsFlagged
<1>1. SafetyInv => StaleFieldsFlagged
      BY DEF SafetyInv
<1>2. QED  BY <1>1, SafetyAlone, PTL

(* Unless the operator has been told to restart, the URL that the proxy    *)
(* advertises names the port it listens on.                                *)
THEOREM AdvertisedUrlServed == ASSUME Alone PROVE Spec => []UrlServed
<1>1. SafetyInv => UrlServed
  <2> SUFFICES ASSUME SafetyInv, main = "up", ~restart
               PROVE  cfg.ServerURL = [host |-> cfg.IPAddress, port |-> running.Port]
      BY DEF UrlServed
  <2>1. cfg.ServerURL = URL(cfg)
        BY DEF SafetyInv, InHandDerived
  <2>2. cfg.Port = running.Port
        BY DEF SafetyInv, StaleFieldsFlagged, RequiresRestart
  <2>3. QED  BY <2>1, <2>2 DEF URL
<1>2. QED  BY <1>1, SafetyAlone, PTL

-----------------------------------------------------------------------------
(* The store of settings.  What a request that is not saved yet has in     *)
(* hand is the server's configuration with what it asks for, and the flag  *)
(* the server's with the need for a restart that it brings.                *)

InHand(h) ==
    /\ \A f \in Settings :
          work[h][f] = IF f \in DOMAIN asked[h] THEN asked[h][f] ELSE cfg[f]
    /\ pc[h] = "flag" => (flag[h] <=> RequiresRestart(cfg, work[h]))
    /\ pc[h] = "save" => (flag[h] <=> restart \/ RequiresRestart(cfg, work[h]))
    /\ pc[h] \in {"selflag", "selsave"} => ~RequiresRestart(cfg, work[h])

Due == \A h \in Handlers : pc[h] \in Unsaved => InHand(h)

LEMMA MergeEdits ==
    ASSUME NEW c \in Configs, NEW form \in Forms
    PROVE  \A f \in Settings :
             Merge(c, form)[f]
               = IF f \in DOMAIN Edit(form) THEN Edit(form)[f] ELSE c[f]
BY DEF Merge, Edit, Restrict, ApplyDerived, URL, Configs, Forms, Settings

LEMMA SelectEdits ==
    ASSUME NEW c \in Configs, NEW d \in TabloDevices
    PROVE  \A f \in Settings :
             ApplyDerived([c EXCEPT !.TabloDevice = d])[f]
               = IF f \in DOMAIN [g \in {"TabloDevice"} |-> d]
                 THEN [g \in {"TabloDevice"} |-> d][f] ELSE c[f]
BY DEF ApplyDerived, URL, Configs, Settings

LEMMA DueInit == Init => Due
BY DEF Init, Due, Unsaved

LEMMA DueStep ==
    ASSUME SafetyInv, Due, Alone, [Next]_vars
    PROVE  Due'
<1> USE DEF process, memory, Goto
<1>0. DOMAIN pc = Handlers /\ DOMAIN work = Handlers /\ DOMAIN flag = Handlers
      BY DEF SafetyInv, TypeOK
<1>1. CASE InitStore \/ LoadConfig \/ StartServices \/ Restart
  <2>1. \A h \in Handlers : pc'[h] = "idle"
    <3>1. CASE InitStore \/ LoadConfig \/ StartServices
          BY <3>1 DEF InitStore, LoadConfig, StartServices, local, SafetyInv, Quiet
    <3>2. CASE Restart
          BY <3>2 DEF Restart
    <3>3. QED  BY <1>1, <3>1, <3>2
  <2>2. QED  BY <2>1 DEF Due, Unsaved
<1>2. ASSUME NEW h \in Handlers, Step(h)
      PROVE  Due'
  <2>1. \A g \in Handlers : g = h
        BY DEF Alone
  <2>2. SUFFICES ASSUME pc'[h] \in Unsaved PROVE InHand(h)'
        BY <2>1 DEF Due
  <2>3. CASE ReadForPut(h)
    <3>1. PICK form \in Forms :
            work' = [work EXCEPT ![h] = Merge(cfg, form)] /\ Ask(h, Edit(form))
          BY <2>3 DEF ReadForPut
    <3>2. work'[h] = Merge(cfg, form) /\ asked'[h] = Edit(form) /\ pc'[h] = "flag"
          BY <1>0, <2>3, <3>1, Asked DEF ReadForPut
    <3>3. cfg' = cfg /\ cfg \in Configs
          BY <2>3 DEF ReadForPut, SafetyInv, TypeOK
    <3>4. flag'[h] <=> RequiresRestart(cfg, work'[h])
          BY <1>0, <2>3, Zenon DEF ReadForPut
    <3>5. \A f \in Settings :
            work'[h][f] = IF f \in DOMAIN asked'[h] THEN asked'[h][f] ELSE cfg[f]
          BY <3>2, <3>3, MergeEdits
    <3>6. QED  BY <3>2, <3>3, <3>4, <3>5 DEF InHand, RequiresRestart
  <2>4. CASE ReadForSelect(h)
    <3>1. PICK d \in TabloDevices :
            /\ work' = [work EXCEPT ![h] = ApplyDerived([cfg EXCEPT !.TabloDevice = d])]
            /\ Ask(h, [f \in {"TabloDevice"} |-> d])
          BY <2>4 DEF ReadForSelect
    <3>2. /\ work'[h] = ApplyDerived([cfg EXCEPT !.TabloDevice = d])
          /\ asked'[h] = [f \in {"TabloDevice"} |-> d] /\ pc'[h] = "selflag"
          BY <1>0, <2>4, <3>1, Asked DEF ReadForSelect
    <3>3. cfg' = cfg /\ cfg \in Configs
          BY <2>4 DEF ReadForSelect, SafetyInv, TypeOK
    <3>4. ~RequiresRestart(cfg, work'[h])
          BY <3>2, <3>3, SelectType DEF RequiresRestart
    <3>5. \A f \in Settings :
            work'[h][f] = IF f \in DOMAIN asked'[h] THEN asked'[h][f] ELSE cfg[f]
          BY <3>2, <3>3, SelectEdits
    <3>6. QED  BY <3>2, <3>3, <3>4, <3>5 DEF InHand, RequiresRestart
  <2>5. CASE FlagPending(h)
    <3>1. pc[h] = "flag" /\ pc'[h] = "save" /\ UNCHANGED <<work, asked, cfg, restart>>
          BY <1>0, <2>5 DEF FlagPending
    <3>2. flag'[h] <=> restart \/ flag[h]
          BY <1>0, <2>5, Zenon DEF FlagPending
    <3>3. InHand(h)
          BY <3>1 DEF Due, Unsaved
    <3>4. QED  BY <3>1, <3>2, <3>3 DEF InHand, RequiresRestart
  <2>6. CASE FlagForSelect(h)
    <3>1. pc[h] = "selflag" /\ pc'[h] = "selsave" /\ UNCHANGED <<work, asked, cfg, restart>>
          BY <1>0, <2>2, <2>6 DEF FlagForSelect, Unsaved
    <3>2. InHand(h)
          BY <3>1 DEF Due, Unsaved
    <3>3. QED  BY <3>1, <3>2 DEF InHand, RequiresRestart
  <2>7. CASE SaveConfig(h) \/ SetConfig(h) \/ SetTabloConfig(h)
        BY <1>0, <2>2, <2>7 DEF SaveConfig, SetConfig, SetTabloConfig, Unsaved
  <2>8. QED  BY <1>2, <2>3, <2>4, <2>5, <2>6, <2>7 DEF Step
<1>3. CASE UNCHANGED vars
      BY <1>3 DEF vars, local, Due, InHand, RequiresRestart
<1>4. QED  BY <1>1, <1>2, <1>3 DEF Next, Proceed

(* The settings in a row, and the flag.                                    *)
SettingsOf(r) == [f \in IF r = NoRow THEN {} ELSE Settings |-> r.config[f]]
PendingOf(r)  == r # NoRow /\ r.restartPending

LEMMA RowSettings ==
    ASSUME NEW r \in Rows
    PROVE  /\ DOMAIN SettingsOf(r) = Settings
           /\ \A f \in Settings : SettingsOf(r)[f] = r.config[f]
           /\ SettingsOf(r) \in
                [Settings -> Ports \union OutDirs \union TabloDevices \union Addresses]
           /\ PendingOf(r) <=> r.restartPending
<1>1. r # NoRow
      BY NoRowAssumption
<1>2. \A f \in Settings :
        r.config[f] \in Ports \union OutDirs \union TabloDevices \union Addresses
      BY DEF Rows, Configs, Settings
<1>3. QED  BY <1>1, <1>2 DEF SettingsOf, PendingOf

LEMMA Mapped == /\ Stored = SettingsOf(row) /\ Stored' = SettingsOf(row')
BY DEF Stored, SettingsOf

(* The settings are only changed in the step that saves them.              *)
Abstract ==
    <<Stored, row # NoRow /\ row.restartPending, explicit, main = "up", asked>>

LEMMA Unseen ==
    ASSUME UNCHANGED <<row, main, explicit, asked>>
    PROVE  UNCHANGED Abstract
BY DEF Abstract, Stored

LEMMA StoreStart == Init => Store!StoreInit
<1> SUFFICES ASSUME Init PROVE Store!StoreInit
    OBVIOUS
<1>1. Stored = [f \in {} |-> {}]
      BY DEF Init, Stored
<1>2. explicit \subseteq Settings
      BY OverridesAssumption DEF Init
<1>3. QED  BY <1>1, <1>2 DEF Init, Store!StoreInit

LEMMA StoreMain ==
    ASSUME TypeOK, TypeOK', InitStore \/ LoadConfig \/ StartServices \/ Restart
    PROVE  Store!StoreNext \/ UNCHANGED Abstract
<1> USE DEF process, memory, local
<1>1. CASE InitStore
  <2>1. CASE row = NoRow
    <3>1. row' = [config |-> boot, restartPending |-> FALSE] /\ row' \in Rows
          BY <1>1, <2>1 DEF InitStore, TypeOK, Rows
    <3>2. /\ DOMAIN Stored = {}
          /\ Stored' \in [Settings -> Ports \union OutDirs \union TabloDevices \union Addresses]
          BY <2>1, <3>1, Mapped, RowSettings DEF SettingsOf
    <3>3. ~(row # NoRow /\ row.restartPending) /\ ~(row' # NoRow /\ row'.restartPending)
          BY <2>1, <3>1
    <3>4. main # "up" /\ main' # "up" /\ asked' = asked /\ explicit' = explicit
          BY <1>1 DEF InitStore
    <3>5. Store!Create
          BY <3>2, <3>3, <3>4 DEF Store!Create
    <3>6. QED  BY <3>5 DEF Store!StoreNext
  <2>2. CASE row # NoRow
    <3>1. /\ row' = row /\ asked' = asked /\ main # "up" /\ main' # "up"
          /\ explicit' = explicit
          BY <1>1, <2>2 DEF InitStore
    <3>2. QED  BY <3>1 DEF Abstract, Stored
  <2>3. QED  BY <2>1, <2>2
<1>2. CASE LoadConfig
  <2>1. row \in Rows /\ explicit \in SUBSET Settings /\ boot \in Configs
        BY <1>2, OverridesAssumption DEF LoadConfig, TypeOK
  <2>2. row' \in Rows /\ explicit' = explicit
        BY <1>2 DEF LoadConfig, TypeOK
  <2>3. row' = [row EXCEPT !.config = Override(row.config, boot, explicit)]
        BY <1>2 DEF LoadConfig
  <2>4. /\ row'.config = Override(row.config, boot, explicit)
        /\ row'.restartPending = row.restartPending
        BY <2>1, <2>3 DEF Rows
  <2>5. \A f \in Settings : f \notin explicit => row'.config[f] = row.config[f]
        BY <2>1, <2>4, OverrideType DEF Rows
  <2>6. /\ DOMAIN Stored = Settings
        /\ Stored' \in [Settings -> Ports \union OutDirs \union TabloDevices \union Addresses]
        /\ \A f \in Settings \ explicit : Stored'[f] = Stored[f]
        BY <2>1, <2>2, <2>5, Mapped, RowSettings
  <2>7. (row # NoRow /\ row.restartPending)' = (row # NoRow /\ row.restartPending)
        BY <2>1, <2>2, <2>4, NoRowAssumption
  <2>8. main # "up" /\ main' # "up" /\ asked' = asked
        BY <1>2 DEF LoadConfig
  <2>9. Store!Override
        BY <2>2, <2>6, <2>7, <2>8 DEF Store!Override
  <2>10. QED  BY <2>9 DEF Store!StoreNext
<1>3. CASE StartServices
  <2>1. /\ row \in Rows /\ row' = row /\ asked' = asked /\ main # "up" /\ main' = "up"
        /\ explicit' = explicit
        BY <1>3 DEF StartServices, TypeOK
  <2>2. DOMAIN Stored = Settings /\ Stored' = Stored
        BY <2>1, Mapped, RowSettings
  <2>3. Store!Open
        BY <2>1, <2>2 DEF Store!Open
  <2>4. QED  BY <2>3 DEF Store!StoreNext
<1>4. CASE Restart
  <2>1. row' = row /\ asked' = [h \in {} |-> {}] /\ main' # "up"
        BY <1>4 DEF Restart
  <2>2. Stored' = Stored
        BY <2>1, Mapped
  <2>3. explicit' \subseteq Settings
        BY <1>4, OverridesAssumption DEF Restart
  <2>4. Store!Stop
        BY <2>1, <2>2, <2>3 DEF Store!Stop
  <2>5. QED  BY <2>4 DEF Store!StoreNext
<1>5. QED  BY <1>1, <1>2, <1>3, <1>4

(* A step of the only request: it is asked for when the configuration is   *)
(* read, and applied, or refused, when it is saved.                        *)
LEMMA StoreRequest ==
    ASSUME SafetyInv, TypeOK', Due, Alone, NEW h \in Handlers, Step(h)
    PROVE  Store!StoreNext \/ UNCHANGED Abstract
<1> USE DEF process, memory, Goto
<1>1. main = "up" /\ row \in Rows /\ DOMAIN pc = Handlers
  <2>1. main = "up"
        BY DEF Step, SafetyInv, Quiet, ReadForPut, FlagPending, ReadForSelect, FlagForSelect,
               SaveConfig, SetConfig, SetTabloConfig
  <2>2. QED  BY <2>1 DEF SafetyInv, TypeOK
<1>2. AskedOK /\ AskedOK' /\ main' = "up" /\ explicit' = explicit
      BY <1>1 DEF SafetyInv, TypeOK, Step, ReadForPut, FlagPending, ReadForSelect,
                  FlagForSelect, SaveConfig, SetConfig, SetTabloConfig
<1>3. ASSUME NEW e, Ask(h, e), pc[h] = "idle", pc'[h] \in Unsaved, row' = row
      PROVE  Store!StoreNext
  <2>1. /\ DOMAIN asked' = DOMAIN asked \union {h}
        /\ \A g \in DOMAIN asked : g # h => asked'[g] = asked[g]
        BY <1>3, Asked
  <2>2. DOMAIN asked = {}
        BY <1>2, <1>3 DEF AskedOK, Alone
  <2>3. DOMAIN asked' = {h}
        BY <2>1, <2>2
  <2>4. DOMAIN asked' = {g \in Handlers : pc'[g] \in Unsaved}
        /\ \A g \in DOMAIN asked' : Store!IsEdit(asked'[g])
        BY <1>2, Zenon DEF AskedOK, Unsaved
  <2>5. Store!IsEdit(asked'[h])
        BY <1>3, <2>4
  <2>6. Stored' = Stored
        BY <1>3, Mapped
  <2>7. Store!Ask(h)
        BY <1>1, <1>2, <1>3, <2>2, <2>3, <2>5, <2>6 DEF Store!Ask
  <2>8. QED  BY <2>7 DEF Store!StoreNext
<1>4. CASE ReadForPut(h)
  <2>1. PICK form \in Forms : Ask(h, Edit(form))
        BY <1>4 DEF ReadForPut
  <2>2. pc[h] = "idle" /\ pc'[h] \in Unsaved /\ row' = row
        BY <1>1, <1>4 DEF ReadForPut, Unsaved
  <2>3. QED  BY <1>3, <2>1, <2>2
<1>5. CASE ReadForSelect(h)
  <2>1. PICK d \in TabloDevices : Ask(h, [f \in {"TabloDevice"} |-> d])
        BY <1>5 DEF ReadForSelect
  <2>2. pc[h] = "idle" /\ pc'[h] \in Unsaved /\ row' = row
        BY <1>1, <1>5 DEF ReadForSelect, Unsaved
  <2>3. QED  BY <1>3, <2>1, <2>2
<1>6. CASE FlagPending(h) \/ FlagForSelect(h) \/ SetConfig(h) \/ SetTabloConfig(h)
  <2>1. UNCHANGED <<row, main, explicit, asked>>
        BY <1>6 DEF FlagPending, FlagForSelect, SetConfig, SetTabloConfig
  <2>2. QED  BY <2>1, Unseen
<1>7. CASE SaveConfig(h)
  <2>1. pc[h] \in {"save", "selsave"} /\ asked' = Restrict(asked, DOMAIN asked \ {h})
        BY <1>7 DEF SaveConfig, Answer
  <2>2. h \in DOMAIN asked
        BY <1>2, <2>1 DEF AskedOK
  <2>3. CASE UNCHANGED row
    <3>1. Stored' = Stored
          BY <2>3, Mapped
    <3>2. Store!Refuse(h)
          BY <1>1, <1>2, <2>1, <2>2, <2>3, <3>1 DEF Store!Refuse, Restrict, Store!Restrict
    <3>3. QED  BY <3>2 DEF Store!StoreNext
  <2>4. CASE row' = [config |-> ApplyDerived(work[h]), restartPending |-> flag[h]]
    <3>1. work[h] \in Configs /\ flag[h] \in BOOLEAN
          BY DEF SafetyInv, TypeOK
    <3>2. row' \in Rows /\ row'.config = ApplyDerived(work[h]) /\ row'.restartPending = flag[h]
          BY <1>2, <2>4, <3>1, DeriveType DEF Rows
    <3>3. \A f \in Settings : row'.config[f] = work[h][f]
          BY <3>1, <3>2, DeriveType
    <3>4. row.config = cfg /\ row.restartPending = restart
      <4>1. \A g \in Handlers : ~Saved(g)
            BY <2>1 DEF Alone, Saved
      <4>2. QED  BY <1>1, <4>1 DEF SafetyInv, ConfigsAgree
    <3>5. InHand(h)
          BY <2>1 DEF Due, Unsaved
    <3>6. /\ DOMAIN Stored = Settings /\ DOMAIN Stored' = Settings
          /\ \A f \in Settings : Stored[f] = cfg[f] /\ Stored'[f] = work[h][f]
          /\ Stored' = [f \in Settings |-> Stored'[f]]
          BY <1>1, <3>2, <3>3, <3>4, Mapped, RowSettings
    <3>7. Stored' = [f \in Settings |->
                       IF f \in DOMAIN asked[h] THEN asked[h][f] ELSE Stored[f]]
      <4>1. \A f \in Settings :
              Stored'[f] = IF f \in DOMAIN asked[h] THEN asked[h][f] ELSE Stored[f]
            BY <3>5, <3>6 DEF InHand
      <4>2. QED  BY <3>6, <4>1
    <3>8. RequiresRestart(cfg, work[h])
            <=> \E f \in {"Port", "OutDir"} : Stored'[f] # Stored[f]
          BY <3>6 DEF RequiresRestart, Settings
    <3>9. flag[h] <=> restart \/ RequiresRestart(cfg, work[h])
          BY <2>1, <3>5 DEF InHand, SafetyInv, Flags
    <3>10. (row # NoRow /\ row.restartPending)'
             = \/ row # NoRow /\ row.restartPending
               \/ \E f \in {"Port", "OutDir"} : Stored'[f] # Stored[f]
      <4>1. row # NoRow /\ row' # NoRow
            BY <1>1, <3>2, NoRowAssumption
      <4>2. QED  BY <3>2, <3>4, <3>8, <3>9, <4>1
    <3>11. Store!Apply(h)
          BY <1>1, <1>2, <2>1, <2>2, <3>7, <3>10 DEF Store!Apply, Store!Edited, Restrict, Store!Restrict
    <3>12. QED  BY <3>11 DEF Store!StoreNext
  <2>5. QED  BY <1>7, <2>3, <2>4 DEF SaveConfig
<1>8. QED  BY <1>4, <1>5, <1>6, <1>7 DEF Step

(* Row, copies and requests implement the store, whose promise is about    *)
(* requests one at a time: whatever crashes and failed saves there are     *)
(* between the steps of a request or of a start, it changes the stored     *)
(* settings at once, by exactly what it gives, or not at all, and no       *)
(* request or restart takes the flag back.                                 *)
THEOREM SettingsAreStore == ASSUME Alone PROVE Spec => StoreImplemented
<1>1. Init => Store!StoreInit /\ Due
      BY StoreStart, DueInit
<1>2. SafetyInv /\ SafetyInv' /\ Due /\ [Next]_vars =>
        [Store!StoreNext]_<<Stored, row # NoRow /\ row.restartPending, explicit,
                            main = "up", asked>>
  <2> SUFFICES ASSUME SafetyInv, SafetyInv', Due, [Next]_vars
               PROVE  Store!StoreNext \/ UNCHANGED Abstract
      BY DEF Abstract
  <2>1. TypeOK /\ TypeOK'
        BY DEF SafetyInv
  <2>2. CASE InitStore \/ LoadConfig \/ StartServices \/ Restart
        BY <2>1, <2>2, StoreMain
  <2>3. CASE \E h \in Handlers : Step(h)
        BY <2>1, <2>3, StoreRequest
  <2>4. CASE UNCHANGED vars
        BY <2>4, Unseen DEF vars, process
  <2>5. QED  BY <2>2, <2>3, <2>4 DEF Next, Proceed
<1>3. SafetyInv /\ Due /\ [Next]_vars => Due'
      BY DueStep
<1>4. QED
      BY <1>1, <1>2, <1>3, SafetyAlone, PTL DEF Spec, StoreImplemented, Store!StoreSpec

-----------------------------------------------------------------------------
(* BootConfig: what config.Load returns is a configuration that            *)
(* RuntimeConfig allows for, so that everything above holds of the process *)
(* with its environment, file and flags.                                   *)

LEMMA EnsuredType == ASSUME NEW file \in Sources \union {NoFile}
                     PROVE  Ensured(file) \in Sources
<1>1. Default \in Sources
      BY DefaultsAssumption DEF Default, Sources, Settings, Texts
<1>2. QED  BY <1>1 DEF Ensured

(* A setting of a source is a text of that setting, when it is given.      *)
LEMMA TextType ==
    ASSUME NEW e \in Sources, NEW file \in Sources, NEW line \in Sources,
           NEW f \in Settings
    PROVE  Text(e, file, line, f) \in Texts(f)
<1>1. Default[f] \in Texts(f)
      BY DefaultsAssumption DEF Default, Settings, Texts
<1>2. \A s \in Sources : s[f] # Unset => s[f] \in Texts(f)
      BY DEF Sources
<1>3. QED  BY <1>1, <1>2 DEF Text

LEMMA LoadedType ==
    ASSUME NEW e \in Sources, NEW file \in Sources, NEW line \in Sources,
           NEW h \in Hosts
    PROVE  /\ Loaded(e, file, line, h) \in Derived
           /\ ExplicitFields(e, file, line) \in SUBSET Overridable
<1>1. /\ Text(e, file, line, "Port") \in Ports
      /\ Text(e, file, line, "TabloDevice") \in TabloDevices
      /\ Text(e, file, line, "OutDir") \in OutDirs \union {Empty}
      /\ Text(e, file, line, "IPAddress") \in Addresses \union {Empty}
  <2>1. \A f \in Settings : Text(e, file, line, f) \in Texts(f)
        BY TextType
  <2>2. QED  BY <2>1 DEF Settings, Texts
<1>2. Loaded(e, file, line, h) \in Derived
      BY <1>1, DefaultsAssumption DEF Loaded, Derived, Configs, URL
<1>3. QED  BY <1>2, AllAssumption DEF ExplicitFields, Given

BootInv ==
    /\ env \in Sources /\ dotenv \in Sources /\ flags \in Sources /\ host \in Hosts
    /\ boot = Loaded(env, dotenv, flags, host)
    /\ explicit = ExplicitFields(env, dotenv, flags)

LEMMA BootInitInv == BootInit => BootInv /\ Init
<1> SUFFICES ASSUME BootInit PROVE BootInv /\ Init
    OBVIOUS
<1>1. dotenv \in Sources
  <2>1. PICK file \in EnvFiles \union {NoFile} : dotenv = Ensured(file)
        BY DEF BootInit
  <2>2. QED  BY <2>1, EnsuredType, SourcesAssumption
<1>2. QED  BY <1>1, SourcesAssumption DEF BootInit, BootInv

LEMMA BootStepInv == BootInv /\ [BootNext]_bootVars => BootInv' /\ [Next]_vars
<1> SUFFICES ASSUME BootInv, [BootNext]_bootVars PROVE BootInv' /\ [Next]_vars
    OBVIOUS
<1>1. CASE Proceed /\ UNCHANGED sources
  <2>1. UNCHANGED <<boot, explicit>>
    <3>1. CASE InitStore \/ LoadConfig \/ StartServices
          BY <3>1 DEF InitStore, LoadConfig, StartServices
    <3>2. CASE \E h \in Handlers : Step(h)
          BY <3>2 DEF Step, ReadForPut, FlagPending, ReadForSelect, FlagForSelect,
                      SaveConfig, SetConfig, SetTabloConfig, process
    <3>3. QED  BY <1>1, <3>1, <3>2 DEF Proceed
  <2>2. QED  BY <1>1, <2>1 DEF sources, BootInv, Next
<1>2. CASE BootRestart
  <2>1. dotenv' \in Sources
    <3>1. PICK file \in EnvFiles \union {NoFile, dotenv} : dotenv' = Ensured(file)
          BY <1>2 DEF BootRestart
    <3>2. QED  BY <3>1, EnsuredType, SourcesAssumption DEF BootInv
  <2>2. QED  BY <1>2, <2>1, SourcesAssumption DEF BootRestart, BootInv, Next
<1>3. CASE UNCHANGED bootVars
      BY <1>3 DEF bootVars, vars, sources, process, BootInv
<1>4. QED  BY <1>1, <1>2, <1>3 DEF BootNext

(* A process started with any environment, .env and command line behaves   *)
(* as RuntimeConfig says.                                                  *)
THEOREM BootImplementsRuntime == BootSpec => Spec
BY BootInitInv, BootStepInv, PTL DEF BootSpec, Spec

(* Command line, environment, an edited .env, the stored setting: the      *)
(* first of them that says something is what the process runs with.        *)
THEOREM PrecedenceKept == BootSpec => SettingsPrecedence
<1>1. BootInv /\ TypeOK /\ [BootNext]_bootVars =>
        [LoadConfig => \A f \in Settings :
           row'.config[f] =
             CASE flags[f] # Unset -> Resolved(f, flags[f])
               [] flags[f] = Unset /\ env[f] # Unset -> Resolved(f, env[f])
               [] /\ flags[f] = Unset /\ env[f] = Unset
                  /\ dotenv[f] \notin {Unset, Default[f]} -> Resolved(f, dotenv[f])
               [] OTHER -> row.config[f]]_bootVars
  <2> SUFFICES ASSUME BootInv, TypeOK, LoadConfig, NEW f \in Settings
               PROVE  row'.config[f] =
             CASE flags[f] # Unset -> Resolved(f, flags[f])
               [] flags[f] = Unset /\ env[f] # Unset -> Resolved(f, env[f])
               [] /\ flags[f] = Unset /\ env[f] = Unset
                  /\ dotenv[f] \notin {Unset, Default[f]} -> Resolved(f, dotenv[f])
               [] OTHER -> row.config[f]
      OBVIOUS
  <2>1. row \in Rows /\ explicit \in SUBSET Settings /\ boot \in Configs
        BY OverridesAssumption DEF LoadConfig, TypeOK
  <2>2. row'.config = Override(row.config, boot, explicit)
        BY <2>1 DEF LoadConfig, Rows
  <2>3. row'.config[f] = IF f \in explicit THEN boot[f] ELSE row.config[f]
        BY <2>1, <2>2, OverrideType DEF Rows
  <2>4. f \in explicit <=> \/ flags[f] # Unset \/ env[f] # Unset
                           \/ dotenv[f] \notin {Unset, Default[f]}
        BY DEF BootInv, ExplicitFields, Given
  <2>5. boot[f] = Resolved(f, Text(env, dotenv, flags, f))
        BY DEF BootInv, Loaded, Resolved, Settings
  <2>6. QED  BY <2>3, <2>4, <2>5 DEF Text
<1>2. BootInv /\ [BootNext]_bootVars => BootInv'
      BY BootStepInv
<1>3. BootInit => BootInv
      BY BootInitInv
<1>4. BootSpec => []TypeOK
      BY BootImplementsRuntime, TypeCorrect, PTL
<1>5. QED  BY <1>1, <1>2, <1>3, <1>4, PTL DEF BootSpec, SettingsPrecedence
=============================================================================
