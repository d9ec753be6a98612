------------------------------- MODULE Guide -------------------------------
(***************************************************************************)
(* The guide and the lineup it describes (internal/tablo/guide.go and the  *)
(* lineup part of client.go): CacheGuideData as the guide scheduler and    *)
(* refresh-guide run it, over the same temporary and final files;          *)
(* MakeLineup and LoadLineup beside it; the settings IncludeOTT and OutDir,*)
(* which each of them reads again and again while a PUT may change them;   *)
(* and the contexts, which end when the request that gave them does.       *)
(*                                                                         *)
(* The airings of a channel are the edition the cloud publishes at the     *)
(* moment; the days of a channel are one day.  A guide.xml is the function *)
(* from its channels to their airings (airings that are over, which it     *)
(* leaves out, are not distinguished).  The network is up or down, so that *)
(* a request succeeds or not.  What a process does with one channel between*)
(* two accesses to a file is one step, the settings it reads there included*)
(* (a filter, the path of the file).                                       *)
(***************************************************************************)
EXTENDS Integers, Sequences, SequencesExt

CONSTANTS
    Account,      \* the channels of the account, in the cloud's order
    Ott,          \* those of kind "ott"
    Dirs,         \* values of OutDir
    Loop, Admins, \* who runs CacheGuideData: the scheduler, admin requests
    LineupLoop, Liners,  \* who runs MakeLineup: the other scheduler, and all
    Setups,       \* [admins, liners, dirs, changes]: which refreshes come,
                  \* which directories are configured, and how many changes
                  \* are looked at: PUTs, editions, outages, failed writes,
                  \* crashes, the end of the loops' context
    MaxEdition,   \* bound on the editions
    Absent, Torn, \* a file that is missing, one that does not parse
    NoAirings     \* a day file with an empty list

ASSUME AccountAssumption == Account \in Seq(ToSet(Account))
ASSUME OttAssumption  == Ott \subseteq ToSet(Account)
ASSUME SetupsAssumption ==
    Setups \subseteq [admins : SUBSET Admins, liners : SUBSET Liners,
                      dirs : SUBSET Dirs, changes : Nat]
ASSUME ProcAssumption ==
    /\ Loop \notin Admins /\ LineupLoop \in Liners
    /\ Liners \intersect (Admins \union {Loop}) = {}

Channels   == ToSet(Account)
Refreshers == {Loop} \union Admins
Procs      == Refreshers \union Liners
Airings    == (1 .. MaxEdition) \union {NoAirings}
Guides     == UNION {[S -> Airings] : S \in SUBSET Channels}
Lists      == BoundedSeq(Channels, Len(Account))  \* what a lineup.json may hold

ASSUME EditionAssumption == MaxEdition \in Nat \ {0}
ASSUME TornAssumption == Torn \notin Airings \union Lists

VARIABLES
    includeOTT, outDir,  \* Service.cfg
    edition, up,         \* the cloud
    lineupFile,          \* per directory: lineup.json
    dayFile,             \* per directory and channel: tempGuide/<id>_<day>.json
    guide,               \* per directory: guide.xml
    lineup,              \* Service.lineup: its channels
    cancelled,           \* whose context has ended
    pc,                  \* next step of a process
    list, left,          \* the channels it has read, those it has still to visit
    dir,                 \* the directory it has in hand
    hand,                \* the airings it has in hand
    text,                \* the guide it builds
    calm, got,           \* history: no PUT and no other refresh since it began;
                         \* the airings it has fetched
    changes, setup       \* the changes so far, and the one of Setups

settings == <<includeOTT, outDir, edition>>
network  == <<up, cancelled>>
files    == <<lineupFile, dayFile, guide>>
local    == <<list, left, dir, hand, text>>
history  == <<calm, got>>
bounds   == <<changes, setup>>
vars     == <<settings, network, files, lineup, pc, local, history, bounds>>

Nothing == [c \in {} |-> NoAirings]

(* airings, with a for the channel c.                                      *)
Put(airings, c, a) ==
    [x \in DOMAIN airings \union {c} |-> IF x = c THEN a ELSE airings[x]]

Init ==
    /\ setup \in Setups
    /\ includeOTT \in BOOLEAN /\ outDir \in setup.dirs /\ edition = 1 /\ up = TRUE
    /\ lineupFile = [d \in Dirs |-> Absent]
    /\ dayFile = [d \in Dirs |-> [c \in Channels |-> Absent]]
    /\ guide = [d \in Dirs |-> Absent]
    /\ lineup = {} /\ cancelled = {}
    /\ pc = [p \in Procs |-> "idle"]
    /\ list = [p \in Procs |-> <<>>] /\ left = [p \in Procs |-> <<>>]
    /\ dir = [p \in Procs |-> outDir]
    /\ hand = [p \in Procs |-> NoAirings] /\ text = [p \in Procs |-> Nothing]
    /\ calm = [p \in Procs |-> FALSE] /\ got = [p \in Procs |-> Nothing]
    /\ changes = 0

Goto(p, step) == pc' = [pc EXCEPT ![p] = step]
Change        == changes < setup.changes /\ changes' = changes + 1 /\ UNCHANGED setup

(* The filter of MakeLineup, ParseLineup, CacheGuideData and buildXMLGuide,*)
(* and the loop in which the first two append what it lets through.        *)
Included(c) == c \notin Ott \/ includeOTT
Visible(channels) ==
    LET kept[n \in 0 .. Len(channels)] ==
          IF n = 0 THEN <<>>
          ELSE IF Included(channels[n]) THEN Append(kept[n - 1], channels[n])
          ELSE kept[n - 1]
    IN  kept[Len(channels)]
Shown(channels) == {c \in ToSet(channels) : Included(c)}

(* A request p sends to the cloud is answered.                             *)
Reached(p) == up /\ p \notin cancelled

(* p ends: what it had in hand is gone, and so is the context, if it was   *)
(* that of its request.                                                    *)
Done(p) ==
    /\ Goto(p, "idle") /\ cancelled' = cancelled \ ({p} \intersect Admins)
    /\ list' = [list EXCEPT ![p] = <<>>] /\ left' = [left EXCEPT ![p] = <<>>]
    /\ hand' = [hand EXCEPT ![p] = NoAirings] /\ text' = [text EXCEPT ![p] = Nothing]
    /\ calm' = [calm EXCEPT ![p] = FALSE] /\ got' = [got EXCEPT ![p] = Nothing]
    /\ dir'  = [dir EXCEPT ![p] = CHOOSE d \in Dirs : TRUE]

(* What a write leaves of new in a file that holds old: the file was       *)
(* truncated, and if it has been written since the two may be mixed.       *)
Written(old, new) == IF old = Torn THEN {new} ELSE {new, Torn}

-----------------------------------------------------------------------------
(* CacheGuideData: it reads lineup.json; without one it fails at once.     *)
Begin(p) ==
    /\ pc[p] = "idle" /\ p \in setup.admins \union {Loop}
    /\ lineupFile[outDir] \in Lists
    /\ list' = [list EXCEPT ![p] = lineupFile[outDir]]
    /\ calm' = [q \in Procs |->
                  IF q = p THEN \A r \in Refreshers : pc[r] = "idle" ELSE FALSE]
    /\ Goto(p, "dir")
    /\ UNCHANGED <<settings, network, files, lineup, left, dir, hand, text, got, bounds>>

(* The temporary directory, and the days.                                  *)
TempDir(p) ==
    /\ pc[p] = "dir"
    /\ dir'  = [dir EXCEPT ![p] = outDir]
    /\ left' = [left EXCEPT ![p] = list[p]]
    /\ Goto(p, "fetch")
    /\ UNCHANGED <<settings, network, files, lineup, list, hand, text, history, bounds>>

Skip(p) ==
    /\ pc[p] \in {"fetch", "build"} /\ left[p] # <<>>
    /\ ~Included(Head(left[p]))
    /\ left' = [left EXCEPT ![p] = Tail(@)]
    /\ UNCHANGED <<settings, network, files, lineup, pc, list, dir, hand, text,
                   history, bounds>>

FailureKeepsFile(p) ==  \* mutant: a failed fetch leaves the day file alone
    /\ pc[p] = "fetch" /\ left[p] # <<>>
    /\ LET c == Head(left[p])
           a == IF Reached(p) THEN edition ELSE NoAirings
       IN  /\ Included(c)
           /\ got' = [got EXCEPT ![p] = Put(@, c, a)]
           /\ IF Reached(p)
              THEN /\ dayFile' = [dayFile EXCEPT ![dir[p]][c] = Torn]
                   /\ hand' = [hand EXCEPT ![p] = a] /\ Goto(p, "day")
                   /\ UNCHANGED left
              ELSE left' = [left EXCEPT ![p] = Tail(@)] /\ UNCHANGED <<dayFile, hand, pc>>
    /\ UNCHANGED <<settings, network, lineupFile, guide, lineup, list, dir, text, calm,
                   bounds>>

(* A day is fetched, an empty one if that fails, be it for the context     *)
(* that has ended; and its file is truncated.                              *)
Fetch(p) ==
    /\ pc[p] = "fetch" /\ left[p] # <<>>
    /\ LET c == Head(left[p])
           a == IF Reached(p) THEN edition ELSE NoAirings
       IN  /\ Included(c)
           /\ dayFile' = [dayFile EXCEPT ![dir[p]][c] = Torn]
           /\ hand' = [hand EXCEPT ![p] = a]
           /\ got'  = [got EXCEPT ![p] = Put(@, c, a)]
    /\ Goto(p, "day")
    /\ UNCHANGED <<settings, network, lineupFile, guide, lineup, list, left, dir, text,
                   calm, bounds>>

WriteDay(p) ==
    /\ pc[p] = "day"
    /\ \E f \in Written(dayFile[dir[p]][Head(left[p])], hand[p]) :
         dayFile' = [dayFile EXCEPT ![dir[p]][Head(left[p])] = f]
    /\ left' = [left EXCEPT ![p] = Tail(@)]
    /\ hand' = [hand EXCEPT ![p] = NoAirings]
    /\ Goto(p, "fetch")
    /\ UNCHANGED <<settings, network, lineupFile, guide, lineup, list, dir, text,
                   history, bounds>>

Fetched(p) ==
    /\ pc[p] = "fetch" /\ left[p] = <<>>
    /\ left' = [left EXCEPT ![p] = list[p]]
    /\ Goto(p, "build")
    /\ UNCHANGED <<settings, network, files, lineup, list, dir, hand, text, history, bounds>>

BuildUnchecked(p) ==  \* mutant: the error of ReadJSONFile is dropped
    /\ pc[p] = "build" /\ left[p] # <<>>
    /\ LET c == Head(left[p])
       IN  Included(c) /\ text' = [text EXCEPT ![p] = Put(@, c, dayFile[outDir][c])]
    /\ left' = [left EXCEPT ![p] = Tail(@)]
    /\ UNCHANGED <<settings, network, files, lineup, pc, list, dir, hand, history, bounds>>

(* buildXMLGuide reads the day files back, from the directory of now.      *)
Build(p) ==
    /\ pc[p] = "build" /\ left[p] # <<>>
    /\ LET c == Head(left[p])
           a == dayFile[outDir][c]
       IN  /\ Included(c)
           /\ \/ /\ a \in Airings
                 /\ text' = [text EXCEPT ![p] = Put(@, c, a)]
                 /\ left' = [left EXCEPT ![p] = Tail(@)]
                 /\ UNCHANGED <<cancelled, pc, list, dir, hand, history>>
              \/ a \notin Airings /\ Done(p)
    /\ UNCHANGED <<settings, up, files, lineup, bounds>>

(* WriteFile of guide.xml, to the directory of now.                        *)
Truncate(p) ==
    /\ pc[p] = "build" /\ left[p] = <<>>
    /\ guide' = [guide EXCEPT ![outDir] = Torn]
    /\ dir'   = [dir EXCEPT ![p] = outDir]
    /\ Goto(p, "write")
    /\ UNCHANGED <<settings, network, lineupFile, dayFile, lineup, list, left, hand, text,
                   history, bounds>>

Write(p) ==
    /\ pc[p] = "write"
    /\ \E f \in Written(guide[dir[p]], text[p]) : guide' = [guide EXCEPT ![dir[p]] = f]
    /\ Done(p)
    /\ UNCHANGED <<settings, up, lineupFile, dayFile, lineup, bounds>>

(* A directory, an open or a write fails; what was truncated stays so.     *)
Fail(p) ==
    /\ pc[p] # "idle"
    /\ Change
    /\ Done(p)
    /\ UNCHANGED <<settings, up, files, lineup>>

Refresh(p) ==
    \/ TempDir(p) \/ Skip(p) \/ Fetch(p) \/ WriteDay(p) \/ Fetched(p)
    \/ Build(p) \/ Truncate(p) \/ Write(p)

-----------------------------------------------------------------------------
(* MakeLineup: the setting is read, the channels are fetched and filtered, *)
(* the file is written, and ParseLineup reads the setting again.           *)
MakeLineup(l) ==
    /\ pc[l] = "idle" /\ l \in setup.liners /\ Reached(l)
    /\ list' = [list EXCEPT ![l] = Visible(Account)]
    /\ Goto(l, "made")
    /\ UNCHANGED <<settings, network, files, lineup, left, dir, hand, text, history, bounds>>

TruncateLineup(l) ==
    /\ pc[l] = "made"
    /\ lineupFile' = [lineupFile EXCEPT ![outDir] = Torn]
    /\ dir' = [dir EXCEPT ![l] = outDir]
    /\ Goto(l, "file")
    /\ UNCHANGED <<settings, network, dayFile, guide, lineup, list, left, hand, text,
                   history, bounds>>

WriteLineup(l) ==
    /\ pc[l] = "file"
    /\ \E f \in Written(lineupFile[dir[l]], list[l]) :
         lineupFile' = [lineupFile EXCEPT ![dir[l]] = f]
    /\ Goto(l, "parse")
    /\ UNCHANGED <<settings, network, dayFile, guide, lineup, local, history, bounds>>

ParseAsMade(l) ==  \* mutant: ParseLineup takes the list as MakeLineup left it
    /\ pc[l] = "parse"
    /\ Goto(l, "set")
    /\ UNCHANGED <<settings, network, files, lineup, local, history, bounds>>

ParseLineup(l) ==
    /\ pc[l] = "parse"
    /\ list' = [list EXCEPT ![l] = Visible(@)]
    /\ Goto(l, "set")
    /\ UNCHANGED <<settings, network, files, lineup, left, dir, hand, text, history, bounds>>

SetAdds(l) ==  \* mutant: the entries are put into the map that is there
    /\ pc[l] = "set"
    /\ lineup' = lineup \union ToSet(list[l])
    /\ Done(l)
    /\ UNCHANGED <<settings, up, files, bounds>>

SetLineup(l) ==
    /\ pc[l] = "set"
    /\ lineup' = ToSet(list[l])
    /\ Done(l)
    /\ UNCHANGED <<settings, up, files, bounds>>

(* LoadLineup, of an activation: it reads the file, and goes on as above.  *)
LoadLineup(l) ==
    /\ pc[l] = "idle" /\ l \in setup.liners \ {LineupLoop}
    /\ lineupFile[outDir] \in Lists
    /\ list' = [list EXCEPT ![l] = lineupFile[outDir]]
    /\ Goto(l, "parse")
    /\ UNCHANGED <<settings, network, files, lineup, left, dir, hand, text, history, bounds>>

Make(l) == TruncateLineup(l) \/ WriteLineup(l) \/ ParseLineup(l) \/ SetLineup(l)

-----------------------------------------------------------------------------
(* The admin's PUT, the cloud, and the process dying.                      *)
SetConfig ==
    /\ Change
    /\ includeOTT' \in BOOLEAN /\ outDir' \in setup.dirs
    /\ calm' = [p \in Procs |-> FALSE]
    /\ UNCHANGED <<edition, network, files, lineup, pc, local, got>>

Publish ==
    /\ edition < MaxEdition /\ Change
    /\ edition' = edition + 1
    /\ UNCHANGED <<includeOTT, outDir, network, files, lineup, pc, local, history>>

Outage ==
    /\ up /\ Change
    /\ up' = FALSE
    /\ UNCHANGED <<settings, cancelled, files, lineup, pc, local, history>>

Recover ==
    /\ ~up /\ up' = TRUE
    /\ UNCHANGED <<settings, cancelled, files, lineup, pc, local, history, bounds>>

(* An admin's browser leaves its request.                                  *)
Leave(p) ==
    /\ pc[p] # "idle" /\ p \notin cancelled
    /\ cancelled' = cancelled \union {p}
    /\ UNCHANGED <<settings, up, files, lineup, pc, local, history, bounds>>

(* The request whose activation started the loops is over, and with it     *)
(* their context: then they may return, or begin once more.  (Loops that   *)
(* main started have the root context, which never ends.)                  *)
EndRequest ==
    /\ Loop \notin cancelled /\ Change
    /\ cancelled' = cancelled \union {Loop, LineupLoop}
    /\ UNCHANGED <<settings, up, files, lineup, pc, local, history>>

Restart ==
    /\ Change
    /\ lineup' = {} /\ cancelled' = {}
    /\ pc'   = [p \in Procs |-> "idle"]
    /\ list' = [p \in Procs |-> <<>>] /\ left' = [p \in Procs |-> <<>>]
    /\ dir'  = [p \in Procs |-> CHOOSE d \in Dirs : TRUE]
    /\ hand' = [p \in Procs |-> NoAirings] /\ text' = [p \in Procs |-> Nothing]
    /\ calm' = [p \in Procs |-> FALSE] /\ got' = [p \in Procs |-> Nothing]
    /\ UNCHANGED <<settings, up, files>>

Next ==
    \/ \E p \in Refreshers : Begin(p) \/ Refresh(p) \/ Fail(p)
    \/ \E l \in Liners : MakeLineup(l) \/ LoadLineup(l) \/ Make(l) \/ Fail(l)
    \/ \E p \in Admins : Leave(p)
    \/ SetConfig \/ Publish \/ Outage \/ Recover \/ EndRequest \/ Restart

Spec == Init /\ [][Next]_vars

(* Goroutines that can run do.  The two scheduler loops come back for ever *)
(* as long as their context has not ended (Scheduler); a loop whose task   *)
(* failed tries again without a pause, so it finds lineup.json readable in *)
(* the end although that file is truncated now and then.                   *)
FairSpec ==
    /\ Spec
    /\ \A p \in Refreshers : WF_vars(Refresh(p))
    /\ SF_vars(Loop \notin cancelled /\ Begin(Loop))
    /\ \A l \in Liners : WF_vars(Make(l))
    /\ WF_vars(LineupLoop \notin cancelled /\ MakeLineup(LineupLoop))

-----------------------------------------------------------------------------
TypeOK ==
    /\ includeOTT \in BOOLEAN /\ outDir \in Dirs
    /\ edition \in 1 .. MaxEdition /\ up \in BOOLEAN
    /\ lineupFile \in [Dirs -> Lists \union {Absent, Torn}]
    /\ dayFile \in [Dirs -> [Channels -> Airings \union {Absent, Torn}]]
    /\ guide \in [Dirs -> Guides \union {Absent, Torn}]
    /\ lineup \subseteq Channels /\ cancelled \subseteq Refreshers \union {LineupLoop}
    /\ pc \in [Procs -> {"idle", "dir", "fetch", "day", "build", "write",
                         "made", "file", "parse", "set"}]
    /\ dir \in [Procs -> Dirs] /\ hand \in [Procs -> Airings]
    /\ \A p \in Procs : list[p] \in Lists /\ ToSet(left[p]) \subseteq Channels
    /\ text \in [Procs -> Guides] /\ got \in [Procs -> Guides]
    /\ calm \in [Procs -> BOOLEAN] /\ setup \in Setups /\ changes \in 0 .. setup.changes

(* A refresh during which no setting changed and no other one ran writes   *)
(* exactly what it fetched: nothing left by an earlier refresh, cut short  *)
(* or made for other settings, shows through the temporary files, not even *)
(* for a channel whose fetch failed.                                       *)
RefreshExact ==
    [][\A p \in Refreshers :
         Write(p) /\ calm[p] /\ guide'[dir[p]] # Torn
            => /\ guide'[dir[p]] = got[p]
               /\ DOMAIN got[p] = Shown(list[p])]_vars

(* Lineup and guide.xml are what the settings and the cloud ask for, and   *)
(* so is all that is under way and may yet be read: the lists in hand and  *)
(* in lineup.json, the day files of the refresh, what it has read back.    *)
Wanted == ToSet(Visible(Account))
Latest == [c \in Wanted |-> edition]

LineupFits ==
    /\ lineup = Wanted
    /\ lineupFile[outDir] \in Lists => Shown(lineupFile[outDir]) = Wanted
    /\ \A p \in Liners \union {Loop} : pc[p] # "idle" => Shown(list[p]) = Wanted
    /\ \A l \in Liners : pc[l] = "set" => ToSet(list[l]) = Wanted

GuideFits ==
    LET step    == pc[Loop]
        fetched == DOMAIN got[Loop]
    IN  /\ guide[outDir] = IF step = "write" THEN Torn ELSE Latest
        /\ step \in {"fetch", "day", "build", "write"} => dir[Loop] = outDir
        /\ step \in {"fetch", "day"} => fetched \union Shown(left[Loop]) = Wanted
        /\ step \in {"fetch", "day", "build"} =>
             \A c \in fetched : dayFile[outDir][c] \in {edition, Torn}
        /\ step = "day" => Head(left[Loop]) \in fetched /\ hand[Loop] = edition
        /\ step = "build" =>
             /\ fetched = Wanted
             /\ DOMAIN text[Loop] \union Shown(left[Loop]) = Wanted
             /\ \A c \in DOMAIN text[Loop] : text[Loop][c] = edition
        /\ step = "write" => text[Loop] = Latest

Quiet   == up /\ Loop \notin cancelled /\ \A p \in Admins : pc[p] = "idle"
Settled == Quiet /\ LineupFits /\ GuideFits

(* Once it is settled it stays so: while settings, cloud and the loops'    *)
(* context remain, nothing fails or crashes and no admin refreshes the     *)
(* guide, no interleaving of the two schedulers with the lineup fetches and*)
(* activations of requests serves a wrong lineup or a wrong guide.  (A     *)
(* request that read an old lineup.json and has yet to set it is under way:*)
(* with it nothing is settled.)                                            *)
SettledStays ==
    [][Settled /\ changes' = changes /\ (\A p \in Admins : pc'[p] = "idle")
         => Settled']_vars

(* Whatever changed, failed, crashed or overlapped before: when the loops' *)
(* context does not end, settings and cloud stay as they are and no admin  *)
(* interferes any more, the lineup that is served becomes the one the      *)
(* settings ask for, and guide.xml, in the directory it is served from,    *)
(* becomes that of its channels with the present airings ("Optionally      *)
(* builds an XMLTV guide at `/guide.xml`.", README.md:11).                 *)
GuideConverges == <>[]Quiet /\ <>[][FALSE]_settings => <>[]Settled
=============================================================================
