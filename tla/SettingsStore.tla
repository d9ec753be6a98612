--------------------------- MODULE SettingsStore ---------------------------
(***************************************************************************)
(* What the proxy promises about its stored settings, as long as it serves *)
(* one request after the other: a record that changes in one step per      *)
(* request, by the settings the request gives and no others, and at a      *)
(* start by the settings given to that start; and beside it a flag that is *)
(* set with the first change of a field the running process cannot take    *)
(* over, and kept.  A request may be refused or cut off, and has then      *)
(* changed everything it gives or nothing.  The row of internal/store, its *)
(* copies in memory and the requests that update them in several steps     *)
(* implement it (module RuntimeConfig).  It promises nothing of requests   *)
(* that overlap: there the code can lose the update of one.                *)
(***************************************************************************)
EXTENDS Functions

CONSTANTS
    Fields, Values,  \* the settings, and what they may be set to
    Restarting,      \* those that need a restart to take effect
    Requests         \* the requests that may be served

VARIABLES
    settings,  \* the stored settings, none before the first start
    pending,   \* a restart is needed
    given,     \* the settings given to this start of the process
    serving,   \* it serves requests
    asked      \* what the request asks for that is being served, if one is

(* The settings a request gives, and what they make of those there are.    *)
IsEdit(edit) == DOMAIN edit \subseteq Fields /\ edit \in [DOMAIN edit -> Values]
Edited(edit) ==
    [f \in Fields |-> IF f \in DOMAIN edit THEN edit[f] ELSE settings[f]]

StoreInit ==
    /\ settings = [f \in {} |-> {}] /\ asked = [r \in {} |-> {}]
    /\ given \subseteq Fields /\ pending = FALSE /\ serving = FALSE

Create ==
    /\ ~serving /\ DOMAIN settings = {}
    /\ settings' \in [Fields -> Values]
    /\ UNCHANGED <<pending, given, serving, asked>>

Override ==
    /\ ~serving /\ DOMAIN settings = Fields
    /\ settings' \in [Fields -> Values]
    /\ \A f \in Fields \ given : settings'[f] = settings[f]
    /\ UNCHANGED <<pending, given, serving, asked>>

Open ==
    /\ ~serving /\ DOMAIN settings = Fields
    /\ serving' = TRUE
    /\ UNCHANGED <<settings, pending, given, asked>>

Ask(r) ==
    /\ serving /\ DOMAIN asked = {}
    /\ DOMAIN asked' = {r} /\ IsEdit(asked'[r])
    /\ UNCHANGED <<settings, pending, given, serving>>

Apply(r) ==
    /\ r \in DOMAIN asked
    /\ settings' = Edited(asked[r])
    /\ pending'  = (pending \/ \E f \in Restarting : settings'[f] # settings[f])
    /\ asked'    = Restrict(asked, DOMAIN asked \ {r})
    /\ UNCHANGED <<given, serving>>

Refuse(r) ==
    /\ r \in DOMAIN asked
    /\ asked' = Restrict(asked, DOMAIN asked \ {r})
    /\ UNCHANGED <<settings, pending, given, serving>>

Stop ==
    /\ serving' = FALSE /\ asked' = [r \in {} |-> {}] /\ given' \subseteq Fields
    /\ UNCHANGED <<settings, pending>>

StoreNext ==
    \/ Create \/ Override \/ Open \/ Stop
    \/ \E r \in Requests : Ask(r) \/ Apply(r) \/ Refuse(r)

StoreSpec == StoreInit /\ [][StoreNext]_<<settings, pending, given, serving, asked>>
=============================================================================
