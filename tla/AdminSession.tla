---------------------------- MODULE AdminSession ----------------------------
(***************************************************************************)
(* The admin password and the one admin session, both in the row of        *)
(* admin_auth (internal/store): main sets, generates or reuses the         *)
(* password at boot, and the pages of an operator log in, log out and      *)
(* change the password.  A call of the store is one statement on the only  *)
(* connection and so one step; between the calls of a request, those of    *)
(* others, the expiry of the session and a crash may fall.                 *)
(*                                                                         *)
(* Hashes are represented by what they are hashes of.  A token is new when *)
(* nobody has it.  That handleAdminLogin may set a first password is left  *)
(* out: main has always set one before requests are served.                *)
(***************************************************************************)
EXTENDS Integers

CONSTANTS
    Pages,          \* open admin pages, each with its cookie
    Passwords,      \* passwords an operator chooses
    Generated,      \* passwords randomAdminPassword may return
    NoPassword,
    Tokens,
    NoToken,
    MaxRestarts     \* bound on the crashes and restarts of a behaviour

ASSUME PasswordsAssumption == /\ NoPassword \notin Passwords \union Generated
                              /\ Passwords \intersect Generated = {}
ASSUME TokensAssumption    == NoToken \notin Tokens
ASSUME RestartsAssumption  == MaxRestarts \in Nat

Secrets == Passwords \union Generated

VARIABLES
    password,    \* admin_auth: password_hash
    session,     \* admin_auth: session_token_hash
    expired,     \* admin_auth: session_expires_at has passed
    main,        \* the next step of main: "has", "set", "print" or "up"
    envPassword, \* ADMIN_PASSWORD or --admin_password of this process life
    newPassword, \* main's adminPassword
    cookie,      \* the cookie of a page
    pc,          \* the next step of a page's request
    typed,       \* the password in the request that a later step needs
    restarts,    \* crashes and restarts so far
    printed,     \* history: the generated passwords that were logged
    unprinted,   \* history: the process died between saving one and logging it
    by,          \* history: the password the session was opened with
    crossed,     \* history: logins under way while the password was changed
    late         \* history: the session is of such a login, was there when a
                 \* boot set the password, or could not be cleared after a change

row     == <<password, session, expired>>
process == <<main, envPassword, newPassword, restarts>>
page    == <<cookie, pc, typed>>
history == <<printed, unprinted, by, crossed, late>>
vars    == <<row, process, page, history>>

Goto(p, step) == pc' = [pc EXCEPT ![p] = step]

(* What an operator can type: the chosen passwords and those in the log.   *)
Known == Passwords \union printed

(* requireAdmin and Store.CheckSession *)
Authenticated(p) == cookie[p] # NoToken /\ cookie[p] = session /\ ~expired

Init ==
    /\ password = NoPassword /\ session = NoToken /\ expired = FALSE
    /\ main = "has" /\ envPassword \in Passwords \union {NoPassword}
    /\ newPassword = NoPassword
    /\ cookie = [p \in Pages |-> NoToken]
    /\ pc     = [p \in Pages |-> "idle"]
    /\ typed  = [p \in Pages |-> NoPassword]
    /\ restarts = 0
    /\ printed = {} /\ unprinted = FALSE
    /\ by = NoPassword /\ crossed = {} /\ late = FALSE

-----------------------------------------------------------------------------
(* main, from the look at the database to the start of the server.  Errors *)
(* end the process, which Restart covers.                                  *)

BootAlwaysGenerates ==  \* mutant: "case !hasAdminPassword" lost
    /\ main = "has"
    /\ IF envPassword # NoPassword
       THEN newPassword' = envPassword ELSE newPassword' \in Generated
    /\ main' = "set"
    /\ UNCHANGED <<row, envPassword, restarts, page, history>>

BootNeverGenerates ==  \* mutant: no password is generated
    /\ main = "has"
    /\ newPassword' = envPassword
    /\ main' = IF envPassword = NoPassword THEN "up" ELSE "set"
    /\ UNCHANGED <<row, envPassword, restarts, page, history>>

(* A configured password is set, a missing one generated, else the one of  *)
(* the database is used.                                                   *)
BootCheck ==
    /\ main = "has"
    /\ \/ /\ envPassword # NoPassword
          /\ main' = "set" /\ newPassword' = envPassword
       \/ /\ envPassword = NoPassword /\ password = NoPassword
          /\ main' = "set" /\ newPassword' \in Generated
       \/ /\ envPassword = NoPassword /\ password # NoPassword
          /\ main' = "up" /\ UNCHANGED newPassword
    /\ UNCHANGED <<row, envPassword, restarts, page, history>>

(* Store.SetAdminPassword: the session's columns stay as they are.         *)
BootSet ==
    /\ main = "set"
    /\ password' = newPassword
    /\ main' = IF envPassword = NoPassword THEN "print" ELSE "up"
    /\ unprinted' = FALSE
    /\ late' = (late \/ session # NoToken)
    /\ UNCHANGED <<session, expired, envPassword, newPassword, restarts, page,
                   printed, by, crossed>>

BootPrintBelowThreshold ==  \* mutant: logger.Info in place of logger.Always
    /\ main = "print"
    /\ main' = "up"
    /\ printed' \in {printed, printed \union {newPassword}}
    /\ UNCHANGED <<row, envPassword, newPassword, restarts, page,
                   unprinted, by, crossed, late>>

(* logger.Always: "Generated admin password: %s"                           *)
BootPrint ==
    /\ main = "print"
    /\ main' = "up"
    /\ printed' = printed \union {newPassword}
    /\ UNCHANGED <<row, envPassword, newPassword, restarts, page,
                   unprinted, by, crossed, late>>

(* The process dies and is started again, perhaps with another             *)
(* ADMIN_PASSWORD.  Requests are cut off, the pages keep their cookies.    *)
Restart ==
    /\ restarts < MaxRestarts
    /\ restarts' = restarts + 1
    /\ main' = "has" /\ newPassword' = NoPassword
    /\ envPassword' \in Passwords \union {NoPassword}
    /\ pc'    = [p \in Pages |-> "idle"]
    /\ typed' = [p \in Pages |-> NoPassword]
    /\ unprinted' = (unprinted \/ main = "print")
    /\ late' = (late \/ \E p \in Pages : pc[p] = "clear")
    /\ crossed' = {}
    /\ UNCHANGED <<row, cookie, printed, by>>

-----------------------------------------------------------------------------
(* The requests of a page.                                                 *)

(* handleAdminLogin: CheckAdminPassword accepts the password or not ...    *)
LoginCheck(p) ==
    /\ main = "up" /\ pc[p] = "idle"
    /\ \E w \in Known :
         \/ /\ w = password
            /\ typed' = [typed EXCEPT ![p] = w]
            /\ Goto(p, "create")
         \/ w # password /\ UNCHANGED <<pc, typed>>
    /\ UNCHANGED <<row, process, cookie, history>>

(* ... and CreateSession replaces the session, or fails.                   *)
CreateSession(p) ==
    /\ pc[p] = "create"
    /\ Goto(p, "idle")
    /\ typed' = [typed EXCEPT ![p] = NoPassword]
    /\ crossed' = crossed \ {p}
    /\ \/ /\ \E t \in Tokens :
               /\ t # session /\ \A q \in Pages : t # cookie[q]
               /\ session' = t /\ cookie' = [cookie EXCEPT ![p] = t]
          /\ expired' = FALSE
          /\ by' = typed[p]
          /\ late' = (p \in crossed)
       \/ UNCHANGED <<session, expired, cookie, by, late>>
    /\ UNCHANGED <<password, process, printed, unprinted>>

(* A request of a page with a session passes requireAdmin: to log out ...  *)
AskLogout(p) ==
    /\ main = "up" /\ pc[p] = "idle" /\ Authenticated(p)
    /\ Goto(p, "logout")
    /\ UNCHANGED <<row, process, cookie, typed, history>>

(* ... or to change the password.                                          *)
AskChange(p) ==
    /\ main = "up" /\ pc[p] = "idle" /\ Authenticated(p)
    /\ \E w \in Passwords : typed' = [typed EXCEPT ![p] = w]
    /\ Goto(p, "verify")
    /\ UNCHANGED <<row, process, cookie, history>>

(* handleAdminPassword: the current password is asked for again ...        *)
VerifyCurrent(p) ==
    /\ pc[p] = "verify"
    /\ \E current \in Known : Goto(p, IF current = password THEN "set" ELSE "idle")
    /\ UNCHANGED <<row, process, cookie, typed, history>>

ChangeKeepsSession(p) ==  \* mutant: no ClearSession after a change
    /\ pc[p] = "set"
    /\ password' = typed[p]
    /\ Goto(p, "idle")
    /\ crossed' = crossed \union {q \in Pages : pc[q] = "create"}
    /\ UNCHANGED <<session, expired, process, cookie, typed,
                   printed, unprinted, by, late>>

(* ... the new one is stored, or not ...                                   *)
SetPassword(p) ==
    /\ pc[p] = "set"
    /\ \/ /\ password' = typed[p]
          /\ Goto(p, "clear")
          /\ crossed' = crossed \union {q \in Pages : pc[q] = "create"}
       \/ Goto(p, "idle") /\ UNCHANGED <<password, crossed>>
    /\ UNCHANGED <<session, expired, process, cookie, typed,
                   printed, unprinted, by, late>>

(* ... and, as after a logout, the session of whoever has one is cleared.  *)
(* That this may fail is not looked at; the page's cookie goes either way. *)
ClearSession(p) ==
    /\ pc[p] \in {"clear", "logout"}
    /\ Goto(p, "idle")
    /\ typed'  = [typed EXCEPT ![p] = NoPassword]
    /\ cookie' = [cookie EXCEPT ![p] = NoToken]
    /\ \/ session' = NoToken /\ expired' = FALSE /\ late' = FALSE
       \/ late' = (late \/ pc[p] = "clear") /\ UNCHANGED <<session, expired>>
    /\ UNCHANGED <<password, process, printed, unprinted, by, crossed>>

Request(p) ==
    \/ LoginCheck(p) \/ CreateSession(p) \/ AskLogout(p) \/ AskChange(p)
    \/ VerifyCurrent(p) \/ SetPassword(p) \/ ClearSession(p)

(* 24 hours have passed since the session was created.                     *)
Expire ==
    /\ session # NoToken /\ ~expired
    /\ expired' = TRUE
    /\ UNCHANGED <<password, session, process, page, history>>

Next ==
    \/ BootCheck \/ BootSet \/ BootPrint \/ Restart \/ Expire
    \/ \E p \in Pages : Request(p)

Spec == Init /\ [][Next]_vars

-----------------------------------------------------------------------------
TypeOK ==
    /\ password \in Secrets \union (IF main = "up" THEN {} ELSE {NoPassword})
    /\ session \in Tokens \union {NoToken} /\ expired \in BOOLEAN
    /\ main \in {"has", "set", "print", "up"}
    /\ envPassword \in Passwords \union {NoPassword}
    /\ newPassword \in Secrets \union {NoPassword}
    /\ cookie \in [Pages -> Tokens \union {NoToken}]
    /\ pc \in [Pages -> {"idle", "create", "logout", "verify", "set", "clear"}]
    /\ typed \in [Pages -> Secrets \union {NoPassword}]
    /\ restarts \in 0 .. MaxRestarts
    /\ printed \subseteq Generated /\ unprinted \in BOOLEAN
    /\ by \in Secrets \union {NoPassword} /\ crossed \subseteq Pages /\ late \in BOOLEAN

(* A running proxy has a password, and one its operator has chosen or can  *)
(* read in the log, unless the process died just between the two steps:    *)
(* "the app generates a random admin password, prints it to the log, and   *)
(* saves it to the database" (README.md:22), in the other order.           *)
OperatorCanLogIn == main = "up" /\ ~unprinted => password \in Known

(* "Existing database passwords are reused on restart." (README.md:22)     *)
DatabasePasswordReused ==
    [][password # NoPassword /\ main # "up" /\ envPassword = NoPassword
         => password' = password]_vars

(* Nobody works with a session that was opened with a former password: a   *)
(* change of the password ends it.  The exceptions are a login that had    *)
(* been checked before the change and a change whose second statement      *)
(* failed or never ran; a password set at boot ends no session either.     *)
SessionOfPassword ==
    (/\ session # NoToken /\ ~expired /\ ~late
     /\ \A p \in Pages : pc[p] # "clear")
        => by = password
=============================================================================
