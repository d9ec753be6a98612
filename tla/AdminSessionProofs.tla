------------------------ MODULE AdminSessionProofs ------------------------
(***************************************************************************)
(* Proofs about AdminSession, for any number of pages, passwords, tokens   *)
(* and restarts.                                                           *)
(***************************************************************************)
EXTENDS AdminSession, TLAPS

-----------------------------------------------------------------------------
(* What the steps of main and of a request know of the password.           *)

Boot ==
    /\ main = "set" => newPassword \in IF envPassword = NoPassword
                                       THEN Generated ELSE Passwords
    /\ main = "set" /\ envPassword = NoPassword => password = NoPassword
    /\ main = "print" => /\ password \in Secrets /\ newPassword = password
                         /\ newPassword \in Generated
    /\ main # "up" => \A p \in Pages : pc[p] = "idle"

Typed ==
    /\ \A p \in Pages : pc[p] \in {"verify", "set"} => typed[p] \in Passwords
    /\ \A p \in Pages : pc[p] = "create" => typed[p] \in Secrets

(* Whoever has chosen or read the stored password, or will in a moment.    *)
Findable == \/ password = NoPassword \/ password \in Known
            \/ main = "print" \/ unprinted

(* A login that no change has overtaken is one with the present password.  *)
Uncrossed == \A p \in Pages :
                 pc[p] = "create" /\ p \notin crossed => typed[p] = password

Opened == session # NoToken /\ ~late /\ (\A p \in Pages : pc[p] # "clear")
            => by = password

SessionInv == TypeOK /\ Boot /\ Typed /\ Findable /\ Uncrossed /\ Opened

LEMMA SessionInit == Init => SessionInv
<1> SUFFICES ASSUME Init PROVE SessionInv
    OBVIOUS
<1>1. TypeOK
  <2>1. expired \in BOOLEAN /\ unprinted \in BOOLEAN /\ late \in BOOLEAN
        BY Zenon DEF Init
  <2>2. QED  BY <2>1, RestartsAssumption DEF Init, TypeOK
<1>2. Boot /\ Typed /\ Findable /\ Uncrossed /\ Opened
      BY DEF Init, Boot, Typed, Findable, Uncrossed, Opened
<1>3. QED  BY <1>1, <1>2 DEF SessionInv

(* The steps of main, the restart and the passing of time.                 *)
LEMMA SessionMain ==
    ASSUME SessionInv, BootCheck \/ BootSet \/ BootPrint \/ Restart \/ Expire
    PROVE  SessionInv'
<1> USE DEF SessionInv, row, process, page, history, Secrets
<1>1. CASE BootCheck
  <2>1. UNCHANGED <<row, envPassword, restarts, page, history>>
        BY <1>1 DEF BootCheck
  <2>2. TypeOK'
        BY <1>1, <2>1 DEF BootCheck, TypeOK
  <2>3. Boot'
        BY <1>1, <2>1, PasswordsAssumption DEF BootCheck, Boot, TypeOK
  <2>4. Typed' /\ Uncrossed' /\ Opened'
        BY <2>1 DEF Typed, Uncrossed, Opened
  <2>5. Findable'
        BY <1>1, <2>1 DEF BootCheck, Findable, Known
  <2>6. QED  BY <2>2, <2>3, <2>4, <2>5
<1>2. CASE BootSet
  <2>1. UNCHANGED <<session, expired, envPassword, newPassword, restarts, page,
                    printed, by, crossed>> /\ password' = newPassword
        BY <1>2 DEF BootSet
  <2>2. newPassword \in Secrets
        BY <1>2 DEF BootSet, Boot
  <2>3. TypeOK'
    <3>1. unprinted' \in BOOLEAN /\ late' \in BOOLEAN
          BY <1>2, Zenon DEF BootSet
    <3>2. main' \in {"print", "up"}
          BY <1>2 DEF BootSet
    <3>3. QED  BY <2>1, <2>2, <3>1, <3>2 DEF TypeOK
  <2>4. Boot'
        BY <1>2, <2>1, <2>2 DEF BootSet, Boot
  <2>5. Typed' /\ Uncrossed'
        BY <1>2, <2>1 DEF BootSet, Boot, Typed, Uncrossed
  <2>6. Findable'
        BY <1>2, <2>1 DEF BootSet, Boot, Findable, Known
  <2>7. Opened'
        BY <1>2, <2>1 DEF BootSet, Opened
  <2>8. QED  BY <2>3, <2>4, <2>5, <2>6, <2>7
<1>3. CASE BootPrint
  <2>1. UNCHANGED <<row, envPassword, newPassword, restarts, page,
                    unprinted, by, crossed, late>>
        BY <1>3 DEF BootPrint
  <2>2. main' = "up" /\ printed' = printed \union {newPassword}
        BY <1>3 DEF BootPrint
  <2>3. password \in Generated /\ newPassword = password
        BY <1>3 DEF BootPrint, Boot
  <2>4. TypeOK'
        BY <2>1, <2>2, <2>3 DEF TypeOK
  <2>5. Boot' /\ Typed' /\ Uncrossed' /\ Opened'
        BY <2>1, <2>2 DEF Boot, Typed, Uncrossed, Opened
  <2>6. Findable'
        BY <2>1, <2>2, <2>3 DEF Findable, Known
  <2>7. QED  BY <2>4, <2>5, <2>6
<1>4. CASE Restart
  <2>1. UNCHANGED <<row, cookie, printed, by>> /\ main' = "has" /\ crossed' = {}
        /\ \A p \in Pages : pc'[p] = "idle"
        BY <1>4 DEF Restart
  <2>2. TypeOK'
    <3>1. unprinted' \in BOOLEAN /\ late' \in BOOLEAN
          BY <1>4, Zenon DEF Restart
    <3>2. password' \in Secrets \union {NoPassword}
          BY <2>1 DEF TypeOK
    <3>3. restarts' \in 0 .. MaxRestarts
          BY <1>4, RestartsAssumption DEF Restart, TypeOK
    <3>4. pc' \in [Pages -> {"idle", "create", "logout", "verify", "set", "clear"}]
          /\ typed' \in [Pages -> Secrets \union {NoPassword}]
          /\ newPassword' \in Secrets \union {NoPassword}
          /\ envPassword' \in Passwords \union {NoPassword}
          BY <1>4 DEF Restart
    <3>5. QED  BY <2>1, <3>1, <3>2, <3>3, <3>4 DEF TypeOK
  <2>3. Boot' /\ Typed' /\ Uncrossed'
        BY <2>1 DEF Boot, Typed, Uncrossed
  <2>4. Findable'
        BY <1>4, <2>1 DEF Restart, Findable, Known
  <2>5. Opened'
        BY <1>4, <2>1 DEF Restart, Opened
  <2>6. QED  BY <2>2, <2>3, <2>4, <2>5
<1>5. CASE Expire
  <2>1. UNCHANGED <<password, session, process, page, history>>
        BY <1>5 DEF Expire
  <2>2. expired' \in BOOLEAN
        BY <1>5, Zenon DEF Expire
  <2>3. QED  BY <2>1, <2>2 DEF TypeOK, Boot, Typed, Findable, Known, Uncrossed, Opened
<1>6. QED  BY <1>1, <1>2, <1>3, <1>4, <1>5

(* The steps of a page's request.                                          *)
LEMMA SessionRequest ==
    ASSUME SessionInv, NEW p \in Pages, Request(p)
    PROVE  SessionInv'
<1> USE DEF SessionInv, row, process, page, history, Secrets
<1>0. main = "up" /\ UNCHANGED process
      BY DEF Request, LoginCheck, CreateSession, AskLogout, AskChange, VerifyCurrent,
             SetPassword, ClearSession, Boot
<1>1. CASE LoginCheck(p)
  <2>1. UNCHANGED <<row, process, cookie, history>>
        BY <1>1 DEF LoginCheck
  <2>2. CASE UNCHANGED <<pc, typed>>
        BY <2>1, <2>2 DEF TypeOK, Boot, Typed, Findable, Known, Uncrossed, Opened
  <2>3. CASE /\ password \in Known /\ Goto(p, "create")
             /\ typed' = [typed EXCEPT ![p] = password]
    <3>1. password \in Secrets
          BY <1>0 DEF TypeOK
    <3>2. pc' = [pc EXCEPT ![p] = "create"]
          BY <2>3 DEF Goto
    <3>3. TypeOK'
          BY <2>1, <2>3, <3>1, <3>2 DEF TypeOK
    <3>4. Boot' /\ Findable'
          BY <1>0, <2>1 DEF Boot, Findable, Known
    <3>5. Typed' /\ Uncrossed'
          BY <2>1, <2>3, <3>1, <3>2 DEF Typed, Uncrossed, TypeOK
    <3>6. Opened'
          BY <1>1, <2>1, <3>2 DEF LoginCheck, Opened, TypeOK
    <3>7. QED  BY <3>3, <3>4, <3>5, <3>6
  <2>4. QED  BY <1>1, <2>2, <2>3 DEF LoginCheck
<1>2. CASE CreateSession(p)
  <2>1. /\ pc[p] = "create" /\ pc' = [pc EXCEPT ![p] = "idle"]
        /\ typed' = [typed EXCEPT ![p] = NoPassword]
        /\ crossed' = crossed \ {p}
        /\ UNCHANGED <<password, process, printed, unprinted>>
        BY <1>2 DEF CreateSession, Goto
  <2>2. Boot' /\ Findable'
        BY <1>0, <2>1 DEF Boot, Findable, Known
  <2>3. Typed' /\ Uncrossed'
        BY <2>1 DEF Typed, Uncrossed, TypeOK
  <2>4. CASE UNCHANGED <<session, expired, cookie, by, late>>
    <3>1. TypeOK'
          BY <2>1, <2>4 DEF TypeOK
    <3>2. Opened'
          BY <2>1, <2>4 DEF Opened, TypeOK
    <3>3. QED  BY <2>2, <2>3, <3>1, <3>2
  <2>5. CASE /\ \E t \in Tokens : session' = t /\ cookie' = [cookie EXCEPT ![p] = t]
             /\ expired' = FALSE /\ by' = typed[p] /\ late' = (p \in crossed)
    <3>1. expired' \in BOOLEAN /\ late' \in BOOLEAN
      <4>1. (p \in crossed) \in BOOLEAN
            OBVIOUS
      <4>2. late' = (p \in crossed) /\ expired' = FALSE
            BY <2>5, Zenon
      <4>3. QED  BY <4>1, <4>2, Zenon
    <3>2. TypeOK'
      <4>1. PICK t \in Tokens : session' = t /\ cookie' = [cookie EXCEPT ![p] = t]
            BY <2>5
      <4>2. by' = typed[p] /\ typed[p] \in Secrets
            BY <2>1, <2>5 DEF Typed
      <4>3. crossed' \subseteq Pages
            BY <2>1 DEF TypeOK
      <4>4. QED  BY <2>1, <3>1, <4>1, <4>2, <4>3 DEF TypeOK
    <3>3. Opened'
          BY <2>1, <2>5 DEF Opened, Uncrossed
    <3>4. QED  BY <2>2, <2>3, <3>2, <3>3
  <2>6. QED  BY <1>2, <2>4, <2>5 DEF CreateSession
<1>3. CASE AskLogout(p)
  <2>1. /\ pc[p] = "idle" /\ pc' = [pc EXCEPT ![p] = "logout"]
        /\ UNCHANGED <<row, process, cookie, typed, history>>
        BY <1>3 DEF AskLogout, Goto
  <2>2. TypeOK'
        BY <2>1 DEF TypeOK
  <2>3. Boot' /\ Findable' /\ Typed' /\ Uncrossed' /\ Opened'
        BY <1>0, <2>1 DEF Boot, Findable, Known, Typed, Uncrossed, Opened, TypeOK
  <2>4. QED  BY <2>2, <2>3
<1>4. CASE AskChange(p)
  <2>1. PICK w \in Passwords : typed' = [typed EXCEPT ![p] = w]
        BY <1>4 DEF AskChange
  <2>2. /\ pc[p] = "idle" /\ pc' = [pc EXCEPT ![p] = "verify"]
        /\ UNCHANGED <<row, process, cookie, history>>
        BY <1>4 DEF AskChange, Goto
  <2>3. TypeOK'
        BY <2>1, <2>2 DEF TypeOK
  <2>4. Boot' /\ Findable' /\ Typed' /\ Uncrossed' /\ Opened'
        BY <1>0, <2>1, <2>2 DEF Boot, Findable, Known, Typed, Uncrossed, Opened, TypeOK
  <2>5. QED  BY <2>3, <2>4
<1>5. CASE VerifyCurrent(p)
  <2>1. PICK step \in {"set", "idle"} : pc' = [pc EXCEPT ![p] = step]
        BY <1>5 DEF VerifyCurrent, Goto
  <2>2. pc[p] = "verify" /\ UNCHANGED <<row, process, cookie, typed, history>>
        BY <1>5 DEF VerifyCurrent
  <2>3. TypeOK'
        BY <2>1, <2>2 DEF TypeOK
  <2>4. Boot' /\ Findable' /\ Typed' /\ Uncrossed' /\ Opened'
        BY <1>0, <2>1, <2>2 DEF Boot, Findable, Known, Typed, Uncrossed, Opened, TypeOK
  <2>5. QED  BY <2>3, <2>4
<1>6. CASE SetPassword(p)
  <2>1. /\ pc[p] = "set"
        /\ UNCHANGED <<session, expired, process, cookie, typed,
                       printed, unprinted, by, late>>
        BY <1>6 DEF SetPassword
  <2>2. CASE Goto(p, "idle") /\ UNCHANGED <<password, crossed>>
    <3>1. pc' = [pc EXCEPT ![p] = "idle"]
          BY <2>2 DEF Goto
    <3>2. TypeOK'
          BY <2>1, <2>2, <3>1 DEF TypeOK
    <3>3. Boot' /\ Findable' /\ Typed' /\ Uncrossed' /\ Opened'
          BY <1>0, <2>1, <2>2, <3>1
             DEF Boot, Findable, Known, Typed, Uncrossed, Opened, TypeOK
    <3>4. QED  BY <3>2, <3>3
  <2>3. CASE /\ password' = typed[p] /\ Goto(p, "clear")
             /\ crossed' = crossed \union {q \in Pages : pc[q] = "create"}
    <3>1. pc' = [pc EXCEPT ![p] = "clear"] /\ typed[p] \in Passwords
          BY <2>1, <2>3 DEF Goto, Typed
    <3>2. TypeOK'
          BY <2>1, <2>3, <3>1 DEF TypeOK
    <3>3. Boot' /\ Findable' /\ Typed'
          BY <1>0, <2>1, <2>3, <3>1 DEF Boot, Findable, Known, Typed, TypeOK
    <3>4. Uncrossed'
          BY <2>1, <2>3, <3>1 DEF Uncrossed, TypeOK
    <3>5. Opened'
      <4>1. pc'[p] = "clear"
            BY <3>1 DEF TypeOK
      <4>2. QED  BY <4>1 DEF Opened
    <3>6. QED  BY <3>2, <3>3, <3>4, <3>5
  <2>4. QED  BY <1>6, <2>2, <2>3 DEF SetPassword
<1>7. CASE ClearSession(p)
  <2>1. /\ pc[p] \in {"clear", "logout"} /\ pc' = [pc EXCEPT ![p] = "idle"]
        /\ typed' = [typed EXCEPT ![p] = NoPassword]
        /\ cookie' = [cookie EXCEPT ![p] = NoToken]
        /\ UNCHANGED <<password, process, printed, unprinted, by, crossed>>
        BY <1>7 DEF ClearSession, Goto
  <2>2. expired' \in BOOLEAN /\ late' \in BOOLEAN
        BY <1>7, Zenon DEF ClearSession, TypeOK
  <2>3. session' \in {session, NoToken}
        BY <1>7 DEF ClearSession
  <2>4. TypeOK'
        BY <2>1, <2>2, <2>3 DEF TypeOK
  <2>5. Boot' /\ Findable' /\ Typed' /\ Uncrossed'
        BY <1>0, <2>1 DEF Boot, Findable, Known, Typed, Uncrossed, TypeOK
  <2>6. Opened'
    <3>1. CASE session' = NoToken
          BY <3>1 DEF Opened
    <3>2. CASE late' = (late \/ pc[p] = "clear") /\ session' = session
          BY <2>1, <3>2 DEF Opened, TypeOK
    <3>3. QED  BY <1>7, <3>1, <3>2 DEF ClearSession
  <2>7. QED  BY <2>4, <2>5, <2>6
<1>8. QED  BY <1>1, <1>2, <1>3, <1>4, <1>5, <1>6, <1>7 DEF Request

LEMMA SessionStep == SessionInv /\ [Next]_vars => SessionInv'
<1> SUFFICES ASSUME SessionInv, [Next]_vars PROVE SessionInv'
    OBVIOUS
<1>1. CASE BootCheck \/ BootSet \/ BootPrint \/ Restart \/ Expire
      BY <1>1, SessionMain
<1>2. CASE \E p \in Pages : Request(p)
      BY <1>2, SessionRequest
<1>3. CASE UNCHANGED vars
      BY <1>3 DEF vars, row, process, page, history, SessionInv, TypeOK, Boot,
                  Typed, Findable, Known, Uncrossed, Opened
<1>4. QED  BY <1>1, <1>2, <1>3 DEF Next

LEMMA SessionAlways == Spec => []SessionInv
BY SessionInit, SessionStep, PTL DEF Spec

-----------------------------------------------------------------------------
(* The type invariant, with a password whenever requests are served.       *)
THEOREM TypeCorrect == Spec => []TypeOK
<1>1. SessionInv => TypeOK
      BY DEF SessionInv
<1>2. QED  BY <1>1, SessionAlways, PTL

(* An operator can always log in, unless a crash fell between saving and   *)
(* logging the generated password.                                         *)
THEOREM PasswordFindable == Spec => []OperatorCanLogIn
<1>1. SessionInv => OperatorCanLogIn
  <2> SUFFICES ASSUME SessionInv, main = "up", ~unprinted PROVE password \in Known
      BY DEF OperatorCanLogIn
  <2>1. password # NoPassword
        BY PasswordsAssumption DEF SessionInv, TypeOK, Secrets
  <2>2. QED  BY <2>1 DEF SessionInv, Findable
<1>2. QED  BY <1>1, SessionAlways, PTL

(* A change of the password ends the session opened with the former one,   *)
(* whatever requests of whatever pages are interleaved with it.            *)
THEOREM SessionFollowsPassword == Spec => []SessionOfPassword
<1>1. SessionInv => SessionOfPassword
      BY DEF SessionInv, Opened, SessionOfPassword
<1>2. QED  BY <1>1, SessionAlways, PTL

(* A boot without ADMIN_PASSWORD leaves the stored password alone.         *)
THEOREM StoredPasswordReused == Spec => DatabasePasswordReused
<1>1. SessionInv /\ [Next]_vars =>
        [password # NoPassword /\ main # "up" /\ envPassword = NoPassword
           => password' = password]_vars
  <2> SUFFICES ASSUME SessionInv, Next, password # NoPassword, main # "up",
                      envPassword = NoPassword
               PROVE  password' = password
      BY DEF vars, row
  <2>1. CASE BootCheck \/ BootPrint \/ Restart \/ Expire
        BY <2>1 DEF BootCheck, BootPrint, Restart, Expire, row
  <2>2. CASE BootSet
        BY <2>2 DEF BootSet, SessionInv, Boot
  <2>3. ASSUME NEW p \in Pages, Request(p) PROVE FALSE
        BY <2>3 DEF Request, LoginCheck, CreateSession, AskLogout, AskChange,
                    VerifyCurrent, SetPassword, ClearSession, SessionInv, Boot
  <2>4. QED  BY <2>1, <2>2, <2>3 DEF Next
<1>2. QED  BY <1>1, SessionAlways, PTL DEF Spec, DatabasePasswordReused
=============================================================================
