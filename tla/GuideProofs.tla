---------------------------- MODULE GuideProofs ----------------------------
(***************************************************************************)
(* Proofs about Guide, for any account, directories, callers and changes:  *)
(* types; that a refresh which nothing disturbs writes exactly what it     *)
(* fetched; and that lineup and guide, once they are what the settings and *)
(* the cloud ask for, stay so.                                             *)
(***************************************************************************)
EXTENDS Guide, SequenceTheorems, WellFoundedInduction, TLAPS

(* The channels of a list that the setting ott lets through.               *)
Inc(s, ott) == {c \in ToSet(s) : c \notin Ott \/ ott}

LEMMA HeadOrTail ==
    ASSUME NEW s \in Seq(Channels), s # <<>>
    PROVE  /\ Head(s) \in Channels /\ Tail(s) \in Seq(Channels)
           /\ ToSet(s) = {Head(s)} \union ToSet(Tail(s))
<1>1. /\ Head(s) \in Channels /\ Tail(s) \in Seq(Channels)
      /\ Len(s) \in Nat /\ Len(s) >= 1 /\ Len(Tail(s)) = Len(s) - 1
      /\ \A i \in 1 .. Len(Tail(s)) : Tail(s)[i] = s[i + 1]
      /\ Head(s) = s[1] /\ DOMAIN s = 1 .. Len(s)
      /\ DOMAIN Tail(s) = 1 .. Len(Tail(s))
      BY HeadTailProperties, EmptySeq, LenProperties
<1>2. ASSUME NEW i \in 1 .. Len(s)
      PROVE  s[i] \in {Head(s)} \union ToSet(Tail(s))
  <2>1. CASE i = 1
        BY <1>1, <2>1
  <2>2. CASE i # 1
    <3>1. i - 1 \in 1 .. Len(Tail(s)) /\ (i - 1) + 1 = i
          BY <1>1, <2>2
    <3>2. Tail(s)[i - 1] = s[i]
          BY <1>1, <3>1
    <3>3. QED  BY <1>1, <3>1, <3>2 DEF ToSet
  <2>3. QED  BY <2>1, <2>2
<1>3. ASSUME NEW i \in 1 .. Len(Tail(s))
      PROVE  Tail(s)[i] \in ToSet(s)
  <2>1. i + 1 \in 1 .. Len(s)
        BY <1>1
  <2>2. QED  BY <1>1, <2>1 DEF ToSet
<1>4. Head(s) \in ToSet(s)
  <2>1. 1 \in 1 .. Len(s)
        BY <1>1
  <2>2. QED  BY <1>1, <2>1 DEF ToSet
<1>5. QED  BY <1>1, <1>2, <1>3, <1>4 DEF ToSet

LEMMA NoneLeft == ToSet(<<>>) = {}
BY EmptySeq, LenProperties DEF ToSet

LEMMA IncHeadOrTail ==
    ASSUME NEW s \in Seq(Channels), s # <<>>, NEW ott
    PROVE  IF Head(s) \notin Ott \/ ott
           THEN Inc(s, ott) = {Head(s)} \union Inc(Tail(s), ott)
           ELSE Inc(s, ott) = Inc(Tail(s), ott)
<1>1. ToSet(s) = {Head(s)} \union ToSet(Tail(s))
      BY HeadOrTail
<1> DEFINE h == Head(s)
           t == ToSet(Tail(s))
<1>2. /\ Inc(s, ott) = {c \in {h} \union t : c \notin Ott \/ ott}
      /\ Inc(Tail(s), ott) = {c \in t : c \notin Ott \/ ott}
      BY <1>1, Zenon DEF Inc
<1> HIDE DEF h, t
<1>3. IF h \notin Ott \/ ott
      THEN Inc(s, ott) = {h} \union Inc(Tail(s), ott)
      ELSE Inc(s, ott) = Inc(Tail(s), ott)
      BY <1>2, Zenon
<1>4. QED  BY <1>3 DEF h

(* A lineup.json is a sequence of channels no longer than the account's.   *)
LEMMA ListsAreSeqs ==
    /\ Len(Account) \in Nat /\ Account \in Lists
    /\ Lists = {s \in Seq(Channels) : Len(s) <= Len(Account)}
<1>1. Account \in Seq(Channels) /\ Len(Account) \in Nat
      BY AccountAssumption, LenProperties DEF Channels
<1>2. ASSUME NEW s \in Lists
      PROVE  s \in Seq(Channels) /\ Len(s) <= Len(Account)
  <2>1. PICK m \in 0 .. Len(Account) : s \in [1 .. m -> Channels]
        BY DEF Lists, BoundedSeq, SeqOf
  <2>2. QED  BY <1>1, <2>1
<1>3. ASSUME NEW s \in Seq(Channels), Len(s) <= Len(Account)
      PROVE  s \in Lists
  <2>1. Len(s) \in 0 .. Len(Account) /\ s \in [1 .. Len(s) -> Channels]
        BY <1>1, <1>3, LenProperties
  <2>2. QED  BY <2>1 DEF Lists, BoundedSeq, SeqOf
<1>4. QED  BY <1>1, <1>2, <1>3

LEMMA Appended ==
    ASSUME NEW s \in Seq(Channels), NEW c \in Channels
    PROVE  /\ Append(s, c) \in Seq(Channels) /\ Len(Append(s, c)) = Len(s) + 1
           /\ ToSet(Append(s, c)) = ToSet(s) \union {c}
<1>1. /\ Append(s, c) \in Seq(Channels) /\ Len(Append(s, c)) = Len(s) + 1
      /\ \A i \in 1 .. Len(s) : Append(s, c)[i] = s[i]
      /\ Append(s, c)[Len(s) + 1] = c
      /\ DOMAIN s = 1 .. Len(s) /\ Len(s) \in Nat
      /\ DOMAIN Append(s, c) = 1 .. Len(s) + 1
      BY AppendProperties, LenProperties
<1>2. \A i \in 1 .. Len(s) + 1 : i \in 1 .. Len(s) \/ i = Len(s) + 1
      BY <1>1
<1>3. ToSet(Append(s, c)) \subseteq ToSet(s) \union {c}
      BY <1>1, <1>2 DEF ToSet
<1>4. ToSet(s) \subseteq ToSet(Append(s, c)) /\ c \in ToSet(Append(s, c))
      BY <1>1 DEF ToSet
<1>5. QED  BY <1>1, <1>3, <1>4

(* g is f with a for one more channel.                                     *)
Added(f, c, a, g) ==
    /\ DOMAIN g = DOMAIN f \union {c} /\ g[c] = a
    /\ \A x \in DOMAIN f : x # c => g[x] = f[x]

LEMMA PutGuide ==
    ASSUME NEW f \in Guides, NEW c \in Channels, NEW a \in Airings
    PROVE  Put(f, c, a) \in Guides /\ Added(f, c, a, Put(f, c, a))
<1>1. PICK S \in SUBSET Channels : f \in [S -> Airings]
      BY DEF Guides
<1>2. DOMAIN f = S
      BY <1>1
<1>3. Put(f, c, a) \in [S \union {c} -> Airings]
      BY <1>1, <1>2 DEF Put
<1>4. S \union {c} \in SUBSET Channels
      BY <1>1
<1>5. QED  BY <1>2, <1>3, <1>4 DEF Guides, Put, Added

-----------------------------------------------------------------------------
(* What the filter makes of a list.  Its loop is a recursive function, and *)
(* so first of all must exist.                                             *)
Turn(channels, f, n) ==
    IF n = 0 THEN <<>>
    ELSE IF Included(channels[n]) THEN Append(f[n - 1], channels[n])
    ELSE f[n - 1]

Kept(channels, m, f) == f = [n \in 0 .. m |-> Turn(channels, f, n)]

LEMMA VisibleChosen ==
    ASSUME NEW channels
    PROVE  Visible(channels)
             = (CHOOSE f : Kept(channels, Len(channels), f))[Len(channels)]
BY Zenon DEF Visible, Kept, Turn

(* Were there a least number of turns that no function takes, one turn     *)
(* more than those before it would take them.                              *)
LEMMA KeptExists ==
    ASSUME NEW channels, NEW m \in Nat
    PROVE  \E f : Kept(channels, m, f)
<1> DEFINE Cov(k) == \E f : Kept(channels, k, f)
           Bad    == {k \in Nat : ~Cov(k)}
<1>1. Cov(0)
  <2> DEFINE f == [n \in 0 .. 0 |-> <<>>]
  <2>1. \A n \in 0 .. 0 : Turn(channels, f, n) = <<>>
        BY DEF Turn
  <2>2. Kept(channels, 0, f)
        BY <2>1 DEF Kept
  <2>3. QED  BY <2>2
<1>2. ASSUME NEW k \in Nat, Cov(k)
      PROVE  Cov(k + 1)
  <2>1. PICK f : Kept(channels, k, f)
        BY <1>2
  <2> DEFINE g == [n \in 0 .. k + 1 |-> IF n = k + 1 THEN Turn(channels, f, n) ELSE f[n]]
  <2>2. ASSUME NEW n \in 0 .. k + 1
        PROVE  g[n] = Turn(channels, g, n)
    <3>1. n = 0 \/ (n - 1 \in 0 .. k /\ g[n - 1] = f[n - 1])
          OBVIOUS
    <3>2. Turn(channels, g, n) = Turn(channels, f, n)
          BY <3>1 DEF Turn
    <3>3. n # k + 1 => f[n] = Turn(channels, f, n)
          BY <2>1 DEF Kept
    <3>4. QED  BY <3>2, <3>3
  <2> HIDE DEF g
  <2>3. g = [n \in 0 .. k + 1 |-> g[n]]
        BY DEF g
  <2>4. Kept(channels, k + 1, g)
        BY <2>2, <2>3 DEF Kept
  <2>5. QED  BY <2>4
<1> HIDE DEF Cov
<1>3. Bad = {}
  <2> SUFFICES ASSUME Bad # {} PROVE FALSE
      OBVIOUS
  <2>1. PICK k \in Bad : \A j \in Bad : <<j, k>> \notin OpToRel(<, Nat)
        BY NatLessThanWellFounded, WFMin, Zenon
  <2>2. k \in Nat /\ ~Cov(k) /\ k # 0
        BY <1>1
  <2>3. k - 1 \in Nat /\ k - 1 < k /\ (k - 1) + 1 = k
        BY <2>2
  <2>4. k - 1 \notin Bad
        BY <2>1, <2>2, <2>3, Zenon DEF OpToRel
  <2>5. QED  BY <1>2, <2>2, <2>3, <2>4
<1>4. QED  BY <1>3 DEF Cov

(* The filter keeps of a list exactly the channels the setting lets        *)
(* through, and makes it no longer.                                        *)
LEMMA VisibleKeeps ==
    ASSUME NEW s \in Seq(Channels)
    PROVE  /\ Visible(s) \in Seq(Channels) /\ Len(Visible(s)) <= Len(s)
           /\ ToSet(Visible(s)) = {c \in ToSet(s) : Included(c)}
<1> DEFINE m       == Len(s)
           f       == CHOOSE g : Kept(s, m, g)
           First(n) == {s[j] : j \in 1 .. n}
           Good(n) == /\ f[n] \in Seq(Channels) /\ Len(f[n]) <= n
                      /\ ToSet(f[n]) = {c \in First(n) : Included(c)}
           Bad     == {n \in 0 .. m : ~Good(n)}
<1>1. m \in Nat /\ s \in [1 .. m -> Channels]
      BY LenProperties
<1>2. \A n \in 0 .. m : f[n] = Turn(s, f, n)
  <2>1. Kept(s, m, f)
        BY <1>1, KeptExists, Zenon
  <2>2. QED  BY <2>1, Zenon DEF Kept
<1> HIDE DEF f
<1>3. Good(0)
  <2>1. f[0] = <<>>
        BY <1>1, <1>2 DEF Turn
  <2>2. QED  BY <2>1, NoneLeft, EmptySeq
<1>4. ASSUME NEW n \in 0 .. m, n # 0, Good(n - 1)
      PROVE  Good(n)
  <2>1. n \in 1 .. m /\ n - 1 \in 0 .. m /\ s[n] \in Channels
        BY <1>1, <1>4
  <2>2. First(n) = First(n - 1) \union {s[n]}
        BY <2>1
  <2>3. f[n] = IF Included(s[n]) THEN Append(f[n - 1], s[n]) ELSE f[n - 1]
        BY <1>2, <1>4 DEF Turn
  <2>4. CASE Included(s[n])
    <3>1. f[n] = Append(f[n - 1], s[n]) /\ f[n - 1] \in Seq(Channels)
          BY <1>4, <2>3, <2>4
    <3>2. /\ f[n] \in Seq(Channels) /\ Len(f[n]) = Len(f[n - 1]) + 1
          /\ ToSet(f[n]) = ToSet(f[n - 1]) \union {s[n]}
          BY <2>1, <3>1, Appended
    <3>3. Len(f[n]) <= n
          BY <1>4, <2>1, <3>1, <3>2, LenProperties
    <3>4. ToSet(f[n]) = {c \in First(n) : Included(c)}
          BY <1>4, <2>2, <2>4, <3>2
    <3>5. QED  BY <3>2, <3>3, <3>4
  <2>5. CASE ~Included(s[n])
    <3>1. f[n] = f[n - 1]
          BY <2>3, <2>5
    <3>2. Len(f[n]) <= n
          BY <1>4, <2>1, <3>1, LenProperties
    <3>3. QED  BY <1>4, <2>2, <2>5, <3>1, <3>2
  <2>6. QED  BY <2>4, <2>5
<1> HIDE DEF Good
<1>5. Bad = {}
  <2> SUFFICES ASSUME Bad # {} PROVE FALSE
      OBVIOUS
  <2>1. Bad \subseteq Nat
        BY <1>1
  <2>2. PICK k \in Bad : \A j \in Bad : <<j, k>> \notin OpToRel(<, Nat)
        BY <2>1, NatLessThanWellFounded, WFMin, Zenon
  <2>3. k \in 0 .. m /\ ~Good(k) /\ k # 0
        BY <1>3
  <2>4. k \in Nat /\ k - 1 \in Nat /\ k - 1 \in 0 .. m /\ k - 1 < k
        BY <1>1, <2>3
  <2>5. k - 1 \notin Bad
        BY <2>2, <2>4, Zenon DEF OpToRel
  <2>6. QED  BY <1>4, <2>3, <2>4, <2>5
<1>6. Good(m)
      BY <1>1, <1>5
<1>7. First(m) = ToSet(s)
      BY <1>1 DEF ToSet
<1>8. Visible(s) = f[m]
      BY VisibleChosen, Zenon DEF f
<1>9. QED  BY <1>6, <1>7, <1>8 DEF Good

-----------------------------------------------------------------------------
(* The invariant.                                                          *)
RefreshSteps == {"idle", "dir", "fetch", "day", "build", "write"}
LineupSteps  == {"idle", "made", "file", "parse", "set"}

(* Types, as far as a refresh meets them.                                  *)
Shapes ==
    /\ setup \in Setups /\ outDir \in Dirs /\ edition \in 1 .. MaxEdition
    /\ dayFile \in [Dirs -> [Channels -> Airings \union {Absent, Torn}]]
    /\ guide \in [Dirs -> Guides \union {Absent, Torn}]
    /\ pc \in [Procs -> RefreshSteps \union LineupSteps]
    /\ dir \in [Procs -> Dirs] /\ hand \in [Procs -> Airings]
    /\ text \in [Procs -> Guides] /\ got \in [Procs -> Guides]
    /\ calm \in [Procs -> BOOLEAN]
    /\ DOMAIN list = Procs /\ DOMAIN left = Procs

(* A refresher's lists are lists and its steps are its own.                *)
Own(p) ==
    /\ list[p] \in Seq(Channels) /\ left[p] \in Seq(Channels)
    /\ pc[p] \in RefreshSteps
    /\ pc[p] = "day" => left[p] # <<>>
    /\ pc[p] \in {"idle", "dir"} => got[p] = Nothing
    /\ pc[p] \in {"idle", "dir", "fetch", "day"} => text[p] = Nothing

(* An undisturbed refresh is alone,                                        *)
Sole(p) == calm[p] => \A r \in Refreshers \ {p} : pc[r] = "idle"

(* and what it has fetched, read back and still to visit is at every step  *)
(* what its list asks for; a day file of it that parses holds what it has  *)
(* fetched.                                                                *)
Exact(p) ==
    /\ pc[p] \in {"fetch", "day"} =>
         DOMAIN got[p] \union Inc(left[p], includeOTT) = Inc(list[p], includeOTT)
    /\ pc[p] \in {"fetch", "day", "build"} =>
         /\ dir[p] = outDir
         /\ \A c \in DOMAIN got[p] :
              dayFile[outDir][c] \in Airings => dayFile[outDir][c] = got[p][c]
    /\ pc[p] = "day" => Head(left[p]) \in DOMAIN got[p] /\ got[p][Head(left[p])] = hand[p]
    /\ pc[p] \in {"build", "write"} => DOMAIN got[p] = Inc(list[p], includeOTT)
    /\ pc[p] = "build" =>
         /\ DOMAIN text[p] \union Inc(left[p], includeOTT) = DOMAIN got[p]
         /\ \A c \in DOMAIN text[p] : text[p][c] = got[p][c]
    /\ pc[p] = "write" => text[p] = got[p]

GuideInv ==
    /\ Shapes
    /\ \A p \in Refreshers : Own(p) /\ Sole(p) /\ (calm[p] => Exact(p))

LEMMA Members ==
    /\ Refreshers \subseteq Procs /\ Liners \subseteq Procs
    /\ Refreshers \intersect Liners = {}
    /\ Nothing \in Guides /\ DOMAIN Nothing = {} /\ NoAirings \in Airings
    /\ <<>> \in Seq(Channels) /\ "idle" \in RefreshSteps
BY ProcAssumption, EmptySeq
   DEF Refreshers, Procs, Guides, Nothing, Airings, RefreshSteps

LEMMA InvInit == Init => GuideInv
<1> SUFFICES ASSUME Init PROVE GuideInv
    OBVIOUS
<1>1. setup \in Setups /\ outDir \in Dirs /\ edition = 1
      BY SetupsAssumption DEF Init
<1>2. Shapes
      BY <1>1, Members, EditionAssumption DEF Init, Shapes, RefreshSteps
<1>3. ASSUME NEW p \in Refreshers PROVE Own(p) /\ Sole(p) /\ ~calm[p]
      BY Members DEF Init, Own, Sole, RefreshSteps
<1>4. QED  BY <1>2, <1>3 DEF GuideInv

LEMMA ShapesStep ==
    ASSUME Shapes, \A p \in Refreshers : Own(p), [Next]_vars
    PROVE  Shapes'
<1>1. (CHOOSE d \in Dirs : TRUE) \in Dirs
      BY DEF Shapes
<1>2. setup.dirs \subseteq Dirs
      BY SetupsAssumption DEF Shapes
<1> USE Members DEF Shapes, Goto, settings, network, files, local, history, bounds
<1>3. Shapes'
  <2>1. ASSUME NEW q \in Refreshers, Begin(q)
        PROVE  Shapes'
        BY <2>1 DEF Begin, RefreshSteps
  <2>2. ASSUME NEW q \in Refreshers, TempDir(q)
        PROVE  Shapes'
        BY <2>2, <1>1, <1>2 DEF TempDir, RefreshSteps, LineupSteps
  <2>3. ASSUME NEW q \in Refreshers, Skip(q)
        PROVE  Shapes'
        BY <2>3, <1>1, <1>2 DEF Skip, RefreshSteps, LineupSteps
  <2>4. ASSUME NEW q \in Refreshers, Fetch(q)
        PROVE  Shapes'
    <3> DEFINE c == Head(left[q])
               a == IF Reached(q) THEN edition ELSE NoAirings
    <3>1. c \in Channels /\ a \in Airings
      <4>1. left[q] \in Seq(Channels) /\ left[q] # <<>>
            BY <2>4 DEF Own, Fetch
      <4>2. QED  BY <4>1, HeadOrTail DEF Airings
    <3>2. /\ dayFile' = [dayFile EXCEPT ![dir[q]][c] = Torn]
          /\ hand' = [hand EXCEPT ![q] = a]
          /\ got' = [got EXCEPT ![q] = Put(got[q], c, a)]
          /\ pc' = [pc EXCEPT ![q] = "day"]
          /\ UNCHANGED <<edition, outDir, guide, list, left, dir, text, calm, setup>>
          BY <2>4 DEF Fetch
    <3> HIDE DEF c, a
    <3>3. Put(got[q], c, a) \in Guides
          BY <3>1, PutGuide
    <3>4. QED  BY <3>1, <3>2, <3>3 DEF RefreshSteps
  <2>5. ASSUME NEW q \in Refreshers, WriteDay(q)
        PROVE  Shapes'
    <3> DEFINE c == Head(left[q])
    <3>1. PICK f \in Airings \union {Torn} : dayFile' = [dayFile EXCEPT ![dir[q]][c] = f]
          BY <2>5 DEF WriteDay, Written
    <3> HIDE DEF c
    <3>2. dayFile' \in [Dirs -> [Channels -> Airings \union {Absent, Torn}]]
          BY <3>1
    <3>3. QED  BY <2>5, <3>2 DEF WriteDay, RefreshSteps
  <2>6. ASSUME NEW q \in Refreshers, Fetched(q)
        PROVE  Shapes'
        BY <2>6, <1>1, <1>2 DEF Fetched, RefreshSteps, LineupSteps
  <2>7. ASSUME NEW q \in Refreshers, Build(q)
        PROVE  Shapes'
    <3> DEFINE c == Head(left[q])
               a == dayFile[outDir][c]
    <3>1. CASE /\ a \in Airings /\ text' = [text EXCEPT ![q] = Put(text[q], c, a)]
               /\ left' = [left EXCEPT ![q] = Tail(left[q])]
               /\ UNCHANGED <<pc, list, dir, hand, calm, got>>
      <4>1. c \in Channels
        <5>1. left[q] \in Seq(Channels) /\ left[q] # <<>>
              BY <2>7 DEF Own, Build
        <5>2. QED  BY <5>1, HeadOrTail
      <4>2. UNCHANGED <<edition, outDir, guide, setup, dayFile>>
            BY <2>7 DEF Build
      <4> HIDE DEF c, a
      <4>3. Put(text[q], c, a) \in Guides
            BY <3>1, <4>1, PutGuide
      <4>4. QED  BY <3>1, <4>2, <4>3
    <3>2. CASE Done(q)
          BY <2>7, <1>1, <3>2 DEF Build, Done, RefreshSteps
    <3>3. QED  BY <2>7, <3>1, <3>2 DEF Build
  <2>8. ASSUME NEW q \in Refreshers, Truncate(q)
        PROVE  Shapes'
        BY <2>8, <1>1, <1>2 DEF Truncate, RefreshSteps, LineupSteps
  <2>9. ASSUME NEW q \in Refreshers, Write(q)
        PROVE  Shapes'
        BY <2>9, <1>1, <1>2 DEF Write, Done, Written, RefreshSteps, LineupSteps
  <2>10. ASSUME NEW q \in Procs, Fail(q)
        PROVE  Shapes'
        BY <2>10, <1>1, <1>2 DEF Fail, Change, Done, RefreshSteps, LineupSteps
  <2>11. ASSUME NEW q \in Liners, MakeLineup(q)
        PROVE  Shapes'
        BY <2>11, <1>1, <1>2 DEF MakeLineup, RefreshSteps, LineupSteps
  <2>12. ASSUME NEW q \in Liners, TruncateLineup(q)
        PROVE  Shapes'
        BY <2>12, <1>1, <1>2 DEF TruncateLineup, RefreshSteps, LineupSteps
  <2>13. ASSUME NEW q \in Liners, WriteLineup(q)
        PROVE  Shapes'
        BY <2>13, <1>1, <1>2 DEF WriteLineup, RefreshSteps, LineupSteps
  <2>14. ASSUME NEW q \in Liners, ParseLineup(q)
        PROVE  Shapes'
        BY <2>14, <1>1, <1>2 DEF ParseLineup, RefreshSteps, LineupSteps
  <2>15. ASSUME NEW q \in Liners, SetLineup(q)
        PROVE  Shapes'
        BY <2>15, <1>1, <1>2 DEF SetLineup, Done, RefreshSteps, LineupSteps
  <2>16. ASSUME NEW q \in Liners, LoadLineup(q)
        PROVE  Shapes'
        BY <2>16, <1>1, <1>2 DEF LoadLineup, RefreshSteps, LineupSteps
  <2>17. CASE SetConfig
        BY <2>17, <1>1, <1>2 DEF SetConfig, Change, RefreshSteps, LineupSteps
  <2>18. CASE Publish
        BY <2>18, <1>1, <1>2, EditionAssumption DEF Publish, Change, RefreshSteps, LineupSteps
  <2>19. CASE Outage
        BY <2>19, <1>1, <1>2 DEF Outage, Change, RefreshSteps, LineupSteps
  <2>20. CASE Recover
        BY <2>20, <1>1, <1>2 DEF Recover, RefreshSteps, LineupSteps
  <2>21. CASE Restart
        BY <2>21, <1>1, <1>2 DEF Restart, Change, RefreshSteps, LineupSteps
  <2>22. CASE UNCHANGED vars
        BY <2>22, <1>1, <1>2 DEF vars, RefreshSteps, LineupSteps
  <2>23. CASE EndRequest \/ \E q \in Admins : Leave(q)
        BY <2>23, <1>1, <1>2 DEF EndRequest, Leave, Change, RefreshSteps, LineupSteps
  <2>24. QED
        BY <2>1, <2>2, <2>3, <2>4, <2>5, <2>6, <2>7, <2>8,
           <2>9, <2>10, <2>11, <2>12, <2>13, <2>14, <2>15, <2>16,
           <2>17, <2>18, <2>19, <2>20, <2>21, <2>22, <2>23, Members
        DEF Next, Refresh, Make
<1>4. QED  BY <1>3

LEMMA OwnStep ==
    ASSUME GuideInv, [Next]_vars, NEW p \in Refreshers
    PROVE  Own(p)' /\ Sole(p)'
<1>1. /\ Shapes /\ p \in Procs /\ p \notin Liners
      /\ \A r \in Refreshers : Own(r) /\ Sole(r) /\ r \in Procs /\ r \notin Liners
      BY Members DEF GuideInv
<1> USE DEF Goto, settings, network, files, local, history, bounds
<1>2. Own(p)'
  <2>1. ASSUME NEW q \in Refreshers, Begin(q)
        PROVE  Own(p)'
    <3>1. lineupFile[outDir] \in Seq(Channels)
          BY <2>1, ListsAreSeqs DEF Begin
    <3>2. QED  BY <2>1, <1>1, <3>1 DEF Begin, Own, Shapes, RefreshSteps
  <2>2. ASSUME NEW q \in Refreshers, TempDir(q)
        PROVE  Own(p)'
        BY <2>2, <1>1 DEF TempDir, Own, Shapes, RefreshSteps
  <2>3. ASSUME NEW q \in Refreshers, Skip(q)
        PROVE  Own(p)'
    <3>1. Tail(left[q]) \in Seq(Channels)
          BY <2>3, <1>1, HeadOrTail DEF Skip, Own
    <3>2. QED  BY <2>3, <1>1, <3>1 DEF Skip, Own, Shapes, RefreshSteps
  <2>4. ASSUME NEW q \in Refreshers, Fetch(q)
        PROVE  Own(p)'
        BY <2>4, <1>1 DEF Fetch, Own, Shapes, RefreshSteps
  <2>5. ASSUME NEW q \in Refreshers, WriteDay(q)
        PROVE  Own(p)'
    <3>1. Tail(left[q]) \in Seq(Channels)
          BY <2>5, <1>1, HeadOrTail DEF WriteDay, Own
    <3>2. QED  BY <2>5, <1>1, <3>1 DEF WriteDay, Own, Shapes, RefreshSteps
  <2>6. ASSUME NEW q \in Refreshers, Fetched(q)
        PROVE  Own(p)'
        BY <2>6, <1>1 DEF Fetched, Own, Shapes, RefreshSteps
  <2>7. ASSUME NEW q \in Refreshers, Build(q)
        PROVE  Own(p)'
    <3>1. Tail(left[q]) \in Seq(Channels)
          BY <2>7, <1>1, HeadOrTail DEF Build, Own
    <3>2. CASE Done(q)
          BY <2>7, <1>1, <3>2, Members DEF Build, Done, Own, Shapes, RefreshSteps
    <3>3. CASE ~Done(q)
      <4>1. /\ left' = [left EXCEPT ![q] = Tail(left[q])]
            /\ pc[q] = "build" /\ UNCHANGED <<pc, list, got>>
            /\ \E new : text' = [text EXCEPT ![q] = new]
            BY <2>7, <3>3, Zenon DEF Build
      <4>2. QED  BY <1>1, <3>1, <4>1 DEF Own, Shapes
    <3>4. QED  BY <3>2, <3>3
  <2>8. ASSUME NEW q \in Refreshers, Truncate(q)
        PROVE  Own(p)'
        BY <2>8, <1>1 DEF Truncate, Own, Shapes, RefreshSteps
  <2>9. ASSUME NEW q \in Refreshers, Write(q)
        PROVE  Own(p)'
        BY <2>9, <1>1, Members DEF Write, Done, Own, Shapes, RefreshSteps
  <2>10. ASSUME NEW q \in Procs, Fail(q)
        PROVE  Own(p)'
        BY <2>10, <1>1, Members DEF Fail, Change, Done, Own, Shapes, RefreshSteps
  <2>11. ASSUME NEW q \in Liners, MakeLineup(q)
        PROVE  Own(p)'
        BY <2>11, <1>1 DEF MakeLineup, Own, Shapes, RefreshSteps
  <2>12. ASSUME NEW q \in Liners, TruncateLineup(q)
        PROVE  Own(p)'
        BY <2>12, <1>1 DEF TruncateLineup, Own, Shapes, RefreshSteps
  <2>13. ASSUME NEW q \in Liners, WriteLineup(q)
        PROVE  Own(p)'
        BY <2>13, <1>1 DEF WriteLineup, Own, Shapes, RefreshSteps
  <2>14. ASSUME NEW q \in Liners, ParseLineup(q)
        PROVE  Own(p)'
        BY <2>14, <1>1 DEF ParseLineup, Own, Shapes, RefreshSteps
  <2>15. ASSUME NEW q \in Liners, SetLineup(q)
        PROVE  Own(p)'
        BY <2>15, <1>1, Members DEF SetLineup, Done, Own, Shapes, RefreshSteps
  <2>16. ASSUME NEW q \in Liners, LoadLineup(q)
        PROVE  Own(p)'
        BY <2>16, <1>1 DEF LoadLineup, Own, Shapes, RefreshSteps
  <2>17. CASE SetConfig
        BY <2>17, <1>1 DEF SetConfig, Change, Own, Shapes, RefreshSteps
  <2>18. CASE Publish
        BY <2>18, <1>1 DEF Publish, Change, Own, Shapes, RefreshSteps
  <2>19. CASE Outage
        BY <2>19, <1>1 DEF Outage, Change, Own, Shapes, RefreshSteps
  <2>20. CASE Recover
        BY <2>20, <1>1 DEF Recover, Own, Shapes, RefreshSteps
  <2>21. CASE Restart
        BY <2>21, <1>1, Members DEF Restart, Change, Own, Shapes, RefreshSteps
  <2>22. CASE UNCHANGED vars
        BY <2>22, <1>1 DEF vars, Own, Shapes, RefreshSteps
  <2>23. CASE EndRequest \/ \E q \in Admins : Leave(q)
        BY <2>23, <1>1 DEF EndRequest, Leave, Change, Own, Shapes, RefreshSteps
  <2>24. QED
        BY <2>1, <2>2, <2>3, <2>4, <2>5, <2>6, <2>7, <2>8,
           <2>9, <2>10, <2>11, <2>12, <2>13, <2>14, <2>15, <2>16,
           <2>17, <2>18, <2>19, <2>20, <2>21, <2>22, <2>23, Members
        DEF Next, Refresh, Make
<1>3. Sole(p)'
  <2>1. ASSUME NEW q \in Refreshers, Begin(q)
        PROVE  Sole(p)'
        BY <2>1, <1>1 DEF Begin, Own, Sole, Shapes, RefreshSteps
  <2>2. ASSUME NEW q \in Refreshers, TempDir(q)
        PROVE  Sole(p)'
        BY <2>2, <1>1 DEF TempDir, Own, Sole, Shapes, RefreshSteps
  <2>3. ASSUME NEW q \in Refreshers, Skip(q)
        PROVE  Sole(p)'
        BY <2>3, <1>1 DEF Skip, Own, Sole, Shapes, RefreshSteps
  <2>4. ASSUME NEW q \in Refreshers, Fetch(q)
        PROVE  Sole(p)'
        BY <2>4, <1>1 DEF Fetch, Own, Sole, Shapes, RefreshSteps
  <2>5. ASSUME NEW q \in Refreshers, WriteDay(q)
        PROVE  Sole(p)'
        BY <2>5, <1>1 DEF WriteDay, Own, Sole, Shapes, RefreshSteps
  <2>6. ASSUME NEW q \in Refreshers, Fetched(q)
        PROVE  Sole(p)'
        BY <2>6, <1>1 DEF Fetched, Own, Sole, Shapes, RefreshSteps
  <2>7. ASSUME NEW q \in Refreshers, Build(q)
        PROVE  Sole(p)'
        BY <2>7, <1>1 DEF Build, Done, Own, Sole, Shapes, RefreshSteps
  <2>8. ASSUME NEW q \in Refreshers, Truncate(q)
        PROVE  Sole(p)'
        BY <2>8, <1>1 DEF Truncate, Own, Sole, Shapes, RefreshSteps
  <2>9. ASSUME NEW q \in Refreshers, Write(q)
        PROVE  Sole(p)'
        BY <2>9, <1>1 DEF Write, Done, Own, Sole, Shapes, RefreshSteps
  <2>10. ASSUME NEW q \in Procs, Fail(q)
        PROVE  Sole(p)'
        BY <2>10, <1>1 DEF Fail, Change, Done, Own, Sole, Shapes, RefreshSteps
  <2>11. ASSUME NEW q \in Liners, MakeLineup(q)
        PROVE  Sole(p)'
        BY <2>11, <1>1 DEF MakeLineup, Own, Sole, Shapes, RefreshSteps
  <2>12. ASSUME NEW q \in Liners, TruncateLineup(q)
        PROVE  Sole(p)'
        BY <2>12, <1>1 DEF TruncateLineup, Own, Sole, Shapes, RefreshSteps
  <2>13. ASSUME NEW q \in Liners, WriteLineup(q)
        PROVE  Sole(p)'
        BY <2>13, <1>1 DEF WriteLineup, Own, Sole, Shapes, RefreshSteps
  <2>14. ASSUME NEW q \in Liners, ParseLineup(q)
        PROVE  Sole(p)'
        BY <2>14, <1>1 DEF ParseLineup, Own, Sole, Shapes, RefreshSteps
  <2>15. ASSUME NEW q \in Liners, SetLineup(q)
        PROVE  Sole(p)'
        BY <2>15, <1>1 DEF SetLineup, Done, Own, Sole, Shapes, RefreshSteps
  <2>16. ASSUME NEW q \in Liners, LoadLineup(q)
        PROVE  Sole(p)'
        BY <2>16, <1>1 DEF LoadLineup, Own, Sole, Shapes, RefreshSteps
  <2>17. CASE SetConfig
        BY <2>17, <1>1 DEF SetConfig, Change, Own, Sole, Shapes, RefreshSteps
  <2>18. CASE Publish
        BY <2>18, <1>1 DEF Publish, Change, Own, Sole, Shapes, RefreshSteps
  <2>19. CASE Outage
        BY <2>19, <1>1 DEF Outage, Change, Own, Sole, Shapes, RefreshSteps
  <2>20. CASE Recover
        BY <2>20, <1>1 DEF Recover, Own, Sole, Shapes, RefreshSteps
  <2>21. CASE Restart
        BY <2>21, <1>1 DEF Restart, Change, Own, Sole, Shapes, RefreshSteps
  <2>22. CASE UNCHANGED vars
        BY <2>22, <1>1 DEF vars, Own, Sole, Shapes, RefreshSteps
  <2>23. CASE EndRequest \/ \E q \in Admins : Leave(q)
        BY <2>23, <1>1 DEF EndRequest, Leave, Change, Own, Sole, Shapes, RefreshSteps
  <2>24. QED
        BY <2>1, <2>2, <2>3, <2>4, <2>5, <2>6, <2>7, <2>8,
           <2>9, <2>10, <2>11, <2>12, <2>13, <2>14, <2>15, <2>16,
           <2>17, <2>18, <2>19, <2>20, <2>21, <2>22, <2>23, Members
        DEF Next, Refresh, Make
<1>4. QED  BY <1>2, <1>3

(* What a refresh has in hand, and the settings and files it works with.   *)
View(p) == <<pc[p], list[p], left[p], dir[p], hand[p], text[p], got[p],
             includeOTT, outDir, dayFile>>

LEMMA ExactKept ==
    ASSUME NEW p, Exact(p), UNCHANGED View(p)
    PROVE  Exact(p)'
<1>1. /\ pc'[p] = pc[p] /\ list'[p] = list[p] /\ left'[p] = left[p]
      /\ dir'[p] = dir[p] /\ hand'[p] = hand[p] /\ text'[p] = text[p]
      /\ got'[p] = got[p] /\ includeOTT' = includeOTT /\ outDir' = outDir
      /\ dayFile' = dayFile
      BY DEF View
<1>2. QED  BY <1>1 DEF Exact

LEMMA ExactStep ==
    ASSUME GuideInv, [Next]_vars, NEW p \in Refreshers, calm'[p]
    PROVE  Exact(p)'
<1>1. /\ Shapes /\ Own(p) /\ Sole(p) /\ (calm[p] => Exact(p))
      /\ p \in Procs /\ p \notin Liners
      BY Members DEF GuideInv
<1>2. dir[p] \in Dirs /\ outDir \in Dirs /\ got[p] \in Guides /\ text[p] \in Guides
      /\ hand[p] \in Airings /\ list[p] \in Seq(Channels) /\ left[p] \in Seq(Channels)
      BY <1>1 DEF Shapes, Own
<1> USE DEF Goto, settings, network, files, local, history, bounds
<1>3. ASSUME NEW q \in Refreshers, Begin(q)
      PROVE  Exact(p)'
  <2>1. q = p
        BY <1>1, <1>3 DEF Begin, Shapes
  <2>2. pc'[p] = "dir"
        BY <1>1, <1>3, <2>1 DEF Begin, Shapes
  <2>3. QED  BY <2>2 DEF Exact
<1>4. ASSUME NEW q \in Refreshers, TempDir(q)
      PROVE  Exact(p)'
  <2>1. q = p
        BY <1>1, <1>4 DEF TempDir, Sole
  <2>2. /\ dir'[p] = outDir /\ left'[p] = list[p] /\ pc'[p] = "fetch"
        /\ got'[p] = Nothing /\ list'[p] = list[p]
        /\ UNCHANGED <<outDir, includeOTT, dayFile>>
        BY <1>1, <1>4, <2>1 DEF TempDir, Own, Shapes
  <2>3. QED  BY <2>2, Members DEF Exact
<1>5. ASSUME NEW q \in Refreshers, Skip(q)
      PROVE  Exact(p)'
  <2>1. q = p /\ Exact(p)
        BY <1>1, <1>5 DEF Skip, Sole
  <2>2. /\ left[p] # <<>> /\ pc[p] \in {"fetch", "build"}
        /\ ~(Head(left[p]) \notin Ott \/ includeOTT)
        /\ left'[p] = Tail(left[p])
        /\ pc'[p] = pc[p] /\ list'[p] = list[p] /\ dir'[p] = dir[p]
        /\ text'[p] = text[p] /\ got'[p] = got[p]
        /\ UNCHANGED <<outDir, includeOTT, dayFile>>
        BY <1>1, <1>5, <2>1 DEF Skip, Included, Shapes
  <2>3. Inc(left'[p], includeOTT) = Inc(left[p], includeOTT)
        BY <1>2, <2>2, IncHeadOrTail
  <2>4. QED  BY <2>1, <2>2, <2>3 DEF Exact
<1>6. ASSUME NEW q \in Refreshers, Fetch(q)
      PROVE  Exact(p)'
  <2>1. q = p /\ Exact(p) /\ pc[p] = "fetch"
        BY <1>1, <1>6 DEF Fetch, Sole
  <2> DEFINE c == Head(left[p])
             a == IF Reached(q) THEN edition ELSE NoAirings
  <2>2. /\ left[p] # <<>> /\ (c \notin Ott \/ includeOTT)
        /\ dayFile' = [dayFile EXCEPT ![dir[p]][c] = Torn]
        /\ hand'[p] = a /\ got'[p] = Put(got[p], c, a)
        /\ pc'[p] = "day" /\ left'[p] = left[p] /\ list'[p] = list[p]
        /\ dir'[p] = dir[p] /\ text'[p] = text[p]
        /\ UNCHANGED <<outDir, includeOTT>>
        BY <1>1, <1>6, <2>1 DEF Fetch, Included, Shapes
  <2>3. c \in Channels /\ a \in Airings
        BY <1>1, <1>2, <2>2, HeadOrTail DEF Airings, Shapes
  <2>4. c \in Inc(left[p], includeOTT)
        BY <1>2, <2>2, IncHeadOrTail
  <2>5. Head(left'[p]) = c
        BY <2>2
  <2> HIDE DEF c, a
  <2> DEFINE g == Put(got[p], c, a)
  <2>6. /\ DOMAIN got'[p] = DOMAIN got[p] \union {c} /\ got'[p][c] = a
        /\ \A x \in DOMAIN got[p] : x # c => got'[p][x] = got[p][x]
    <3>1. /\ DOMAIN g = DOMAIN got[p] \union {c} /\ g[c] = a
          /\ \A x \in DOMAIN got[p] : x # c => g[x] = got[p][x]
      <4>1. got[p] \in Guides /\ c \in Channels /\ a \in Airings
            BY <1>2, <2>3
      <4>2. Added(got[p], c, a, g)
            BY <4>1, PutGuide
      <4>3. QED
            BY <4>2 DEF Added
    <3>2. got'[p] = g
          BY <2>2
    <3>3. QED
          BY <3>1, <3>2, Zenon
  <2> HIDE DEF g
  <2>7. DOMAIN got[p] \subseteq Channels
        BY <1>2 DEF Guides
  <2>8. /\ dayFile'[outDir][c] = Torn
        /\ \A x \in Channels : x # c => dayFile'[outDir][x] = dayFile[outDir][x]
        /\ dir[p] = outDir
        BY <1>1, <1>2, <2>1, <2>2, <2>3 DEF Exact, Shapes
  <2>9. \A x \in DOMAIN got'[p] :
           dayFile'[outDir][x] \in Airings => dayFile'[outDir][x] = got'[p][x]
        BY <2>1, <2>6, <2>7, <2>8, TornAssumption DEF Exact
  <2>10. DOMAIN got'[p] \union Inc(left[p], includeOTT) = Inc(list[p], includeOTT)
        BY <2>1, <2>4, <2>6 DEF Exact
  <2>11. QED  BY <2>2, <2>5, <2>6, <2>8, <2>9, <2>10 DEF Exact
<1>7. ASSUME NEW q \in Refreshers, WriteDay(q)
      PROVE  Exact(p)'
  <2>1. q = p /\ Exact(p) /\ pc[p] = "day"
        BY <1>1, <1>7 DEF WriteDay, Sole
  <2> DEFINE c == Head(left[p])
  <2>2. /\ left'[p] = Tail(left[p]) /\ pc'[p] = "fetch"
        /\ list'[p] = list[p] /\ got'[p] = got[p] /\ dir'[p] = dir[p]
        /\ UNCHANGED <<outDir, includeOTT>>
        BY <1>1, <1>7, <2>1 DEF WriteDay, Shapes
  <2>3. PICK f \in {hand[p], Torn} : dayFile' = [dayFile EXCEPT ![dir[p]][c] = f]
        BY <1>7, <2>1 DEF WriteDay, Written
  <2>4. /\ left[p] # <<>> /\ c \in DOMAIN got[p] /\ got[p][c] = hand[p]
        /\ dir[p] = outDir
        /\ DOMAIN got[p] \union Inc(left[p], includeOTT) = Inc(list[p], includeOTT)
        BY <1>1, <2>1 DEF Own, Exact
  <2>5. /\ Inc(left[p], includeOTT) \subseteq {c} \union Inc(left'[p], includeOTT)
        /\ Inc(left'[p], includeOTT) \subseteq Inc(left[p], includeOTT)
        BY <1>2, <2>2, <2>4, IncHeadOrTail
  <2> HIDE DEF c
  <2>6. DOMAIN got[p] \subseteq Channels
        BY <1>2 DEF Guides
  <2>7. /\ dayFile'[outDir][c] \in {got[p][c], Torn}
        /\ \A x \in Channels : x # c => dayFile'[outDir][x] = dayFile[outDir][x]
        BY <1>1, <1>2, <2>3, <2>4, <2>6 DEF Shapes
  <2>8. \A x \in DOMAIN got[p] :
           dayFile'[outDir][x] \in Airings => dayFile'[outDir][x] = got[p][x]
        BY <2>1, <2>6, <2>7, TornAssumption DEF Exact
  <2>9. DOMAIN got[p] \union Inc(left'[p], includeOTT) = Inc(list[p], includeOTT)
        BY <2>4, <2>5
  <2>10. QED  BY <2>2, <2>4, <2>8, <2>9 DEF Exact
<1>8. ASSUME NEW q \in Refreshers, Fetched(q)
      PROVE  Exact(p)'
  <2>1. q = p /\ Exact(p) /\ pc[p] = "fetch" /\ left[p] = <<>>
        BY <1>1, <1>8 DEF Fetched, Sole
  <2>2. /\ left'[p] = list[p] /\ pc'[p] = "build" /\ list'[p] = list[p]
        /\ got'[p] = got[p] /\ text'[p] = text[p] /\ dir'[p] = dir[p]
        /\ UNCHANGED <<outDir, includeOTT, dayFile>>
        BY <1>1, <1>8, <2>1 DEF Fetched, Shapes
  <2>3. Inc(left[p], includeOTT) = {}
        BY <2>1, NoneLeft DEF Inc
  <2>4. DOMAIN text[p] = {}
        BY <1>1, <2>1, Members DEF Own
  <2>5. QED  BY <2>1, <2>2, <2>3, <2>4 DEF Exact
<1>9. ASSUME NEW q \in Refreshers, Build(q)
      PROVE  Exact(p)'
  <2>1. q = p /\ Exact(p) /\ pc[p] = "build" /\ left[p] # <<>>
    <3>1. calm[p]
          BY <1>1, <1>9 DEF Build, Done, Shapes
    <3>2. pc[q] = "build" /\ left[q] # <<>>
          BY <1>9 DEF Build
    <3>3. QED
          BY <1>1, <3>1, <3>2 DEF Sole
  <2> DEFINE c == Head(left[p])
             a == dayFile[outDir][c]
  <2>2. ~Done(q)
        BY <1>1, <2>1 DEF Done, Shapes
  <2>3. /\ a \in Airings /\ (c \notin Ott \/ includeOTT)
        /\ text'[p] = Put(text[p], c, a) /\ left'[p] = Tail(left[p])
        /\ pc'[p] = "build" /\ list'[p] = list[p] /\ dir'[p] = dir[p]
        /\ got'[p] = got[p]
        /\ UNCHANGED <<outDir, includeOTT, dayFile>>
        BY <1>1, <1>9, <2>1, <2>2 DEF Build, Included, Shapes
  <2>4. c \in Channels /\ Inc(left[p], includeOTT) = {c} \union Inc(left'[p], includeOTT)
        BY <1>2, <2>1, <2>3, HeadOrTail, IncHeadOrTail
  <2>5. c \in DOMAIN got[p]
        BY <2>1, <2>4 DEF Exact
  <2>6. a = got[p][c]
        BY <2>1, <2>3, <2>5 DEF Exact
  <2> HIDE DEF c, a
  <2> DEFINE g == Put(text[p], c, a)
  <2>7. /\ DOMAIN text'[p] = DOMAIN text[p] \union {c} /\ text'[p][c] = a
        /\ \A x \in DOMAIN text[p] : x # c => text'[p][x] = text[p][x]
    <3>1. /\ DOMAIN g = DOMAIN text[p] \union {c} /\ g[c] = a
          /\ \A x \in DOMAIN text[p] : x # c => g[x] = text[p][x]
          BY <1>2, <2>3, <2>4, PutGuide DEF Added
    <3>2. text'[p] = g
          BY <2>3
    <3>3. QED
          BY <3>1, <3>2, Zenon
  <2> HIDE DEF g
  <2>8. DOMAIN text'[p] \union Inc(left'[p], includeOTT) = DOMAIN got[p]
        BY <2>1, <2>4, <2>5, <2>7 DEF Exact
  <2>9. \A x \in DOMAIN text'[p] : text'[p][x] = got[p][x]
        BY <2>1, <2>6, <2>7 DEF Exact
  <2>10. QED  BY <2>1, <2>3, <2>8, <2>9 DEF Exact
<1>10. ASSUME NEW q \in Refreshers, Truncate(q)
       PROVE  Exact(p)'
  <2>1. q = p /\ Exact(p) /\ pc[p] = "build" /\ left[p] = <<>>
        BY <1>1, <1>10 DEF Truncate, Sole
  <2>2. /\ pc'[p] = "write" /\ list'[p] = list[p] /\ got'[p] = got[p]
        /\ text'[p] = text[p] /\ UNCHANGED <<includeOTT>>
        BY <1>1, <1>10, <2>1 DEF Truncate, Shapes
  <2>3. Inc(left[p], includeOTT) = {}
        BY <2>1, NoneLeft DEF Inc
  <2>4. DOMAIN text[p] = DOMAIN got[p] /\ \A x \in DOMAIN text[p] : text[p][x] = got[p][x]
        BY <2>1, <2>3 DEF Exact
  <2>5. text[p] = got[p]
        BY <1>2, <2>4 DEF Guides
  <2>6. QED  BY <2>1, <2>2, <2>5 DEF Exact
<1>11. ASSUME NEW q \in Refreshers, Write(q)
       PROVE  FALSE
  <2>1. q = p
        BY <1>1, <1>11 DEF Write, Done, Sole, Shapes
  <2>2. QED  BY <1>1, <1>11, <2>1 DEF Write, Done, Shapes
<1>12. ASSUME NEW q \in Refreshers, Fail(q)
       PROVE  FALSE
  <2>1. q = p
        BY <1>1, <1>12 DEF Fail, Done, Sole, Shapes
  <2>2. QED  BY <1>1, <1>12, <2>1 DEF Fail, Done, Shapes
<1>13. ASSUME NEW q \in Liners, MakeLineup(q) \/ LoadLineup(q) \/ Make(q) \/ Fail(q)
       PROVE  Exact(p)'
  <2>1. q # p /\ q \in Procs
        BY <1>1, Members
  <2>2. calm[p] = calm'[p] /\ UNCHANGED View(p)
    <3>1. CASE MakeLineup(q)
          BY <1>1, <2>1, <3>1 DEF MakeLineup, View, Shapes
    <3>2. CASE TruncateLineup(q)
          BY <1>1, <2>1, <3>2 DEF TruncateLineup, View, Shapes
    <3>3. CASE WriteLineup(q)
          BY <1>1, <2>1, <3>3 DEF WriteLineup, View, Shapes
    <3>4. CASE ParseLineup(q)
          BY <1>1, <2>1, <3>4 DEF ParseLineup, View, Shapes
    <3>5. CASE SetLineup(q)
          BY <1>1, <2>1, <3>5 DEF SetLineup, Done, View, Shapes
    <3>6. CASE Fail(q)
          BY <1>1, <2>1, <3>6 DEF Fail, Done, Change, View, Shapes
    <3>7. CASE LoadLineup(q)
          BY <1>1, <2>1, <3>7 DEF LoadLineup, View, Shapes
    <3>8. QED  BY <1>13, <3>1, <3>2, <3>3, <3>4, <3>5, <3>6, <3>7 DEF Make
  <2>3. QED  BY <1>1, <2>2, ExactKept
<1>14. CASE \/ Publish \/ Outage \/ Recover \/ EndRequest \/ UNCHANGED vars
             \/ \E q \in Admins : Leave(q)
  <2>1. calm[p] = calm'[p] /\ UNCHANGED View(p)
        BY <1>14 DEF Publish, Outage, Recover, EndRequest, Leave, Change, vars, View
  <2>2. QED  BY <1>1, <2>1, ExactKept
<1>15. CASE SetConfig \/ Restart
      BY <1>1, <1>15 DEF SetConfig, Restart
<1>16. QED
  <2>1. ASSUME NEW q \in Refreshers, Begin(q) \/ Refresh(q) \/ Fail(q)
        PROVE  Exact(p)'
        BY <1>3, <1>4, <1>5, <1>6, <1>7, <1>8, <1>9, <1>10, <1>11, <1>12, <2>1 DEF Refresh
  <2>2. QED  BY <1>13, <1>14, <1>15, <2>1 DEF Next

LEMMA InvStep == GuideInv /\ [Next]_vars => GuideInv'
<1> SUFFICES ASSUME GuideInv, [Next]_vars PROVE GuideInv'
    OBVIOUS
<1>1. Shapes'
      BY ShapesStep DEF GuideInv
<1>2. ASSUME NEW p \in Refreshers
      PROVE  Own(p)' /\ Sole(p)' /\ (calm'[p] => Exact(p)')
      BY OwnStep, ExactStep
<1>3. QED  BY <1>1, <1>2 DEF GuideInv

-----------------------------------------------------------------------------
(* The types of what the lineup keeps.                                     *)
Lineups ==
    /\ includeOTT \in BOOLEAN /\ up \in BOOLEAN /\ changes \in 0 .. setup.changes
    /\ lineupFile \in [Dirs -> Lists \union {Absent, Torn}]
    /\ lineup \subseteq Channels /\ cancelled \subseteq Refreshers \union {LineupLoop}
    /\ list \in [Procs -> Lists]
    /\ \A l \in Liners : left[l] = <<>>

LEMMA VisibleType == \A s \in Lists : Visible(s) \in Lists
<1> SUFFICES ASSUME NEW s \in Lists PROVE Visible(s) \in Lists
    OBVIOUS
<1>1. /\ s \in Seq(Channels) /\ Len(s) <= Len(Account) /\ Len(Account) \in Nat
      BY ListsAreSeqs
<1>2. Visible(s) \in Seq(Channels) /\ Len(Visible(s)) <= Len(s)
      BY <1>1, VisibleKeeps
<1>3. Len(s) \in Nat /\ Len(Visible(s)) \in Nat
      BY <1>1, <1>2, LenProperties
<1>4. QED  BY <1>1, <1>2, <1>3, ListsAreSeqs

LEMMA ListMembers == \A s \in Lists : ToSet(s) \subseteq Channels
BY ListsAreSeqs, LenProperties DEF ToSet

LEMMA EmptyList == <<>> \in Lists
BY ListsAreSeqs, EmptySeq, LenProperties

LEMMA LineupsInit == Init => Lineups
<1> SUFFICES ASSUME Init PROVE Lineups
    OBVIOUS
<1>1. includeOTT \in BOOLEAN /\ up \in BOOLEAN
      BY Zenon DEF Init
<1>2. setup.changes \in Nat
      BY SetupsAssumption DEF Init
<1>3. QED  BY <1>1, <1>2, EmptyList, Members DEF Init, Lineups

LEMMA LineupsStep ==
    ASSUME GuideInv, Lineups, [Next]_vars
    PROVE  Lineups'
<1>1. /\ Shapes /\ setup.dirs \subseteq Dirs /\ setup.changes \in Nat
      /\ outDir \in Dirs /\ dir \in [Procs -> Dirs]
      /\ \A p \in Refreshers : p \in Procs /\ p \notin Liners
      /\ \A l \in Liners : l \in Procs
      BY SetupsAssumption, Members DEF GuideInv, Shapes
<1> USE DEF Goto, settings, network, files, local, history, bounds, Lineups
<1>2. ASSUME NEW p \in Refreshers, Begin(p)
      PROVE  Lineups'
      BY <1>1, <1>2 DEF Begin
<1>3. ASSUME NEW p \in Refreshers, Refresh(p)
      PROVE  Lineups'
  <2>1. /\ UNCHANGED <<includeOTT, up, changes, setup, lineupFile, lineup>>
        /\ cancelled' \subseteq cancelled
        /\ \/ list' = list
           \/ list' = [list EXCEPT ![p] = <<>>]
        /\ \A l \in Liners : left'[l] = left[l]
    <3>1. CASE TempDir(p)
          BY <1>1, <3>1 DEF TempDir
    <3>2. CASE Skip(p)
          BY <1>1, <3>2 DEF Skip
    <3>3. CASE Fetch(p)
          BY <1>1, <3>3 DEF Fetch
    <3>4. CASE WriteDay(p)
          BY <1>1, <3>4 DEF WriteDay
    <3>5. CASE Fetched(p)
          BY <1>1, <3>5 DEF Fetched
    <3>6. CASE Build(p)
      <4>1. UNCHANGED <<includeOTT, up, changes, setup, lineupFile, lineup>>
            BY <3>6 DEF Build
      <4>2. CASE Done(p)
            BY <1>1, <4>1, <4>2 DEF Done
      <4>3. CASE ~Done(p)
        <5>1. list' = list /\ cancelled' = cancelled /\ \E new : left' = [left EXCEPT ![p] = new]
              BY <3>6, <4>3, Zenon DEF Build
        <5>2. QED  BY <1>1, <4>1, <5>1
      <4>4. QED  BY <4>2, <4>3
    <3>7. CASE Truncate(p)
          BY <1>1, <3>7 DEF Truncate
    <3>8. CASE Write(p)
          BY <1>1, <3>8 DEF Write, Done
    <3>9. QED
          BY <1>3, <3>1, <3>2, <3>3, <3>4, <3>5, <3>6, <3>7, <3>8 DEF Refresh
  <2>2. QED  BY <2>1, EmptyList
<1>4. ASSUME NEW p \in Procs, Fail(p)
      PROVE  Lineups'
      BY <1>1, <1>4, EmptyList DEF Fail, Change, Done
<1>5. ASSUME NEW l \in Liners, MakeLineup(l)
      PROVE  Lineups'
  <2>1. Visible(Account) \in Lists
        BY ListsAreSeqs, VisibleType
  <2>2. /\ list' = [list EXCEPT ![l] = Visible(Account)]
        /\ UNCHANGED <<includeOTT, up, cancelled, changes, setup, lineupFile, lineup, left>>
        BY <1>5 DEF MakeLineup
  <2>3. QED  BY <1>1, <2>1, <2>2
<1>6. ASSUME NEW l \in Liners, TruncateLineup(l)
      PROVE  Lineups'
      BY <1>1, <1>6 DEF TruncateLineup
<1>7. ASSUME NEW l \in Liners, WriteLineup(l)
      PROVE  Lineups'
  <2>1. PICK f \in {list[l], Torn} : lineupFile' = [lineupFile EXCEPT ![dir[l]] = f]
        BY <1>7 DEF WriteLineup, Written
  <2>2. QED  BY <1>1, <1>7, <2>1 DEF WriteLineup
<1>8. ASSUME NEW l \in Liners, ParseLineup(l)
      PROVE  Lineups'
      BY <1>1, <1>8, VisibleType DEF ParseLineup
<1>9. ASSUME NEW l \in Liners, SetLineup(l)
      PROVE  Lineups'
      BY <1>1, <1>9, ListMembers, EmptyList DEF SetLineup, Done
<1>10. ASSUME NEW l \in Liners, LoadLineup(l)
       PROVE  Lineups'
  <2>1. /\ lineupFile[outDir] \in Lists /\ list' = [list EXCEPT ![l] = lineupFile[outDir]]
        /\ UNCHANGED <<includeOTT, up, cancelled, changes, setup, lineupFile, lineup, left>>
        BY <1>10 DEF LoadLineup
  <2>2. QED  BY <1>1, <2>1
<1>11. CASE SetConfig
  <2>1. includeOTT' \in BOOLEAN
        BY <1>11, Zenon DEF SetConfig
  <2>2. QED  BY <1>1, <1>11, <2>1 DEF SetConfig, Change
<1>12. CASE Publish
  <2>1. up' \in BOOLEAN /\ includeOTT' \in BOOLEAN
        BY <1>12, Zenon DEF Publish
  <2>2. QED  BY <1>1, <1>12, <2>1 DEF Publish, Change
<1>13. CASE Outage
  <2>1. up' \in BOOLEAN /\ includeOTT' \in BOOLEAN
        BY <1>13, Zenon DEF Outage
  <2>2. QED  BY <1>1, <1>13, <2>1 DEF Outage, Change
<1>14. CASE Recover
      BY <1>1, <1>14 DEF Recover
<1>15. CASE Restart
      BY <1>1, <1>15, EmptyList DEF Restart, Change
<1>16. CASE UNCHANGED vars
      BY <1>1, <1>16 DEF vars
<1>17. ASSUME NEW p \in Admins, Leave(p)
       PROVE  Lineups'
  <2>1. includeOTT' \in BOOLEAN /\ up' \in BOOLEAN
        BY <1>17, Zenon DEF Leave, settings
  <2>2. QED  BY <1>1, <1>17, <2>1 DEF Leave, Refreshers
<1>18. CASE EndRequest
  <2>1. includeOTT' \in BOOLEAN /\ up' \in BOOLEAN
        BY <1>18, Zenon DEF EndRequest, settings
  <2>2. QED  BY <1>1, <1>18, <2>1 DEF EndRequest, Change, Refreshers
<1>19. QED
      BY <1>1, <1>2, <1>3, <1>4, <1>5, <1>6, <1>7, <1>8, <1>9, <1>10, <1>11,
         <1>12, <1>13, <1>14, <1>15, <1>16, <1>17, <1>18 DEF Next, Make

(* Every variable keeps its type: in particular a lineup.json that parses  *)
(* is a list of the account's channels, whoever wrote it for whatever      *)
(* setting, and so are the lists that MakeLineup and CacheGuideData have   *)
(* in hand.                                                                *)
THEOREM TypeCorrect == Spec => []TypeOK
<1>1. GuideInv /\ Lineups => TypeOK
  <2> SUFFICES ASSUME GuideInv, Lineups PROVE TypeOK
      OBVIOUS
  <2>1. Shapes /\ \A p \in Refreshers : Own(p)
        BY DEF GuideInv
  <2>2. ASSUME NEW p \in Procs
        PROVE  list[p] \in Lists /\ ToSet(left[p]) \subseteq Channels
    <3>1. CASE p \in Refreshers
          BY <2>1, <3>1, LenProperties DEF Own, Lineups, ToSet
    <3>2. CASE p \in Liners
          BY <3>2, NoneLeft DEF Lineups
    <3>3. QED  BY <3>1, <3>2 DEF Procs, Lineups
  <2>3. QED
        BY <2>1, <2>2 DEF TypeOK, Shapes, Lineups, RefreshSteps, LineupSteps
<1>2. Init => GuideInv /\ Lineups
      BY InvInit, LineupsInit
<1>3. GuideInv /\ Lineups /\ [Next]_vars => (GuideInv /\ Lineups)'
      BY InvStep, LineupsStep
<1>4. QED  BY <1>1, <1>2, <1>3, PTL DEF Spec

(* A refresh during which no setting changed and no other one ran writes   *)
(* to guide.xml exactly what it fetched, for exactly the channels its list *)
(* and the setting ask for, whatever earlier refreshes, crashes and failed *)
(* writes have left in the temporary files.                                *)
THEOREM UndisturbedRefreshExact == Spec => RefreshExact
<1>1. GuideInv /\ [Next]_vars =>
        [\A p \in Refreshers :
           Write(p) /\ calm[p] /\ guide'[dir[p]] # Torn
             => /\ guide'[dir[p]] = got[p]
                /\ DOMAIN got[p] = Shown(list[p])]_vars
  <2> SUFFICES ASSUME GuideInv, NEW p \in Refreshers, Write(p), calm[p],
                      guide'[dir[p]] # Torn
               PROVE  /\ guide'[dir[p]] = got[p]
                      /\ DOMAIN got[p] = Shown(list[p])
      OBVIOUS
  <2>1. Shapes /\ Exact(p) /\ p \in Procs
        BY Members DEF GuideInv
  <2>2. pc[p] = "write"
        BY DEF Write
  <2>3. dir[p] \in Dirs /\ DOMAIN guide = Dirs
        BY <2>1 DEF Shapes
  <2>4. guide'[dir[p]] \in {text[p], Torn}
        BY <2>3 DEF Write, Written
  <2>5. guide'[dir[p]] = got[p]
        BY <2>1, <2>2, <2>4 DEF Exact
  <2>6. DOMAIN got[p] = Inc(list[p], includeOTT)
        BY <2>1, <2>2 DEF Exact
  <2>7. QED  BY <2>5, <2>6 DEF Inc, Included, Shown
<1>2. QED  BY <1>1, InvInit, InvStep, PTL DEF Spec, RefreshExact
-----------------------------------------------------------------------------
(* What is settled stays so: the parts of Settled, in terms of Inc.        *)
Want == Inc(Account, includeOTT)

LineupKept ==
    /\ lineup = Want
    /\ lineupFile[outDir] \in Lists => Inc(lineupFile[outDir], includeOTT) = Want
    /\ \A p \in Liners \union {Loop} : pc[p] # "idle" => Inc(list[p], includeOTT) = Want
    /\ \A l \in Liners : pc[l] = "set" => ToSet(list[l]) = Want

GuideKept ==
    LET step    == pc[Loop]
        fetched == DOMAIN got[Loop]
    IN  /\ guide[outDir] = IF step = "write" THEN Torn ELSE [c \in Want |-> edition]
        /\ step \in {"fetch", "day", "build", "write"} => dir[Loop] = outDir
        /\ step \in {"fetch", "day"} => fetched \union Inc(left[Loop], includeOTT) = Want
        /\ step \in {"fetch", "day", "build"} =>
             \A c \in fetched : dayFile[outDir][c] \in {edition, Torn}
        /\ step = "day" => Head(left[Loop]) \in fetched /\ hand[Loop] = edition
        /\ step = "build" =>
             /\ fetched = Want
             /\ DOMAIN text[Loop] \union Inc(left[Loop], includeOTT) = Want
             /\ \A c \in DOMAIN text[Loop] : text[Loop][c] = edition
        /\ step = "write" => text[Loop] = [c \in Want |-> edition]

LEMMA VisibleInc ==
    ASSUME NEW s \in Lists
    PROVE  /\ ToSet(Visible(s)) = Inc(s, includeOTT)
           /\ Inc(Visible(s), includeOTT) = Inc(s, includeOTT)
<1>1. ToSet(Visible(s)) = {c \in ToSet(s) : Included(c)}
      BY ListsAreSeqs, VisibleKeeps
<1>2. QED  BY <1>1 DEF Inc, Included

LEMMA SettledKept == Settled <=> Quiet /\ LineupKept /\ GuideKept
<1>1. Wanted = Want
      BY ListsAreSeqs, VisibleInc DEF Wanted, Want
<1>2. \A s : Shown(s) = Inc(s, includeOTT)
      BY DEF Shown, Inc, Included
<1>3. LineupFits <=> LineupKept
      BY <1>1, <1>2, Zenon DEF LineupFits, LineupKept
<1>4. GuideFits <=> GuideKept
      BY <1>1, <1>2, Zenon DEF GuideFits, GuideKept, Latest
<1>5. QED  BY <1>3, <1>4 DEF Settled

LEMMA SettledKeptNext == (Settled <=> Quiet /\ LineupKept /\ GuideKept)'
BY SettledKept, PTL

(* While nothing changes, fails or crashes and no admin refreshes, what is *)
(* left to happen are the steps of the schedulers, lineup fetches and      *)
(* activations.                                                            *)
LEMMA Undisturbed ==
    ASSUME GuideInv, Lineups, Quiet, [Next]_vars, changes' = changes,
           \A p \in Admins : pc'[p] = "idle"
    PROVE  /\ UNCHANGED <<settings, network>>
           /\ \/ Begin(Loop) \/ Refresh(Loop)
              \/ \E l \in Liners : MakeLineup(l) \/ LoadLineup(l) \/ Make(l)
              \/ UNCHANGED vars
<1>1. /\ up = TRUE /\ \A p \in Admins : pc[p] = "idle" /\ p \in Procs
      /\ Loop \notin Admins /\ \A l \in Liners : l \notin Admins
      /\ pc \in [Procs -> RefreshSteps \union LineupSteps]
      BY ProcAssumption DEF Quiet, GuideInv, Shapes, Procs, Refreshers
<1>2. ~Change
  <2>1. changes \in Nat
        BY SetupsAssumption DEF Lineups, GuideInv, Shapes
  <2>2. QED  BY <2>1 DEF Change
<1>3. ASSUME NEW p \in Admins
      PROVE  ~Begin(p) /\ ~Refresh(p)
  <2>1. ~Begin(p)
        BY <1>1 DEF Begin, Goto
  <2>2. ~Refresh(p)
        BY <1>1 DEF Refresh, TempDir, Skip, Fetch, WriteDay, Fetched, Build,
                    Truncate, Write
  <2>3. QED  BY <2>1, <2>2
<1>4. /\ \A p : ~Fail(p)
      /\ ~SetConfig /\ ~Publish /\ ~Outage /\ ~Recover /\ ~Restart /\ ~EndRequest
      /\ \A p \in Admins : ~Leave(p)
      BY <1>1, <1>2 DEF Fail, SetConfig, Publish, Outage, Recover, Restart, EndRequest,
                        Leave
<1>5. \/ Begin(Loop) \/ Refresh(Loop)
      \/ \E l \in Liners : MakeLineup(l) \/ LoadLineup(l) \/ Make(l)
      \/ UNCHANGED vars
      BY <1>3, <1>4, Zenon DEF Next, Refreshers
<1>6. CASE Begin(Loop)
      BY <1>5, <1>6 DEF Begin
<1>7. CASE Refresh(Loop)
      BY <1>1, <1>7 DEF Refresh, TempDir, Skip, Fetch, WriteDay, Fetched, Build,
                        Truncate, Write, Done, network
<1>8. ASSUME NEW l \in Liners, MakeLineup(l) \/ LoadLineup(l) \/ Make(l)
      PROVE  UNCHANGED <<settings, network>>
      BY <1>1, <1>8 DEF MakeLineup, LoadLineup, Make, TruncateLineup, WriteLineup,
                        ParseLineup, SetLineup, Done, network
<1>9. CASE UNCHANGED vars
      BY <1>9 DEF vars
<1>10. QED  BY <1>5, <1>6, <1>7, <1>8, <1>9

LEMMA LineupStays ==
    ASSUME GuideInv, Lineups, LineupKept, UNCHANGED settings,
           \/ Begin(Loop) \/ Refresh(Loop)
           \/ \E l \in Liners : MakeLineup(l) \/ LoadLineup(l) \/ Make(l)
           \/ UNCHANGED vars
    PROVE  LineupKept'
<1> DEFINE K == Liners \union {Loop}
<1>1. /\ pc \in [Procs -> RefreshSteps \union LineupSteps]
      /\ list \in [Procs -> Lists] /\ dir \in [Procs -> Dirs] /\ outDir \in Dirs
      /\ lineupFile \in [Dirs -> Lists \union {Absent, Torn}]
      /\ Loop \in Procs /\ Loop \notin Liners /\ Loop \in Refreshers
      /\ \A l \in Liners : l \in Procs
      BY Members, ProcAssumption DEF GuideInv, Shapes, Lineups, Refreshers
<1>2. /\ outDir' = outDir /\ includeOTT' = includeOTT /\ Want' = Want
      BY DEF settings, Want
<1>3. Torn \notin Lists
      BY TornAssumption
<1>4. Inc(Account, includeOTT) = Want /\ Account \in Lists
      BY ListsAreSeqs DEF Want
<1> USE DEF Goto, network, files, local, history, bounds
<1>5. CASE Begin(Loop)
      BY <1>1, <1>2, <1>5 DEF Begin, LineupKept
<1>6. CASE Refresh(Loop)
  <2>1. /\ UNCHANGED <<lineup, lineupFile>>
        /\ \A l \in Liners : pc'[l] = pc[l] /\ list'[l] = list[l]
        /\ pc'[Loop] = "idle" \/ list'[Loop] = list[Loop]
        /\ pc[Loop] # "idle"
    <3>1. CASE TempDir(Loop)
          BY <1>1, <3>1 DEF TempDir
    <3>2. CASE Skip(Loop)
          BY <1>1, <3>2 DEF Skip
    <3>3. CASE Fetch(Loop)
          BY <1>1, <3>3 DEF Fetch
    <3>4. CASE WriteDay(Loop)
          BY <1>1, <3>4 DEF WriteDay
    <3>5. CASE Fetched(Loop)
          BY <1>1, <3>5 DEF Fetched
    <3>6. CASE Build(Loop)
      <4>1. CASE Done(Loop)
            BY <1>1, <3>6, <4>1 DEF Build, Done
      <4>2. CASE ~Done(Loop)
        <5>1. list' = list /\ pc' = pc /\ pc[Loop] = "build"
              BY <3>6, <4>2, Zenon DEF Build
        <5>2. QED  BY <3>6, <5>1 DEF Build
      <4>3. QED  BY <4>1, <4>2
    <3>7. CASE Truncate(Loop)
          BY <1>1, <3>7 DEF Truncate
    <3>8. CASE Write(Loop)
          BY <1>1, <3>8 DEF Write, Done
    <3>9. QED
          BY <1>6, <3>1, <3>2, <3>3, <3>4, <3>5, <3>6, <3>7, <3>8 DEF Refresh
  <2>2. QED  BY <1>1, <1>2, <2>1 DEF LineupKept
<1>7. ASSUME NEW l \in Liners, MakeLineup(l)
      PROVE  LineupKept'
  <2>1. Inc(Visible(Account), includeOTT) = Want
        BY <1>4, VisibleInc
  <2>2. /\ list' = [list EXCEPT ![l] = Visible(Account)]
        /\ pc' = [pc EXCEPT ![l] = "made"] /\ UNCHANGED <<lineup, lineupFile>>
        BY <1>7 DEF MakeLineup
  <2>3. QED  BY <1>1, <1>2, <2>1, <2>2 DEF LineupKept
<1>8. ASSUME NEW l \in Liners, TruncateLineup(l)
      PROVE  LineupKept'
      BY <1>1, <1>2, <1>3, <1>8 DEF TruncateLineup, LineupKept
<1>9. ASSUME NEW l \in Liners, WriteLineup(l)
      PROVE  LineupKept'
  <2>1. PICK f \in {list[l], Torn} : lineupFile' = [lineupFile EXCEPT ![dir[l]] = f]
        BY <1>9 DEF WriteLineup, Written
  <2>2. /\ pc[l] = "file" /\ pc' = [pc EXCEPT ![l] = "parse"]
        /\ UNCHANGED <<list, lineup>>
        BY <1>9 DEF WriteLineup
  <2>3. f \in Lists => Inc(f, includeOTT) = Want
        BY <1>3, <2>1, <2>2 DEF LineupKept
  <2>4. lineupFile'[outDir] \in {f, lineupFile[outDir]}
        BY <1>1, <2>1
  <2>5. lineupFile'[outDir] \in Lists => Inc(lineupFile'[outDir], includeOTT) = Want
        BY <2>3, <2>4 DEF LineupKept
  <2>6. QED  BY <1>1, <1>2, <2>2, <2>5 DEF LineupKept
<1>10. ASSUME NEW l \in Liners, ParseLineup(l)
       PROVE  LineupKept'
  <2>1. /\ pc[l] = "parse" /\ pc' = [pc EXCEPT ![l] = "set"]
        /\ list' = [list EXCEPT ![l] = Visible(list[l])]
        /\ UNCHANGED <<lineup, lineupFile>>
        BY <1>10 DEF ParseLineup
  <2>2. Inc(list[l], includeOTT) = Want
        BY <2>1 DEF LineupKept
  <2>3. ToSet(Visible(list[l])) = Want /\ Inc(Visible(list[l]), includeOTT) = Want
        BY <1>1, <2>2, VisibleInc
  <2>4. list'[l] = Visible(list[l])
        BY <1>1, <2>1
  <2>5. QED  BY <1>1, <1>2, <2>1, <2>3, <2>4 DEF LineupKept
<1>11. ASSUME NEW l \in Liners, SetLineup(l)
       PROVE  LineupKept'
      BY <1>1, <1>2, <1>11 DEF SetLineup, Done, LineupKept
<1>12. ASSUME NEW l \in Liners, LoadLineup(l)
       PROVE  LineupKept'
  <2>1. /\ lineupFile[outDir] \in Lists /\ list' = [list EXCEPT ![l] = lineupFile[outDir]]
        /\ pc' = [pc EXCEPT ![l] = "parse"] /\ UNCHANGED <<lineup, lineupFile>>
        BY <1>12 DEF LoadLineup
  <2>2. Inc(list'[l], includeOTT) = Want
        BY <1>1, <2>1 DEF LineupKept
  <2>3. QED  BY <1>1, <1>2, <2>1, <2>2 DEF LineupKept
<1>13. CASE UNCHANGED vars
      BY <1>2, <1>13 DEF vars, LineupKept
<1>14. QED
      BY <1>5, <1>6, <1>7, <1>8, <1>9, <1>10, <1>11, <1>12, <1>13 DEF Make

(* What the settled guide is about; the lineup's steps leave it alone.     *)
GuideView == <<settings, dayFile, guide, pc[Loop], list[Loop], left[Loop],
               dir[Loop], hand[Loop], text[Loop], got[Loop]>>

LEMMA GuideViewKept ==
    ASSUME GuideKept, UNCHANGED GuideView
    PROVE  GuideKept'
<1>1. /\ includeOTT' = includeOTT /\ outDir' = outDir /\ edition' = edition
      /\ dayFile' = dayFile /\ guide' = guide /\ pc'[Loop] = pc[Loop]
      /\ left'[Loop] = left[Loop] /\ dir'[Loop] = dir[Loop]
      /\ hand'[Loop] = hand[Loop] /\ text'[Loop] = text[Loop]
      /\ got'[Loop] = got[Loop]
      BY DEF GuideView, settings
<1>2. Want' = Want
      BY <1>1 DEF Want
<1>3. QED  BY <1>1, <1>2 DEF GuideKept

LEMMA GuideStays ==
    ASSUME GuideInv, LineupKept, GuideKept, up = TRUE, Loop \notin cancelled,
           UNCHANGED settings,
           \/ Begin(Loop) \/ Refresh(Loop)
           \/ \E l \in Liners : MakeLineup(l) \/ LoadLineup(l) \/ Make(l)
           \/ UNCHANGED vars
    PROVE  GuideKept'
<1>1. /\ Shapes /\ Own(Loop) /\ Loop \in Procs /\ Loop \in Refreshers
      /\ \A l \in Liners : l \in Procs /\ l # Loop
      BY Members, ProcAssumption DEF GuideInv, Refreshers
<1>2. /\ outDir' = outDir /\ includeOTT' = includeOTT /\ edition' = edition
      /\ Want' = Want
      BY DEF settings, Want
<1>3. /\ list[Loop] \in Seq(Channels) /\ left[Loop] \in Seq(Channels)
      /\ got[Loop] \in Guides /\ text[Loop] \in Guides
      /\ outDir \in Dirs /\ edition \in Airings
      BY <1>1 DEF Own, Shapes, Airings
<1>4. DOMAIN got[Loop] \subseteq Channels /\ DOMAIN text[Loop] \subseteq Channels
      BY <1>3 DEF Guides
<1>5. pc[Loop] # "idle" => Inc(list[Loop], includeOTT) = Want
      BY DEF LineupKept
<1> USE DEF Goto, network, files, local, history, bounds
<1>6. CASE Begin(Loop)
  <2>1. pc[Loop] = "idle" /\ pc'[Loop] = "dir" /\ UNCHANGED guide
        BY <1>1, <1>6 DEF Begin, Shapes
  <2>2. QED  BY <1>2, <2>1 DEF GuideKept
<1>7. CASE TempDir(Loop)
  <2>1. /\ pc[Loop] = "dir" /\ dir'[Loop] = outDir /\ left'[Loop] = list[Loop]
        /\ pc'[Loop] = "fetch" /\ got'[Loop] = got[Loop]
        /\ UNCHANGED <<dayFile, guide>>
        BY <1>1, <1>7 DEF TempDir, Shapes
  <2>2. DOMAIN got'[Loop] = {}
        BY <1>1, <2>1, Members DEF Own
  <2>3. QED  BY <1>2, <1>5, <2>1, <2>2 DEF GuideKept
<1>8. CASE Skip(Loop)
  <2>1. /\ left[Loop] # <<>> /\ pc[Loop] \in {"fetch", "build"}
        /\ ~(Head(left[Loop]) \notin Ott \/ includeOTT)
        /\ left'[Loop] = Tail(left[Loop])
        /\ pc'[Loop] = pc[Loop] /\ dir'[Loop] = dir[Loop]
        /\ text'[Loop] = text[Loop] /\ got'[Loop] = got[Loop]
        /\ UNCHANGED <<dayFile, guide>>
        BY <1>1, <1>8 DEF Skip, Included, Shapes
  <2>2. Inc(left'[Loop], includeOTT) = Inc(left[Loop], includeOTT)
        BY <1>3, <2>1, IncHeadOrTail
  <2>3. QED  BY <1>2, <2>1, <2>2 DEF GuideKept
<1>9. CASE Fetch(Loop)
  <2> DEFINE c == Head(left[Loop])
  <2>1. /\ pc[Loop] = "fetch" /\ left[Loop] # <<>> /\ (c \notin Ott \/ includeOTT)
        /\ dayFile' = [dayFile EXCEPT ![dir[Loop]][c] = Torn]
        /\ hand'[Loop] = edition /\ got'[Loop] = Put(got[Loop], c, edition)
        /\ pc'[Loop] = "day" /\ left'[Loop] = left[Loop] /\ dir'[Loop] = dir[Loop]
        /\ UNCHANGED guide
        BY <1>1, <1>9 DEF Fetch, Reached, Included, Shapes
  <2>2. c \in Channels /\ c \in Inc(left[Loop], includeOTT)
        BY <1>3, <2>1, HeadOrTail, IncHeadOrTail
  <2>3. Head(left'[Loop]) = c
        BY <2>1
  <2> HIDE DEF c
  <2>4. DOMAIN got'[Loop] = DOMAIN got[Loop] \union {c}
    <3>1. Added(got[Loop], c, edition, Put(got[Loop], c, edition))
          BY <1>3, <2>2, PutGuide
    <3>2. QED  BY <2>1, <3>1 DEF Added
  <2>5. /\ dir[Loop] = outDir
        /\ DOMAIN got[Loop] \union Inc(left[Loop], includeOTT) = Want
        /\ \A x \in DOMAIN got[Loop] : dayFile[outDir][x] \in {edition, Torn}
        /\ guide[outDir] = [x \in Want |-> edition]
        BY <2>1 DEF GuideKept
  <2>6. /\ dayFile'[outDir][c] = Torn
        /\ \A x \in Channels : x # c => dayFile'[outDir][x] = dayFile[outDir][x]
        BY <1>1, <1>3, <2>1, <2>2, <2>5 DEF Shapes
  <2>7. \A x \in DOMAIN got'[Loop] : dayFile'[outDir][x] \in {edition, Torn}
        BY <1>4, <2>4, <2>5, <2>6
  <2>8. DOMAIN got'[Loop] \union Inc(left'[Loop], includeOTT) = Want
        BY <2>1, <2>2, <2>4, <2>5
  <2>9. QED  BY <1>2, <2>1, <2>3, <2>4, <2>5, <2>7, <2>8 DEF GuideKept
<1>10. CASE WriteDay(Loop)
  <2> DEFINE c == Head(left[Loop])
  <2>1. /\ pc[Loop] = "day" /\ left'[Loop] = Tail(left[Loop])
        /\ pc'[Loop] = "fetch" /\ got'[Loop] = got[Loop] /\ dir'[Loop] = dir[Loop]
        /\ UNCHANGED guide
        BY <1>1, <1>10 DEF WriteDay, Shapes
  <2>2. PICK f \in {hand[Loop], Torn} : dayFile' = [dayFile EXCEPT ![dir[Loop]][c] = f]
        BY <1>10 DEF WriteDay, Written
  <2>3. /\ left[Loop] # <<>> /\ c \in DOMAIN got[Loop] /\ hand[Loop] = edition
        /\ dir[Loop] = outDir
        /\ DOMAIN got[Loop] \union Inc(left[Loop], includeOTT) = Want
        /\ \A x \in DOMAIN got[Loop] : dayFile[outDir][x] \in {edition, Torn}
        /\ guide[outDir] = [x \in Want |-> edition]
        BY <1>1, <2>1 DEF Own, GuideKept
  <2>4. /\ Inc(left[Loop], includeOTT) \subseteq {c} \union Inc(left'[Loop], includeOTT)
        /\ Inc(left'[Loop], includeOTT) \subseteq Inc(left[Loop], includeOTT)
        BY <1>3, <2>1, <2>3, IncHeadOrTail
  <2> HIDE DEF c
  <2>5. /\ dayFile'[outDir][c] \in {edition, Torn}
        /\ \A x \in Channels : x # c => dayFile'[outDir][x] = dayFile[outDir][x]
        BY <1>1, <1>3, <1>4, <2>2, <2>3 DEF Shapes
  <2>6. \A x \in DOMAIN got[Loop] : dayFile'[outDir][x] \in {edition, Torn}
        BY <1>4, <2>3, <2>5
  <2>7. DOMAIN got[Loop] \union Inc(left'[Loop], includeOTT) = Want
        BY <2>3, <2>4
  <2>8. QED  BY <1>2, <2>1, <2>3, <2>6, <2>7 DEF GuideKept
<1>11. CASE Fetched(Loop)
  <2>1. /\ pc[Loop] = "fetch" /\ left[Loop] = <<>> /\ left'[Loop] = list[Loop]
        /\ pc'[Loop] = "build" /\ got'[Loop] = got[Loop]
        /\ text'[Loop] = text[Loop] /\ dir'[Loop] = dir[Loop]
        /\ UNCHANGED <<dayFile, guide>>
        BY <1>1, <1>11 DEF Fetched, Shapes
  <2>2. Inc(left[Loop], includeOTT) = {}
        BY <2>1, NoneLeft DEF Inc
  <2>3. DOMAIN text'[Loop] = {}
        BY <1>1, <2>1, Members DEF Own
  <2>4. DOMAIN got[Loop] = Want
        BY <2>1, <2>2 DEF GuideKept
  <2>5. QED  BY <1>2, <1>5, <2>1, <2>3, <2>4 DEF GuideKept
<1>12. CASE Build(Loop)
  <2>1. pc[Loop] = "build" /\ left[Loop] # <<>> /\ UNCHANGED <<guide, dayFile>>
        BY <1>12 DEF Build
  <2>2. CASE Done(Loop)
    <3>1. pc'[Loop] = "idle"
          BY <1>1, <2>2 DEF Done, Shapes
    <3>2. QED  BY <1>2, <2>1, <3>1 DEF GuideKept
  <2>3. CASE ~Done(Loop)
    <3> DEFINE c == Head(left[Loop])
               a == dayFile[outDir][c]
    <3>1. /\ a \in Airings /\ (c \notin Ott \/ includeOTT)
          /\ text'[Loop] = Put(text[Loop], c, a) /\ left'[Loop] = Tail(left[Loop])
          /\ pc'[Loop] = "build" /\ dir'[Loop] = dir[Loop] /\ got'[Loop] = got[Loop]
          BY <1>1, <1>12, <2>1, <2>3 DEF Build, Included, Shapes
    <3>2. c \in Channels /\ Inc(left[Loop], includeOTT) = {c} \union Inc(left'[Loop], includeOTT)
          BY <1>3, <2>1, <3>1, HeadOrTail, IncHeadOrTail
    <3>3. /\ dir[Loop] = outDir /\ DOMAIN got[Loop] = Want
          /\ DOMAIN text[Loop] \union Inc(left[Loop], includeOTT) = Want
          /\ \A x \in DOMAIN got[Loop] : dayFile[outDir][x] \in {edition, Torn}
          /\ \A x \in DOMAIN text[Loop] : text[Loop][x] = edition
          /\ guide[outDir] = [x \in Want |-> edition]
          BY <2>1 DEF GuideKept
    <3>4. a = edition
      <4>1. a \in {edition, Torn}
            BY <3>2, <3>3
      <4>2. QED  BY <3>1, <4>1, TornAssumption
    <3> HIDE DEF c, a
    <3>5. Added(text[Loop], c, a, Put(text[Loop], c, a))
          BY <1>3, <3>1, <3>2, PutGuide
    <3>6. /\ DOMAIN text'[Loop] = DOMAIN text[Loop] \union {c}
          /\ \A x \in DOMAIN text'[Loop] : text'[Loop][x] = edition
          BY <3>1, <3>3, <3>4, <3>5, Zenon DEF Added
    <3>7. DOMAIN text'[Loop] \union Inc(left'[Loop], includeOTT) = Want
          BY <3>2, <3>3, <3>6
    <3>8. QED  BY <1>2, <2>1, <3>1, <3>3, <3>6, <3>7 DEF GuideKept
  <2>4. QED  BY <2>2, <2>3
<1>13. CASE Truncate(Loop)
  <2>1. /\ pc[Loop] = "build" /\ left[Loop] = <<>> /\ guide'[outDir] = Torn
        /\ dir'[Loop] = outDir /\ pc'[Loop] = "write" /\ text'[Loop] = text[Loop]
        BY <1>1, <1>3, <1>13 DEF Truncate, Shapes
  <2>2. Inc(left[Loop], includeOTT) = {}
        BY <2>1, NoneLeft DEF Inc
  <2>3. DOMAIN text[Loop] = Want /\ \A c \in DOMAIN text[Loop] : text[Loop][c] = edition
        BY <2>1, <2>2 DEF GuideKept
  <2>4. text[Loop] = [c \in Want |-> edition]
        BY <1>3, <2>3 DEF Guides
  <2>5. QED  BY <1>2, <2>1, <2>4 DEF GuideKept
<1>14. CASE Write(Loop)
  <2>1. pc[Loop] = "write" /\ pc'[Loop] = "idle"
        BY <1>1, <1>14 DEF Write, Done, Shapes
  <2>2. /\ dir[Loop] = outDir /\ guide[outDir] = Torn
        /\ text[Loop] = [c \in Want |-> edition]
        BY <2>1 DEF GuideKept
  <2>3. guide'[outDir] = text[Loop]
        BY <1>1, <1>3, <1>14, <2>2 DEF Write, Written, Shapes
  <2>4. QED  BY <1>2, <2>1, <2>2, <2>3 DEF GuideKept
<1>15. ASSUME NEW l \in Liners, MakeLineup(l) \/ LoadLineup(l) \/ Make(l)
       PROVE  GuideKept'
  <2>1. UNCHANGED GuideView
    <3>1. CASE MakeLineup(l)
          BY <1>1, <3>1 DEF MakeLineup, GuideView, Shapes
    <3>2. CASE TruncateLineup(l)
          BY <1>1, <1>2, <3>2 DEF TruncateLineup, GuideView, Shapes
    <3>3. CASE WriteLineup(l)
          BY <1>1, <1>2, <3>3 DEF WriteLineup, GuideView, Shapes
    <3>4. CASE ParseLineup(l)
          BY <1>1, <3>4 DEF ParseLineup, GuideView, Shapes
    <3>5. CASE SetLineup(l)
          BY <1>1, <3>5 DEF SetLineup, Done, GuideView, Shapes
    <3>6. CASE LoadLineup(l)
          BY <1>1, <3>6 DEF LoadLineup, GuideView, Shapes
    <3>7. QED  BY <1>15, <3>1, <3>2, <3>3, <3>4, <3>5, <3>6 DEF Make
  <2>2. QED  BY <2>1, GuideViewKept
<1>16. CASE UNCHANGED vars
  <2>1. UNCHANGED GuideView
        BY <1>16 DEF vars, GuideView
  <2>2. QED  BY <2>1, GuideViewKept
<1>17. QED
      BY <1>6, <1>7, <1>8, <1>9, <1>10, <1>11, <1>12, <1>13, <1>14, <1>15, <1>16
         DEF Refresh

(* Once the lineup and guide.xml are those the settings and the cloud ask  *)
(* for, and so is what is under way, no interleaving of the schedulers,    *)
(* the lineup fetches and the activations, each in steps of its own, makes *)
(* them anything else, as long as nothing changes, fails or crashes, the   *)
(* loops' context has not ended and no admin refreshes: the lists that are *)
(* in hand, in lineup.json and in the day files agree.                     *)
THEOREM SettledRemains == Spec => SettledStays
<1>1. ASSUME GuideInv, Lineups, [Next]_vars, Settled, changes' = changes,
             \A p \in Admins : pc'[p] = "idle"
      PROVE  Settled'
  <2>1. Quiet /\ LineupKept /\ GuideKept
        BY <1>1, SettledKept
  <2>2. /\ UNCHANGED <<settings, network>>
        /\ \/ Begin(Loop) \/ Refresh(Loop)
           \/ \E l \in Liners : MakeLineup(l) \/ LoadLineup(l) \/ Make(l)
           \/ UNCHANGED vars
        BY <1>1, <2>1, Undisturbed
  <2>3. Quiet'
        BY <1>1, <2>1, <2>2 DEF Quiet, network
  <2>4. LineupKept'
        BY <1>1, <2>1, <2>2, LineupStays
  <2>5. GuideKept'
        BY <1>1, <2>1, <2>2, GuideStays DEF Quiet
  <2>6. QED  BY <2>3, <2>4, <2>5, SettledKeptNext
<1>2. GuideInv /\ Lineups /\ [Next]_vars =>
        [Settled /\ changes' = changes /\ (\A p \in Admins : pc'[p] = "idle")
           => Settled']_vars
      BY <1>1, Zenon
<1>3. Init => GuideInv /\ Lineups
      BY InvInit, LineupsInit
<1>4. GuideInv /\ Lineups /\ [Next]_vars => (GuideInv /\ Lineups)'
      BY InvStep, LineupsStep
<1>5. QED  BY <1>2, <1>3, <1>4, PTL DEF Spec, SettledStays
=============================================================================
