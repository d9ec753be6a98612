--------------------------- MODULE StreamsProofs ---------------------------
(***************************************************************************)
(* Proofs about Streams, for every set of clients and every tuner count.   *)
(*                                                                         *)
(* The invariants that TLC checks are not inductive one by one: that       *)
(* streamSem stays a natural number needs TokensMatchHolders, which a      *)
(* Release preserves only because a handler reaches "release" holding a    *)
(* token exactly when it took one; and OtaWithinCap needs that a running   *)
(* ffmpeg of an over-the-air channel always has its handler holding.       *)
(* HandlerInv states these facts of one handler, and StreamsInv is the     *)
(* inductive invariant.                                                    *)
(***************************************************************************)
EXTENDS Streams, FiniteSetTheorems, TLAPS

Serving == {"watch", "posted", "count", "spawn", "copy", "wait", "uncount"}

HandlerInv ==
    \A r \in Clients :
        /\ holds[r] => pc[r] \in Serving \union {"release"}
        /\ pc[r] \in Serving /\ entry[r] = "ota" => holds[r]
        /\ ffmpeg[r] = "running" => pc[r] \in {"copy", "wait"}

WithinCap == streamSem <= SemCap

StreamsInv ==
    /\ TypeOK
    /\ HandlerInv
    /\ TokensMatchHolders
    /\ WithinCap
    /\ StreamsCounted

-----------------------------------------------------------------------------
(* Lemmas on the operators of the module.                                  *)

(* The capacity of streamSem is positive, whatever TunerCount() said.      *)
LEMMA SemCapPositive == SemCap \in Nat \ {0}
BY TunersAssumption DEF SemCap

(* A lineup entry belongs to a known channel and has a known type.         *)
LEMMA LineupEntry ==
    ASSUME NEW lu \in Lineups, NEW c \in DOMAIN lu
    PROVE  c \in Channels /\ lu[c] \in Kinds
<1>1. PICK S \in SUBSET Channels : lu \in [S -> Kinds]
      BY DEF Lineups
<1>2. QED  BY <1>1

(* Sets of clients are finite, and one client more or less is one more or  *)
(* less.                                                                   *)
LEMMA ClientSets ==
    ASSUME NEW S \in SUBSET Clients
    PROVE  /\ IsFiniteSet(S)
           /\ Cardinality(S) \in Nat
           /\ \A r \in Clients \ S : Cardinality(S \union {r}) = Cardinality(S) + 1
           /\ \A r \in S : Cardinality(S \ {r}) = Cardinality(S) - 1
<1>1. IsFiniteSet(S)
      BY ClientsAssumption, FS_Subset
<1>2. Cardinality(S) \in Nat
      BY <1>1, FS_CardinalityType
<1>3. \A r \in Clients \ S : Cardinality(S \union {r}) = Cardinality(S) + 1
      BY <1>1, FS_AddElement
<1>4. \A r \in S : Cardinality(S \ {r}) = Cardinality(S) - 1
      BY <1>1, FS_RemoveElement
<1>5. QED  BY <1>1, <1>2, <1>3, <1>4

-----------------------------------------------------------------------------
(* The inductive invariant.                                                *)

LEMMA StreamsInvInit == Init => StreamsInv
<1> SUFFICES ASSUME Init PROVE StreamsInv
    OBVIOUS
<1>1. TypeOK
  <2>1. lineup \in Lineups
    <3>1. lineup \in [{} -> Kinds]
          BY DEF Init
    <3>2. QED  BY <3>1 DEF Lineups
  <2>2. /\ ready \in BOOLEAN
        /\ holds \in [Clients -> BOOLEAN]
        /\ client \in [Clients -> {"reading", "stalled", "gone"}]
        BY Zenon DEF Init
  <2>3. /\ pc \in [Clients -> Steps]
        /\ chan \in [Clients -> Channels \union {NoChannel}]
        /\ entry \in [Clients -> Kinds \union {"none"}]
        /\ ffmpeg \in [Clients -> {"none", "running", "exited"}]
        BY DEF Init, Steps
  <2>4. tuners \in Int /\ streamSem \in Nat /\ streams \in Int
        BY TunersAssumption DEF Init
  <2>5. QED  BY <2>1, <2>2, <2>3, <2>4 DEF TypeOK
<1>2. HandlerInv
      BY DEF Init, HandlerInv, Serving
<1>3. Cardinality({}) = 0
      BY FS_EmptySet
<1>4. TokensMatchHolders
  <2>1. Holders = {}
        BY DEF Init, Holders
  <2>2. QED  BY <2>1, <1>3 DEF Init, TokensMatchHolders
<1>5. WithinCap
      BY SemCapPositive DEF Init, WithinCap
<1>6. StreamsCounted
  <2>1. {r \in Clients : pc[r] \in Counted} = {}
        BY DEF Init, Counted
  <2>2. QED  BY <2>1, <1>3 DEF Init, StreamsCounted
<1>7. QED  BY <1>1, <1>2, <1>4, <1>5, <1>6 DEF StreamsInv

(* A step that touches neither the tokens nor who holds one.               *)
LEMMA TokensUntouched ==
    ASSUME TokensMatchHolders, WithinCap, UNCHANGED <<streamSem, holds>>
    PROVE  TokensMatchHolders' /\ WithinCap'
<1>1. Holders' = Holders
      BY DEF Holders
<1>2. TokensMatchHolders'
      BY <1>1 DEF TokensMatchHolders
<1>3. WithinCap'
      BY DEF WithinCap, SemCap
<1>4. QED  BY <1>2, <1>3

(* A step that leaves the counter alone and moves no handler across it.    *)
LEMMA CountUntouched ==
    ASSUME StreamsCounted, streams' = streams,
           \A r \in Clients : pc'[r] \in Counted <=> pc[r] \in Counted
    PROVE  StreamsCounted'
<1>1. {r \in Clients : pc'[r] \in Counted} = {r \in Clients : pc[r] \in Counted}
      OBVIOUS
<1>2. QED  BY <1>1 DEF StreamsCounted

(* The rest of the proxy and a client that leaves.                         *)
LEMMA EnvironmentStep ==
    ASSUME StreamsInv,
           \/ SetProxyReady \/ ParseLineup \/ LoadCredentials
           \/ \E r \in Clients : Disconnect(r) \/ Stall(r) \/ Resume(r) \/ FfmpegExits(r)
    PROVE  StreamsInv'
<1> USE DEF StreamsInv, shared, counts, local
<1>1. CASE SetProxyReady \/ ParseLineup \/ LoadCredentials
  <2>1. TypeOK'
    <3>1. tuners' \in Int
          BY <1>1, TunersAssumption DEF SetProxyReady, ParseLineup,
             LoadCredentials, TunersOf, TypeOK
    <3>2. QED  BY <1>1, <3>1 DEF SetProxyReady, ParseLineup, LoadCredentials, TypeOK
  <2>2. UNCHANGED <<pc, entry, holds, ffmpeg, streamSem, streams>>
        BY <1>1 DEF SetProxyReady, ParseLineup, LoadCredentials
  <2>3. HandlerInv'
        BY <2>2 DEF HandlerInv
  <2>4. TokensMatchHolders' /\ WithinCap'
        BY <2>2, TokensUntouched
  <2>5. StreamsCounted'
        BY <2>2, CountUntouched
  <2>6. QED  BY <2>1, <2>3, <2>4, <2>5
<1>2. ASSUME NEW r \in Clients, Disconnect(r) \/ Stall(r) \/ Resume(r) \/ FfmpegExits(r)
      PROVE  StreamsInv'
  <2>1. TypeOK'
        BY <1>2 DEF Disconnect, Stall, Resume, Becomes, FfmpegExits, TypeOK
  <2>2. HandlerInv'
        BY <1>2 DEF Disconnect, Stall, Resume, Becomes, FfmpegExits, TypeOK, HandlerInv
  <2>3. UNCHANGED <<pc, holds, streamSem, streams>>
        BY <1>2 DEF Disconnect, Stall, Resume, Becomes, FfmpegExits
  <2>4. TokensMatchHolders' /\ WithinCap'
        BY <2>3, TokensUntouched
  <2>5. StreamsCounted'
        BY <2>3, CountUntouched
  <2>6. QED  BY <2>1, <2>2, <2>4, <2>5
<1>3. QED  BY <1>1, <1>2

(* The steps of a handler that leave tokens and counter alone.             *)
LEMMA QuietStep ==
    ASSUME StreamsInv, NEW r \in Clients,
           \/ \E c \in Channels : Serve(r, c)
           \/ Refuse(r) \/ WatchLookup(r) \/ WatchReply(r)
           \/ Spawn(r) \/ CopyEnds(r) \/ WaitEnds(r)
    PROVE  StreamsInv'
<1> USE DEF StreamsInv, shared, counts, local
<1>1. CASE \E c \in Channels : Serve(r, c)
  <2>1. PICK c \in Channels : Serve(r, c)
        BY <1>1
  <2>2. lineup[c] \in Kinds
        BY <2>1, LineupEntry DEF Serve, TypeOK
  <2>3. TypeOK'
        BY <2>1, <2>2 DEF Serve, Goto, TypeOK, Steps
  <2>4. HandlerInv'
        BY <2>1 DEF Serve, Goto, TypeOK, HandlerInv, Serving
  <2>5. TokensMatchHolders' /\ WithinCap'
        BY <2>1, TokensUntouched DEF Serve
  <2>6. StreamsCounted'
        BY <2>1, CountUntouched DEF Serve, Goto, Counted, TypeOK
  <2>7. QED  BY <2>3, <2>4, <2>5, <2>6
<1>2. CASE Refuse(r) \/ WatchLookup(r) \/ WatchReply(r) \/ CopyEnds(r) \/ WaitEnds(r)
  <2>1. TypeOK'
        BY <1>2 DEF Refuse, WatchLookup, WatchReply, CopyEnds, WaitEnds, Goto,
           TypeOK, Steps
  <2>2. HandlerInv'
        BY <1>2 DEF Refuse, WatchLookup, WatchReply, CopyEnds, WaitEnds, Goto,
           TypeOK, HandlerInv, Serving
  <2>3. TokensMatchHolders' /\ WithinCap'
        BY <1>2, TokensUntouched
           DEF Refuse, WatchLookup, WatchReply, CopyEnds, WaitEnds
  <2>4. StreamsCounted'
        BY <1>2, CountUntouched DEF Refuse, WatchLookup, WatchReply, CopyEnds,
           WaitEnds, Goto, Counted, TypeOK
  <2>5. QED  BY <2>1, <2>2, <2>3, <2>4
<1>3. CASE Spawn(r)
  <2>1. TypeOK'
        BY <1>3 DEF Spawn, Goto, TypeOK, Steps
  <2>2. HandlerInv'
        BY <1>3 DEF Spawn, Goto, TypeOK, HandlerInv, Serving
  <2>3. TokensMatchHolders' /\ WithinCap'
        BY <1>3, TokensUntouched DEF Spawn
  <2>4. StreamsCounted'
        BY <1>3, CountUntouched DEF Spawn, Goto, Counted, TypeOK
  <2>5. QED  BY <2>1, <2>2, <2>3, <2>4
<1>4. QED  BY <1>1, <1>2, <1>3

(* The send on streamSem: one token and one holder more.                   *)
LEMMA AcquireStep ==
    ASSUME StreamsInv, NEW r \in Clients, Acquire(r)
    PROVE  StreamsInv'
<1> USE DEF StreamsInv, Acquire, shared
<1>1. TypeOK'
      BY DEF Goto, TypeOK, Steps
<1>2. HandlerInv'
      BY DEF Goto, TypeOK, HandlerInv, Serving
<1>3. TokensMatchHolders'
  <2>1. r \notin Holders
        BY DEF HandlerInv, Holders, Serving
  <2>2. Holders' = Holders \union {r}
        BY DEF Holders, TypeOK
  <2>3. Cardinality(Holders') = Cardinality(Holders) + 1
        BY <2>1, <2>2, ClientSets DEF Holders
  <2>4. QED  BY <2>3 DEF TokensMatchHolders
<1>4. WithinCap'
  <2>1. SemCap' = SemCap
        BY DEF SemCap
  <2>2. QED  BY <2>1, SemCapPositive DEF WithinCap, TypeOK
<1>5. StreamsCounted'
      BY CountUntouched DEF Goto, Counted, TypeOK
<1>6. QED  BY <1>1, <1>2, <1>3, <1>4, <1>5

(* The two AddInt64: one counted handler more, one less.                   *)
LEMMA CountStep ==
    ASSUME StreamsInv, NEW r \in Clients, CountIn(r) \/ Uncount(r)
    PROVE  StreamsInv'
<1> DEFINE InCount == {q \in Clients : pc[q] \in Counted}
           InCountNext == {q \in Clients : pc'[q] \in Counted}
<1> USE DEF StreamsInv, shared, local
<1>1. TypeOK'
      BY DEF CountIn, Uncount, Goto, TypeOK, Steps
<1>2. HandlerInv'
      BY DEF CountIn, Uncount, Goto, TypeOK, HandlerInv, Serving
<1>3. TokensMatchHolders' /\ WithinCap'
      BY TokensUntouched DEF CountIn, Uncount
<1>4. CASE CountIn(r)
  <2>1. r \notin InCount
        BY <1>4 DEF CountIn, Counted
  <2>2. InCountNext = InCount \union {r}
        BY <1>4 DEF CountIn, Goto, Counted, TypeOK
  <2>3. Cardinality(InCountNext) = Cardinality(InCount) + 1
        BY <2>1, <2>2, ClientSets
  <2>4. StreamsCounted'
        BY <1>4, <2>3 DEF CountIn, StreamsCounted
  <2>5. QED  BY <1>1, <1>2, <1>3, <2>4
<1>5. CASE Uncount(r)
  <2>1. r \in InCount
        BY <1>5 DEF Uncount, Counted
  <2>2. InCountNext = InCount \ {r}
        BY <1>5 DEF Uncount, Goto, Counted, TypeOK
  <2>3. Cardinality(InCountNext) = Cardinality(InCount) - 1
        BY <2>1, <2>2, ClientSets
  <2>4. StreamsCounted'
        BY <1>5, <2>3 DEF Uncount, StreamsCounted
  <2>5. QED  BY <1>1, <1>2, <1>3, <2>4
<1>6. QED  BY <1>4, <1>5

(* The receive from streamSem: one token and one holder less, or neither.  *)
LEMMA ReleaseStep ==
    ASSUME StreamsInv, NEW r \in Clients, Release(r)
    PROVE  StreamsInv'
<1>1. Holders' = Holders \ {r}
      BY DEF Holders, TypeOK, StreamsInv, Release
<1>2. streamSem' = Cardinality(Holders') /\ streamSem' <= streamSem
  <2>1. /\ Cardinality(Holders) \in Nat
        /\ streamSem = Cardinality(Holders)
        BY ClientSets DEF Holders, StreamsInv, TokensMatchHolders
  <2>2. CASE holds[r]
    <3>1. Cardinality(Holders \ {r}) = Cardinality(Holders) - 1
          BY <2>2, ClientSets DEF Holders
    <3>2. streamSem' = streamSem - 1
          BY <2>2 DEF Release
    <3>3. QED  BY <1>1, <2>1, <3>1, <3>2
  <2>3. CASE ~holds[r]
    <3>1. Holders \ {r} = Holders
          BY <2>3 DEF Holders
    <3>2. streamSem' = streamSem
          BY <2>3 DEF Release
    <3>3. QED  BY <1>1, <2>1, <3>1, <3>2
  <2>4. QED  BY <2>2, <2>3
<1> USE DEF StreamsInv, Release, shared
<1>3. streamSem' \in Nat
      BY <1>1, <1>2, ClientSets DEF Holders
<1>4. TypeOK'
      BY <1>3 DEF Goto, TypeOK, Steps
<1>5. HandlerInv'
      BY DEF Goto, TypeOK, HandlerInv, Serving
<1>6. TokensMatchHolders'
      BY <1>2 DEF TokensMatchHolders
<1>7. WithinCap'
  <2>1. SemCap' = SemCap
        BY DEF SemCap
  <2>2. QED  BY <2>1, <1>2, <1>3, SemCapPositive DEF WithinCap, TypeOK
<1>8. StreamsCounted'
      BY CountUntouched DEF Goto, Counted, TypeOK
<1>9. QED  BY <1>4, <1>5, <1>6, <1>7, <1>8

LEMMA StreamsInvStep == StreamsInv /\ [Next]_vars => StreamsInv'
<1> SUFFICES ASSUME StreamsInv, [Next]_vars PROVE StreamsInv'
    OBVIOUS
<1>1. CASE \/ SetProxyReady \/ ParseLineup \/ LoadCredentials
           \/ \E r \in Clients : Disconnect(r) \/ Stall(r) \/ Resume(r) \/ FfmpegExits(r)
      BY <1>1, EnvironmentStep
<1>2. CASE \E r \in Clients : (\E c \in Channels : Serve(r, c)) \/ HandlerStep(r)
  <2>1. PICK r \in Clients : (\E c \in Channels : Serve(r, c)) \/ HandlerStep(r)
        BY <1>2
  <2>2. QED  BY <2>1, QuietStep, AcquireStep, CountStep, ReleaseStep
             DEF HandlerStep
<1>3. CASE UNCHANGED vars
  <2>1. TypeOK' /\ HandlerInv'
        BY <1>3 DEF StreamsInv, vars, TypeOK, HandlerInv
  <2>2. TokensMatchHolders' /\ WithinCap'
        BY <1>3, TokensUntouched DEF StreamsInv, vars
  <2>3. StreamsCounted'
        BY <1>3, CountUntouched DEF StreamsInv, vars
  <2>4. QED  BY <2>1, <2>2, <2>3 DEF StreamsInv
<1>4. QED  BY <1>1, <1>2, <1>3 DEF Next

LEMMA StreamsInvariant == Spec => []StreamsInv
BY StreamsInvInit, StreamsInvStep, PTL DEF Spec

-----------------------------------------------------------------------------
(* The results.                                                            *)

(* Every variable keeps its type; in particular the token count never goes *)
(* below zero, so no deferred receive of handleChannel can block.          *)
THEOREM TypeCorrect == Spec => []TypeOK
BY StreamsInvariant, PTL DEF StreamsInv

(* Whatever the order in which handlers run and fail, streamSem holds one  *)
(* token for each handler that owes one: no tuner leaks, none is freed     *)
(* twice.                                                                  *)
THEOREM NoTokenLeaks == Spec => []TokensMatchHolders
BY StreamsInvariant, PTL DEF StreamsInv

(* activeStreams is exact: it counts the handlers between the two AddInt64.*)
THEOREM ActiveStreamsExact == Spec => []StreamsCounted
BY StreamsInvariant, PTL DEF StreamsInv

(* No more over-the-air ffmpeg children than the semaphore's capacity,     *)
(* however the lineup is replaced while the handlers run.                  *)
THEOREM OtaStreamsBounded == Spec => []OtaWithinCap
<1>1. StreamsInv => OtaWithinCap
  <2> SUFFICES ASSUME StreamsInv PROVE OtaWithinCap
      OBVIOUS
  <2> DEFINE Running == {r \in Clients : ffmpeg[r] = "running" /\ entry[r] = "ota"}
  <2>1. Running \subseteq Holders
        BY DEF StreamsInv, HandlerInv, Serving, Holders
  <2>2. IsFiniteSet(Holders) /\ Cardinality(Holders) \in Nat
        BY ClientSets DEF Holders
  <2>3. Cardinality(Running) \in Nat /\ Cardinality(Running) <= Cardinality(Holders)
        BY <2>1, <2>2, FS_Subset, FS_CardinalityType
  <2>4. Cardinality(Holders) <= SemCap
        BY DEF StreamsInv, WithinCap, TokensMatchHolders
  <2>5. QED  BY <2>2, <2>3, <2>4, SemCapPositive DEF OtaWithinCap
<1>2. QED  BY <1>1, StreamsInvariant, PTL

(* A step of the handlers is a step of the pool or leaves it alone.        *)
LEMMA PoolStep ==
    ASSUME StreamsInv, [Next]_vars
    PROVE  [Pool!PoolNext]_Holders
<1> USE DEF StreamsInv
<1>1. ASSUME NEW r \in Clients, Acquire(r)
      PROVE  Pool!Take(r)
  <2>1. r \notin Holders
        BY <1>1 DEF Acquire, HandlerInv, Serving, Holders
  <2>2. Holders' = Holders \union {r}
        BY <1>1 DEF Acquire, Holders, TypeOK
  <2>3. Cardinality(Holders) < SemCap
        BY <1>1 DEF Acquire, TokensMatchHolders
  <2>4. QED  BY <2>1, <2>2, <2>3 DEF Pool!Take, Pool!Cardinality, Cardinality
<1>2. ASSUME NEW r \in Clients, Release(r)
      PROVE  Pool!GiveBack(r) \/ Holders' = Holders
  <2>1. Holders' = Holders \ {r}
        BY <1>2 DEF Release, Holders, TypeOK
  <2>2. QED  BY <2>1 DEF Pool!GiveBack
<1>3. CASE holds' = holds
      BY <1>3 DEF Holders
<1>4. CASE holds' # holds
  <2>1. ~UNCHANGED vars /\ Next
        BY <1>4 DEF vars
  <2>2. ~(SetProxyReady \/ ParseLineup \/ LoadCredentials)
        BY <1>4 DEF SetProxyReady, ParseLineup, LoadCredentials, local
  <2>3. ASSUME NEW r \in Clients,
               \/ \E c \in Channels : Serve(r, c)
               \/ Disconnect(r) \/ Stall(r) \/ Resume(r) \/ FfmpegExits(r) \/ Refuse(r)
               \/ WatchLookup(r) \/ WatchReply(r) \/ CountIn(r) \/ Spawn(r)
               \/ CopyEnds(r) \/ WaitEnds(r) \/ Uncount(r)
        PROVE  FALSE
        BY <1>4, <2>3 DEF local, Serve, Disconnect, Stall, Resume, Becomes,
           FfmpegExits, Refuse,
           WatchLookup, WatchReply, CountIn, Spawn, CopyEnds, WaitEnds, Uncount
  <2>4. PICK r \in Clients : Acquire(r) \/ Release(r)
        BY <2>1, <2>2, <2>3 DEF Next, HandlerStep
  <2>5. QED  BY <1>1, <1>2, <2>4 DEF Pool!PoolNext
<1>5. QED  BY <1>3, <1>4

(* The counting semaphore, which knows no owners, implements a pool of     *)
(* SemCap tuners, each taken and given back by the same client.            *)
THEOREM SemaphoreIsPool == Spec => PoolImplemented
<1>1. Init => Pool!PoolInit
  <2> SUFFICES ASSUME Init PROVE Pool!PoolInit
      OBVIOUS
  <2>1. Holders = {}
        BY DEF Init, Holders
  <2>2. QED  BY <2>1 DEF Pool!PoolInit
<1>2. StreamsInv /\ [Next]_vars => [Pool!PoolNext]_Holders
      BY PoolStep
<1>3. QED  BY <1>1, <1>2, StreamsInvariant, PTL DEF Spec, PoolImplemented, Pool!PoolSpec
-----------------------------------------------------------------------------
(* Whatever device is selected reports no more tuners than the semaphore   *)
(* was made for when the server was created.                               *)
NoMoreTuners == \A n \in ReportedTuners : TunersOf(n) <= SemCap

(* Where the run MCStreams_tuners finds a client refused while tuners are  *)
(* free, the late tuner count is the only reason: for a device of no more  *)
(* tuners than streamSem was sized for, "max streams are running" is said  *)
(* only when as many over-the-air streams run as are advertised, whatever  *)
(* handlers failed before.                                                 *)
THEOREM RefusedWhenBusy ==
    ASSUME NoMoreTuners
    PROVE  Spec => RefusedOnlyWhenTunersBusy
<1> DEFINE Sized == tuners \in Int /\ tuners <= SemCap
<1>1. Init => Sized
      BY TunersAssumption DEF Init, SemCap
<1>2. Sized /\ [Next]_vars => Sized'
  <2> SUFFICES ASSUME Sized, [Next]_vars PROVE Sized'
      OBVIOUS
  <2>1. CASE LoadCredentials
    <3>1. PICK n \in ReportedTuners : tuners' = TunersOf(n)
          BY <2>1 DEF LoadCredentials
    <3>2. n \in Int /\ TunersOf(n) \in Int
          BY <3>1, TunersAssumption DEF TunersOf
    <3>3. TunersOf(n) <= SemCap
          BY <3>1 DEF NoMoreTuners
    <3>4. QED  BY <3>1, <3>2, <3>3
  <2>2. CASE ~LoadCredentials
    <3>1. tuners' = tuners
          BY <2>2 DEF Next, HandlerStep, SetProxyReady, ParseLineup, Disconnect, Stall,
                      Resume, Becomes, Serve,
                      Acquire, Refuse, WatchLookup, WatchReply, CountIn, Spawn,
                      CopyEnds, WaitEnds, Uncount, Release, FfmpegExits, FfmpegKilled,
                      shared, vars
    <3>2. QED  BY <3>1
  <2>3. QED  BY <2>1, <2>2
<1>3. StreamsInv /\ Sized /\ [Next]_vars =>
        [\A r \in Clients : Refuse(r) => Cardinality(Holders) >= tuners]_vars
  <2> SUFFICES ASSUME StreamsInv, Sized, NEW r \in Clients, Refuse(r)
               PROVE  Cardinality(Holders) >= tuners
      OBVIOUS
  <2>1. streamSem >= SemCap /\ streamSem = Cardinality(Holders) /\ streamSem \in Nat
        BY DEF Refuse, StreamsInv, TokensMatchHolders, TypeOK
  <2>2. QED  BY <2>1, SemCapPositive
<1> HIDE DEF Sized
<1>4. QED  BY <1>1, <1>2, <1>3, StreamsInvariant, PTL DEF Spec, RefusedOnlyWhenTunersBusy
=============================================================================
