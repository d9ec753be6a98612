------------------------------ MODULE Streams ------------------------------
(***************************************************************************)
(* The stream path of the HTTP server: handleChannel of                    *)
(* internal/server/server.go, the semaphore streamSem that limits          *)
(* over-the-air streams, the counter streams, and the ffmpeg child that    *)
(* every stream runs.  One client is one connection; its handler runs in a *)
(* goroutine of its own, so the steps of different clients interleave.     *)
(*                                                                         *)
(* Around the handlers the lineup may be replaced at any moment (a refresh *)
(* or an activation calls ParseLineup) and the tuner count may change (a   *)
(* login or ReadCredentials); both are owned by internal/tablo.            *)
(*                                                                         *)
(* A request that is answered 503 "proxy setup required" or 404 at its     *)
(* first lookup changes nothing, so Serve has only the accepting case.     *)
(***************************************************************************)
EXTENDS Integers, FiniteSets

CONSTANTS Clients,        \* HTTP connections
          Channels,       \* channel identifiers
          NoChannel,      \* "this handler serves no channel"
          InitialTuners,  \* tablo.New's tuners, read once by server.New
          ReportedTuners  \* what /server/info or the stored credentials may say

ASSUME NoChannelAssumption == NoChannel \notin Channels
ASSUME ClientsAssumption   == IsFiniteSet(Clients)
ASSUME TunersAssumption    == InitialTuners \in Int /\ ReportedTuners \subseteq Int

VARIABLES
    ready,      \* Server.proxyReady
    lineup,     \* Service.lineup: channel identifier -> entry type
    tuners,     \* Service.tuners, the count the proxy advertises
    streamSem,  \* number of tokens in the buffered channel streamSem
    streams,    \* Server.streams
    pc,         \* next step of the handler of a client
    chan,       \* channelID of the handler
    entry,      \* entry.Type as the handler looked it up
    holds,      \* the handler has deferred the release of a token
    ffmpeg,     \* the handler's child process
    client      \* "stalled": a write to it blocks; "gone": r.Context() is cancelled

vars == <<ready, lineup, tuners, streamSem, streams, pc, chan, entry, holds,
          ffmpeg, client>>

Kinds   == {"ota", "ott"}
Lineups == UNION {[S -> Kinds] : S \in SUBSET Channels}
Steps   == {"idle", "acquire", "watch", "posted", "count", "spawn", "copy",
            "wait", "uncount", "release"}
Counted == {"spawn", "copy", "wait", "uncount"}   \* between the two AddInt64

(* server.New: the capacity is what TunerCount() says at that moment.      *)
SemCap == IF InitialTuners <= 0 THEN 2 ELSE InitialTuners

(* ReadCredentials and createCredentialsForSelection: no count means two.  *)
TunersOf(reported) == IF reported > 0 THEN reported ELSE 2

Holders == {r \in Clients : holds[r]}

Init ==
    /\ ready     = FALSE
    /\ lineup    = [c \in {} |-> "ota"]
    /\ tuners    = InitialTuners
    /\ streamSem = 0
    /\ streams   = 0
    /\ pc        = [r \in Clients |-> "idle"]
    /\ chan      = [r \in Clients |-> NoChannel]
    /\ entry     = [r \in Clients |-> "none"]
    /\ holds     = [r \in Clients |-> FALSE]
    /\ ffmpeg    = [r \in Clients |-> "none"]
    /\ client    = [r \in Clients |-> "reading"]

Goto(r, step) == pc' = [pc EXCEPT ![r] = step]

shared == <<ready, lineup, tuners>>
counts == <<streamSem, streams>>
local  == <<chan, entry, holds, ffmpeg>>

-----------------------------------------------------------------------------
(* The rest of the proxy, seen from the handlers.                          *)

(* The last step of an activation.  Nothing resets it once the listener is *)
(* up: the only SetProxyReady(false) comes before Run.                     *)
SetProxyReady ==
    /\ ready' = TRUE
    /\ UNCHANGED <<lineup, tuners, counts, pc, local, client>>

ParseLineup ==
    /\ lineup' \in Lineups
    /\ UNCHANGED <<ready, tuners, counts, pc, local, client>>

LoadCredentials ==
    /\ \E n \in ReportedTuners : tuners' = TunersOf(n)
    /\ UNCHANGED <<ready, lineup, counts, pc, local, client>>

Becomes(r, state) ==
    /\ client' = [client EXCEPT ![r] = state]
    /\ UNCHANGED <<shared, counts, pc, local>>

(* net/http cancels the request's context when the connection closes.      *)
Disconnect(r) == pc[r] # "idle" /\ Becomes(r, "gone")

(* A client may stay connected and read nothing, for as long as it likes:  *)
(* the http.Server that Run makes has no WriteTimeout.                     *)
Stall(r)  == pc[r] = "copy" /\ client[r] = "reading" /\ Becomes(r, "stalled")
Resume(r) == client[r] = "stalled" /\ Becomes(r, "reading")

-----------------------------------------------------------------------------
(* handleChannel.                                                          *)

(* The ready check and the first lookup of the channel.                    *)
Serve(r, c) ==
    /\ pc[r] = "idle"
    /\ ready
    /\ c \in DOMAIN lineup
    /\ chan'  = [chan EXCEPT ![r] = c]
    /\ entry' = [entry EXCEPT ![r] = lineup[c]]
    /\ Goto(r, IF lineup[c] = "ota" THEN "acquire" ELSE "watch")
    /\ UNCHANGED <<shared, counts, holds, ffmpeg, client>>

AcquireOneTooMany(r) ==  \* mutant: a buffer of one more than the count
    /\ pc[r] = "acquire"
    /\ streamSem <= SemCap
    /\ streamSem' = streamSem + 1
    /\ holds'     = [holds EXCEPT ![r] = TRUE]
    /\ Goto(r, "watch")
    /\ UNCHANGED <<shared, streams, chan, entry, ffmpeg, client>>

(* The non-blocking send on streamSem.                                     *)
Acquire(r) ==
    /\ pc[r] = "acquire"
    /\ streamSem < SemCap
    /\ streamSem' = streamSem + 1
    /\ holds'     = [holds EXCEPT ![r] = TRUE]
    /\ Goto(r, "watch")
    /\ UNCHANGED <<shared, streams, chan, entry, ffmpeg, client>>

RefuseFallsThrough(r) ==  \* mutant: no return in the default case
    /\ pc[r] = "acquire"
    /\ streamSem >= SemCap
    /\ holds' = [holds EXCEPT ![r] = TRUE]
    /\ Goto(r, "watch")
    /\ UNCHANGED <<shared, counts, chan, entry, ffmpeg, client>>

(* Its default case: 503 "max streams are running", nothing deferred yet.  *)
Refuse(r) ==
    /\ pc[r] = "acquire"
    /\ streamSem >= SemCap
    /\ Goto(r, "release")
    /\ UNCHANGED <<shared, counts, local, client>>

(* Service.Watch looks the channel up again in the lineup of that moment.  *)
WatchLookup(r) ==
    /\ pc[r] = "watch"
    /\ Goto(r, IF chan[r] \in DOMAIN lineup THEN "posted" ELSE "release")
    /\ UNCHANGED <<shared, counts, local, client>>

WatchFailureKeepsToken(r) ==  \* mutant: the receive is not deferred
    /\ pc[r] = "posted"
    /\ \/ /\ client[r] # "gone"
          /\ Goto(r, "count")
          /\ UNCHANGED holds
       \/ /\ holds' = [holds EXCEPT ![r] = FALSE]
          /\ Goto(r, "release")
    /\ UNCHANGED <<shared, counts, chan, entry, ffmpeg, client>>

(* The device answers with a playlist, or the request fails, times out, is *)
(* cancelled, or carries no playlist_url.                                  *)
WatchReply(r) ==
    /\ pc[r] = "posted"
    /\ \/ client[r] # "gone" /\ Goto(r, "count")
       \/ Goto(r, "release")
    /\ UNCHANGED <<shared, counts, local, client>>

CountIn(r) ==
    /\ pc[r] = "count"
    /\ streams' = streams + 1
    /\ Goto(r, "spawn")
    /\ UNCHANGED <<shared, streamSem, local, client>>

SpawnFailureStaysCounted(r) ==  \* mutant: the decrement is not deferred
    /\ pc[r] = "spawn"
    /\ \/ /\ client[r] # "gone"
          /\ ffmpeg' = [ffmpeg EXCEPT ![r] = "running"]
          /\ Goto(r, "copy")
       \/ /\ Goto(r, "release")
          /\ UNCHANGED ffmpeg
    /\ UNCHANGED <<shared, counts, chan, entry, holds, client>>

(* StdoutPipe and Start; Start refuses a cancelled context.                *)
Spawn(r) ==
    /\ pc[r] = "spawn"
    /\ \/ /\ client[r] # "gone"
          /\ ffmpeg' = [ffmpeg EXCEPT ![r] = "running"]
          /\ Goto(r, "copy")
       \/ /\ Goto(r, "uncount")
          /\ UNCHANGED ffmpeg
    /\ UNCHANGED <<shared, counts, chan, entry, holds, client>>

(* io.Copy returns at the end of ffmpeg's output, once what ffmpeg wrote   *)
(* has been passed on, or when a write fails.                              *)
CopyEnds(r) ==
    /\ pc[r] = "copy"
    /\ \/ client[r] = "gone"
       \/ client[r] = "reading" /\ ffmpeg[r] = "exited"
    /\ Goto(r, "wait")
    /\ UNCHANGED <<shared, counts, local, client>>

(* cmd.Wait returns once the child has exited.                             *)
WaitEnds(r) ==
    /\ pc[r] = "wait"
    /\ ffmpeg[r] = "exited"
    /\ Goto(r, "uncount")
    /\ UNCHANGED <<shared, counts, local, client>>

(* The deferred calls run last-in first-out: the counter first ...         *)
Uncount(r) ==
    /\ pc[r] = "uncount"
    /\ streams' = streams - 1
    /\ Goto(r, "release")
    /\ UNCHANGED <<shared, streamSem, local, client>>

ReleaseAlways(r) ==  \* mutant: the receive is deferred for every entry type
    /\ pc[r] = "release"
    /\ streamSem' = streamSem - 1
    /\ holds'  = [holds EXCEPT ![r] = FALSE]
    /\ chan'   = [chan EXCEPT ![r] = NoChannel]
    /\ entry'  = [entry EXCEPT ![r] = "none"]
    /\ ffmpeg' = [ffmpeg EXCEPT ![r] = "none"]
    /\ client' = [client EXCEPT ![r] = "reading"]
    /\ Goto(r, "idle")
    /\ UNCHANGED <<shared, streams>>

(* ... then the receive from streamSem, if a token was taken.              *)
Release(r) ==
    /\ pc[r] = "release"
    /\ streamSem' = IF holds[r] THEN streamSem - 1 ELSE streamSem
    /\ holds'  = [holds EXCEPT ![r] = FALSE]
    /\ chan'   = [chan EXCEPT ![r] = NoChannel]
    /\ entry'  = [entry EXCEPT ![r] = "none"]
    /\ ffmpeg' = [ffmpeg EXCEPT ![r] = "none"]
    /\ client' = [client EXCEPT ![r] = "reading"]
    /\ Goto(r, "idle")
    /\ UNCHANGED <<shared, streams>>

(* ffmpeg ends by itself: the playlist ended or ffmpeg failed.             *)
FfmpegExits(r) ==
    /\ ffmpeg[r] = "running"
    /\ ffmpeg' = [ffmpeg EXCEPT ![r] = "exited"]
    /\ UNCHANGED <<shared, counts, pc, chan, entry, holds, client>>

NeverKilled(r) == FALSE /\ FfmpegExits(r)  \* mutant: exec.Command, no context

(* exec.CommandContext kills the child of a cancelled request.             *)
FfmpegKilled(r) ==
    /\ client[r] = "gone"
    /\ FfmpegExits(r)

HandlerStep(r) ==
    \/ Acquire(r) \/ Refuse(r) \/ WatchLookup(r) \/ WatchReply(r)
    \/ CountIn(r) \/ Spawn(r) \/ CopyEnds(r) \/ WaitEnds(r)
    \/ Uncount(r) \/ Release(r)

Next ==
    \/ SetProxyReady \/ ParseLineup \/ LoadCredentials
    \/ \E r \in Clients, c \in Channels : Serve(r, c)
    \/ \E r \in Clients :
         \/ HandlerStep(r)
         \/ Disconnect(r) \/ Stall(r) \/ Resume(r) \/ FfmpegExits(r)

Spec == Init /\ [][Next]_vars

(* A handler goroutine that can run does (the device call is bounded by    *)
(* the client's 60 s timeout), and the context's watcher kills ffmpeg.     *)
(* Clients, the lineup and ffmpeg's own end are not assumed fair: a client *)
(* need not leave, nor read what it is sent.                               *)
Fairness ==
    \A r \in Clients : WF_vars(HandlerStep(r)) /\ WF_vars(FfmpegKilled(r))

FairSpec == Spec /\ Fairness

-----------------------------------------------------------------------------
TypeOK ==
    /\ ready     \in BOOLEAN
    /\ lineup    \in Lineups
    /\ tuners    \in Int
    /\ streamSem \in Nat
    /\ streams   \in Int
    /\ pc        \in [Clients -> Steps]
    /\ chan      \in [Clients -> Channels \union {NoChannel}]
    /\ entry     \in [Clients -> Kinds \union {"none"}]
    /\ holds     \in [Clients -> BOOLEAN]
    /\ ffmpeg    \in [Clients -> {"none", "running", "exited"}]
    /\ client    \in [Clients -> {"reading", "stalled", "gone"}]

(* Every exit path of handleChannel gives back exactly what it took: the   *)
(* number of tokens in streamSem is the number of handlers that owe one.   *)
TokensMatchHolders == streamSem = Cardinality(Holders)

(* The counter shown as activeStreams is the number of handlers between    *)
(* the two AddInt64, whichever way each of them ended.                     *)
StreamsCounted == streams = Cardinality({r \in Clients : pc[r] \in Counted})

(* The purpose of streamSem: no more over-the-air ffmpeg children than its *)
(* capacity, even while the lineup is being replaced under the handlers.   *)
(* A child is over-the-air by the lookup that decided about its tuner; the *)
(* later one of Watch may see another kind (client.go:361).                *)
OtaWithinCap ==
    Cardinality({r \in Clients : ffmpeg[r] = "running" /\ entry[r] = "ota"})
      <= SemCap

(* The counting semaphore implements a pool that knows its holders.        *)
Pool == INSTANCE TunerPool WITH holders <- Holders, Cap <- SemCap

PoolImplemented == Pool!PoolSpec

(* A tuner comes back once its client has left, whatever ffmpeg does, and  *)
(* once its ffmpeg has ended, unless the client stays connected without    *)
(* reading: the defers run after io.Copy and cmd.Wait, and nothing but the *)
(* client bounds io.Copy then, so such a client keeps the tuner.           *)
EndedStreamFreesTuner ==
    \A r \in Clients :
        /\ (holds[r] /\ client[r] = "gone") ~> ~holds[r]
        /\ (holds[r] /\ ffmpeg[r] = "exited") ~> (~holds[r] \/ client[r] = "stalled")

(* What the log line "Server is running on %s with %d tuners." says: a     *)
(* client is told "max streams are running" only when that many tuners,    *)
(* the number TunerCount() advertises, are in use.                         *)
RefusedOnlyWhenTunersBusy ==
    [][\A r \in Clients : Refuse(r) => Cardinality(Holders) >= tuners]_vars
=============================================================================
