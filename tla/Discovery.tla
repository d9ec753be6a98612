----------------------------- MODULE Discovery -----------------------------
(***************************************************************************)
(* How the proxy is found: the loop of internal/hdhr that answers          *)
(* HDHomeRun requests on UDP 65001, and the two loops of internal/ssdp,    *)
(* one that answers searches and says goodbye, one that announces.  They   *)
(* share with the rest of the program, which changes them at any time,     *)
(* Server.cfg, Server.proxyReady, Service.tuners and the root context.     *)
(*                                                                         *)
(* Only what is sent is of interest: the bytes of an HDHomeRun answer      *)
(* (HdhrFrames), and of an SSDP message the configuration its LOCATION     *)
(* and USN come from.  A datagram may arrive whenever a loop reads; one    *)
(* that is lost needs no action.  proxyReady never goes back to false, so  *)
(* where nothing else is read in between, the test of it and the read of   *)
(* the configuration after it are one step.                                *)
(***************************************************************************)
EXTENDS HdhrFrames

CONSTANTS
    Configs,     \* [DeviceID, ServerURL]
    Tuners,      \* values of Service.tuners
    Requests,    \* HDHomeRun requests: [type, id, pad, damage], see Packet
    Searches,    \* what an SSDP datagram asks for: see Supported
    Sockets,     \* the sets of services whose socket could be opened
    MaxFailures, \* bound on the writes that fail
    None         \* no datagram, no answer

ASSUME SocketsAssumption == Sockets \subseteq SUBSET {"hdhr", "ssdp"}
ASSUME FailuresAssumption == MaxFailures \in Nat

(* A datagram holds fewer than 65536 bytes, so no text of more than        *)
(* MaxText is considered, in a configuration or a request.                 *)
MaxText == 32000
Damages == {"none", "bits", "cut", "reply"}
ASSUME ConfigsAssumption ==
    \A c \in Configs :
        /\ c \in [DeviceID : Seq(0 .. 16), ServerURL : Bytes]
        /\ Len(c.DeviceID) <= 8 /\ Len(c.ServerURL) <= MaxText
ASSUME TunersAssumption   == Tuners \subseteq Int
ASSUME RequestsAssumption ==
    /\ Requests \subseteq [type : U32, id : U32, pad : 0 .. MaxText, damage : Damages]
    /\ None \notin Requests

Notifications == 1 .. 3  \* rootdevice, MediaServer, HDHomeRun, in this order

VARIABLES
    cfg, ready, tuners, stopping,  \* Server.cfg, proxyReady, Service.tuners, ctx.Err()
    hdhr,      \* hdhr.Run: next step
    request,   \* the datagram it works on
    hcfg,      \* the configuration it has read
    cfgs, counts, \* history: the configurations and tuner counts since it took the datagram
    answer,    \* history: its answer to the last datagram
    ssdp,      \* ssdp.Run: next step
    scfg,      \* the configuration it has read
    announcer, \* announceLoop: next step
    acfg, sent,\* the configuration it has read, the notifications sent of it
    ticked,    \* ticker.C holds a tick
    heard,     \* what a control point has heard last, per notification
    failures   \* writes that failed so far

shared == <<cfg, ready, tuners, stopping>>
hvars  == <<hdhr, request, hcfg, cfgs, counts, answer>>
svars  == <<ssdp, scfg>>
avars  == <<announcer, acfg, sent, ticked>>
vars   == <<shared, hvars, svars, avars, heard, failures>>

Init ==
    /\ cfg \in Configs /\ ready = FALSE /\ tuners \in Tuners /\ stopping = FALSE
    /\ request = None /\ answer = None
    /\ hcfg = cfg /\ cfgs = {} /\ counts = {}
    /\ scfg = cfg
    /\ acfg = cfg /\ sent = 0 /\ ticked = FALSE
    /\ heard = [n \in Notifications |-> None]
    /\ failures = 0
    /\ \E open \in Sockets :
         /\ hdhr = IF "hdhr" \in open THEN "read" ELSE "off"
         /\ ssdp = IF "ssdp" \in open THEN "read" ELSE "off"
         /\ announcer = IF "ssdp" \in open THEN "alive" ELSE "off"

-----------------------------------------------------------------------------
(* The rest of the program and the network.                                *)

SetConfig ==
    /\ cfg' \in Configs \ {cfg}
    /\ cfgs' = IF request = None THEN cfgs ELSE cfgs \union {cfg'}
    /\ UNCHANGED <<ready, tuners, stopping, hdhr, request, hcfg, counts,
                   answer, svars, avars, heard, failures>>

SetProxyReady ==
    /\ ~ready /\ ready' = TRUE
    /\ UNCHANGED <<cfg, tuners, stopping, hvars, svars, avars, heard, failures>>

SetTuners ==
    /\ tuners' \in Tuners \ {tuners}
    /\ counts' = IF request = None THEN counts ELSE counts \union {tuners'}
    /\ UNCHANGED <<cfg, ready, stopping, hdhr, request, hcfg, cfgs,
                   answer, svars, avars, heard, failures>>

Signal ==
    /\ ~stopping /\ stopping' = TRUE
    /\ UNCHANGED <<cfg, ready, tuners, hvars, svars, avars, heard, failures>>

(* main returns once the HTTP server is told to shut down, without waiting *)
(* for the goroutines.                                                     *)
Exit ==
    /\ stopping
    /\ hdhr' = "off" /\ ssdp' = "off" /\ announcer' = "off"
    /\ UNCHANGED <<shared, request, hcfg, cfgs, counts, answer, scfg, acfg, sent,
                   ticked, heard, failures>>

TickerFires ==
    /\ announcer # "off" /\ ~ticked /\ ticked' = TRUE
    /\ UNCHANGED <<shared, hvars, svars, announcer, acfg, sent, heard, failures>>

WriteFails == failures < MaxFailures /\ failures' = failures + 1

-----------------------------------------------------------------------------
(* The packet of a request, as a client builds it (BuildDiscoveryRequest): *)
(* a field the proxy does not know, with pad bytes, may come first; damage *)
(* is done to the packet or the payload.                                   *)
Packet(r) ==
    LET payload == Tlv(127, [i \in 1 .. r.pad |-> 3])
                   \o Tlv(tagDeviceType, r.type) \o Tlv(tagDeviceID, r.id)
        whole   == SealFrame(packetDiscoverRequest, payload)
    IN  CASE r.damage = "none"    -> whole
          [] r.damage = "bits"    -> [whole EXCEPT !.head[5] = 99]
          [] r.damage = "cut"     -> SealFrame(packetDiscoverRequest,
                                         SubSeq(payload, 1, Len(payload) - 1))
          [] r.damage = "reply"   -> SealFrame(packetDiscoverReply, payload)

(* hdhr.Run.  A read that times out, nothing having arrived for a second,  *)
(* is the only moment at which it looks at its context.                    *)
HdhrRead ==
    /\ hdhr = "read" /\ hdhr' = "ready"
    /\ request' \in Requests
    /\ cfgs' = {cfg} /\ counts' = {tuners} /\ answer' = None
    /\ UNCHANGED <<shared, hcfg, svars, avars, heard, failures>>

HdhrTimeout ==
    /\ hdhr = "read" /\ stopping
    /\ hdhr' = "off"
    /\ UNCHANGED <<shared, request, hcfg, cfgs, counts, answer, svars, avars,
                   heard, failures>>

HdhrNext ==  \* the next turn of the loop
    /\ hdhr' = "read" /\ request' = None /\ cfgs' = {} /\ counts' = {}

HdhrReady ==
    /\ hdhr = "ready"
    /\ IF ready THEN hdhr' = "cfg" /\ UNCHANGED <<request, cfgs, counts>>
                ELSE HdhrNext
    /\ UNCHANGED <<shared, hcfg, answer, svars, avars, heard, failures>>

HdhrConfig ==
    /\ hdhr = "cfg" /\ hcfg' = cfg /\ hdhr' = "tuners"
    /\ UNCHANGED <<shared, request, cfgs, counts, answer, svars, avars,
                   heard, failures>>

(* The tuner count is read and the response made and written: the making   *)
(* reads nothing that others write.                                        *)
HdhrAnswer ==
    /\ hdhr = "tuners"
    /\ LET response == DiscoveryResponse(hcfg, tuners, Received(Packet(request)))
       IN  \/ /\ response # Malformed
              /\ answer' = [to |-> request, packet |-> response,
                            cfgs |-> cfgs, counts |-> counts]
              /\ UNCHANGED failures
           \/ response # Malformed /\ WriteFails /\ UNCHANGED answer
           \/ response = Malformed /\ UNCHANGED <<answer, failures>>
    /\ HdhrNext
    /\ UNCHANGED <<shared, hcfg, svars, avars, heard>>

-----------------------------------------------------------------------------
(* ssdp.Run.                                                               *)

(* supportedSearchTarget; "notify" stands for what is not an M-SEARCH.     *)
Supported(s) == s \in {"all", "rootdevice", "hdhomerun", "mediaserver"}

SsdpRead ==
    /\ ssdp = "read" /\ ready
    /\ \E s \in Searches : Supported(s)
    /\ ssdp' = "answer" /\ scfg' = cfg
    /\ UNCHANGED <<shared, hvars, avars, heard, failures>>

(* The answer goes to the one who asked.                                   *)
SsdpAnswer ==
    /\ ssdp = "answer"
    /\ \/ UNCHANGED failures
       \/ WriteFails
    /\ ssdp' = "read"
    /\ UNCHANGED <<shared, hvars, scfg, avars, heard>>

(* A timeout with the context done: sendByebye, whose errors are ignored,  *)
(* and the socket is closed.                                               *)
SsdpTimeout ==
    /\ ssdp = "read" /\ stopping
    /\ ssdp' = IF ready THEN "bye" ELSE "off"
    /\ scfg' = IF ready THEN cfg ELSE scfg
    /\ UNCHANGED <<shared, hvars, avars, heard, failures>>

Message(kind, c) == [kind |-> kind, cfg |-> c]

SsdpBye ==
    /\ ssdp = "bye"
    /\ ssdp' = "off"
    /\ \E lost \in SUBSET Notifications :
         heard' = [n \in Notifications |->
                     IF n \in lost THEN heard[n] ELSE Message("byebye", scfg)]
    /\ UNCHANGED <<shared, hvars, scfg, avars, failures>>

-----------------------------------------------------------------------------
(* announceLoop and sendAlive.                                             *)

AliveGivesUp ==  \* mutant: the loop ends when there is nothing to announce
    /\ announcer = "alive"
    /\ announcer' = IF ready THEN "write" ELSE "off"
    /\ acfg' = IF ready THEN cfg ELSE acfg
    /\ sent' = 0
    /\ UNCHANGED <<shared, hvars, svars, ticked, heard, failures>>

AliveBlindly ==  \* mutant: s.ready() is not consulted
    /\ announcer = "alive"
    /\ announcer' = "write"
    /\ acfg' = cfg
    /\ sent' = 0
    /\ UNCHANGED <<shared, hvars, svars, ticked, heard, failures>>

Alive ==
    /\ announcer = "alive"
    /\ announcer' = IF ready THEN "write" ELSE "wait"
    /\ acfg' = IF ready THEN cfg ELSE acfg
    /\ sent' = 0
    /\ UNCHANGED <<shared, hvars, svars, ticked, heard, failures>>

AliveSendsFour ==  \* mutant: the loop runs once too often
    /\ announcer = "write" /\ ssdp # "off"
    /\ heard' = [heard EXCEPT ![(sent % 3) + 1] = Message("alive", acfg)]
    /\ sent' = sent + 1
    /\ announcer' = IF sent = 3 THEN "wait" ELSE "write"
    /\ UNCHANGED <<shared, hvars, svars, acfg, ticked, failures>>

(* One notification; after one that fails the others are not sent.         *)
AliveWrite ==
    /\ announcer = "write"
    /\ \/ /\ ssdp # "off"
          /\ heard' = [heard EXCEPT ![sent + 1] = Message("alive", acfg)]
          /\ sent' = sent + 1
          /\ announcer' = IF sent + 1 = 3 THEN "wait" ELSE "write"
          /\ UNCHANGED failures
       \/ /\ ssdp = "off"  \* the socket is closed
          /\ announcer' = "wait" /\ UNCHANGED <<heard, sent, failures>>
       \/ WriteFails /\ announcer' = "wait" /\ UNCHANGED <<heard, sent>>
    /\ UNCHANGED <<shared, hvars, svars, acfg, ticked>>

(* The select: with both ready either case may be taken.                   *)
AliveTick ==
    /\ announcer = "wait" /\ ticked
    /\ ticked' = FALSE /\ announcer' = "alive"
    /\ UNCHANGED <<shared, hvars, svars, acfg, sent, heard, failures>>

AliveDone ==
    /\ announcer = "wait" /\ stopping
    /\ announcer' = "off"
    /\ UNCHANGED <<shared, hvars, svars, acfg, sent, ticked, heard, failures>>

-----------------------------------------------------------------------------
Hdhr     == HdhrTimeout \/ HdhrReady \/ HdhrConfig \/ HdhrAnswer
Ssdp     == SsdpAnswer \/ SsdpTimeout \/ SsdpBye
Announce == Alive \/ AliveWrite \/ AliveTick \/ AliveDone
Outside  == SetConfig \/ SetProxyReady \/ SetTuners \/ Signal \/ Exit
Arrival  == HdhrRead \/ SsdpRead

Next == Hdhr \/ Ssdp \/ Announce \/ TickerFires \/ Outside \/ Arrival

Spec == Init /\ [][Next]_vars

(* hdhr.Run does not stay where it is, unless it waits for a datagram.     *)
HdhrRuns ==
    /\ hdhr \in {"ready", "cfg", "tuners"} \/ (hdhr = "read" /\ stopping)
    /\ hdhr' \in {"off", "read", "ready", "cfg", "tuners"} \ {hdhr}

(* The three goroutines run and the ticker ticks; nothing else is promised:*)
(* settings may never change, datagrams never come.                        *)
FairSpec == Spec /\ WF_hdhr(HdhrRuns) /\ WF_vars(Ssdp) /\ WF_vars(Announce)
                 /\ WF_vars(TickerFires)

-----------------------------------------------------------------------------
Messages == [kind : {"alive", "byebye"}, cfg : Configs]

TypeOK ==
    /\ cfg \in Configs /\ ready \in BOOLEAN /\ tuners \in Tuners /\ stopping \in BOOLEAN
    /\ hdhr \in {"off", "read", "ready", "cfg", "tuners"}
    /\ request \in Requests \union {None} /\ hcfg \in Configs
    /\ cfgs \subseteq Configs /\ counts \subseteq Tuners
    /\ answer # None => /\ answer.to \in Requests
                        /\ answer.packet.head \in Bytes /\ answer.packet.crc \in Bytes
    /\ ssdp \in {"off", "read", "answer", "bye"} /\ scfg \in Configs
    /\ announcer \in {"off", "alive", "write", "wait"} /\ acfg \in Configs
    /\ sent \in 0 .. 3 /\ ticked \in BOOLEAN
    /\ heard \in [Notifications -> Messages \union {None}]
    /\ failures \in 0 .. MaxFailures

(* What a request asks, told from the request and not from its bytes.  One *)
(* too long for the buffer of the proxy is lost on it.                     *)
Addressed(r, c) ==
    /\ r.damage = "none" /\ Fits(Packet(r))
    /\ r.type \in {wildcard, deviceTypeTuner}
    /\ r.id \in {wildcard, ParseDeviceID(c.DeviceID)}

(* What a client reads in an answer made of c and t.                       *)
Promised(c, t) ==
    << [tag |-> tagDeviceType, value |-> deviceTypeTuner],
       [tag |-> tagDeviceID,   value |-> ParseDeviceID(c.DeviceID)],
       [tag |-> tagTunerCount, value |-> <<IF t <= 0 THEN 2 ELSE t>>],
       [tag |-> tagBaseURL,    value |-> TrimRight(c.ServerURL)],
       [tag |-> tagLineupURL,  value |-> TrimRight(c.ServerURL) \o lineupPath] >>

(* An answer goes only to a request that arrived intact and whole and asks *)
(* for this device, and reads as one configuration and one tuner count that were in *)
(* force while it was made, whatever changed meanwhile and however long    *)
(* the URLs are.                                                           *)
AnswersFaithful ==
    answer # None =>
        \E c \in answer.cfgs, t \in answer.counts :
            /\ Addressed(answer.to, c)
            /\ OpenFrame(answer.packet).type = packetDiscoverReply
            /\ Fields(OpenFrame(answer.packet).payload) = Promised(c, t)

(* Nothing is said to the network before the proxy is active: no answer,   *)
(* no search response, no notification.                                    *)
SilentUntilReady ==
    answer # None \/ ssdp = "answer" \/ (\E n \in Notifications : heard[n] # None)
        => ready

(* A request for this device that has arrived whole once the proxy is      *)
(* active is answered, unless a write failed or the process is stopping.             *)
ForUs == request # None /\ \A c \in Configs : Addressed(request, c)
RequestAnswered ==
    hdhr = "ready" /\ ready /\ ForUs ~> answer # None \/ failures > 0 \/ stopping

(* Once the configuration no longer changes, a control point has heard of  *)
(* the active proxy, by all three notifications, and at its present URL:   *)
(* the announcements outlive failed writes, changes and an activation that *)
(* comes long after the start ("Advertises itself on the LAN ... so Plex   *)
(* can discover it", README.md:8).                                         *)
Announced(c) ==
    \A n \in Notifications : heard[n] = Message("alive", c)
AnnouncementsConverge ==
    \A c \in Configs :
        <>[](cfg = c /\ ready /\ ~stopping /\ ssdp # "off") => <>[]Announced(c)
=============================================================================
