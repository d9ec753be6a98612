----------------------------- MODULE TunerPool -----------------------------
(***************************************************************************)
(* What the proxy promises about concurrent over-the-air streams: a pool   *)
(* of Cap tuners, each held by at most one client, handed out only while   *)
(* one is free and handed back by the client that took it.  The channel    *)
(* streamSem of internal/server/server.go is meant to implement it with a  *)
(* count; module Streams shows that it does.                               *)
(***************************************************************************)
EXTENDS Integers, FiniteSets

CONSTANTS Clients,  \* the connections that may ask for a tuner
          Cap       \* the number of tuners in the pool

VARIABLE holders    \* the clients that hold a tuner

PoolInit == holders = {}

Take(r) ==
    /\ r \notin holders
    /\ Cardinality(holders) < Cap
    /\ holders' = holders \union {r}

GiveBack(r) ==
    /\ r \in holders
    /\ holders' = holders \ {r}

PoolNext == \E r \in Clients : Take(r) \/ GiveBack(r)

PoolSpec == PoolInit /\ [][PoolNext]_holders
=============================================================================
