------------------------------ MODULE MCGuide ------------------------------
(* An instance of Guide for TLC: one channel of each kind; the guide and   *)
(* the lineup scheduler, in two directories and with two changes of any    *)
(* kind; beside an admin's refreshes of the guide; and beside an admin's   *)
(* refreshes of the lineup, with a change.                                 *)
EXTENDS Guide

MCAccount == <<"ota", "ott">>
MCOtt     == {"ott"}
MCSetups  ==
    { [admins |-> {}, liners |-> {"lineup"}, dirs |-> {"d1", "d2"}, changes |-> 2],
      [admins |-> {"admin"}, liners |-> {"lineup"}, dirs |-> {"d1"}, changes |-> 0],
      [admins |-> {}, liners |-> {"lineup", "request"}, dirs |-> {"d1"}, changes |-> 1] }
=============================================================================
