---------------------------- MODULE MCDiscovery ----------------------------
(* An instance of Discovery for TLC: a short and a long URL (the lineup    *)
(* URL of the long one takes a two-byte length), requests for every type   *)
(* and identifier, one with a long unknown field, one that just fills the  *)
(* buffer of the proxy and one a byte longer, one of each damage.  The two *)
(* services share only what neither changes: one at a time has a socket.   *)
EXTENDS Discovery

url(n) == [i \in 1 .. n |-> 65]
MCConfigs  == { [DeviceID |-> <<1, 2, 3, 4, 5, 6, 7, 9>>, ServerURL |-> url(8)],
                [DeviceID |-> <<10, 11>>, ServerURL |-> Append(url(120), Slash)] }
MCSockets  == { {"hdhr"}, {"ssdp"} }

other == <<0, 0, 0, 5>>
Intact(types, ids, pads) ==
    { [type |-> t, id |-> i, pad |-> p, damage |-> "none"] :
        t \in types, i \in ids, p \in pads }
MCRequests ==
    Intact({wildcard, deviceTypeTuner, other}, {wildcard, <<0, 0, 0, 171>>, other}, {1})
    \union Intact({deviceTypeTuner}, {defaultDeviceID}, {0})
    \union { [type |-> wildcard, id |-> wildcard, pad |-> 0, damage |-> d] :
               d \in {"bits", "cut", "reply"} }
    \union Intact({wildcard}, {wildcard}, {300, 1437, 1438})
=============================================================================
