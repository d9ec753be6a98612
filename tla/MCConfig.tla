------------------------------ MODULE MCConfig ------------------------------
(* Instances of BootConfig, and so of RuntimeConfig, for TLC: the          *)
(* environment sets nothing, or a port and an empty address; the other     *)
(* sources set at most one setting.                                        *)
EXTENDS BootConfig

Nothing      == [f \in Settings |-> Unset]
Only(f, v)   == [Nothing EXCEPT ![f] = v]
Edited(f, v) == [Default EXCEPT ![f] = v]

MCEnvironments == {Nothing, [Only("Port", "p1") EXCEPT !["IPAddress"] = Empty]}
MCCommandLines == {Nothing, Only("Port", "p2")}
MCEnvFiles     == {Edited("Port", "p2"), Edited("IPAddress", "a2")}
MCNothing      == {Nothing}
MCNoFiles      == {}
=============================================================================
