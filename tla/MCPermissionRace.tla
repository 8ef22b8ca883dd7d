---------------------------- MODULE MCPermissionRace ---------------------------
(* A request of the main agent that everybody may answer, beside a teammate's. *)
EXTENDS PermissionRace, TLC

Racers == ("m1" :> Helpers) @@ ("t1" :> {"classifier"})
Hooked == ("m1" :> {"hook"}) @@ ("m2" :> {})
================================================================================
