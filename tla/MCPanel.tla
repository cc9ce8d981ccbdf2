------------------------------- MODULE MCPanel -------------------------------
(* The panel's smaller components and the guard's.  They share no state, so an  *)
(* instance of each is explored on its own: the first state picks the           *)
(* component, and the others stay as they began.                                *)
EXTENDS Streams, Webhooks, Guard, GeoCache, Jails, Ports, TLC

VARIABLE part

CONSTANTS t1, t2, t3, panel, guardian

MCProcOf == (t1 :> panel) @@ (t2 :> panel) @@ (t3 :> guardian)

Parts == {"streams", "webhooks", "guard", "geo", "jails", "ports"}

Init == /\ part \in Parts
        /\ StreamInit /\ HookInit /\ GuardInit /\ GeoInit /\ JailInit /\ PortsInit

StreamStep ==
    /\ part = "streams" /\ StreamNext
    /\ UNCHANGED <<part, hookVars, guardVars, geoVars, jailVars, portVars>>
HookStep ==
    /\ part = "webhooks" /\ HookNext
    /\ UNCHANGED <<part, streamVars, guardVars, geoVars, jailVars, portVars>>
GuardStep ==
    /\ part = "guard" /\ GuardNext
    /\ UNCHANGED <<part, streamVars, hookVars, geoVars, jailVars, portVars>>
GeoStep ==
    /\ part = "geo" /\ GeoNext
    /\ UNCHANGED <<part, streamVars, hookVars, guardVars, jailVars, portVars>>
JailStep ==
    /\ part = "jails" /\ JailNext
    /\ UNCHANGED <<part, streamVars, hookVars, guardVars, geoVars, portVars>>
PortsStep ==
    /\ part = "ports" /\ PortsNext
    /\ UNCHANGED <<part, streamVars, hookVars, guardVars, geoVars, jailVars>>

Next == \/ StreamStep \/ HookStep \/ GuardStep \/ GeoStep \/ JailStep \/ PortsStep

vars == <<part, streamVars, hookVars, guardVars, geoVars, jailVars, portVars>>

Spec == Init /\ [][Next]_vars /\ StreamFair
=============================================================================
