---------------------------- MODULE MCStatusRows ----------------------------
(***************************************************************************)
(* A system_monitor with a PLC-CV service on its own host and a drift      *)
(* service on another, so that its peers' hosts answer before and after    *)
(* its own.                                                                *)
(***************************************************************************)
EXTENDS StatusRows, TLC

CONSTANTS sys, cam, api, h1, h2

AllPipelines == {sys, cam, api}
AllKinds == (sys :> "sys" @@ cam :> "cv" @@ api :> "drift")
AllConditions == (sys :> {"good"} @@ cam :> {"good", "part"}
                  @@ api :> {"good", "part"})
HostsOf == (sys :> h1 @@ cam :> h1 @@ api :> h2)
Monitors == [s \in AllPipelines |-> h1]
=============================================================================
