---------------------------- MODULE MCModeControl ----------------------------
(***************************************************************************)
(* A plant with a periodic and a hybrid base mode, an islanding mode whose *)
(* hooks wait for a relay, and a stop.  The islanding override follows a   *)
(* condition with a cooldown, the automatic stop its alarm.                *)
(***************************************************************************)
EXTENDS ModeControl

MCModes == {"pq", "bypass", "island", "stop"}
MCPriority == [pq |-> 10, bypass |-> 50, island |-> 90, stop |-> 100]
MCKind == [pq |-> "periodic", bypass |-> "hybrid", island |-> "triggered",
           stop |-> "periodic"]

\* Either is an event override, the other one for the operators.
MCIslanding == <<"island">>
MCIslandingCooldown == [island |-> 1]
MCStopping == <<"stop">>
MCStoppingCooldown == [stop |-> 0]
=============================================================================
