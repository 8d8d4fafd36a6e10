------------------------------- MODULE DirectCallSystem -------------------------------
(***************************************************************************)
(* The direct-calling application: the gateway and the REST service, which *)
(* share the dm_calls collection and know nothing of each other's sockets, *)
(* timers and requests.                                                    *)
(***************************************************************************)
EXTENDS DirectCallGateway, DirectCallRest

systemVars == <<vars, restVars>>

SystemInit == Init /\ RestInit

(* One event at a time, on either side, unless Overlapping.                  *)
SystemNext ==
  \/ /\ Overlapping \/ Answered
     /\ GatewayNext
     /\ UNCHANGED restVars
  \/ /\ Overlapping \/ Quiet
     /\ RestNext
     /\ UNCHANGED gatewayVars

SystemSpec == SystemInit /\ [][SystemNext]_systemVars
=============================================================================
