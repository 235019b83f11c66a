--------------------------- MODULE MCAlertPipeline ---------------------------
(* Bounded instances of AlertPipeline: endpoints are named as in              *)
(* deploy/env/dashboard.env.example.                                          *)
EXTENDS AlertPipeline

MCName == [e \in Endpoints |-> e]
MCCritical == {"new-api", "bifrost", "nginx", "postgres"}
MCClewdr == {"clewdr-1", "clewdr-2"}

MCCore == <<"bifrost">>
=============================================================================
