----------------------------- MODULE MCModelsApi -----------------------------
(* A bounded instance of ModelsApi: two requests at once over two providers, *)
(* so that creates overlap in one provider or in both, or with an update, a  *)
(* wizard step or a delete.                                                  *)
EXTENDS ModelsApi

MCBodies ==
  {[kind |-> "create", providers |-> s, channel |-> "c"] : s \in {<<"p", "q">>, <<"q">>, << >>}}
  \union {[kind |-> "update", providers |-> <<"q", "q">>],
          [kind |-> "wizard-provider", providers |-> <<"p">>],
          [kind |-> "delete", id |-> "q"],
          [kind |-> "delete", id |-> "c"]}
=============================================================================
