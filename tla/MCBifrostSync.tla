---------------------------- MODULE MCBifrostSync ----------------------------
(* A bounded instance of BifrostSync: one provider, rule and config field the  *)
(* registry wants, one provider and config field it does not name.             *)
EXTENDS BifrostSync

MCOrder == <<"provider", "config", "routing-rule">>
MCIds == [kind \in {"provider", "config", "routing-rule"} |->
            CASE kind = "provider" -> {"p", "q"}
              [] kind = "config" -> {"f", "g"}
              [] kind = "routing-rule" -> {"s"}]
MCDesired == [kind \in {"provider", "config", "routing-rule"} |->
                CASE kind = "provider" -> [p |-> 1]
                  [] kind = "config" -> [f |-> 1]
                  [] kind = "routing-rule" -> [s |-> "p"]]

Cmd(d, f, p, ts) == [dryRun |-> d, failFast |-> f, prune |-> p, targets |-> ts]
MCOptions == {Cmd(FALSE, FALSE, TRUE, {}), Cmd(FALSE, TRUE, FALSE, {})}
=============================================================================
