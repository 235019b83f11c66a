---------------------------- MODULE MCPricingSync ----------------------------
(* Bounded instances of PricingSync: two of the four options; each of the     *)
(* two models is priced by the registry in one option and by hand in the      *)
(* other.                                                                     *)
EXTENDS PricingSync

MCOrder == <<"pricing">>
MCRatioKeys == <<"ModelRatio", "CompletionRatio">>
MCDesired == [ModelRatio |-> [a |-> 1], CompletionRatio |-> [z |-> 1]]
Cmd(d, f) == [dryRun |-> d, failFast |-> f, prune |-> FALSE, targets |-> {"pricing"}]
MCOptions == {Cmd(TRUE, FALSE), Cmd(FALSE, FALSE), Cmd(FALSE, TRUE)}
MCPlain == {Cmd(FALSE, FALSE)}
=============================================================================
