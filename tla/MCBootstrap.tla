----------------------------- MODULE MCBootstrap -----------------------------
(* A bounded instance of Bootstrap: New-API with two channels, one of them     *)
(* registered under a key that is another channel's name, beside Bifrost.     *)
EXTENDS Bootstrap

MCHome == [r \in Resources |-> "new-api"]
Flags(d, e, y) == [dryRun |-> d, skipSeed |-> e, skipSync |-> y]
MCOptions == {Flags(FALSE, FALSE, FALSE), Flags(FALSE, TRUE, FALSE),
              Flags(FALSE, FALSE, TRUE), Flags(TRUE, FALSE, FALSE),
              Flags(TRUE, FALSE, TRUE)}
=============================================================================
