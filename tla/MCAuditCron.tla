----------------------------- MODULE MCAuditCron -----------------------------
(* A bounded instance of AuditCron: three of the six reconcilers, so that a   *)
(* target list can leave out the first, a middle or the last one, and plans   *)
(* of at most two actions, so that a failure can have actions of its own      *)
(* reconciler and of a later one behind it; room in the log for an entry      *)
(* before and an entry after a failed one.                                    *)
EXTENDS AuditCron

MCOrder == <<"provider", "channel", "pricing">>

Flags(d, f, n, t) == [dryRun |-> d, failFast |-> f, prune |-> FALSE, noAudit |-> n,
                      targets |-> t]

MCOptions == {Flags(FALSE, FALSE, FALSE, {"channel", "pricing"}),
              Flags(FALSE, TRUE, FALSE, {}),
              Flags(TRUE, FALSE, FALSE, {}),
              Flags(FALSE, FALSE, TRUE, {"provider"})}
=============================================================================
