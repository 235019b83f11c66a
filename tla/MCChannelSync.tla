---------------------------- MODULE MCChannelSync ----------------------------
(* Bounded instances of ChannelSync.  The registry key of the first entry is   *)
(* its display name; that of the second ("b") is not, as in                    *)
(* policies/channels.yaml, and may be the name of a channel nobody asked for.  *)
EXTENDS ChannelSync

MCOrder == <<"channel">>

Cmd(d, f, p) == [dryRun |-> d, failFast |-> f, prune |-> p, targets |-> {"channel"}]

MCAllOptions == {Cmd(TRUE, FALSE, TRUE), Cmd(FALSE, FALSE, FALSE),
                 Cmd(FALSE, TRUE, TRUE)}
MCPrune == {Cmd(FALSE, FALSE, TRUE)}

Entry(n) == [name |-> n, main |-> 1, rest |-> 1]
MCDesired == [a |-> Entry("a"), b |-> Entry("B")]
MCOne == [k \in {"b"} |-> Entry("B")]
=============================================================================
