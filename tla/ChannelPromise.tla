--------------------------- MODULE ChannelPromise ---------------------------
(***************************************************************************)
(* What `starapihub sync --target channel' promises about New-API's        *)
(* channel table, whoever runs it and however often, as long as nobody     *)
(* else changes the table.  A process looks at the table, or fails to, and *)
(* adds from then on only what it saw missing, each channel once; besides  *)
(* that it corrects channels of the registry's names and removes channels  *)
(* nobody asked for or was billed for.                                     *)
(*                                                                         *)
(* It does not promise that there are no two channels of one name: two     *)
(* processes that look before either adds both add, and one that could not *)
(* look adds everything.  ChannelSync, with its plans, snapshots, lost     *)
(* answers and crashes, implements this specification.                     *)
(***************************************************************************)
CONSTANTS Keys, Names, Main, Rest, Desired, Processes

VARIABLES
  table,   \* channels by id: [name, main, rest, used]
  may      \* may[p]: the entries process p may still add

pvars == <<table, may>>

Row == [name : Names, main : Main, rest : Rest, used : BOOLEAN]
Wanted == {Desired[k].name : k \in Keys}
Missing == {k \in Keys : \A i \in DOMAIN table : table[i].name # Desired[k].name}

Init ==
  /\ table \in [DOMAIN table -> Row]
  /\ may = [p \in Processes |-> {}]

\* A process gives up what it might have added.
GivesUp(p, keys) == \E rest \in SUBSET keys : may' = [may EXCEPT ![p] = rest]

\* A process reads which entries are missing, or cannot read and takes them all
\* for missing.
Look(p) ==
  /\ \E keys \in {Missing, Keys} : may' = [may EXCEPT ![p] = keys]
  /\ UNCHANGED table

Forget(p) == GivesUp(p, may[p]) /\ UNCHANGED table

\* A channel the process saw missing appears, as the registry describes it.
Add(p, k, i) ==
  /\ k \in may[p] /\ GivesUp(p, may[p] \ {k})
  /\ i \notin DOMAIN table
  /\ table' = [j \in DOMAIN table \cup {i} |->
                 IF j = i THEN [name |-> Desired[k].name, main |-> Desired[k].main,
                                rest |-> Desired[k].rest, used |-> FALSE]
                          ELSE table[j]]

\* Fields of a channel the registry names become the registry's; its billing
\* record stays.
Correct(p, k, i) ==
  /\ GivesUp(p, may[p])
  /\ table[i].name = Desired[k].name
  /\ \E m \in {table[i].main, Desired[k].main}, x \in {table[i].rest, Desired[k].rest} :
       table' = [table EXCEPT ![i].main = m, ![i].rest = x]

\* A channel nobody asked for and nobody was billed for disappears.
Remove(p, i) ==
  /\ GivesUp(p, may[p])
  /\ table[i].name \notin Wanted
  /\ ~table[i].used
  /\ table' = [j \in DOMAIN table \ {i} |-> table[j]]

Next ==
  \E p \in Processes :
    \/ Look(p) \/ Forget(p)
    \/ \E k \in Keys : \E i \in DOMAIN table' : Add(p, k, i)
    \/ \E i \in DOMAIN table : Remove(p, i) \/ \E k \in Keys : Correct(p, k, i)

Spec == Init /\ [][Next]_pvars
=============================================================================
