----------------------------- MODULE PricingSync -----------------------------
(***************************************************************************)
(* `starapihub sync --target pricing': the pricing reconciler run by the   *)
(* orchestrator.  New-API keeps each kind of ratio as one option, a map    *)
(* from models to prices that operators edit too; an update reads the      *)
(* option again, merges the registry's prices into it and puts the whole   *)
(* map back, so a read and a write of the same run lie apart.              *)
(***************************************************************************)
EXTENDS SyncOrchestrator, Functions, SequencesExt

CONSTANTS
  Models,      \* model names
  Prices,      \* ratios a model can have
  ratioKeys,   \* the option keys, in the order Plan goes through them
  Desired,     \* Desired[k]: the registry's prices for option k, a map from models
  Garbage,     \* an option value that is not a JSON map of numbers
  Unread,      \* no map: the option has not been read yet
  Editing,     \* do operators edit options meanwhile?
  ReadMayFail  \* may reading the options fail?

Keys == {ratioKeys[i] : i \in DOMAIN ratioKeys}
PriceMap == UNION {[ms -> Prices] : ms \in SUBSET Models}
NoPrices == <<>>

ASSUME PricingAssumption ==
  /\ Order = <<"pricing">>
  /\ \A o \in Options : Selected(o) # {}   \* no target, or --target pricing
  /\ ratioKeys \in Seq(STRING) /\ IsInjective(ratioKeys)
  /\ Desired \in [Keys -> PriceMap]
  /\ Garbage \notin PriceMap /\ Unread \notin PriceMap
  /\ Editing \in BOOLEAN /\ ReadMayFail \in BOOLEAN

VARIABLES
  option,   \* option[k]: the value New-API has for option k
  snap,     \* snap[r]: the options run r fetched before planning
  queue,    \* queue[r]: option keys of the actions left of run r's plan
  merged,   \* merged[r]: the map run r is about to put, Unread before it has one
  quiet     \* quiet[r]: nobody but run r has changed an option since its fetch

pricingVars == <<option, snap, queue, merged, quiet>>
vars == <<orchVars, pricingVars>>

\* Unmarshal into a map; a value that does not parse leaves the map empty.
Parse(value) == IF value = Garbage THEN NoPrices ELSE value

NoOptions == [k \in Keys |-> NoPrices]

Init ==
  /\ OrchInit
  /\ option \in [Keys -> PriceMap \cup {Garbage}]
  /\ snap = [r \in Runs |-> NoOptions]
  /\ queue = [r \in Runs |-> <<>>]
  /\ merged = [r \in Runs |-> Unread]
  /\ quiet = [r \in Runs |-> FALSE]

-----------------------------------------------------------------------------
\* GetOptionsTyped, for the callers that take a failed read for no options.
OptionsRead == {option} \cup (IF ReadMayFail THEN {NoOptions} ELSE {})

\* fetchLiveState: a failed read is passed on as no options at all.
StartSync(r, o) ==
  /\ Start(r, o)
  /\ \E read \in OptionsRead : snap' = [snap EXCEPT ![r] = read]
  /\ queue' = [queue EXCEPT ![r] = <<>>]
  /\ merged' = [merged EXCEPT ![r] = Unread]
  /\ quiet' = [quiet EXCEPT ![r] = TRUE]
  /\ UNCHANGED option

\* Every desired entry of option k has its price in the map.
Covers(k, map) ==
  \A m \in DOMAIN Desired[k] : m \in DOMAIN map /\ map[m] = Desired[k][m]

\* Wrong: an option is due only when a price in it is wrong, not when it is missing.
DueChanged(live) ==
  {k \in Keys : \E m \in DOMAIN Desired[k] \cap DOMAIN Parse(live[k]) :
                   Parse(live[k])[m] # Desired[k][m]}

\* The options with a desired entry missing or different.
Due(live) == {k \in Keys : ~Covers(k, Parse(live[k]))}

InKeyOrder(acts) ==
  \A i, j \in DOMAIN acts : i < j =>
    \E p, q \in DOMAIN ratioKeys : p < q /\ acts[i] = ratioKeys[p] /\ acts[j] = ratioKeys[q]

\* Plan: one action for each option that is due, in the order of ratioKeys.
Plans(live) == {acts \in SetToSeqs(Due(live)) : InKeyOrder(acts)}

PlanPricing(r) ==
  \E acts \in Plans(snap[r]) :
    /\ PlanReturns(r, Len(acts))
    /\ queue' = [queue EXCEPT ![r] = IF opts[r].dryRun THEN <<>> ELSE acts]
    /\ snap' = [snap EXCEPT ![r] = NoOptions]
    /\ UNCHANGED <<option, merged, quiet>>

\* Wrong: the prices just read win over the registry's.
CurrentWins(k, current) == current @@ Desired[k]

\* The registry's prices over the current ones; other models keep theirs.
Merge(k, current) ==
  [m \in DOMAIN Desired[k] \cup DOMAIN current |->
     IF m \in DOMAIN Desired[k] THEN Desired[k][m] ELSE current[m]]

\* Apply, first half: read the options and merge.  The error of a failed read
\* is dropped, and the merge starts from an empty map.
ReadOption(r) ==
  LET k == Head(queue[r])
  IN  /\ phase[r] = "apply"
      /\ merged[r] = Unread
      /\ \E read \in OptionsRead :
           merged' = [merged EXCEPT ![r] = Merge(k, Parse(read[k]))]
      /\ UNCHANGED <<orchVars, option, snap, queue, quiet>>

\* Wrong: an action that failed is left in front, to be tried again.
KeepFailed(r) == queue

\* An action that failed is not verified: go on to the next one.
DropFailed(r) ==
  IF phase'[r] = "verify" THEN queue ELSE [queue EXCEPT ![r] = Tail(@)]

\* The put may be refused, which the success flag tells; its answer may be lost
\* after it was stored; a put replayed after a 5xx stores the same again.
PutOption(r, k, value) ==
  \/ /\ ApplySucceeds(r) \/ ApplyFails(r)
     /\ option' = [option EXCEPT ![k] = value]
     /\ quiet' = [s \in Runs |-> quiet[s] /\ s = r]
  \/ /\ ApplyFails(r)
     /\ UNCHANGED <<option, quiet>>

\* Apply, second half: put the map.
SaveOption(r) ==
  /\ phase[r] = "apply"
  /\ merged[r] # Unread
  /\ PutOption(r, Head(queue[r]), merged[r])
  /\ merged' = [merged EXCEPT ![r] = Unread]
  /\ queue' = DropFailed(r)
  /\ UNCHANGED snap

\* Verify reads the options once more and compares the desired entries only; a
\* missing or unreadable option is drift, a failed read is unverified.
VerifyPricing(r) ==
  LET value == option[Head(queue[r])]
      s == IF value # Garbage /\ Covers(Head(queue[r]), value)
           THEN "ok" ELSE "applied-with-drift"
  IN  /\ phase[r] = "verify"
      /\ VerifyReturns(r, s) \/ (ReadMayFail /\ VerifyReturns(r, "unverified"))
      /\ queue' = [queue EXCEPT ![r] = Tail(@)]
      /\ UNCHANGED <<option, snap, merged, quiet>>

-----------------------------------------------------------------------------
Ending(r) ==
  /\ queue' = [queue EXCEPT ![r] = <<>>]
  /\ snap' = [snap EXCEPT ![r] = NoOptions]
  /\ merged' = [merged EXCEPT ![r] = Unread]
  /\ UNCHANGED <<option, quiet>>

Finish(r) == (Return(r) \/ Exit(r)) /\ Ending(r)
Die(r) == Crash(r) /\ Ending(r)

\* An operator saves an option in the admin UI.
OperatorSaves(k, value) ==
  /\ Editing
  /\ value # option[k]
  /\ option' = [option EXCEPT ![k] = value]
  /\ quiet' = [r \in Runs |-> FALSE]
  /\ UNCHANGED <<orchVars, snap, queue, merged>>

Step(r) ==
  \/ PlanPricing(r)
  \/ ReadOption(r) \/ SaveOption(r)
  \/ VerifyPricing(r)
  \/ Finish(r)

Next ==
  \/ \E r \in Runs : \/ \E o \in Options : StartSync(r, o)
                     \/ Step(r)
                     \/ Die(r)
  \/ \E k \in Keys, value \in PriceMap : OperatorSaves(k, value)

Spec == Init /\ [][Next]_vars /\ \A r \in Runs : WF_vars(Step(r))

-----------------------------------------------------------------------------
\* Type invariant: every variable has the values the code gives it.
TypeOK ==
  /\ OrchTypeOK
  /\ option \in [Keys -> PriceMap \cup {Garbage}]
  /\ snap \in [Runs -> [Keys -> PriceMap \cup {Garbage}]]
  /\ queue \in [Runs -> Seq(Keys)]
  /\ \A r \in Runs : phase[r] \in {"apply", "verify"} => Len(queue[r]) = pending[r]
  /\ merged \in [Runs -> PriceMap \cup {Unread}]
  /\ quiet \in [Runs -> BOOLEAN]

\* Unmanaged models keep their prices: a step of a sync process changes an
\* option only at models the registry prices, whatever happened to the option
\* since the process read it.
UnmanagedPricesKept ==
  [][\A r \in Runs, k \in Keys :
       /\ queue'[r] # queue[r] \/ phase'[r] # phase[r]
       /\ option[k] # Garbage
       => LET Others(map) == Restrict(map, DOMAIN map \ DOMAIN Desired[k])
          IN  Others(option'[k]) = Others(option[k])]_vars

\* A run that reports no failure and no drift, and that nobody disturbed, has
\* left every desired price in place: planning again would return no action.  This holds for a run
\* that planned from a failed fetch and for one whose reads failed half-way.
CleanRunConverges ==
  \A r \in Runs :
    /\ phase[r] \in {"done", "exited"}
    /\ quiet[r] /\ ~opts[r].dryRun
    /\ report[r].failed = 0 /\ report[r].driftWarnings = 0
    => \A k \in Keys : Covers(k, Parse(option[k]))

\* Runs do not undo each other: an option that is as the registry wants it is
\* still so after any step of any sync process, on however old a read.
DesiredPricesStay ==
  [][\A k \in Keys :
       Covers(k, Parse(option[k])) => \/ Covers(k, Parse(option'[k]))
                                      \/ UNCHANGED <<orchVars, merged>>]_vars
=============================================================================
