----------------------------- MODULE BifrostSync -----------------------------
(***************************************************************************)
(* `starapihub sync --target provider,config,routing-rule': the three      *)
(* reconcilers that write to Bifrost, run by the orchestrator one after    *)
(* the other from a snapshot all three read before the first plan.         *)
(*                                                                         *)
(* Bifrost holds providers and routing rules by id and a global config by  *)
(* field.  A routing rule is known by the provider it sends traffic to.    *)
(***************************************************************************)
EXTENDS SyncOrchestrator, Functions, SequencesExt

CONSTANTS
  Ids,          \* ids of providers, ids of rules and names of config fields
  Settings,     \* values of a provider or a config field
  Desired,      \* Desired[kind]: the registry's entries, a map from ids
  Absent,       \* kinds whose registry file may be missing when it is loaded
  Unresolved,   \* providers with a key whose environment variable may not be set
  Unfetched,    \* the snapshot's config when it could not be read
  World,        \* ids that others change in Bifrost meanwhile
  FetchMayFail, \* may one of the reads before planning fail?
  MayDie        \* may the process be killed?

Tables == {"provider", "routing-rule"}
Kinds == Tables \cup {"config"}
Value(kind) == IF kind = "routing-rule" THEN Ids["provider"] ELSE Settings

\* What Bifrost can hold: any ids in the tables, every field in the config.
Contents(kind) ==
  IF kind = "config" THEN [Ids[kind] -> Value(kind)]
                     ELSE UNION {[ids -> Value(kind)] : ids \in SUBSET Ids[kind]}

ASSUME BifrostAssumption ==
  /\ Order = <<"provider", "config", "routing-rule">>
  /\ DOMAIN Desired = Kinds /\ DOMAIN Ids = Kinds
  /\ \A kind \in Kinds : IsFiniteSet(Ids[kind])
  /\ \A kind \in Kinds : /\ DOMAIN Desired[kind] \subseteq Ids[kind]
                         /\ \A id \in DOMAIN Desired[kind] : Desired[kind][id] \in Value(kind)
  /\ \A id \in DOMAIN Desired["routing-rule"] :
       Desired["routing-rule"][id] \in DOMAIN Desired["provider"]
  /\ Absent \subseteq Tables
  /\ Unresolved \subseteq DOMAIN Desired["provider"]
  /\ FetchMayFail \in BOOLEAN /\ MayDie \in BOOLEAN

VARIABLES
  live,    \* live[kind]: what Bifrost holds
  snap,    \* snap[r]: what run r fetched of it before planning
  queue,   \* queue[r]: the actions left of the plan run r works through
  quiet    \* quiet[r]: nobody but run r has changed Bifrost since its fetch

bifrostVars == <<live, snap, queue, quiet>>
vars == <<orchVars, bifrostVars>>

BifrostAction ==
  [type : {"create", "update", "delete"},
   id : {"bifrost-global"} \cup UNION {Ids[kind] : kind \in Kinds}]
Nothing == [kind \in Kinds |-> IF kind = "config" THEN Unfetched ELSE <<>>]

Init ==
  /\ OrchInit
  /\ \E p \in Contents("provider"), c \in Contents("config"), g \in Contents("routing-rule") :
       live = [kind \in Kinds |-> CASE kind = "provider" -> p
                                    [] kind = "config" -> c
                                    [] kind = "routing-rule" -> g]
  /\ snap = [r \in Runs |-> Nothing]
  /\ queue = [r \in Runs |-> <<>>]
  /\ quiet = [r \in Runs |-> FALSE]

-----------------------------------------------------------------------------
\* The typed reads: what Bifrost holds, whole, or an error.
Fetched(unread) ==
  [kind \in Kinds |-> IF kind \in unread THEN Nothing[kind] ELSE live[kind]]

\* fetchLiveState: lists that cannot be read are passed on empty, the config nil.
StartSync(r, o) ==
  /\ Start(r, o)
  /\ \E unread \in SUBSET (IF FetchMayFail THEN Kinds ELSE {}) :
       snap' = [snap EXCEPT ![r] = Fetched(unread)]
  /\ queue' = [queue EXCEPT ![r] = <<>>]
  /\ quiet' = [quiet EXCEPT ![r] = TRUE]
  /\ UNCHANGED live

Act(type, ids) == {[type |-> type, id |-> id] : id \in ids}

\* Is the entry read other than the registry's?  The values of keys, which the
\* registry does not hold, are left out of it.
Differs(kind, id, value) == value # Desired[kind][id]

Upserts(kind, t) ==
  LET there == DOMAIN Desired[kind] \cap DOMAIN t
  IN  Act("create", DOMAIN Desired[kind] \ DOMAIN t)
      \cup Act("update", {id \in there : Differs(kind, id, t[id])})

\* Wrong: --prune leaves providers alone.
PruneRulesOnly(kind, t) ==
  IF kind = "provider" THEN {} ELSE Act("delete", DOMAIN t \ DOMAIN Desired[kind])

Prunable(kind, t) == Act("delete", DOMAIN t \ DOMAIN Desired[kind])

\* ProviderReconciler.Plan and RoutingRuleReconciler.Plan, over Go maps in any
\* order: the registry's entries first, then what is to be pruned.
TablePlans(kind, t, prune) ==
  {u \o d : u \in SetToSeqs(Upserts(kind, t)),
            d \in SetToSeqs(IF prune THEN Prunable(kind, t) ELSE {})}

\* Only the fields the registry sets are compared.
ConfigDiffers(c) == \E f \in DOMAIN Desired["config"] : c[f] # Desired["config"][f]

\* ConfigReconciler.Plan: one update, or nothing to do.
ConfigPlans(c) ==
  IF ConfigDiffers(c) THEN {<<[type |-> "update", id |-> "bifrost-global"]>>} ELSE {<<>>}

\* Plan of the reconciler the loop has come to, with one of these results.
Planned(r, kind, plans) ==
  /\ \E acts \in plans :
       /\ PlanReturns(r, Len(acts))
       /\ queue' = [queue EXCEPT ![r] = IF opts[r].dryRun THEN <<>> ELSE acts]
  /\ Order[cur'[r]] = kind
  /\ UNCHANGED <<live, snap, quiet>>

PlanTable(r, kind) == Planned(r, kind, TablePlans(kind, snap[r][kind], opts[r].prune))

\* The registry file was not there, so the desired state has the wrong type.
PlanWithoutRegistry(r, kind) ==
  /\ kind \in Absent
  /\ PlanFails(r)
  /\ Order[cur'[r]] = kind
  /\ UNCHANGED bifrostVars

\* The registry need not have a config section; a config that was not fetched
\* goes unnoticed then.
ConfigWanted == DOMAIN Desired["config"] # {}

PlanConfig(r) ==
  /\ ConfigWanted => snap[r]["config"] # Unfetched
  /\ Planned(r, "config", ConfigPlans(snap[r]["config"]))

\* Plan looks into the fields of the nil config it was given: the process dies
\* in the middle of the run.
PlanPanics(r) ==
  /\ phase[r] = "plan"
  /\ \E i \in left[r] : Order[i] = "config" /\ \A j \in left[r] : i =< j
  /\ ConfigWanted /\ snap[r]["config"] = Unfetched
  /\ Crash(r)
  /\ queue' = [queue EXCEPT ![r] = <<>>]
  /\ snap' = [snap EXCEPT ![r] = Nothing]
  /\ UNCHANGED <<live, quiet>>

-----------------------------------------------------------------------------
\* Apply.

Kind(r) == Order[cur[r]]

Doing(r, kinds) == phase[r] = "apply" /\ Kind(r) \in kinds

\* Wrong: an action that failed is left in front, to be tried again.
KeepFailed(r) == queue

\* A failed action has left the queue; one to be verified stays at its head.
DropFailed(r) ==
  IF phase'[r] = "verify" THEN queue ELSE [queue EXCEPT ![r] = Tail(@)]

\* A table or the config with an entry set (spelt out, as the provers do not know `@@').
Put(t, id, v) == [j \in DOMAIN t \cup {id} |-> IF j = id THEN v ELSE t[j]]

\* The table once Bifrost has carried out an action.  A provider or rule that
\* exists already can be created again, one that is gone cannot be updated.
Done(kind, t, a) ==
  CASE a.type = "delete" -> Restrict(t, DOMAIN t \ {a.id})
    [] a.type = "update" /\ a.id \notin DOMAIN t -> t
    [] OTHER -> Put(t, a.id, Desired[kind][a.id])

\* A payload that cannot be built because a key is not in the environment.
Unbuildable(kind, a) == kind = "provider" /\ a.type # "delete" /\ a.id \in Unresolved

\* One call to Bifrost: it may do what it is told and the answer be lost (or a
\* replay after a 5xx be refused), or not do it and still answer with success.
ApplyTable(r) ==
  LET a == Head(queue[r])
  IN  /\ Doing(r, Tables)
      /\ \/ /\ Unbuildable(Kind(r), a)
            /\ ApplyFails(r)
            /\ UNCHANGED <<live, quiet>>
         \/ /\ ApplySucceeds(r) \/ ApplyFails(r)
            /\ \/ /\ live' = [live EXCEPT ![Kind(r)] = Done(Kind(r), @, a)]
                  /\ quiet' = [s \in Runs |-> quiet[s] /\ s = r]
               \/ UNCHANGED <<live, quiet>>
      /\ queue' = DropFailed(r)
      /\ UNCHANGED snap

\* Wrong: fields the registry leaves out are sent as zero.
Zeroed(c, fields) ==
  [f \in DOMAIN c |-> IF f \in fields THEN Desired["config"][f] ELSE 0]

\* PUT /api/config merges the fields sent into the config.
Merged(c, fields) ==
  [f \in DOMAIN c |-> IF f \in fields THEN Desired["config"][f] ELSE c[f]]

\* The config after a PUT, of which Bifrost may ignore some or all fields.
ConfigPut == {Merged(live["config"], fields) : fields \in SUBSET DOMAIN Desired["config"]}

\* The PUT, and a read-back that can only turn ok into unverified.
ApplyConfig(r) ==
  /\ Doing(r, {"config"})
  /\ ApplySucceeds(r) \/ ApplyFails(r)
  /\ live' \in {[live EXCEPT !["config"] = c] : c \in ConfigPut}
  /\ quiet' = [s \in Runs |-> quiet[s] /\ (s = r \/ live' = live)]
  /\ queue' = DropFailed(r)
  /\ UNCHANGED snap

-----------------------------------------------------------------------------
\* Verify.

Verified(r, s) ==
  /\ \E v \in {s, "unverified"} : VerifyReturns(r, v)
  /\ queue' = [queue EXCEPT ![r] = Tail(@)]
  /\ UNCHANGED <<live, snap, quiet>>

\* Wrong: finding the id is enough.
FoundById(kind, t, a) ==
  IF (a.type = "delete") # (a.id \in DOMAIN t) THEN "ok" ELSE "applied-with-drift"

\* The whole entry is compared; a provider that was created and is not there is
\* left unverified, all other surprises are drift.
TableVerdict(kind, t, a) ==
  LET found == a.id \in DOMAIN t
      asAsked == IF a.type = "delete" THEN ~found
                 ELSE found /\ ~Differs(kind, a.id, t[a.id])
  IN  IF asAsked THEN "ok"
      ELSE IF kind = "provider" /\ a.type = "create" /\ ~found THEN "unverified"
      ELSE "applied-with-drift"

VerifyTable(r) ==
  /\ phase[r] = "verify" /\ Kind(r) \in Tables
  /\ Verified(r, TableVerdict(Kind(r), live[Kind(r)], Head(queue[r])))

VerifyConfig(r) ==
  /\ phase[r] = "verify" /\ Kind(r) = "config"
  /\ Verified(r, IF ConfigDiffers(live["config"]) THEN "applied-with-drift" ELSE "ok")

-----------------------------------------------------------------------------
Ending(r) ==
  /\ queue' = [queue EXCEPT ![r] = <<>>]
  /\ snap' = [snap EXCEPT ![r] = Nothing]
  /\ UNCHANGED <<live, quiet>>

Finish(r) == (Return(r) \/ Exit(r)) /\ Ending(r)
Die(r) == MayDie /\ Crash(r) /\ Ending(r)

\* Somebody else sets, adds or removes an entry.
Elsewhere(kind, id) ==
  /\ id \in World
  /\ \/ \E v \in Value(kind) : live' = [live EXCEPT ![kind] = Put(@, id, v)]
     \/ kind # "config" /\ live' = [live EXCEPT ![kind] = Restrict(@, DOMAIN @ \ {id})]
  /\ live' # live
  /\ quiet' = [r \in Runs |-> FALSE]
  /\ UNCHANGED <<orchVars, snap, queue>>

Step(r) ==
  \/ \E kind \in Tables : PlanTable(r, kind) \/ PlanWithoutRegistry(r, kind)
  \/ PlanConfig(r) \/ PlanPanics(r)
  \/ ApplyTable(r) \/ ApplyConfig(r)
  \/ VerifyTable(r) \/ VerifyConfig(r)
  \/ Finish(r)

Next ==
  \/ \E r \in Runs : \/ \E o \in Options : StartSync(r, o)
                     \/ Step(r)
                     \/ Die(r)
  \/ \E kind \in Kinds : \E id \in Ids[kind] : Elsewhere(kind, id)

Spec == Init /\ [][Next]_vars /\ \A r \in Runs : WF_vars(Step(r))

-----------------------------------------------------------------------------
Holds(c) == \A kind \in Kinds : c[kind] \in Contents(kind)

\* Type invariant: every variable has the values the code gives it.
TypeOK ==
  /\ OrchTypeOK
  /\ Holds(live)
  /\ \A r \in Runs : \A kind \in Kinds : snap[r][kind] \in Contents(kind) \cup {Nothing[kind]}
  /\ \A r \in Runs : /\ queue[r] \in Seq(BifrostAction)
                     /\ phase[r] \in {"apply", "verify"} => Len(queue[r]) = pending[r]
  /\ quiet \in [Runs -> BOOLEAN]

\* A finished run that reports neither failure nor drift, and that nobody
\* disturbed.
Clean(r) ==
  /\ phase[r] \in {"done", "exited"}
  /\ quiet[r] /\ ~opts[r].dryRun
  /\ report[r].failed = 0 /\ report[r].driftWarnings = 0

Covered(r) == {Order[i] : i \in Selected(opts[r])}

\* A clean report means that every entry of the registry is in Bifrost as
\* written there, even if reads before planning failed and even if Bifrost
\* accepts calls it does not carry out.
CleanRunConverges ==
  \A r \in Runs : Clean(r) => \A kind \in Covered(r) : \A id \in DOMAIN Desired[kind] :
    id \in DOMAIN live[kind] /\ live[kind][id] = Desired[kind][id]

\* With --prune a clean run also leaves nothing else in a table it has seen: at
\* its end every entry of a table that was not read as empty is the registry's.
CleanPruneLeavesNoExtras ==
  [][\A r \in Runs : phase'[r] = "done" /\ Clean(r)' /\ opts[r].prune =>
       \A kind \in Covered(r) \ {"config"} :
         snap[r][kind] # Nothing[kind] => DOMAIN live[kind] \subseteq DOMAIN Desired[kind]]_vars

Acts(r) == phase'[r] # phase[r] \/ queue'[r] # queue[r]

\* What the registry does not name is not sync's to touch: its steps change no
\* such provider, rule or config field, and remove one only when told to prune,
\* however old or incomplete the snapshot they were planned from.
SparesTheUnmanaged ==
  [][\A r \in Runs, kind \in Kinds : Acts(r) =>
       /\ \A id \in DOMAIN live[kind] \ DOMAIN live'[kind] :
            opts[r].prune /\ id \notin DOMAIN Desired[kind]
       /\ \A id \in DOMAIN live'[kind] \ DOMAIN Desired[kind] :
            id \in DOMAIN live[kind] /\ live'[kind][id] = live[kind][id]]_vars

\* Dependency order pays off in Bifrost: as long as a run of all reconcilers has
\* had no failure and no drift and is undisturbed, the rules it writes send
\* traffic to providers that exist.
RulesFollowProviders ==
  [][\A r \in Runs :
       /\ Acts(r) /\ quiet[r] /\ Covered(r) = Kinds
       /\ report[r].failed = 0 /\ report[r].driftWarnings = 0
       => \A g \in DOMAIN live'["routing-rule"] :
            \/ g \in DOMAIN live["routing-rule"] /\ live'["routing-rule"][g] = live["routing-rule"][g]
            \/ live'["routing-rule"][g] \in DOMAIN live'["provider"]]_vars
=============================================================================
