------------------------- MODULE BifrostSync_proofs -------------------------
(***************************************************************************)
(* The Bifrost reconcilers' safety properties for every registry, every    *)
(* content of Bifrost to start with, any number of processes, every failed *)
(* read, lost answer and ignored call, and whatever others change in       *)
(* Bifrost meanwhile.                                                      *)
(***************************************************************************)
EXTENDS BifrostSync, SyncOrchestrator_proofs

-----------------------------------------------------------------------------
(* What Bifrost holds.                                                     *)

LEMMA ContentsFacts ==
  ASSUME NEW kind \in Kinds, NEW t \in Contents(kind)
  PROVE  /\ DOMAIN t \subseteq Ids[kind] /\ t = [id \in DOMAIN t |-> t[id]]
         /\ \A id \in DOMAIN t : t[id] \in Value(kind)
         /\ kind = "config" => DOMAIN t = Ids[kind]
BY DEF Contents

LEMMA IsContents ==
  ASSUME NEW kind \in Kinds, NEW t, t = [id \in DOMAIN t |-> t[id]],
         DOMAIN t \subseteq Ids[kind], \A id \in DOMAIN t : t[id] \in Value(kind),
         kind = "config" => DOMAIN t = Ids[kind]
  PROVE  t \in Contents(kind)
<1>1. t \in [DOMAIN t -> Value(kind)] /\ DOMAIN t \in SUBSET Ids[kind]
  OBVIOUS
<1>2. QED
  BY <1>1 DEF Contents

LEMMA PutTyped ==
  ASSUME NEW kind \in Kinds, NEW t \in Contents(kind), NEW id \in Ids[kind], NEW v \in Value(kind)
  PROVE  Put(t, id, v) \in Contents(kind)
<1>1. /\ DOMAIN t \subseteq Ids[kind] /\ \A j \in DOMAIN t : t[j] \in Value(kind)
      /\ kind = "config" => DOMAIN t = Ids[kind]
  BY ContentsFacts
<1> DEFINE new == Put(t, id, v)
<1>2. DOMAIN new = DOMAIN t \cup {id} /\ new = [j \in DOMAIN new |-> new[j]]
  BY DEF Put
<1>3. new[id] = v /\ \A j \in DOMAIN t \ {id} : new[j] = t[j]
  BY DEF Put
<1> HIDE DEF new
<1>4. \A j \in DOMAIN new : new[j] \in Value(kind)
  BY <1>1, <1>2, <1>3
<1>5. new \in Contents(kind)
  BY <1>1, <1>2, <1>4, IsContents
<1>6. QED
  BY <1>5 DEF new

LEMMA DropFacts ==
  ASSUME NEW kind \in Tables, NEW t \in Contents(kind), NEW id
  PROVE  /\ Restrict(t, DOMAIN t \ {id}) \in Contents(kind)
         /\ DOMAIN Restrict(t, DOMAIN t \ {id}) = DOMAIN t \ {id}
         /\ \A j \in DOMAIN t \ {id} : Restrict(t, DOMAIN t \ {id})[j] = t[j]
<1>1. kind \in Kinds /\ kind # "config"
  BY DEF Tables, Kinds
<1>2. DOMAIN t \subseteq Ids[kind] /\ \A j \in DOMAIN t : t[j] \in Value(kind)
  BY <1>1, ContentsFacts
<1> DEFINE new == Restrict(t, DOMAIN t \ {id})
<1>3. /\ DOMAIN new = DOMAIN t \ {id} /\ \A j \in DOMAIN t \ {id} : new[j] = t[j]
      /\ new = [j \in DOMAIN new |-> new[j]]
  BY DEF Restrict
<1> HIDE DEF new
<1>4. new \in Contents(kind)
  BY <1>1, <1>2, <1>3, IsContents
<1>5. QED
  BY <1>3, <1>4 DEF new

\* What a write for the registry may do to the content t of a kind: it removes
\* only when pruning, and nothing that is wanted; what it changes or adds is as
\* the registry wants it.
Fits(kind, t, new, prune) ==
  /\ \A id \in DOMAIN t \ DOMAIN new : prune /\ id \notin DOMAIN Desired[kind]
  /\ \A id \in DOMAIN new :
       \/ id \in DOMAIN t /\ new[id] = t[id]
       \/ id \in DOMAIN Desired[kind] /\ new[id] = Desired[kind][id]

\* The actions a plan may hold.
Planable(kind, prune) ==
  IF kind = "config" THEN {[type |-> "update", id |-> "bifrost-global"]}
  ELSE Act("create", DOMAIN Desired[kind]) \cup Act("update", DOMAIN Desired[kind])
       \cup (IF prune THEN Act("delete", Ids[kind] \ DOMAIN Desired[kind]) ELSE {})

LEMMA WantedIsContents ==
  ASSUME BifrostAssumption, NEW kind \in Kinds
  PROVE  /\ DOMAIN Desired[kind] \subseteq Ids[kind]
         /\ \A id \in DOMAIN Desired[kind] : Desired[kind][id] \in Value(kind)
BY DEF BifrostAssumption

LEMMA PlanableTyped ==
  ASSUME BifrostAssumption, NEW kind \in Kinds, NEW prune, NEW a \in Planable(kind, prune)
  PROVE  /\ a \in BifrostAction
         /\ kind # "config" /\ a.type = "delete" => prune /\ a.id \notin DOMAIN Desired[kind]
         /\ kind # "config" /\ a.type # "delete" => a.id \in DOMAIN Desired[kind]
<1> DEFINE names == {"bifrost-global"} \cup UNION {Ids[k] : k \in Kinds}
<1>1. Ids[kind] \subseteq names /\ DOMAIN Desired[kind] \subseteq Ids[kind]
  BY DEF BifrostAssumption
<1>2. BifrostAction = [type : {"create", "update", "delete"}, id : names]
  BY DEF BifrostAction
<1>3. "bifrost-global" \in names
  OBVIOUS
<1> HIDE DEF names
<1>4. CASE kind = "config"
  <2>1. a = [type |-> "update", id |-> "bifrost-global"]
    BY <1>4 DEF Planable
  <2>2. QED
    BY <1>2, <1>3, <1>4, <2>1
<1>5. CASE kind # "config"
  <2>1. \/ \E id \in DOMAIN Desired[kind] : a = [type |-> "create", id |-> id]
        \/ \E id \in DOMAIN Desired[kind] : a = [type |-> "update", id |-> id]
        \/ prune /\ \E id \in Ids[kind] \ DOMAIN Desired[kind] : a = [type |-> "delete", id |-> id]
    BY <1>5 DEF Planable, Act
  <2>2. QED
    BY <1>1, <1>2, <1>5, <2>1
<1>6. QED
  BY <1>4, <1>5

\* Bifrost carrying out a planned action on a table.
LEMMA DoneFits ==
  ASSUME BifrostAssumption, NEW kind \in Tables, NEW t \in Contents(kind), NEW prune,
         NEW a \in Planable(kind, prune)
  PROVE  Done(kind, t, a) \in Contents(kind) /\ Fits(kind, t, Done(kind, t, a), prune)
<1>1. kind \in Kinds /\ kind # "config"
  BY DEF Tables, Kinds
<1>2. /\ a.type = "delete" => prune /\ a.id \notin DOMAIN Desired[kind]
      /\ a.type # "delete" => a.id \in DOMAIN Desired[kind]
  BY <1>1, PlanableTyped
<1>3. CASE a.type = "delete"
  <2>0. PICK id : id = a.id
    OBVIOUS
  <2>1. Done(kind, t, a) = Restrict(t, DOMAIN t \ {id})
    BY <1>3, <2>0 DEF Done
  <2> DEFINE new == Restrict(t, DOMAIN t \ {id})
  <2>2. /\ new \in Contents(kind) /\ DOMAIN new = DOMAIN t \ {id}
        /\ \A j \in DOMAIN t \ {id} : new[j] = t[j]
    BY DropFacts
  <2> HIDE DEF new
  <2>3. Fits(kind, t, new, prune)
    BY <1>2, <1>3, <2>0, <2>2, Zenon DEF Fits
  <2>4. QED
    BY <2>1, <2>2, <2>3 DEF new
<1>4. CASE a.type = "update" /\ a.id \notin DOMAIN t
  BY <1>4 DEF Done, Fits
<1>5. CASE a.type # "delete" /\ ~(a.type = "update" /\ a.id \notin DOMAIN t)
  <2>0. PICK id : id = a.id
    OBVIOUS
  <2>1. Done(kind, t, a) = Put(t, id, Desired[kind][id])
    BY <1>5, <2>0 DEF Done
  <2>2. id \in DOMAIN Desired[kind]
    BY <1>1, <1>2, <1>5, <2>0
  <2>3. PICK v : v = Desired[kind][id]
    OBVIOUS
  <2> DEFINE new == Put(t, id, v)
  <2>4. new \in Contents(kind)
    <3>1. id \in Ids[kind] /\ v \in Value(kind)
      BY <1>1, <2>2, <2>3, WantedIsContents
    <3>2. QED
      BY <1>1, <3>1, PutTyped
  <2>5. /\ DOMAIN new = DOMAIN t \cup {id} /\ new[id] = v
        /\ \A j \in DOMAIN t \ {id} : new[j] = t[j]
    BY DEF Put
  <2> HIDE DEF new
  <2>6. Fits(kind, t, new, prune)
    BY <2>2, <2>3, <2>5, Zenon DEF Fits
  <2>7. QED
    BY <2>1, <2>3, <2>4, <2>6 DEF new
<1>6. QED
  BY <1>3, <1>4, <1>5

\* Bifrost taking over some of the fields of a PUT.
LEMMA PutFits ==
  ASSUME BifrostAssumption, live["config"] \in Contents("config"), NEW c \in ConfigPut, NEW prune
  PROVE  c \in Contents("config") /\ Fits("config", live["config"], c, prune)
<1>1. PICK fields \in SUBSET DOMAIN Desired["config"] : c = Merged(live["config"], fields)
  BY DEF ConfigPut
<1> DEFINE t == live["config"]
<1>2. "config" \in Kinds
  BY DEF Kinds
<1>3. /\ DOMAIN t = Ids["config"] /\ \A f \in DOMAIN t : t[f] \in Value("config")
  BY <1>2, ContentsFacts
<1>4. /\ DOMAIN c = DOMAIN t /\ c = [f \in DOMAIN c |-> c[f]]
      /\ \A f \in DOMAIN t : c[f] = IF f \in fields THEN Desired["config"][f] ELSE t[f]
  BY <1>1 DEF Merged
<1> HIDE DEF t
<1>5. \A f \in DOMAIN c : c[f] \in Value("config")
  BY <1>2, <1>3, <1>4, WantedIsContents
<1>6. c \in Contents("config")
  BY <1>2, <1>3, <1>4, <1>5, IsContents
<1>7. Fits("config", t, c, prune)
  BY <1>4 DEF Fits
<1>8. QED
  BY <1>6, <1>7 DEF t

-----------------------------------------------------------------------------
(* Plans.                                                                  *)

LEMMA OrderFacts ==
  ASSUME BifrostAssumption
  PROVE  /\ Position = {1, 2, 3} /\ Order[1] = "provider" /\ Order[2] = "config"
         /\ Order[3] = "routing-rule" /\ \A i \in Position : Order[i] \in Kinds
<1>1. Order = <<"provider", "config", "routing-rule">>
  BY DEF BifrostAssumption
<1>2. Len(Order) = 3 /\ 1 .. 3 = {1, 2, 3}
  BY <1>1
<1>3. QED
  BY <1>1, <1>2 DEF Position, Kinds, Tables

LEMMA NothingFacts ==
  /\ \A kind \in Tables : Nothing[kind] \in Contents(kind) /\ DOMAIN Nothing[kind] = {}
  /\ Nothing["config"] = Unfetched
<1>1. ASSUME NEW kind \in Tables
      PROVE  Nothing[kind] \in Contents(kind) /\ DOMAIN Nothing[kind] = {}
  <2>1. kind # "config" /\ Nothing[kind] = <<>>
    BY DEF Nothing, Kinds, Tables
  <2>2. {} \in SUBSET Ids[kind] /\ <<>> \in [{} -> Value(kind)] /\ DOMAIN <<>> = {}
    OBVIOUS
  <2>3. QED
    BY <2>1, <2>2 DEF Contents
<1>2. QED
  BY <1>1 DEF Nothing, Kinds

LEMMA ActFinite ==
  ASSUME NEW S, IsFiniteSet(S), NEW type
  PROVE  IsFiniteSet(Act(type, S))
<1> DEFINE f == [a \in Act(type, S) |-> a.id]
<1>1. f \in Injection(Act(type, S), S)
  BY DEF Act, Injection, IsInjective
<1>2. QED
  BY <1>1, FS_Injection

LEMMA UpsertsFacts ==
  ASSUME BifrostAssumption, NEW kind \in Tables, NEW t \in Contents(kind), NEW prune
  PROVE  /\ IsFiniteSet(Upserts(kind, t)) /\ Upserts(kind, t) \subseteq Planable(kind, prune)
         /\ IsFiniteSet(Prunable(kind, t))
         /\ prune => Prunable(kind, t) \subseteq Planable(kind, prune)
<1>1. kind \in Kinds /\ kind # "config"
  BY DEF Tables, Kinds
<1>2. /\ IsFiniteSet(Ids[kind]) /\ DOMAIN Desired[kind] \subseteq Ids[kind]
      /\ DOMAIN t \subseteq Ids[kind]
  BY <1>1, ContentsFacts DEF BifrostAssumption
<1> DEFINE new == DOMAIN Desired[kind] \ DOMAIN t
           other == {id \in DOMAIN Desired[kind] \cap DOMAIN t : Differs(kind, id, t[id])}
           extra == DOMAIN t \ DOMAIN Desired[kind]
<1>3. /\ new \subseteq DOMAIN Desired[kind] /\ other \subseteq DOMAIN Desired[kind]
      /\ extra \subseteq Ids[kind] \ DOMAIN Desired[kind]
  BY <1>2
<1>4. /\ Upserts(kind, t) = Act("create", new) \cup Act("update", other)
      /\ Prunable(kind, t) = Act("delete", extra)
  BY DEF Upserts, Prunable
<1> HIDE DEF new, other, extra
<1>5. IsFiniteSet(new) /\ IsFiniteSet(other) /\ IsFiniteSet(extra)
  <2>1. new \in SUBSET Ids[kind] /\ other \in SUBSET Ids[kind] /\ extra \in SUBSET Ids[kind]
    BY <1>2, <1>3
  <2>2. QED
    BY <1>2, <2>1, FS_Subset
<1>6. /\ IsFiniteSet(Act("create", new)) /\ IsFiniteSet(Act("update", other))
      /\ IsFiniteSet(Act("delete", extra))
  BY <1>5, ActFinite
<1>7. IsFiniteSet(Upserts(kind, t)) /\ IsFiniteSet(Prunable(kind, t))
  BY <1>4, <1>6, FS_Union
<1>8. Act("create", new) \subseteq Planable(kind, prune) /\ Act("update", other) \subseteq Planable(kind, prune)
  BY <1>1, <1>3 DEF Act, Planable
<1>9. ASSUME prune
      PROVE  Act("delete", extra) \subseteq Planable(kind, prune)
  BY <1>1, <1>3, <1>9 DEF Act, Planable
<1>10. QED
  BY <1>4, <1>7, <1>8, <1>9

\* The plan of a table has every action its snapshot calls for, and no other.
LEMMA TablePlanFacts ==
  ASSUME BifrostAssumption, NEW kind \in Tables, NEW t \in Contents(kind), NEW prune,
         NEW acts \in TablePlans(kind, t, prune)
  PROVE  /\ acts \in Seq(Planable(kind, prune))
         /\ Lists(acts, Upserts(kind, t))
         /\ prune => Lists(acts, Prunable(kind, t))
<1> DEFINE U == Upserts(kind, t)
           D == IF prune THEN Prunable(kind, t) ELSE {}
<1>1. PICK u \in SetToSeqs(U), d \in SetToSeqs(D) : acts = u \o d
  BY DEF TablePlans
<1>2. /\ IsFiniteSet(U) /\ U \subseteq Planable(kind, prune)
      /\ IsFiniteSet(D) /\ D \subseteq Planable(kind, prune)
  <2>1. IsFiniteSet(U) /\ U \subseteq Planable(kind, prune)
    BY UpsertsFacts
  <2>2. CASE prune
    BY <2>1, <2>2, UpsertsFacts
  <2>3. CASE ~prune
    BY <2>1, <2>3, FS_EmptySet
  <2>4. QED
    BY <2>2, <2>3
<1> HIDE DEF U, D
<1>3. acts \in Seq(U \cup D) /\ Lists(acts, U \cup D)
  BY <1>1, <1>2, TwoParts
<1>4. acts \in Seq(Planable(kind, prune))
  BY <1>2, <1>3, SeqMonotonic
<1>5. QED
  BY <1>3, <1>4 DEF U, D, Lists

LEMMA ConfigPlanFacts ==
  ASSUME NEW c, NEW prune, NEW acts \in ConfigPlans(c)
  PROVE  /\ acts \in Seq(Planable("config", prune))
         /\ acts = <<>> => ~ConfigDiffers(c)
<1> DEFINE put == [type |-> "update", id |-> "bifrost-global"]
<1>1. Planable("config", prune) = {put}
  BY DEF Planable
<1>2. IF ConfigDiffers(c) THEN acts = <<put>> ELSE acts = <<>>
  BY DEF ConfigPlans
<1> HIDE DEF put
<1>3. <<put>> \in Seq({put}) /\ <<>> \in Seq({put}) /\ <<put>> # <<>>
  OBVIOUS
<1>4. QED
  BY <1>1, <1>2, <1>3

-----------------------------------------------------------------------------
(* Types, and the queue as the orchestrator's pending actions.             *)

LiveTyped == DOMAIN live = Kinds /\ Holds(live)

SnapTyped ==
  /\ DOMAIN snap = Runs
  /\ \A r \in Runs, kind \in Kinds : snap[r][kind] \in Contents(kind) \cup {Nothing[kind]}

\* The queue is as long as the orchestrator thinks, and holds what a plan of the
\* kind being worked on can hold.
QueueInv(r) ==
  phase[r] \in {"apply", "verify"} =>
    /\ Len(queue[r]) = pending[r] /\ pending[r] > 0
    /\ Kind(r) \in Kinds /\ queue[r] \in Seq(Planable(Kind(r), opts[r].prune))

\* Inductive invariant behind the type invariant.
BaseInv ==
  /\ OrchIInv /\ LiveTyped /\ SnapTyped
  /\ queue \in [Runs -> Seq(BifrostAction)]
  /\ quiet \in [Runs -> BOOLEAN]
  /\ \A r \in Runs : QueueInv(r)

LEMMA BaseIsTyped == BaseInv => TypeOK
BY DEF BaseInv, OrchIInv, LiveTyped, SnapTyped, QueueInv, TypeOK

LEMMA PlanableSeq ==
  ASSUME BifrostAssumption, NEW kind \in Kinds, NEW prune, NEW q \in Seq(Planable(kind, prune))
  PROVE  q \in Seq(BifrostAction)
BY PlanableTyped, SeqMonotonic

\* The action at the head of a queue being worked through.
LEMMA HeadPlanable ==
  ASSUME BaseInv, NEW r \in Runs, phase[r] \in {"apply", "verify"}
  PROVE  /\ Kind(r) \in Kinds /\ Head(queue[r]) \in Planable(Kind(r), opts[r].prune)
         /\ Len(queue[r]) > 0 /\ Tail(queue[r]) \in Seq(Planable(Kind(r), opts[r].prune))
         /\ Len(Tail(queue[r])) = pending[r] - 1 /\ pending[r] \in Nat
<1>1. /\ Len(queue[r]) = pending[r] /\ pending[r] > 0 /\ pending[r] \in Nat
      /\ Kind(r) \in Kinds /\ queue[r] \in Seq(Planable(Kind(r), opts[r].prune))
  BY DEF BaseInv, QueueInv, OrchIInv, OrchTypeOK
<1>2. QED
  BY <1>1, TailFacts

\* Apply answered: a success leaves the action at the head to be verified, a
\* failure drops it.
LEMMA ApplyQueue ==
  ASSUME BifrostAssumption, BaseInv, NEW r \in Runs, phase[r] = "apply",
         ApplySucceeds(r) \/ ApplyFails(r), queue' = DropFailed(r)
  PROVE  /\ queue' \in [Runs -> Seq(BifrostAction)]
         /\ \A s \in Runs \ {r} : queue'[s] = queue[s]
         /\ QueueInv(r)'
         /\ cur' = cur /\ left' = left /\ opts' = opts
         /\ \/ phase'[r] = "verify" /\ queue'[r] = queue[r] /\ ApplySucceeds(r)
            \/ /\ phase'[r] # "verify" /\ queue'[r] = Tail(queue[r])
               /\ ApplyFails(r) /\ report'[r].failed > 0
<1>1. /\ OrchTypeOK /\ queue \in [Runs -> Seq(BifrostAction)] /\ QueueInv(r)
      /\ report[r].failed \in Nat /\ report \in [Runs -> Report]
  BY ReportFields DEF BaseInv, OrchIInv, OrchTypeOK
<1>2. /\ Kind(r) \in Kinds /\ Len(queue[r]) > 0
      /\ Tail(queue[r]) \in Seq(Planable(Kind(r), opts[r].prune))
      /\ Len(Tail(queue[r])) = pending[r] - 1 /\ pending[r] \in Nat /\ pending[r] > 0
  BY <1>1, HeadPlanable DEF QueueInv
<1>3. Tail(queue[r]) \in Seq(BifrostAction)
  BY <1>2, PlanableSeq
<1>4. cur' = cur /\ left' = left /\ opts' = opts /\ Kind(r)' = Kind(r)
  BY DEF ApplySucceeds, ApplyFails, Kind
<1>5. CASE ApplySucceeds(r)
  <2>1. phase'[r] = "verify" /\ pending' = pending
    BY <1>1, <1>5 DEF ApplySucceeds, OrchTypeOK
  <2>2. queue' = queue
    BY <2>1 DEF DropFailed
  <2>3. QED
    BY <1>1, <1>4, <1>5, <2>1, <2>2 DEF QueueInv
<1>6. CASE ApplyFails(r)
  <2>1. /\ phase'[r] = AfterFailure(r, NextAction(r)) /\ pending'[r] = pending[r] - 1
    BY <1>1, <1>6 DEF ApplyFails, OrchTypeOK
  <2>2. /\ phase'[r] \in {"done", "plan", "apply"}
        /\ phase'[r] = "apply" => pending[r] # 1
    BY <2>1 DEF AfterFailure, NextAction
  <2>3. /\ phase'[r] # "verify"
        /\ queue'[r] = Tail(queue[r]) /\ \A s \in Runs \ {r} : queue'[s] = queue[s]
        /\ queue' \in [Runs -> Seq(BifrostAction)]
    BY <1>1, <1>3, <2>2 DEF DropFailed
  <2>4. report'[r].failed > 0
    <3>1. Grows(r, 1, 0, 1, 0, 0)
      BY <1>1, <1>6, ReportGrows DEF ApplyFails
    <3>2. QED
      BY <1>1, <3>1 DEF Grows
  <2>5. QueueInv(r)'
    BY <1>2, <1>4, <2>1, <2>2, <2>3 DEF QueueInv
  <2>6. QED
    BY <1>4, <1>6, <2>3, <2>4, <2>5
<1>7. QED
  BY <1>5, <1>6

\* Verify is through with the action at the head.
LEMMA VerifyQueue ==
  ASSUME BifrostAssumption, BaseInv, NEW r \in Runs, NEW s \in Verdict, Verified(r, s)
  PROVE  /\ queue' \in [Runs -> Seq(BifrostAction)]
         /\ \A q \in Runs \ {r} : queue'[q] = queue[q]
         /\ QueueInv(r)'
         /\ queue'[r] = Tail(queue[r]) /\ phase'[r] # "verify" /\ phase[r] = "verify"
         /\ cur' = cur /\ left' = left /\ opts' = opts /\ UNCHANGED <<live, snap, quiet>>
         /\ \E v \in Verdict : VerifyReturns(r, v) /\ v \in {s, "unverified"}
<1>1. PICK v \in Verdict : VerifyReturns(r, v) /\ v \in {s, "unverified"}
  BY DEF Verified, Verdict
<1>2. /\ OrchTypeOK /\ queue \in [Runs -> Seq(BifrostAction)] /\ phase[r] = "verify"
  BY <1>1 DEF BaseInv, OrchIInv, VerifyReturns
<1>3. /\ Kind(r) \in Kinds /\ Tail(queue[r]) \in Seq(Planable(Kind(r), opts[r].prune))
      /\ Len(Tail(queue[r])) = pending[r] - 1 /\ pending[r] \in Nat /\ pending[r] > 0
  BY <1>2, HeadPlanable DEF BaseInv, QueueInv
<1>4. Tail(queue[r]) \in Seq(BifrostAction)
  BY <1>3, PlanableSeq
<1>5. /\ phase'[r] = NextAction(r) /\ pending'[r] = pending[r] - 1
      /\ cur' = cur /\ left' = left /\ opts' = opts /\ Kind(r)' = Kind(r)
  BY <1>1, <1>2 DEF VerifyReturns, OrchTypeOK, Kind
<1>6. /\ queue'[r] = Tail(queue[r]) /\ \A q \in Runs \ {r} : queue'[q] = queue[q]
      /\ queue' \in [Runs -> Seq(BifrostAction)]
  BY <1>2, <1>4 DEF Verified
<1>7. /\ phase'[r] \in {"plan", "apply"}
      /\ phase'[r] = "apply" => pending[r] # 1
  BY <1>5 DEF NextAction
<1>8. QueueInv(r)'
  BY <1>3, <1>5, <1>6, <1>7 DEF QueueInv
<1>9. UNCHANGED <<live, snap, quiet>>
  BY DEF Verified
<1>10. QED
  BY <1>1, <1>2, <1>5, <1>6, <1>7, <1>8, <1>9

-----------------------------------------------------------------------------
(* What a step does to Bifrost, and that it keeps the types.               *)

Still == UNCHANGED <<live, quiet>>

\* A call that Bifrost carries out, wholly or in part.
Writes(r) ==
  /\ phase[r] = "apply" /\ Kind(r) \in Kinds
  /\ DOMAIN live' = Kinds
  /\ \A kind \in Kinds \ {Kind(r)} : live'[kind] = live[kind]
  /\ live'[Kind(r)] \in Contents(Kind(r))
  /\ Fits(Kind(r), live[Kind(r)], live'[Kind(r)], opts[r].prune)
  /\ quiet' \in [Runs -> BOOLEAN]
  /\ \A s \in Runs : quiet'[s] => quiet[s] /\ (s = r \/ live' = live)

\* What every step of a run but the start has in common.
Advances(r) ==
  /\ AnyStep(r) /\ opts' = opts
  /\ Still \/ Writes(r)
  /\ SnapTyped' /\ queue' \in [Runs -> Seq(BifrostAction)]
  /\ \A s \in Runs \ {r} : queue'[s] = queue[s] /\ snap'[s] = snap[s]
  /\ QueueInv(r)'
  /\ snap'[r] = snap[r] \/ snap'[r] = Nothing

LEMMA ApplyTableWrites ==
  ASSUME BifrostAssumption, BaseInv, NEW r \in Runs, ApplyTable(r)
  PROVE  Still \/ Writes(r)
<1>1. /\ phase[r] = "apply" /\ Kind(r) \in Tables /\ LiveTyped
      /\ quiet \in [Runs -> BOOLEAN]
  BY DEF ApplyTable, Doing, BaseInv
<1> DEFINE a == Head(queue[r])
           k == Kind(r)
           t == live[k]
           new == Done(k, t, a)
<1>2. k \in Kinds /\ a \in Planable(k, opts[r].prune)
  BY <1>1, HeadPlanable
<1>3. t \in Contents(k)
  BY <1>1, <1>2 DEF LiveTyped, Holds
<1>4. \/ Still
      \/ live' = [live EXCEPT ![k] = new] /\ quiet' = [s \in Runs |-> quiet[s] /\ s = r]
  BY Zenon DEF ApplyTable, Still
<1>5. new \in Contents(k) /\ Fits(k, t, new, opts[r].prune)
  <2> HIDE DEF a, k, t
  <2> QED
    BY <1>1, <1>2, <1>3, DoneFits DEF k
<1> HIDE DEF a, new
<1>6. ASSUME live' = [live EXCEPT ![k] = new], quiet' = [s \in Runs |-> quiet[s] /\ s = r]
      PROVE  Writes(r)
  <2>1. /\ DOMAIN live' = Kinds /\ live'[k] = new
        /\ \A kind \in Kinds \ {k} : live'[kind] = live[kind]
    BY <1>1, <1>2, <1>6 DEF LiveTyped
  <2>2. /\ quiet' \in [Runs -> BOOLEAN]
        /\ \A s \in Runs : quiet'[s] => quiet[s] /\ s = r
    BY <1>1, <1>6
  <2>3. QED
    BY <1>1, <1>2, <1>5, <2>1, <2>2, Zenon DEF Writes
<1>7. QED
  BY <1>4, <1>6

LEMMA ApplyConfigWrites ==
  ASSUME BifrostAssumption, BaseInv, NEW r \in Runs, ApplyConfig(r)
  PROVE  Writes(r)
<1>1. /\ phase[r] = "apply" /\ Kind(r) = "config" /\ "config" \in Kinds /\ LiveTyped
      /\ quiet \in [Runs -> BOOLEAN]
  BY DEF ApplyConfig, Doing, BaseInv, Kinds
<1>2. PICK c \in ConfigPut : live' = [live EXCEPT !["config"] = c]
  BY DEF ApplyConfig
<1>3. c \in Contents("config") /\ Fits("config", live["config"], c, opts[r].prune)
  <2>1. live["config"] \in Contents("config")
    BY <1>1 DEF LiveTyped, Holds
  <2>2. QED
    BY <2>1, PutFits
<1>4. /\ DOMAIN live' = Kinds /\ live'["config"] = c
      /\ \A kind \in Kinds \ {"config"} : live'[kind] = live[kind]
  BY <1>1, <1>2 DEF LiveTyped
<1>5. /\ quiet' \in [Runs -> BOOLEAN]
      /\ \A s \in Runs : quiet'[s] => quiet[s] /\ (s = r \/ live' = live)
  BY <1>1 DEF ApplyConfig
<1>6. QED
  BY <1>1, <1>3, <1>4, <1>5, Zenon DEF Writes

LEMMA ApplyAdvances ==
  ASSUME BifrostAssumption, BaseInv, NEW r \in Runs, ApplyTable(r) \/ ApplyConfig(r)
  PROVE  Advances(r)
<1>1. /\ phase[r] = "apply" /\ queue' = DropFailed(r) /\ snap' = snap
      /\ ApplySucceeds(r) \/ ApplyFails(r)
  BY DEF ApplyTable, ApplyConfig, Doing
<1>2. AnyStep(r) /\ opts' = opts
  BY <1>1 DEF AnyStep, ApplySucceeds, ApplyFails
<1>3. Still \/ Writes(r)
  BY ApplyTableWrites, ApplyConfigWrites
<1>4. SnapTyped'
  BY <1>1 DEF BaseInv, SnapTyped
<1>5. QED
  BY <1>1, <1>2, <1>3, <1>4, ApplyQueue DEF Advances

LEMMA VerdictsGiven ==
  ASSUME NEW r \in Runs, VerifyTable(r) \/ VerifyConfig(r)
  PROVE  \E s \in Verdict : Verified(r, s)
BY DEF VerifyTable, VerifyConfig, TableVerdict, Verdict

LEMMA VerifyAdvances ==
  ASSUME BifrostAssumption, BaseInv, NEW r \in Runs, VerifyTable(r) \/ VerifyConfig(r)
  PROVE  Advances(r)
<1>1. PICK s \in Verdict : Verified(r, s)
  BY VerdictsGiven
<1>2. AnyStep(r)
  BY <1>1, VerifyQueue DEF AnyStep
<1>3. UNCHANGED <<live, snap, quiet>> /\ opts' = opts
  BY <1>1, VerifyQueue
<1>4. SnapTyped'
  BY <1>3 DEF BaseInv, SnapTyped
<1>5. QED
  BY <1>1, <1>2, <1>3, <1>4, VerifyQueue DEF Advances, Still

LEMMA EndAdvances ==
  ASSUME BaseInv, NEW r \in Runs, Finish(r) \/ Die(r) \/ PlanPanics(r)
  PROVE  Advances(r) /\ Still /\ queue'[r] = <<>> /\ phase'[r] \in {"done", "exited", "crashed"}
<1>1. /\ SnapTyped /\ queue \in [Runs -> Seq(BifrostAction)] /\ phase \in [Runs -> Phase]
  BY DEF BaseInv, OrchIInv, OrchTypeOK
<1>2. AnyStep(r) /\ opts' = opts /\ Still
  BY DEF Finish, Die, PlanPanics, Ending, AnyStep, Still, Return, Exit, Crash
<1>3. /\ snap' = [snap EXCEPT ![r] = Nothing]
      /\ queue' = [queue EXCEPT ![r] = <<>>]
  BY DEF Finish, Die, PlanPanics, Ending
<1>4. SnapTyped' /\ snap'[r] = Nothing /\ \A s \in Runs \ {r} : snap'[s] = snap[s]
  BY <1>1, <1>3 DEF SnapTyped
<1>5. /\ queue' \in [Runs -> Seq(BifrostAction)] /\ queue'[r] = <<>>
      /\ \A s \in Runs \ {r} : queue'[s] = queue[s]
  BY <1>1, <1>3, EmptySeq
<1>6. phase'[r] \in {"done", "exited", "crashed"}
  BY <1>1 DEF Finish, Die, PlanPanics, Return, Exit, Crash
<1>7. QED
  BY <1>2, <1>4, <1>5, <1>6 DEF Advances, QueueInv

\* A plan fills the queue, unless it is empty or only tried.
LEMMA PlannedFacts ==
  ASSUME BifrostAssumption, BaseInv, NEW r \in Runs, NEW kind \in Kinds, NEW plans,
         Planned(r, kind, plans), \A acts \in plans : acts \in Seq(Planable(kind, opts[r].prune))
  PROVE  /\ AnyStep(r) /\ opts' = opts /\ UNCHANGED <<live, snap, quiet>>
         /\ queue' \in [Runs -> Seq(BifrostAction)]
         /\ \A s \in Runs \ {r} : queue'[s] = queue[s]
         /\ QueueInv(r)'
         /\ phase[r] = "plan" /\ cur'[r] \in left[r] /\ Order[cur'[r]] = kind
         /\ left'[r] = left[r] \ {cur'[r]} /\ \A j \in left[r] : cur'[r] =< j
         /\ \E acts \in plans : \/ acts = <<>> /\ phase'[r] = "plan"
                                \/ opts[r].dryRun
                                \/ phase'[r] = "apply" /\ queue'[r] = acts
<1>1. /\ OrchTypeOK /\ queue \in [Runs -> Seq(BifrostAction)]
      /\ phase \in [Runs -> Phase] /\ pending \in [Runs -> Nat]
      /\ cur \in [Runs -> 0 .. Len(Order)] /\ left \in [Runs -> SUBSET Position]
  BY DEF BaseInv, OrchIInv, OrchTypeOK
<1>2. PICK acts \in plans :
        /\ PlanReturns(r, Len(acts))
        /\ queue' = [queue EXCEPT ![r] = IF opts[r].dryRun THEN <<>> ELSE acts]
  BY DEF Planned
<1>3. /\ acts \in Seq(Planable(kind, opts[r].prune)) /\ acts \in Seq(BifrostAction)
      /\ Len(acts) \in Nat
      /\ Len(acts) = 0 => acts = <<>>
  BY PlanableSeq, EmptySeq
<1>4. /\ phase[r] = "plan" /\ Order[cur'[r]] = kind
      /\ UNCHANGED <<live, snap, quiet>> /\ opts' = opts
  BY <1>2 DEF Planned, PlanReturns, TakeNext
<1>5. AnyStep(r)
  BY <1>2, <1>3 DEF AnyStep
<1>6. /\ cur'[r] \in left[r] /\ left'[r] = left[r] \ {cur'[r]}
      /\ \A j \in left[r] : cur'[r] =< j
  BY <1>1, <1>2 DEF PlanReturns, TakeNext
<1>7. /\ queue'[r] = (IF opts[r].dryRun THEN <<>> ELSE acts)
      /\ \A s \in Runs \ {r} : queue'[s] = queue[s]
      /\ queue' \in [Runs -> Seq(BifrostAction)]
  BY <1>1, <1>2, <1>3, EmptySeq
<1>8. \/ Len(acts) = 0 /\ phase' = phase
      \/ opts[r].dryRun /\ phase' = phase
      \/ /\ Len(acts) > 0 /\ ~opts[r].dryRun
         /\ pending'[r] = Len(acts) /\ phase'[r] = "apply"
  BY <1>1, <1>2 DEF PlanReturns
<1>9. QueueInv(r)'
  <2>1. CASE phase' = phase
    BY <1>4, <2>1 DEF QueueInv
  <2>2. CASE /\ Len(acts) > 0 /\ ~opts[r].dryRun
             /\ pending'[r] = Len(acts) /\ phase'[r] = "apply"
    <3>1. queue'[r] = acts
      BY <1>7, <2>2
    <3>2. Kind(r)' = kind /\ opts'[r].prune = opts[r].prune
      BY <1>4 DEF Kind
    <3>3. QED
      BY <1>3, <2>2, <3>1, <3>2 DEF QueueInv
  <2>3. QED
    BY <1>8, <2>1, <2>2
<1>10. \/ acts = <<>> /\ phase'[r] = "plan"
       \/ opts[r].dryRun
       \/ phase'[r] = "apply" /\ queue'[r] = acts
  BY <1>3, <1>4, <1>7, <1>8
<1>11. QED
  BY <1>4, <1>5, <1>6, <1>7, <1>9, <1>10

LEMMA PlanTableFacts ==
  ASSUME BifrostAssumption, BaseInv, NEW r \in Runs, NEW kind \in Tables
  PROVE  /\ snap[r][kind] \in Contents(kind)
         /\ \A acts \in TablePlans(kind, snap[r][kind], opts[r].prune) :
              acts \in Seq(Planable(kind, opts[r].prune))
<1>1. kind \in Kinds
  BY DEF Kinds
<1>2. snap[r][kind] \in Contents(kind)
  BY <1>1, NothingFacts DEF BaseInv, SnapTyped
<1>3. QED
  BY <1>2, TablePlanFacts

LEMMA PlanAdvances ==
  ASSUME BifrostAssumption, BaseInv, NEW r \in Runs,
         PlanConfig(r) \/ \E kind \in Tables : PlanTable(r, kind)
  PROVE  Advances(r) /\ UNCHANGED <<live, snap, quiet>>
<1>1. ASSUME NEW kind \in Kinds, NEW plans, Planned(r, kind, plans),
             \A acts \in plans : acts \in Seq(Planable(kind, opts[r].prune))
      PROVE  Advances(r) /\ UNCHANGED <<live, snap, quiet>>
  <2>1. /\ AnyStep(r) /\ opts' = opts /\ UNCHANGED <<live, snap, quiet>>
        /\ queue' \in [Runs -> Seq(BifrostAction)]
        /\ \A s \in Runs \ {r} : queue'[s] = queue[s]
        /\ QueueInv(r)'
    BY <1>1, PlannedFacts
  <2>2. SnapTyped'
    BY <2>1 DEF BaseInv, SnapTyped
  <2>3. QED
    BY <2>1, <2>2 DEF Advances, Still
<1>2. ASSUME NEW kind \in Tables, PlanTable(r, kind)
      PROVE  Advances(r) /\ UNCHANGED <<live, snap, quiet>>
  <2>1. kind \in Kinds
    BY DEF Kinds
  <2>2. QED
    BY <1>1, <1>2, <2>1, PlanTableFacts DEF PlanTable
<1>3. CASE PlanConfig(r)
  <2>1. "config" \in Kinds
    BY DEF Kinds
  <2>2. QED
    BY <1>1, <1>3, <2>1, ConfigPlanFacts DEF PlanConfig
<1>4. QED
  BY <1>2, <1>3

LEMMA NoRegistryAdvances ==
  ASSUME BaseInv, NEW r \in Runs, NEW kind, PlanWithoutRegistry(r, kind)
  PROVE  /\ Advances(r) /\ UNCHANGED <<live, snap, quiet>>
         /\ phase'[r] \in {"plan", "done"} /\ report'[r].failed > 0
<1>1. /\ OrchTypeOK /\ phase \in [Runs -> Phase] /\ report \in [Runs -> Report]
      /\ report[r].failed \in Nat
  BY ReportFields DEF BaseInv, OrchIInv, OrchTypeOK
<1>2. PlanFails(r) /\ UNCHANGED bifrostVars /\ opts' = opts
  BY DEF PlanWithoutRegistry, PlanFails
<1>3. phase'[r] \in {"plan", "done"}
  BY <1>1, <1>2 DEF PlanFails, AfterFailure
<1>4. report'[r].failed > 0
  <2>1. Grows(r, 1, 0, 1, 0, 0)
    BY <1>1, <1>2, ReportGrows DEF PlanFails
  <2>2. QED
    BY <1>1, <2>1 DEF Grows
<1>5. QueueInv(r)'
  BY <1>3 DEF QueueInv
<1>6. UNCHANGED <<live, snap, queue, quiet>>
  BY <1>2 DEF bifrostVars
<1>7. SnapTyped' /\ queue' \in [Runs -> Seq(BifrostAction)]
  BY <1>6 DEF BaseInv, SnapTyped
<1>8. QED
  BY <1>2, <1>3, <1>4, <1>5, <1>6, <1>7 DEF Advances, Still, AnyStep

LEMMA StepAdvances ==
  ASSUME BifrostAssumption, BaseInv, NEW r \in Runs, Step(r) \/ Die(r)
  PROVE  Advances(r)
BY PlanAdvances, NoRegistryAdvances, ApplyAdvances, VerifyAdvances, EndAdvances DEF Step

\* The start of a run.
LEMMA StartFacts ==
  ASSUME BifrostAssumption, BaseInv, NEW r \in Runs, NEW o \in Options, StartSync(r, o)
  PROVE  /\ AnyStep(r) /\ live' = live
         /\ SnapTyped' /\ queue' \in [Runs -> Seq(BifrostAction)] /\ quiet' \in [Runs -> BOOLEAN]
         /\ \A s \in Runs \ {r} : /\ queue'[s] = queue[s] /\ snap'[s] = snap[s]
                                  /\ quiet'[s] = quiet[s]
         /\ QueueInv(r)' /\ phase'[r] = "plan" /\ left'[r] = Selected(o) /\ opts'[r] = o
         /\ \A kind \in Kinds : snap'[r][kind] \in {live[kind], Nothing[kind]}
<1>1. /\ SnapTyped /\ LiveTyped /\ queue \in [Runs -> Seq(BifrostAction)]
      /\ quiet \in [Runs -> BOOLEAN] /\ OrchTypeOK
  BY DEF BaseInv, OrchIInv
<1>2. AnyStep(r) /\ live' = live
  BY DEF StartSync, AnyStep
<1>3. phase'[r] = "plan" /\ left'[r] = Selected(o) /\ opts'[r] = o
  BY <1>1 DEF StartSync, Start, OrchTypeOK
<1>4. /\ queue' \in [Runs -> Seq(BifrostAction)]
      /\ \A s \in Runs \ {r} : queue'[s] = queue[s]
      /\ quiet' \in [Runs -> BOOLEAN] /\ \A s \in Runs \ {r} : quiet'[s] = quiet[s]
  BY <1>1, EmptySeq DEF StartSync
<1>5. PICK unread \in SUBSET Kinds : snap' = [snap EXCEPT ![r] = Fetched(unread)]
  BY DEF StartSync
<1>6. \A kind \in Kinds : Fetched(unread)[kind] \in {live[kind], Nothing[kind]}
  BY DEF Fetched
<1>7. /\ DOMAIN snap' = Runs /\ snap'[r] = Fetched(unread)
      /\ \A s \in Runs \ {r} : snap'[s] = snap[s]
  BY <1>1, <1>5 DEF SnapTyped
<1>8. SnapTyped'
  <2>1. ASSUME NEW kind \in Kinds
        PROVE  snap'[r][kind] \in Contents(kind) \cup {Nothing[kind]}
    BY <1>1, <1>6, <1>7 DEF LiveTyped, Holds
  <2>2. QED
    BY <1>1, <1>7, <2>1 DEF SnapTyped
<1>9. QED
  BY <1>2, <1>3, <1>4, <1>6, <1>7, <1>8 DEF QueueInv

\* What others do to Bifrost.
LEMMA OthersFacts ==
  ASSUME BifrostAssumption, LiveTyped, NEW kind \in Kinds, NEW id \in Ids[kind], Elsewhere(kind, id)
  PROVE  /\ UNCHANGED <<orchVars, snap, queue>> /\ quiet' = [s \in Runs |-> FALSE]
         /\ LiveTyped'
<1>1. live[kind] \in Contents(kind) /\ DOMAIN live = Kinds
  BY DEF LiveTyped, Holds
<1>2. PICK new \in Contents(kind) : live' = [live EXCEPT ![kind] = new]
  <2>1. ASSUME NEW v \in Value(kind), live' = [live EXCEPT ![kind] = Put(@, id, v)]
        PROVE  \E new \in Contents(kind) : live' = [live EXCEPT ![kind] = new]
    <3>1. Put(live[kind], id, v) \in Contents(kind)
      BY <1>1, PutTyped
    <3>2. QED
      BY <2>1, <3>1
  <2>2. ASSUME kind # "config", live' = [live EXCEPT ![kind] = Restrict(@, DOMAIN @ \ {id})]
        PROVE  \E new \in Contents(kind) : live' = [live EXCEPT ![kind] = new]
    <3>1. kind \in Tables
      BY <2>2 DEF Kinds
    <3>2. Restrict(live[kind], DOMAIN live[kind] \ {id}) \in Contents(kind)
      BY <1>1, <3>1, DropFacts
    <3>3. QED
      BY <2>2, <3>2
  <2>3. QED
    BY <2>1, <2>2 DEF Elsewhere
<1>3. LiveTyped'
  BY <1>1, <1>2 DEF LiveTyped, Holds
<1>4. QED
  BY <1>3 DEF Elsewhere

LEMMA SameKeepsQueue ==
  ASSUME NEW s \in Runs, QueueInv(s), Same(s), queue'[s] = queue[s]
  PROVE  QueueInv(s)'
BY DEF QueueInv, Same, Kind

LEMMA WritesTyped ==
  ASSUME LiveTyped, NEW r \in Runs, Writes(r)
  PROVE  LiveTyped'
BY DEF LiveTyped, Holds, Writes

LEMMA BaseKept ==
  ASSUME BifrostAssumption, BaseInv, [Next]_vars
  PROVE  BaseInv'
<1> USE OrchestratorAssumption
<1>1. /\ OrchIInv /\ LiveTyped /\ SnapTyped /\ \A s \in Runs : QueueInv(s)
      /\ quiet \in [Runs -> BOOLEAN] /\ queue \in [Runs -> Seq(BifrostAction)]
  BY DEF BaseInv
<1>2. ASSUME NEW r \in Runs, AnyStep(r), QueueInv(r)',
             \A s \in Runs \ {r} : queue'[s] = queue[s]
      PROVE  OrchIInv' /\ \A s \in Runs : QueueInv(s)'
  <2>1. OrchIInv' /\ \A s \in Runs \ {r} : Same(s)
    BY <1>1, <1>2, StepKeeps, StepOfOneRun
  <2>2. \A s \in Runs \ {r} : QueueInv(s)'
    BY <1>1, <1>2, <2>1, SameKeepsQueue
  <2>3. QED
    BY <1>2, <2>1, <2>2
<1>3. ASSUME UNCHANGED orchVars, queue' = queue
      PROVE  OrchIInv' /\ \A s \in Runs : QueueInv(s)'
  <2>1. OrchIInv'
    BY <1>1, <1>3, StutterKeeps
  <2>2. \A s \in Runs : QueueInv(s)'
    BY <1>1, <1>3 DEF QueueInv, Kind, orchVars
  <2>3. QED
    BY <2>1, <2>2
<1>4. ASSUME NEW r \in Runs, Step(r) \/ Die(r)
      PROVE  BaseInv'
  <2>1. Advances(r)
    BY <1>4, StepAdvances
  <2>2. LiveTyped' /\ quiet' \in [Runs -> BOOLEAN]
    <3>1. CASE Still
      BY <1>1, <3>1 DEF Still, LiveTyped, Holds
    <3>2. CASE Writes(r)
      BY <1>1, <3>2, WritesTyped DEF Writes
    <3>3. QED
      BY <2>1, <3>1, <3>2 DEF Advances
  <2>3. OrchIInv' /\ \A s \in Runs : QueueInv(s)'
    BY <1>2, <2>1 DEF Advances
  <2>4. QED
    BY <2>1, <2>2, <2>3 DEF BaseInv, Advances
<1>5. ASSUME NEW r \in Runs, NEW o \in Options, StartSync(r, o)
      PROVE  BaseInv'
  <2>1. /\ AnyStep(r) /\ live' = live
        /\ SnapTyped' /\ queue' \in [Runs -> Seq(BifrostAction)] /\ quiet' \in [Runs -> BOOLEAN]
        /\ QueueInv(r)' /\ \A s \in Runs \ {r} : queue'[s] = queue[s]
    BY <1>5, StartFacts
  <2>2. OrchIInv' /\ \A s \in Runs : QueueInv(s)'
    BY <1>2, <2>1
  <2>3. LiveTyped'
    BY <1>1, <2>1 DEF LiveTyped, Holds
  <2>4. QED
    BY <2>1, <2>2, <2>3 DEF BaseInv
<1>6. ASSUME NEW kind \in Kinds, NEW id \in Ids[kind], Elsewhere(kind, id)
      PROVE  BaseInv'
  <2>1. /\ UNCHANGED <<orchVars, snap, queue>> /\ quiet' = [s \in Runs |-> FALSE]
        /\ LiveTyped'
    BY <1>1, <1>6, OthersFacts
  <2>2. OrchIInv' /\ \A s \in Runs : QueueInv(s)'
    BY <1>3, <2>1
  <2>3. SnapTyped'
    BY <1>1, <2>1 DEF SnapTyped
  <2>4. QED
    BY <1>1, <2>1, <2>2, <2>3 DEF BaseInv
<1>7. CASE UNCHANGED vars
  <2>1. UNCHANGED orchVars /\ UNCHANGED <<live, snap, queue, quiet>>
    BY <1>7 DEF vars, bifrostVars
  <2>2. OrchIInv' /\ \A s \in Runs : QueueInv(s)'
    BY <1>3, <2>1
  <2>3. SnapTyped' /\ LiveTyped'
    BY <1>1, <2>1 DEF SnapTyped, LiveTyped, Holds
  <2>4. QED
    BY <1>1, <2>1, <2>2, <2>3 DEF BaseInv
<1>8. QED
  BY <1>4, <1>5, <1>6, <1>7 DEF Next

LEMMA BifrostInitBase == Init => BaseInv
<1> SUFFICES ASSUME Init PROVE BaseInv
  OBVIOUS
<1>1. OrchIInv
  BY OrchestratorAssumption, InitHolds DEF Init
<1>2. LiveTyped
  BY DEF Init, LiveTyped, Holds, Kinds, Tables
<1>3. SnapTyped /\ queue \in [Runs -> Seq(BifrostAction)] /\ quiet \in [Runs -> BOOLEAN]
  BY EmptySeq DEF Init, SnapTyped
<1>4. \A r \in Runs : QueueInv(r)
  BY DEF Init, OrchInit, QueueInv
<1>5. QED
  BY <1>1, <1>2, <1>3, <1>4 DEF BaseInv

\* The inductive invariant behind the types: the orchestrator's own, for plans of
\* any length, and the queue as its pending actions spelt out.
THEOREM BifrostBase == Spec => []BaseInv
<1>1. Init => BaseInv
  BY BifrostInitBase
<1>2. BaseInv /\ [Next]_vars => BaseInv'
  BY BifrostAssumption, BaseKept
<1>3. QED
  BY <1>1, <1>2, PTL DEF Spec

\* Every state is well typed: Bifrost holds entries of the right kinds, and no
\* action of a plan is lost or done twice when one of them fails.
THEOREM BifrostTypeCorrect == Spec => []TypeOK
BY BifrostBase, BaseIsTyped, PTL

\* Every step is one of the orchestrator's, or none of it.
LEMMA StepOfRuns ==
  ASSUME BifrostAssumption, BaseInv, [Next]_vars
  PROVE  (\E r \in Runs : AnyStep(r)) \/ UNCHANGED orchVars
<1> USE OrchestratorAssumption
<1>1. ASSUME NEW r \in Runs, Step(r) \/ Die(r)
      PROVE  AnyStep(r)
  BY <1>1, StepAdvances DEF Advances
<1>2. ASSUME NEW r \in Runs, NEW o \in Options, StartSync(r, o)
      PROVE  AnyStep(r)
  BY <1>2, StartFacts DEF BaseInv
<1>3. ASSUME NEW kind \in Kinds, NEW id \in Ids[kind], Elsewhere(kind, id)
      PROVE  UNCHANGED orchVars
  BY <1>3, OthersFacts DEF BaseInv
<1>4. ASSUME UNCHANGED vars
      PROVE  UNCHANGED orchVars
  BY <1>4 DEF vars
<1>5. QED
  BY <1>1, <1>2, <1>3, <1>4 DEF Next

\* Fail-fast, dependency order, dry runs, the counters of the report and the
\* meaning of exit code 0 are as proved of the orchestrator in runs of
\* the three Bifrost reconcilers, whatever the upstream answers and whoever else is at work.
THEOREM BifrostRunsKeepOrder ==
  Spec => [](/\ FailFastStops /\ DependencyOrder /\ DryRunOnlyPlans
             /\ ReportAddsUp /\ CountersMatchResults /\ ZeroExitMeansNoFailure)
<1>1. Init => CountersMatchResults
  BY CountsAtStart DEF Init
<1>2. BaseInv /\ CountersMatchResults /\ [Next]_vars => CountersMatchResults'
  BY BifrostAssumption, OrchestratorAssumption, StepOfRuns, CountsKept DEF BaseInv
<1>3. Spec => []CountersMatchResults
  BY <1>1, <1>2, BifrostBase, PTL DEF Spec
<1>4. BaseInv => /\ FailFastStops /\ DependencyOrder /\ DryRunOnlyPlans
                 /\ ReportAddsUp /\ ZeroExitMeansNoFailure
  BY ZeroExitFollows DEF BaseInv, OrchIInv
<1>5. QED
  BY <1>3, <1>4, BifrostBase, PTL

-----------------------------------------------------------------------------
(* What the registry does not name is left alone.                          *)

LEMMA ActsIsStep ==
  ASSUME BifrostAssumption, BaseInv, [Next]_vars, NEW r \in Runs, Acts(r)
  PROVE  Step(r) \/ Die(r) \/ \E o \in Options : StartSync(r, o)
<1> USE OrchestratorAssumption
<1>1. ASSUME NEW s \in Runs, s # r, Step(s) \/ Die(s) \/ \E o \in Options : StartSync(s, o)
      PROVE  FALSE
  <2>1. AnyStep(s) /\ queue'[r] = queue[r]
    BY <1>1, StepAdvances, StartFacts DEF Advances
  <2>2. Same(r)
    BY <1>1, <2>1, StepOfOneRun DEF BaseInv
  <2>3. QED
    BY <2>1, <2>2 DEF Acts, Same
<1>2. ASSUME NEW kind \in Kinds, NEW id \in Ids[kind], Elsewhere(kind, id)
      PROVE  FALSE
  BY <1>2 DEF Elsewhere, orchVars, Acts
<1>3. ~UNCHANGED vars
  BY DEF vars, orchVars, bifrostVars, Acts
<1>4. QED
  BY <1>1, <1>2, <1>3 DEF Next

\* A run's step either leaves Bifrost as it is or writes there.
LEMMA ActsWrites ==
  ASSUME BifrostAssumption, BaseInv, [Next]_vars, NEW r \in Runs, Acts(r)
  PROVE  live' = live \/ Writes(r)
BY ActsIsStep, StepAdvances, StartFacts DEF Advances, Still

\* However old or incomplete the snapshot a run plans from, its steps change no
\* provider, rule or config field the registry does not name, and remove one only
\* when told to prune.
THEOREM UnmanagedAlwaysSpared == Spec => SparesTheUnmanaged
<1>1. BaseInv /\ [Next]_vars =>
        \A r \in Runs, kind \in Kinds : Acts(r) =>
          /\ \A id \in DOMAIN live[kind] \ DOMAIN live'[kind] :
               opts[r].prune /\ id \notin DOMAIN Desired[kind]
          /\ \A id \in DOMAIN live'[kind] \ DOMAIN Desired[kind] :
               id \in DOMAIN live[kind] /\ live'[kind][id] = live[kind][id]
  <2> SUFFICES ASSUME BaseInv, [Next]_vars, NEW r \in Runs, NEW kind \in Kinds, Acts(r)
               PROVE  /\ \A id \in DOMAIN live[kind] \ DOMAIN live'[kind] :
                           opts[r].prune /\ id \notin DOMAIN Desired[kind]
                      /\ \A id \in DOMAIN live'[kind] \ DOMAIN Desired[kind] :
                           id \in DOMAIN live[kind] /\ live'[kind][id] = live[kind][id]
    OBVIOUS
  <2>1. CASE live'[kind] = live[kind]
    BY <2>1
  <2>2. CASE Fits(kind, live[kind], live'[kind], opts[r].prune)
    BY <2>2, Zenon DEF Fits
  <2>3. live'[kind] = live[kind] \/ Fits(kind, live[kind], live'[kind], opts[r].prune)
    BY BifrostAssumption, ActsWrites DEF Writes
  <2>4. QED
    BY <2>1, <2>2, <2>3
<1>2. QED
  BY <1>1, BifrostBase, PTL DEF Spec, SparesTheUnmanaged

-----------------------------------------------------------------------------
(* A run nobody has disturbed since its fetch.                             *)

\* Only a run's own steps leave it undisturbed and change what it knows or plans.
LEMMA QuietMeansAlone ==
  ASSUME BifrostAssumption, BaseInv, [Next]_vars, NEW r \in Runs, quiet'[r]
  PROVE  \/ Step(r) \/ Die(r) \/ \E o \in Options : StartSync(r, o)
         \/ /\ quiet[r] /\ live' = live /\ Same(r)
            /\ queue'[r] = queue[r] /\ snap'[r] = snap[r]
<1> USE OrchestratorAssumption
<1>1. ASSUME NEW s \in Runs \ {r}, Step(s) \/ Die(s)
      PROVE  /\ quiet[r] /\ live' = live /\ Same(r)
             /\ queue'[r] = queue[r] /\ snap'[r] = snap[r]
  <2>1. Advances(s)
    BY <1>1, StepAdvances
  <2>2. Same(r)
    BY <2>1, StepOfOneRun DEF Advances, BaseInv
  <2>3. quiet[r] /\ live' = live
    BY <2>1 DEF Advances, Still, Writes
  <2>4. QED
    BY <2>1, <2>2, <2>3 DEF Advances
<1>2. ASSUME NEW s \in Runs \ {r}, NEW o \in Options, StartSync(s, o)
      PROVE  /\ quiet[r] /\ live' = live /\ Same(r)
             /\ queue'[r] = queue[r] /\ snap'[r] = snap[r]
  <2>1. AnyStep(s) /\ quiet[r] /\ live' = live /\ queue'[r] = queue[r] /\ snap'[r] = snap[r]
    BY <1>2, StartFacts
  <2>2. QED
    BY <2>1, StepOfOneRun DEF BaseInv
<1>3. ASSUME NEW kind \in Kinds, NEW id \in Ids[kind], Elsewhere(kind, id)
      PROVE  FALSE
  BY <1>3 DEF Elsewhere
<1>4. ASSUME UNCHANGED vars
      PROVE  /\ quiet[r] /\ live' = live /\ Same(r)
             /\ queue'[r] = queue[r] /\ snap'[r] = snap[r]
  BY <1>4 DEF vars, bifrostVars, orchVars, Same
<1>5. QED
  BY <1>1, <1>2, <1>3, <1>4 DEF Next

\* Where a run is in the list of reconcilers.
LEMMA Place ==
  ASSUME BifrostAssumption, BaseInv, NEW r \in Runs
  PROVE  /\ left[r] \subseteq Position /\ \A i \in left[r] : cur[r] < i
         /\ cur[r] \in Nat
         /\ phase[r] \in {"apply", "verify"} => cur[r] \in Selected(opts[r]) /\ ~opts[r].dryRun
         /\ phase[r] \in {"done", "exited"} /\ report[r].failed = 0 => left[r] = {}
         /\ Selected(opts[r]) \subseteq Position
         /\ report[r].failed \in Nat /\ report[r].driftWarnings \in Nat
<1>1. RunInv(r) /\ left[r] \in SUBSET Position /\ cur[r] \in 0 .. Len(Order)
  BY SplitByRun DEF BaseInv, AllRunsInv, OrchIInv, OrchTypeOK
<1>2. \A i \in left[r] : cur[r] < i
  BY <1>1 DEF RunInv, OrderInv
<1>3. report[r].failed \in Nat /\ report[r].driftWarnings \in Nat
  BY ReportFields DEF BaseInv, OrchIInv, OrchTypeOK
<1>4. QED
  BY <1>1, <1>2, <1>3 DEF RunInv, LoopInv, Selected

\* What is left to plan was read as it is now, or not at all.
FreshInv(r) ==
  quiet[r] => \A i \in left[r] : snap[r][Order[i]] \in {live[Order[i]], Nothing[Order[i]]}

LEMMA LeftShrinks ==
  ASSUME NEW r \in Runs, BaseInv, Step(r) \/ Die(r)
  PROVE  left'[r] \subseteq left[r]
<1>1. left \in [Runs -> SUBSET Position]
  BY DEF BaseInv, OrchIInv, OrchTypeOK
<1>2. TakeNext(r) => left'[r] \subseteq left[r]
  BY <1>1 DEF TakeNext
<1>3. QED
  BY <1>2 DEF Step, Die, PlanTable, PlanWithoutRegistry, PlanConfig, Planned, PlanReturns,
              PlanFails, PlanPanics, ApplyTable, ApplyConfig, ApplySucceeds, ApplyFails,
              VerifyTable, VerifyConfig, Verified, VerifyReturns, Finish, Return, Exit, Crash

LEMMA FreshKept ==
  ASSUME BifrostAssumption, BaseInv, [Next]_vars, NEW r \in Runs, FreshInv(r)
  PROVE  FreshInv(r)'
<1> SUFFICES ASSUME quiet'[r], NEW i \in left'[r]
             PROVE  snap'[r][Order[i]] \in {live'[Order[i]], Nothing[Order[i]]}
  BY DEF FreshInv
<1>1. CASE Step(r) \/ Die(r)
  <2>1. Advances(r) /\ i \in left[r]
    BY <1>1, StepAdvances, LeftShrinks
  <2>2. quiet[r]
    BY <2>1 DEF Advances, Still, Writes
  <2>3. snap[r][Order[i]] \in {live[Order[i]], Nothing[Order[i]]}
    BY <2>1, <2>2 DEF FreshInv
  <2>4. live'[Order[i]] = live[Order[i]]
    <3>1. CASE Still
      BY <3>1 DEF Still
    <3>2. CASE Writes(r)
      <4>1. cur[r] < i /\ i \in Position /\ cur[r] \in Position
        BY <2>1, <3>2, Place DEF Writes, Selected
      <4>2. Order[i] # Kind(r) /\ Order[i] \in Kinds
        BY <4>1, OrderFacts DEF Kind
      <4>3. QED
        BY <3>2, <4>2 DEF Writes
    <3>3. QED
      BY <2>1, <3>1, <3>2 DEF Advances
  <2>5. QED
    BY <2>1, <2>3, <2>4 DEF Advances
<1>2. ASSUME NEW o \in Options, StartSync(r, o)
      PROVE  snap'[r][Order[i]] \in {live'[Order[i]], Nothing[Order[i]]}
  <2>1. /\ left'[r] = Selected(o) /\ live' = live
        /\ \A kind \in Kinds : snap'[r][kind] \in {live[kind], Nothing[kind]}
    BY <1>2, StartFacts
  <2>2. Order[i] \in Kinds
    BY <2>1, OrderFacts DEF Selected
  <2>3. QED
    BY <2>1, <2>2
<1>3. CASE /\ quiet[r] /\ live' = live /\ Same(r)
           /\ queue'[r] = queue[r] /\ snap'[r] = snap[r]
  BY <1>3 DEF FreshInv, Same
<1>4. QED
  BY <1>1, <1>2, <1>3, QuietMeansAlone

-----------------------------------------------------------------------------
(* A run that has neither failed nor drifted: what it has dealt with is as *)
(* the registry wants it, or waits in the queue.                           *)

InPlace(kind, id) == id \in DOMAIN live[kind] /\ live[kind][id] = Desired[kind][id]

Awaits(r, types, id) == \E p \in DOMAIN queue[r] : queue[r][p].type \in types /\ queue[r][p].id = id

Working(r, i) == phase[r] \in {"apply", "verify"} /\ cur[r] = i

Unspoilt(r) ==
  /\ phase[r] \notin {"idle", "crashed"} /\ quiet[r] /\ ~opts[r].dryRun
  /\ report[r].failed = 0 /\ report[r].driftWarnings = 0

Handled(r) == Selected(opts[r]) \ left[r]

\* Everything the registry wants of the reconcilers dealt with is in place.
WantedInv(r) ==
  \A i \in Handled(r) : \A id \in DOMAIN Desired[Order[i]] :
    \/ InPlace(Order[i], id)
    \/ Working(r, i) /\ (Order[i] = "config" \/ Awaits(r, {"create", "update"}, id))

\* With --prune, nothing else is in the tables that were read.
ExtrasInv(r) ==
  \A i \in Handled(r) : Order[i] \in Tables /\ opts[r].prune /\ snap[r][Order[i]] # Nothing[Order[i]] =>
    \A id \in DOMAIN live[Order[i]] \ DOMAIN Desired[Order[i]] :
      Working(r, i) /\ Awaits(r, {"delete"}, id)

Settled(r) == Unspoilt(r) => WantedInv(r) /\ ExtrasInv(r)

\* Steps that change nothing these are about.
LEMMA SameSettles ==
  ASSUME NEW r \in Runs, WantedInv(r), ExtrasInv(r), live' = live,
         opts'[r] = opts[r], left'[r] = left[r], snap'[r] \in {snap[r], Nothing},
         \/ queue'[r] = queue[r] /\ cur'[r] = cur[r] /\ phase'[r] = phase[r]
         \/ phase[r] \notin {"apply", "verify"}
  PROVE  WantedInv(r)' /\ ExtrasInv(r)'
<1>1. Handled(r)' = Handled(r)
  BY DEF Handled, Selected
<1>2. \A kind, id : InPlace(kind, id)' <=> InPlace(kind, id)
  BY DEF InPlace
<1>3. \A i, types, id : Working(r, i) /\ Awaits(r, types, id) => (Working(r, i) /\ Awaits(r, types, id))'
  BY DEF Working, Awaits
<1>4. \A i : Working(r, i) => Working(r, i)'
  BY DEF Working
<1>5. WantedInv(r)'
  BY <1>1, <1>2, <1>3, <1>4 DEF WantedInv
<1>6. ExtrasInv(r)'
  BY <1>1, <1>3 DEF ExtrasInv
<1>7. QED
  BY <1>5, <1>6

\* A call that succeeded, whatever Bifrost made of it: the action stays at the head.
LEMMA SendSettles ==
  ASSUME BifrostAssumption, BaseInv, NEW r \in Runs, WantedInv(r), ExtrasInv(r),
         Still \/ Writes(r), phase[r] = "apply", phase'[r] = "verify",
         queue'[r] = queue[r], opts'[r] = opts[r], left'[r] = left[r], cur'[r] = cur[r],
         snap'[r] = snap[r]
  PROVE  WantedInv(r)' /\ ExtrasInv(r)'
<1>1. Handled(r)' = Handled(r) /\ Handled(r) \subseteq Position
  BY DEF Handled, Selected
<1>2. \A kind \in Kinds : \/ live'[kind] = live[kind]
                          \/ Fits(kind, live[kind], live'[kind], opts[r].prune)
  BY DEF Still, Writes
<1>3. \A kind \in Kinds : \A id \in DOMAIN Desired[kind] : InPlace(kind, id) => InPlace(kind, id)'
  <2> SUFFICES ASSUME NEW kind \in Kinds, NEW id \in DOMAIN Desired[kind], InPlace(kind, id)
               PROVE  InPlace(kind, id)'
    OBVIOUS
  <2>1. CASE live'[kind] = live[kind]
    BY <2>1 DEF InPlace
  <2>2. CASE Fits(kind, live[kind], live'[kind], opts[r].prune)
    BY <2>2, Zenon DEF InPlace, Fits
  <2>3. QED
    BY <1>2, <2>1, <2>2
<1>4. \A kind \in Kinds : \A id \in DOMAIN live'[kind] \ DOMAIN Desired[kind] : id \in DOMAIN live[kind]
  <2> SUFFICES ASSUME NEW kind \in Kinds, NEW id \in DOMAIN live'[kind] \ DOMAIN Desired[kind]
               PROVE  id \in DOMAIN live[kind]
    OBVIOUS
  <2>1. CASE live'[kind] = live[kind]
    BY <2>1
  <2>2. CASE Fits(kind, live[kind], live'[kind], opts[r].prune)
    BY <2>2, Zenon DEF Fits
  <2>3. QED
    BY <1>2, <2>1, <2>2
<1>5. \A i : Working(r, i) => Working(r, i)'
  BY DEF Working
<1>6. \A types, id : Awaits(r, types, id) => Awaits(r, types, id)'
  BY DEF Awaits
<1>7. \A i \in Handled(r) : Order[i] \in Kinds
  BY <1>1, OrderFacts
<1>8. WantedInv(r)'
  BY <1>1, <1>3, <1>5, <1>6, <1>7 DEF WantedInv
<1>9. ExtrasInv(r)'
  BY <1>1, <1>4, <1>5, <1>6, <1>7 DEF ExtrasInv
<1>10. QED
  BY <1>8, <1>9

\* What planning leaves of a run's own: the reconciler planned is handled now, and
\* everything handled before is in place.
LEMMA PlanHandles ==
  ASSUME BifrostAssumption, BaseInv, NEW r \in Runs, phase[r] = "plan",
         WantedInv(r), ExtrasInv(r), UNCHANGED <<live, snap, quiet>>, opts' = opts,
         cur'[r] \in left[r], left'[r] = left[r] \ {cur'[r]}
  PROVE  /\ Handled(r)' = Handled(r) \cup {cur'[r]}
         /\ \A i \in Handled(r) : \A id \in DOMAIN Desired[Order[i]] : InPlace(Order[i], id)'
         /\ \A i \in Handled(r) :
              Order[i] \in Tables /\ opts[r].prune /\ snap[r][Order[i]] # Nothing[Order[i]] =>
                DOMAIN live[Order[i]] \subseteq DOMAIN Desired[Order[i]]
<1>1. left[r] \subseteq Selected(opts[r])
  BY SplitByRun DEF BaseInv, AllRunsInv, RunInv, LoopInv
<1>2. Handled(r)' = Handled(r) \cup {cur'[r]}
  BY <1>1 DEF Handled, Selected
<1>3. \A i : ~Working(r, i)
  BY DEF Working
<1>4. \A kind, id : InPlace(kind, id)' <=> InPlace(kind, id)
  BY DEF InPlace
<1>5. QED
  BY <1>2, <1>3, <1>4 DEF WantedInv, ExtrasInv

\* The plan of a table has everything that is not in place.
LEMMA PlanTableSettles ==
  ASSUME BifrostAssumption, BaseInv, NEW r \in Runs, NEW kind \in Tables, PlanTable(r, kind),
         quiet[r], ~opts[r].dryRun, FreshInv(r), WantedInv(r), ExtrasInv(r)
  PROVE  WantedInv(r)' /\ ExtrasInv(r)'
<1>1. kind \in Kinds /\ kind # "config"
  BY DEF Kinds, Tables
<1>2. PICK t : t = snap[r][kind]
  OBVIOUS
<1>3. PICK i0 : i0 = cur'[r]
  OBVIOUS
<1>4. PICK plans : plans = TablePlans(kind, t, opts[r].prune)
  OBVIOUS
<1>5. t \in Contents(kind) /\ \A acts \in plans : acts \in Seq(Planable(kind, opts[r].prune))
  BY <1>2, <1>4, PlanTableFacts
<1>6. Planned(r, kind, plans)
  BY <1>2, <1>4 DEF PlanTable
<1>7. /\ opts' = opts /\ UNCHANGED <<live, snap, quiet>>
      /\ phase[r] = "plan" /\ i0 \in left[r] /\ Order[i0] = kind
      /\ left'[r] = left[r] \ {i0}
      /\ \E acts \in plans : \/ acts = <<>> /\ phase'[r] = "plan"
                             \/ phase'[r] = "apply" /\ queue'[r] = acts
  BY <1>1, <1>3, <1>5, <1>6, PlannedFacts
<1>8. PICK acts \in plans : \/ acts = <<>> /\ phase'[r] = "plan"
                            \/ phase'[r] = "apply" /\ queue'[r] = acts
  BY <1>7
<1>9. /\ Lists(acts, Upserts(kind, t))
      /\ opts[r].prune => Lists(acts, Prunable(kind, t))
  BY <1>4, <1>5, TablePlanFacts
<1>10. /\ Handled(r)' = Handled(r) \cup {i0}
       /\ \A i \in Handled(r) : \A id \in DOMAIN Desired[Order[i]] : InPlace(Order[i], id)'
       /\ \A i \in Handled(r) :
            Order[i] \in Tables /\ opts[r].prune /\ snap[r][Order[i]] # Nothing[Order[i]] =>
              DOMAIN live[Order[i]] \subseteq DOMAIN Desired[Order[i]]
  BY <1>3, <1>7, PlanHandles
<1>11. t \in {live[kind], Nothing[kind]} /\ DOMAIN Nothing[kind] = {}
  BY <1>2, <1>7, NothingFacts DEF FreshInv
\* Any action called for awaits its turn.
<1>12. ASSUME NEW a, \E p \in DOMAIN acts : acts[p] = a
       PROVE  Working(r, i0)' /\ \A types : a.type \in types => Awaits(r, types, a.id)'
  <2>1. acts # <<>>
    BY <1>12
  <2>2. phase'[r] = "apply" /\ queue'[r] = acts
    BY <1>8, <2>1
  <2>3. Working(r, i0)'
    BY <1>3, <2>2 DEF Working
  <2>4. QED
    BY <1>12, <2>2, <2>3 DEF Awaits
<1>13. ASSUME NEW S, Lists(acts, S), NEW type, NEW id, [type |-> type, id |-> id] \in S,
              NEW types, type \in types
       PROVE  Working(r, i0)' /\ Awaits(r, types, id)'
  <2>1. PICK a : a = [type |-> type, id |-> id]
    OBVIOUS
  <2>2. a.type = type /\ a.id = id
    BY <2>1
  <2>3. \E p \in DOMAIN acts : acts[p] = a
    BY <1>13, <2>1 DEF Lists
  <2>4. Working(r, i0)' /\ Awaits(r, types, a.id)'
    BY <1>12, <1>13, <2>2, <2>3
  <2>5. QED
    BY <2>2, <2>4
<1>14. ASSUME NEW id \in DOMAIN Desired[kind]
       PROVE  \/ InPlace(kind, id)'
              \/ Working(r, i0)' /\ Awaits(r, {"create", "update"}, id)'
  <2>1. CASE id \notin DOMAIN t
    <3>1. [type |-> "create", id |-> id] \in Upserts(kind, t)
      BY <2>1 DEF Upserts, Act
    <3>2. QED
      BY <1>9, <1>13, <3>1
  <2>2. CASE id \in DOMAIN t /\ t[id] # Desired[kind][id]
    <3>1. [type |-> "update", id |-> id] \in Upserts(kind, t)
      BY <2>2 DEF Upserts, Act, Differs
    <3>2. QED
      BY <1>9, <1>13, <3>1
  <2>3. CASE id \in DOMAIN t /\ t[id] = Desired[kind][id]
    <3>1. live'[kind] = t
      BY <1>7, <1>11, <2>3
    <3>2. QED
      BY <2>3, <3>1 DEF InPlace
  <2>4. QED
    BY <2>1, <2>2, <2>3
<1>15. ASSUME opts[r].prune, t # Nothing[kind], NEW id \in DOMAIN live'[kind] \ DOMAIN Desired[kind]
       PROVE  Working(r, i0)' /\ Awaits(r, {"delete"}, id)'
  <2>1. [type |-> "delete", id |-> id] \in Prunable(kind, t)
    BY <1>7, <1>11, <1>15 DEF Prunable, Act
  <2>2. QED
    BY <1>9, <1>13, <1>15, <2>1
<1>16. WantedInv(r)'
  BY <1>7, <1>10, <1>14 DEF WantedInv
<1>17. ExtrasInv(r)'
  <2> SUFFICES ASSUME NEW i \in Handled(r)', Order[i] \in Tables, opts[r].prune,
                      snap[r][Order[i]] # Nothing[Order[i]],
                      NEW id \in DOMAIN live'[Order[i]] \ DOMAIN Desired[Order[i]]
               PROVE  Working(r, i)' /\ Awaits(r, {"delete"}, id)'
    BY <1>7 DEF ExtrasInv
  <2>1. CASE i \in Handled(r)
    BY <1>7, <1>10, <2>1
  <2>2. CASE i = i0
    BY <1>2, <1>7, <1>15, <2>2
  <2>3. QED
    BY <1>10, <2>1, <2>2
<1>18. QED
  BY <1>16, <1>17

\* The plan of the config puts every field that is not in place.
LEMMA PlanConfigSettles ==
  ASSUME BifrostAssumption, BaseInv, NEW r \in Runs, PlanConfig(r),
         quiet[r], ~opts[r].dryRun, FreshInv(r), WantedInv(r), ExtrasInv(r)
  PROVE  WantedInv(r)' /\ ExtrasInv(r)'
<1>1. "config" \in Kinds /\ "config" \notin Tables
  BY DEF Kinds, Tables
<1>2. PICK c : c = snap[r]["config"]
  OBVIOUS
<1>3. PICK i0 : i0 = cur'[r]
  OBVIOUS
<1>4. PICK plans : plans = ConfigPlans(c)
  OBVIOUS
<1>5. \A acts \in plans : /\ acts \in Seq(Planable("config", opts[r].prune))
                          /\ acts = <<>> => ~ConfigDiffers(c)
  BY <1>4, ConfigPlanFacts
<1>6. Planned(r, "config", plans)
  BY <1>2, <1>4 DEF PlanConfig
<1>7. /\ opts' = opts /\ UNCHANGED <<live, snap, quiet>>
      /\ phase[r] = "plan" /\ i0 \in left[r] /\ Order[i0] = "config"
      /\ left'[r] = left[r] \ {i0}
      /\ \E acts \in plans : \/ acts = <<>> /\ phase'[r] = "plan"
                             \/ phase'[r] = "apply" /\ queue'[r] = acts
  BY <1>1, <1>3, <1>5, <1>6, PlannedFacts
<1>8. phase'[r] = "apply" \/ ~ConfigDiffers(c)
  BY <1>5, <1>7
<1>9. /\ Handled(r)' = Handled(r) \cup {i0}
      /\ \A i \in Handled(r) : \A id \in DOMAIN Desired[Order[i]] : InPlace(Order[i], id)'
      /\ \A i \in Handled(r) :
           Order[i] \in Tables /\ opts[r].prune /\ snap[r][Order[i]] # Nothing[Order[i]] =>
             DOMAIN live[Order[i]] \subseteq DOMAIN Desired[Order[i]]
  BY <1>3, <1>7, PlanHandles
<1>10. c \in {live["config"], Unfetched}
  BY <1>2, <1>7, NothingFacts DEF FreshInv
<1>11. ASSUME NEW id \in DOMAIN Desired["config"]
       PROVE  InPlace("config", id)' \/ Working(r, i0)'
  <2>1. c = live["config"]
    BY <1>2, <1>10 DEF PlanConfig, ConfigWanted
  <2>2. CASE phase'[r] = "apply"
    BY <1>3, <2>2 DEF Working
  <2>3. CASE ~ConfigDiffers(c)
    <3>1. live["config"][id] = Desired["config"][id]
      BY <2>1, <2>3 DEF ConfigDiffers
    <3>2. DOMAIN live["config"] = Ids["config"]
      BY <1>1, ContentsFacts DEF BaseInv, LiveTyped, Holds
    <3>3. id \in DOMAIN live["config"]
      BY <1>1, <3>2, WantedIsContents
    <3>4. QED
      BY <1>7, <3>1, <3>3 DEF InPlace
  <2>4. QED
    BY <1>8, <2>2, <2>3
<1>12. WantedInv(r)'
  BY <1>7, <1>9, <1>11 DEF WantedInv
<1>13. ExtrasInv(r)'
  BY <1>1, <1>7, <1>9 DEF ExtrasInv
<1>14. QED
  BY <1>12, <1>13

\* What awaits its turn in a queue is at its head, or still there when the head
\* has been dealt with.
LEMMA StillAwaits ==
  ASSUME BaseInv, NEW r \in Runs, phase[r] = "verify", phase'[r] = NextAction(r),
         queue'[r] = Tail(queue[r]), NEW types, NEW id, Awaits(r, types, id)
  PROVE  \/ Head(queue[r]).type \in types /\ Head(queue[r]).id = id
         \/ phase'[r] = "apply" /\ Awaits(r, types, id)'
<1>1. /\ queue[r] \in Seq(BifrostAction) /\ Len(queue[r]) = pending[r] /\ Len(queue[r]) > 0
  BY DEF BaseInv, QueueInv
<1>2. /\ Head(queue[r]) = queue[r][1] /\ DOMAIN queue[r] = 1 .. Len(queue[r])
      /\ \A p \in DOMAIN queue[r] \ {1} :
           p - 1 \in DOMAIN Tail(queue[r]) /\ queue[r][p] = Tail(queue[r])[p - 1]
  BY <1>1, TailFacts
<1>3. PICK p \in DOMAIN queue[r] : queue[r][p].type \in types /\ queue[r][p].id = id
  BY DEF Awaits
<1>4. CASE p = 1
  BY <1>2, <1>3, <1>4
<1>5. CASE p # 1
  <2>1. p - 1 \in DOMAIN queue'[r] /\ queue'[r][p - 1] = queue[r][p]
    BY <1>2, <1>5
  <2>2. Awaits(r, types, id)'
    BY <1>3, <2>1 DEF Awaits
  <2>3. pending[r] # 1
    BY <1>1, <1>2, <1>5
  <2>4. QED
    BY <2>2, <2>3 DEF NextAction
<1>6. QED
  BY <1>4, <1>5

\* Verify found what was asked for.
LEMMA VerifiedOk ==
  ASSUME BifrostAssumption, BaseInv, NEW r \in Runs, VerifyTable(r) \/ VerifyConfig(r),
         report[r].driftWarnings = 0, report'[r].driftWarnings = 0
  PROVE  /\ phase[r] = "verify" /\ phase'[r] = NextAction(r) /\ queue'[r] = Tail(queue[r])
         /\ cur' = cur /\ left' = left /\ opts' = opts /\ UNCHANGED <<live, snap, quiet>>
         /\ Kind(r) = "config" => ~ConfigDiffers(live["config"])
         /\ Kind(r) # "config" => TableVerdict(Kind(r), live[Kind(r)], Head(queue[r])) = "ok"
<1>1. ASSUME NEW s \in Verdict, Verified(r, s)
      PROVE  /\ s = "ok" /\ phase[r] = "verify" /\ phase'[r] = NextAction(r)
             /\ queue'[r] = Tail(queue[r])
             /\ cur' = cur /\ left' = left /\ opts' = opts /\ UNCHANGED <<live, snap, quiet>>
  <2>1. /\ phase[r] = "verify" /\ queue'[r] = Tail(queue[r])
        /\ cur' = cur /\ left' = left /\ opts' = opts /\ UNCHANGED <<live, snap, quiet>>
        /\ \E v \in Verdict : VerifyReturns(r, v) /\ v \in {s, "unverified"}
    BY <1>1, VerifyQueue
  <2>2. PICK v \in Verdict : VerifyReturns(r, v) /\ v \in {s, "unverified"}
    BY <2>1
  <2>3. v = "ok"
    BY <2>2, VerdictCounts DEF BaseInv
  <2>4. phase'[r] = NextAction(r)
    BY <2>2 DEF VerifyReturns, BaseInv, OrchIInv, OrchTypeOK
  <2>5. QED
    BY <2>1, <2>2, <2>3, <2>4
<1>2. CASE VerifyTable(r)
  <2>1. PICK s : s = TableVerdict(Kind(r), live[Kind(r)], Head(queue[r]))
    OBVIOUS
  <2>2. s \in Verdict
    BY <2>1 DEF TableVerdict, Verdict
  <2>3. Verified(r, s) /\ Kind(r) # "config"
    BY <1>2, <2>1 DEF VerifyTable, Tables
  <2>4. QED
    BY <1>1, <2>1, <2>2, <2>3
<1>3. CASE VerifyConfig(r)
  <2>1. PICK s : s = IF ConfigDiffers(live["config"]) THEN "applied-with-drift" ELSE "ok"
    OBVIOUS
  <2>2. s \in Verdict
    BY <2>1 DEF Verdict
  <2>3. Verified(r, s) /\ Kind(r) = "config"
    BY <1>3, <2>1 DEF VerifyConfig
  <2>4. QED
    BY <1>1, <2>1, <2>2, <2>3
<1>4. QED
  BY <1>2, <1>3

\* An action that verifies takes its entry to where the registry wants it.
LEMMA CheckSettles ==
  ASSUME BifrostAssumption, BaseInv, NEW r \in Runs, VerifyTable(r) \/ VerifyConfig(r),
         report[r].driftWarnings = 0, report'[r].driftWarnings = 0,
         WantedInv(r), ExtrasInv(r)
  PROVE  WantedInv(r)' /\ ExtrasInv(r)'
<1>1. /\ phase[r] = "verify" /\ phase'[r] = NextAction(r) /\ queue'[r] = Tail(queue[r])
      /\ cur' = cur /\ left' = left /\ opts' = opts /\ UNCHANGED <<live, snap, quiet>>
      /\ Kind(r) = "config" => ~ConfigDiffers(live["config"])
      /\ Kind(r) # "config" => TableVerdict(Kind(r), live[Kind(r)], Head(queue[r])) = "ok"
  BY VerifiedOk
<1>2. Handled(r)' = Handled(r) /\ Handled(r) \subseteq Position
  BY <1>1 DEF Handled, Selected
<1>3. \A kind, id : InPlace(kind, id)' <=> InPlace(kind, id)
  BY <1>1 DEF InPlace
<1>4. PICK a : a = Head(queue[r])
  OBVIOUS
<1>5. ASSUME NEW i, Working(r, i), NEW types, NEW id, Awaits(r, types, id)
      PROVE  \/ a.type \in types /\ a.id = id
             \/ Working(r, i)' /\ Awaits(r, types, id)'
  BY <1>1, <1>4, <1>5, StillAwaits DEF Working
<1>6. WantedInv(r)'
  <2> SUFFICES ASSUME NEW i \in Handled(r), NEW id \in DOMAIN Desired[Order[i]],
                      ~InPlace(Order[i], id)
               PROVE  /\ Working(r, i)'
                      /\ Order[i] = "config" \/ Awaits(r, {"create", "update"}, id)'
    BY <1>2, <1>3 DEF WantedInv
  <2>1. Working(r, i) /\ (Order[i] = "config" \/ Awaits(r, {"create", "update"}, id))
    BY DEF WantedInv
  <2>2. Kind(r) = Order[i] /\ Order[i] \in Kinds
    BY <1>2, <2>1, OrderFacts DEF Working, Kind
  <2>3. CASE Order[i] = "config"
    <3>1. live["config"][id] = Desired["config"][id]
      BY <1>1, <2>2, <2>3 DEF ConfigDiffers
    <3>2. DOMAIN live["config"] = Ids["config"]
      BY <2>2, <2>3, ContentsFacts DEF BaseInv, LiveTyped, Holds
    <3>3. id \in Ids["config"]
      BY <2>2, <2>3, WantedIsContents
    <3>4. QED
      BY <2>3, <3>1, <3>2, <3>3 DEF InPlace
  <2>4. CASE Order[i] # "config"
    <3>1. CASE a.type \in {"create", "update"} /\ a.id = id
      <4>1. id \in DOMAIN live[Order[i]] /\ ~Differs(Order[i], id, live[Order[i]][id])
        BY <1>1, <1>4, <2>2, <2>4, <3>1 DEF TableVerdict
      <4>2. QED
        BY <4>1 DEF InPlace, Differs
    <3>2. QED
      BY <1>5, <2>1, <2>4, <3>1
  <2>5. QED
    BY <2>3, <2>4
<1>7. ExtrasInv(r)'
  <2> SUFFICES ASSUME NEW i \in Handled(r), Order[i] \in Tables, opts[r].prune,
                      snap[r][Order[i]] # Nothing[Order[i]],
                      NEW id \in DOMAIN live[Order[i]] \ DOMAIN Desired[Order[i]]
               PROVE  Working(r, i)' /\ Awaits(r, {"delete"}, id)'
    BY <1>1, <1>2 DEF ExtrasInv
  <2>1. Working(r, i) /\ Awaits(r, {"delete"}, id)
    BY DEF ExtrasInv
  <2>2. Kind(r) = Order[i] /\ Order[i] # "config"
    BY <2>1 DEF Working, Kind, Tables
  <2>3. CASE a.type = "delete" /\ a.id = id
    <3>1. id \notin DOMAIN live[Order[i]]
      BY <1>1, <1>4, <2>2, <2>3 DEF TableVerdict
    <3>2. QED
      BY <3>1
  <2>4. QED
    BY <1>5, <2>1, <2>3
<1>8. QED
  BY <1>6, <1>7

LEMMA StepOfRunning ==
  ASSUME NEW r \in Runs, Step(r) \/ Die(r)
  PROVE  Running(r)
BY DEF Step, Die, PlanTable, PlanWithoutRegistry, PlanConfig, Planned, PlanReturns, PlanFails,
       TakeNext, PlanPanics, ApplyTable, ApplyConfig, Doing, VerifyTable, VerifyConfig,
       Finish, Return, Exit, Crash, Running

LEMMA StepSettles ==
  ASSUME BifrostAssumption, BaseInv, NEW r \in Runs, Step(r) \/ Die(r),
         FreshInv(r), Settled(r), Unspoilt(r)'
  PROVE  WantedInv(r)' /\ ExtrasInv(r)'
<1> USE OrchestratorAssumption
<1>1. Advances(r) /\ Running(r)
  BY StepAdvances, StepOfRunning
<1>2. /\ report'[r].failed = 0 /\ report'[r].driftWarnings = 0
      /\ quiet'[r] /\ ~opts'[r].dryRun /\ phase'[r] # "crashed"
  BY DEF Unspoilt
<1>3. report[r].failed = 0 /\ report[r].driftWarnings = 0
  BY <1>1, <1>2, OutcomesStay DEF Advances, BaseInv
<1>4. quiet[r] /\ ~opts[r].dryRun /\ opts' = opts
  BY <1>1, <1>2 DEF Advances, Still, Writes
<1>5. WantedInv(r) /\ ExtrasInv(r)
  BY <1>1, <1>3, <1>4 DEF Settled, Unspoilt, Running
<1>6. CASE PlanConfig(r) \/ \E kind \in Tables : PlanTable(r, kind)
  BY <1>4, <1>5, <1>6, PlanTableSettles, PlanConfigSettles
<1>7. ASSUME NEW kind, PlanWithoutRegistry(r, kind)
      PROVE  FALSE
  BY <1>2, <1>7, NoRegistryAdvances
<1>8. CASE PlanPanics(r) \/ Die(r)
  <2>1. phase'[r] = "crashed"
    BY <1>8 DEF PlanPanics, Die, Crash, BaseInv, OrchIInv, OrchTypeOK
  <2>2. QED
    BY <1>2, <2>1
<1>9. CASE Finish(r)
  <2>1. /\ live' = live /\ left'[r] = left[r] /\ opts'[r] = opts[r]
        /\ phase[r] \notin {"apply", "verify"}
    BY <1>9 DEF Finish, Ending, Return, Exit
  <2>2. snap'[r] \in {snap[r], Nothing}
    BY <1>1 DEF Advances
  <2>3. QED
    BY <1>5, <2>1, <2>2, SameSettles
<1>10. CASE ApplyTable(r) \/ ApplyConfig(r)
  <2>1. /\ phase[r] = "apply" /\ queue' = DropFailed(r) /\ snap' = snap
        /\ ApplySucceeds(r) \/ ApplyFails(r)
    BY <1>10 DEF ApplyTable, ApplyConfig, Doing
  <2>2. /\ cur' = cur /\ left' = left
        /\ phase'[r] = "verify" /\ queue'[r] = queue[r]
    BY <1>2, <2>1, ApplyQueue
  <2>3. Still \/ Writes(r)
    BY <1>1 DEF Advances
  <2>4. QED
    BY <1>4, <1>5, <2>1, <2>2, <2>3, SendSettles
<1>11. CASE VerifyTable(r) \/ VerifyConfig(r)
  BY <1>2, <1>3, <1>5, <1>11, CheckSettles
<1>12. QED
  BY <1>6, <1>7, <1>8, <1>9, <1>10, <1>11 DEF Step

LEMMA SettledKept ==
  ASSUME BifrostAssumption, BaseInv, [Next]_vars, NEW r \in Runs, FreshInv(r), Settled(r)
  PROVE  Settled(r)'
<1> SUFFICES ASSUME Unspoilt(r)' PROVE WantedInv(r)' /\ ExtrasInv(r)'
  BY DEF Settled
<1>1. CASE Step(r) \/ Die(r)
  BY <1>1, StepSettles
<1>2. ASSUME NEW o \in Options, StartSync(r, o)
      PROVE  WantedInv(r)' /\ ExtrasInv(r)'
  <2>1. left'[r] = Selected(o) /\ opts'[r] = o
    BY <1>2, StartFacts
  <2>2. Handled(r)' = {}
    BY <2>1 DEF Handled, Selected
  <2>3. QED
    BY <2>2 DEF WantedInv, ExtrasInv
<1>3. CASE /\ quiet[r] /\ live' = live /\ Same(r)
           /\ queue'[r] = queue[r] /\ snap'[r] = snap[r]
  <2>1. Unspoilt(r)
    BY <1>3 DEF Unspoilt, Same
  <2>2. QED
    BY <1>3, <2>1, SameSettles DEF Settled, Same
<1>4. QED
  BY <1>1, <1>2, <1>3, QuietMeansAlone DEF Unspoilt

\* Inductive invariant behind what a clean run shows: besides the types and the
\* order, what the snapshot of an undisturbed run is worth, and where everything is
\* that the run has dealt with.
SettleInv == BaseInv /\ \A r \in Runs : FreshInv(r) /\ Settled(r)

THEOREM BifrostSettles == Spec => []SettleInv
<1>1. Init => SettleInv
  <2> SUFFICES ASSUME Init PROVE SettleInv
    OBVIOUS
  <2>1. \A r \in Runs : ~quiet[r]
    BY DEF Init
  <2>2. QED
    BY <2>1, BifrostInitBase DEF SettleInv, FreshInv, Settled, Unspoilt
<1>2. SettleInv /\ [Next]_vars => SettleInv'
  BY BifrostAssumption, BaseKept, FreshKept, SettledKept DEF SettleInv
<1>3. QED
  BY <1>1, <1>2, PTL DEF Spec

\* A finished run has dealt with all it was to do.
LEMMA FinishedHandled ==
  ASSUME BifrostAssumption, BaseInv, NEW r \in Runs, phase[r] \in {"done", "exited"},
         report[r].failed = 0, NEW kind \in Covered(r)
  PROVE  \E i \in Handled(r) : Order[i] = kind
BY Place DEF Covered, Handled

\* A run that reports neither failure nor drift and that nobody disturbed has
\* brought every entry of the registry to Bifrost, even if the reads it planned
\* from failed and Bifrost dropped calls or their answers on the way.
THEOREM CleanRunsConverge == Spec => []CleanRunConverges
<1>1. SettleInv => CleanRunConverges
  <2> SUFFICES ASSUME SettleInv, NEW r \in Runs, Clean(r), NEW kind \in Covered(r),
                      NEW id \in DOMAIN Desired[kind]
               PROVE  InPlace(kind, id)
    BY DEF CleanRunConverges, InPlace
  <2>1. WantedInv(r) /\ phase[r] \in {"done", "exited"}
    BY DEF SettleInv, Settled, Unspoilt, Clean
  <2>2. PICK i \in Handled(r) : Order[i] = kind
    BY BifrostAssumption, FinishedHandled DEF SettleInv, Clean
  <2>3. ~Working(r, i)
    BY <2>1 DEF Working
  <2>4. QED
    BY <2>1, <2>2, <2>3 DEF WantedInv
<1>2. QED
  BY <1>1, BifrostSettles, PTL

\* A run without failures is done only when it has nothing left to plan.
LEMMA DoneReturns ==
  ASSUME BifrostAssumption, BaseInv, NEW r \in Runs, Step(r) \/ Die(r),
         phase'[r] = "done", report'[r].failed = 0
  PROVE  Return(r)
<1>1. phase \in [Runs -> Phase]
  BY DEF BaseInv, OrchIInv, OrchTypeOK
<1>2. ASSUME PlanConfig(r) \/ \E kind \in Tables : PlanTable(r, kind)
      PROVE  FALSE
  <2>1. \E n : PlanReturns(r, n)
    BY <1>2 DEF PlanConfig, PlanTable, Planned
  <2>2. QED
    BY <1>1, <2>1 DEF PlanReturns, TakeNext
<1>3. ASSUME NEW kind, PlanWithoutRegistry(r, kind)
      PROVE  FALSE
  BY <1>3, NoRegistryAdvances
<1>4. ASSUME PlanPanics(r) \/ Die(r)
      PROVE  FALSE
  BY <1>1, <1>4 DEF PlanPanics, Die, Crash
<1>5. CASE Finish(r)
  BY <1>1, <1>5 DEF Finish, Exit
<1>6. ASSUME ApplyTable(r) \/ ApplyConfig(r)
      PROVE  FALSE
  <2>1. /\ phase[r] = "apply" /\ queue' = DropFailed(r)
        /\ ApplySucceeds(r) \/ ApplyFails(r)
    BY <1>6 DEF ApplyTable, ApplyConfig, Doing
  <2>2. QED
    BY <2>1, ApplyQueue
<1>7. ASSUME VerifyTable(r) \/ VerifyConfig(r)
      PROVE  FALSE
  <2>1. \E s \in Verdict : Verified(r, s)
    BY <1>7, VerdictsGiven
  <2>2. \E v : VerifyReturns(r, v)
    BY <2>1 DEF Verified
  <2>3. QED
    BY <1>1, <2>2 DEF VerifyReturns, NextAction
<1>8. QED
  BY <1>2, <1>3, <1>4, <1>5, <1>6, <1>7 DEF Step

\* With --prune such a run also leaves nothing else in the tables it has seen.
THEOREM CleanRunsPrune == Spec => CleanPruneLeavesNoExtras
<1>1. SettleInv /\ [Next]_vars =>
        \A r \in Runs : phase'[r] = "done" /\ Clean(r)' /\ opts[r].prune =>
          \A kind \in Covered(r) \ {"config"} :
            snap[r][kind] # Nothing[kind] => DOMAIN live[kind] \subseteq DOMAIN Desired[kind]
  <2> SUFFICES ASSUME SettleInv, [Next]_vars, NEW r \in Runs,
                      phase'[r] = "done", Clean(r)', opts[r].prune,
                      NEW kind \in Covered(r) \ {"config"}, snap[r][kind] # Nothing[kind]
               PROVE  DOMAIN live[kind] \subseteq DOMAIN Desired[kind]
    OBVIOUS
  <2>1. BaseInv /\ Settled(r) /\ OrchestratorAssumption /\ BifrostAssumption
    BY OrchestratorAssumption, BifrostAssumption DEF SettleInv
  <2>2. Unspoilt(r) /\ phase[r] \in {"plan", "done"} /\ left[r] = {}
    <3>1. CASE Step(r) \/ Die(r)
      <4>1. Return(r)
        BY <2>1, <3>1, DoneReturns DEF Clean
      <4>2. Advances(r)
        BY <2>1, <3>1, StepAdvances
      <4>3. QED
        BY <4>1, <4>2 DEF Return, Clean, Advances, Still, Writes, Unspoilt
    <3>2. ASSUME NEW o \in Options, StartSync(r, o)
          PROVE  FALSE
      <4>1. phase'[r] = "plan"
        BY <2>1, <3>2, StartFacts
      <4>2. QED
        BY <4>1
    <3>3. CASE quiet[r] /\ Same(r)
      <4>1. /\ phase[r] = "done" /\ report[r].failed = 0 /\ report[r].driftWarnings = 0
            /\ ~opts[r].dryRun
        BY <3>3 DEF Same, Clean
      <4>2. left[r] = {}
        BY <2>1, <4>1, Place
      <4>3. QED
        BY <3>3, <4>1, <4>2 DEF Unspoilt
    <3>4. quiet'[r]
      BY DEF Clean
    <3>5. QED
      BY <2>1, <3>1, <3>2, <3>3, <3>4, QuietMeansAlone
  <2>3. PICK i \in Handled(r) : Order[i] = kind
    BY <2>2 DEF Covered, Handled
  <2>4. Order[i] \in Tables
    BY <2>1, <2>3, OrderFacts DEF Handled, Selected, Kinds
  <2>5. ExtrasInv(r) /\ ~Working(r, i)
    BY <2>1, <2>2 DEF Settled, Working
  <2>6. QED
    BY <2>3, <2>4, <2>5 DEF ExtrasInv
<1>2. QED
  BY <1>1, BifrostSettles, PTL DEF Spec, CleanPruneLeavesNoExtras

\* As long as a run of all reconcilers is undisturbed and has had no failure and
\* no drift, the rules it writes send traffic to providers that exist.
THEOREM RulesAlwaysFollowProviders == Spec => RulesFollowProviders
<1>1. SettleInv /\ [Next]_vars =>
        \A r \in Runs :
          /\ Acts(r) /\ quiet[r] /\ Covered(r) = Kinds
          /\ report[r].failed = 0 /\ report[r].driftWarnings = 0
          => \A g \in DOMAIN live'["routing-rule"] :
               \/ g \in DOMAIN live["routing-rule"] /\ live'["routing-rule"][g] = live["routing-rule"][g]
               \/ live'["routing-rule"][g] \in DOMAIN live'["provider"]
  <2> SUFFICES ASSUME SettleInv, [Next]_vars, NEW r \in Runs,
                      Acts(r), quiet[r], Covered(r) = Kinds,
                      report[r].failed = 0, report[r].driftWarnings = 0,
                      NEW g \in DOMAIN live'["routing-rule"],
                      ~(g \in DOMAIN live["routing-rule"]
                        /\ live'["routing-rule"][g] = live["routing-rule"][g])
               PROVE  live'["routing-rule"][g] \in DOMAIN live'["provider"]
    OBVIOUS
  <2>1. /\ BaseInv /\ Settled(r) /\ BifrostAssumption
        /\ "routing-rule" \in Kinds /\ "provider" \in Kinds
    BY BifrostAssumption DEF SettleInv, Kinds, Tables
  <2>2. Writes(r) /\ Kind(r) = "routing-rule"
    <3>1. live' # live
      OBVIOUS
    <3>2. Writes(r)
      BY <2>1, <3>1, ActsWrites
    <3>3. QED
      BY <2>1, <3>2 DEF Writes
  <2>3. g \in DOMAIN Desired["routing-rule"] /\ live'["routing-rule"][g] = Desired["routing-rule"][g]
    <3>1. Fits("routing-rule", live["routing-rule"], live'["routing-rule"], opts[r].prune)
      BY <2>2 DEF Writes
    <3>2. QED
      BY <3>1, Zenon DEF Fits
  <2>4. Desired["routing-rule"][g] \in DOMAIN Desired["provider"]
    BY <2>1, <2>3 DEF BifrostAssumption
  <2>5. live'["provider"] = live["provider"]
    BY <2>1, <2>2 DEF Writes
  <2>6. WantedInv(r)
    <3>1. phase[r] = "apply" /\ ~opts[r].dryRun
      BY <2>1, <2>2, Place DEF Writes
    <3>2. QED
      BY <2>1, <3>1 DEF Settled, Unspoilt
  <2>7. PICK i \in Handled(r) : Order[i] = "provider"
    <3>1. PICK i \in Selected(opts[r]) : Order[i] = "provider"
      BY <2>1 DEF Covered
    <3>2. cur[r] = 3 /\ left[r] \subseteq {1, 2, 3} /\ \A j \in left[r] : cur[r] < j
      <4>1. cur[r] \in Position /\ left[r] \subseteq Position /\ \A j \in left[r] : cur[r] < j
        BY <2>1, <2>2, Place DEF Writes
      <4>2. QED
        BY <2>1, <2>2, <4>1, OrderFacts DEF Kind
    <3>3. i \notin left[r]
      BY <3>2
    <3>4. QED
      BY <3>1, <3>3 DEF Handled
  <2>8. ~Working(r, i)
    BY <2>2, <2>7 DEF Working, Kind
  <2>9. InPlace("provider", live'["routing-rule"][g])
    BY <2>3, <2>4, <2>6, <2>7, <2>8 DEF WantedInv
  <2>10. QED
    BY <2>5, <2>9 DEF InPlace
<1>2. QED
  BY <1>1, BifrostSettles, PTL DEF Spec, RulesFollowProviders
=============================================================================
