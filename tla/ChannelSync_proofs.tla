------------------------- MODULE ChannelSync_proofs -------------------------
(***************************************************************************)
(* The channel reconciler's safety properties for every registry, every    *)
(* table to start with, any number of processes and whatever others do to  *)
(* the table meanwhile.                                                    *)
(***************************************************************************)
EXTENDS ChannelSync, SyncOrchestrator_proofs

-----------------------------------------------------------------------------
(* Plans.                                                                  *)

\* The tables a fetch can return.
Tables == UNION {[ids -> Channel] : ids \in SUBSET (1 .. MaxId)}

PlannedActions(live, prune, byName) ==
  Upserts(live, byName) \cup (IF prune THEN Prunable(live, byName) ELSE {})

LEMMA PlannedActionsTyped ==
  ASSUME ChannelAssumption, NEW live \in Tables, NEW byName \in ByName(live)
  PROVE  /\ IsFiniteSet(Upserts(live, byName)) /\ Upserts(live, byName) \subseteq ChannelAction
         /\ IsFiniteSet(Prunable(live, byName)) /\ Prunable(live, byName) \subseteq ChannelAction
         /\ \A u \in Upserts(live, byName), d \in Prunable(live, byName) : u # d
<1>1. /\ DOMAIN live \in SUBSET (1 .. MaxId) /\ live \in [DOMAIN live -> Channel]
      /\ MaxId \in Nat
  BY DEF Tables, ChannelAssumption
<1>2. \A n \in DOMAIN byName : byName[n] \in DOMAIN live /\ live[byName[n]].name = n /\ n \in Names
  BY <1>1 DEF ByName, Channel
<1>3. Upserts(live, byName) \subseteq ChannelAction
  BY <1>1, <1>2 DEF Upserts, ChannelAction
<1>4. Prunable(live, byName) \subseteq ChannelAction
  BY <1>1, <1>2 DEF Prunable, ChannelAction
<1>5. IsFiniteSet(Upserts(live, byName))
  <2> DEFINE f == [a \in Upserts(live, byName) |-> a.id]
  <2>1. f \in Injection(Upserts(live, byName), Keys)
    BY DEF Upserts, Injection, IsInjective
  <2>2. QED
    BY <2>1, FS_Injection DEF ChannelAssumption
<1>6. IsFiniteSet(Prunable(live, byName))
  <2> DEFINE f == [a \in Prunable(live, byName) |-> a.live]
  <2>1. f \in Injection(Prunable(live, byName), 1 .. MaxId)
    BY <1>1, <1>2 DEF Prunable, Injection, IsInjective
  <2>2. IsFiniteSet(1 .. MaxId)
    BY <1>1, FS_Interval
  <2>3. QED
    BY <2>1, <2>2, FS_Injection
<1>7. \A u \in Upserts(live, byName), d \in Prunable(live, byName) : u # d
  BY DEF Upserts, Prunable
<1>8. QED
  BY <1>3, <1>4, <1>5, <1>6, <1>7

\* A plan has each of the actions its snapshot calls for, and each of them once.
LEMMA PlanFacts ==
  ASSUME ChannelAssumption, NEW live \in Tables, NEW prune \in BOOLEAN,
         NEW acts \in Plans(live, prune)
  PROVE  \E byName \in ByName(live) :
           /\ acts \in Seq(PlannedActions(live, prune, byName))
           /\ acts \in Seq(ChannelAction)
           /\ Len(acts) \in Nat /\ DOMAIN acts = 1 .. Len(acts)
           /\ \A i, j \in DOMAIN acts : i # j => acts[i] # acts[j]
           /\ \A a \in PlannedActions(live, prune, byName) : \E i \in DOMAIN acts : acts[i] = a
<1>1. PICK byName \in ByName(live) :
        \E u \in SetToSeqs(Upserts(live, byName)),
           d \in SetToSeqs(IF prune THEN Prunable(live, byName) ELSE {}) : acts = u \o d
  BY DEF Plans
<1> DEFINE U == Upserts(live, byName)
           D == IF prune THEN Prunable(live, byName) ELSE {}
<1>2. PICK u \in SetToSeqs(U), d \in SetToSeqs(D) : acts = u \o d
  BY <1>1
<1>3. /\ IsFiniteSet(U) /\ U \subseteq ChannelAction
      /\ IsFiniteSet(D) /\ D \subseteq ChannelAction
      /\ \A x \in U, y \in D : x # y
  BY PlannedActionsTyped, FS_EmptySet
<1>4. PlannedActions(live, prune, byName) = U \cup D
  BY DEF PlannedActions
<1> HIDE DEF U, D
<1>5. /\ u \in Seq(U) /\ Len(u) \in Nat /\ DOMAIN u = 1 .. Len(u)
      /\ \A i, j \in DOMAIN u : i # j => u[i] # u[j]
      /\ \A x \in U : \E i \in DOMAIN u : u[i] = x
  BY <1>3, SeqsOfSet
<1>6. /\ d \in Seq(D) /\ Len(d) \in Nat /\ DOMAIN d = 1 .. Len(d)
      /\ \A i, j \in DOMAIN d : i # j => d[i] # d[j]
      /\ \A x \in D : \E i \in DOMAIN d : d[i] = x
  BY <1>3, SeqsOfSet
<1>7. /\ acts \in Seq(U \cup D) /\ Len(acts) = Len(u) + Len(d)
      /\ DOMAIN acts = 1 .. (Len(u) + Len(d))
      /\ \A i \in 1 .. Len(u) : acts[i] = u[i]
      /\ \A i \in 1 .. Len(d) : acts[Len(u) + i] = d[i]
      /\ \A i \in 1 .. (Len(u) + Len(d)) :
           i \notin 1 .. Len(u) => /\ i - Len(u) \in 1 .. Len(d)
                                   /\ acts[i] = d[i - Len(u)]
  BY <1>2, <1>5, <1>6, ConcatElements
<1>8. acts \in Seq(ChannelAction)
  BY <1>3, <1>7, SeqMonotonic
<1>9. ASSUME NEW i \in DOMAIN acts, NEW j \in DOMAIN acts, i # j
      PROVE  acts[i] # acts[j]
  <2>0. i \in Int /\ j \in Int /\ Len(u) \in Int
    BY <1>5, <1>7
  <2>1. CASE i \in 1 .. Len(u) /\ j \in 1 .. Len(u)
    BY <1>5, <1>7, <1>9, <2>1
  <2>2. CASE i \in 1 .. Len(u) /\ j \notin 1 .. Len(u)
    <3>1. acts[i] \in U /\ acts[j] \in D
      BY <1>5, <1>6, <1>7, <2>2
    <3>2. QED
      BY <1>3, <3>1
  <2>3. CASE i \notin 1 .. Len(u) /\ j \in 1 .. Len(u)
    <3>1. acts[j] \in U /\ acts[i] \in D
      BY <1>5, <1>6, <1>7, <2>3
    <3>2. QED
      BY <1>3, <3>1
  <2>4. CASE i \notin 1 .. Len(u) /\ j \notin 1 .. Len(u)
    <3>1. /\ i - Len(u) \in DOMAIN d /\ j - Len(u) \in DOMAIN d
          /\ acts[i] = d[i - Len(u)] /\ acts[j] = d[j - Len(u)]
      BY <1>6, <1>7, <2>4
    <3>2. i - Len(u) # j - Len(u)
      BY <1>9, <2>0
    <3>3. QED
      BY <1>6, <3>1, <3>2
  <2>5. QED
    BY <2>1, <2>2, <2>3, <2>4
<1>10. ASSUME NEW a \in U \cup D
       PROVE  \E i \in DOMAIN acts : acts[i] = a
  <2>1. CASE a \in U
    <3>1. PICK i \in DOMAIN u : u[i] = a
      BY <1>5, <2>1
    <3>2. i \in DOMAIN acts /\ acts[i] = a
      BY <1>5, <1>6, <1>7, <3>1
    <3>3. QED
      BY <3>2
  <2>2. CASE a \in D
    <3>1. PICK i \in DOMAIN d : d[i] = a
      BY <1>6, <2>2
    <3>2. Len(u) + i \in DOMAIN acts /\ acts[Len(u) + i] = a
      BY <1>5, <1>6, <1>7, <3>1
    <3>3. QED
      BY <3>2
  <2>3. QED
    BY <2>1, <2>2
<1>11. Len(acts) \in Nat /\ DOMAIN acts = 1 .. Len(acts)
  BY <1>5, <1>6, <1>7
<1>12. QED
  BY <1>4, <1>7, <1>8, <1>9, <1>10, <1>11

LEMMA PlanComplete ==
  ASSUME ChannelAssumption, NEW live \in Tables, NEW prune \in BOOLEAN,
         NEW acts \in Plans(live, prune)
  PROVE  \E byName \in ByName(live) :
           \A a \in PlannedActions(live, prune, byName) : \E i \in DOMAIN acts : acts[i] = a
BY PlanFacts

-----------------------------------------------------------------------------
(* Types, and the queue as the orchestrator's pending actions.             *)

TableTyped ==
  /\ nextId \in 1 .. (MaxId + 1)
  /\ DOMAIN chan \subseteq 1 .. (nextId - 1)
  /\ chan \in [DOMAIN chan -> Channel]

\* The queue is as long as the orchestrator thinks, and empty when a run plans or
\* has come to its end without a failure.
QueueInv(r) ==
  /\ phase[r] \in {"apply", "verify"} => Len(queue[r]) = pending[r] /\ pending[r] > 0
  /\ phase[r] = "plan" => queue[r] = <<>>
  /\ phase[r] \in {"done", "exited"} /\ report[r].failed = 0 => queue[r] = <<>>

RunsTyped ==
  /\ snap \in [Runs -> Tables]
  /\ queue \in [Runs -> Seq(ChannelAction)]
  /\ quiet \in [Runs -> BOOLEAN]

\* Inductive invariant behind the type invariant.
BaseInv == OrchIInv /\ TableTyped /\ RunsTyped /\ \A r \in Runs : QueueInv(r)

LEMMA BaseIsTyped == BaseInv => TypeOK
BY DEF BaseInv, OrchIInv, TableTyped, RunsTyped, QueueInv, QueueIsPending, TypeOK, Tables

\* The table after a channel is added, set and removed.
LEMMA RowAdded ==
  ASSUME ChannelAssumption, TableTyped, nextId =< MaxId, NEW new \in Channel,
         chan' = Inserted(nextId, new), nextId' = nextId + 1
  PROVE  /\ TableTyped'
         /\ nextId \notin DOMAIN chan /\ nextId' > nextId
         /\ DOMAIN chan' = DOMAIN chan \cup {nextId} /\ chan'[nextId] = new
         /\ \A i \in DOMAIN chan : chan'[i] = chan[i]
<1>1. MaxId \in Nat /\ nextId \in Nat /\ nextId \notin DOMAIN chan
  BY DEF TableTyped, ChannelAssumption
<1>2. /\ DOMAIN chan' = DOMAIN chan \cup {nextId} /\ chan'[nextId] = new
      /\ \A i \in DOMAIN chan : chan'[i] = chan[i]
      /\ chan' = [i \in DOMAIN chan' |-> chan'[i]]
  BY <1>1 DEF Inserted
<1>3. \A i \in DOMAIN chan' : chan'[i] \in Channel
  BY <1>2 DEF TableTyped
<1>4. TableTyped'
  BY <1>1, <1>2, <1>3 DEF TableTyped
<1>5. QED
  BY <1>1, <1>2, <1>4

LEMMA RowSet ==
  ASSUME TableTyped, NEW i \in DOMAIN chan, NEW ch \in Channel,
         chan' = [chan EXCEPT ![i] = ch], nextId' = nextId
  PROVE  /\ TableTyped' /\ DOMAIN chan' = DOMAIN chan /\ chan'[i] = ch
         /\ \A j \in DOMAIN chan \ {i} : chan'[j] = chan[j]
BY DEF TableTyped

LEMMA RowDropped ==
  ASSUME TableTyped, NEW i \in DOMAIN chan,
         chan' = Restrict(chan, DOMAIN chan \ {i}), nextId' = nextId
  PROVE  /\ TableTyped' /\ DOMAIN chan' = DOMAIN chan \ {i}
         /\ \A j \in DOMAIN chan' : chan'[j] = chan[j]
<1>1. /\ DOMAIN chan' = DOMAIN chan \ {i}
      /\ \A j \in DOMAIN chan' : chan'[j] = chan[j]
      /\ chan' = [j \in DOMAIN chan' |-> chan'[j]]
  BY DEF Restrict
<1>2. QED
  BY <1>1 DEF TableTyped

\* Apply answered: a success leaves the action at the head to be verified, a
\* failure drops it.
LEMMA ApplyQueue ==
  ASSUME BaseInv, NEW r \in Runs, phase[r] = "apply", Answered(r), DropFailed(r)
  PROVE  /\ queue' \in [Runs -> Seq(ChannelAction)]
         /\ \A s \in Runs \ {r} : queue'[s] = queue[s]
         /\ QueueInv(r)'
         /\ Len(queue[r]) > 0
         /\ \/ /\ phase'[r] = "verify" /\ queue'[r] = queue[r]
               /\ ApplySucceeds(r)
            \/ /\ phase'[r] # "verify" /\ queue'[r] = Tail(queue[r])
               /\ ApplyFails(r) /\ report'[r].failed > 0
<1>1. /\ OrchTypeOK /\ queue \in [Runs -> Seq(ChannelAction)]
      /\ Len(queue[r]) = pending[r] /\ pending[r] > 0
      /\ report[r].failed \in Nat /\ report \in [Runs -> Report]
  BY ReportFields DEF BaseInv, OrchIInv, RunsTyped, QueueInv, OrchTypeOK
<1>2. Tail(queue[r]) \in Seq(ChannelAction) /\ Len(Tail(queue[r])) = pending[r] - 1
  BY <1>1, TailFacts
<1>3. CASE ApplySucceeds(r)
  <2>1. phase'[r] = "verify" /\ pending' = pending
    BY <1>1, <1>3 DEF ApplySucceeds, OrchTypeOK
  <2>2. queue' = queue
    BY <2>1 DEF DropFailed
  <2>3. QED
    BY <1>1, <1>3, <2>1, <2>2 DEF QueueInv
<1>4. CASE ApplyFails(r)
  <2>1. /\ phase'[r] = AfterFailure(r, NextAction(r)) /\ pending'[r] = pending[r] - 1
    BY <1>1, <1>4 DEF ApplyFails, OrchTypeOK
  <2>2. /\ phase'[r] \in {"done", "plan", "apply"}
        /\ phase'[r] = "plan" => pending[r] = 1
        /\ phase'[r] = "apply" => pending[r] # 1
    BY <2>1 DEF AfterFailure, NextAction
  <2>3. /\ queue' = [queue EXCEPT ![r] = Tail(@)] /\ queue'[r] = Tail(queue[r])
        /\ \A s \in Runs \ {r} : queue'[s] = queue[s]
    BY <1>1, <2>2 DEF DropFailed
  <2>4. report'[r].failed > 0
    <3>1. Grows(r, 1, 0, 1, 0, 0)
      BY <1>1, <1>4, ReportGrows DEF ApplyFails
    <3>2. QED
      BY <1>1, <3>1 DEF Grows
  <2>5. queue' \in [Runs -> Seq(ChannelAction)]
    BY <1>1, <1>2, <2>3
  <2>6. pending[r] \in Nat
    BY <1>1 DEF OrchTypeOK
  <2>7. QueueInv(r)'
    <3>1. phase'[r] = "plan" => Tail(queue[r]) = <<>>
      BY <1>2, <2>2, EmptySeq
    <3>2. QED
      BY <1>1, <1>2, <2>1, <2>2, <2>3, <2>4, <2>6, <3>1 DEF QueueInv
  <2>8. QED
    BY <1>1, <1>4, <2>2, <2>3, <2>4, <2>5, <2>7
<1>5. QED
  BY <1>3, <1>4 DEF Answered

\* Verify is through with the action at the head.
LEMMA VerifyQueue ==
  ASSUME BaseInv, NEW r \in Runs, NEW s, Verified(r, s), s \in Verdict
  PROVE  /\ queue' \in [Runs -> Seq(ChannelAction)]
         /\ \A q \in Runs \ {r} : queue'[q] = queue[q]
         /\ QueueInv(r)'
         /\ Len(queue[r]) > 0 /\ queue'[r] = Tail(queue[r])
<1>1. PICK v \in Verdict : VerifyReturns(r, v)
  BY DEF Verified, Verdict
<1>2. /\ OrchTypeOK /\ queue \in [Runs -> Seq(ChannelAction)] /\ pending[r] \in Nat
      /\ Len(queue[r]) = pending[r] /\ pending[r] > 0
  BY <1>1 DEF BaseInv, OrchIInv, RunsTyped, QueueInv, OrchTypeOK, VerifyReturns
<1>3. Tail(queue[r]) \in Seq(ChannelAction) /\ Len(Tail(queue[r])) = pending[r] - 1
  BY <1>2, TailFacts
<1>4. /\ phase'[r] = NextAction(r) /\ pending'[r] = pending[r] - 1
  BY <1>1, <1>2 DEF VerifyReturns, OrchTypeOK
<1>5. /\ queue'[r] = Tail(queue[r]) /\ \A q \in Runs \ {r} : queue'[q] = queue[q]
      /\ queue' \in [Runs -> Seq(ChannelAction)]
  BY <1>2, <1>3 DEF Verified
<1>6. QueueInv(r)'
  <2>1. pending[r] = 1 => Tail(queue[r]) = <<>>
    <3>1. pending[r] = 1 => Len(Tail(queue[r])) = 0
      BY <1>3
    <3>2. QED
      BY <1>3, <3>1, EmptySeq
  <2>2. QED
    BY <1>2, <1>3, <1>4, <1>5, <2>1 DEF QueueInv, NextAction
<1>7. QED
  BY <1>2, <1>5, <1>6

\* The plan fills the queue.
LEMMA PlanQueue ==
  ASSUME ChannelAssumption, BaseInv, NEW r \in Runs, PlanChannels(r)
  PROVE  /\ \E n \in Nat : PlanReturns(r, n)
         /\ queue' \in [Runs -> Seq(ChannelAction)]
         /\ \A q \in Runs \ {r} : queue'[q] = queue[q] /\ snap'[q] = snap[q]
         /\ QueueInv(r)'
         /\ RunsTyped'
         /\ \E acts \in Plans(snap[r], opts[r].prune) :
              /\ acts \in Seq(ChannelAction)
              /\ queue'[r] = (IF opts[r].dryRun THEN <<>> ELSE acts)
<1>1. /\ OrchTypeOK /\ queue \in [Runs -> Seq(ChannelAction)] /\ snap \in [Runs -> Tables]
      /\ quiet \in [Runs -> BOOLEAN] /\ snap[r] \in Tables
  BY DEF BaseInv, OrchIInv, RunsTyped
<1>2. opts[r].prune \in BOOLEAN /\ opts[r].dryRun \in BOOLEAN
  BY <1>1, OrchestratorAssumption DEF OrchTypeOK, OrchestratorAssumption
<1>3. PICK acts \in Plans(snap[r], opts[r].prune) :
        /\ PlanReturns(r, Len(acts))
        /\ queue' = [queue EXCEPT ![r] = IF opts[r].dryRun THEN <<>> ELSE acts]
  BY DEF PlanChannels
<1>4. acts \in Seq(ChannelAction) /\ Len(acts) \in Nat
  BY <1>1, <1>2, PlanFacts
<1>5. /\ queue'[r] = (IF opts[r].dryRun THEN <<>> ELSE acts)
      /\ queue' \in [Runs -> Seq(ChannelAction)]
      /\ \A q \in Runs \ {r} : queue'[q] = queue[q]
  BY <1>1, <1>3, <1>4, EmptySeq
<1>6. NoChannels \in Tables
  <2>1. {} \in SUBSET (1 .. MaxId) /\ NoChannels \in [{} -> Channel]
    BY DEF NoChannels
  <2>2. QED
    BY <2>1 DEF Tables
<1>7. /\ snap' \in [Runs -> Tables] /\ quiet' = quiet
      /\ \A q \in Runs \ {r} : snap'[q] = snap[q]
  BY <1>1, <1>6 DEF PlanChannels
<1>8. QueueInv(r)'
  <2>1. /\ phase[r] = "plan"
        /\ \/ Len(acts) = 0 /\ phase' = phase
           \/ Len(acts) > 0 /\ opts[r].dryRun /\ phase' = phase
           \/ /\ Len(acts) > 0 /\ ~opts[r].dryRun
              /\ pending' = [pending EXCEPT ![r] = Len(acts)]
              /\ phase' = [phase EXCEPT ![r] = "apply"]
    BY <1>3 DEF PlanReturns, TakeNext
  <2>2. Len(acts) = 0 => acts = <<>>
    BY <1>4, EmptySeq
  <2>3. CASE phase' = phase
    <3>1. Len(acts) = 0 \/ opts[r].dryRun
      BY <1>1, <2>1, <2>3 DEF OrchTypeOK
    <3>2. phase'[r] = "plan" /\ queue'[r] = <<>>
      BY <1>5, <2>1, <2>2, <2>3, <3>1
    <3>3. QED
      BY <3>2 DEF QueueInv
  <2>4. CASE phase' # phase
    <3>1. phase'[r] = "apply" /\ pending'[r] = Len(acts) /\ Len(acts) > 0 /\ queue'[r] = acts
      BY <1>1, <1>2, <1>5, <2>1, <2>4 DEF OrchTypeOK
    <3>2. QED
      BY <3>1 DEF QueueInv
  <2>5. QED
    BY <2>3, <2>4
<1>9. QED
  BY <1>1, <1>3, <1>4, <1>5, <1>7, <1>8 DEF RunsTyped

-----------------------------------------------------------------------------
(* What a step does to the table, and that it keeps the types.             *)

\* The channel a create makes.
Fresh(k) == [name |-> Desired[k].name, main |-> Desired[k].main,
             rest |-> Desired[k].rest, used |-> FALSE]

Still == UNCHANGED <<chan, nextId, quiet>>

Creates(r) ==
  /\ Doing(r, "create") /\ nextId =< MaxId
  /\ chan' = Inserted(nextId, Fresh(Head(queue[r]).id))
  /\ nextId' = nextId + 1
  /\ Wrote(r)

Updates(r) ==
  /\ Doing(r, "update") /\ Head(queue[r]).live \in DOMAIN chan
  /\ \E ch \in Stored(Head(queue[r]).id, chan[Head(queue[r]).live]) :
       chan' = [chan EXCEPT ![Head(queue[r]).live] = ch]
  /\ nextId' = nextId
  /\ Wrote(r)

Deletes(r) ==
  /\ Doing(r, "delete") /\ Head(queue[r]).live \in DOMAIN chan
  /\ chan' = Restrict(chan, DOMAIN chan \ {Head(queue[r]).live})
  /\ nextId' = nextId
  /\ Wrote(r)

\* What every step of a run but the start and the plan has in common.
Advances(r) ==
  /\ AnyStep(r) /\ opts' = opts
  /\ Still \/ Creates(r) \/ Updates(r) \/ Deletes(r)
  /\ snap' \in [Runs -> Tables] /\ queue' \in [Runs -> Seq(ChannelAction)]
  /\ \A s \in Runs \ {r} : queue'[s] = queue[s] /\ snap'[s] = snap[s]
  /\ QueueInv(r)'
  /\ snap'[r] = snap[r] \/ snap'[r] = NoChannels

LEMMA ApplyAdvances ==
  ASSUME ChannelAssumption, BaseInv, NEW r \in Runs,
         ApplyCreate(r) \/ ApplyUpdate(r) \/ ApplyDelete(r)
  PROVE  Advances(r) /\ Answered(r) /\ DropFailed(r) /\ phase[r] = "apply"
<1>1. /\ phase[r] = "apply" /\ Answered(r) /\ DropFailed(r) /\ snap' = snap
  BY DEF ApplyCreate, ApplyUpdate, ApplyDelete, Doing, Refused, Answered
<1>2. AnyStep(r) /\ opts' = opts
  BY <1>1 DEF Answered, AnyStep, ApplySucceeds, ApplyFails
<1>3. Still \/ Creates(r) \/ Updates(r) \/ Deletes(r)
  BY Zenon DEF ApplyCreate, ApplyUpdate, ApplyDelete, Creates, Updates, Deletes, Still, Fresh, Refused
<1>4. QED
  BY <1>1, <1>2, <1>3, ApplyQueue DEF Advances, BaseInv, RunsTyped

LEMMA VerifyAdvances ==
  ASSUME BaseInv, NEW r \in Runs, NEW s, Verified(r, s), s \in Verdict
  PROVE  Advances(r)
<1>1. AnyStep(r) /\ opts' = opts /\ Still /\ snap' = snap
  BY DEF Verified, AnyStep, Verdict, Still, VerifyReturns
<1>2. QED
  BY <1>1, VerifyQueue DEF Advances, BaseInv, RunsTyped

\* The three verifications.
LEMMA VerdictsGiven ==
  ASSUME NEW r \in Runs, verifyCreate(r) \/ verifyUpdate(r) \/ verifyDelete(r)
  PROVE  \E s \in Verdict : Verified(r, s)
BY DEF verifyCreate, verifyUpdate, verifyDelete, Verdict

LEMMA NoChannelsIsTable == NoChannels \in Tables
<1>1. {} \in SUBSET (1 .. MaxId) /\ NoChannels \in [{} -> Channel]
  BY DEF NoChannels
<1>2. QED
  BY <1>1 DEF Tables

LEMMA EndAdvances ==
  ASSUME BaseInv, NEW r \in Runs, Finish(r) \/ Die(r)
  PROVE  Advances(r)
<1>1. /\ snap \in [Runs -> Tables] /\ queue \in [Runs -> Seq(ChannelAction)]
      /\ phase \in [Runs -> Phase]
  BY DEF BaseInv, RunsTyped, OrchIInv, OrchTypeOK
<1>2. AnyStep(r) /\ opts' = opts /\ Still
  BY DEF Finish, Die, Ending, AnyStep, Still, Return, Exit, Crash
<1>3. /\ queue' \in [Runs -> Seq(ChannelAction)] /\ queue'[r] = <<>>
      /\ snap' \in [Runs -> Tables] /\ snap'[r] = NoChannels
      /\ \A s \in Runs \ {r} : queue'[s] = queue[s] /\ snap'[s] = snap[s]
  BY <1>1, NoChannelsIsTable, EmptySeq DEF Finish, Die, Ending
<1>4. phase'[r] \in {"done", "exited", "crashed"}
  BY <1>1 DEF Finish, Die, Return, Exit, Crash
<1>5. QED
  BY <1>2, <1>3, <1>4 DEF Advances, QueueInv

LEMMA PlanAdvances ==
  ASSUME ChannelAssumption, BaseInv, NEW r \in Runs, PlanChannels(r)
  PROVE  Advances(r)
<1>1. AnyStep(r) /\ opts' = opts /\ Still
  BY PlanQueue DEF PlanChannels, AnyStep, Still, PlanReturns
<1>2. snap'[r] = NoChannels
  BY DEF PlanChannels, BaseInv, RunsTyped
<1>3. QED
  BY <1>1, <1>2, PlanQueue DEF Advances, RunsTyped

LEMMA StepAdvances ==
  ASSUME ChannelAssumption, BaseInv, NEW r \in Runs, Step(r) \/ Die(r)
  PROVE  Advances(r)
<1>1. CASE PlanChannels(r)
  BY <1>1, PlanAdvances
<1>2. CASE ApplyCreate(r) \/ ApplyUpdate(r) \/ ApplyDelete(r)
  BY <1>2, ApplyAdvances
<1>3. CASE verifyCreate(r) \/ verifyUpdate(r) \/ verifyDelete(r)
  BY <1>3, VerdictsGiven, VerifyAdvances
<1>4. CASE Finish(r) \/ Die(r)
  BY <1>4, EndAdvances
<1>5. QED
  BY <1>1, <1>2, <1>3, <1>4 DEF Step

\* The start of a run.
LEMMA StartFacts ==
  ASSUME ChannelAssumption, BaseInv, NEW r \in Runs, NEW o \in Options, StartSync(r, o)
  PROVE  /\ AnyStep(r) /\ UNCHANGED <<chan, nextId>>
         /\ snap' \in [Runs -> Tables] /\ queue' \in [Runs -> Seq(ChannelAction)]
         /\ quiet' \in [Runs -> BOOLEAN]
         /\ \A s \in Runs \ {r} : /\ queue'[s] = queue[s] /\ snap'[s] = snap[s]
                                  /\ quiet'[s] = quiet[s]
         /\ QueueInv(r)' /\ queue'[r] = <<>>
         /\ snap'[r] = chan \/ snap'[r] = NoChannels
         /\ quiet'[r] => snap'[r] = chan
<1>1. /\ snap \in [Runs -> Tables] /\ queue \in [Runs -> Seq(ChannelAction)]
      /\ quiet \in [Runs -> BOOLEAN] /\ phase \in [Runs -> Phase]
  BY DEF BaseInv, RunsTyped, OrchIInv, OrchTypeOK
<1>2. chan \in Tables
  <2>1. nextId - 1 =< MaxId /\ nextId - 1 \in Nat /\ MaxId \in Nat
    BY DEF BaseInv, TableTyped, ChannelAssumption
  <2>2. DOMAIN chan \in SUBSET (1 .. MaxId) /\ chan \in [DOMAIN chan -> Channel]
    BY <2>1 DEF BaseInv, TableTyped
  <2>3. QED
    BY <2>2 DEF Tables
<1>3. AnyStep(r) /\ UNCHANGED <<chan, nextId>> /\ phase'[r] = "plan"
  BY <1>1 DEF StartSync, AnyStep, Start
<1>4. /\ queue' \in [Runs -> Seq(ChannelAction)] /\ queue'[r] = <<>>
      /\ \A s \in Runs \ {r} : queue'[s] = queue[s]
  BY <1>1, EmptySeq DEF StartSync
<1>5. PICK table \in {chan, NoChannels}, known \in BOOLEAN :
        /\ snap' = [snap EXCEPT ![r] = table] /\ quiet' = [quiet EXCEPT ![r] = known]
        /\ known => table = chan
  BY DEF StartSync
<1>6. /\ snap' \in [Runs -> Tables] /\ snap'[r] = table
      /\ \A s \in Runs \ {r} : snap'[s] = snap[s]
  BY <1>1, <1>2, <1>5, NoChannelsIsTable
<1>7. /\ quiet' \in [Runs -> BOOLEAN] /\ quiet'[r] = known
      /\ \A s \in Runs \ {r} : quiet'[s] = quiet[s]
  BY <1>1, <1>5
<1>8. QED
  BY <1>3, <1>4, <1>5, <1>6, <1>7 DEF QueueInv

\* What others do to the table.
Disturbs == UNCHANGED <<orchVars, snap, queue>> /\ quiet' = [r \in Runs |-> FALSE]

LEMMA OthersFacts ==
  ASSUME TableTyped, Others
  PROVE  /\ Disturbs
         /\ \/ /\ "create" \in World /\ nextId =< MaxId /\ nextId' = nextId + 1
               /\ \E ch \in Channel : chan' = Inserted(nextId, ch)
            \/ /\ nextId' = nextId
               /\ \E i \in DOMAIN chan, ch \in Channel :
                    /\ chan' = [chan EXCEPT ![i] = ch]
                    /\ ch.name # chan[i].name => "rename" \in World
                    /\ ch.used # chan[i].used => "traffic" \in World
                    /\ World # {}
            \/ /\ "delete" \in World /\ nextId' = nextId
               /\ \E i \in DOMAIN chan : chan' = Restrict(chan, DOMAIN chan \ {i})
<1>1. CASE \E ch \in Channel : OtherCreates(ch)
  BY <1>1 DEF OtherCreates, Elsewhere, Disturbs
<1>2. CASE \E i \in 1 .. MaxId : OtherDeletes(i)
  BY <1>2 DEF OtherDeletes, Elsewhere, Disturbs
<1>3. ASSUME NEW i, NEW ch \in Channel, OtherChanges(i, ch)
      PROVE  /\ Disturbs
             /\ nextId' = nextId /\ i \in DOMAIN chan /\ chan' = [chan EXCEPT ![i] = ch]
             /\ ch.name # chan[i].name => "rename" \in World
             /\ ch.used # chan[i].used => "traffic" \in World
             /\ World # {}
  <2>1. /\ Disturbs /\ nextId' = nextId /\ i \in DOMAIN chan
        /\ chan' = [chan EXCEPT ![i] = ch] /\ World # {}
    BY <1>3 DEF OtherChanges, Elsewhere, Disturbs
  <2>0. chan[i] \in Channel
    BY <2>1 DEF TableTyped
  <2>2. ch.name # chan[i].name => "rename" \in World
    BY <1>3, <2>0 DEF OtherChanges, Elsewhere, Channel
  <2>3. ch.used # chan[i].used => "traffic" \in World
    BY <1>3, <2>0 DEF OtherChanges, Elsewhere, Channel
  <2>4. QED
    BY <2>1, <2>2, <2>3
<1>4. QED
  BY <1>1, <1>2, <1>3 DEF Others

-----------------------------------------------------------------------------
(* The types are kept.                                                     *)

LEMMA HeadTyped ==
  ASSUME BaseInv, NEW r \in Runs, NEW type, Doing(r, type)
  PROVE  /\ Head(queue[r]) \in ChannelAction /\ Len(queue[r]) > 0
         /\ Head(queue[r]).type = type
         /\ type # "delete" => Head(queue[r]).id \in Keys
<1>1. queue[r] \in Seq(ChannelAction) /\ Len(queue[r]) > 0 /\ Head(queue[r]).type = type
  <2>1. /\ queue[r] \in Seq(ChannelAction) /\ Len(queue[r]) = pending[r] /\ pending[r] > 0
        /\ Head(queue[r]).type = type
    BY DEF BaseInv, RunsTyped, QueueInv, Doing
  <2>2. QED
    BY <2>1
<1>2. Head(queue[r]) \in ChannelAction
  BY <1>1, TailFacts
<1>3. QED
  BY <1>1, <1>2 DEF ChannelAction

\* What a writing step does to the rows of the table: billing records stay, and a
\* name changes only to the one the registry gives the entry written.
LEMMA WriteFacts ==
  ASSUME ChannelAssumption, BaseInv, NEW r \in Runs,
         Creates(r) \/ Updates(r) \/ Deletes(r)
  PROVE  /\ TableTyped' /\ nextId' >= nextId
         /\ \A i \in DOMAIN chan' : i \in DOMAIN chan \/ i = nextId
         /\ \A i \in DOMAIN chan \cap DOMAIN chan' :
              /\ chan'[i].used = chan[i].used
              /\ \/ chan'[i] = chan[i]
                 \/ /\ Updates(r) /\ i = Head(queue[r]).live
                    /\ chan'[i] \in Stored(Head(queue[r]).id, chan[i])
                    /\ chan'[i].name = Desired[Head(queue[r]).id].name
         /\ \A i \in DOMAIN chan \ DOMAIN chan' : Deletes(r) /\ i = Head(queue[r]).live
         /\ \A i \in DOMAIN chan' \ DOMAIN chan : Creates(r)
<1>0. TableTyped /\ nextId \in Nat
  BY DEF BaseInv, TableTyped, ChannelAssumption
<1>1. CASE Creates(r)
  <2>1. Head(queue[r]).id \in Keys
    BY <1>1, HeadTyped DEF Creates
  <2>2. Fresh(Head(queue[r]).id) \in Channel
    BY <2>1 DEF Fresh, Channel, ChannelAssumption
  <2>3. QED
    BY <1>0, <1>1, <2>2, RowAdded DEF Creates
<1>2. CASE Updates(r)
  <2> DEFINE k == Head(queue[r]).id
             i == Head(queue[r]).live
  <2>1. k \in Keys
    BY <1>2, HeadTyped DEF Updates
  <2>2. PICK ch \in Stored(k, chan[i]) : chan' = [chan EXCEPT ![i] = ch]
    BY <1>2 DEF Updates
  <2>3. i \in DOMAIN chan /\ chan[i] \in Channel /\ nextId' = nextId
    BY <1>0, <1>2 DEF Updates, TableTyped
  <2>4. ch \in Channel /\ ch.used = chan[i].used /\ ch.name = Desired[k].name
    BY <2>1, <2>2, <2>3 DEF Stored, Channel, ChannelAssumption
  <2>5. /\ TableTyped' /\ DOMAIN chan' = DOMAIN chan /\ chan'[i] = ch
        /\ \A j \in DOMAIN chan \ {i} : chan'[j] = chan[j]
    <3> HIDE DEF i, k
    <3> QED
      BY <1>0, <2>2, <2>3, <2>4, RowSet
  <2>6. QED
    BY <1>0, <1>2, <2>2, <2>3, <2>4, <2>5
<1>3. CASE Deletes(r)
  <2> DEFINE i == Head(queue[r]).live
  <2>1. i \in DOMAIN chan /\ chan' = Restrict(chan, DOMAIN chan \ {i}) /\ nextId' = nextId
    BY <1>3 DEF Deletes
  <2>2. /\ TableTyped' /\ DOMAIN chan' = DOMAIN chan \ {i}
        /\ \A j \in DOMAIN chan' : chan'[j] = chan[j]
    <3> HIDE DEF i
    <3> QED
      BY <1>0, <2>1, RowDropped
  <2>3. nextId' >= nextId
    BY <1>0, <2>1
  <2>4. \A j \in DOMAIN chan' : j \in DOMAIN chan /\ chan'[j] = chan[j]
    BY <2>2
  <2>5. \A j \in DOMAIN chan \ DOMAIN chan' : j = i
    BY <2>2
  <2>6. QED
    BY <1>3, <2>2, <2>3, <2>4, <2>5, Zenon
<1>4. QED
  BY <1>1, <1>2, <1>3

LEMMA SameKeepsQueue ==
  ASSUME NEW s \in Runs, QueueInv(s), Same(s), queue'[s] = queue[s]
  PROVE  QueueInv(s)'
BY DEF QueueInv, Same

LEMMA BaseKept ==
  ASSUME ChannelAssumption, BaseInv, [Next]_vars
  PROVE  BaseInv'
<1> USE OrchestratorAssumption
<1>1. /\ OrchIInv /\ TableTyped /\ RunsTyped /\ \A s \in Runs : QueueInv(s)
      /\ quiet \in [Runs -> BOOLEAN]
  BY DEF BaseInv, RunsTyped
<1>2. ASSUME NEW r \in Runs, AnyStep(r), QueueInv(r)',
             \A s \in Runs \ {r} : queue'[s] = queue[s]
      PROVE  OrchIInv' /\ \A s \in Runs : QueueInv(s)'
  <2>1. OrchIInv' /\ \A s \in Runs \ {r} : Same(s)
    BY <1>1, <1>2, StepKeeps, StepOfOneRun
  <2>2. \A s \in Runs \ {r} : QueueInv(s)'
    BY <1>1, <1>2, <2>1, SameKeepsQueue
  <2>3. QED
    BY <1>2, <2>1, <2>2
<1>3. ASSUME UNCHANGED orchVars, queue' = queue
      PROVE  OrchIInv' /\ \A s \in Runs : QueueInv(s)'
  <2>1. OrchIInv'
    BY <1>1, <1>3, StutterKeeps
  <2>2. QED
    BY <1>1, <1>3, <2>1 DEF QueueInv, orchVars
<1>4. ASSUME NEW r \in Runs, Step(r) \/ Die(r)
      PROVE  BaseInv'
  <2>1. Advances(r)
    BY <1>4, StepAdvances
  <2>2. TableTyped' /\ quiet' \in [Runs -> BOOLEAN]
    <3>1. CASE Still
      BY <1>1, <3>1 DEF Still, TableTyped
    <3>2. CASE Creates(r) \/ Updates(r) \/ Deletes(r)
      <4>1. TableTyped'
        BY <3>2, WriteFacts
      <4>2. quiet' = [s \in Runs |-> quiet[s] /\ s = r]
        BY <3>2 DEF Creates, Updates, Deletes, Wrote
      <4>3. QED
        BY <1>1, <4>1, <4>2
    <3>3. QED
      BY <2>1, <3>1, <3>2 DEF Advances
  <2>3. OrchIInv' /\ \A s \in Runs : QueueInv(s)'
    BY <1>2, <2>1 DEF Advances
  <2>4. QED
    BY <2>1, <2>2, <2>3 DEF BaseInv, RunsTyped, Advances
<1>5. ASSUME NEW r \in Runs, NEW o \in Options, StartSync(r, o)
      PROVE  BaseInv'
  <2>1. /\ AnyStep(r) /\ UNCHANGED <<chan, nextId>>
        /\ snap' \in [Runs -> Tables] /\ queue' \in [Runs -> Seq(ChannelAction)]
        /\ quiet' \in [Runs -> BOOLEAN] /\ QueueInv(r)'
        /\ \A s \in Runs \ {r} : queue'[s] = queue[s]
    BY <1>5, StartFacts
  <2>2. OrchIInv' /\ \A s \in Runs : QueueInv(s)'
    BY <1>2, <2>1
  <2>3. TableTyped'
    BY <1>1, <2>1 DEF TableTyped
  <2>4. QED
    BY <2>1, <2>2, <2>3 DEF BaseInv, RunsTyped
<1>6. CASE Others
  <2>1. Disturbs /\ TableTyped'
    <3>1. CASE /\ nextId =< MaxId /\ nextId' = nextId + 1
               /\ \E ch \in Channel : chan' = Inserted(nextId, ch)
      BY <1>1, <1>6, <3>1, OthersFacts, RowAdded
    <3>2. CASE /\ nextId' = nextId
               /\ \E i \in DOMAIN chan, ch \in Channel : chan' = [chan EXCEPT ![i] = ch]
      BY <1>1, <1>6, <3>2, OthersFacts, RowSet
    <3>3. CASE /\ nextId' = nextId
               /\ \E i \in DOMAIN chan : chan' = Restrict(chan, DOMAIN chan \ {i})
      BY <1>1, <1>6, <3>3, OthersFacts, RowDropped
    <3>4. QED
      BY <1>1, <1>6, <3>1, <3>2, <3>3, OthersFacts
  <2>2. OrchIInv' /\ \A s \in Runs : QueueInv(s)'
    BY <1>3, <2>1 DEF Disturbs
  <2>3. QED
    BY <1>1, <2>1, <2>2 DEF BaseInv, RunsTyped, Disturbs
<1>7. CASE UNCHANGED vars
  <2>1. UNCHANGED orchVars /\ UNCHANGED <<chan, nextId, snap, queue, quiet>>
    BY <1>7 DEF vars, chanVars
  <2>2. OrchIInv' /\ \A s \in Runs : QueueInv(s)'
    BY <1>3, <2>1
  <2>3. QED
    BY <1>1, <2>1, <2>2 DEF BaseInv, RunsTyped, TableTyped
<1>8. QED
  BY <1>4, <1>5, <1>6, <1>7 DEF Next

LEMMA ChannelInitBase == Init => BaseInv
<1> SUFFICES ASSUME Init PROVE BaseInv
  OBVIOUS
<1>1. OrchIInv
  BY OrchestratorAssumption, InitHolds DEF Init
<1>2. TableTyped
  <2>1. nextId \in 1 .. (MaxInit + 1) /\ chan \in [1 .. (nextId - 1) -> Channel]
    BY DEF Init
  <2>2. nextId \in 1 .. (MaxId + 1)
    BY <2>1, ChannelAssumption DEF ChannelAssumption
  <2>3. QED
    BY <2>1, <2>2 DEF TableTyped
<1>3. RunsTyped
  BY NoChannelsIsTable, EmptySeq DEF Init, RunsTyped
<1>4. \A r \in Runs : QueueInv(r)
  BY DEF Init, OrchInit, QueueInv
<1>5. QED
  BY <1>1, <1>2, <1>3, <1>4 DEF BaseInv

\* The inductive invariant behind the types: the orchestrator's own, for plans of
\* any length, and the queue as its pending actions spelt out.
THEOREM ChannelBase == Spec => []BaseInv
<1>1. Init => BaseInv
  BY ChannelInitBase
<1>2. BaseInv /\ [Next]_vars => BaseInv'
  BY ChannelAssumption, BaseKept
<1>3. QED
  BY <1>1, <1>2, PTL DEF Spec

\* Every state is well typed, and no action of a plan is lost or done twice when
\* one of them fails.
THEOREM ChannelTypeCorrect == Spec => []TypeOK
BY ChannelBase, BaseIsTyped, PTL

\* Every step is one of the orchestrator's, or none of it.
LEMMA StepOfRuns ==
  ASSUME ChannelAssumption, BaseInv, [Next]_vars
  PROVE  (\E r \in Runs : AnyStep(r)) \/ UNCHANGED orchVars
<1> USE OrchestratorAssumption
<1>1. ASSUME NEW r \in Runs, Step(r) \/ Die(r)
      PROVE  AnyStep(r)
  BY <1>1, StepAdvances DEF Advances
<1>2. ASSUME NEW r \in Runs, NEW o \in Options, StartSync(r, o)
      PROVE  AnyStep(r)
  BY <1>2, StartFacts DEF BaseInv
<1>3. ASSUME Others
      PROVE  UNCHANGED orchVars
  BY <1>3, OthersFacts DEF Disturbs, BaseInv
<1>4. ASSUME UNCHANGED vars
      PROVE  UNCHANGED orchVars
  BY <1>4 DEF vars
<1>5. QED
  BY <1>1, <1>2, <1>3, <1>4 DEF Next

\* Fail-fast, dependency order, dry runs, the counters of the report and the
\* meaning of exit code 0 are as proved of the orchestrator in runs of
\* the channel reconciler, whatever the upstream answers and whoever else is at work.
THEOREM ChannelRunsKeepOrder ==
  Spec => [](/\ FailFastStops /\ DependencyOrder /\ DryRunOnlyPlans
             /\ ReportAddsUp /\ CountersMatchResults /\ ZeroExitMeansNoFailure)
<1>1. Init => CountersMatchResults
  BY CountsAtStart DEF Init
<1>2. BaseInv /\ CountersMatchResults /\ [Next]_vars => CountersMatchResults'
  BY ChannelAssumption, OrchestratorAssumption, StepOfRuns, CountsKept DEF BaseInv
<1>3. Spec => []CountersMatchResults
  BY <1>1, <1>2, ChannelBase, PTL DEF Spec
<1>4. BaseInv => /\ FailFastStops /\ DependencyOrder /\ DryRunOnlyPlans
                 /\ ReportAddsUp /\ ZeroExitMeansNoFailure
  BY ZeroExitFollows DEF BaseInv, OrchIInv
<1>5. QED
  BY <1>3, <1>4, ChannelBase, PTL

-----------------------------------------------------------------------------
(* Actions planned from a stale snapshot still aim at the channels they    *)
(* were meant for: ids are not reused, and names and billing records stay  *)
(* as they were fetched unless others change them.                         *)

NamesHold(r) == quiet[r] \/ "rename" \notin World
UsedHolds(r) == quiet[r] \/ "traffic" \notin World

SnapInv(r) ==
  \A i \in DOMAIN snap[r] :
    /\ i \in 1 .. (nextId - 1)
    /\ i \in DOMAIN chan => /\ NamesHold(r) => chan[i].name = snap[r][i].name
                            /\ UsedHolds(r) => chan[i].used = snap[r][i].used

\* The name a channel has that an action was planned for.
AimedAt(a) == IF a.type = "delete" THEN a.id ELSE Desired[a.id].name

ActionInv(r, a) ==
  /\ a.type = "delete" => opts[r].prune /\ a.id \notin DesiredNames
  /\ a.type # "create" =>
       /\ a.live \in 1 .. (nextId - 1)
       /\ a.live \in DOMAIN chan =>
            /\ NamesHold(r) => chan[a.live].name = AimedAt(a)
            /\ a.type = "delete" /\ UsedHolds(r) => ~chan[a.live].used

AimInv(r) == SnapInv(r) /\ \A p \in DOMAIN queue[r] : ActionInv(r, queue[r][p])

\* What the snapshot and the queue of run r rely on of a step that is not its start.
Follows(r) ==
  /\ opts'[r] = opts[r]
  /\ nextId' >= nextId /\ nextId \in Nat /\ nextId' \in Nat
  /\ quiet'[r] => quiet[r]
  /\ \A i \in DOMAIN chan' : i \in 1 .. (nextId - 1) => i \in DOMAIN chan
  /\ \A i \in DOMAIN chan \cap DOMAIN chan' :
       /\ NamesHold(r)' => chan'[i].name = chan[i].name
       /\ UsedHolds(r)' => chan'[i].used = chan[i].used

LEMMA FollowsKeepsAction ==
  ASSUME NEW r \in Runs, NEW a, Follows(r), ActionInv(r, a)
  PROVE  ActionInv(r, a)'
<1>1. /\ NamesHold(r)' => NamesHold(r)
      /\ UsedHolds(r)' => UsedHolds(r)
  BY DEF Follows, NamesHold, UsedHolds
<1>2. (a.type = "delete" => opts[r].prune /\ a.id \notin DesiredNames)'
  BY DEF ActionInv, Follows, DesiredNames
<1>3. CASE a.type # "create"
  <2>1. a.live \in 1 .. (nextId - 1) /\ a.live \in 1 .. (nextId' - 1)
    BY <1>3 DEF ActionInv, Follows
  <2>2. ASSUME a.live \in DOMAIN chan'
        PROVE  /\ NamesHold(r)' => chan'[a.live].name = AimedAt(a)
               /\ a.type = "delete" /\ UsedHolds(r)' => ~chan'[a.live].used
    <3>1. a.live \in DOMAIN chan
      BY <2>1, <2>2 DEF Follows
    <3>2. /\ NamesHold(r)' => chan'[a.live].name = chan[a.live].name
          /\ UsedHolds(r)' => chan'[a.live].used = chan[a.live].used
      BY <2>2, <3>1 DEF Follows
    <3>3. QED
      BY <1>1, <1>3, <3>1, <3>2, Zenon DEF ActionInv
  <2>3. QED
    BY <1>2, <1>3, <2>1, <2>2, Zenon DEF ActionInv
<1>4. QED
  BY <1>2, <1>3, Zenon DEF ActionInv

LEMMA FollowsKeepsSnap ==
  ASSUME NEW r \in Runs, Follows(r), SnapInv(r), snap'[r] = snap[r] \/ snap'[r] = NoChannels
  PROVE  SnapInv(r)'
<1>1. CASE snap'[r] = NoChannels
  <2>1. DOMAIN snap'[r] = {}
    BY <1>1 DEF NoChannels
  <2>2. QED
    BY <2>1 DEF SnapInv
<1>2. CASE snap'[r] = snap[r]
  <2>1. /\ NamesHold(r)' => NamesHold(r)
        /\ UsedHolds(r)' => UsedHolds(r)
    BY DEF Follows, NamesHold, UsedHolds
  <2>2. ASSUME NEW i \in DOMAIN snap[r]
        PROVE  /\ i \in 1 .. (nextId' - 1)
               /\ i \in DOMAIN chan' => /\ NamesHold(r)' => chan'[i].name = snap[r][i].name
                                        /\ UsedHolds(r)' => chan'[i].used = snap[r][i].used
    <3>1. i \in 1 .. (nextId - 1)
      BY DEF SnapInv
    <3>2. i \in 1 .. (nextId' - 1)
      <4>1. nextId' >= nextId /\ nextId \in Nat /\ nextId' \in Nat
        BY DEF Follows
      <4>2. \A a, b \in Nat : b >= a => 1 .. (a - 1) \subseteq 1 .. (b - 1)
        OBVIOUS
      <4>3. 1 .. (nextId - 1) \subseteq 1 .. (nextId' - 1)
        BY <4>1, <4>2, Zenon
      <4>4. QED
        BY <3>1, <4>3, Zenon
    <3>3. ASSUME i \in DOMAIN chan'
          PROVE  /\ NamesHold(r)' => chan'[i].name = snap[r][i].name
                 /\ UsedHolds(r)' => chan'[i].used = snap[r][i].used
      <4>1. i \in DOMAIN chan
        BY <3>1, <3>3 DEF Follows
      <4>2. /\ NamesHold(r)' => chan'[i].name = chan[i].name
            /\ UsedHolds(r)' => chan'[i].used = chan[i].used
        BY <3>3, <4>1 DEF Follows
      <4>3. QED
        BY <2>1, <2>2, <4>1, <4>2, Zenon DEF SnapInv
    <3>4. QED
      BY <3>2, <3>3
  <2>3. QED
    BY <1>2, <2>2, Zenon DEF SnapInv
<1>3. QED
  BY <1>1, <1>2

\* A plan made now aims well.
LEMMA PlanAims ==
  ASSUME ChannelAssumption, BaseInv, NEW r \in Runs, SnapInv(r),
         NEW acts \in Plans(snap[r], opts[r].prune)
  PROVE  \A p \in DOMAIN acts : ActionInv(r, acts[p])
<1>1. snap[r] \in Tables /\ opts[r].prune \in BOOLEAN
  BY OrchestratorAssumption DEF BaseInv, RunsTyped, OrchIInv, OrchTypeOK, OrchestratorAssumption
<1>2. PICK byName \in ByName(snap[r]) :
        /\ acts \in Seq(PlannedActions(snap[r], opts[r].prune, byName))
        /\ DOMAIN acts = 1 .. Len(acts)
  BY <1>1, PlanFacts
<1> SUFFICES ASSUME NEW p \in DOMAIN acts PROVE ActionInv(r, acts[p])
  OBVIOUS
<1> DEFINE a == acts[p]
<1>3. a \in PlannedActions(snap[r], opts[r].prune, byName)
  BY <1>2, ElementOfSeq
<1>4. \A n \in DOMAIN byName : byName[n] \in DOMAIN snap[r] /\ snap[r][byName[n]].name = n
  BY DEF ByName
<1> HIDE DEF a
<1>5. CASE a \in Upserts(snap[r], byName)
  <2>1. a.type \in {"create", "update"}
    BY <1>5 DEF Upserts
  <2>2. a.type = "update" => /\ a.live \in DOMAIN snap[r]
                             /\ snap[r][a.live].name = Desired[a.id].name
    BY <1>4, <1>5 DEF Upserts
  <2>3. QED
    BY <2>1, <2>2 DEF ActionInv, SnapInv, AimedAt, a
<1>6. CASE opts[r].prune /\ a \in Prunable(snap[r], byName)
  <2>1. /\ a.type = "delete" /\ a.id \notin DesiredNames /\ opts[r].prune
        /\ a.live \in DOMAIN snap[r] /\ snap[r][a.live].name = a.id
        /\ ~snap[r][a.live].used
    BY <1>4, <1>6 DEF Prunable
  <2>2. QED
    BY <2>1 DEF ActionInv, SnapInv, AimedAt, a
<1>7. QED
  BY <1>3, <1>5, <1>6 DEF PlannedActions

LEMMA StepFollows ==
  ASSUME ChannelAssumption, BaseInv, NEW r \in Runs, AimInv(r), Advances(r), BaseInv'
  PROVE  \A s \in Runs : Follows(s)
<1> SUFFICES ASSUME NEW s \in Runs PROVE Follows(s)
  OBVIOUS
<1>1. opts' = opts /\ nextId \in Nat /\ nextId' \in Nat /\ nextId \notin 1 .. (nextId - 1)
  BY DEF Advances, BaseInv, TableTyped
<1>2. CASE Still
  <2>1. chan' = chan /\ nextId' = nextId /\ quiet' = quiet
    BY <1>2 DEF Still
  <2>2. QED
    BY <1>1, <2>1 DEF Follows
<1>3. CASE Creates(r) \/ Updates(r) \/ Deletes(r)
  <2>1. /\ quiet'[s] => quiet[s] /\ s = r
    BY <1>3 DEF Creates, Updates, Deletes, Wrote
  <2>2. NamesHold(s)' => NamesHold(r)
    BY <2>1 DEF NamesHold
  <2>3. nextId' >= nextId /\ \A i \in DOMAIN chan' : i \in 1 .. (nextId - 1) => i \in DOMAIN chan
    BY <1>1, <1>3, WriteFacts
  <2>4. ASSUME NEW i \in DOMAIN chan \cap DOMAIN chan'
        PROVE  /\ chan'[i].used = chan[i].used
               /\ NamesHold(s)' => chan'[i].name = chan[i].name
    <3>1. /\ chan'[i].used = chan[i].used
          /\ \/ chan'[i] = chan[i]
             \/ /\ Updates(r) /\ i = Head(queue[r]).live
                /\ chan'[i].name = Desired[Head(queue[r]).id].name
      BY <1>3, WriteFacts
    <3>2. ASSUME Updates(r), i = Head(queue[r]).live, NamesHold(r)
          PROVE  chan[i].name = Desired[Head(queue[r]).id].name
      <4>1. Head(queue[r]).type = "update" /\ Len(queue[r]) > 0 /\ queue[r] \in Seq(ChannelAction)
        BY <3>2, HeadTyped DEF Updates, BaseInv, RunsTyped
      <4>2. Head(queue[r]) = queue[r][1] /\ 1 \in DOMAIN queue[r]
        BY <4>1, TailFacts
      <4>3. ActionInv(r, Head(queue[r]))
        BY <4>2 DEF AimInv
      <4>4. QED
        BY <3>2, <4>1, <4>3 DEF ActionInv, AimedAt
    <3>3. QED
      BY <2>2, <3>1, <3>2
  <2>5. QED
    BY <1>1, <2>1, <2>3, <2>4, Zenon DEF Follows
<1>4. QED
  BY <1>2, <1>3 DEF Advances

LEMMA OthersFollow ==
  ASSUME ChannelAssumption, BaseInv, Others, BaseInv', NEW s \in Runs
  PROVE  Follows(s) /\ queue' = queue /\ snap' = snap
<1>1. /\ Disturbs /\ TableTyped /\ nextId \in Nat /\ nextId' \in Nat
      /\ nextId \notin 1 .. (nextId - 1)
  BY OthersFacts DEF BaseInv, TableTyped
<1>2. /\ opts' = opts /\ queue' = queue /\ snap' = snap /\ quiet'[s] = FALSE
  BY <1>1 DEF Disturbs, orchVars
<1>3. /\ NamesHold(s)' <=> "rename" \notin World
      /\ UsedHolds(s)' <=> "traffic" \notin World
  BY <1>2 DEF NamesHold, UsedHolds
<1>4. CASE /\ nextId =< MaxId /\ nextId' = nextId + 1
           /\ \E ch \in Channel : chan' = Inserted(nextId, ch)
  <2>1. PICK ch \in Channel : chan' = Inserted(nextId, ch)
    BY <1>4
  <2>2. /\ DOMAIN chan' = DOMAIN chan \cup {nextId}
        /\ \A i \in DOMAIN chan : chan'[i] = chan[i]
    BY <1>1, <1>4, <2>1, RowAdded
  <2>3. nextId' >= nextId
    BY <1>1, <1>4
  <2>4. QED
    BY <1>1, <1>2, <2>2, <2>3 DEF Follows
<1>5. CASE /\ nextId' = nextId
           /\ \E i \in DOMAIN chan, ch \in Channel :
                /\ chan' = [chan EXCEPT ![i] = ch]
                /\ ch.name # chan[i].name => "rename" \in World
                /\ ch.used # chan[i].used => "traffic" \in World
                /\ World # {}
  <2>1. PICK i \in DOMAIN chan, ch \in Channel :
                /\ chan' = [chan EXCEPT ![i] = ch]
                /\ ch.name # chan[i].name => "rename" \in World
                /\ ch.used # chan[i].used => "traffic" \in World
    BY <1>5
  <2>2. /\ DOMAIN chan' = DOMAIN chan /\ chan'[i] = ch
        /\ \A j \in DOMAIN chan \ {i} : chan'[j] = chan[j]
    BY <1>1, <1>5, <2>1, RowSet
  <2>3. nextId' >= nextId
    BY <1>1, <1>5
  <2>4. \A j \in DOMAIN chan \cap DOMAIN chan' :
          /\ NamesHold(s)' => chan'[j].name = chan[j].name
          /\ UsedHolds(s)' => chan'[j].used = chan[j].used
    BY <1>3, <2>1, <2>2
  <2>5. QED
    BY <1>1, <1>2, <2>2, <2>3, <2>4, Zenon DEF Follows
<1>6. CASE /\ nextId' = nextId
           /\ \E i \in DOMAIN chan : chan' = Restrict(chan, DOMAIN chan \ {i})
  <2>1. PICK i \in DOMAIN chan : chan' = Restrict(chan, DOMAIN chan \ {i})
    BY <1>6
  <2>2. /\ DOMAIN chan' = DOMAIN chan \ {i}
        /\ \A j \in DOMAIN chan' : chan'[j] = chan[j]
    BY <1>1, <1>6, <2>1, RowDropped
  <2>3. nextId' >= nextId
    BY <1>1, <1>6
  <2>4. QED
    BY <1>1, <1>2, <2>2, <2>3 DEF Follows
<1>7. QED
  BY <1>1, <1>2, <1>4, <1>5, <1>6, OthersFacts

\* A step other than the plan leaves of the queue what it was, its tail or nothing.
LEMMA QueueShrinks ==
  ASSUME ChannelAssumption, BaseInv, NEW r \in Runs, Step(r) \/ Die(r), ~PlanChannels(r)
  PROVE  \/ queue'[r] = queue[r]
         \/ queue'[r] = Tail(queue[r]) /\ Len(queue[r]) > 0
         \/ queue'[r] = <<>>
<1>1. CASE ApplyCreate(r) \/ ApplyUpdate(r) \/ ApplyDelete(r)
  BY <1>1, ApplyAdvances, ApplyQueue
<1>2. CASE verifyCreate(r) \/ verifyUpdate(r) \/ verifyDelete(r)
  BY <1>2, VerdictsGiven, VerifyQueue
<1>3. CASE Finish(r) \/ Die(r)
  BY <1>3 DEF Finish, Die, Ending, BaseInv, RunsTyped
<1>4. QED
  BY <1>1, <1>2, <1>3 DEF Step

LEMMA ShrunkHasNoOthers ==
  ASSUME NEW q \in Seq(ChannelAction), NEW new,
         \/ new = q
         \/ new = Tail(q) /\ Len(q) > 0
         \/ new = <<>>
  PROVE  \A p \in DOMAIN new : \E m \in DOMAIN q : new[p] = q[m]
<1>1. CASE new = q
  BY <1>1
<1>2. CASE new = Tail(q) /\ Len(q) > 0
  BY <1>2, TailFacts
<1>3. CASE new = <<>>
  BY <1>3
<1>4. QED
  BY <1>1, <1>2, <1>3

\* Inductive invariant behind pruning and the promise of ChannelPromise.
ChannelInv == BaseInv /\ \A r \in Runs : AimInv(r)

LEMMA ChannelInvKept ==
  ASSUME ChannelAssumption, ChannelInv, [Next]_vars
  PROVE  ChannelInv'
<1>0. BaseInv /\ BaseInv' /\ \A s \in Runs : AimInv(s)
  BY BaseKept DEF ChannelInv
\* A run whose snapshot is the old one or gone, and whose actions are old ones.
<1>1. ASSUME NEW s \in Runs, Follows(s),
             \A p \in DOMAIN queue'[s] : \E m \in DOMAIN queue[s] : queue'[s][p] = queue[s][m],
             snap'[s] = snap[s] \/ snap'[s] = NoChannels
      PROVE  AimInv(s)'
  <2>1. SnapInv(s)'
    BY <1>0, <1>1, FollowsKeepsSnap DEF AimInv
  <2>2. \A a : ActionInv(s, a) => ActionInv(s, a)'
    BY <1>1, FollowsKeepsAction
  <2>3. ASSUME NEW p \in DOMAIN queue'[s]
        PROVE  ActionInv(s, queue[s][p])'
    <3>1. PICK m \in DOMAIN queue[s] : queue'[s][p] = queue[s][m]
      BY <1>1
    <3>2. PICK a : a = queue[s][m]
      OBVIOUS
    <3>3. ActionInv(s, a)
      BY <1>0, <3>2 DEF AimInv
    <3>4. queue'[s][p] = a /\ ActionInv(s, a)'
      BY <2>2, <3>1, <3>2, <3>3
    <3>5. QED
      BY <3>4
  <2>4. QED
    BY <2>1, <2>3 DEF AimInv
<1>2. ASSUME NEW s \in Runs, Follows(s), queue'[s] = queue[s], snap'[s] = snap[s]
      PROVE  AimInv(s)'
  BY <1>1, <1>2
<1>3. ASSUME NEW r \in Runs, Step(r) \/ Die(r)
      PROVE  \A s \in Runs : AimInv(s)'
  <2>1. Advances(r) /\ \A s \in Runs : Follows(s)
    BY <1>0, <1>3, StepAdvances, StepFollows
  <2>2. \A s \in Runs \ {r} : AimInv(s)'
    BY <1>2, <2>1 DEF Advances
  <2>3. CASE PlanChannels(r)
    <3>1. SnapInv(r)'
      BY <1>0, <2>1, FollowsKeepsSnap DEF AimInv, Advances
    <3>2. PICK acts \in Plans(snap[r], opts[r].prune) :
            queue'[r] = IF opts[r].dryRun THEN <<>> ELSE acts
      BY <1>0, <2>3, PlanQueue
    <3>3. \A p \in DOMAIN acts : ActionInv(r, acts[p])
      BY <1>0, PlanAims DEF AimInv
    <3>4. \A a : ActionInv(r, a) => ActionInv(r, a)'
      BY <2>1, FollowsKeepsAction
    <3>5. ASSUME NEW p \in DOMAIN queue'[r]
          PROVE  ActionInv(r, queue[r][p])'
      <4>1. queue'[r] = acts
        BY <3>2
      <4>2. PICK a : a = acts[p]
        OBVIOUS
      <4>3. ActionInv(r, a)'
        BY <3>3, <3>4, <4>1, <4>2
      <4>4. QED
        BY <4>1, <4>2, <4>3
    <3>6. AimInv(r)'
      BY <3>1, <3>5 DEF AimInv
    <3>7. QED
      BY <2>2, <3>6
  <2>4. CASE ~PlanChannels(r)
    <3>1. queue[r] \in Seq(ChannelAction)
      BY <1>0 DEF BaseInv, RunsTyped
    <3>2. \A p \in DOMAIN queue'[r] : \E m \in DOMAIN queue[r] : queue'[r][p] = queue[r][m]
      <4>1. \/ queue'[r] = queue[r]
            \/ queue'[r] = Tail(queue[r]) /\ Len(queue[r]) > 0
            \/ queue'[r] = <<>>
        BY <1>0, <1>3, <2>4, QueueShrinks
      <4> DEFINE q == queue[r]
                 new == queue'[r]
      <4>2. q \in Seq(ChannelAction) /\ (new = q \/ (new = Tail(q) /\ Len(q) > 0) \/ new = <<>>)
        BY <3>1, <4>1
      <4>3. \A p \in DOMAIN new : \E m \in DOMAIN q : new[p] = q[m]
        <5> HIDE DEF q, new
        <5> QED
          BY <4>2, ShrunkHasNoOthers
      <4>4. QED
        BY <4>3
    <3>3. AimInv(r)'
      BY <1>1, <2>1, <3>2 DEF Advances
    <3>4. QED
      BY <2>2, <3>3
  <2>5. QED
    BY <2>3, <2>4
<1>4. ASSUME NEW r \in Runs, NEW o \in Options, StartSync(r, o)
      PROVE  \A s \in Runs : AimInv(s)'
  <2>1. /\ AnyStep(r) /\ UNCHANGED <<chan, nextId>>
        /\ \A s \in Runs \ {r} : /\ queue'[s] = queue[s] /\ snap'[s] = snap[s]
                                 /\ quiet'[s] = quiet[s]
        /\ queue'[r] = <<>>
        /\ snap'[r] = chan \/ snap'[r] = NoChannels
    BY <1>0, <1>4, StartFacts
  <2>2. nextId \in Nat /\ DOMAIN chan \subseteq 1 .. (nextId - 1) /\ chan' = chan /\ nextId' = nextId
    BY <1>0, <2>1 DEF BaseInv, TableTyped
  <2>3. \A s \in Runs \ {r} : Follows(s)
    <3>1. \A s \in Runs \ {r} : opts'[s] = opts[s]
      BY <1>0, <2>1, OrchestratorAssumption, StepOfOneRun DEF Same, BaseInv
    <3>2. nextId' >= nextId
      BY <2>2
    <3>3. QED
      BY <2>1, <2>2, <3>1, <3>2 DEF Follows
  <2>4. \A s \in Runs \ {r} : AimInv(s)'
    BY <1>2, <2>1, <2>3
  <2>5. AimInv(r)'
    <3>1. queue'[r] = <<>>
      BY <1>0, <1>4, StartFacts
    <3>2. SnapInv(r)'
      <4>1. CASE snap'[r] = chan
        BY <2>2, <4>1 DEF SnapInv
      <4>2. CASE snap'[r] = NoChannels
        BY <4>2 DEF SnapInv, NoChannels
      <4>3. QED
        BY <1>0, <1>4, <4>1, <4>2, StartFacts
    <3>3. QED
      BY <3>1, <3>2 DEF AimInv
  <2>6. QED
    BY <2>4, <2>5
<1>5. ASSUME Others
      PROVE  \A s \in Runs : AimInv(s)'
  <2>1. \A s \in Runs : Follows(s) /\ queue' = queue /\ snap' = snap
    BY <1>0, <1>5, OthersFollow
  <2>2. QED
    BY <1>2, <2>1
<1>6. ASSUME UNCHANGED vars
      PROVE  \A s \in Runs : AimInv(s)'
  <2>1. /\ opts' = opts /\ chan' = chan /\ nextId' = nextId /\ snap' = snap /\ queue' = queue
        /\ quiet' = quiet
    BY <1>6 DEF vars, chanVars, orchVars
  <2>2. \A s \in Runs : Follows(s)
    <3>1. nextId \in Nat /\ nextId' >= nextId
      BY <1>0, <2>1 DEF BaseInv, TableTyped
    <3>2. QED
      BY <2>1, <3>1 DEF Follows
  <2>3. QED
    BY <1>2, <2>1, <2>2
<1>7. QED
  BY <1>0, <1>3, <1>4, <1>5, <1>6 DEF Next, ChannelInv

\* Whatever failed, was lost, died or was changed by others since: actions aim at
\* the channels they were planned for.
THEOREM ChannelInvariant == Spec => []ChannelInv
<1>1. Init => ChannelInv
  <2> SUFFICES ASSUME Init, BaseInv PROVE \A r \in Runs : AimInv(r)
    BY ChannelInitBase DEF ChannelInv
  <2>1. \A r \in Runs : snap[r] = NoChannels /\ queue[r] = <<>>
    BY DEF Init
  <2>2. QED
    BY <2>1 DEF AimInv, SnapInv, NoChannels
<1>2. ChannelInv /\ [Next]_vars => ChannelInv'
  BY ChannelAssumption, ChannelInvKept
<1>3. QED
  BY <1>1, <1>2, PTL DEF Spec

\* Only a step of the run itself changes its phase or its queue.
LEMMA ActsIsStep ==
  ASSUME ChannelAssumption, BaseInv, [Next]_vars, NEW r \in Runs, Acts(r)
  PROVE  Step(r) \/ Die(r) \/ \E o \in Options : StartSync(r, o)
<1>1. ASSUME NEW q \in Runs, q # r,
             Step(q) \/ Die(q) \/ \E o \in Options : StartSync(q, o)
      PROVE  FALSE
  <2>1. AnyStep(q) /\ queue'[r] = queue[r]
    BY <1>1, StepAdvances, StartFacts DEF Advances
  <2>2. phase'[r] = phase[r]
    BY <1>1, <2>1, OrchestratorAssumption, StepOfOneRun DEF Same, BaseInv
  <2>3. QED
    BY <2>1, <2>2 DEF Acts
<1>2. ~Others
  BY OthersFacts DEF Acts, Disturbs, orchVars, BaseInv
<1>3. ~UNCHANGED vars
  BY DEF Acts, vars, chanVars, orchVars
<1>4. QED
  BY <1>1, <1>2, <1>3 DEF Next

\* A sync process removes a channel only when pruning, none that the registry asks
\* for by its name, and none with billing history unless others were at work.
THEOREM PruneAlwaysSpares == Spec => PruneSparesWantedAndBilled
<1>1. ASSUME ChannelInv, [Next]_vars, NEW r \in Runs, NEW i \in DOMAIN chan \ DOMAIN chan',
             Acts(r)
      PROVE  /\ opts[r].prune
             /\ chan[i].name \in DesiredNames => Head(queue[r]).id # chan[i].name
             /\ quiet[r] => ~chan[i].used
  <2>1. BaseInv /\ AimInv(r)
    BY <1>1 DEF ChannelInv
  <2>2. Step(r) \/ Die(r)
    BY <1>1, <2>1, ChannelAssumption, ActsIsStep, StartFacts
  <2>3. Creates(r) \/ Updates(r) \/ Deletes(r)
    BY <1>1, <2>1, <2>2, ChannelAssumption, StepAdvances DEF Advances, Still
  <2>4. Deletes(r) /\ i = Head(queue[r]).live
    BY <1>1, <2>1, <2>3, ChannelAssumption, WriteFacts
  <2>5. /\ Head(queue[r]).type = "delete" /\ Len(queue[r]) > 0
        /\ queue[r] \in Seq(ChannelAction)
    BY <2>1, <2>4, HeadTyped DEF Deletes, BaseInv, RunsTyped
  <2>6. Head(queue[r]) = queue[r][1] /\ 1 \in DOMAIN queue[r]
    BY <2>5, TailFacts
  <2>7. ActionInv(r, Head(queue[r]))
    BY <2>1, <2>6 DEF AimInv
  <2>8. QED
    BY <1>1, <2>4, <2>5, <2>7 DEF ActionInv, UsedHolds
<1>2. ChannelInv /\ [Next]_vars =>
        [\A r \in Runs, i \in DOMAIN chan \ DOMAIN chan' : Acts(r) =>
           /\ opts[r].prune
           /\ chan[i].name \in DesiredNames => Head(queue[r]).id # chan[i].name
           /\ quiet[r] => ~chan[i].used]_vars
  BY <1>1
<1>3. QED
  BY <1>2, ChannelInvariant, PTL DEF Spec, PruneSparesWantedAndBilled

\* The action at the head of the queue aims well.
LEMMA HeadAims ==
  ASSUME ChannelInv, NEW r \in Runs, NEW type, Doing(r, type)
  PROVE  ActionInv(r, Head(queue[r])) /\ Head(queue[r]).type = type
<1>1. BaseInv /\ AimInv(r)
  BY DEF ChannelInv
<1>2. Len(queue[r]) > 0 /\ Head(queue[r]).type = type /\ queue[r] \in Seq(ChannelAction)
  BY <1>1, HeadTyped DEF BaseInv, RunsTyped
<1>3. Head(queue[r]) = queue[r][1] /\ 1 \in DOMAIN queue[r]
  BY <1>2, TailFacts
<1>4. QED
  BY <1>1, <1>2, <1>3 DEF AimInv

-----------------------------------------------------------------------------
(* What a step means for a run nobody has disturbed since its fetch.       *)

\* Only a run's own steps leave it undisturbed and change what it knows or plans.
LEMMA QuietMeansAlone ==
  ASSUME ChannelAssumption, BaseInv, [Next]_vars, NEW r \in Runs, quiet'[r]
  PROVE  \/ Step(r) \/ Die(r) \/ \E o \in Options : StartSync(r, o)
         \/ /\ quiet[r] /\ chan' = chan /\ Same(r)
            /\ queue'[r] = queue[r] /\ snap'[r] = snap[r]
<1> USE OrchestratorAssumption
<1>1. ASSUME NEW s \in Runs \ {r}, Step(s) \/ Die(s)
      PROVE  /\ quiet[r] /\ chan' = chan /\ Same(r)
             /\ queue'[r] = queue[r] /\ snap'[r] = snap[r]
  <2>1. Advances(s)
    BY <1>1, StepAdvances
  <2>2. ~Wrote(s)
    BY DEF Wrote
  <2>3. Same(r)
    BY <2>1, StepOfOneRun DEF Advances, BaseInv
  <2>4. QED
    BY <2>1, <2>2, <2>3 DEF Advances, Creates, Updates, Deletes, Still
<1>2. ASSUME NEW s \in Runs \ {r}, NEW o \in Options, StartSync(s, o)
      PROVE  /\ quiet[r] /\ chan' = chan /\ Same(r)
             /\ queue'[r] = queue[r] /\ snap'[r] = snap[r]
  BY <1>2, StartFacts, StepOfOneRun DEF BaseInv
<1>3. ~Others
  BY OthersFacts DEF BaseInv, Disturbs
<1>4. ASSUME UNCHANGED vars
      PROVE  /\ quiet[r] /\ chan' = chan /\ Same(r)
             /\ queue'[r] = queue[r] /\ snap'[r] = snap[r]
  BY <1>4 DEF vars, chanVars, orchVars, Same
<1>5. QED
  BY <1>1, <1>2, <1>3, <1>4 DEF Next

\* There is one reconciler, so a run past its plan has no other left.
LEMMA OneReconciler ==
  ASSUME ChannelAssumption, BaseInv, NEW r \in Runs
  PROVE  /\ left[r] \subseteq {1}
         /\ phase[r] \in {"apply", "verify"} => left[r] = {}
         /\ phase[r] \in {"done", "exited"} /\ report[r].failed = 0 => left[r] = {}
<1>1. Position = {1}
  BY DEF ChannelAssumption, Position
<1>2. RunInv(r) /\ left[r] \in SUBSET Position
  BY SplitByRun DEF BaseInv, AllRunsInv, OrchIInv, OrchTypeOK
<1>3. phase[r] \in {"apply", "verify"} => cur[r] = 1
  BY <1>1, <1>2 DEF RunInv, LoopInv, Selected
<1>4. \A i \in left[r] : cur[r] < i
  BY <1>2 DEF RunInv, OrderInv
<1>5. report[r].failed \in Nat
  BY ReportFields DEF BaseInv, OrchIInv, OrchTypeOK
<1>6. QED
  BY <1>1, <1>2, <1>3, <1>4, <1>5 DEF RunInv, LoopInv

\* What a run's own step that is not its plan does to its queue.
Applied(r) ==
  /\ phase[r] = "apply" /\ phase'[r] = "verify" /\ queue'[r] = queue[r]
  /\ \/ Still /\ Head(queue[r]).type # "update"
     \/ Creates(r) \/ Updates(r) \/ Deletes(r)

Dropped(r) ==
  /\ phase[r] = "apply" /\ phase'[r] # "verify" /\ queue'[r] = Tail(queue[r])
  /\ report'[r].failed > 0

Checked(r) == verifyCreate(r) \/ verifyUpdate(r) \/ verifyDelete(r)

Ended(r) ==
  /\ Still /\ queue'[r] = <<>> /\ phase'[r] \in {"done", "exited", "crashed"}
  /\ phase'[r] # "crashed" => phase[r] \in {"plan", "done"}

LEMMA OwnSteps ==
  ASSUME ChannelAssumption, BaseInv, NEW r \in Runs, Step(r) \/ Die(r), ~PlanChannels(r)
  PROVE  /\ Applied(r) \/ Dropped(r) \/ Checked(r) \/ Ended(r)
         /\ opts' = opts /\ left' = left
<1>1. CASE ApplyCreate(r) \/ ApplyUpdate(r) \/ ApplyDelete(r)
  <2>1. Advances(r) /\ Answered(r) /\ DropFailed(r) /\ phase[r] = "apply"
    BY <1>1, ApplyAdvances
  <2>2. \/ phase'[r] = "verify" /\ queue'[r] = queue[r]
        \/ Dropped(r)
    BY <2>1, ApplyQueue DEF Dropped
  <2>3. opts' = opts /\ left' = left
    BY <2>1 DEF Answered, ApplySucceeds, ApplyFails
  <2>4. phase'[r] = "verify" => ~ApplyFails(r)
    <3>1. phase \in [Runs -> Phase]
      BY DEF BaseInv, OrchIInv, OrchTypeOK
    <3>2. QED
      BY <3>1 DEF ApplyFails, AfterFailure, NextAction
  <2>5. phase'[r] = "verify" => \/ Still /\ Head(queue[r]).type # "update"
                                \/ Creates(r) \/ Updates(r) \/ Deletes(r)
    <3>1. ASSUME phase'[r] = "verify", ApplyUpdate(r)
          PROVE  Updates(r)
      BY <2>4, <3>1, Zenon DEF ApplyUpdate, Refused, Updates
    <3>2. ASSUME ApplyCreate(r) \/ ApplyDelete(r)
          PROVE  Head(queue[r]).type # "update"
      BY <3>2 DEF ApplyCreate, ApplyDelete, Doing
    <3>3. QED
      BY <1>1, <2>1, <3>1, <3>2 DEF Advances
  <2>6. QED
    BY <2>1, <2>2, <2>3, <2>5 DEF Applied
<1>2. CASE Checked(r)
  BY <1>2 DEF Checked, verifyCreate, verifyUpdate, verifyDelete, Verified, VerifyReturns
<1>3. CASE Finish(r) \/ Die(r)
  <2>1. phase \in [Runs -> Phase] /\ queue \in [Runs -> Seq(ChannelAction)]
    BY DEF BaseInv, RunsTyped, OrchIInv, OrchTypeOK
  <2>2. QED
    BY <1>3, <2>1 DEF Finish, Die, Ending, Return, Exit, Crash, Ended, Still
<1>4. QED
  BY <1>1, <1>2, <1>3 DEF Step, Checked

\* What it does to the channels of a run nobody has disturbed: names and billing
\* records stay, a new channel is as desired, one removed was not asked for.
LEMMA OwnTable ==
  ASSUME ChannelAssumption, ChannelInv, ChannelInv', NEW r \in Runs, Step(r) \/ Die(r), quiet'[r]
  PROVE  /\ quiet[r]
         /\ \A i \in DOMAIN chan' :
              \/ /\ i \in DOMAIN chan
                 /\ chan'[i].name = chan[i].name /\ chan'[i].used = chan[i].used
                 /\ chan'[i] # chan[i] => /\ Updates(r) /\ i = Head(queue[r]).live
                                          /\ chan'[i].name = Desired[Head(queue[r]).id].name
              \/ /\ Creates(r) /\ chan'[i] = Fresh(Head(queue[r]).id)
                 /\ Head(queue[r]).id \in Keys
         /\ \A i \in DOMAIN chan : i \in DOMAIN chan' \/ /\ Deletes(r)
                                                         /\ chan[i].name \notin DesiredNames
                                                         /\ ~chan[i].used
<1>1. BaseInv /\ BaseInv' /\ AimInv(r)
  BY DEF ChannelInv
<1>2. Advances(r) /\ Follows(r)
  BY <1>1, StepAdvances, StepFollows
<1>3. quiet[r]
  BY <1>2 DEF Follows
<1>4. CASE Still
  BY <1>3, <1>4 DEF Still
<1>5. CASE Creates(r) \/ Updates(r) \/ Deletes(r)
  <2>1. \A i \in DOMAIN chan \cap DOMAIN chan' : chan'[i].name = chan[i].name
    BY <1>2 DEF Follows, NamesHold
  <2>2. /\ \A i \in DOMAIN chan' : i \in DOMAIN chan \/ i = nextId
        /\ \A i \in DOMAIN chan \cap DOMAIN chan' :
              /\ chan'[i].used = chan[i].used
              /\ \/ chan'[i] = chan[i]
                 \/ /\ Updates(r) /\ i = Head(queue[r]).live
                    /\ chan'[i].name = Desired[Head(queue[r]).id].name
        /\ \A i \in DOMAIN chan \ DOMAIN chan' : Deletes(r) /\ i = Head(queue[r]).live
        /\ \A i \in DOMAIN chan' \ DOMAIN chan : Creates(r)
    BY <1>1, <1>5, WriteFacts
  <2>3. ASSUME Creates(r)
        PROVE  /\ chan'[nextId] = Fresh(Head(queue[r]).id)
               /\ Head(queue[r]).id \in Keys
    BY <1>1, <2>3, HeadTyped DEF Creates, Inserted
  <2>4. ASSUME Deletes(r)
        PROVE  LET i == Head(queue[r]).live
               IN  chan[i].name \notin DesiredNames /\ ~chan[i].used
    <3>1. ActionInv(r, Head(queue[r])) /\ Head(queue[r]).type = "delete"
      BY <2>4, HeadAims DEF Deletes
    <3>2. QED
      BY <1>3, <2>4, <3>1 DEF ActionInv, AimedAt, NamesHold, UsedHolds, Deletes
  <2>5. ASSUME NEW i \in DOMAIN chan'
        PROVE  \/ /\ i \in DOMAIN chan
                  /\ chan'[i].name = chan[i].name /\ chan'[i].used = chan[i].used
                  /\ chan'[i] # chan[i] => /\ Updates(r) /\ i = Head(queue[r]).live
                                           /\ chan'[i].name = Desired[Head(queue[r]).id].name
               \/ /\ Creates(r) /\ chan'[i] = Fresh(Head(queue[r]).id)
                  /\ Head(queue[r]).id \in Keys
    BY <2>1, <2>2, <2>3
  <2>6. \A i \in DOMAIN chan : i \in DOMAIN chan' \/ /\ Deletes(r)
                                                     /\ chan[i].name \notin DesiredNames
                                                     /\ ~chan[i].used
    BY <2>2, <2>4
  <2>7. QED
    BY <1>3, <2>5, <2>6
<1>6. QED
  BY <1>2, <1>4, <1>5 DEF Advances

-----------------------------------------------------------------------------
(* What a run may still create: each entry once, and none its list had.    *)

OnceInv(r) ==
  \A k \in Keys : \A p, q \in DOMAIN queue[r] : Creating(r, p, k) /\ Creating(r, q, k) => p = q

\* A step of no other run changes what run r is about to do.
LEMMA OneActs ==
  ASSUME ChannelAssumption, BaseInv, [Next]_vars, NEW r \in Runs
  PROVE  \/ Step(r) \/ Die(r) \/ \E o \in Options : StartSync(r, o)
         \/ Same(r) /\ queue'[r] = queue[r] /\ snap'[r] = snap[r]
<1> USE OrchestratorAssumption
<1>1. ASSUME NEW s \in Runs \ {r}, Step(s) \/ Die(s)
      PROVE  Same(r) /\ queue'[r] = queue[r] /\ snap'[r] = snap[r]
  <2>1. Advances(s)
    BY <1>1, StepAdvances
  <2>2. QED
    BY <2>1, StepOfOneRun DEF Advances, BaseInv
<1>2. ASSUME NEW s \in Runs \ {r}, NEW o \in Options, StartSync(s, o)
      PROVE  Same(r) /\ queue'[r] = queue[r] /\ snap'[r] = snap[r]
  BY <1>2, StartFacts, StepOfOneRun DEF BaseInv
<1>3. ASSUME Others \/ UNCHANGED vars
      PROVE  Same(r) /\ queue'[r] = queue[r] /\ snap'[r] = snap[r]
  <2>1. UNCHANGED <<orchVars, snap, queue>>
    BY <1>3, OthersFacts DEF BaseInv, Disturbs, vars, chanVars
  <2>2. QED
    BY <2>1 DEF orchVars, Same
<1>4. QED
  BY <1>1, <1>2, <1>3 DEF Next

\* The head of the queue, when a create, is being sent.
LEMMA HeadCreating ==
  ASSUME BaseInv, NEW r \in Runs, Creates(r)
  PROVE  Creating(r, 1, Head(queue[r]).id)
<1>1. /\ phase[r] = "apply" /\ Len(queue[r]) > 0 /\ Head(queue[r]).type = "create"
      /\ queue[r] \in Seq(ChannelAction)
  BY HeadTyped DEF Creates, Doing, BaseInv, RunsTyped
<1>2. Head(queue[r]) = queue[r][1] /\ 1 \in DOMAIN queue[r]
  BY <1>1, TailFacts
<1>3. QED
  BY <1>1, <1>2 DEF Creating

LEMMA VerifiedTail ==
  ASSUME BaseInv, NEW r \in Runs, Checked(r)
  PROVE  /\ phase[r] = "verify" /\ phase'[r] # "verify" /\ Len(queue[r]) > 0
         /\ queue'[r] = Tail(queue[r]) /\ chan' = chan
<1>1. PICK s \in Verdict : Verified(r, s)
  BY VerdictsGiven DEF Checked
<1>2. queue'[r] = Tail(queue[r]) /\ Len(queue[r]) > 0 /\ chan' = chan
  BY <1>1, VerifyQueue DEF Verified
<1>3. PICK v \in {s, "unverified"} : VerifyReturns(r, v)
  BY <1>1 DEF Verified
<1>4. phase[r] = "verify" /\ phase'[r] = NextAction(r)
  BY <1>3 DEF VerifyReturns, BaseInv, OrchIInv, OrchTypeOK
<1>5. QED
  BY <1>2, <1>4 DEF NextAction

\* The creates of a plan are of entries the list lacks, each once.
LEMMA PlannedCreates ==
  ASSUME ChannelAssumption, BaseInv, NEW r \in Runs, PlanChannels(r)
  PROVE  /\ OnceInv(r)'
         /\ \A k \in Keys : \A p \in DOMAIN queue'[r] : Creating(r, p, k)' =>
              \A i \in DOMAIN snap[r] : snap[r][i].name # Desired[k].name
<1>1. snap[r] \in Tables /\ opts[r].prune \in BOOLEAN
  BY OrchestratorAssumption DEF BaseInv, RunsTyped, OrchIInv, OrchTypeOK, OrchestratorAssumption
<1>2. PICK acts \in Plans(snap[r], opts[r].prune) :
        queue'[r] = IF opts[r].dryRun THEN <<>> ELSE acts
  BY PlanQueue
<1>3. PICK byName \in ByName(snap[r]) :
        /\ acts \in Seq(PlannedActions(snap[r], opts[r].prune, byName))
        /\ Len(acts) \in Nat /\ DOMAIN acts = 1 .. Len(acts)
        /\ \A i, j \in DOMAIN acts : i # j => acts[i] # acts[j]
  BY <1>1, PlanFacts
<1>4. ASSUME NEW a \in PlannedActions(snap[r], opts[r].prune, byName), a.type = "create"
      PROVE  /\ a = [type |-> "create", id |-> a.id, live |-> 0]
             /\ \A i \in DOMAIN snap[r] : snap[r][i].name # Desired[a.id].name
  <2>1. DOMAIN byName = {snap[r][i].name : i \in DOMAIN snap[r]}
    BY DEF ByName
  <2>2. PICK k \in Keys : /\ Desired[k].name \notin DOMAIN byName
                          /\ a = [type |-> "create", id |-> k, live |-> 0]
    BY <1>4 DEF PlannedActions, Upserts, Prunable
  <2>3. QED
    BY <2>1, <2>2
<1>5. \A p \in DOMAIN acts : acts[p] \in PlannedActions(snap[r], opts[r].prune, byName)
  BY <1>3, ElementOfSeq
<1>6. ASSUME NEW k \in Keys, NEW p \in DOMAIN queue'[r], Creating(r, p, k)'
      PROVE  /\ p \in DOMAIN acts
             /\ acts[p] = [type |-> "create", id |-> k, live |-> 0]
             /\ \A i \in DOMAIN snap[r] : snap[r][i].name # Desired[k].name
  <2>1. ~opts[r].dryRun /\ queue'[r] = acts
    BY <1>2
  <2>2. acts[p].type = "create" /\ acts[p].id = k /\ p \in DOMAIN acts
    BY <1>6, <2>1 DEF Creating
  <2>3. QED
    BY <1>4, <1>5, <2>1, <2>2
<1>7. \A k \in Keys : \A p, q \in DOMAIN queue'[r] :
         Creating(r, p, k)' /\ Creating(r, q, k)' => p = q
  BY <1>3, <1>6
<1>8. QED
  BY <1>6, <1>7 DEF OnceInv

\* Where the action at place p after a step of run r was before it.
Moved(r, p) == IF queue'[r] = queue[r] /\ phase[r] # "verify" THEN p ELSE p + 1

\* A create still to be sent after a step other than the plan was so before it, and
\* was not at the head.
LEMMA CreatesWereLeft ==
  ASSUME ChannelAssumption, BaseInv, NEW r \in Runs, Step(r) \/ Die(r), ~PlanChannels(r),
         NEW k \in Keys, NEW p \in DOMAIN queue'[r], Creating(r, p, k)'
  PROVE  /\ Moved(r, p) \in DOMAIN queue[r] /\ Creating(r, Moved(r, p), k)
         /\ p \in Int
         /\ Applied(r) \/ Dropped(r) => Moved(r, p) # 1
<1>0. queue[r] \in Seq(ChannelAction)
  BY DEF BaseInv, RunsTyped
<1>1. /\ p \in DOMAIN queue'[r] /\ queue'[r][p].type = "create" /\ queue'[r][p].id = k
      /\ p = 1 => phase'[r] # "verify"
  BY DEF Creating
<1>2. CASE Applied(r)
  <2>1. Moved(r, p) = p /\ p # 1 /\ p \in DOMAIN queue[r] /\ DOMAIN queue[r] = 1 .. Len(queue[r])
    BY <1>0, <1>1, <1>2 DEF Applied, Moved
  <2>2. QED
    BY <1>0, <1>1, <1>2, <2>1 DEF Applied, Creating
<1>3. ASSUME queue'[r] = Tail(queue[r]), Len(queue[r]) > 0
      PROVE  /\ Moved(r, p) \in DOMAIN queue[r] /\ Creating(r, Moved(r, p), k)
             /\ p \in Int /\ Moved(r, p) # 1
  <2>1. /\ Len(Tail(queue[r])) = Len(queue[r]) - 1 /\ Tail(queue[r]) \in Seq(ChannelAction)
        /\ Len(queue[r]) \in Nat /\ DOMAIN queue[r] = 1 .. Len(queue[r])
        /\ p + 1 \in DOMAIN queue[r] /\ queue'[r][p] = queue[r][p + 1]
    BY <1>0, <1>1, <1>3, TailFacts
  <2>2. queue'[r] # queue[r] /\ p \in Int /\ p + 1 # 1
    <3>1. p \in 1 .. (Len(queue[r]) - 1)
      BY <1>1, <1>3, <2>1
    <3>2. \A n \in Nat : n - 1 # n /\ \A x \in 1 .. (n - 1) : x \in Int /\ x + 1 # 1
      OBVIOUS
    <3>3. Len(Tail(queue[r])) # Len(queue[r])
      BY <2>1, <3>2
    <3>4. p \in Int /\ p + 1 # 1
      BY <2>1, <3>1, <3>2
    <3>5. QED
      BY <1>3, <3>3, <3>4
  <2>3. QED
    BY <1>1, <2>1, <2>2 DEF Creating, Moved
<1>4. CASE Dropped(r)
  <2>1. Len(queue[r]) > 0
    BY <1>4 DEF BaseInv, QueueInv, Dropped
  <2>2. QED
    BY <1>3, <1>4, <2>1 DEF Dropped
<1>5. CASE Checked(r)
  BY <1>3, <1>5, VerifiedTail
<1>6. CASE Ended(r)
  BY <1>1, <1>6 DEF Ended
<1>7. QED
  BY <1>2, <1>4, <1>5, <1>6, OwnSteps

\* The entry just created is not created again.
LEMMA HeadIsSent ==
  ASSUME ChannelAssumption, BaseInv, NEW r \in Runs, OnceInv(r), Step(r) \/ Die(r), Creates(r),
         NEW k, k = Head(queue[r]).id
  PROVE  /\ k \in Keys /\ Creating(r, 1, k)
         /\ \A p \in DOMAIN queue'[r] : ~Creating(r, p, k)'
<1>1. phase[r] = "apply" /\ chan' # chan /\ k \in Keys /\ Creating(r, 1, k)
  <2>1. phase[r] = "apply" /\ k \in Keys /\ Creating(r, 1, k)
    BY HeadCreating, HeadTyped DEF Creates, Doing
  <2>2. nextId \notin DOMAIN chan /\ nextId \in DOMAIN chan'
    BY DEF Creates, Inserted, BaseInv, TableTyped
  <2>3. QED
    BY <2>1, <2>2
<1>2. ~PlanChannels(r)
  BY <1>1 DEF PlanChannels
<1>3. Applied(r) \/ Dropped(r)
  BY <1>1, <1>2, OwnSteps, VerifiedTail DEF Ended, Still
<1>4. ASSUME NEW p \in DOMAIN queue'[r], Creating(r, p, k)'
      PROVE  FALSE
  <2>1. /\ Moved(r, p) \in DOMAIN queue[r] /\ Creating(r, Moved(r, p), k)
        /\ Moved(r, p) # 1
    BY <1>1, <1>2, <1>3, <1>4, CreatesWereLeft
  <2>2. 1 \in DOMAIN queue[r]
    BY <1>1 DEF Creating
  <2>3. QED
    BY <1>1, <2>1, <2>2 DEF OnceInv
<1>5. QED
  BY <1>1, <1>4

LEMMA OnceKept ==
  ASSUME ChannelAssumption, BaseInv, [Next]_vars, NEW r \in Runs, OnceInv(r)
  PROVE  OnceInv(r)'
<1>1. CASE PlanChannels(r)
  BY <1>1, PlannedCreates
<1>2. CASE (Step(r) \/ Die(r)) /\ ~PlanChannels(r)
  <2> SUFFICES ASSUME NEW k \in Keys, NEW p \in DOMAIN queue'[r], NEW q \in DOMAIN queue'[r],
                      Creating(r, p, k)', Creating(r, q, k)'
               PROVE  p = q
    BY DEF OnceInv
  <2>1. Moved(r, p) \in DOMAIN queue[r] /\ Creating(r, Moved(r, p), k) /\ p \in Int
    BY <1>2, CreatesWereLeft
  <2>2. Moved(r, q) \in DOMAIN queue[r] /\ Creating(r, Moved(r, q), k) /\ q \in Int
    BY <1>2, CreatesWereLeft
  <2>3. Moved(r, p) = Moved(r, q)
    BY <2>1, <2>2 DEF OnceInv
  <2>4. QED
    BY <2>1, <2>2, <2>3 DEF Moved
<1>3. ASSUME NEW o \in Options, StartSync(r, o)
      PROVE  OnceInv(r)'
  <2>1. queue'[r] = <<>>
    BY <1>3, StartFacts
  <2>2. QED
    BY <2>1 DEF OnceInv, Creating
<1>4. CASE Same(r) /\ queue'[r] = queue[r]
  BY <1>4 DEF OnceInv, Creating, Same
<1>5. QED
  BY <1>1, <1>2, <1>3, <1>4, OneActs

\* Inductive invariant behind ChannelPromise: no plan creates an entry twice.
OnceInvs == ChannelInv /\ \A r \in Runs : OnceInv(r)

LEMMA OnceInvHolds == Spec => []OnceInvs
<1>1. Init /\ ChannelInv => OnceInvs
  BY DEF Init, OnceInvs, OnceInv, Creating
<1>2. ChannelInv /\ ChannelInv' /\ OnceInvs /\ [Next]_vars => OnceInvs'
  BY ChannelAssumption, OnceKept DEF OnceInvs, ChannelInv
<1>3. QED
  BY <1>1, <1>2, ChannelInvariant, PTL DEF Spec

-----------------------------------------------------------------------------
(* Left to themselves, sync processes keep ChannelPromise: each step of    *)
(* theirs is one of its steps or leaves the table and what they may add as *)
(* they are.                                                               *)

may == [r \in Runs |-> MayAdd(r)]

\* What a step of run r other than its start means for what the runs may add.
Retreats(r, keys) ==
  /\ MayAdd(r)' \in SUBSET keys
  /\ \A s \in Runs \ {r} : MayAdd(s)' = MayAdd(s)

LEMMA OthersMayTheSame ==
  ASSUME NEW s \in Runs, Same(s), queue'[s] = queue[s], snap'[s] = snap[s]
  PROVE  MayAdd(s)' = MayAdd(s)
BY DEF MayAdd, Creating, Same

LEMMA StepRetreats ==
  ASSUME ChannelAssumption, BaseInv, NEW r \in Runs, OnceInv(r), Step(r) \/ Die(r)
  PROVE  /\ Retreats(r, MayAdd(r))
         /\ Creates(r) => /\ Head(queue[r]).id \in MayAdd(r)
                          /\ Retreats(r, MayAdd(r) \ {Head(queue[r]).id})
<1>1. Advances(r) /\ \A s \in Runs \ {r} : Same(s) /\ queue'[s] = queue[s] /\ snap'[s] = snap[s]
  BY StepAdvances, OrchestratorAssumption, StepOfOneRun DEF Advances, BaseInv
<1>2. \A s \in Runs \ {r} : MayAdd(s)' = MayAdd(s)
  BY <1>1, OthersMayTheSame
<1>3. CASE PlanChannels(r)
  <2>1. phase[r] = "plan" /\ left[r] # {} /\ ~Creates(r)
    BY <1>3 DEF PlanChannels, PlanReturns, TakeNext, Creates, Doing
  <2>2. ~(phase'[r] = "plan" /\ left'[r] # {})
    <3>1. PICK i \in left[r] : left' = [left EXCEPT ![r] = @ \ {i}]
      BY <1>3 DEF PlanChannels, PlanReturns, TakeNext
    <3>2. left'[r] = left[r] \ {i}
      BY <3>1 DEF BaseInv, OrchIInv, OrchTypeOK
    <3>3. QED
      BY <3>1, <3>2, OneReconciler
  <2>3. MayAdd(r) = {k \in Keys : \A i \in DOMAIN snap[r] : snap[r][i].name # Desired[k].name}
    BY <2>1 DEF MayAdd
  <2>4. MayAdd(r)' = {k \in Keys : \E p \in DOMAIN queue'[r] : Creating(r, p, k)'}
    BY <2>2 DEF MayAdd
  <2>5. MayAdd(r)' \subseteq MayAdd(r)
    BY <1>3, <2>3, <2>4, PlannedCreates
  <2>6. QED
    BY <1>2, <2>1, <2>5 DEF Retreats
<1>4. CASE ~PlanChannels(r)
  <2>1. \/ phase[r] \in {"apply", "verify"}
        \/ queue'[r] = <<>> /\ phase'[r] # "plan"
    BY <1>4, OwnSteps, VerifiedTail DEF Applied, Dropped, Ended
  <2>2. ASSUME queue'[r] = <<>>, phase'[r] # "plan"
        PROVE  MayAdd(r)' \subseteq MayAdd(r)
    <3>1. DOMAIN queue'[r] = {}
      BY <2>2
    <3>2. QED
      BY <2>2, <3>1 DEF MayAdd
  <2>3. ASSUME phase[r] \in {"apply", "verify"}
        PROVE  MayAdd(r)' \subseteq MayAdd(r)
    <3>1. MayAdd(r) = {k \in Keys : \E p \in DOMAIN queue[r] : Creating(r, p, k)}
      BY <2>3 DEF MayAdd
    <3>2. left' = left /\ left[r] = {}
      BY <1>4, <2>3, OwnSteps, OneReconciler
    <3>3. MayAdd(r)' = {k \in Keys : \E p \in DOMAIN queue'[r] : Creating(r, p, k)'}
      BY <3>2 DEF MayAdd
    <3>4. ASSUME NEW k \in Keys, NEW p \in DOMAIN queue'[r], Creating(r, p, k)'
          PROVE  \E q \in DOMAIN queue[r] : Creating(r, q, k)
      BY <1>4, <3>4, CreatesWereLeft
    <3>5. QED
      BY <3>1, <3>3, <3>4
  <2>4. ASSUME Creates(r), NEW k, k = Head(queue[r]).id
        PROVE  k \in MayAdd(r) /\ k \notin MayAdd(r)'
    <3>1. /\ phase[r] = "apply" /\ k \in Keys
          /\ Creating(r, 1, k) /\ 1 \in DOMAIN queue[r]
          /\ \A p \in DOMAIN queue'[r] : ~Creating(r, p, k)'
      BY <2>4, HeadIsSent DEF Creates, Doing, Creating
    <3>2. left'[r] = {}
      BY <1>4, <3>1, OwnSteps, OneReconciler
    <3>3. QED
      BY <3>1, <3>2 DEF MayAdd
  <2>5. MayAdd(r)' \subseteq MayAdd(r)
    BY <2>1, <2>2, <2>3
  <2>6. QED
    BY <1>2, <2>4, <2>5 DEF Retreats
<1>5. QED
  BY <1>3, <1>4

LEMMA RetreatGivesUp ==
  ASSUME NEW r \in Runs, NEW keys, Retreats(r, keys)
  PROVE  may' = [may EXCEPT ![r] = MayAdd(r)'] /\ MayAdd(r)' \in SUBSET keys
BY DEF Retreats, may

LEMMA CreateAdds ==
  ASSUME ChannelAssumption, OnceInvs, NEW r \in Runs, Step(r) \/ Die(r), Creates(r)
  PROVE  Promise!Next
<1> DEFINE k == Head(queue[r]).id
<1>1. k \in Keys /\ nextId \notin DOMAIN chan /\ BaseInv /\ OnceInv(r)
  BY HeadTyped DEF OnceInvs, ChannelInv, BaseInv, TableTyped, Creates, ChannelAssumption
<1>2. k \in may[r] /\ Retreats(r, may[r] \ {k})
  BY <1>1, StepRetreats DEF may
<1>3. Promise!GivesUp(r, may[r] \ {k})
  BY <1>2, RetreatGivesUp DEF Promise!GivesUp, may
<1>4. Promise!Add(r, k, nextId) /\ nextId \in DOMAIN chan'
  BY <1>1, <1>2, <1>3 DEF Promise!Add, Creates, Inserted, Fresh, may
<1>5. QED
  BY <1>1, <1>4 DEF Promise!Next

LEMMA UpdateCorrects ==
  ASSUME ChannelAssumption, World = {}, ChannelInv, NEW r \in Runs, Updates(r),
         Promise!GivesUp(r, may[r])
  PROVE  Promise!Next
<1> DEFINE k == Head(queue[r]).id
           i == Head(queue[r]).live
<1>1. k \in Keys
  BY HeadTyped DEF ChannelInv, Updates
<1>2. i \in DOMAIN chan /\ chan[i] \in Channel
  BY DEF Updates, ChannelInv, BaseInv, TableTyped
<1>3. chan[i].name = Desired[k].name
  BY <1>2, HeadAims DEF Updates, ActionInv, AimedAt, NamesHold
<1>4. PICK ch \in Stored(k, chan[i]) : chan' = [chan EXCEPT ![i] = ch]
  BY DEF Updates
<1>5. PICK m \in {chan[i].main, Desired[k].main}, x \in {chan[i].rest, Desired[k].rest} :
        ch = [name |-> Desired[k].name, main |-> m, rest |-> x, used |-> chan[i].used]
  BY <1>4 DEF Stored
<1> HIDE DEF i, k
<1>6. ch = [[chan[i] EXCEPT !.main = m] EXCEPT !.rest = x]
  <2>1. PICK c \in Channel : c = chan[i]
    BY <1>2
  <2>2. [[c EXCEPT !.main = m] EXCEPT !.rest = x]
          = [name |-> c.name, main |-> m, rest |-> x, used |-> c.used]
    <3> DEFINE d == [c EXCEPT !.main = m]
    <3>1. d = [name |-> c.name, main |-> m, rest |-> c.rest, used |-> c.used]
      BY DEF Channel
    <3> HIDE DEF d
    <3>2. [d EXCEPT !.rest = x] = [name |-> c.name, main |-> m, rest |-> x, used |-> c.used]
      BY <3>1
    <3>3. QED
      BY <3>2 DEF d
  <2>3. QED
    BY <1>3, <1>5, <2>1, <2>2
<1>7. chan' = [chan EXCEPT ![i].main = m, ![i].rest = x]
  BY <1>2, <1>4, <1>6
<1>8. Promise!Correct(r, k, i)
  BY <1>3, <1>7 DEF Promise!Correct, may
<1>9. QED
  BY <1>1, <1>2, <1>8 DEF Promise!Next

LEMMA DeleteRemoves ==
  ASSUME World = {}, ChannelInv, NEW r \in Runs, Deletes(r), Promise!GivesUp(r, may[r])
  PROVE  Promise!Next
<1> DEFINE i == Head(queue[r]).live
<1>1. i \in DOMAIN chan /\ chan' = [j \in DOMAIN chan \ {i} |-> chan[j]]
  BY DEF Deletes, Restrict
<1>2. chan[i].name \notin DesiredNames /\ ~chan[i].used
  BY <1>1, HeadAims DEF Deletes, ActionInv, AimedAt, NamesHold, UsedHolds
<1>3. Promise!Remove(r, i)
  BY <1>1, <1>2 DEF Promise!Remove, Promise!Wanted, DesiredNames, may
<1>4. QED
  BY <1>1, <1>3 DEF Promise!Next

\* The list read at the start of a run shows what is missing, or nothing.
LEMMA StartLooks ==
  ASSUME ChannelAssumption, BaseInv, NEW r \in Runs, NEW o \in Options, StartSync(r, o)
  PROVE  Promise!Next
<1>1. /\ AnyStep(r) /\ UNCHANGED chan
      /\ \A s \in Runs \ {r} : queue'[s] = queue[s] /\ snap'[s] = snap[s]
      /\ queue'[r] = <<>> /\ snap'[r] \in {chan, NoChannels}
  BY StartFacts
<1>2. \A s \in Runs \ {r} : MayAdd(s)' = MayAdd(s)
  BY <1>1, OthersMayTheSame, OrchestratorAssumption, StepOfOneRun DEF BaseInv
<1>3. MayAdd(r)' \in {Promise!Missing, Keys} \/ MayAdd(r)' = {}
  <2>1. CASE phase'[r] = "plan" /\ left'[r] # {}
    <3>1. MayAdd(r)' = {k \in Keys : \A i \in DOMAIN snap'[r] : snap'[r][i].name # Desired[k].name}
      BY <2>1 DEF MayAdd
    <3>2. CASE snap'[r] = chan
      BY <3>1, <3>2 DEF Promise!Missing
    <3>3. CASE snap'[r] = NoChannels
      <4>1. DOMAIN snap'[r] = {}
        BY <3>3 DEF NoChannels
      <4>2. MayAdd(r)' = Keys
        BY <3>1, <4>1
      <4>3. QED
        BY <4>2
    <3>4. QED
      BY <1>1, <3>2, <3>3
  <2>2. CASE ~(phase'[r] = "plan" /\ left'[r] # {})
    <3>1. DOMAIN queue'[r] = {}
      BY <1>1
    <3>2. QED
      BY <2>2, <3>1 DEF MayAdd
  <2>3. QED
    BY <2>1, <2>2
<1>4. PICK keys : keys = MayAdd(r)'
  OBVIOUS
<1>5. may' = [may EXCEPT ![r] = keys]
  BY <1>2, <1>4 DEF may
<1>6. CASE keys \in {Promise!Missing, Keys}
  BY <1>1, <1>5, <1>6 DEF Promise!Next, Promise!Look, may
<1>7. CASE keys = {}
  <2>1. keys \in SUBSET may[r]
    BY <1>7
  <2>2. Promise!Forget(r)
    BY <1>1, <1>5, <2>1 DEF Promise!Forget, Promise!GivesUp, may
  <2>3. QED
    BY <2>2 DEF Promise!Next
<1>8. QED
  BY <1>3, <1>4, <1>6, <1>7

\* Any number of sync processes, started, crashed and started again at any time,
\* with lists that fail and plans however stale, do to the table what
\* ChannelPromise says and no more, as long as nobody else changes it.
THEOREM PromiseAlwaysKept ==
  ASSUME World = {}
  PROVE  Spec => PromiseKept
<1>1. Init => Promise!Init
  <2> SUFFICES ASSUME Init PROVE Promise!Init
    OBVIOUS
  <2>1. \A r \in Runs : MayAdd(r) = {}
    BY DEF Init, OrchInit, MayAdd
  <2>2. QED
    BY <2>1 DEF Init, Promise!Init, Promise!Row, Channel
<1>2. ASSUME OnceInvs, [Next]_vars
      PROVE  Promise!Next \/ (chan' = chan /\ may' = may)
  <2>1. BaseInv /\ ChannelInv
    BY <1>2 DEF OnceInvs, ChannelInv
  <2>2. ASSUME NEW r \in Runs, Step(r) \/ Die(r)
        PROVE  Promise!Next
    <3>1. Advances(r) /\ Retreats(r, may[r])
      BY <1>2, <2>1, <2>2, ChannelAssumption, StepAdvances, StepRetreats DEF OnceInvs, may
    <3>2. Promise!GivesUp(r, may[r])
      BY <3>1, RetreatGivesUp DEF Promise!GivesUp, may
    <3>3. CASE Still
      <4>1. Promise!Forget(r)
        BY <3>2, <3>3 DEF Promise!Forget, Still, may
      <4>2. QED
        BY <4>1 DEF Promise!Next
    <3>4. QED
      BY <1>2, <2>1, <2>2, <3>1, <3>2, <3>3, ChannelAssumption, CreateAdds, UpdateCorrects,
         DeleteRemoves DEF Advances
  <2>3. ASSUME NEW r \in Runs, NEW o \in Options, StartSync(r, o)
        PROVE  Promise!Next
    BY <2>1, <2>3, ChannelAssumption, StartLooks
  <2>4. ~Others
    BY <2>1, OthersFacts DEF BaseInv
  <2>5. UNCHANGED vars => chan' = chan /\ may' = may
    BY DEF vars, chanVars, orchVars, may, MayAdd, Creating
  <2>6. QED
    BY <1>2, <2>2, <2>3, <2>4, <2>5 DEF Next
<1>3. OnceInvs /\ [Next]_vars => [Promise!Next]_Promise!pvars
  BY <1>2 DEF Promise!pvars, may
<1>4. QED
  BY <1>1, <1>3, OnceInvHolds, PTL DEF Spec, PromiseKept, Promise!Spec

-----------------------------------------------------------------------------
(* Syncing again is harmless.                                              *)

\* Each display name is asked for once (the registry's loader refuses a second entry
\* of one key only).
OneEntryPerName == \A k, l \in Keys : Desired[k].name = Desired[l].name => k = l

\* A run nobody has disturbed plans from the table as it is, and creates no entry
\* whose name is in the table by then.
SnapIsTable(r) == quiet[r] /\ phase[r] = "plan" /\ left[r] # {} => snap[r] = chan

FreshInv(r) ==
  quiet[r] => \A k \in Keys : \A p \in DOMAIN queue[r] :
                Creating(r, p, k) => ~Listed(Desired[k].name)

\* Names the table gains are those of creates.
LEMMA NamesGained ==
  ASSUME ChannelAssumption, ChannelInv, ChannelInv', NEW r \in Runs, Step(r) \/ Die(r),
         quiet'[r], NEW n, Listed(n)'
  PROVE  Listed(n) \/ /\ Creates(r) /\ Head(queue[r]).id \in Keys
                      /\ n = Desired[Head(queue[r]).id].name
<1>1. PICK i \in DOMAIN chan' : chan'[i].name = n
  BY DEF Listed
<1>2. \/ i \in DOMAIN chan /\ chan'[i].name = chan[i].name
      \/ /\ Creates(r) /\ chan'[i] = Fresh(Head(queue[r]).id)
         /\ Head(queue[r]).id \in Keys
  BY OwnTable
<1>3. QED
  BY <1>1, <1>2 DEF Listed, Fresh

LEMMA FreshPlan ==
  ASSUME ChannelAssumption, BaseInv, NEW r \in Runs, SnapIsTable(r), PlanChannels(r)
  PROVE  FreshInv(r)'
<1> SUFFICES ASSUME quiet'[r], NEW k \in Keys, NEW p \in DOMAIN queue'[r], Creating(r, p, k)'
             PROVE  ~Listed(Desired[k].name)'
  BY DEF FreshInv
<1>1. quiet[r] /\ chan' = chan /\ phase[r] = "plan" /\ left[r] # {}
  BY DEF PlanChannels, PlanReturns, TakeNext
<1>2. snap[r] = chan
  BY <1>1 DEF SnapIsTable
<1>3. \A i \in DOMAIN chan : chan[i].name # Desired[k].name
  BY <1>2, PlannedCreates
<1>4. QED
  BY <1>1, <1>3 DEF Listed

LEMMA FreshOwn ==
  ASSUME ChannelAssumption, OneEntryPerName, ChannelInv, ChannelInv', NEW r \in Runs,
         OnceInv(r), FreshInv(r), Step(r) \/ Die(r), ~PlanChannels(r)
  PROVE  FreshInv(r)'
<1> SUFFICES ASSUME quiet'[r], NEW k \in Keys, NEW p \in DOMAIN queue'[r], Creating(r, p, k)'
             PROVE  ~Listed(Desired[k].name)'
  BY DEF FreshInv
<1>1. BaseInv /\ quiet[r]
  BY OwnTable DEF ChannelInv
<1>2. Moved(r, p) \in DOMAIN queue[r] /\ Creating(r, Moved(r, p), k)
  BY <1>1, CreatesWereLeft
<1>3. ~Listed(Desired[k].name)
  BY <1>1, <1>2 DEF FreshInv
<1>4. ASSUME Creates(r), Head(queue[r]).id \in Keys
      PROVE  Desired[Head(queue[r]).id].name # Desired[k].name
  <2>1. Head(queue[r]).id # k
    BY <1>1, <1>4, HeadIsSent
  <2>2. QED
    BY <1>4, <2>1 DEF OneEntryPerName
<1>5. QED
  BY <1>3, <1>4, NamesGained

LEMMA SnapKept ==
  ASSUME ChannelAssumption, BaseInv, BaseInv', [Next]_vars, NEW r \in Runs, SnapIsTable(r)
  PROVE  SnapIsTable(r)'
<1> SUFFICES ASSUME quiet'[r], phase'[r] = "plan", left'[r] # {} PROVE snap'[r] = chan'
  BY DEF SnapIsTable
<1>1. ASSUME Step(r) \/ Die(r)
      PROVE  FALSE
  <2>1. CASE PlanChannels(r)
    <3>1. PICK i \in left[r] : left' = [left EXCEPT ![r] = @ \ {i}]
      BY <2>1 DEF PlanChannels, PlanReturns, TakeNext
    <3>2. left'[r] = left[r] \ {i}
      BY <3>1 DEF BaseInv, OrchIInv, OrchTypeOK
    <3>3. QED
      BY <3>1, <3>2, OneReconciler
  <2>2. CASE ~PlanChannels(r)
    <3>1. /\ Applied(r) \/ Dropped(r) \/ Checked(r) \/ Ended(r)
          /\ left' = left
      BY <1>1, <2>2, OwnSteps
    <3>2. phase[r] \in {"apply", "verify"}
      BY <3>1, VerifiedTail DEF Applied, Dropped, Ended
    <3>3. QED
      BY <3>1, <3>2, OneReconciler
  <2>3. QED
    BY <2>1, <2>2
<1>2. ASSUME NEW o \in Options, StartSync(r, o)
      PROVE  snap'[r] = chan'
  BY <1>2, StartFacts
<1>3. QED
  BY <1>1, <1>2, QuietMeansAlone DEF SnapIsTable, Same

LEMMA FreshKept ==
  ASSUME ChannelAssumption, OneEntryPerName, ChannelInv, ChannelInv', [Next]_vars,
         NEW r \in Runs, SnapIsTable(r), OnceInv(r), FreshInv(r)
  PROVE  FreshInv(r)'
<1> SUFFICES ASSUME quiet'[r] PROVE FreshInv(r)'
  BY DEF FreshInv
<1>0. BaseInv
  BY DEF ChannelInv
<1>1. ASSUME Step(r) \/ Die(r)
      PROVE  FreshInv(r)'
  BY <1>0, <1>1, FreshPlan, FreshOwn
<1>2. ASSUME NEW o \in Options, StartSync(r, o)
      PROVE  FreshInv(r)'
  <2>1. queue'[r] = <<>>
    BY <1>0, <1>2, StartFacts
  <2>2. QED
    BY <2>1 DEF FreshInv, Creating
<1>3. ASSUME quiet[r], chan' = chan, Same(r), queue'[r] = queue[r]
      PROVE  FreshInv(r)'
  BY <1>3 DEF FreshInv, Creating, Listed, Same
<1>4. QED
  BY <1>0, <1>1, <1>2, <1>3, QuietMeansAlone

\* Inductive invariant behind RerunMakesNoTwins.
TwinInv == OnceInvs /\ \A r \in Runs : SnapIsTable(r) /\ FreshInv(r)

LEMMA TwinInvHolds ==
  ASSUME OneEntryPerName
  PROVE  Spec => []TwinInv
<1>1. Init /\ OnceInvs => TwinInv
  <2>1. Init => \A r \in Runs : quiet[r] = FALSE
    BY DEF Init
  <2>2. QED
    BY <2>1 DEF TwinInv, SnapIsTable, FreshInv
<1>2. ASSUME OnceInvs, OnceInvs', TwinInv, [Next]_vars
      PROVE  TwinInv'
  <2>1. \A r \in Runs : SnapIsTable(r)' /\ FreshInv(r)'
    BY <1>2, ChannelAssumption, SnapKept, FreshKept DEF TwinInv, OnceInvs, ChannelInv
  <2>2. QED
    BY <1>2, <2>1 DEF TwinInv
<1>3. QED
  BY <1>1, <1>2, OnceInvHolds, PTL DEF Spec

\* Where each display name is asked for once, a run that has read the table and that
\* nobody disturbs makes no second channel of any name, whatever was lost, failed
\* or was killed before.
THEOREM RerunsMakeNoTwins ==
  ASSUME OneEntryPerName
  PROVE  Spec => RerunMakesNoTwins
<1>1. ASSUME TwinInv, TwinInv', [Next]_vars, NEW r \in Runs, Acts(r), quiet[r], UniqueNames(chan)
      PROVE  UniqueNames(chan')
  <2>1. /\ BaseInv /\ BaseInv' /\ ChannelInv /\ ChannelInv' /\ FreshInv(r)
    BY <1>1 DEF TwinInv, OnceInvs, ChannelInv
  <2>2. CASE chan' = chan
    BY <1>1, <2>2
  <2>3. CASE chan' # chan
    <3>1. Step(r) \/ Die(r)
      BY <1>1, <2>1, <2>3, ChannelAssumption, ActsIsStep, StartFacts
    <3>2. quiet'[r] /\ (Creates(r) \/ Updates(r) \/ Deletes(r))
      BY <1>1, <2>1, <2>3, <3>1, ChannelAssumption, StepAdvances
         DEF Advances, Still, Creates, Updates, Deletes, Wrote
    <3>3. ASSUME Creates(r)
          PROVE  ~Listed(Desired[Head(queue[r]).id].name)
      <4>1. Creating(r, 1, Head(queue[r]).id) /\ Head(queue[r]).id \in Keys
        BY <2>1, <3>3, HeadCreating, HeadTyped DEF Creates
      <4>2. 1 \in DOMAIN queue[r]
        BY <4>1 DEF Creating
      <4>3. QED
        BY <1>1, <2>1, <4>1, <4>2 DEF FreshInv
    <3>4. \A i \in DOMAIN chan' : i \in DOMAIN chan => chan'[i].name = chan[i].name
      <4>1. AimInv(r) /\ Advances(r)
        BY <2>1, <3>1, ChannelAssumption, StepAdvances DEF ChannelInv
      <4>2. Follows(r)
        BY <2>1, <4>1, ChannelAssumption, StepFollows
      <4>3. NamesHold(r)'
        BY <3>2 DEF NamesHold
      <4>4. QED
        BY <4>2, <4>3 DEF Follows
    <3>5. \A i \in DOMAIN chan' : i \notin DOMAIN chan =>
            /\ i = nextId /\ Creates(r)
      BY <2>1, <3>2, ChannelAssumption, WriteFacts
    <3>6. Creates(r) => chan'[nextId].name = Desired[Head(queue[r]).id].name
      BY DEF Creates, Inserted, Fresh
    <3>7. ASSUME NEW i \in DOMAIN chan', NEW j \in DOMAIN chan', chan'[i].name = chan'[j].name
          PROVE  i = j
      BY <1>1, <3>3, <3>4, <3>5, <3>6, <3>7 DEF UniqueNames, Listed
    <3>8. QED
      BY <3>7 DEF UniqueNames
  <2>4. QED
    BY <2>2, <2>3
<1>2. TwinInv /\ TwinInv' /\ [Next]_vars =>
        [\A r \in Runs : (Acts(r) /\ quiet[r] /\ UniqueNames(chan)) => UniqueNames(chan')]_vars
  BY <1>1
<1>3. QED
  BY <1>2, TwinInvHolds, PTL DEF Spec, RerunMakesNoTwins

-----------------------------------------------------------------------------
(* A clean run has done its job.                                           *)

Waits(r, t, x) == \E p \in DOMAIN queue[r] : queue[r][p].type = t /\ queue[r][p].id = x
Twin(i) == \E j \in DOMAIN chan : j # i /\ chan[j].name = chan[i].name
BilledTwin(i) == \E j \in DOMAIN chan : j # i /\ chan[j].name = chan[i].name /\ chan[j].used

\* Run r has planned and met neither a failure nor drift nor anybody else.
Clean(r) ==
  /\ quiet[r] /\ ~opts[r].dryRun /\ left[r] = {} /\ phase[r] \notin {"idle", "crashed"}
  /\ report[r].failed = 0 /\ report[r].driftWarnings = 0

\* What is not yet as the registry asks waits in the queue of such a run, or shares
\* its name with another channel, or was mistaken for another.
UpdatesLeft(r) ==
  \A k \in Keys : \A i \in DOMAIN chan :
    chan[i].name = Desired[k].name /\ chan[i].main # Desired[k].main =>
      Twin(i) \/ Waits(r, "update", k)
CreatesLeft(r) ==
  \A k \in Keys : Listed(Desired[k].name) \/ Mistakable(r, k) \/ Waits(r, "create", k)
DeletesLeft(r) ==
  opts[r].prune => \A i \in DOMAIN chan :
    chan[i].name \notin DesiredNames /\ ~chan[i].used =>
      BilledTwin(i) \/ Waits(r, "delete", chan[i].name)

Settling(r) == Clean(r) => UpdatesLeft(r) /\ CreatesLeft(r) /\ DeletesLeft(r)

\* The plan leaves nothing out.
LEMMA PlanSettles ==
  ASSUME ChannelAssumption, BaseInv, NEW r \in Runs, SnapIsTable(r), PlanChannels(r)
  PROVE  Settling(r)'
<1> SUFFICES ASSUME Clean(r)'
             PROVE  (UpdatesLeft(r) /\ CreatesLeft(r) /\ DeletesLeft(r))'
  BY DEF Settling
<1>1. /\ quiet[r] /\ chan' = chan /\ opts' = opts /\ phase[r] = "plan" /\ left[r] # {}
      /\ snap[r] \in Tables /\ ~opts[r].dryRun
  BY DEF PlanChannels, PlanReturns, TakeNext, BaseInv, RunsTyped, Clean
<1>2. snap[r] = chan /\ opts[r].prune \in BOOLEAN
  BY <1>1, OrchestratorAssumption
     DEF SnapIsTable, BaseInv, OrchIInv, OrchTypeOK, OrchestratorAssumption
<1>3. PICK acts \in Plans(chan, opts[r].prune) : queue'[r] = acts
  BY <1>1, <1>2, PlanQueue
<1>4. PICK byName \in ByName(chan) :
        \A a \in PlannedActions(chan, opts[r].prune, byName) : \E p \in DOMAIN acts : acts[p] = a
  <2>1. chan \in Tables
    BY <1>1, <1>2
  <2>2. QED
    BY <1>2, <2>1, PlanComplete
<1>5. \A a \in PlannedActions(chan, opts[r].prune, byName) : Waits(r, a.type, a.id)'
  BY <1>3, <1>4 DEF Waits
<1>6. /\ DOMAIN byName = {chan[i].name : i \in DOMAIN chan}
      /\ \A n \in DOMAIN byName : byName[n] \in DOMAIN chan /\ chan[byName[n]].name = n
  BY DEF ByName
<1>7. ASSUME NEW k \in Keys, NEW i \in DOMAIN chan,
             chan[i].name = Desired[k].name, chan[i].main # Desired[k].main, ~Twin(i)
      PROVE  Waits(r, "update", k)'
  <2>1. Desired[k].name \in DOMAIN byName /\ byName[Desired[k].name] = i
    BY <1>6, <1>7 DEF Twin
  <2>2. [type |-> "update", id |-> k, live |-> i]
          \in PlannedActions(chan, opts[r].prune, byName)
    BY <1>7, <2>1 DEF PlannedActions, Upserts, channelNeedUpdate
  <2>3. QED
    BY <1>5, <2>2
<1>8. ASSUME NEW k \in Keys, ~Listed(Desired[k].name)
      PROVE  Waits(r, "create", k)'
  <2>1. Desired[k].name \notin DOMAIN byName
    BY <1>6, <1>8 DEF Listed
  <2>2. [type |-> "create", id |-> k, live |-> 0]
          \in PlannedActions(chan, opts[r].prune, byName)
    BY <2>1 DEF PlannedActions, Upserts
  <2>3. QED
    BY <1>5, <2>2
<1>9. ASSUME opts[r].prune, NEW i \in DOMAIN chan,
             chan[i].name \notin DesiredNames, ~chan[i].used, ~BilledTwin(i)
      PROVE  Waits(r, "delete", chan[i].name)'
  <2> DEFINE n == chan[i].name
  <2>1. n \in DOMAIN byName /\ byName[n] \in DOMAIN chan /\ chan[byName[n]].name = n
    BY <1>6
  <2>2. ~chan[byName[n]].used
    BY <1>9, <2>1 DEF BilledTwin
  <2>3. [type |-> "delete", id |-> n, live |-> byName[n]] \in Prunable(chan, byName)
    BY <1>9, <2>1, <2>2 DEF Prunable
  <2>4. [type |-> "delete", id |-> n, live |-> byName[n]]
          \in PlannedActions(chan, opts[r].prune, byName)
    BY <1>9, <2>3 DEF PlannedActions
  <2>5. chan'[i].name = n
    BY <1>1
  <2>6. QED
    BY <1>5, <2>4, <2>5 DEF Waits
<1>10. UpdatesLeft(r)'
  BY <1>1, <1>7 DEF UpdatesLeft, Twin
<1>11. CreatesLeft(r)'
  BY <1>1, <1>8 DEF CreatesLeft, Listed
<1>12. DeletesLeft(r)'
  <2> SUFFICES ASSUME opts[r].prune, NEW i \in DOMAIN chan,
                      chan[i].name \notin DesiredNames, ~chan[i].used
               PROVE  BilledTwin(i)' \/ Waits(r, "delete", chan[i].name)'
    BY <1>1 DEF DeletesLeft, Waits
  <2>1. BilledTwin(i) => BilledTwin(i)'
    BY <1>1 DEF BilledTwin
  <2>2. QED
    BY <1>9, <2>1
<1>13. QED
  BY <1>10, <1>11, <1>12

\* An entry that may be mistaken for another stays so.
LEMMA MistakableStays ==
  ASSUME ChannelAssumption, ChannelInv, ChannelInv', NEW r \in Runs, Step(r) \/ Die(r), quiet'[r],
         NEW k \in Keys, Mistakable(r, k)
  PROVE  Mistakable(r, k)'
<1>1. opts' = opts
  BY StepAdvances DEF ChannelInv, Advances
<1>2. CASE opts[r].prune
  BY <1>1, <1>2 DEF Mistakable
<1>3. CASE Listed(k) /\ ~opts[r].prune
  <2>1. PICK i \in DOMAIN chan : chan[i].name = k
    BY <1>3 DEF Listed
  <2>2. ~Deletes(r)
    <3>1. Deletes(r) => ActionInv(r, Head(queue[r])) /\ Head(queue[r]).type = "delete"
      BY HeadAims DEF Deletes
    <3>2. QED
      BY <1>3, <3>1 DEF ActionInv
  <2>3. i \in DOMAIN chan'
    BY <2>1, <2>2, OwnTable
  <2>4. chan'[i].name = chan[i].name
    <3>1. Advances(r) /\ BaseInv /\ AimInv(r)
      BY StepAdvances DEF ChannelInv
    <3>2. Follows(r)
      BY <3>1, StepFollows DEF ChannelInv
    <3>3. QED
      BY <2>1, <2>3, <3>2 DEF Follows, NamesHold
  <2>5. QED
    BY <1>1, <1>3, <2>1, <2>3, <2>4 DEF Mistakable, Listed
<1>4. QED
  BY <1>2, <1>3 DEF Mistakable

\* Sending an action.
LEMMA SendSettles ==
  ASSUME ChannelAssumption, OneEntryPerName, ChannelInv, ChannelInv', NEW r \in Runs,
         Step(r) \/ Die(r), ~PlanChannels(r), Applied(r), quiet'[r],
         UpdatesLeft(r), CreatesLeft(r), DeletesLeft(r)
  PROVE  (UpdatesLeft(r) /\ CreatesLeft(r) /\ DeletesLeft(r))'
<1>1. BaseInv /\ BaseInv' /\ opts' = opts /\ queue'[r] = queue[r]
  BY OwnSteps DEF ChannelInv, Applied
<1>2. /\ \A i \in DOMAIN chan' :
              \/ /\ i \in DOMAIN chan
                 /\ chan'[i].name = chan[i].name /\ chan'[i].used = chan[i].used
                 /\ chan'[i] # chan[i] => /\ Updates(r) /\ i = Head(queue[r]).live
                                          /\ chan'[i].name = Desired[Head(queue[r]).id].name
              \/ /\ Creates(r) /\ chan'[i] = Fresh(Head(queue[r]).id)
                 /\ Head(queue[r]).id \in Keys
      /\ \A i \in DOMAIN chan : i \in DOMAIN chan' \/ /\ chan[i].name \notin DesiredNames
                                                      /\ ~chan[i].used
  BY OwnTable
<1>3. \A t, x : Waits(r, t, x) <=> Waits(r, t, x)'
  BY <1>1 DEF Waits
<1>4. ASSUME NEW i \in DOMAIN chan, chan[i].name \in DesiredNames \/ chan[i].used
      PROVE  /\ i \in DOMAIN chan'
             /\ chan'[i].name = chan[i].name /\ chan'[i].used = chan[i].used
  <2>1. i \in DOMAIN chan'
    BY <1>2, <1>4
  <2>2. ~(Creates(r) /\ i = nextId)
    BY <1>1 DEF BaseInv, TableTyped
  <2>3. chan' = chan \/ Creates(r) \/ Updates(r) \/ Deletes(r)
    BY DEF Applied, Still
  <2>4. CASE Creates(r)
    <3>1. chan'[i] = chan[i]
      BY <2>2, <2>4 DEF Creates, Inserted
    <3>2. QED
      BY <2>1, <3>1
  <2>5. CASE ~Creates(r)
    BY <1>2, <2>1, <2>5
  <2>6. QED
    BY <2>4, <2>5
<1>5. \A k \in Keys : Desired[k].name \in DesiredNames
  BY DEF DesiredNames
<1>6. ASSUME Updates(r)
      PROVE  Head(queue[r]).id \in Keys /\ Waits(r, "update", Head(queue[r]).id)
  <2>1. /\ Head(queue[r]).id \in Keys /\ Len(queue[r]) > 0 /\ Head(queue[r]).type = "update"
        /\ queue[r] \in Seq(ChannelAction)
    BY <1>1, <1>6, HeadTyped DEF Updates, BaseInv, RunsTyped
  <2>2. Head(queue[r]) = queue[r][1] /\ 1 \in DOMAIN queue[r]
    BY <2>1, TailFacts
  <2>3. QED
    BY <2>1, <2>2 DEF Waits
<1>7. UpdatesLeft(r)'
  <2> SUFFICES ASSUME NEW k \in Keys, NEW i \in DOMAIN chan',
                      chan'[i].name = Desired[k].name, chan'[i].main # Desired[k].main
               PROVE  Twin(i)' \/ Waits(r, "update", k)'
    BY DEF UpdatesLeft
  <2>1. CASE i \in DOMAIN chan /\ chan'[i] = chan[i]
    <3>1. Twin(i) \/ Waits(r, "update", k)
      BY <2>1 DEF UpdatesLeft
    <3>2. ASSUME Twin(i) PROVE Twin(i)'
      <4>1. PICK j \in DOMAIN chan : j # i /\ chan[j].name = chan[i].name
        BY <3>2 DEF Twin
      <4>2. chan[j].name \in DesiredNames
        BY <1>5, <2>1, <4>1
      <4>3. j \in DOMAIN chan' /\ chan'[j].name = chan'[i].name
        BY <1>4, <2>1, <4>1, <4>2
      <4>4. QED
        BY <4>1, <4>3 DEF Twin
    <3>3. QED
      BY <1>3, <3>1, <3>2
  <2>2. CASE i \in DOMAIN chan /\ chan'[i] # chan[i]
    <3>1. CASE Updates(r)
      <4>1. chan'[i].name = chan[i].name /\ i = Head(queue[r]).live
        <5>1. ~Creates(r)
          BY <3>1 DEF Creates, Updates, Doing
        <5>2. QED
          BY <1>2, <2>2, <5>1
      <4>2. chan'[i].name = Desired[Head(queue[r]).id].name
        <5>1. ~Creates(r)
          BY <3>1 DEF Creates, Updates, Doing
        <5>2. QED
          BY <1>2, <2>2, <5>1
      <4>3. k = Head(queue[r]).id
        BY <1>6, <3>1, <4>2 DEF OneEntryPerName
      <4>4. QED
        BY <1>3, <1>6, <3>1, <4>3
    <3>2. CASE Creates(r)
      <4>1. i # nextId
        BY <1>1, <2>2 DEF BaseInv, TableTyped
      <4>2. QED
        BY <2>2, <3>2, <4>1 DEF Creates, Inserted
    <3>3. QED
      BY <1>2, <2>2, <3>1, <3>2
  <2>3. CASE i \notin DOMAIN chan
    <3>1. chan'[i] = Fresh(Head(queue[r]).id) /\ Head(queue[r]).id \in Keys
      BY <1>2, <2>3
    <3>2. k = Head(queue[r]).id
      BY <3>1 DEF Fresh, OneEntryPerName
    <3>3. QED
      BY <3>1, <3>2 DEF Fresh
  <2>4. QED
    BY <2>1, <2>2, <2>3
<1>8. CreatesLeft(r)'
  <2> SUFFICES ASSUME NEW k \in Keys, ~Waits(r, "create", k)', ~Mistakable(r, k)'
               PROVE  Listed(Desired[k].name)'
    BY DEF CreatesLeft
  <2>1. PICK i \in DOMAIN chan : chan[i].name = Desired[k].name
    BY <1>3, MistakableStays DEF CreatesLeft, Listed
  <2>2. i \in DOMAIN chan' /\ chan'[i].name = Desired[k].name
    BY <1>4, <1>5, <2>1
  <2>3. QED
    BY <2>2 DEF Listed
<1>9. DeletesLeft(r)'
  <2> SUFFICES ASSUME opts[r].prune, NEW i \in DOMAIN chan',
                      chan'[i].name \notin DesiredNames, ~chan'[i].used
               PROVE  BilledTwin(i)' \/ Waits(r, "delete", chan[i].name)'
    BY <1>1 DEF DeletesLeft, DesiredNames
  <2>1. i \in DOMAIN chan /\ chan'[i].name = chan[i].name /\ chan'[i].used = chan[i].used
    BY <1>2, <1>5 DEF Fresh
  <2>2. BilledTwin(i) \/ Waits(r, "delete", chan[i].name)
    BY <2>1 DEF DeletesLeft
  <2>3. ASSUME BilledTwin(i) PROVE BilledTwin(i)'
    <3>1. PICK j \in DOMAIN chan : j # i /\ chan[j].name = chan[i].name /\ chan[j].used
      BY <2>3 DEF BilledTwin
    <3>2. j \in DOMAIN chan' /\ chan'[j].name = chan'[i].name /\ chan'[j].used
      BY <1>4, <2>1, <3>1
    <3>3. QED
      BY <3>1, <3>2 DEF BilledTwin
  <2>4. Waits(r, "delete", chan[i].name) => Waits(r, "delete", chan[i].name)'
    BY <1>1, <2>1 DEF Waits
  <2>5. QED
    BY <2>2, <2>3, <2>4
<1>10. QED
  BY <1>7, <1>8, <1>9

\* Verifying an action, without finding drift.
LEMMA VerifySettles ==
  ASSUME ChannelAssumption, OneEntryPerName, ChannelInv,
         NEW r \in Runs, Checked(r), report'[r].driftWarnings = 0,
         UpdatesLeft(r), CreatesLeft(r), DeletesLeft(r)
  PROVE  (UpdatesLeft(r) /\ CreatesLeft(r) /\ DeletesLeft(r))'
<1> DEFINE a == Head(queue[r])
<1>1. /\ BaseInv /\ TableTyped /\ phase[r] = "verify" /\ phase'[r] # "verify" /\ Len(queue[r]) > 0
      /\ queue'[r] = Tail(queue[r]) /\ chan' = chan /\ queue[r] \in Seq(ChannelAction)
      /\ report[r].driftWarnings \in Nat
  BY VerifiedTail, ReportFields DEF ChannelInv, BaseInv, RunsTyped, OrchIInv, OrchTypeOK
<1>2. opts' = opts
  BY DEF Checked, verifyCreate, verifyUpdate, verifyDelete, Verified, VerifyReturns
<1>3. a \in ChannelAction /\ a = queue[r][1]
      /\ \A p \in DOMAIN queue[r] \ {1} : p - 1 \in DOMAIN queue'[r] /\ queue[r][p] = queue'[r][p - 1]
  BY <1>1, TailFacts
\* Only the action verified has left the queue.
<1>4. ASSUME NEW t, NEW x, Waits(r, t, x), t # a.type \/ x # a.id
      PROVE  Waits(r, t, x)'
  <2>1. PICK p \in DOMAIN queue[r] : queue[r][p].type = t /\ queue[r][p].id = x
    BY <1>4 DEF Waits
  <2>2. p # 1
    BY <1>3, <1>4, <2>1
  <2>3. p - 1 \in DOMAIN queue'[r] /\ queue'[r][p - 1].type = t /\ queue'[r][p - 1].id = x
    BY <1>3, <2>1, <2>2
  <2>4. QED
    BY <2>3 DEF Waits
<1>5. ASSUME NEW s \in Verdict, Verified(r, s)
      PROVE  s = "ok"
  <2>1. PICK v \in {s, "unverified"} : VerifyReturns(r, v)
    BY <1>5 DEF Verified
  <2>2. report'[r].driftWarnings = report[r].driftWarnings + (IF v = "ok" THEN 0 ELSE 1)
    BY <1>1, <2>1, VerdictCounts DEF Verdict, BaseInv
  <2>3. v = "ok"
    BY <1>1, <2>2
  <2>4. QED
    BY <2>3
<1>6. ASSUME a.type = "create"
      PROVE  a.id \in Keys /\ (Listed(Desired[a.id].name) \/ Mistakable(r, a.id))
  <2>1. a.id \in Keys
    BY <1>3, <1>6 DEF ChannelAction
  <2>2. Verified(r, IF Listed(a.id) THEN "ok" ELSE "applied-with-drift")
    BY <1>6 DEF Checked, verifyCreate, verifyUpdate, verifyDelete, Verifying
  <2>3. Listed(a.id)
    BY <1>5, <2>2 DEF Verdict
  <2>4. QED
    BY <2>1, <2>3 DEF Mistakable
<1>7. ASSUME a.type = "update"
      PROVE  /\ a.id \in Keys /\ a.live \in DOMAIN chan
             /\ chan[a.live].name = Desired[a.id].name
             /\ chan[a.live].main = Desired[a.id].main
  <2>1. a.id \in Keys
    BY <1>3, <1>7 DEF ChannelAction
  <2>2. Verified(r, IF a.live \notin DOMAIN chan THEN "unverified"
                    ELSE IF ReadsBack(a.id, chan[a.live]) THEN "ok" ELSE "applied-with-drift")
    BY <1>7 DEF Checked, verifyCreate, verifyUpdate, verifyDelete, Verifying
  <2>3. a.live \in DOMAIN chan /\ ReadsBack(a.id, chan[a.live])
    BY <1>5, <2>2 DEF Verdict
  <2>4. QED
    BY <2>1, <2>3 DEF ReadsBack
<1>8. ASSUME a.type = "delete"
      PROVE  ~Listed(a.id)
  <2>1. Verified(r, IF Listed(a.id) THEN "applied-with-drift" ELSE "ok")
    BY <1>8 DEF Checked, verifyCreate, verifyUpdate, verifyDelete, Verifying
  <2>2. QED
    BY <1>5, <2>1 DEF Verdict
<1> HIDE DEF a
<1>9. UpdatesLeft(r)'
  <2> SUFFICES ASSUME NEW k \in Keys, NEW i \in DOMAIN chan,
                      chan[i].name = Desired[k].name, chan[i].main # Desired[k].main, ~Twin(i)
               PROVE  Waits(r, "update", k)'
    BY <1>1 DEF UpdatesLeft, Twin
  <2>1. Waits(r, "update", k)
    BY DEF UpdatesLeft
  <2>2. a.type = "update" => a.id # k
    <3>1. SUFFICES ASSUME a.type = "update", a.id = k PROVE FALSE
      OBVIOUS
    <3>2. /\ a.live \in DOMAIN chan /\ chan[a.live].name = chan[i].name
          /\ chan[a.live].main = Desired[k].main
      BY <1>7, <3>1
    <3>3. a.live # i
      BY <3>2
    <3>4. QED
      BY <3>2, <3>3 DEF Twin
  <2>3. QED
    BY <1>4, <2>1, <2>2
<1>10. CreatesLeft(r)'
  <2> SUFFICES ASSUME NEW k \in Keys, ~Listed(Desired[k].name), ~Mistakable(r, k)
               PROVE  Waits(r, "create", k)'
    BY <1>1, <1>2 DEF CreatesLeft, Listed, Mistakable
  <2>1. Waits(r, "create", k)
    BY DEF CreatesLeft
  <2>2. QED
    BY <1>4, <1>6, <2>1
<1>11. DeletesLeft(r)'
  <2> SUFFICES ASSUME opts[r].prune, NEW i \in DOMAIN chan,
                      chan[i].name \notin DesiredNames, ~chan[i].used, ~BilledTwin(i),
                      NEW n, n = chan[i].name
               PROVE  Waits(r, "delete", n)'
    BY <1>1, <1>2 DEF DeletesLeft, BilledTwin, DesiredNames, Waits
  <2>1. Waits(r, "delete", n)
    BY DEF DeletesLeft
  <2>2. a.type = "delete" => a.id # n
    BY <1>8 DEF Listed
  <2>3. QED
    BY <1>4, <2>1, <2>2
<1>12. QED
  BY <1>9, <1>10, <1>11

LEMMA OwnSettles ==
  ASSUME ChannelAssumption, OneEntryPerName, ChannelInv, ChannelInv', NEW r \in Runs,
         SnapIsTable(r), Settling(r), Step(r) \/ Die(r)
  PROVE  Settling(r)'
<1> SUFFICES ASSUME Clean(r)', ~PlanChannels(r)
             PROVE  (UpdatesLeft(r) /\ CreatesLeft(r) /\ DeletesLeft(r))'
  BY PlanSettles DEF Settling, ChannelInv
<1>1. /\ BaseInv /\ QueueInv(r) /\ opts' = opts /\ left' = left
      /\ Applied(r) \/ Dropped(r) \/ Checked(r) \/ Ended(r)
  BY OwnSteps DEF ChannelInv, BaseInv
<1>2. quiet'[r] /\ quiet[r] /\ phase'[r] # "crashed" /\ ~Dropped(r)
  <2>1. quiet'[r] /\ phase'[r] # "crashed" /\ report'[r].failed = 0
    BY DEF Clean
  <2>2. QED
    BY <2>1, OwnTable DEF Dropped
<1>3. report[r].failed = 0 /\ report[r].driftWarnings = 0
  <2>1. AnyStep(r) /\ Running(r)
    <3>1. AnyStep(r)
      BY ChannelAssumption, StepAdvances DEF ChannelInv, Advances
    <3>2. Running(r)
      BY <1>1, <1>2, VerifiedTail DEF Applied, Ended, Running
    <3>3. QED
      BY <3>1, <3>2
  <2>2. QED
    BY <1>1, <2>1, OrchestratorAssumption, OutcomesStay DEF Clean, BaseInv
<1>4. phase[r] \notin {"idle", "crashed"}
  BY <1>1, <1>2, VerifiedTail DEF Applied, Ended
<1>5. UpdatesLeft(r) /\ CreatesLeft(r) /\ DeletesLeft(r)
  <2>1. Clean(r)
    BY <1>1, <1>2, <1>3, <1>4 DEF Clean
  <2>2. QED
    BY <2>1 DEF Settling
<1>6. CASE Applied(r)
  BY <1>2, <1>5, <1>6, SendSettles
<1>7. CASE Checked(r)
  <2>1. report'[r].driftWarnings = 0
    BY DEF Clean
  <2>2. QED
    BY <1>5, <1>7, <2>1, VerifySettles
<1>8. CASE Ended(r)
  <2>1. queue[r] = <<>> /\ queue'[r] = <<>> /\ chan' = chan /\ phase'[r] # "verify"
    BY <1>1, <1>2, <1>3, <1>8 DEF Ended, Still, QueueInv
  <2>2. \A t, x : Waits(r, t, x) <=> Waits(r, t, x)'
    BY <2>1 DEF Waits
  <2>3. UpdatesLeft(r)' /\ CreatesLeft(r)'
    BY <1>1, <1>5, <2>1, <2>2 DEF UpdatesLeft, CreatesLeft, Twin, Listed, Mistakable
  <2>4. DeletesLeft(r)'
    BY <1>1, <1>5, <2>1 DEF DeletesLeft, BilledTwin, DesiredNames, Waits
  <2>5. QED
    BY <2>3, <2>4
<1>9. QED
  BY <1>1, <1>2, <1>6, <1>7, <1>8

LEMMA SettlingKept ==
  ASSUME ChannelAssumption, OneEntryPerName, \A o \in Options : Selected(o) # {},
         ChannelInv, ChannelInv', [Next]_vars, NEW r \in Runs, SnapIsTable(r), Settling(r)
  PROVE  Settling(r)'
<1> SUFFICES ASSUME Clean(r)' PROVE Settling(r)'
  BY DEF Settling
<1>0. BaseInv /\ quiet'[r]
  BY DEF ChannelInv, Clean
<1>1. ASSUME NEW o \in Options, StartSync(r, o)
      PROVE  FALSE
  <2>1. left'[r] = Selected(o)
    BY <1>0, <1>1 DEF StartSync, Start, BaseInv, OrchIInv, OrchTypeOK
  <2>2. QED
    BY <2>1 DEF Clean
<1>2. ASSUME quiet[r], chan' = chan, Same(r), queue'[r] = queue[r]
      PROVE  Settling(r)'
  <2>1. Clean(r)
    BY <1>2 DEF Clean, Same
  <2>2. UpdatesLeft(r) /\ CreatesLeft(r) /\ DeletesLeft(r)
    BY <2>1 DEF Settling
  <2>3. \A t, x : Waits(r, t, x) <=> Waits(r, t, x)'
    BY <1>2 DEF Waits
  <2>4. UpdatesLeft(r)' /\ CreatesLeft(r)'
    BY <1>2, <2>2, <2>3 DEF UpdatesLeft, CreatesLeft, Twin, Listed, Mistakable, Same
  <2>5. DeletesLeft(r)'
    BY <1>2, <2>2 DEF DeletesLeft, BilledTwin, DesiredNames, Waits, Same
  <2>6. QED
    BY <2>4, <2>5 DEF Settling
<1>3. QED
  BY <1>0, <1>1, <1>2, QuietMeansAlone, OwnSettles

\* Inductive invariant behind CleanRunConverges.
SettleInv == ChannelInv /\ \A r \in Runs : SnapIsTable(r) /\ Settling(r)

\* Where each display name is asked for once and every command line selects the
\* channels: a run that has read the table and ends, undisturbed, without a failure
\* and without drift has every entry's channel there as far as Verify reads it back,
\* and has pruned what it should - whatever failed, was lost, refused or ignored.
THEOREM CleanRunsConverge ==
  ASSUME OneEntryPerName, \A o \in Options : Selected(o) # {}
  PROVE  Spec => []CleanRunConverges
<1>1. Init /\ ChannelInv => SettleInv
  <2>1. Init => \A r \in Runs : quiet[r] = FALSE
    BY DEF Init
  <2>2. QED
    BY <2>1 DEF SettleInv, SnapIsTable, Settling, Clean
<1>2. ASSUME ChannelInv, ChannelInv', SettleInv, [Next]_vars
      PROVE  SettleInv'
  <2>1. \A r \in Runs : SnapIsTable(r)' /\ Settling(r)'
    BY <1>2, ChannelAssumption, SnapKept, SettlingKept DEF SettleInv, ChannelInv
  <2>2. QED
    BY <1>2, <2>1 DEF SettleInv
<1>3. SettleInv => CleanRunConverges
  <2> SUFFICES ASSUME SettleInv, NEW r \in Runs, phase[r] \in {"done", "exited"},
                      quiet[r], ~opts[r].dryRun, UniqueNames(chan),
                      report[r].failed = 0, report[r].driftWarnings = 0
               PROVE  /\ \A k \in Keys :
                           /\ Listed(Desired[k].name) \/ Mistakable(r, k)
                           /\ \A i \in DOMAIN chan :
                                chan[i].name = Desired[k].name => chan[i].main = Desired[k].main
                      /\ opts[r].prune => \A i \in DOMAIN chan :
                                            chan[i].name \in DesiredNames \/ chan[i].used
    BY DEF CleanRunConverges
  <2>1. BaseInv /\ QueueInv(r) /\ Settling(r)
    BY DEF SettleInv, ChannelInv, BaseInv
  <2>2. Clean(r) /\ queue[r] = <<>>
    BY <2>1, ChannelAssumption, OneReconciler DEF Clean, QueueInv
  <2>3. \A t, x : ~Waits(r, t, x)
    BY <2>2 DEF Waits
  <2>4. UpdatesLeft(r) /\ CreatesLeft(r) /\ DeletesLeft(r)
    BY <2>1, <2>2 DEF Settling
  <2>5. \A i \in DOMAIN chan : ~Twin(i) /\ ~BilledTwin(i)
    BY DEF Twin, BilledTwin, UniqueNames
  <2>6. QED
    BY <2>3, <2>4, <2>5 DEF UpdatesLeft, CreatesLeft, DeletesLeft
<1>4. QED
  BY <1>1, <1>2, <1>3, ChannelInvariant, PTL DEF Spec
=============================================================================
