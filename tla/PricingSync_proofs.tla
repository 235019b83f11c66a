------------------------- MODULE PricingSync_proofs -------------------------
(***************************************************************************)
(* The pricing reconciler's safety properties for every registry, every    *)
(* content of New-API's options to start with, any number of processes,    *)
(* every failed read, refused put and lost answer, and whatever operators  *)
(* save meanwhile.                                                         *)
(***************************************************************************)
EXTENDS PricingSync, SyncOrchestrator_proofs

-----------------------------------------------------------------------------
(* Prices.                                                                 *)

OptionValue == PriceMap \cup {Garbage}

LEMMA PriceMapFacts ==
  ASSUME NEW map \in PriceMap
  PROVE  /\ DOMAIN map \subseteq Models /\ \A m \in DOMAIN map : map[m] \in Prices
BY DEF PriceMap

LEMMA NoPricesTyped == NoPrices \in PriceMap /\ DOMAIN NoPrices = {}
<1>1. {} \in SUBSET Models /\ <<>> \in [{} -> Prices] /\ DOMAIN <<>> = {}
  OBVIOUS
<1>2. QED
  BY <1>1 DEF PriceMap, NoPrices

LEMMA ParseFacts ==
  ASSUME NEW value \in OptionValue
  PROVE  Parse(value) \in PriceMap
BY NoPricesTyped DEF OptionValue, Parse

LEMMA NoOptionsTyped ==
  /\ NoOptions \in [Keys -> OptionValue]
  /\ \A k \in Keys : NoOptions[k] = NoPrices
BY NoPricesTyped DEF NoOptions, OptionValue

LEMMA NoPricesParse == PricingAssumption => Parse(NoPrices) = NoPrices
BY DEF Parse

\* Merging keeps the type, puts every price of the registry, and leaves what the
\* registry does not name as it was read.
LEMMA MergeFacts ==
  ASSUME PricingAssumption, NEW k \in Keys, NEW current \in PriceMap
  PROVE  /\ Merge(k, current) \in PriceMap /\ Covers(k, Merge(k, current))
         /\ DOMAIN Merge(k, current) = DOMAIN Desired[k] \cup DOMAIN current
         /\ \A m \in DOMAIN current \ DOMAIN Desired[k] : Merge(k, current)[m] = current[m]
<1> DEFINE new == Merge(k, current)
<1>1. Desired[k] \in PriceMap
  BY DEF PricingAssumption
<1>2. /\ DOMAIN Desired[k] \subseteq Models /\ \A m \in DOMAIN Desired[k] : Desired[k][m] \in Prices
      /\ DOMAIN current \subseteq Models /\ \A m \in DOMAIN current : current[m] \in Prices
  BY <1>1, PriceMapFacts
<1>3. /\ DOMAIN new = DOMAIN Desired[k] \cup DOMAIN current
      /\ new = [m \in DOMAIN new |-> new[m]]
      /\ \A m \in DOMAIN Desired[k] : new[m] = Desired[k][m]
      /\ \A m \in DOMAIN current \ DOMAIN Desired[k] : new[m] = current[m]
  BY DEF Merge
<1> HIDE DEF new
<1>4. new \in [DOMAIN new -> Prices] /\ DOMAIN new \in SUBSET Models
  BY <1>2, <1>3
<1>5. new \in PriceMap
  BY <1>4 DEF PriceMap
<1>6. Covers(k, new)
  BY <1>3 DEF Covers
<1>7. QED
  BY <1>3, <1>5, <1>6 DEF new

LEMMA KeysFinite ==
  ASSUME PricingAssumption
  PROVE  IsFiniteSet(Keys)
<1>1. ratioKeys \in Seq(STRING) /\ Len(ratioKeys) \in Nat /\ DOMAIN ratioKeys = 1 .. Len(ratioKeys)
  BY LenProperties DEF PricingAssumption
<1>2. IsFiniteSet(1 .. Len(ratioKeys))
  BY <1>1, FS_Interval
<1> DEFINE f == [i \in DOMAIN ratioKeys |-> ratioKeys[i]]
<1>3. f \in Surjection(DOMAIN ratioKeys, Keys)
  BY DEF Surjection, Keys
<1>4. QED
  BY <1>1, <1>2, <1>3, FS_Surjection

\* A plan names every option that is due, and options only.
LEMMA PlansFacts ==
  ASSUME PricingAssumption, NEW read, NEW acts \in Plans(read)
  PROVE  acts \in Seq(Keys) /\ Len(acts) \in Nat /\ Lists(acts, Due(read))
<1>1. Due(read) \subseteq Keys
  BY DEF Due
<1>2. IsFiniteSet(Due(read)) /\ acts \in SetToSeqs(Due(read))
  BY <1>1, KeysFinite, FS_Subset DEF Plans
<1>3. /\ acts \in Seq(Due(read)) /\ Len(acts) \in Nat
      /\ \A x \in Due(read) : \E i \in DOMAIN acts : acts[i] = x
  BY <1>2, SeqsOfSet
<1>4. acts \in Seq(Keys)
  BY <1>1, <1>3, SeqMonotonic
<1>5. QED
  BY <1>3, <1>4 DEF Lists

-----------------------------------------------------------------------------
(* Types, the queue as the orchestrator's pending actions, and what a map  *)
(* that waits to be put is.                                                *)

QueueInv(r) ==
  phase[r] \in {"apply", "verify"} => Len(queue[r]) = pending[r] /\ pending[r] > 0

\* A map waits only for the option at the head of a plan being applied, and has
\* every price the registry wants there.
MergedInv(r) ==
  merged[r] # Unread => phase[r] = "apply" /\ Covers(Head(queue[r]), merged[r])

PricingTyped ==
  /\ option \in [Keys -> OptionValue]
  /\ snap \in [Runs -> [Keys -> OptionValue]]
  /\ queue \in [Runs -> Seq(Keys)]
  /\ merged \in [Runs -> PriceMap \cup {Unread}]
  /\ quiet \in [Runs -> BOOLEAN]

\* Inductive invariant behind the type invariant.
BaseInv == OrchIInv /\ PricingTyped /\ \A r \in Runs : QueueInv(r) /\ MergedInv(r)

LEMMA BaseIsTyped == BaseInv => TypeOK
BY DEF BaseInv, OrchIInv, PricingTyped, QueueInv, TypeOK, OptionValue

\* The option at the head of a queue being worked through.
LEMMA HeadFacts ==
  ASSUME BaseInv, NEW r \in Runs, phase[r] \in {"apply", "verify"}
  PROVE  /\ Head(queue[r]) \in Keys /\ Tail(queue[r]) \in Seq(Keys)
         /\ Len(Tail(queue[r])) = pending[r] - 1 /\ pending[r] \in Nat \ {0}
         /\ Len(queue[r]) = pending[r] /\ queue[r] \in Seq(Keys)
<1>1. /\ Len(queue[r]) = pending[r] /\ pending[r] > 0 /\ pending[r] \in Nat
      /\ queue[r] \in Seq(Keys)
  BY DEF BaseInv, PricingTyped, QueueInv, OrchIInv, OrchTypeOK
<1>2. QED
  BY <1>1, TailFacts

\* What a failed or an answered read gives: an option's value, or none.
LEMMA ReadFacts ==
  ASSUME PricingTyped, NEW read \in OptionsRead
  PROVE  read \in [Keys -> OptionValue] /\ read \in {option, NoOptions}
BY NoOptionsTyped DEF OptionsRead, PricingTyped

-----------------------------------------------------------------------------
(* What a step does to the options, and that it keeps the types.           *)

Still == UNCHANGED <<option, quiet>>

\* The map at hand is put.
Puts(r) ==
  /\ phase[r] = "apply" /\ merged[r] # Unread
  /\ option' = [option EXCEPT ![Head(queue[r])] = merged[r]]
  /\ quiet' = [s \in Runs |-> quiet[s] /\ s = r]

\* What every step of a run but its start has in common.
Advances(r) ==
  /\ AnyStep(r) \/ UNCHANGED orchVars
  /\ opts' = opts
  /\ Still \/ Puts(r)
  /\ snap' \in [Runs -> [Keys -> OptionValue]] /\ queue' \in [Runs -> Seq(Keys)]
  /\ merged' \in [Runs -> PriceMap \cup {Unread}]
  /\ \A s \in Runs \ {r} : queue'[s] = queue[s] /\ snap'[s] = snap[s] /\ merged'[s] = merged[s]
  /\ QueueInv(r)' /\ MergedInv(r)'

LEMMA PlanAdvances ==
  ASSUME PricingAssumption, BaseInv, NEW r \in Runs, PlanPricing(r)
  PROVE  /\ Advances(r) /\ Still /\ merged' = merged
         /\ phase[r] = "plan" /\ left'[r] = {} /\ 1 \in left[r]
         /\ \E acts \in Plans(snap[r]) : \/ acts = <<>> /\ phase'[r] = "plan"
                                         \/ opts[r].dryRun
                                         \/ phase'[r] = "apply" /\ queue'[r] = acts
<1>1. /\ PricingTyped /\ OrchTypeOK /\ QueueInv(r) /\ MergedInv(r)
      /\ phase \in [Runs -> Phase] /\ pending \in [Runs -> Nat]
      /\ left \in [Runs -> SUBSET Position] /\ cur \in [Runs -> 0 .. Len(Order)]
  BY DEF BaseInv, OrchIInv, OrchTypeOK
<1>2. PICK acts \in Plans(snap[r]) :
        /\ PlanReturns(r, Len(acts))
        /\ queue' = [queue EXCEPT ![r] = IF opts[r].dryRun THEN <<>> ELSE acts]
        /\ snap' = [snap EXCEPT ![r] = NoOptions]
        /\ UNCHANGED <<option, merged, quiet>>
  BY DEF PlanPricing
<1>3. acts \in Seq(Keys) /\ Len(acts) \in Nat /\ (Len(acts) = 0 => acts = <<>>)
  BY PlansFacts, EmptySeq
<1>4. AnyStep(r) /\ opts' = opts /\ phase[r] = "plan"
  BY <1>2, <1>3 DEF AnyStep, PlanReturns, TakeNext
<1>5. Position = {1}
  <2>1. Order = <<"pricing">>
    BY DEF PricingAssumption
  <2>2. Len(Order) = 1 /\ 1 .. 1 = {1}
    BY <2>1
  <2>3. QED
    BY <2>2 DEF Position
<1>6. left'[r] = {} /\ 1 \in left[r]
  <2>1. PICK i \in left[r] : left' = [left EXCEPT ![r] = @ \ {i}]
    BY <1>2 DEF PlanReturns, TakeNext
  <2>2. left[r] = {1} /\ i = 1
    BY <1>1, <1>5, <2>1
  <2>3. QED
    BY <1>1, <2>1, <2>2
<1>7. /\ queue' \in [Runs -> Seq(Keys)] /\ \A s \in Runs \ {r} : queue'[s] = queue[s]
      /\ queue'[r] = (IF opts[r].dryRun THEN <<>> ELSE acts)
  BY <1>1, <1>2, <1>3, EmptySeq DEF PricingTyped
<1>8. /\ snap' \in [Runs -> [Keys -> OptionValue]]
      /\ \A s \in Runs \ {r} : snap'[s] = snap[s]
  BY <1>1, <1>2, NoOptionsTyped DEF PricingTyped
<1>9. \/ Len(acts) = 0 /\ phase' = phase
      \/ opts[r].dryRun /\ phase' = phase
      \/ /\ Len(acts) > 0 /\ ~opts[r].dryRun
         /\ pending'[r] = Len(acts) /\ phase'[r] = "apply"
  BY <1>1, <1>2 DEF PlanReturns
<1>10. merged[r] = Unread /\ merged' = merged
  BY <1>1, <1>2, <1>4 DEF MergedInv
<1>11. QueueInv(r)' /\ MergedInv(r)'
  BY <1>4, <1>7, <1>9, <1>10 DEF QueueInv, MergedInv
<1>12. \/ acts = <<>> /\ phase'[r] = "plan"
       \/ opts[r].dryRun
       \/ phase'[r] = "apply" /\ queue'[r] = acts
  BY <1>3, <1>4, <1>7, <1>9
<1>13. Advances(r)
  BY <1>1, <1>2, <1>4, <1>7, <1>8, <1>10, <1>11 DEF Advances, Still, PricingTyped
<1>14. QED
  BY <1>2, <1>4, <1>6, <1>10, <1>12, <1>13 DEF Still

LEMMA ReadAdvances ==
  ASSUME PricingAssumption, BaseInv, NEW r \in Runs, ReadOption(r)
  PROVE  /\ Advances(r) /\ Still /\ UNCHANGED orchVars /\ queue' = queue /\ snap' = snap
         /\ merged[r] = Unread /\ phase[r] = "apply"
         /\ \E read \in OptionsRead :
              merged'[r] = Merge(Head(queue[r]), Parse(read[Head(queue[r])]))
<1>1. /\ PricingTyped /\ QueueInv(r) /\ phase[r] = "apply" /\ merged[r] = Unread
      /\ UNCHANGED orchVars /\ Still /\ queue' = queue /\ snap' = snap
  BY DEF BaseInv, ReadOption, Still
<1>2. PICK k \in Keys : k = Head(queue[r])
  BY <1>1, HeadFacts
<1>3. PICK read \in OptionsRead : merged' = [merged EXCEPT ![r] = Merge(k, Parse(read[k]))]
  BY <1>2 DEF ReadOption
<1>4. Parse(read[k]) \in PriceMap
  BY <1>1, ReadFacts, ParseFacts
<1>5. PICK new \in PriceMap : new = Merge(k, Parse(read[k])) /\ Covers(k, new)
  BY <1>4, MergeFacts
<1>6. /\ merged' \in [Runs -> PriceMap \cup {Unread}] /\ merged'[r] = new
      /\ \A s \in Runs \ {r} : merged'[s] = merged[s]
  BY <1>1, <1>3, <1>5 DEF PricingTyped
<1>7. QueueInv(r)' /\ MergedInv(r)'
  BY <1>1, <1>2, <1>5, <1>6 DEF QueueInv, MergedInv, orchVars
<1>8. Advances(r)
  BY <1>1, <1>6, <1>7 DEF Advances, PricingTyped, orchVars
<1>9. QED
  BY <1>1, <1>2, <1>5, <1>6, <1>8

\* The put was answered, or not: a success leaves the option at the head to be
\* verified, a failure drops it.
LEMMA SaveAdvances ==
  ASSUME PricingAssumption, BaseInv, NEW r \in Runs, SaveOption(r)
  PROVE  /\ Advances(r) /\ merged'[r] = Unread /\ snap' = snap
         /\ phase[r] = "apply" /\ left' = left
         /\ \/ /\ phase'[r] = "verify" /\ queue'[r] = queue[r] /\ Puts(r)
            \/ phase'[r] # "verify" /\ report'[r].failed > 0
<1>1. /\ PricingTyped /\ OrchTypeOK /\ QueueInv(r) /\ MergedInv(r)
      /\ phase[r] = "apply" /\ merged[r] # Unread
      /\ merged' = [merged EXCEPT ![r] = Unread] /\ queue' = DropFailed(r) /\ snap' = snap
      /\ report[r].failed \in Nat /\ report \in [Runs -> Report]
  BY ReportFields DEF BaseInv, SaveOption, OrchIInv, OrchTypeOK
<1>2. /\ Len(queue[r]) = pending[r] /\ pending[r] \in Nat \ {0}
      /\ Tail(queue[r]) \in Seq(Keys) /\ Len(Tail(queue[r])) = pending[r] - 1
  BY <1>1, HeadFacts
<1>3. /\ ApplySucceeds(r) \/ ApplyFails(r)
      /\ Still \/ Puts(r)
      /\ ApplySucceeds(r) => Puts(r) \/ ApplyFails(r)
  BY <1>1 DEF SaveOption, PutOption, Still, Puts
<1>4. AnyStep(r) /\ opts' = opts /\ left' = left
  BY <1>3 DEF AnyStep, ApplySucceeds, ApplyFails
<1>5. /\ merged' \in [Runs -> PriceMap \cup {Unread}] /\ merged'[r] = Unread
      /\ \A s \in Runs \ {r} : merged'[s] = merged[s]
  BY <1>1 DEF PricingTyped
<1>6. ASSUME ApplySucceeds(r), Puts(r)
      PROVE  /\ phase'[r] = "verify" /\ queue'[r] = queue[r]
             /\ queue' \in [Runs -> Seq(Keys)] /\ \A s \in Runs \ {r} : queue'[s] = queue[s]
             /\ QueueInv(r)'
  <2>1. phase'[r] = "verify" /\ pending' = pending
    BY <1>1, <1>6 DEF ApplySucceeds, OrchTypeOK
  <2>2. queue' = queue
    BY <1>1, <2>1 DEF DropFailed
  <2>3. QED
    BY <1>1, <1>2, <2>1, <2>2 DEF QueueInv, PricingTyped
<1>7. ASSUME ApplyFails(r)
      PROVE  /\ phase'[r] # "verify" /\ report'[r].failed > 0
             /\ queue' \in [Runs -> Seq(Keys)] /\ \A s \in Runs \ {r} : queue'[s] = queue[s]
             /\ QueueInv(r)'
  <2>1. phase'[r] = AfterFailure(r, NextAction(r)) /\ pending'[r] = pending[r] - 1
    BY <1>1, <1>7 DEF ApplyFails, OrchTypeOK
  <2>2. /\ phase'[r] \in {"done", "plan", "apply"}
        /\ phase'[r] = "apply" => pending[r] # 1
    BY <2>1 DEF AfterFailure, NextAction
  <2>3. /\ queue'[r] = Tail(queue[r]) /\ \A s \in Runs \ {r} : queue'[s] = queue[s]
        /\ queue' \in [Runs -> Seq(Keys)]
    BY <1>1, <1>2, <2>2 DEF DropFailed, PricingTyped
  <2>4. report'[r].failed > 0
    <3>1. Grows(r, 1, 0, 1, 0, 0)
      BY <1>1, <1>7, ReportGrows DEF ApplyFails
    <3>2. QED
      BY <1>1, <3>1 DEF Grows
  <2>5. QueueInv(r)'
    BY <1>2, <2>1, <2>2, <2>3 DEF QueueInv
  <2>6. QED
    BY <2>2, <2>3, <2>4, <2>5
<1>8. MergedInv(r)'
  BY <1>5 DEF MergedInv
<1>9. Advances(r)
  BY <1>1, <1>3, <1>4, <1>5, <1>6, <1>7, <1>8 DEF Advances, PricingTyped
<1>10. QED
  BY <1>1, <1>3, <1>4, <1>5, <1>6, <1>7, <1>9

\* Verify is through with the option at the head.
LEMMA VerifyAdvances ==
  ASSUME PricingAssumption, BaseInv, NEW r \in Runs, VerifyPricing(r)
  PROVE  /\ Advances(r) /\ Still /\ merged' = merged /\ snap' = snap /\ left' = left
         /\ phase[r] = "verify" /\ phase'[r] = NextAction(r) /\ queue'[r] = Tail(queue[r])
         /\ \E v \in Verdict :
              /\ VerifyReturns(r, v)
              /\ v = "ok" => /\ option[Head(queue[r])] # Garbage
                             /\ Covers(Head(queue[r]), option[Head(queue[r])])
<1>1. /\ PricingTyped /\ OrchTypeOK /\ QueueInv(r) /\ MergedInv(r) /\ phase[r] = "verify"
      /\ queue' = [queue EXCEPT ![r] = Tail(queue[r])] /\ Still /\ merged' = merged /\ snap' = snap
  BY DEF BaseInv, VerifyPricing, OrchIInv, Still
<1>2. PICK k : k = Head(queue[r])
  OBVIOUS
<1>3. PICK s \in {"ok", "applied-with-drift"} :
        /\ s = "ok" <=> option[k] # Garbage /\ Covers(k, option[k])
        /\ VerifyReturns(r, s) \/ VerifyReturns(r, "unverified")
  BY <1>2 DEF VerifyPricing
<1>4. PICK v \in Verdict :
        VerifyReturns(r, v) /\ (v = "ok" => option[k] # Garbage /\ Covers(k, option[k]))
  BY <1>3 DEF Verdict
<1>5. /\ phase'[r] = NextAction(r) /\ pending'[r] = pending[r] - 1
      /\ left' = left /\ opts' = opts /\ AnyStep(r)
  BY <1>1, <1>4 DEF VerifyReturns, OrchTypeOK, AnyStep
<1>6. /\ Len(queue[r]) = pending[r] /\ pending[r] \in Nat \ {0}
      /\ Tail(queue[r]) \in Seq(Keys) /\ Len(Tail(queue[r])) = pending[r] - 1
  BY <1>1, HeadFacts
<1>7. /\ queue'[r] = Tail(queue[r]) /\ \A q \in Runs \ {r} : queue'[q] = queue[q]
      /\ queue' \in [Runs -> Seq(Keys)]
  BY <1>1, <1>6 DEF PricingTyped
<1>8. phase'[r] \in {"plan", "apply"} /\ (phase'[r] = "apply" => pending[r] # 1)
  BY <1>5 DEF NextAction
<1>9. QueueInv(r)'
  BY <1>5, <1>6, <1>7, <1>8 DEF QueueInv
<1>10. MergedInv(r)'
  BY <1>1 DEF MergedInv
<1>11. Advances(r)
  BY <1>1, <1>5, <1>7, <1>9, <1>10 DEF Advances, PricingTyped
<1>12. QED
  BY <1>1, <1>2, <1>4, <1>5, <1>7, <1>11

LEMMA EndAdvances ==
  ASSUME BaseInv, NEW r \in Runs, Finish(r) \/ Die(r)
  PROVE  /\ Advances(r) /\ Still /\ merged'[r] = Unread /\ left' = left
         /\ phase'[r] \in {"done", "exited", "crashed"}
         /\ phase[r] \notin {"apply", "verify"} \/ phase'[r] = "crashed"
<1>1. PricingTyped /\ phase \in [Runs -> Phase]
  BY DEF BaseInv, OrchIInv, OrchTypeOK
<1>2. AnyStep(r) /\ opts' = opts /\ Still /\ left' = left
  BY DEF Finish, Die, Ending, AnyStep, Still, Return, Exit, Crash
<1>3. /\ snap' = [snap EXCEPT ![r] = NoOptions] /\ queue' = [queue EXCEPT ![r] = <<>>]
      /\ merged' = [merged EXCEPT ![r] = Unread]
  BY DEF Finish, Die, Ending
<1>4. /\ snap' \in [Runs -> [Keys -> OptionValue]] /\ queue' \in [Runs -> Seq(Keys)]
      /\ merged' \in [Runs -> PriceMap \cup {Unread}] /\ merged'[r] = Unread
      /\ \A s \in Runs \ {r} : queue'[s] = queue[s] /\ snap'[s] = snap[s] /\ merged'[s] = merged[s]
  BY <1>1, <1>3, EmptySeq, NoOptionsTyped DEF PricingTyped
<1>5. /\ phase'[r] \in {"done", "exited", "crashed"}
      /\ phase[r] \notin {"apply", "verify"} \/ phase'[r] = "crashed"
  BY <1>1 DEF Finish, Die, Return, Exit, Crash
<1>6. QED
  BY <1>2, <1>4, <1>5 DEF Advances, QueueInv, MergedInv

LEMMA StepAdvances ==
  ASSUME PricingAssumption, BaseInv, NEW r \in Runs, Step(r) \/ Die(r)
  PROVE  Advances(r)
BY PlanAdvances, ReadAdvances, SaveAdvances, VerifyAdvances, EndAdvances DEF Step

\* The start of a run.
LEMMA StartFacts ==
  ASSUME PricingAssumption, BaseInv, NEW r \in Runs, NEW o \in Options, StartSync(r, o)
  PROVE  /\ AnyStep(r) /\ option' = option /\ merged'[r] = Unread
         /\ snap' \in [Runs -> [Keys -> OptionValue]] /\ queue' \in [Runs -> Seq(Keys)]
         /\ merged' \in [Runs -> PriceMap \cup {Unread}] /\ quiet' \in [Runs -> BOOLEAN]
         /\ \A s \in Runs \ {r} : /\ queue'[s] = queue[s] /\ snap'[s] = snap[s]
                                  /\ merged'[s] = merged[s] /\ quiet'[s] = quiet[s]
         /\ QueueInv(r)' /\ MergedInv(r)'
         /\ phase'[r] = "plan" /\ left'[r] # {} /\ snap'[r] \in {option, NoOptions}
<1>1. PricingTyped /\ OrchTypeOK
  BY DEF BaseInv, OrchIInv
<1>2. AnyStep(r) /\ option' = option
  BY DEF StartSync, AnyStep
<1>3. phase'[r] = "plan" /\ left'[r] = Selected(o) /\ Selected(o) # {}
  BY <1>1 DEF StartSync, Start, OrchTypeOK, PricingAssumption
<1>4. PICK read \in OptionsRead : snap' = [snap EXCEPT ![r] = read]
  BY DEF StartSync
<1>5. /\ snap' \in [Runs -> [Keys -> OptionValue]] /\ snap'[r] \in {option, NoOptions}
      /\ \A s \in Runs \ {r} : snap'[s] = snap[s]
  BY <1>1, <1>4, ReadFacts DEF PricingTyped
<1>6. /\ queue' \in [Runs -> Seq(Keys)] /\ merged' \in [Runs -> PriceMap \cup {Unread}]
      /\ quiet' \in [Runs -> BOOLEAN] /\ merged'[r] = Unread
      /\ \A s \in Runs \ {r} : /\ queue'[s] = queue[s] /\ merged'[s] = merged[s]
                               /\ quiet'[s] = quiet[s]
  BY <1>1, EmptySeq DEF StartSync, PricingTyped
<1>7. QED
  BY <1>2, <1>3, <1>5, <1>6 DEF QueueInv, MergedInv

LEMMA SameKeepsQueue ==
  ASSUME NEW s \in Runs, QueueInv(s), MergedInv(s), Same(s),
         queue'[s] = queue[s], merged'[s] = merged[s]
  PROVE  QueueInv(s)' /\ MergedInv(s)'
BY DEF QueueInv, MergedInv, Same

\* A put writes a map of prices to one option.
LEMMA PutsFacts ==
  ASSUME PricingAssumption, BaseInv, NEW r \in Runs, Puts(r)
  PROVE  /\ Head(queue[r]) \in Keys /\ option' \in [Keys -> OptionValue]
         /\ option'[Head(queue[r])] = merged[r] /\ merged[r] # Garbage
         /\ Covers(Head(queue[r]), merged[r])
         /\ \A k \in Keys \ {Head(queue[r])} : option'[k] = option[k]
         /\ quiet' \in [Runs -> BOOLEAN]
<1>1. /\ PricingTyped /\ MergedInv(r) /\ phase[r] = "apply" /\ merged[r] # Unread
      /\ option' = [option EXCEPT ![Head(queue[r])] = merged[r]]
      /\ quiet' = [s \in Runs |-> quiet[s] /\ s = r]
  BY DEF BaseInv, Puts
<1>2. PICK k \in Keys : k = Head(queue[r])
  BY <1>1, HeadFacts
<1>3. merged[r] \in PriceMap /\ merged[r] # Garbage
  BY <1>1 DEF PricingTyped, PricingAssumption
<1>4. quiet' \in [Runs -> BOOLEAN]
  BY <1>1, Zenon DEF PricingTyped
<1>5. QED
  BY <1>1, <1>2, <1>3, <1>4 DEF PricingTyped, MergedInv, OptionValue

LEMMA BaseKept ==
  ASSUME PricingAssumption, BaseInv, [Next]_vars
  PROVE  BaseInv'
<1> USE OrchestratorAssumption
<1>1. /\ OrchIInv /\ PricingTyped /\ \A s \in Runs : QueueInv(s) /\ MergedInv(s)
  BY DEF BaseInv
<1>2. ASSUME NEW r \in Runs, AnyStep(r), QueueInv(r)', MergedInv(r)',
             \A s \in Runs \ {r} : queue'[s] = queue[s] /\ merged'[s] = merged[s]
      PROVE  OrchIInv' /\ \A s \in Runs : QueueInv(s)' /\ MergedInv(s)'
  <2>1. OrchIInv' /\ \A s \in Runs \ {r} : Same(s)
    BY <1>1, <1>2, StepKeeps, StepOfOneRun
  <2>2. \A s \in Runs \ {r} : QueueInv(s)' /\ MergedInv(s)'
    BY <1>1, <1>2, <2>1, SameKeepsQueue
  <2>3. QED
    BY <1>2, <2>1, <2>2
<1>3. ASSUME UNCHANGED orchVars
      PROVE  OrchIInv' /\ \A s \in Runs : Same(s)
  <2>1. OrchIInv'
    BY <1>1, <1>3, StutterKeeps
  <2>2. QED
    BY <1>3, <2>1 DEF Same, orchVars
<1>4. ASSUME NEW r \in Runs, Step(r) \/ Die(r)
      PROVE  BaseInv'
  <2>1. Advances(r)
    BY <1>4, StepAdvances
  <2>2. option' \in [Keys -> OptionValue] /\ quiet' \in [Runs -> BOOLEAN]
    BY <1>1, <2>1, PutsFacts DEF Advances, Still, PricingTyped
  <2>3. OrchIInv' /\ \A s \in Runs : QueueInv(s)' /\ MergedInv(s)'
    <3>1. CASE AnyStep(r)
      BY <1>2, <2>1, <3>1 DEF Advances
    <3>2. CASE UNCHANGED orchVars
      BY <1>1, <1>3, <2>1, <3>2, SameKeepsQueue DEF Advances
    <3>3. QED
      BY <2>1, <3>1, <3>2 DEF Advances
  <2>4. QED
    BY <2>1, <2>2, <2>3 DEF BaseInv, Advances, PricingTyped
<1>5. ASSUME NEW r \in Runs, NEW o \in Options, StartSync(r, o)
      PROVE  BaseInv'
  <2>1. /\ AnyStep(r) /\ option' = option
        /\ snap' \in [Runs -> [Keys -> OptionValue]] /\ queue' \in [Runs -> Seq(Keys)]
        /\ merged' \in [Runs -> PriceMap \cup {Unread}] /\ quiet' \in [Runs -> BOOLEAN]
        /\ QueueInv(r)' /\ MergedInv(r)'
        /\ \A s \in Runs \ {r} : queue'[s] = queue[s] /\ merged'[s] = merged[s]
    BY <1>5, StartFacts
  <2>2. OrchIInv' /\ \A s \in Runs : QueueInv(s)' /\ MergedInv(s)'
    BY <1>2, <2>1
  <2>3. QED
    BY <1>1, <2>1, <2>2 DEF BaseInv, PricingTyped
<1>6. ASSUME NEW k \in Keys, NEW value \in PriceMap, OperatorSaves(k, value)
      PROVE  BaseInv'
  <2>1. /\ UNCHANGED orchVars /\ snap' = snap /\ queue' = queue /\ merged' = merged
        /\ option' = [option EXCEPT ![k] = value] /\ quiet' = [r \in Runs |-> FALSE]
    BY <1>6 DEF OperatorSaves
  <2>2. PricingTyped'
    BY <1>1, <2>1 DEF PricingTyped, OptionValue
  <2>3. OrchIInv' /\ \A s \in Runs : QueueInv(s)' /\ MergedInv(s)'
    BY <1>1, <1>3, <2>1, SameKeepsQueue
  <2>4. QED
    BY <2>2, <2>3 DEF BaseInv
<1>7. CASE UNCHANGED vars
  <2>1. UNCHANGED orchVars /\ UNCHANGED <<option, snap, queue, merged, quiet>>
    BY <1>7 DEF vars, pricingVars
  <2>2. OrchIInv' /\ \A s \in Runs : QueueInv(s)' /\ MergedInv(s)'
    BY <1>1, <1>3, <2>1, SameKeepsQueue
  <2>3. QED
    BY <1>1, <2>1, <2>2 DEF BaseInv, PricingTyped
<1>8. QED
  BY <1>4, <1>5, <1>6, <1>7 DEF Next

LEMMA PricingInitBase == Init => BaseInv
<1> SUFFICES ASSUME Init PROVE BaseInv
  OBVIOUS
<1>1. OrchIInv
  BY OrchestratorAssumption, InitHolds DEF Init
<1>2. PricingTyped
  BY EmptySeq, NoOptionsTyped DEF Init, PricingTyped, OptionValue
<1>3. \A r \in Runs : QueueInv(r) /\ MergedInv(r)
  BY DEF Init, OrchInit, QueueInv, MergedInv
<1>4. QED
  BY <1>1, <1>2, <1>3 DEF BaseInv

\* The inductive invariant behind the types: the orchestrator's own, for plans of
\* any length, the queue as its pending actions spelt out, and a map that waits to
\* be put covering the option it is for.
THEOREM PricingBase == Spec => []BaseInv
<1>1. Init => BaseInv
  BY PricingInitBase
<1>2. BaseInv /\ [Next]_vars => BaseInv'
  BY PricingAssumption, BaseKept
<1>3. QED
  BY <1>1, <1>2, PTL DEF Spec

\* Every state is well typed: the options and what was read of them are maps of
\* prices or garbage, and no action of a plan is lost or done twice when a put
\* fails.
THEOREM PricingTypeCorrect == Spec => []TypeOK
BY PricingBase, BaseIsTyped, PTL

\* Every step is one of the orchestrator's, or none of it.
LEMMA StepOfRuns ==
  ASSUME PricingAssumption, BaseInv, [Next]_vars
  PROVE  (\E r \in Runs : AnyStep(r)) \/ UNCHANGED orchVars
<1> USE OrchestratorAssumption
<1>1. ASSUME NEW r \in Runs, Step(r) \/ Die(r)
      PROVE  AnyStep(r) \/ UNCHANGED orchVars
  BY <1>1, StepAdvances DEF Advances
<1>2. ASSUME NEW r \in Runs, NEW o \in Options, StartSync(r, o)
      PROVE  AnyStep(r)
  BY <1>2, StartFacts DEF BaseInv
<1>3. ASSUME NEW k \in Keys, NEW value \in PriceMap, OperatorSaves(k, value)
      PROVE  UNCHANGED orchVars
  BY <1>3 DEF OperatorSaves
<1>4. ASSUME UNCHANGED vars
      PROVE  UNCHANGED orchVars
  BY <1>4 DEF vars
<1>5. QED
  BY <1>1, <1>2, <1>3, <1>4 DEF Next

\* Fail-fast, dependency order, dry runs, the counters of the report and the
\* meaning of exit code 0 are as proved of the orchestrator in runs of
\* the pricing reconciler, whatever the upstream answers and whoever else is at work.
THEOREM PricingRunsKeepOrder ==
  Spec => [](/\ FailFastStops /\ DependencyOrder /\ DryRunOnlyPlans
             /\ ReportAddsUp /\ CountersMatchResults /\ ZeroExitMeansNoFailure)
<1>1. Init => CountersMatchResults
  BY CountsAtStart DEF Init
<1>2. BaseInv /\ CountersMatchResults /\ [Next]_vars => CountersMatchResults'
  BY PricingAssumption, OrchestratorAssumption, StepOfRuns, CountsKept DEF BaseInv
<1>3. Spec => []CountersMatchResults
  BY <1>1, <1>2, PricingBase, PTL DEF Spec
<1>4. BaseInv => /\ FailFastStops /\ DependencyOrder /\ DryRunOnlyPlans
                 /\ ReportAddsUp /\ ZeroExitMeansNoFailure
  BY ZeroExitFollows DEF BaseInv, OrchIInv
<1>5. QED
  BY <1>3, <1>4, PricingBase, PTL

-----------------------------------------------------------------------------
(* Prices that are right stay right.                                       *)

\* A process only ever writes options with the registry's prices in them.
LEMMA RightPricesStay ==
  ASSUME PricingAssumption, BaseInv, [Next]_vars, NEW k \in Keys, Covers(k, Parse(option[k]))
  PROVE  Covers(k, Parse(option'[k])) \/ UNCHANGED <<orchVars, merged>>
<1>1. ASSUME NEW r \in Runs, Step(r) \/ Die(r)
      PROVE  Covers(k, Parse(option'[k]))
  <2>1. Still \/ Puts(r)
    BY <1>1, StepAdvances DEF Advances
  <2>2. CASE Still
    BY <2>2 DEF Still
  <2>3. CASE Puts(r)
    BY <2>3, PutsFacts DEF Parse
  <2>4. QED
    BY <2>1, <2>2, <2>3
<1>2. ASSUME NEW r \in Runs, NEW o \in Options, StartSync(r, o)
      PROVE  Covers(k, Parse(option'[k]))
  BY <1>2, StartFacts
<1>3. ASSUME NEW j \in Keys, NEW value \in PriceMap, OperatorSaves(j, value)
      PROVE  UNCHANGED <<orchVars, merged>>
  BY <1>3 DEF OperatorSaves
<1>4. ASSUME UNCHANGED vars
      PROVE  UNCHANGED <<orchVars, merged>>
  BY <1>4 DEF vars, pricingVars
<1>5. QED
  BY <1>1, <1>2, <1>3, <1>4 DEF Next

\* Whatever a process has read, however long ago, its steps undo no price of the
\* registry that is in place: two syncs, or a sync and its own retry, cannot work
\* against each other.
THEOREM DesiredPricesAlwaysStay == Spec => DesiredPricesStay
<1>1. BaseInv /\ [Next]_vars =>
        \A k \in Keys : Covers(k, Parse(option[k])) => \/ Covers(k, Parse(option'[k]))
                                                       \/ UNCHANGED <<orchVars, merged>>
  BY PricingAssumption, RightPricesStay
<1>2. QED
  BY <1>1, PricingBase, PTL DEF Spec, DesiredPricesStay

-----------------------------------------------------------------------------
(* A run nobody has disturbed since its fetch.                             *)

\* What a step of another process leaves of a run.
Untouched(r) ==
  Same(r) /\ queue'[r] = queue[r] /\ snap'[r] = snap[r] /\ merged'[r] = merged[r]

LEMMA StepOfAnother ==
  ASSUME PricingAssumption, BaseInv, NEW r \in Runs, NEW s \in Runs \ {r},
         Step(s) \/ Die(s) \/ \E o \in Options : StartSync(s, o)
  PROVE  Untouched(r) /\ (quiet'[r] => quiet[r] /\ option' = option)
<1> USE OrchestratorAssumption
<1>1. CASE Step(s) \/ Die(s)
  <2>1. Advances(s)
    BY <1>1, StepAdvances
  <2>2. Same(r)
    <3>1. CASE AnyStep(s)
      BY <3>1, StepOfOneRun DEF BaseInv
    <3>2. CASE UNCHANGED orchVars
      BY <3>2 DEF Same, orchVars
    <3>3. QED
      BY <2>1, <3>1, <3>2 DEF Advances
  <2>3. QED
    BY <2>1, <2>2 DEF Advances, Still, Puts, Untouched
<1>2. ASSUME NEW o \in Options, StartSync(s, o)
      PROVE  Untouched(r) /\ (quiet'[r] => quiet[r] /\ option' = option)
  <2>1. /\ AnyStep(s) /\ option' = option /\ quiet'[r] = quiet[r]
        /\ queue'[r] = queue[r] /\ snap'[r] = snap[r] /\ merged'[r] = merged[r]
    BY <1>2, StartFacts
  <2>2. Same(r)
    BY <2>1, StepOfOneRun DEF BaseInv
  <2>3. QED
    BY <2>1, <2>2 DEF Untouched
<1>3. QED
  BY <1>1, <1>2

\* Only a run's own steps leave it undisturbed and change what it knows or plans.
LEMMA QuietMeansAlone ==
  ASSUME PricingAssumption, BaseInv, [Next]_vars, NEW r \in Runs, quiet'[r]
  PROVE  \/ Step(r) \/ Die(r) \/ \E o \in Options : StartSync(r, o)
         \/ quiet[r] /\ option' = option /\ Untouched(r)
<1>1. ASSUME NEW k \in Keys, NEW value \in PriceMap, OperatorSaves(k, value)
      PROVE  FALSE
  BY <1>1 DEF OperatorSaves
<1>2. ASSUME UNCHANGED vars
      PROVE  quiet[r] /\ option' = option /\ Untouched(r)
  BY <1>2 DEF vars, pricingVars, orchVars, Same, Untouched
<1>3. QED
  BY <1>1, <1>2, StepOfAnother DEF Next

\* Where a run is: there is one reconciler, so an action is at hand only after it
\* was planned.
LEMMA Place ==
  ASSUME PricingAssumption, BaseInv, NEW r \in Runs
  PROVE  /\ phase[r] \in {"apply", "verify"} => left[r] = {} /\ ~opts[r].dryRun
         /\ phase[r] \in {"done", "exited"} /\ report[r].failed = 0 => left[r] = {}
         /\ report[r].failed \in Nat /\ report[r].driftWarnings \in Nat
<1>1. RunInv(r) /\ left[r] \in SUBSET Position /\ cur[r] \in 0 .. Len(Order)
  BY SplitByRun DEF BaseInv, AllRunsInv, OrchIInv, OrchTypeOK
<1>2. Position = {1}
  <2>1. Order = <<"pricing">>
    BY DEF PricingAssumption
  <2>2. Len(Order) = 1 /\ 1 .. 1 = {1}
    BY <2>1
  <2>3. QED
    BY <2>2 DEF Position
<1>3. report[r].failed \in Nat /\ report[r].driftWarnings \in Nat
  BY ReportFields DEF BaseInv, OrchIInv, OrchTypeOK
<1>4. ASSUME phase[r] \in {"apply", "verify"}
      PROVE  left[r] = {} /\ ~opts[r].dryRun
  <2>1. cur[r] \in Position /\ ~opts[r].dryRun /\ \A i \in left[r] : cur[r] < i
    BY <1>1, <1>4 DEF RunInv, LoopInv, OrderInv, Selected
  <2>2. \A i \in left[r] : i = 1
    BY <1>1, <1>2
  <2>3. QED
    BY <1>2, <2>1, <2>2
<1>5. QED
  BY <1>1, <1>3, <1>4 DEF RunInv, LoopInv

\* What is still to be planned was read as it is now, or not at all.
FreshInv(r) == quiet[r] /\ left[r] # {} => snap[r] \in {option, NoOptions}

Awaits(r, k) == \E p \in DOMAIN queue[r] : queue[r][p] = k

Unspoilt(r) ==
  /\ phase[r] \notin {"idle", "crashed"} /\ quiet[r] /\ ~opts[r].dryRun
  /\ report[r].failed = 0 /\ report[r].driftWarnings = 0

\* Once planned, every option is as the registry wants it or waits in the queue.
PlacedInv(r) ==
  \A k \in Keys : \/ Covers(k, Parse(option[k]))
                  \/ phase[r] \in {"apply", "verify"} /\ Awaits(r, k)

Settled(r) == Unspoilt(r) /\ left[r] = {} => PlacedInv(r)

LEMMA FreshKept ==
  ASSUME PricingAssumption, BaseInv, [Next]_vars, NEW r \in Runs, FreshInv(r)
  PROVE  FreshInv(r)'
<1> SUFFICES ASSUME quiet'[r], left'[r] # {}
             PROVE  snap'[r] \in {option', NoOptions}
  BY DEF FreshInv
<1>1. CASE PlanPricing(r)
  BY <1>1, PlanAdvances
<1>2. ASSUME ReadOption(r) \/ SaveOption(r) \/ VerifyPricing(r)
      PROVE  FALSE
  <2>1. left'[r] = left[r] /\ phase[r] \in {"apply", "verify"}
    BY <1>2, ReadAdvances, SaveAdvances, VerifyAdvances DEF orchVars
  <2>2. QED
    BY <2>1, Place
<1>3. CASE Finish(r) \/ Die(r)
  BY <1>3 DEF Finish, Die, Ending, BaseInv, PricingTyped
<1>4. CASE \E o \in Options : StartSync(r, o)
  BY <1>4, StartFacts
<1>5. CASE quiet[r] /\ option' = option /\ Untouched(r)
  BY <1>5 DEF FreshInv, Untouched, Same
<1>6. QED
  BY <1>1, <1>2, <1>3, <1>4, <1>5, QuietMeansAlone DEF Step

\* What a run's step needs to be unspoilt after it.
LEMMA StepUnspoilt ==
  ASSUME PricingAssumption, BaseInv, NEW r \in Runs, Step(r) \/ Die(r), Unspoilt(r)'
  PROVE  Unspoilt(r) /\ Running(r)
<1> USE OrchestratorAssumption
<1>1. Advances(r)
  BY StepAdvances
<1>2. quiet[r] /\ opts'[r] = opts[r]
  BY <1>1 DEF Advances, Still, Puts, Unspoilt
<1>3. Running(r)
  BY DEF Step, Die, PlanPricing, PlanReturns, TakeNext, ReadOption, SaveOption, VerifyPricing,
         Finish, Return, Exit, Crash, Running
<1>4. report[r].failed = 0 /\ report[r].driftWarnings = 0
  <2>1. CASE AnyStep(r)
    BY <1>3, <2>1, OutcomesStay DEF BaseInv, Unspoilt
  <2>2. CASE UNCHANGED orchVars
    BY <2>2 DEF orchVars, Unspoilt
  <2>3. QED
    BY <1>1, <2>1, <2>2 DEF Advances
<1>5. QED
  BY <1>2, <1>3, <1>4 DEF Unspoilt, Running

\* The plan names every option that is not as the registry wants it.
LEMMA PlanSettles ==
  ASSUME PricingAssumption, BaseInv, NEW r \in Runs, PlanPricing(r), quiet[r], ~opts[r].dryRun,
         FreshInv(r)
  PROVE  PlacedInv(r)'
<1>1. /\ Still /\ left[r] # {}
      /\ \E acts \in Plans(snap[r]) : \/ acts = <<>> /\ phase'[r] = "plan"
                                      \/ phase'[r] = "apply" /\ queue'[r] = acts
  BY PlanAdvances
<1>2. PICK acts \in Plans(snap[r]) : \/ acts = <<>> /\ phase'[r] = "plan"
                                     \/ phase'[r] = "apply" /\ queue'[r] = acts
  BY <1>1
<1>3. Lists(acts, Due(snap[r]))
  BY PlansFacts
<1>4. snap[r] \in {option, NoOptions} /\ option' = option
  BY <1>1 DEF FreshInv, Still
<1>5. ASSUME NEW k \in Keys, k \notin Due(snap[r])
      PROVE  Covers(k, Parse(option[k]))
  <2>1. Covers(k, Parse(snap[r][k]))
    BY <1>5 DEF Due
  <2>2. CASE snap[r] = option
    BY <2>1, <2>2
  <2>3. CASE snap[r] = NoOptions
    <3>1. DOMAIN Parse(snap[r][k]) = {}
      BY <2>3, NoOptionsTyped, NoPricesTyped DEF Parse
    <3>2. QED
      BY <2>1, <3>1 DEF Covers
  <2>4. QED
    BY <1>4, <2>2, <2>3
<1>6. ASSUME NEW k \in Due(snap[r])
      PROVE  phase'[r] = "apply" /\ Awaits(r, k)'
  <2>1. PICK i \in DOMAIN acts : acts[i] = k
    BY <1>3 DEF Lists
  <2>2. acts # <<>>
    BY <2>1
  <2>3. QED
    BY <1>2, <2>1, <2>2 DEF Awaits
<1>7. QED
  BY <1>4, <1>5, <1>6 DEF PlacedInv

\* A put that worked leaves its option right and no other worse.
LEMMA SaveSettles ==
  ASSUME PricingAssumption, BaseInv, NEW r \in Runs, SaveOption(r), report'[r].failed = 0,
         PlacedInv(r)
  PROVE  PlacedInv(r)'
<1>1. phase[r] = "apply" /\ phase'[r] = "verify" /\ queue'[r] = queue[r] /\ Puts(r)
  BY SaveAdvances
<1>2. PICK k : k = Head(queue[r])
  OBVIOUS
<1>3. /\ option'[k] # Garbage /\ Covers(k, option'[k])
      /\ \A j \in Keys \ {k} : option'[j] = option[j]
  BY <1>1, <1>2, PutsFacts
<1>4. Covers(k, Parse(option'[k]))
  BY <1>3 DEF Parse
<1>5. ASSUME NEW j \in Keys \ {k}
      PROVE  \/ Covers(j, Parse(option'[j]))
             \/ phase'[r] \in {"apply", "verify"} /\ Awaits(r, j)'
  BY <1>1, <1>3 DEF PlacedInv, Awaits
<1>6. QED
  BY <1>4, <1>5 DEF PlacedInv

\* Verify found the option as the registry wants it, and the others still wait.
LEMMA VerifySettles ==
  ASSUME PricingAssumption, BaseInv, NEW r \in Runs, VerifyPricing(r),
         report[r].driftWarnings = 0, report'[r].driftWarnings = 0, PlacedInv(r)
  PROVE  PlacedInv(r)'
<1>1. /\ Still /\ phase[r] = "verify" /\ phase'[r] = NextAction(r) /\ queue'[r] = Tail(queue[r])
  BY VerifyAdvances
<1>2. PICK k : k = Head(queue[r])
  OBVIOUS
<1>3. PICK v \in Verdict :
        VerifyReturns(r, v) /\ (v = "ok" => option[k] # Garbage /\ Covers(k, option[k]))
  BY <1>2, VerifyAdvances
<1>4. v = "ok"
  BY <1>3, VerdictCounts DEF BaseInv
<1>5. Covers(k, Parse(option[k]))
  BY <1>3, <1>4 DEF Parse
<1>6. /\ queue[r] \in Seq(Keys) /\ Len(queue[r]) = pending[r] /\ pending[r] \in Nat \ {0}
  BY <1>1, HeadFacts
<1>7. /\ Head(queue[r]) = queue[r][1] /\ DOMAIN queue[r] = 1 .. Len(queue[r])
      /\ \A p \in DOMAIN queue[r] \ {1} :
           p - 1 \in DOMAIN Tail(queue[r]) /\ queue[r][p] = Tail(queue[r])[p - 1]
  BY <1>6, TailFacts
<1>8. ASSUME NEW j \in Keys, j # k, Awaits(r, j)
      PROVE  phase'[r] = "apply" /\ Awaits(r, j)'
  <2>1. PICK p \in DOMAIN queue[r] : queue[r][p] = j
    BY <1>8 DEF Awaits
  <2>2. p # 1
    BY <1>2, <1>7, <1>8, <2>1
  <2>3. p - 1 \in DOMAIN queue'[r] /\ queue'[r][p - 1] = j
    BY <1>1, <1>7, <2>1, <2>2
  <2>4. pending[r] # 1
    BY <1>6, <1>7, <2>1, <2>2
  <2>5. QED
    BY <1>1, <2>3, <2>4 DEF Awaits, NextAction
<1>9. ASSUME NEW j \in Keys
      PROVE  \/ Covers(j, Parse(option'[j]))
             \/ phase'[r] \in {"apply", "verify"} /\ Awaits(r, j)'
  <2>1. option' = option
    BY <1>1 DEF Still
  <2>2. Covers(j, Parse(option[j])) \/ Awaits(r, j)
    BY DEF PlacedInv
  <2>3. CASE j = k
    BY <1>5, <2>1, <2>3
  <2>4. CASE j # k
    BY <1>8, <2>1, <2>2, <2>4
  <2>5. QED
    BY <2>3, <2>4
<1>10. QED
  BY <1>9 DEF PlacedInv

LEMMA SettledKept ==
  ASSUME PricingAssumption, BaseInv, [Next]_vars, NEW r \in Runs, FreshInv(r), Settled(r)
  PROVE  Settled(r)'
<1> SUFFICES ASSUME Unspoilt(r)', left'[r] = {}
             PROVE  PlacedInv(r)'
  BY DEF Settled
<1>0. quiet'[r]
  BY DEF Unspoilt
<1>1. ASSUME Step(r) \/ Die(r), left'[r] = left[r]
      PROVE  Unspoilt(r) /\ PlacedInv(r) /\ report'[r].failed = 0 /\ report'[r].driftWarnings = 0
             /\ report[r].driftWarnings = 0
  BY <1>1, StepUnspoilt DEF Settled, Unspoilt
<1>2. CASE PlanPricing(r)
  <2>1. Unspoilt(r)
    BY <1>2, StepUnspoilt DEF Step
  <2>2. QED
    BY <1>2, <2>1, PlanSettles DEF Unspoilt
<1>3. CASE ReadOption(r)
  <2>1. Still /\ UNCHANGED orchVars /\ queue' = queue
    BY <1>3, ReadAdvances
  <2>2. PlacedInv(r) /\ option' = option /\ phase' = phase
    BY <1>1, <1>3, <2>1 DEF Step, orchVars, Still
  <2>3. QED
    BY <2>1, <2>2 DEF PlacedInv, Awaits
<1>4. CASE SaveOption(r)
  <2>1. left' = left
    BY <1>4, SaveAdvances
  <2>2. QED
    BY <1>1, <1>4, <2>1, SaveSettles DEF Step
<1>5. CASE VerifyPricing(r)
  <2>1. left' = left
    BY <1>5, VerifyAdvances
  <2>2. QED
    BY <1>1, <1>5, <2>1, VerifySettles DEF Step
<1>6. CASE Finish(r) \/ Die(r)
  <2>1. Still /\ left' = left /\ (phase[r] \notin {"apply", "verify"} \/ phase'[r] = "crashed")
    BY <1>6, EndAdvances
  <2>2. PlacedInv(r) /\ phase[r] \notin {"apply", "verify"}
    BY <1>1, <1>6, <2>1 DEF Step, Unspoilt
  <2>3. QED
    BY <2>1, <2>2 DEF PlacedInv, Still
<1>7. CASE \E o \in Options : StartSync(r, o)
  BY <1>7, StartFacts
<1>8. CASE quiet[r] /\ option' = option /\ Untouched(r)
  <2>1. PlacedInv(r)
    BY <1>8 DEF Settled, Unspoilt, Untouched, Same
  <2>2. QED
    BY <1>8, <2>1 DEF PlacedInv, Awaits, Untouched, Same
<1>9. QED
  BY <1>0, <1>2, <1>3, <1>4, <1>5, <1>6, <1>7, <1>8, QuietMeansAlone DEF Step

CleanInv == BaseInv /\ \A r \in Runs : FreshInv(r) /\ Settled(r)

LEMMA CleanIsConverged ==
  ASSUME PricingAssumption, CleanInv
  PROVE  CleanRunConverges
<1> SUFFICES ASSUME NEW r \in Runs, phase[r] \in {"done", "exited"}, quiet[r], ~opts[r].dryRun,
                    report[r].failed = 0, report[r].driftWarnings = 0, NEW k \in Keys
             PROVE  Covers(k, Parse(option[k]))
  BY DEF CleanRunConverges
<1>1. left[r] = {} /\ Unspoilt(r)
  BY Place DEF CleanInv, Unspoilt
<1>2. PlacedInv(r)
  BY <1>1 DEF CleanInv, Settled
<1>3. QED
  BY <1>2 DEF PlacedInv

\* A run that reports no failure and no drift, and that nobody disturbed, leaves
\* every price of the registry in place: even a plan made from a fetch that failed
\* lacks no option, and even a put after a failed read has every desired price.
THEOREM CleanRunsConverge == Spec => []CleanRunConverges
<1>1. Init => CleanInv
  BY PricingInitBase DEF Init, OrchInit, CleanInv, FreshInv, Settled, Unspoilt
<1>2. CleanInv /\ [Next]_vars => CleanInv'
  BY PricingAssumption, BaseKept, FreshKept, SettledKept DEF CleanInv
<1>3. CleanInv => CleanRunConverges
  BY PricingAssumption, CleanIsConverged
<1>4. QED
  BY <1>1, <1>2, <1>3, PTL DEF Spec

-----------------------------------------------------------------------------
(* Why one read that failed is all it takes to wipe unmanaged prices.       *)

\* Do two maps agree at the models the registry does not price in option k?
SameOthers(k, a, b) ==
  Restrict(a, DOMAIN a \ DOMAIN Desired[k]) = Restrict(b, DOMAIN b \ DOMAIN Desired[k])

Acts(r) == queue'[r] # queue[r] \/ phase'[r] # phase[r]

\* UnmanagedPricesKept for the steps of runs nobody has disturbed.
UndisturbedKeepUnmanaged ==
  [][\A r \in Runs, k \in Keys :
       Acts(r) /\ quiet[r] /\ option[k] # Garbage => SameOthers(k, option'[k], option[k])]_vars

LEMMA MergeKeepsOthers ==
  ASSUME PricingAssumption, NEW k \in Keys, NEW current \in PriceMap
  PROVE  SameOthers(k, Merge(k, current), current)
<1> DEFINE new == Merge(k, current)
           rest == DOMAIN current \ DOMAIN Desired[k]
<1>1. DOMAIN new = DOMAIN Desired[k] \cup DOMAIN current /\ \A m \in rest : new[m] = current[m]
  BY MergeFacts
<1> HIDE DEF new
<1>2. DOMAIN new \ DOMAIN Desired[k] = rest
  BY <1>1
<1> HIDE DEF rest
<1>3. Restrict(new, rest) = Restrict(current, rest)
  BY <1>1 DEF Restrict
<1>4. QED
  BY <1>2, <1>3 DEF SameOthers, new, rest

\* A map that waits is the option as it is now, but for the registry's prices.
OthersInv(r) ==
  quiet[r] /\ merged[r] # Unread =>
    LET k == Head(queue[r])
    IN  option[k] # Garbage => SameOthers(k, merged[r], option[k])

LEMMA OthersKept ==
  ASSUME PricingAssumption, ~ReadMayFail, BaseInv, [Next]_vars, NEW r \in Runs, OthersInv(r)
  PROVE  OthersInv(r)'
<1> SUFFICES ASSUME quiet'[r], merged'[r] # Unread, option'[Head(queue'[r])] # Garbage
             PROVE  SameOthers(Head(queue'[r]), merged'[r], option'[Head(queue'[r])])
  BY DEF OthersInv, SameOthers
<1>1. CASE PlanPricing(r) \/ VerifyPricing(r)
  <2>1. merged' = merged /\ phase[r] # "apply"
    BY <1>1, PlanAdvances, VerifyAdvances
  <2>2. QED
    BY <2>1 DEF BaseInv, MergedInv
<1>2. CASE ReadOption(r)
  <2>1. /\ option' = option /\ queue' = queue /\ phase[r] = "apply"
        /\ \E read \in OptionsRead :
             merged'[r] = Merge(Head(queue[r]), Parse(read[Head(queue[r])]))
    BY <1>2, ReadAdvances DEF Still
  <2>2. PICK k \in Keys : k = Head(queue[r])
    BY <2>1, HeadFacts
  <2>3. merged'[r] = Merge(k, Parse(option[k])) /\ option[k] # Garbage
    BY <2>1, <2>2 DEF OptionsRead
  <2>4. Parse(option[k]) = option[k] /\ option[k] \in PriceMap
    BY <2>2, <2>3 DEF Parse, BaseInv, PricingTyped, OptionValue
  <2>5. SameOthers(k, Merge(k, option[k]), option[k])
    BY <2>4, MergeKeepsOthers
  <2>6. QED
    BY <2>1, <2>2, <2>3, <2>4, <2>5
<1>3. CASE SaveOption(r) \/ Finish(r) \/ Die(r)
  BY <1>3, SaveAdvances, EndAdvances
<1>4. CASE \E o \in Options : StartSync(r, o)
  BY <1>4, StartFacts
<1>5. CASE quiet[r] /\ option' = option /\ Untouched(r)
  BY <1>5 DEF OthersInv, Untouched
<1>6. QED
  BY <1>1, <1>2, <1>3, <1>4, <1>5, QuietMeansAlone DEF Step

LEMMA ActsIsStep ==
  ASSUME PricingAssumption, BaseInv, [Next]_vars, NEW r \in Runs, Acts(r)
  PROVE  Step(r) \/ Die(r) \/ \E o \in Options : StartSync(r, o)
<1>1. ~Untouched(r)
  BY DEF Acts, Untouched, Same
<1>2. ASSUME NEW k \in Keys, NEW value \in PriceMap, OperatorSaves(k, value)
      PROVE  FALSE
  BY <1>2 DEF OperatorSaves, orchVars, Acts
<1>3. ~UNCHANGED vars
  BY DEF vars, orchVars, pricingVars, Acts
<1>4. QED
  BY <1>1, <1>2, <1>3, StepOfAnother DEF Next

LEMMA UndisturbedStep ==
  ASSUME PricingAssumption, BaseInv, [Next]_vars, NEW r \in Runs, OthersInv(r),
         Acts(r), quiet[r], NEW k \in Keys, option[k] # Garbage
  PROVE  SameOthers(k, option'[k], option[k])
<1>1. option' = option \/ Puts(r)
  BY ActsIsStep, StepAdvances, StartFacts DEF Advances, Still
<1>2. CASE option'[k] = option[k]
  BY <1>2 DEF SameOthers
<1>3. CASE Puts(r) /\ k = Head(queue[r])
  <2>1. option'[k] = merged[r] /\ merged[r] # Unread
    BY <1>3, PutsFacts DEF Puts
  <2>2. QED
    BY <1>3, <2>1 DEF OthersInv
<1>4. CASE Puts(r) /\ k # Head(queue[r])
  <2>1. option'[k] = option[k]
    BY <1>4, PutsFacts
  <2>2. QED
    BY <1>2, <2>1
<1>5. QED
  BY <1>1, <1>2, <1>3, <1>4

\* As long as reads do not fail, a run nobody disturbs changes no price the
\* registry does not name, in any option that parses: what the run
\* pricing_failed_read shows needs the failed read, and what Apply reads right
\* before the put is enough otherwise.
THEOREM UndisturbedRunsKeepUnmanaged ==
  ~ReadMayFail => (Spec => UndisturbedKeepUnmanaged)
<1> SUFFICES ASSUME ~ReadMayFail PROVE Spec => UndisturbedKeepUnmanaged
  OBVIOUS
<1> DEFINE Inv == BaseInv /\ \A r \in Runs : OthersInv(r)
<1>1. Init => Inv
  BY PricingInitBase DEF Init, OthersInv
<1>2. Inv /\ [Next]_vars => Inv'
  BY PricingAssumption, BaseKept, OthersKept
<1>3. Inv /\ [Next]_vars =>
        \A r \in Runs, k \in Keys :
          Acts(r) /\ quiet[r] /\ option[k] # Garbage => SameOthers(k, option'[k], option[k])
  BY PricingAssumption, UndisturbedStep
<1>4. QED
  BY <1>1, <1>2, <1>3, PTL DEF Spec, UndisturbedKeepUnmanaged
=============================================================================
