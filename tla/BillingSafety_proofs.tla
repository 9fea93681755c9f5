------------------------- MODULE BillingSafety_proofs -------------------------
(***************************************************************************)
(* The safety properties of Billing that TLC checks on small instances,    *)
(* proved for every value of the constants.  They all rest on Typed (every *)
(* reachable state is typed, the workers hold what they should) and on the *)
(* ways a step can change the invoices, listed once in InvoiceSteps.       *)
(***************************************************************************)
EXTENDS Billing_proofs

-------------------------------------------------------------------------------
(* How a step changes the invoices, the ledger and the sent events.         *)

\* At most the status of an invoice changes.
SameInvoices ==
  /\ DOMAIN invoices' = DOMAIN invoices
  /\ \A k \in DOMAIN invoices :
       /\ invoices'[k].event = invoices[k].event
       /\ invoices'[k].purpose = invoices[k].purpose
       /\ invoices'[k].amount = invoices[k].amount

LEMMA LifecycleInvoices ==
  ASSUME TypeOK, NEW p \in Proc, ApplyLifecycleOnly(p)
  PROVE  SameInvoices
  <1>1. CASE UNCHANGED invoices
    BY <1>1 DEF SameInvoices
  <1>2. CASE invoices' = [k \in DOMAIN invoices |->
               IF k = proc[p].last THEN [invoices[k] EXCEPT !.status = "VOID"] ELSE invoices[k]]
    <2>1. \A k \in DOMAIN invoices : invoices[k] \in InvoiceRow
      BY DEF TypeOK
    <2>. QED  BY <1>2, <2>1 DEF SameInvoices, InvoiceRow
  <1>. QED  BY <1>1, <1>2 DEF ApplyLifecycleOnly

LEMMA AppendInvoice ==
  ASSUME Typed, NEW p \in Hook, NEW purpose, CommitSuccess(p, purpose)
  PROVE  \E n \in Nat \ DOMAIN invoices :
           /\ n = Len(invoices) + 1
           /\ DOMAIN invoices' = DOMAIN invoices \cup {n}
           /\ \A k \in DOMAIN invoices : invoices'[k] = invoices[k]
           /\ invoices'[n].event = proc[p].ev
           /\ invoices'[n].purpose = purpose
           /\ invoices'[n].amount = intents[proc[p].it].amount
           /\ invoices'[n].status = "PAID"
  <1>1. PaidInvoice(p) \in InvoiceRow
    BY SuccessType DEF Typed, Proc
  <1>2. invoices \in Seq(InvoiceRow) /\ invoices' = Append(invoices, PaidInvoice(p))
    BY DEF Typed, TypeOK, CommitSuccess, WritePaidInvoice
  <1>3. PICK n \in Nat : n = Len(invoices) + 1
    BY <1>2
  <1>4. /\ n \notin DOMAIN invoices /\ DOMAIN invoices' = DOMAIN invoices \cup {n}
        /\ \A k \in DOMAIN invoices : invoices'[k] = invoices[k]
        /\ invoices'[n] = PaidInvoice(p)
    BY <1>1, <1>2, <1>3
  <1>5. /\ PaidInvoice(p).event = proc[p].ev /\ PaidInvoice(p).purpose = purpose
        /\ PaidInvoice(p).amount = intents[proc[p].it].amount
        /\ PaidInvoice(p).status = "PAID"
    BY DEF PaidInvoice, CommitSuccess
  <1>. QED  BY <1>3, <1>4, <1>5

\* The same, without the index and the amount of the new invoice.
LEMMA AppendsOne ==
  ASSUME Typed, NEW p \in Hook, NEW purpose, CommitSuccess(p, purpose)
  PROVE  \E n \in Nat \ DOMAIN invoices :
           /\ n \in DOMAIN invoices'
           /\ DOMAIN invoices' = DOMAIN invoices \cup {n}
           /\ \A k \in DOMAIN invoices : invoices'[k] = invoices[k]
           /\ invoices'[n].event = proc[p].ev
           /\ invoices'[n].purpose = purpose
  <1>1. invoices \in Seq(InvoiceRow) /\ PaidInvoice(p) \in InvoiceRow
    BY SuccessType DEF Typed, TypeOK, Proc
  <1>2. invoices' = Append(invoices, PaidInvoice(p))
    BY DEF CommitSuccess, WritePaidInvoice
  <1>3. PaidInvoice(p).event = proc[p].ev /\ PaidInvoice(p).purpose = purpose
    BY DEF PaidInvoice, CommitSuccess
  <1> DEFINE n == Len(invoices) + 1
             paid == PaidInvoice(p)
  <1> HIDE DEF paid
  <1>4. /\ n \in Nat \ DOMAIN invoices /\ n \in DOMAIN invoices'
        /\ DOMAIN invoices' = DOMAIN invoices \cup {n}
        /\ \A k \in DOMAIN invoices : invoices'[k] = invoices[k]
        /\ invoices'[n] = paid
    BY <1>1, <1>2 DEF paid
  <1>. QED  BY <1>3, <1>4 DEF paid

LEMMA InvoiceWriters ==
  ASSUME Typed, [Next]_vars
  PROVE  \/ UNCHANGED invoices
         \/ \E p \in Hook : Commit(p) /\ ApplyLifecycleOnly(p)
         \/ \E p \in Hook, purpose \in Purpose :
              CommitSuccess(p, purpose) /\ (purpose = "OVERFLOW" => CommitOverflow(p))
         \/ \E p \in Sweeper : PurgeDelete(p)
  <1>1. ASSUME NEW p \in Hook, Commit(p)
        PROVE  \/ UNCHANGED invoices
               \/ ApplyLifecycleOnly(p)
               \/ \E purpose \in Purpose :
                    CommitSuccess(p, purpose) /\ (purpose = "OVERFLOW" => CommitOverflow(p))
    <2>1. CASE CommitActivation(p) \/ CommitOverflow(p) \/ CommitUpgrade(p)
      BY <2>1 DEF CommitActivation, CommitOverflow, CommitUpgrade, Purpose
    <2>. QED  BY <1>1, <2>1
              DEF Commit, CommitUnmatched, CommitRecurring, CommitMismatch, CommitFailure
  <1>2. ASSUME NEW p \in Sweeper, Purge(p)
        PROVE  UNCHANGED invoices \/ PurgeDelete(p)
    BY <1>2 DEF Purge, PurgeScan, PurgeRecheck, db
  <1>3. ASSUME NEW p \in Api, Request(p) \/ Continue(p)
        PROVE  UNCHANGED invoices
    BY <1>3 DEF Request, InitiateRead, OverflowRead, PlanChangeRead, CancelRead, ReactivateRead,
                Continue, CreateIntent, CreateCharge, RecordRef, CancelWrite, ReactivateWrite, db
  <1>4. ASSUME Provider
        PROVE  UNCHANGED invoices
    BY <1>4 DEF Provider, ChargePaid, ChargeFailed, ChargeRefunded, RecurringEvent, db
  <1>5. ASSUME \/ UNCHANGED vars \/ Tick \/ (\E pl \in Plan : SelectPlan(pl))
               \/ (\E p \in Proc : Crash(p)) \/ (\E p \in Hook, e \in Event : Deliver(p, e))
        PROVE  UNCHANGED invoices
    BY <1>5 DEF vars, db, Tick, SelectPlan, Crash, Deliver
  <1>. QED  BY <1>1, <1>2, <1>3, <1>4, <1>5 DEF Next, Webhook

LEMMA InvoiceSteps ==
  ASSUME Typed, [Next]_vars
  PROVE  \/ SameInvoices
         \/ \E p \in Hook, purpose \in Purpose :
              CommitSuccess(p, purpose) /\ (purpose = "OVERFLOW" => CommitOverflow(p))
         \/ \E p \in Sweeper : PurgeDelete(p)
  <1>1. CASE UNCHANGED invoices
    BY <1>1 DEF SameInvoices
  <1>2. ASSUME NEW p \in Hook, ApplyLifecycleOnly(p)
        PROVE  SameInvoices
    BY <1>2, LifecycleInvoices DEF Typed, Proc
  <1>. QED  BY <1>1, <1>2, InvoiceWriters

\* Only a commit touches the ledger; a sent event is never taken back or changed.
LEMMA Monotone ==
  ASSUME Typed, [Next]_vars
  PROVE  /\ ledger \subseteq ledger'
         /\ \A e \in Event : sent[e].type # "none" => sent'[e] = sent[e]
         /\ \A e \in ledger' \ ledger : \E p \in Hook : Commit(p) /\ proc[p].ev = e
  <1>1. ASSUME NEW p \in Hook, Commit(p)
        PROVE  ledger' = ledger \cup {proc[p].ev} /\ UNCHANGED sent
    BY <1>1, CommitIsCommitting DEF Committing, provider
  <1>2. ASSUME Provider
        PROVE  UNCHANGED ledger /\ \A e \in Event : sent[e].type # "none" => sent'[e] = sent[e]
    <2>1. UNCHANGED ledger
      BY <1>2 DEF Provider, ChargePaid, ChargeFailed, ChargeRefunded, RecurringEvent, db
    <2>2. PICK e \in Event : \E rec : Emit(e, rec)
      BY <1>2 DEF Provider, ChargePaid, ChargeFailed, ChargeRefunded, RecurringEvent
    <2>. QED  BY <2>1, <2>2 DEF Emit, Typed, TypeOK
  <1>3. ASSUME NEW p \in Sweeper, Purge(p)
        PROVE  UNCHANGED <<ledger, sent>>
    BY <1>3 DEF Purge, PurgeScan, PurgeRecheck, PurgeDelete, db, provider
  <1>4. ASSUME NEW p \in Api, Request(p) \/ Continue(p)
        PROVE  UNCHANGED <<ledger, sent>>
    BY <1>4 DEF Request, InitiateRead, OverflowRead, PlanChangeRead, CancelRead, ReactivateRead,
                Continue, CreateIntent, CreateCharge, RecordRef, CancelWrite, ReactivateWrite, db,
                provider
  <1>5. ASSUME \/ UNCHANGED vars \/ Tick \/ (\E pl \in Plan : SelectPlan(pl))
               \/ (\E p \in Proc : Crash(p)) \/ (\E p \in Hook, e \in Event : Deliver(p, e))
        PROVE  UNCHANGED <<ledger, sent>>
    BY <1>5 DEF vars, db, provider, Tick, SelectPlan, Crash, Deliver
  <1>. QED  BY <1>1, <1>2, <1>3, <1>4, <1>5 DEF Next, Webhook

-------------------------------------------------------------------------------
(* Exactly-once processing.                                                  *)

LEMMA OneInvoiceStep ==
  ASSUME Typed, OneInvoicePerEvent, [Next]_vars
  PROVE  OneInvoicePerEvent'
  <1>1. ledger \subseteq ledger'
    BY Monotone
  <1>2. CASE SameInvoices
    BY <1>1, <1>2 DEF OneInvoicePerEvent, SameInvoices
  <1>3. ASSUME NEW p \in Hook, NEW purpose \in Purpose, CommitSuccess(p, purpose)
        PROVE  OneInvoicePerEvent'
    <2>1. PICK n \in Nat \ DOMAIN invoices :
          /\ DOMAIN invoices' = DOMAIN invoices \cup {n}
          /\ \A k \in DOMAIN invoices : invoices'[k] = invoices[k]
          /\ invoices'[n].event = proc[p].ev
      BY <1>3, AppendInvoice
    <2>2. proc[p].op = "webhook" /\ proc[p].ev \in ledger'
      BY <1>3 DEF CommitSuccess, OnIntent, Committing
    <2>3. proc[p].ev \notin ledger
      BY <2>2 DEF Typed, WorkerInv, WorkerOK, Proc
    <2>4. \A k \in DOMAIN invoices : invoices'[k].event \in ledger
      BY <2>1 DEF OneInvoicePerEvent
    <2>5. \A k, j \in DOMAIN invoices : invoices'[k].event = invoices'[j].event => k = j
      BY <2>1 DEF OneInvoicePerEvent
    <2> SUFFICES ASSUME NEW k \in DOMAIN invoices', NEW j \in DOMAIN invoices'
                 PROVE  /\ invoices'[k].event \in ledger'
                        /\ invoices'[k].event = invoices'[j].event => k = j
      BY DEF OneInvoicePerEvent
    <2>6. CASE k \in DOMAIN invoices /\ j \in DOMAIN invoices
      BY <1>1, <2>4, <2>5, <2>6
    <2>7. CASE k = n \/ j = n
      BY <1>1, <2>1, <2>2, <2>3, <2>4, <2>7
    <2>. QED  BY <2>1, <2>6, <2>7
  <1>4. ASSUME NEW p \in Sweeper, PurgeDelete(p)
        PROVE  OneInvoicePerEvent'
    BY <1>4 DEF PurgeDelete, OneInvoicePerEvent
  <1>. QED  BY <1>2, <1>3, <1>4, InvoiceSteps

\* However many workers process an event, and however often it is delivered, crashed and
\* redelivered (processWebhook), it yields at most one invoice, never without its ledger row.
THEOREM InvoiceOnce == Spec => []OneInvoicePerEvent
  <1>1. Init => OneInvoicePerEvent
    BY DEF Init, OneInvoicePerEvent
  <1>. QED  BY <1>1, TypedAlways, OneInvoiceStep, PTL DEF Spec

LEMMA ReceiverInit == Init => Receiver!Init
  BY DEF Init, NotSent, Receiver!Init

LEMMA ReceiverStep ==
  ASSUME Typed, [Next]_vars
  PROVE  [Receiver!Next]_(Receiver!vars)
  <1> DEFINE produced == {e \in Event : sent[e].type # "none"}
  <1>1. ASSUME NEW p \in Hook, Commit(p)
        PROVE  Receiver!Next
    <2>1. proc[p].ev \in Event /\ proc[p].ev \notin ledger /\ sent[proc[p].ev].type # "none"
      BY <1>1, CommitIsCommitting DEF Committing, Typed, WorkerInv, WorkerOK, Proc
    <2>2. /\ ledger' = ledger \cup {proc[p].ev}
          /\ applied' = [applied EXCEPT ![proc[p].ev] = @ + 1] /\ UNCHANGED sent
      BY <1>1, CommitIsCommitting DEF Committing, provider
    <2>3. Receiver!Process(proc[p].ev)
      BY <2>1, <2>2 DEF Receiver!Process
    <2>. QED  BY <2>1, <2>3 DEF Receiver!Next
  <1>2. ASSUME Provider
        PROVE  [Receiver!Next]_(Receiver!vars)
    <2>1. UNCHANGED <<ledger, applied>>
      BY <1>2 DEF Provider, ChargePaid, ChargeFailed, ChargeRefunded, RecurringEvent, db
    <2>0. PICK e \in Event : \E rec : Emit(e, rec)
      BY <1>2 DEF Provider, ChargePaid, ChargeFailed, ChargeRefunded, RecurringEvent
    <2>2. PICK rec : Emit(e, rec)
      BY <2>0
    <2>3. \A f \in Event : sent'[f] = IF f = e THEN rec ELSE sent[f]
      BY <2>2 DEF Emit, Typed, TypeOK
    <2>4. CASE rec.type = "none"
      <3>1. produced' = produced
        BY <2>2, <2>3, <2>4 DEF Emit
      <3>. QED  BY <2>1, <3>1 DEF Receiver!vars
    <2>5. CASE rec.type # "none"
      <3>1. produced' = produced \cup {e} /\ e \notin produced
        BY <2>2, <2>3, <2>5 DEF Emit
      <3>2. Receiver!Send(e)
        BY <2>1, <3>1 DEF Receiver!Send
      <3>. QED  BY <3>2 DEF Receiver!Next
    <2>. QED  BY <2>4, <2>5
  <1>3. ASSUME UNCHANGED <<ledger, applied, sent>>
        PROVE  UNCHANGED Receiver!vars
    BY <1>3 DEF Receiver!vars
  <1>4. ASSUME NEW p \in Sweeper, Purge(p)
        PROVE  UNCHANGED <<ledger, applied, sent>>
    BY <1>4 DEF Purge, PurgeScan, PurgeRecheck, PurgeDelete, db, provider
  <1>5. ASSUME NEW p \in Api, Request(p) \/ Continue(p)
        PROVE  UNCHANGED <<ledger, applied, sent>>
    BY <1>5 DEF Request, InitiateRead, OverflowRead, PlanChangeRead, CancelRead, ReactivateRead,
                Continue, CreateIntent, CreateCharge, RecordRef, CancelWrite, ReactivateWrite, db,
                provider
  <1>6. ASSUME \/ UNCHANGED vars \/ Tick \/ (\E pl \in Plan : SelectPlan(pl))
               \/ (\E p \in Proc : Crash(p)) \/ (\E p \in Hook, e \in Event : Deliver(p, e))
        PROVE  UNCHANGED <<ledger, applied, sent>>
    BY <1>6 DEF vars, db, provider, Tick, SelectPlan, Crash, Deliver
  <1>. QED  BY <1>1, <1>2, <1>3, <1>4, <1>5, <1>6 DEF Next, Webhook

\* The webhook implements the abstract idempotent receiver: whatever the order, number
\* and interleaving of deliveries, each sent event is processed at most once, and its
\* ledger row and its effect become visible in one step (processWebhook's transaction).
THEOREM ReceiverRefined == Spec => ReceiverSpec
  <1>1. Typed /\ [Next]_vars => [Receiver!Next]_(Receiver!vars)
    BY ReceiverStep
  <1>. QED  BY <1>1, ReceiverInit, TypedAlways, PTL DEF Spec, ReceiverSpec, Receiver!Spec

-------------------------------------------------------------------------------
(* What is invoiced is what was reported.                                    *)

LEMMA InvoiceMatchesStep ==
  ASSUME Typed, InvoiceMatchesCharge, [Next]_vars
  PROVE  InvoiceMatchesCharge'
  <1>1. \A e \in Event : IsSuccess(sent[e].type) => sent'[e] = sent[e]
    BY Monotone DEF IsSuccess
  <1>2. \A k \in DOMAIN invoices : invoices[k].event \in Event
    <2>1. \A k \in DOMAIN invoices : invoices[k] \in InvoiceRow
      BY DEF Typed, TypeOK
    <2>. QED  BY <2>1 DEF InvoiceRow
  <1>3. CASE SameInvoices
    BY <1>1, <1>2, <1>3 DEF InvoiceMatchesCharge, SameInvoices
  <1>4. ASSUME NEW p \in Hook, NEW purpose \in Purpose, CommitSuccess(p, purpose)
        PROVE  InvoiceMatchesCharge'
    <2>1. PICK n \in Nat \ DOMAIN invoices :
          /\ DOMAIN invoices' = DOMAIN invoices \cup {n}
          /\ \A k \in DOMAIN invoices : invoices'[k] = invoices[k]
          /\ invoices'[n].event = proc[p].ev
          /\ invoices'[n].amount = intents[proc[p].it].amount
      BY <1>4, AppendInvoice
    <2>2. proc[p].ev \in Event
      BY <1>4 DEF CommitSuccess, OnIntent, Committing, Typed, WorkerInv, WorkerOK, Proc
    <2>3. /\ IsSuccess(sent[proc[p].ev].type)
          /\ sent[proc[p].ev].amount \in {NoAmount, intents[proc[p].it].amount}
      BY <1>4 DEF CommitSuccess, AmountMatches
    <2>4. \A k \in DOMAIN invoices : sent'[invoices[k].event] = sent[invoices[k].event]
      BY <1>1, <1>2 DEF InvoiceMatchesCharge
    <2>. QED  BY <1>1, <2>1, <2>2, <2>3, <2>4 DEF InvoiceMatchesCharge
  <1>5. ASSUME NEW p \in Sweeper, PurgeDelete(p)
        PROVE  InvoiceMatchesCharge'
    BY <1>5 DEF PurgeDelete, InvoiceMatchesCharge
  <1>. QED  BY <1>3, <1>4, <1>5, InvoiceSteps

\* No interleaving of requests, webhooks and purges leads to an invoice for an amount the
\* provider did not report, or for an event that is not a success (applyEvent's guard).
THEOREM InvoicesMatch == Spec => []InvoiceMatchesCharge
  <1>1. Init => InvoiceMatchesCharge
    BY DEF Init, InvoiceMatchesCharge
  <1>. QED  BY <1>1, TypedAlways, InvoiceMatchesStep, PTL DEF Spec

-------------------------------------------------------------------------------
(* How a step changes the subscription row.                                  *)

\* The steps that leave it alone: all but these.
SubWriter ==
  \/ \E pl \in Plan : SelectPlan(pl)
  \/ \E p \in Api : CancelWrite(p) \/ ReactivateWrite(p)
  \/ \E p \in Sweeper : PurgeDelete(p)
  \/ \E p \in Hook : \/ CommitActivation(p) \/ CommitOverflow(p) \/ CommitUpgrade(p)
                     \/ ApplyLifecycleOnly(p)

LEMMA SubSteps ==
  ASSUME [Next]_vars
  PROVE  UNCHANGED sub \/ SubWriter
  <1>1. ASSUME NEW p \in Hook, Commit(p)
        PROVE  UNCHANGED sub \/ SubWriter
    BY <1>1 DEF Commit, CommitUnmatched, CommitRecurring, CommitMismatch, CommitFailure, SubWriter
  <1>2. ASSUME NEW p \in Sweeper, Purge(p)
        PROVE  UNCHANGED sub \/ SubWriter
    BY <1>2 DEF Purge, PurgeScan, PurgeRecheck, db, SubWriter
  <1>3. ASSUME NEW p \in Api, Request(p) \/ Continue(p)
        PROVE  UNCHANGED sub \/ SubWriter
    BY <1>3 DEF Request, InitiateRead, OverflowRead, PlanChangeRead, CancelRead, ReactivateRead,
                Continue, CreateIntent, CreateCharge, RecordRef, db, SubWriter
  <1>4. ASSUME Provider
        PROVE  UNCHANGED sub
    BY <1>4 DEF Provider, ChargePaid, ChargeFailed, ChargeRefunded, RecurringEvent, db
  <1>5. ASSUME \/ UNCHANGED vars \/ Tick \/ (\E p \in Proc : Crash(p))
               \/ (\E p \in Hook, e \in Event : Deliver(p, e))
        PROVE  UNCHANGED sub
    BY <1>5 DEF vars, db, Tick, Crash, Deliver
  <1>. QED  BY <1>1, <1>2, <1>3, <1>4, <1>5 DEF Next, Webhook, SubWriter

LEMMA DeadlineStep ==
  ASSUME Typed, CanceledHasDeadline, [Next]_vars
  PROVE  CanceledHasDeadline'
  <1>1. TypeOK /\ sub \in SubRow
    BY DEF Typed, TypeOK
  <1>2. CASE UNCHANGED sub
    BY <1>2 DEF CanceledHasDeadline
  <1>3. ASSUME NEW pl \in Plan, SelectPlan(pl)
        PROVE  CanceledHasDeadline'
    <2>1. sub'.status = "PENDING"
      BY <1>1, <1>3 DEF SelectPlan, SubRow, NoSub
    <2>. QED  BY <2>1 DEF CanceledHasDeadline
  <1>4. ASSUME NEW p \in Api, CancelWrite(p)
        PROVE  CanceledHasDeadline'
    <2>1. proc[p].snap.end \in Nat
      BY <1>1 DEF TypeOK, Local, SubRow, Proc
    <2>2. sub'.canceledEffectiveAt = proc[p].snap.end
      BY <1>1, <1>4 DEF CancelWrite, SubRow
    <2>. QED  BY <2>1, <2>2 DEF CanceledHasDeadline, NoTime
  <1>5. ASSUME NEW p \in Api, ReactivateWrite(p)
        PROVE  CanceledHasDeadline'
    <2>1. sub'.status = "ACTIVE"
      BY <1>1, <1>5 DEF ReactivateWrite, SubRow
    <2>. QED  BY <2>1 DEF CanceledHasDeadline
  <1>6. ASSUME NEW p \in Sweeper, PurgeDelete(p)
        PROVE  CanceledHasDeadline'
    BY <1>6 DEF PurgeDelete, NoSub, CanceledHasDeadline
  <1>7. ASSUME NEW p \in Hook, CommitActivation(p) \/ CommitUpgrade(p)
        PROVE  CanceledHasDeadline'
    <2>1. sub'.status = "ACTIVE"
      BY <1>1, <1>7 DEF CommitActivation, CommitUpgrade, SubRow
    <2>. QED  BY <2>1 DEF CanceledHasDeadline
  <1>8. ASSUME NEW p \in Hook, CommitOverflow(p)
        PROVE  CanceledHasDeadline'
    <2>1. sub'.status = sub.status /\ sub'.canceledEffectiveAt = sub.canceledEffectiveAt
      BY <1>1, <1>8 DEF CommitOverflow, SubRow
    <2>. QED  BY <2>1 DEF CanceledHasDeadline
  <1>9. ASSUME NEW p \in Hook, ApplyLifecycleOnly(p)
        PROVE  CanceledHasDeadline'
    BY <1>1, <1>9, LifecycleSub DEF CanceledHasDeadline, Proc
  <1>. QED  BY <1>2, <1>3, <1>4, <1>5, <1>6, <1>7, <1>8, <1>9, SubSteps DEF SubWriter

\* A canceled subscription has the deadline the purge scans for (cancel, reactivate,
\* resolveTransition), whichever requests and webhooks overwrite each other.
THEOREM CanceledIsPurgeable == Spec => []CanceledHasDeadline
  <1>1. Init => CanceledHasDeadline
    BY DEF Init, NoSub, CanceledHasDeadline
  <1>. QED  BY <1>1, TypedAlways, DeadlineStep, PTL DEF Spec

-------------------------------------------------------------------------------
(* The purge leaves no dependents.                                           *)

\* A subscription row exists after a step that gives life to an intent or adds an invoice.
LEMMA NewDependent ==
  ASSUME Typed, [Next]_vars
  PROVE  /\ \A i \in Intent : IsLive(i)' => IsLive(i) \/ SubExists'
         /\ invoices' # <<>> => invoices # <<>> \/ SubExists'
  <1>1. TypeOK /\ sub \in SubRow /\ intents \in [Intent -> IntentRow]
    BY DEF Typed, TypeOK
  <1>2. ASSUME NEW p \in Hook, Commit(p)
        PROVE  /\ \A i \in Intent : IsLive(i)' => IsLive(i)
               /\ invoices' # <<>> => invoices # <<>> \/ SubExists'
    <2>1. ASSUME UNCHANGED intents
                 \/ (\E status \in Live : OnIntent(p) /\ SetIntent(p, status))
          PROVE  \A i \in Intent : IsLive(i)' => IsLive(i)
      BY <1>1, <2>1, SetIntentKeeps DEF OnIntent, IsLive, Proc
    <2>2. \A i \in Intent : IsLive(i)' => IsLive(i)
      BY <1>2, <2>1 DEF Commit, CommitUnmatched, CommitRecurring, CommitMismatch, CommitFailure,
                        CommitActivation, CommitOverflow, CommitUpgrade, CommitSuccess, Live
    <2>3. CASE UNCHANGED invoices
      BY <2>2, <2>3
    <2>4. CASE ApplyLifecycleOnly(p)
      <3>1. sub' = sub => (invoices' # <<>> => invoices # <<>>)
        BY <1>1, <2>4, LifecycleInvoices DEF SameInvoices, Proc, TypeOK
      <3>2. sub' # sub => SubExists'
        BY <1>1, <2>4, LifecycleSub DEF Proc
      <3>. QED  BY <2>2, <3>1, <3>2
    <2>5. CASE CommitActivation(p) \/ CommitOverflow(p) \/ CommitUpgrade(p)
      <3>1. SubExists'
        BY <1>1, <2>5 DEF CommitActivation, CommitOverflow, CommitUpgrade, CommitSuccess,
                          RowStillThere, SubExists, SubRow
      <3>. QED  BY <2>2, <3>1
    <2>. QED  BY <1>2, <2>3, <2>4, <2>5
              DEF Commit, CommitUnmatched, CommitRecurring, CommitMismatch, CommitFailure
  <1>3. ASSUME NEW p \in Sweeper, Purge(p)
        PROVE  (\A i \in Intent : IsLive(i)' => IsLive(i)) /\ (invoices' # <<>> => invoices # <<>>)
    <2>1. CASE PurgeDelete(p)
      BY <1>1, <2>1 DEF PurgeDelete, IsLive, IntentRow, Live
    <2>. QED  BY <1>3, <2>1 DEF Purge, PurgeScan, PurgeRecheck, db, IsLive
  <1>4. ASSUME NEW p \in Api, Continue(p)
        PROVE  UNCHANGED invoices /\ \A i \in Intent : IsLive(i)' => IsLive(i) \/ SubExists'
    <2>1. ASSUME NEW i \in Intent, CreateIntent(p, i)
          PROVE  SubExists' /\ UNCHANGED invoices
      BY <2>1 DEF CreateIntent, RowStillThere, SubExists
    <2>2. CASE RecordRef(p)
      BY <1>1, <2>2 DEF RecordRef, IsLive, IntentRow
    <2>. QED  BY <1>4, <2>1, <2>2
              DEF Continue, CreateCharge, CancelWrite, ReactivateWrite, db, IsLive
  <1>5. ASSUME NEW p \in Api, Request(p)
        PROVE  UNCHANGED <<invoices, intents>>
    BY <1>5 DEF Request, InitiateRead, OverflowRead, PlanChangeRead, CancelRead, ReactivateRead, db
  <1>6. ASSUME Provider
        PROVE  UNCHANGED <<invoices, intents>>
    BY <1>6 DEF Provider, ChargePaid, ChargeFailed, ChargeRefunded, RecurringEvent, db
  <1>7. ASSUME \/ UNCHANGED vars \/ Tick \/ (\E pl \in Plan : SelectPlan(pl))
               \/ (\E p \in Proc : Crash(p)) \/ (\E p \in Hook, e \in Event : Deliver(p, e))
        PROVE  UNCHANGED <<invoices, intents>>
    BY <1>7 DEF vars, db, Tick, SelectPlan, Crash, Deliver
  <1>. QED  BY <1>2, <1>3, <1>4, <1>5, <1>6, <1>7 DEF Next, Webhook, IsLive

LEMMA OrphansStep ==
  ASSUME Typed, NoOrphans, [Next]_vars
  PROVE  NoOrphans'
  <1>1. CASE SubExists'
    BY <1>1 DEF NoOrphans
  <1>2. CASE ~SubExists' /\ ~SubExists
    <2>1. invoices = <<>> /\ \A i \in Intent : ~IsLive(i)
      BY <1>2 DEF NoOrphans
    <2>. QED  BY <1>2, <2>1, NewDependent DEF NoOrphans
  <1>3. CASE ~SubExists' /\ SubExists
    <2>1. sub \in SubRow
      BY DEF Typed, TypeOK
    <2>2. PICK p \in Sweeper : PurgeDelete(p)
      <3>1. \A pl \in Plan : SelectPlan(pl) => SubExists'
        BY <2>1 DEF SelectPlan, SubExists, SubRow, NoSub
      <3>2. \A p \in Api : CancelWrite(p) \/ ReactivateWrite(p) => SubExists'
        BY <2>1 DEF CancelWrite, ReactivateWrite, SubExists, SubRow
      <3>3. \A p \in Hook :
              CommitActivation(p) \/ CommitOverflow(p) \/ CommitUpgrade(p) => SubExists'
        BY <1>3, <2>1 DEF CommitActivation, CommitOverflow, CommitUpgrade, SubExists, SubRow
      <3>4. \A p \in Hook : ApplyLifecycleOnly(p) => SubExists'
        BY <1>3, LifecycleSub DEF Typed, Proc, SubExists
      <3>. QED  BY <1>3, <3>1, <3>2, <3>3, <3>4, SubSteps DEF SubWriter, SubExists
    <2>3. invoices' = <<>> /\ \A i \in Intent : ~IsLive(i)'
      BY <2>2 DEF PurgeDelete, Typed, TypeOK, IntentRow, IsLive, Live
    <2>. QED  BY <2>3 DEF NoOrphans
  <1>. QED  BY <1>1, <1>2, <1>3

\* The purge and the requests and webhooks that raced with it (purgeDueCanceled, the
\* foreign keys of PaymentIntent and Invoice) leave nothing behind a deleted subscription.
THEOREM PurgeLeavesNoOrphans == Spec => []NoOrphans
  <1>1. Init => NoOrphans
    BY DEF Init, NoOrphans, IsLive, NoIntentRow, Live
  <1>. QED  BY <1>1, TypedAlways, OrphansStep, PTL DEF Spec

-------------------------------------------------------------------------------
(* Extra child slots are never lost nor granted twice.                       *)

OverflowInvoices == {k \in DOMAIN invoices : invoices[k].purpose = "OVERFLOW"}

LEMMA OverflowFinite ==
  ASSUME TypeOK
  PROVE  IsFiniteSet(OverflowInvoices)
  <1>1. DOMAIN invoices = 1..Len(invoices) /\ Len(invoices) \in Nat
    BY DEF TypeOK
  <1>2. IsFiniteSet(1..Len(invoices))
    BY <1>1, FS_Interval
  <1>. QED  BY <1>1, <1>2, FS_Subset DEF OverflowInvoices

\* The slots of the row change only when an overflow invoice is written or the row is new.
LEMMA SlotsKept ==
  ASSUME Typed, [Next]_vars,
         \A p \in Hook : ~CommitOverflow(p),
         \A p \in Sweeper : ~PurgeDelete(p)
  PROVE  sub'.slots = sub.slots \/ (~SubExists /\ sub'.slots = 0)
  <1>1. TypeOK /\ sub \in SubRow
    BY DEF Typed, TypeOK
  <1>2. ASSUME NEW pl \in Plan, SelectPlan(pl)
        PROVE  sub'.slots = sub.slots \/ (~SubExists /\ sub'.slots = 0)
    BY <1>1, <1>2 DEF SelectPlan, SubRow, NoSub
  <1>3. ASSUME NEW p \in Api, CancelWrite(p) \/ ReactivateWrite(p)
        PROVE  sub'.slots = sub.slots
    BY <1>1, <1>3 DEF CancelWrite, ReactivateWrite, SubRow
  <1>4. ASSUME NEW p \in Hook, CommitActivation(p) \/ CommitUpgrade(p)
        PROVE  sub'.slots = sub.slots
    BY <1>1, <1>4 DEF CommitActivation, CommitUpgrade, SubRow
  <1>5. ASSUME NEW p \in Hook, ApplyLifecycleOnly(p)
        PROVE  sub'.slots = sub.slots
    <2>1. sub' = sub \/ sub' = [sub EXCEPT !.status = sub'.status]
      BY <1>1, <1>5, LifecycleSub DEF Proc
    <2>. QED  BY <1>1, <2>1 DEF SubRow
  <1>. QED  BY <1>2, <1>3, <1>4, <1>5, SubSteps DEF SubWriter

LEMMA SlotsStep ==
  ASSUME Typed, NoOrphans, SlotsMatchInvoices, [Next]_vars
  PROVE  SlotsMatchInvoices'
  <1>1. TypeOK /\ sub \in SubRow /\ sub.slots = Cardinality(OverflowInvoices)
    BY DEF Typed, TypeOK, SlotsMatchInvoices, OverflowInvoices
  <1>2. SUFFICES sub'.slots = Cardinality(OverflowInvoices')
    BY DEF SlotsMatchInvoices, OverflowInvoices
  <1>3. ASSUME NEW p \in Sweeper, PurgeDelete(p)
        PROVE  sub'.slots = Cardinality(OverflowInvoices')
    <2>1. sub'.slots = 0 /\ OverflowInvoices' = {}
      BY <1>3 DEF PurgeDelete, NoSub, OverflowInvoices
    <2>. QED  BY <2>1, FS_EmptySet
  <1>4. ASSUME NEW p \in Hook, CommitOverflow(p)
        PROVE  sub'.slots = Cardinality(OverflowInvoices')
    <2>1. CommitSuccess(p, "OVERFLOW")
      BY <1>4 DEF CommitOverflow
    <2>2. PICK n \in Nat \ DOMAIN invoices :
            /\ DOMAIN invoices' = DOMAIN invoices \cup {n}
            /\ \A k \in DOMAIN invoices : invoices'[k] = invoices[k]
            /\ invoices'[n].purpose = "OVERFLOW"
      BY <2>1, AppendInvoice
    <2>3. sub'.slots = sub.slots + 1
      BY <1>1, <1>4 DEF CommitOverflow, SlotsAfterGrant, SubRow
    <2>4. OverflowInvoices' = OverflowInvoices \cup {n} /\ n \notin OverflowInvoices
      BY <2>2 DEF OverflowInvoices
    <2>5. Cardinality(OverflowInvoices') = Cardinality(OverflowInvoices) + 1
      BY <1>1, <2>4, OverflowFinite, FS_AddElement
    <2>. QED  BY <1>1, <2>3, <2>5
  <1>5. ASSUME \A p \in Hook : ~CommitOverflow(p), \A p \in Sweeper : ~PurgeDelete(p)
        PROVE  sub'.slots = Cardinality(OverflowInvoices')
    <2>1. OverflowInvoices' = OverflowInvoices
      <3>1. CASE SameInvoices
        BY <3>1 DEF SameInvoices, OverflowInvoices
      <3>2. ASSUME NEW p \in Hook, NEW purpose \in Purpose, CommitSuccess(p, purpose),
                   purpose # "OVERFLOW"
            PROVE  OverflowInvoices' = OverflowInvoices
        <4>1. PICK n \in Nat \ DOMAIN invoices :
                /\ DOMAIN invoices' = DOMAIN invoices \cup {n}
                /\ \A k \in DOMAIN invoices : invoices'[k] = invoices[k]
                /\ invoices'[n].purpose = purpose
          BY <3>2, AppendsOne
        <4>2. ASSUME NEW k \in DOMAIN invoices'
              PROVE  invoices'[k].purpose = "OVERFLOW"
                       <=> k \in DOMAIN invoices /\ invoices[k].purpose = "OVERFLOW"
          <5>1. CASE k = n
            BY <3>2, <4>1, <5>1
          <5>2. CASE k # n
            BY <4>1, <5>2
          <5>. QED  BY <5>1, <5>2
        <4>. QED  BY <4>1, <4>2 DEF OverflowInvoices
      <3>. QED  BY <1>5, <3>1, <3>2, InvoiceSteps
    <2>2. ~SubExists => OverflowInvoices = {}
      BY DEF NoOrphans, OverflowInvoices
    <2>3. ~SubExists => sub.slots = 0
      BY <1>1, <2>2, FS_EmptySet
    <2>. QED  BY <1>1, <1>5, <2>1, <2>3, SlotsKept
  <1>. QED  BY <1>3, <1>4, <1>5

\* Webhooks that read the same row and race with each other, with cancellations, plan
\* changes and the purge (applyIntentEffect's OVERFLOW branch) neither lose a paid child
\* slot nor grant one that was not invoiced.
THEOREM SlotsAreInvoiced == Spec => []SlotsMatchInvoices
  <1>1. Init => SlotsMatchInvoices
    <2>1. ASSUME Init PROVE sub.slots = 0 /\ OverflowInvoices = {}
      BY <2>1 DEF Init, NoSub, OverflowInvoices
    <2>. QED  BY <2>1, FS_EmptySet DEF SlotsMatchInvoices, OverflowInvoices
  <1>. QED  BY <1>1, TypedAlways, PurgeLeavesNoOrphans, SlotsStep, PTL DEF Spec

-------------------------------------------------------------------------------
(* No period is given away.                                                  *)

ActivationInvoices == {k \in DOMAIN invoices : invoices[k].purpose = "ACTIVATION"}

PaidUntil == now + Period * (1 + Cardinality(ActivationInvoices))

\* Inductive: besides, what a worker has read of the row that is still there was paid for.
PeriodInv ==
  /\ sub.end <= PaidUntil
  /\ \A p \in Proc :
       /\ proc[p].at <= now /\ proc[p].snap.id <= sub.id
       /\ SubExists /\ proc[p].snap.id = sub.id => proc[p].snap.end <= PaidUntil

LEMMA ActivationCount ==
  ASSUME NEW rows \in Seq(InvoiceRow)
  PROVE  /\ IsFiniteSet({k \in DOMAIN rows : rows[k].purpose = "ACTIVATION"})
         /\ Cardinality({k \in DOMAIN rows : rows[k].purpose = "ACTIVATION"}) \in Nat
  <1>1. DOMAIN rows = 1..Len(rows) /\ Len(rows) \in Nat
    OBVIOUS
  <1>2. IsFiniteSet(1..Len(rows))
    BY <1>1, FS_Interval
  <1>. QED  BY <1>1, <1>2, FS_Subset, FS_CardinalityType

LEMMA ActivationTypes ==
  ASSUME TypeOK, TypeOK'
  PROVE  /\ IsFiniteSet(ActivationInvoices) /\ Cardinality(ActivationInvoices) \in Nat
         /\ IsFiniteSet(ActivationInvoices') /\ Cardinality(ActivationInvoices') \in Nat
  <1>1. invoices \in Seq(InvoiceRow) /\ invoices' \in Seq(InvoiceRow)
    BY DEF TypeOK
  <1>. QED  BY <1>1, ActivationCount DEF ActivationInvoices

LEMMA PeriodsNat ==
  ASSUME NEW t \in Nat, NEW n \in Nat
  PROVE  t + Period * (1 + n) \in Nat /\ t + Period * (1 + n) >= t + Period
  <1>1. Period \in Nat
    BY PeriodAssumption
  <1>2. Period * (1 + n) = Period + Period * n /\ Period * n \in Nat
    BY <1>1, TimesNat
  <1>. QED  BY <1>1, <1>2

LEMMA PaidUntilNat ==
  ASSUME TypeOK, TypeOK'
  PROVE  /\ PaidUntil \in Nat /\ PaidUntil >= now + Period
         /\ PaidUntil' \in Nat /\ PaidUntil' >= now' + Period
  <1>1. now \in Nat /\ now' \in Nat
    BY BillingAssumption DEF TypeOK
  <1>. QED  BY <1>1, ActivationTypes, PeriodsNat DEF PaidUntil

\* What a step does to the id and the end of the row.
LEMMA EndSteps ==
  ASSUME Typed, [Next]_vars,
         \A p \in Hook : ~CommitActivation(p),
         \A p \in Sweeper : ~PurgeDelete(p)
  PROVE  \/ sub'.id = sub.id /\ sub'.end = sub.end /\ (SubExists' => SubExists)
         \/ ~SubExists /\ sub'.id = sub.id + 1 /\ sub'.end = now + Period /\ UNCHANGED now
  <1>1. TypeOK /\ sub \in SubRow /\ (~SubExists <=> sub.status = "NONE")
    BY DEF Typed, TypeOK, SubExists
  <1>2. ASSUME NEW pl \in Plan, SelectPlan(pl)
        PROVE  \/ sub'.id = sub.id /\ sub'.end = sub.end /\ SubExists
               \/ ~SubExists /\ sub'.id = sub.id + 1 /\ sub'.end = now + Period /\ UNCHANGED now
    BY <1>1, <1>2 DEF SelectPlan, SubRow, NoSub
  <1>3. ASSUME NEW p \in Api, CancelWrite(p) \/ ReactivateWrite(p)
        PROVE  sub'.id = sub.id /\ sub'.end = sub.end /\ SubExists
    BY <1>1, <1>3 DEF CancelWrite, ReactivateWrite, SubRow, RowStillThere
  <1>4. ASSUME NEW p \in Hook, CommitOverflow(p) \/ CommitUpgrade(p)
        PROVE  sub'.id = sub.id /\ sub'.end = sub.end /\ SubExists
    BY <1>1, <1>4 DEF CommitOverflow, CommitUpgrade, CommitSuccess, SubRow, RowStillThere
  <1>5. ASSUME NEW p \in Hook, ApplyLifecycleOnly(p)
        PROVE  sub'.id = sub.id /\ sub'.end = sub.end /\ (SubExists' => SubExists)
    <2>1. sub' = sub \/ (SubExists /\ sub' = [sub EXCEPT !.status = sub'.status])
      BY <1>1, <1>5, LifecycleSub DEF Proc
    <2>. QED  BY <1>1, <2>1 DEF SubRow, SubExists
  <1>6. CASE UNCHANGED sub
    BY <1>6 DEF SubExists
  <1>. QED  BY <1>2, <1>3, <1>4, <1>5, <1>6, SubSteps DEF SubWriter

LEMMA NowSteps ==
  ASSUME Typed, [Next]_vars
  PROVE  now' >= now
  <1>1. now \in Nat
    BY BillingAssumption DEF Typed, TypeOK
  <1>2. CASE Tick
    BY <1>1, <1>2 DEF Tick
  <1>3. ASSUME NEW p \in Hook, Webhook(p)
        PROVE  UNCHANGED now
    BY <1>3, CommitIsCommitting DEF Webhook, Deliver, Committing
  <1>4. ASSUME NEW p \in Sweeper, Purge(p)
        PROVE  UNCHANGED now
    BY <1>4 DEF Purge, PurgeScan, PurgeRecheck, PurgeDelete
  <1>5. ASSUME NEW p \in Api, Request(p) \/ Continue(p)
        PROVE  UNCHANGED now
    BY <1>5 DEF Request, InitiateRead, OverflowRead, PlanChangeRead, CancelRead, ReactivateRead,
                Continue, CreateIntent, CreateCharge, RecordRef, CancelWrite, ReactivateWrite
  <1>6. ASSUME Provider \/ UNCHANGED vars \/ (\E pl \in Plan : SelectPlan(pl))
               \/ (\E p \in Proc : Crash(p))
        PROVE  UNCHANGED now
    BY <1>6 DEF Provider, ChargePaid, ChargeFailed, ChargeRefunded, RecurringEvent, vars,
                SelectPlan, Crash
  <1>. QED  BY <1>1, <1>2, <1>3, <1>4, <1>5, <1>6 DEF Next

\* While the row is not purged, its activation invoices stay.
LEMMA ActivationsGrow ==
  ASSUME Typed, [Next]_vars, \A p \in Sweeper : ~PurgeDelete(p)
  PROVE  Cardinality(ActivationInvoices) <= Cardinality(ActivationInvoices')
  <1>1. TypeOK /\ TypeOK' /\ IsFiniteSet(ActivationInvoices')
    BY TypedStep, ActivationTypes DEF Typed
  <1>2. ActivationInvoices \subseteq ActivationInvoices'
    <2>1. CASE SameInvoices
      BY <2>1 DEF SameInvoices, ActivationInvoices
    <2>2. ASSUME NEW p \in Hook, NEW purpose \in Purpose, CommitSuccess(p, purpose)
          PROVE  ActivationInvoices \subseteq ActivationInvoices'
      <3>1. /\ DOMAIN invoices \subseteq DOMAIN invoices'
            /\ \A k \in DOMAIN invoices : invoices'[k] = invoices[k]
        BY <2>2, AppendsOne
      <3>. QED  BY <3>1 DEF ActivationInvoices
    <2>. QED  BY <2>1, <2>2, InvoiceSteps
  <1>. QED  BY <1>1, <1>2, FS_Subset

LEMMA PaidUntilGrows ==
  ASSUME Typed, [Next]_vars, \A p \in Sweeper : ~PurgeDelete(p)
  PROVE  PaidUntil <= PaidUntil'
  <1> DEFINE n == Cardinality(ActivationInvoices)
             m == Cardinality(ActivationInvoices')
  <1>1. TypeOK /\ TypeOK'
    BY TypedStep DEF Typed
  <1>2. n \in Nat /\ m \in Nat /\ n <= m
    BY <1>1, ActivationTypes, ActivationsGrow
  <1>3. now \in Nat /\ now' \in Nat /\ now <= now' /\ Period \in Nat
    BY <1>1, NowSteps, BillingAssumption, PeriodAssumption DEF TypeOK
  <1> HIDE DEF n, m
  <1>4. Period * (1 + n) <= Period * (1 + m)
    BY <1>2, <1>3, TimesMono
  <1>5. Period * (1 + n) \in Nat /\ Period * (1 + m) \in Nat
    BY <1>2, <1>3, TimesNat
  <1>6. now + Period * (1 + n) <= now' + Period * (1 + m)
    BY <1>3, <1>4, <1>5
  <1>. QED  BY <1>6 DEF PaidUntil, n, m

\* The payment that extends the end adds the invoice that pays for it.
LEMMA ActivationPays ==
  ASSUME Typed, PeriodInv, [Next]_vars, NEW p \in Hook, CommitActivation(p)
  PROVE  sub'.id = sub.id /\ sub'.end <= PaidUntil' /\ SubExists
  <1>1. TypeOK /\ sub \in SubRow /\ p \in Proc /\ proc[p] \in Local /\ UNCHANGED now
    BY DEF Typed, TypeOK, Proc, CommitActivation, CommitSuccess, OnIntent, Committing
  <1>2. SubExists /\ sub.id = proc[p].snap.id
    BY DEF CommitActivation, CommitSuccess, RowStillThere
  <1>3. /\ proc[p].at \in Nat /\ proc[p].snap.end \in Nat
        /\ proc[p].at <= now /\ proc[p].snap.end <= PaidUntil
    BY <1>1, <1>2 DEF Local, SubRow, PeriodInv
  <1>4. PICK n \in Nat \ DOMAIN invoices :
          /\ DOMAIN invoices' = DOMAIN invoices \cup {n}
          /\ \A k \in DOMAIN invoices : invoices'[k] = invoices[k]
          /\ invoices'[n].purpose = "ACTIVATION"
    BY AppendsOne DEF CommitActivation
  <1>5. ActivationInvoices' = ActivationInvoices \cup {n} /\ n \notin ActivationInvoices
    BY <1>4 DEF ActivationInvoices
  <1> DEFINE c == Cardinality(ActivationInvoices)
  <1>a. TypeOK'
    BY TypedStep DEF Typed
  <1>6. c \in Nat /\ Cardinality(ActivationInvoices') = c + 1
    BY <1>1, <1>a, <1>5, ActivationTypes, FS_AddElement
  <1>7. now \in Nat /\ Period \in Nat
    BY <1>1, BillingAssumption, PeriodAssumption DEF TypeOK
  <1> HIDE DEF c
  <1>8. Period * (1 + (c + 1)) = Period * (1 + c) + Period
    BY <1>6, <1>7
  <1>9. PaidUntil' = now + (Period * (1 + c) + Period) /\ PaidUntil = now + Period * (1 + c)
    BY <1>1, <1>6, <1>8 DEF PaidUntil, c
  <1>10. PaidUntil \in Nat /\ PaidUntil >= now + Period /\ PaidUntil' = PaidUntil + Period
    BY <1>1, <1>a, <1>6, <1>7, <1>9, PaidUntilNat, TimesNat
  <1>11. /\ FreshPeriodEnd(proc[p].at) <= PaidUntil'
         /\ ExtendedPeriodEnd(proc[p].snap.end, proc[p].at) <= PaidUntil'
    BY <1>3, <1>7, <1>10 DEF FreshPeriodEnd, ExtendedPeriodEnd, LaterOf
  <1>12. /\ sub'.id = sub.id
         /\ sub'.end \in {FreshPeriodEnd(proc[p].at),
                          ExtendedPeriodEnd(proc[p].snap.end, proc[p].at)}
    BY <1>1 DEF CommitActivation, SubRow
  <1>. QED  BY <1>2, <1>11, <1>12

\* A worker keeps what it has read, drops it, or reads the row there is.
LEMMA SnapSteps ==
  ASSUME Typed, [Next]_vars, NEW p \in Proc
  PROVE  \/ proc'[p].snap = proc[p].snap /\ proc'[p].at = proc[p].at
         \/ proc'[p] = Idle
         \/ proc'[p].snap = sub /\ proc'[p].at = now /\ UNCHANGED <<now, sub>>
  <1>1. TypeOK /\ \A q \in Proc : proc[q] \in Local
    BY DEF Typed, TypeOK
  <1>2. ASSUME NEW q \in Proc, NEW l, Become(q, l)
        PROVE  proc'[q] = l /\ (q # p => proc'[p] = proc[p])
    BY <1>1, <1>2, OthersKeep
  <1>3. ASSUME NEW q \in Proc, Return(q)
        PROVE  proc'[p] = proc[p] \/ proc'[p] = Idle
    BY <1>2, <1>3 DEF Return
  <1>4. ASSUME NEW q \in Api, Request(q)
        PROVE  \/ proc'[p] = proc[p]
               \/ proc'[p].snap = sub /\ proc'[p].at = now /\ UNCHANGED <<now, sub>>
    <2>1. q \in Proc
      BY DEF Proc
    <2>2. PICK op \in {"ACTIVATION", "OVERFLOW", "UPGRADE", "cancel", "reactivate"},
               pl \in Plan \cup {NoPlan} :
            Become(q, [Reading(op) EXCEPT !.plan = pl]) \/ Become(q, Reading(op))
      BY <1>4 DEF Request, InitiateRead, OverflowRead, PlanChangeRead, CancelRead, ReactivateRead
    <2>3. Reading(op) \in Local /\ Reading(op).snap = sub /\ Reading(op).at = now
      BY <1>1, ReadingType DEF Op
    <2>4. [Reading(op) EXCEPT !.plan = pl].snap = sub /\ [Reading(op) EXCEPT !.plan = pl].at = now
      BY <2>3 DEF Local
    <2>5. UNCHANGED <<now, sub>>
      BY <1>4 DEF Request, InitiateRead, OverflowRead, PlanChangeRead, CancelRead, ReactivateRead,
                  db
    <2>. QED  BY <1>2, <2>1, <2>2, <2>3, <2>4, <2>5
  <1>5. ASSUME NEW q \in Api, Continue(q)
        PROVE  \/ proc'[p].snap = proc[p].snap /\ proc'[p].at = proc[p].at
               \/ proc'[p] = Idle
    <2>1. q \in Proc /\ proc[q] \in Local
      BY <1>1 DEF Proc
    <2>2. CASE RecordRef(q) \/ CancelWrite(q) \/ ReactivateWrite(q)
      BY <1>3, <2>1, <2>2 DEF RecordRef, CancelWrite, ReactivateWrite
    <2>3. ASSUME NEW i \in Intent, CreateIntent(q, i)
          PROVE  proc'[p].snap = proc[p].snap /\ proc'[p].at = proc[p].at
      <3> DEFINE l == [proc[q] EXCEPT !.op = "charge", !.it = i]
      <3>1. Become(q, l)
        BY <2>3 DEF CreateIntent
      <3>2. l.snap = proc[q].snap /\ l.at = proc[q].at
        BY <2>1 DEF Local
      <3>. HIDE DEF l
      <3>. QED  BY <1>2, <2>1, <3>1, <3>2
    <2>4. ASSUME CreateCharge(q)
          PROVE  proc'[p].snap = proc[p].snap /\ proc'[p].at = proc[p].at
      <3> DEFINE l == [proc[q] EXCEPT !.op = "setRef"]
      <3>1. Become(q, l)
        BY <2>4 DEF CreateCharge
      <3>2. l.snap = proc[q].snap /\ l.at = proc[q].at
        BY <2>1 DEF Local
      <3>. HIDE DEF l
      <3>. QED  BY <1>2, <2>1, <3>1, <3>2
    <2>. QED  BY <1>5, <2>2, <2>3, <2>4 DEF Continue
  <1>6. ASSUME NEW q \in Sweeper, Purge(q)
        PROVE  \/ proc'[p].snap = proc[p].snap /\ proc'[p].at = proc[p].at
               \/ proc'[p] = Idle
               \/ proc'[p].snap = sub /\ proc'[p].at = now /\ UNCHANGED <<now, sub>>
    <2>1. q \in Proc /\ proc[q] \in Local
      BY <1>1 DEF Proc
    <2>2. CASE PurgeScan(q)
      <3>1. Become(q, Reading("purge")) /\ UNCHANGED <<now, sub>>
        BY <2>2 DEF PurgeScan, db
      <3>2. Reading("purge").snap = sub /\ Reading("purge").at = now
        BY <1>1, ReadingType DEF Op
      <3>. QED  BY <1>2, <2>1, <3>1, <3>2
    <2>3. CASE Become(q, [proc[q] EXCEPT !.op = "purgeDelete"])
      BY <1>2, <2>1, <2>3 DEF Local
    <2>4. CASE Return(q)
      BY <1>3, <2>1, <2>4
    <2>. QED  BY <1>6, <2>2, <2>3, <2>4 DEF Purge, PurgeRecheck, PurgeDelete
  <1>7. ASSUME NEW q \in Hook, Commit(q)
        PROVE  proc'[p] = proc[p] \/ proc'[p] = Idle
    BY <1>3, <1>7, CommitIsCommitting DEF Committing, Proc
  <1>8. ASSUME NEW q \in Hook, NEW e \in Event, Deliver(q, e)
        PROVE  \/ proc'[p] = proc[p]
               \/ proc'[p].snap = sub /\ proc'[p].at = now /\ UNCHANGED <<now, sub>>
    <2>1. PICK k \in LastPaid(e) :
            Become(q, [Reading("webhook") EXCEPT !.ev = e, !.it = Resolve(e), !.last = k])
      BY <1>8 DEF Deliver
    <2>2. /\ Reading("webhook") \in Local
          /\ Reading("webhook").snap = sub /\ Reading("webhook").at = now
      BY <1>1, ReadingType DEF Op
    <2> DEFINE l == [Reading("webhook") EXCEPT !.ev = e, !.it = Resolve(e), !.last = k]
    <2>3. l.snap = sub /\ l.at = now
      BY <2>2 DEF Local
    <2>4. UNCHANGED <<now, sub>> /\ q \in Proc
      BY <1>8 DEF Deliver, db, Proc
    <2>. QED  BY <1>2, <2>1, <2>3, <2>4
  <1>9. ASSUME NEW q \in Proc, Crash(q)
        PROVE  proc'[p] = proc[p] \/ proc'[p] = Idle
    BY <1>3, <1>9 DEF Crash
  <1>10. ASSUME UNCHANGED vars \/ Tick \/ (\E pl \in Plan : SelectPlan(pl)) \/ Provider
         PROVE  UNCHANGED proc
    BY <1>10 DEF vars, Tick, SelectPlan, Provider, ChargePaid, ChargeFailed, ChargeRefunded,
                 RecurringEvent
  <1>. QED  BY <1>4, <1>5, <1>6, <1>7, <1>8, <1>9, <1>10 DEF Next, Webhook

\* The row after a step: the same one, its end still paid for, or another, or none.
LEMMA RowSteps ==
  ASSUME Typed, PeriodInv, [Next]_vars
  PROVE  /\ sub'.end <= PaidUntil' /\ sub.id <= sub'.id
         /\ SubExists' /\ sub'.id = sub.id => SubExists /\ PaidUntil <= PaidUntil'
  <1>a. TypeOK /\ TypeOK'
    BY TypedStep DEF Typed
  <1>b. sub \in SubRow /\ sub.id \in Nat /\ sub.end \in Nat
    BY <1>a, BillingAssumption DEF TypeOK, SubRow
  <1>c. now \in Nat /\ now' \in Nat /\ Period \in Nat
    BY <1>a, BillingAssumption, PeriodAssumption DEF TypeOK
  <1>d. /\ PaidUntil \in Nat /\ PaidUntil' \in Nat /\ PaidUntil' >= now' + Period
        /\ sub.end <= PaidUntil
    BY <1>a, PaidUntilNat DEF PeriodInv
  <1>1. /\ TypeOK /\ sub \in SubRow /\ sub.id \in Nat /\ sub.end \in Nat
        /\ now \in Nat /\ now' \in Nat /\ Period \in Nat
        /\ PaidUntil \in Nat /\ PaidUntil' \in Nat /\ PaidUntil' >= now' + Period
        /\ sub.end <= PaidUntil
    BY <1>a, <1>b, <1>c, <1>d
  <1>2. ASSUME NEW p \in Sweeper, PurgeDelete(p)
        PROVE  sub'.end = 0 /\ sub'.id = sub.id /\ ~SubExists'
    BY <1>1, <1>2 DEF PurgeDelete, NoSub, SubRow, SubExists
  <1>3. CASE \A p \in Sweeper : ~PurgeDelete(p)
    <2>1. PaidUntil <= PaidUntil'
      BY <1>3, PaidUntilGrows
    <2>2. ASSUME NEW p \in Hook, CommitActivation(p)
          PROVE  sub'.id = sub.id /\ sub'.end <= PaidUntil' /\ SubExists
      BY <2>2, ActivationPays
    <2>3. CASE sub'.id = sub.id /\ sub'.end = sub.end /\ (SubExists' => SubExists)
      BY <1>1, <2>1, <2>3
    <2>4. CASE ~SubExists /\ sub'.id = sub.id + 1 /\ sub'.end = now + Period /\ UNCHANGED now
      BY <1>1, <2>4
    <2>. QED  BY <1>1, <1>3, <2>1, <2>2, <2>3, <2>4, EndSteps
  <1>. QED  BY <1>1, <1>2, <1>3

LEMMA PeriodStep ==
  ASSUME Typed, PeriodInv, [Next]_vars
  PROVE  PeriodInv'
  <1>a. TypeOK /\ TypeOK'
    BY TypedStep DEF Typed
  <1>b. /\ sub.id \in Nat /\ sub'.id \in Nat /\ now \in Nat /\ now' \in Nat
    BY <1>a, BillingAssumption DEF TypeOK, SubRow
  <1>1. /\ sub.id \in Nat /\ sub'.id \in Nat /\ now \in Nat /\ now' \in Nat /\ now <= now'
        /\ PaidUntil \in Nat /\ PaidUntil' \in Nat
    BY <1>a, <1>b, PaidUntilNat, NowSteps
  <1>2. ASSUME NEW p \in Proc
        PROVE  /\ proc'[p].at <= now' /\ proc'[p].snap.id <= sub'.id
               /\ SubExists' /\ proc'[p].snap.id = sub'.id => proc'[p].snap.end <= PaidUntil'
    <2>1. /\ proc[p].at \in Nat /\ proc[p].snap.id \in Nat /\ proc[p].snap.end \in Nat
          /\ proc[p].at <= now /\ proc[p].snap.id <= sub.id
          /\ SubExists /\ proc[p].snap.id = sub.id => proc[p].snap.end <= PaidUntil
      BY BillingAssumption DEF Typed, TypeOK, Local, SubRow, PeriodInv
    <2>2. CASE proc'[p].snap = proc[p].snap /\ proc'[p].at = proc[p].at
      BY <1>1, <2>1, <2>2, RowSteps
    <2>3. CASE proc'[p] = Idle
      BY <1>1, <2>3 DEF Idle, NoSub
    <2>4. CASE proc'[p].snap = sub /\ proc'[p].at = now /\ UNCHANGED <<now, sub>>
      BY <1>1, <2>4, RowSteps
    <2>. QED  BY <2>2, <2>3, <2>4, SnapSteps
  <1>. QED  BY <1>2, RowSteps DEF PeriodInv

\* Two payments processed at once, a cancellation, a reactivation or a new row after the
\* purge (freshPeriodEnd and extendedPeriodEnd in applyIntentEffect) never give the family
\* a period that no activation invoice pays for.
THEOREM NoPeriodGivenAway == Spec => []PeriodIsPaid
  <1>1. Init => PeriodInv
    <2> SUFFICES ASSUME Init PROVE PeriodInv
      OBVIOUS
    <2>1. sub = NoSub /\ now = 0 /\ \A p \in Proc : proc[p] = Idle
      BY DEF Init
    <2>2. ActivationInvoices = {} /\ Cardinality({}) = 0
      BY FS_EmptySet DEF Init, ActivationInvoices
    <2>3. PaidUntil \in Nat
      BY <2>1, <2>2, PeriodsNat DEF PaidUntil
    <2>. QED  BY <2>1, <2>3 DEF PeriodInv, NoSub, Idle, SubExists
  <1>2. PeriodInv => PeriodIsPaid
    BY DEF PeriodInv, PeriodIsPaid, PaidUntil, ActivationInvoices
  <1>. QED  BY <1>1, <1>2, TypedAlways, PeriodStep, PTL DEF Spec

-------------------------------------------------------------------------------
(* No payment is lost between the ledger and its effect.                     *)

\* A charge, and so an event that names one, was made for an intent that had been
\* written; a webhook that was sent for an intent that still exists has found it.
LinkInv ==
  /\ \A p \in Proc : proc[p].op \in {"charge", "setRef"} => intents[proc[p].it].status # "NONE"
  /\ \A i \in Intent : charges[i].open => intents[i].status # "NONE"
  /\ \A e \in Event : sent[e].type # "none" /\ sent[e].intent \in Intent
                        => intents[sent[e].intent].status # "NONE"
  /\ \A p \in Hook : proc[p].op = "webhook" /\ sent[proc[p].ev].how = "intent"
                     /\ IsLive(sent[proc[p].ev].intent)
                        => proc[p].it = sent[proc[p].ev].intent
  /\ \A e \in ledger : sent[e].type # "none"

\* Once written, an intent keeps its amount, and once deleted it stays deleted.
LEMMA IntentSteps ==
  ASSUME Typed, [Next]_vars, NEW i \in Intent, intents[i].status # "NONE"
  PROVE  /\ intents'[i].status # "NONE"
         /\ intents'[i].amount = intents[i].amount
         /\ IsLive(i)' => IsLive(i)
  <1>1. TypeOK /\ intents \in [Intent -> IntentRow]
    BY DEF Typed, TypeOK
  <1>2. CASE UNCHANGED intents
    BY <1>2 DEF IsLive
  <1>3. ASSUME NEW p \in Hook, Commit(p)
        PROVE  /\ intents'[i].status # "NONE" /\ intents'[i].amount = intents[i].amount
               /\ IsLive(i)' => IsLive(i)
    <2>1. ASSUME NEW status \in Live, OnIntent(p), SetIntent(p, status)
          PROVE  /\ intents'[i].status # "NONE" /\ intents'[i].amount = intents[i].amount
                 /\ IsLive(i)' => IsLive(i)
      BY <1>1, <2>1, SetIntentKeeps DEF OnIntent, IsLive, Live, Proc
    <2>. QED  BY <1>2, <1>3, <2>1
              DEF Commit, CommitUnmatched, CommitRecurring, CommitMismatch, CommitFailure,
                  CommitActivation, CommitOverflow, CommitUpgrade, CommitSuccess, Live
  <1>4. ASSUME NEW p \in Sweeper, Purge(p)
        PROVE  /\ intents'[i].status # "NONE" /\ intents'[i].amount = intents[i].amount
               /\ IsLive(i)' => IsLive(i)
    <2>1. CASE PurgeDelete(p)
      BY <1>1, <2>1 DEF PurgeDelete, IsLive, IntentRow, Live
    <2>. QED  BY <1>2, <1>4, <2>1 DEF Purge, PurgeScan, PurgeRecheck, db
  <1>5. ASSUME NEW p \in Api, Continue(p)
        PROVE  /\ intents'[i].status # "NONE" /\ intents'[i].amount = intents[i].amount
               /\ IsLive(i)' => IsLive(i)
    <2>1. ASSUME NEW j \in Intent, CreateIntent(p, j)
          PROVE  intents'[i] = intents[i]
      BY <1>1, <2>1 DEF CreateIntent
    <2>2. CASE RecordRef(p)
      BY <1>1, <2>2 DEF RecordRef, IsLive, IntentRow
    <2>. QED  BY <1>2, <1>5, <2>1, <2>2
              DEF Continue, CreateCharge, CancelWrite, ReactivateWrite, db, IsLive
  <1>6. ASSUME NEW p \in Api, Request(p)
        PROVE  UNCHANGED intents
    BY <1>6 DEF Request, InitiateRead, OverflowRead, PlanChangeRead, CancelRead, ReactivateRead, db
  <1>7. ASSUME Provider
        PROVE  UNCHANGED intents
    BY <1>7 DEF Provider, ChargePaid, ChargeFailed, ChargeRefunded, RecurringEvent, db
  <1>8. ASSUME \/ UNCHANGED vars \/ Tick \/ (\E pl \in Plan : SelectPlan(pl))
               \/ (\E p \in Proc : Crash(p)) \/ (\E p \in Hook, e \in Event : Deliver(p, e))
        PROVE  UNCHANGED intents
    BY <1>8 DEF vars, db, Tick, SelectPlan, Crash, Deliver
  <1>. QED  BY <1>2, <1>3, <1>4, <1>5, <1>6, <1>7, <1>8 DEF Next, Webhook

\* How a step changes the charge made for one intent.
LEMMA ChargeSteps ==
  ASSUME Typed, [Next]_vars, NEW i \in Intent
  PROVE  \/ charges'[i].open = charges[i].open /\ charges'[i].amount = charges[i].amount
         \/ \E p \in Api : CreateCharge(p) /\ proc[p].it = i
  <1>1. charges \in [Intent -> Charge]
    BY DEF Typed, TypeOK
  <1>2. ASSUME NEW p \in Api, CreateCharge(p), proc[p].it # i
        PROVE  charges'[i] = charges[i]
    BY <1>1, <1>2 DEF CreateCharge
  <1>3. ASSUME Provider
        PROVE  charges'[i].open = charges[i].open /\ charges'[i].amount = charges[i].amount
    <2>1. ASSUME NEW e \in Event, NEW j \in Intent, NEW how \in How, ChargePaid(e, j, how)
          PROVE  charges'[i].open = charges[i].open /\ charges'[i].amount = charges[i].amount
      BY <1>1, <2>1 DEF ChargePaid, Charge
    <2>. QED  BY <1>3, <2>1 DEF Provider, ChargeFailed, ChargeRefunded, RecurringEvent
  <1>4. ASSUME NEW p \in Hook, Commit(p)
        PROVE  UNCHANGED charges
    BY <1>4, CommitIsCommitting DEF Committing, provider
  <1>5. ASSUME NEW p \in Sweeper, Purge(p)
        PROVE  UNCHANGED charges
    BY <1>5 DEF Purge, PurgeScan, PurgeRecheck, PurgeDelete, provider
  <1>6. ASSUME NEW p \in Api, Request(p) \/ Continue(p), ~CreateCharge(p)
        PROVE  UNCHANGED charges
    BY <1>6 DEF Request, InitiateRead, OverflowRead, PlanChangeRead, CancelRead, ReactivateRead,
                Continue, CreateIntent, RecordRef, CancelWrite, ReactivateWrite, provider
  <1>7. ASSUME \/ UNCHANGED vars \/ Tick \/ (\E pl \in Plan : SelectPlan(pl))
               \/ (\E p \in Proc : Crash(p)) \/ (\E p \in Hook, e \in Event : Deliver(p, e))
        PROVE  UNCHANGED charges
    BY <1>7 DEF vars, provider, Tick, SelectPlan, Crash, Deliver
  <1>. QED  BY <1>2, <1>3, <1>4, <1>5, <1>6, <1>7 DEF Next, Webhook

LEMMA LinkCharges ==
  ASSUME Typed, LinkInv, [Next]_vars, NEW i \in Intent, charges'[i].open
  PROVE  intents'[i].status # "NONE"
  <1>1. CASE charges[i].open
    BY <1>1, IntentSteps DEF LinkInv
  <1>2. ASSUME NEW p \in Api, CreateCharge(p), proc[p].it = i
        PROVE  intents'[i].status # "NONE"
    <2>1. intents[i].status # "NONE"
      BY <1>2 DEF CreateCharge, Proc, LinkInv
    <2>. QED  BY <2>1, IntentSteps
  <1>. QED  BY <1>1, <1>2, ChargeSteps

\* How a step changes what one worker holds.
LEMMA ProcSteps ==
  ASSUME Typed, [Next]_vars, NEW p \in Proc
  PROVE  \/ proc'[p] = proc[p]
         \/ proc'[p].op \notin {"charge", "setRef", "webhook"}
         \/ p \in Api /\ \E i \in Intent : CreateIntent(p, i)
         \/ p \in Api /\ CreateCharge(p)
         \/ p \in Hook /\ \E e \in Event : Deliver(p, e)
  <1>1. TypeOK /\ \A q \in Proc : proc[q] \in Local
    BY DEF Typed, TypeOK
  <1>2. ASSUME NEW q \in Proc, NEW l, Become(q, l)
        PROVE  proc'[q] = l /\ (q # p => proc'[p] = proc[p])
    BY <1>1, <1>2, OthersKeep
  <1>3. ASSUME NEW q \in Proc, Return(q)
        PROVE  proc'[p] = proc[p] \/ proc'[p].op = "idle"
    BY <1>2, <1>3 DEF Return, Idle
  <1>4. ASSUME NEW q \in Api, Request(q)
        PROVE  proc'[p] = proc[p] \/ proc'[p].op \notin {"charge", "setRef", "webhook"}
    <2>1. q \in Proc
      BY DEF Proc
    <2>2. PICK op \in {"ACTIVATION", "OVERFLOW", "UPGRADE", "cancel", "reactivate"},
               pl \in Plan \cup {NoPlan} :
            Become(q, [Reading(op) EXCEPT !.plan = pl]) \/ Become(q, Reading(op))
      BY <1>4 DEF Request, InitiateRead, OverflowRead, PlanChangeRead, CancelRead, ReactivateRead
    <2>3. Reading(op) \in Local /\ Reading(op).op = op
      BY <1>1, ReadingType DEF Op
    <2>4. [Reading(op) EXCEPT !.plan = pl].op = op
      BY <2>3 DEF Local
    <2>. QED  BY <1>2, <2>1, <2>2, <2>3, <2>4
  <1>5. ASSUME NEW q \in Api, Continue(q)
        PROVE  \/ proc'[p] = proc[p] \/ proc'[p].op = "idle"
               \/ q = p /\ ((\E i \in Intent : CreateIntent(p, i)) \/ CreateCharge(p))
    <2>1. q \in Proc
      BY DEF Proc
    <2>2. CASE RecordRef(q) \/ CancelWrite(q) \/ ReactivateWrite(q)
      BY <1>3, <2>1, <2>2 DEF RecordRef, CancelWrite, ReactivateWrite
    <2>3. CASE (\E i \in Intent : CreateIntent(q, i)) \/ CreateCharge(q)
      BY <1>2, <2>1, <2>3 DEF CreateIntent, CreateCharge
    <2>. QED  BY <1>5, <2>2, <2>3 DEF Continue
  <1>6. ASSUME NEW q \in Sweeper, Purge(q)
        PROVE  proc'[p] = proc[p] \/ proc'[p].op \notin {"charge", "setRef", "webhook"}
    <2>1. q \in Proc /\ proc[q] \in Local
      BY <1>1 DEF Proc
    <2>2. CASE Become(q, Reading("purge"))
      <3>1. Reading("purge").op = "purge"
        BY <1>1, ReadingType DEF Op
      <3>. QED  BY <1>2, <2>1, <2>2, <3>1
    <2>3. CASE Become(q, [proc[q] EXCEPT !.op = "purgeDelete"])
      <3>1. [proc[q] EXCEPT !.op = "purgeDelete"].op = "purgeDelete"
        BY <2>1 DEF Local
      <3>. QED  BY <1>2, <2>1, <2>3, <3>1
    <2>4. CASE Return(q)
      BY <1>3, <2>1, <2>4
    <2>. QED  BY <1>6, <2>2, <2>3, <2>4 DEF Purge, PurgeScan, PurgeRecheck, PurgeDelete
  <1>7. ASSUME NEW q \in Hook, Commit(q)
        PROVE  proc'[p] = proc[p] \/ proc'[p].op = "idle"
    BY <1>3, <1>7, CommitIsCommitting DEF Committing, Proc
  <1>8. ASSUME NEW q \in Hook, NEW e \in Event, Deliver(q, e)
        PROVE  proc'[p] = proc[p] \/ q = p
    BY <1>2, <1>8 DEF Deliver, Proc
  <1>9. ASSUME NEW q \in Proc, Crash(q)
        PROVE  proc'[p] = proc[p] \/ proc'[p].op = "idle"
    BY <1>3, <1>9 DEF Crash
  <1>10. ASSUME UNCHANGED vars \/ Tick \/ (\E pl \in Plan : SelectPlan(pl)) \/ Provider
         PROVE  UNCHANGED proc
    BY <1>10 DEF vars, Tick, SelectPlan, Provider, ChargePaid, ChargeFailed, ChargeRefunded,
                 RecurringEvent
  <1>. QED  BY <1>4, <1>5, <1>6, <1>7, <1>8, <1>9, <1>10 DEF Next, Webhook

LEMMA LinkHolders ==
  ASSUME Typed, LinkInv, [Next]_vars, NEW p \in Proc, proc'[p].op \in {"charge", "setRef"}
  PROVE  intents'[proc'[p].it].status # "NONE"
  <1>1. TypeOK /\ proc[p] \in Local /\ WorkerOK(p, proc[p])
    BY DEF Typed, TypeOK, WorkerInv
  <1>2. CASE proc'[p] = proc[p]
    BY <1>1, <1>2, IntentSteps DEF LinkInv, WorkerOK
  <1>3. ASSUME NEW i \in Intent, CreateIntent(p, i)
        PROVE  intents'[proc'[p].it].status # "NONE"
    <2>1. proc'[p] = [proc[p] EXCEPT !.op = "charge", !.it = i]
      BY <1>1, <1>3, OthersKeep DEF CreateIntent
    <2>2. proc'[p].it = i
      BY <1>1, <2>1 DEF Local
    <2>3. intents'[i].status = "CREATED"
      BY <1>1, <1>3 DEF CreateIntent, TypeOK
    <2>. QED  BY <2>2, <2>3
  <1>4. CASE CreateCharge(p)
    <2>1. proc'[p] = [proc[p] EXCEPT !.op = "setRef"]
      BY <1>1, <1>4, OthersKeep DEF CreateCharge
    <2>2. proc'[p].it = proc[p].it
      BY <1>1, <2>1 DEF Local
    <2>. QED  BY <1>1, <1>4, <2>2, IntentSteps DEF LinkInv, WorkerOK, CreateCharge
  <1>5. ASSUME NEW e \in Event, Deliver(p, e)
        PROVE  FALSE
    <2>1. PICK k \in LastPaid(e) :
            Become(p, [Reading("webhook") EXCEPT !.ev = e, !.it = Resolve(e), !.last = k])
      BY <1>5 DEF Deliver
    <2>2. proc'[p] = [Reading("webhook") EXCEPT !.ev = e, !.it = Resolve(e), !.last = k]
      BY <1>1, <2>1, OthersKeep
    <2>3. Reading("webhook") \in Local /\ Reading("webhook").op = "webhook"
      BY <1>1, ReadingType DEF Op
    <2>. QED  BY <2>2, <2>3 DEF Local
  <1>. QED  BY <1>2, <1>3, <1>4, <1>5, ProcSteps

\* Where an event comes from: a charge that was made, or no charge at all.
LEMMA EventSteps ==
  ASSUME Typed, [Next]_vars, NEW e \in Event
  PROVE  \/ sent'[e] = sent[e]
         \/ sent'[e].intent = NoIntent
         \/ /\ UNCHANGED intents
            /\ \E i \in Intent : /\ charges[i].open /\ sent'[e].intent = i
                                 /\ sent'[e].amount \in {NoAmount, charges[i].amount}
  <1>1. sent \in [Event -> EventRec \cup {NotSent}]
    BY DEF Typed, TypeOK
  <1>2. ASSUME Provider, sent'[e] # sent[e]
        PROVE  \/ sent'[e].intent = NoIntent
               \/ /\ UNCHANGED intents
                  /\ \E i \in Intent : /\ charges[i].open /\ sent'[e].intent = i
                                       /\ sent'[e].amount \in {NoAmount, charges[i].amount}
    <2>1. ASSUME NEW f \in Event, NEW rec, Emit(f, rec)
          PROVE  sent'[e] = rec
      BY <1>1, <1>2, <2>1 DEF Emit
    <2>2. ASSUME NEW f \in Event, NEW i \in Intent, NEW how \in How,
                 ChargePaid(f, i, how) \/ ChargeFailed(f, i, how) \/ ChargeRefunded(f, i, how)
          PROVE  /\ UNCHANGED intents /\ charges[i].open /\ sent'[e].intent = i
                 /\ sent'[e].amount \in {NoAmount, charges[i].amount}
      <3>1. PICK type, amount : /\ Emit(f, ChargeEvent(i, type, how, amount))
                                /\ amount \in {NoAmount, charges[i].amount}
        BY <2>2, BillingAssumption DEF ChargePaid, ChargeFailed, ChargeRefunded
      <3>2. sent'[e] = ChargeEvent(i, type, how, amount)
        BY <2>1, <3>1
      <3>3. charges[i].open /\ UNCHANGED intents
        BY <2>2 DEF ChargePaid, ChargeFailed, ChargeRefunded, db
      <3>. QED  BY <3>1, <3>2, <3>3 DEF ChargeEvent
    <2>3. ASSUME NEW f \in Event, NEW type \in EventType, RecurringEvent(f, type)
          PROVE  sent'[e].intent = NoIntent
      BY <2>1, <2>3 DEF RecurringEvent
    <2>. QED  BY <1>2, <2>2, <2>3 DEF Provider
  <1>3. ASSUME NEW p \in Hook, Commit(p)
        PROVE  UNCHANGED sent
    BY <1>3, CommitIsCommitting DEF Committing, provider
  <1>4. ASSUME NEW p \in Sweeper, Purge(p)
        PROVE  UNCHANGED sent
    BY <1>4 DEF Purge, PurgeScan, PurgeRecheck, PurgeDelete, provider
  <1>5. ASSUME NEW p \in Api, Request(p) \/ Continue(p)
        PROVE  UNCHANGED sent
    BY <1>5 DEF Request, InitiateRead, OverflowRead, PlanChangeRead, CancelRead, ReactivateRead,
                Continue, CreateIntent, CreateCharge, RecordRef, CancelWrite, ReactivateWrite,
                provider
  <1>6. ASSUME \/ UNCHANGED vars \/ Tick \/ (\E pl \in Plan : SelectPlan(pl))
               \/ (\E p \in Proc : Crash(p)) \/ (\E p \in Hook, f \in Event : Deliver(p, f))
        PROVE  UNCHANGED sent
    BY <1>6 DEF vars, provider, Tick, SelectPlan, Crash, Deliver
  <1>. QED  BY <1>2, <1>3, <1>4, <1>5, <1>6 DEF Next, Webhook

LEMMA LinkEvents ==
  ASSUME Typed, LinkInv, [Next]_vars, NEW e \in Event, sent'[e].type # "none",
         sent'[e].intent \in Intent
  PROVE  intents'[sent'[e].intent].status # "NONE"
  <1>1. CASE sent'[e] = sent[e]
    BY <1>1, IntentSteps DEF LinkInv
  <1>2. ASSUME UNCHANGED intents, NEW i \in Intent, charges[i].open, sent'[e].intent = i
        PROVE  intents'[sent'[e].intent].status # "NONE"
    BY <1>2 DEF LinkInv
  <1>. QED  BY <1>1, <1>2, EventSteps, BillingAssumption

LEMMA LinkWebhook ==
  ASSUME Typed, LinkInv, [Next]_vars, NEW p \in Hook, proc'[p].op = "webhook",
         sent'[proc'[p].ev].how = "intent", IsLive(sent[proc[p].ev].intent)'
  PROVE  proc'[p].it = sent'[proc'[p].ev].intent
  <1>1. p \in Proc /\ TypeOK /\ proc[p] \in Local /\ WorkerOK(p, proc[p])
    BY DEF Proc, Typed, TypeOK, WorkerInv
  <1>2. CASE proc'[p] = proc[p]
    <2>1. proc[p].ev \in Event /\ sent[proc[p].ev].type # "none"
      BY <1>1, <1>2 DEF WorkerOK
    <2>2. sent'[proc[p].ev] = sent[proc[p].ev]
      BY <2>1, Monotone
    <2>3. sent[proc[p].ev].intent \in Intent
      BY <1>2, <2>2 DEF IsLive
    <2>4. IsLive(sent[proc[p].ev].intent)
      <3> DEFINE i == sent[proc[p].ev].intent
      <3>1. intents[i].status # "NONE" /\ i \in Intent
        BY <2>1, <2>3 DEF LinkInv
      <3>2. intents'[i].status \in Live
        BY <1>2, <2>2 DEF IsLive
      <3>. QED  BY <3>1, <3>2, IntentSteps DEF IsLive
    <2>. QED  BY <1>2, <2>2, <2>4 DEF LinkInv
  <1>3. ASSUME NEW e \in Event, Deliver(p, e)
        PROVE  proc'[p].it = sent'[proc'[p].ev].intent
    <2>1. PICK k \in LastPaid(e) :
            Become(p, [Reading("webhook") EXCEPT !.ev = e, !.it = Resolve(e), !.last = k])
      BY <1>3 DEF Deliver
    <2>2. proc'[p] = [Reading("webhook") EXCEPT !.ev = e, !.it = Resolve(e), !.last = k]
      BY <1>1, <2>1, OthersKeep
    <2>3. Reading("webhook") \in Local
      BY <1>1, ReadingType DEF Op
    <2>4. proc'[p].ev = e /\ proc'[p].it = Resolve(e)
      BY <2>2, <2>3 DEF Local
    <2>5. UNCHANGED <<sent, intents>>
      BY <1>3 DEF Deliver, db, provider
    <2>6. sent[e].how = "intent" /\ IsLive(sent[e].intent)
      BY <2>4, <2>5 DEF IsLive
    <2>. QED  BY <2>4, <2>5, <2>6 DEF Resolve
  <1>4. ASSUME (\E i \in Intent : CreateIntent(p, i)) \/ CreateCharge(p)
        PROVE  FALSE
    <2>1. PICK op \in {"charge", "setRef"}, i \in Intent \cup {NoIntent} :
            proc'[p] = [proc[p] EXCEPT !.op = op, !.it = i]
                \/ proc'[p] = [proc[p] EXCEPT !.op = op]
      <3>1. ASSUME NEW i \in Intent, CreateIntent(p, i)
            PROVE  proc'[p] = [proc[p] EXCEPT !.op = "charge", !.it = i]
        BY <1>1, <3>1, OthersKeep DEF CreateIntent
      <3>2. ASSUME CreateCharge(p)
            PROVE  proc'[p] = [proc[p] EXCEPT !.op = "setRef"]
        BY <1>1, <3>2, OthersKeep DEF CreateCharge
      <3>. QED  BY <1>4, <3>1, <3>2
    <2>2. proc'[p].op = op
      BY <1>1, <2>1 DEF Local
    <2>. QED  BY <1>1, <2>2
  <1>. QED  BY <1>1, <1>2, <1>3, <1>4, ProcSteps

LEMMA LinkStep ==
  ASSUME Typed, LinkInv, [Next]_vars
  PROVE  LinkInv'
  <1>1. ASSUME NEW e \in ledger'
        PROVE  sent'[e].type # "none"
    <2>1. CASE e \in ledger
      BY <2>1, Monotone DEF LinkInv, Typed, TypeOK
    <2>2. ASSUME NEW p \in Hook, Commit(p), proc[p].ev = e
          PROVE  sent'[e].type # "none"
      <3>1. e \in Event /\ sent[e].type # "none"
        BY <2>2, CommitIsCommitting DEF Committing, Typed, WorkerInv, WorkerOK, Proc
      <3>. QED  BY <3>1, Monotone
    <2>. QED  BY <2>1, <2>2, Monotone
  <1>. QED  BY <1>1, LinkHolders, LinkCharges, LinkEvents, LinkWebhook DEF LinkInv

LEMMA EffectStep ==
  ASSUME Typed, LinkInv, LedgerRowMeansEffect, [Next]_vars
  PROVE  LedgerRowMeansEffect'
  <1> SUFFICES ASSUME NEW e \in ledger', sent'[e].how = "intent", IsSuccess(sent'[e].type),
                      IsLive(sent[e].intent)',
                      sent'[e].amount \in {NoAmount, intents'[sent'[e].intent].amount}
               PROVE  \E k \in DOMAIN invoices' : invoices'[k].event = e
    BY DEF LedgerRowMeansEffect, Invoiced
  <1>1. ASSUME e \in Event, sent[e].type # "none"
        PROVE  /\ sent'[e] = sent[e] /\ IsLive(sent[e].intent)
               /\ intents'[sent[e].intent].amount = intents[sent[e].intent].amount
    <2>1. sent'[e] = sent[e] /\ sent[e].intent \in Intent
      BY <1>1, Monotone DEF IsLive
    <2>2. intents[sent[e].intent].status # "NONE"
      BY <1>1, <2>1 DEF LinkInv
    <2>. QED  BY <2>1, <2>2, IntentSteps
  <1>2. CASE e \in ledger
    <2>1. e \in Event /\ sent[e].type # "none"
      BY <1>2 DEF LinkInv, Typed, TypeOK
    <2>2. PICK k \in DOMAIN invoices : invoices[k].event = e
      BY <1>1, <1>2, <2>1 DEF LedgerRowMeansEffect, Invoiced
    <2>3. ASSUME NEW p \in Sweeper, PurgeDelete(p)
          PROVE  FALSE
      BY <2>3 DEF PurgeDelete, IsLive, Live, Typed, TypeOK, IntentRow
    <2>4. CASE SameInvoices
      BY <2>2, <2>4 DEF SameInvoices
    <2>5. ASSUME NEW p \in Hook, NEW purpose \in Purpose, CommitSuccess(p, purpose)
          PROVE  k \in DOMAIN invoices' /\ invoices'[k].event = e
      BY <2>2, <2>5, AppendInvoice
    <2>. QED  BY <2>2, <2>3, <2>4, <2>5, InvoiceSteps
  <1>3. ASSUME NEW p \in Hook, Commit(p), proc[p].ev = e
        PROVE  \E k \in DOMAIN invoices' : invoices'[k].event = e
    <2>1. e \in Event /\ sent[e].type # "none" /\ proc[p].op = "webhook"
      BY <1>3, CommitIsCommitting DEF Committing, Typed, WorkerInv, WorkerOK, Proc
    <2>2. /\ sent'[e] = sent[e] /\ IsLive(sent[e].intent)
          /\ intents'[sent[e].intent].amount = intents[sent[e].intent].amount
      BY <1>1, <2>1
    <2>3. proc[p].it = sent[e].intent /\ proc[p].it # NoIntent
      BY <1>3, <2>1, <2>2, BillingAssumption DEF LinkInv, IsLive
    <2>4. IsSuccess(sent[e].type) /\ AmountMatches(p)
      BY <1>3, <2>2, <2>3 DEF AmountMatches
    <2>5. PICK purpose : CommitSuccess(p, purpose)
      BY <1>3, <2>3, <2>4, PaidCommit
    <2>6. PICK n \in Nat \ DOMAIN invoices :
            n \in DOMAIN invoices' /\ invoices'[n].event = proc[p].ev
      BY <2>5, AppendsOne
    <2>. QED  BY <1>3, <2>6
  <1>. QED  BY <1>2, <1>3, Monotone

LEMMA LinkInit == Init => LinkInv /\ LedgerRowMeansEffect
  <1> SUFFICES ASSUME Init PROVE LinkInv /\ LedgerRowMeansEffect
    OBVIOUS
  <1>1. \A p \in Proc : proc[p].op = "idle"
    BY DEF Init, Idle
  <1>2. \A i \in Intent : charges[i].open = FALSE
    BY DEF Init, NoCharge
  <1>3. \A e \in Event : sent[e].type = "none"
    BY DEF Init, NotSent
  <1>4. ledger = {}
    BY DEF Init
  <1>. QED  BY <1>1, <1>2, <1>3, <1>4 DEF LinkInv, LedgerRowMeansEffect, Proc

\* Once the ledger row of a settled payment is committed, so is its invoice: no crash,
\* redelivery or interleaving (processWebhook's transaction) loses the payment of an
\* intent that still exists.
THEOREM NoPaymentLost == Spec => []LedgerRowMeansEffect
  BY LinkInit, TypedAlways, LinkStep, EffectStep, PTL DEF Spec

-------------------------------------------------------------------------------
(* What is charged is what was quoted.                                       *)

\* The terms of an intent are written once, by the request that creates it.
LEMMA IntentTerms ==
  ASSUME Typed, [Next]_vars, NEW i \in Intent
  PROVE  \/ /\ intents'[i].status # "NONE" => intents[i].status # "NONE"
            /\ intents'[i].purpose = intents[i].purpose
            /\ intents'[i].target = intents[i].target
            /\ intents'[i].amount = intents[i].amount
         \/ \E p \in Api : CreateIntent(p, i)
  <1> DEFINE Keeps ==
        /\ intents'[i].status # "NONE" => intents[i].status # "NONE"
        /\ intents'[i].purpose = intents[i].purpose
        /\ intents'[i].target = intents[i].target
        /\ intents'[i].amount = intents[i].amount
  <1>1. TypeOK /\ intents \in [Intent -> IntentRow]
    BY DEF Typed, TypeOK
  <1>2. CASE UNCHANGED intents
    BY <1>2
  <1>3. ASSUME NEW p \in Hook, Commit(p)
        PROVE  Keeps
    <2>1. ASSUME NEW status \in Live, OnIntent(p), SetIntent(p, status)
          PROVE  Keeps
      BY <1>1, <2>1, SetIntentKeeps DEF OnIntent, IsLive, Live, Proc
    <2>. QED  BY <1>2, <1>3, <2>1
              DEF Commit, CommitUnmatched, CommitRecurring, CommitMismatch, CommitFailure,
                  CommitActivation, CommitOverflow, CommitUpgrade, CommitSuccess, Live
  <1>4. ASSUME NEW p \in Sweeper, Purge(p)
        PROVE  Keeps
    <2>1. CASE PurgeDelete(p)
      BY <1>1, <2>1 DEF PurgeDelete, IsLive, IntentRow, Live
    <2>. QED  BY <1>2, <1>4, <2>1 DEF Purge, PurgeScan, PurgeRecheck, db
  <1>5. ASSUME NEW p \in Api, Continue(p), ~CreateIntent(p, i)
        PROVE  Keeps
    <2>1. ASSUME NEW j \in Intent \ {i}, CreateIntent(p, j)
          PROVE  intents'[i] = intents[i]
      BY <1>1, <2>1 DEF CreateIntent
    <2>2. CASE RecordRef(p)
      BY <1>1, <2>2 DEF RecordRef, IsLive, IntentRow, Live
    <2>. QED  BY <1>2, <1>5, <2>1, <2>2
              DEF Continue, CreateCharge, CancelWrite, ReactivateWrite, db
  <1>6. ASSUME NEW p \in Api, Request(p)
        PROVE  UNCHANGED intents
    BY <1>6 DEF Request, InitiateRead, OverflowRead, PlanChangeRead, CancelRead, ReactivateRead, db
  <1>7. ASSUME Provider
        PROVE  UNCHANGED intents
    BY <1>7 DEF Provider, ChargePaid, ChargeFailed, ChargeRefunded, RecurringEvent, db
  <1>8. ASSUME \/ UNCHANGED vars \/ Tick \/ (\E pl \in Plan : SelectPlan(pl))
               \/ (\E p \in Proc : Crash(p)) \/ (\E p \in Hook, e \in Event : Deliver(p, e))
        PROVE  UNCHANGED intents
    BY <1>8 DEF vars, db, Tick, SelectPlan, Crash, Deliver
  <1>. QED  BY <1>2, <1>3, <1>4, <1>5, <1>6, <1>7, <1>8 DEF Next, Webhook

\* Every intent that was written is fairly quoted, and the amounts of charges and events
\* are that of the intent, or what the hosted invoice makes of it.
Asked(i) == {intents[i].amount, HostedAmount(intents[i].amount)}

QuoteInv ==
  /\ \A i \in Intent : intents[i].status # "NONE" => FairlyQuoted(i)
  /\ \A i \in Intent : charges[i].open => charges[i].amount \in Asked(i)
  /\ \A e \in Event : sent[e].type # "none" /\ sent[e].intent \in Intent
                        => sent[e].amount \in {NoAmount} \cup Asked(sent[e].intent)

LEMMA QuotedIntents ==
  ASSUME Typed, QuoteInv, [Next]_vars, NEW i \in Intent, intents'[i].status # "NONE"
  PROVE  FairlyQuoted(i)'
  <1>1. ASSUME NEW p \in Api, CreateIntent(p, i)
        PROVE  FairlyQuoted(i)'
    <2>1. p \in Proc /\ TypeOK /\ WorkerInv /\ proc[p].op \in Purpose
      BY <1>1 DEF Proc, Typed, CreateIntent
    <2>2. /\ intents'[i].purpose = proc[p].op /\ intents'[i].target = proc[p].plan
          /\ intents'[i].amount = ExpectedAmount(proc[p])
      BY <1>1, <2>1 DEF CreateIntent, TypeOK
    <2>. QED  BY <2>1, <2>2, ExpectedAmountBound DEF FairlyQuoted
  <1>2. CASE ~\E p \in Api : CreateIntent(p, i)
    BY <1>2, IntentTerms DEF QuoteInv, FairlyQuoted
  <1>. QED  BY <1>1, <1>2

\* What was asked for a written intent stays what was asked for it.
LEMMA AskedKeeps ==
  ASSUME Typed, [Next]_vars, NEW i \in Intent, intents[i].status # "NONE"
  PROVE  Asked(i)' = Asked(i)
  BY IntentSteps DEF Asked

LEMMA QuotedCharges ==
  ASSUME Typed, LinkInv, QuoteInv, [Next]_vars, NEW i \in Intent, charges'[i].open
  PROVE  charges'[i].amount \in Asked(i)'
  <1>1. CASE charges[i].open /\ charges'[i].amount = charges[i].amount
    <2>1. intents[i].status # "NONE" /\ charges[i].amount \in Asked(i)
      BY <1>1 DEF LinkInv, QuoteInv
    <2>. QED  BY <1>1, <2>1, AskedKeeps
  <1>2. ASSUME NEW p \in Api, CreateCharge(p), proc[p].it = i
        PROVE  charges'[i].amount \in Asked(i)'
    <2>1. charges'[i].amount \in Asked(i)
      BY <1>2 DEF CreateCharge, Asked, Typed, TypeOK, Charge
    <2>2. UNCHANGED intents
      BY <1>2 DEF CreateCharge, db
    <2>. QED  BY <2>1, <2>2 DEF Asked
  <1>. QED  BY <1>1, <1>2, ChargeSteps

LEMMA QuotedEvents ==
  ASSUME Typed, LinkInv, QuoteInv, [Next]_vars, NEW e \in Event, sent'[e].type # "none",
         sent'[e].intent \in Intent
  PROVE  sent'[e].amount \in {NoAmount} \cup Asked(sent[e].intent)'
  <1>1. CASE sent'[e] = sent[e]
    <2> DEFINE i == sent[e].intent
    <2>1. i \in Intent /\ intents[i].status # "NONE" /\ sent[e].amount \in {NoAmount} \cup Asked(i)
      BY <1>1 DEF LinkInv, QuoteInv
    <2>2. intents'[i].amount = intents[i].amount
      BY <2>1, IntentSteps
    <2>. QED  BY <1>1, <2>1, <2>2 DEF Asked
  <1>2. ASSUME UNCHANGED intents, NEW i \in Intent, charges[i].open, sent'[e].intent = i,
               sent'[e].amount \in {NoAmount, charges[i].amount}
        PROVE  sent'[e].amount \in {NoAmount} \cup Asked(sent[e].intent)'
    BY <1>2 DEF QuoteInv, Asked
  <1>. QED  BY <1>1, <1>2, EventSteps, BillingAssumption

LEMMA QuoteStep ==
  ASSUME Typed, LinkInv, QuoteInv, [Next]_vars
  PROVE  QuoteInv'
  BY QuotedIntents, QuotedCharges, QuotedEvents DEF QuoteInv

LEMMA QuoteInit == Init => QuoteInv
  <1> SUFFICES ASSUME Init PROVE QuoteInv
    OBVIOUS
  <1>1. \A i \in Intent : intents[i].status = "NONE" /\ charges[i].open = FALSE
    BY DEF Init, NoIntentRow, NoCharge
  <1>2. \A e \in Event : sent[e].type = "none"
    BY DEF Init, NotSent
  <1>. QED  BY <1>1, <1>2 DEF QuoteInv

\* However long a request waits between reading the subscription and writing its intent
\* (initiate, overflow and planChange), the parent is asked for no more than the full
\* price, and the hosted invoice (Moyasar's createCharge) adds less than 10 halalas to it.
THEOREM NeverOvercharged == Spec => []ChargesAsQuoted
  <1>1. Typed /\ LinkInv /\ QuoteInv => ChargesAsQuoted
    <2> SUFFICES ASSUME Typed, LinkInv, QuoteInv, NEW i \in Intent, charges[i].open
                 PROVE  FairlyQuoted(i) /\ charges[i].amount - intents[i].amount \in 0..9
      BY DEF ChargesAsQuoted
    <2>1. FairlyQuoted(i) /\ charges[i].amount \in Asked(i)
      BY DEF LinkInv, QuoteInv
    <2>2. intents[i].amount \in Nat
      BY DEF Typed, TypeOK, IntentRow
    <2>3. HostedAmount(intents[i].amount) - intents[i].amount \in 0..9
      BY <2>2, HostedAmountBound
    <2>. QED  BY <2>1, <2>2, <2>3 DEF Asked
  <1>. QED  BY <1>1, LinkInit, QuoteInit, TypedAlways, LinkStep, QuoteStep, PTL DEF Spec

\* The rounding of hosted invoices is all that keeps a settled charge from its effect
\* (applyIntentEffect's amount guard): for a multiple of 10 halalas, a processed success
\* of an intent that still exists has its invoice.
THEOREM RoundChargesTakeEffect == Spec => []SettledRoundChargeTakesEffect
  <1>1. Typed /\ LinkInv /\ QuoteInv /\ LedgerRowMeansEffect => SettledRoundChargeTakesEffect
    <2> SUFFICES ASSUME Typed, LinkInv, QuoteInv, LedgerRowMeansEffect, NEW e \in ledger,
                        sent[e].how = "intent", IsSuccess(sent[e].type),
                        IsLive(sent[e].intent), intents[sent[e].intent].amount % 10 = 0
                 PROVE  Invoiced(e) # {}
      BY DEF SettledRoundChargeTakesEffect
    <2> DEFINE i == sent[e].intent
    <2>1. e \in Event /\ sent[e].type # "none" /\ i \in Intent
      BY DEF Typed, TypeOK, LinkInv, IsLive
    <2>2. intents[i].amount \in Nat
      BY <2>1 DEF Typed, TypeOK, IntentRow
    <2>3. HostedAmount(intents[i].amount) = intents[i].amount
      BY <2>2, HostedAmountBound
    <2>4. sent[e].amount \in {NoAmount, intents[i].amount}
      BY <2>1, <2>3 DEF QuoteInv, Asked
    <2>. QED  BY <2>4 DEF LedgerRowMeansEffect
  <1>. QED  BY <1>1, LinkInit, QuoteInit, TypedAlways, LinkStep, EffectStep, QuoteStep, PTL DEF Spec

-------------------------------------------------------------------------------
(* Invoices are voided by refunds.                                           *)

Voided == {k \in DOMAIN invoices : invoices[k].status = "VOID"}
Refunds == {e \in ledger : sent[e].type = "refunded"}

\* Inductive: besides, only the delivery of a refund holds an invoice to void.
VoidInv ==
  /\ IsFiniteSet(ledger)
  /\ \A p \in Hook :
       proc[p].op = "webhook" /\ proc[p].last # 0 => sent[proc[p].ev].type = "refunded"
  /\ Cardinality(Voided) <= Cardinality(Refunds)

LEMMA VoidedFinite ==
  ASSUME TypeOK
  PROVE  IsFiniteSet(Voided) /\ Cardinality(Voided) \in Nat
  <1>1. DOMAIN invoices = 1..Len(invoices) /\ Len(invoices) \in Nat
    BY DEF TypeOK
  <1>2. IsFiniteSet(1..Len(invoices))
    BY <1>1, FS_Interval
  <1>. QED  BY <1>1, <1>2, FS_Subset, FS_CardinalityType DEF Voided

LEMMA RefundsGrow ==
  ASSUME Typed, VoidInv, [Next]_vars
  PROVE  /\ IsFiniteSet(ledger') /\ IsFiniteSet(Refunds) /\ IsFiniteSet(Refunds')
         /\ Refunds \subseteq Refunds' /\ Cardinality(Refunds) <= Cardinality(Refunds')
         /\ Cardinality(Refunds) \in Nat /\ Cardinality(Refunds') \in Nat
  <1>1. ledger \subseteq Event /\ IsFiniteSet(ledger)
    BY DEF Typed, TypeOK, VoidInv
  <1>2. IsFiniteSet(ledger')
    <2>1. CASE ledger' \ ledger = {}
      BY <1>1, <2>1, Monotone, FS_Subset
    <2>2. ASSUME NEW p \in Hook, Commit(p)
          PROVE  IsFiniteSet(ledger')
      BY <1>1, <2>2, CommitIsCommitting, FS_AddElement DEF Committing
    <2>. QED  BY <2>1, <2>2, Monotone
  <1>3. Refunds \subseteq Refunds'
    BY <1>1, Monotone DEF Refunds
  <1>4. Refunds \subseteq ledger /\ Refunds' \subseteq ledger'
    BY DEF Refunds
  <1>. QED  BY <1>1, <1>2, <1>3, <1>4, FS_Subset, FS_CardinalityType

\* A step that voids an invoice commits a refund, and voids the one it holds.
LEMMA VoidSteps ==
  ASSUME Typed, VoidInv, [Next]_vars
  PROVE  \/ Voided' \subseteq Voided
         \/ \E p \in Hook :
              /\ Committing(p) /\ UNCHANGED sent /\ proc[p].ev \notin ledger
              /\ sent[proc[p].ev].type = "refunded"
              /\ Voided' \subseteq Voided \cup {proc[p].last}
  <1>0. /\ \A k \in DOMAIN invoices : invoices[k] \in InvoiceRow /\ k # 0
        /\ \A p \in Hook : p \in Proc
    BY DEF Typed, TypeOK, Proc
  <1>1. CASE UNCHANGED invoices
    BY <1>1 DEF Voided
  <1>2. ASSUME NEW p \in Hook, Commit(p), ApplyLifecycleOnly(p)
        PROVE  \/ Voided' \subseteq Voided
               \/ /\ Committing(p) /\ UNCHANGED sent /\ proc[p].ev \notin ledger
                  /\ sent[proc[p].ev].type = "refunded"
                  /\ Voided' \subseteq Voided \cup {proc[p].last}
    <2>1. /\ Committing(p) /\ UNCHANGED sent /\ proc[p].op = "webhook"
          /\ proc[p].ev \notin ledger
      BY <1>0, <1>2, CommitIsCommitting DEF Committing, provider, Typed, WorkerInv, WorkerOK
    <2>2. /\ DOMAIN invoices' = DOMAIN invoices
          /\ \A k \in DOMAIN invoices : k # proc[p].last => invoices'[k] = invoices[k]
      BY <1>2 DEF ApplyLifecycleOnly
    <2>3. Voided' \subseteq Voided \cup {proc[p].last}
      BY <2>2 DEF Voided
    <2>4. CASE proc[p].last # 0
      BY <2>1, <2>3, <2>4 DEF VoidInv
    <2>5. CASE proc[p].last = 0
      BY <1>0, <2>2, <2>5 DEF Voided
    <2>. QED  BY <2>4, <2>5
  <1>3. ASSUME NEW p \in Hook, NEW purpose \in Purpose, CommitSuccess(p, purpose)
        PROVE  Voided' \subseteq Voided
    <2>1. PICK n \in Nat \ DOMAIN invoices :
            /\ DOMAIN invoices' = DOMAIN invoices \cup {n}
            /\ \A k \in DOMAIN invoices : invoices'[k] = invoices[k]
            /\ invoices'[n].status = "PAID"
      BY <1>3, AppendInvoice
    <2>. QED  BY <2>1 DEF Voided
  <1>4. ASSUME NEW p \in Sweeper, PurgeDelete(p)
        PROVE  Voided' \subseteq Voided
    BY <1>4 DEF PurgeDelete, Voided
  <1>. QED  BY <1>1, <1>2, <1>3, <1>4, InvoiceWriters

LEMMA HolderSteps ==
  ASSUME Typed, VoidInv, [Next]_vars, NEW p \in Hook,
         proc'[p].op = "webhook", proc'[p].last # 0
  PROVE  sent'[proc'[p].ev].type = "refunded"
  <1>1. p \in Proc /\ TypeOK /\ proc[p] \in Local /\ WorkerOK(p, proc[p])
    BY DEF Proc, Typed, TypeOK, WorkerInv
  <1>2. CASE proc'[p] = proc[p]
    <2>1. proc[p].ev \in Event /\ sent[proc[p].ev].type = "refunded"
      BY <1>1, <1>2 DEF WorkerOK, VoidInv
    <2>2. sent'[proc[p].ev] = sent[proc[p].ev]
      BY <2>1, Monotone
    <2>. QED  BY <1>2, <2>1, <2>2
  <1>3. ASSUME NEW e \in Event, Deliver(p, e)
        PROVE  sent'[proc'[p].ev].type = "refunded"
    <2>1. PICK k \in LastPaid(e) :
            Become(p, [Reading("webhook") EXCEPT !.ev = e, !.it = Resolve(e), !.last = k])
      BY <1>3 DEF Deliver
    <2>2. proc'[p] = [Reading("webhook") EXCEPT !.ev = e, !.it = Resolve(e), !.last = k]
      BY <1>1, <2>1, OthersKeep
    <2>3. Reading("webhook") \in Local
      BY <1>1, ReadingType DEF Op
    <2>4. proc'[p].ev = e /\ proc'[p].last = k
      BY <2>2, <2>3 DEF Local
    <2>5. k # 0 => sent[e].type = "refunded"
      BY <2>1 DEF LastPaid
    <2>. QED  BY <1>3, <2>4, <2>5 DEF Deliver, provider
  <1>4. ASSUME (\E i \in Intent : CreateIntent(p, i)) \/ CreateCharge(p)
        PROVE  FALSE
    <2>1. PICK op \in {"charge", "setRef"}, i \in Intent \cup {NoIntent} :
            proc'[p] = [proc[p] EXCEPT !.op = op, !.it = i]
                \/ proc'[p] = [proc[p] EXCEPT !.op = op]
      <3>1. ASSUME NEW i \in Intent, CreateIntent(p, i)
            PROVE  proc'[p] = [proc[p] EXCEPT !.op = "charge", !.it = i]
        BY <1>1, <3>1, OthersKeep DEF CreateIntent
      <3>2. ASSUME CreateCharge(p)
            PROVE  proc'[p] = [proc[p] EXCEPT !.op = "setRef"]
        BY <1>1, <3>2, OthersKeep DEF CreateCharge
      <3>. QED  BY <1>4, <3>1, <3>2
    <2>2. proc'[p].op = op
      BY <1>1, <2>1 DEF Local
    <2>. QED  BY <1>1, <2>2
  <1>. QED  BY <1>1, <1>2, <1>3, <1>4, ProcSteps

LEMMA VoidStep ==
  ASSUME Typed, VoidInv, [Next]_vars
  PROVE  VoidInv'
  <1>1. /\ TypeOK /\ TypeOK'
        /\ IsFiniteSet(Voided) /\ Cardinality(Voided) \in Nat
        /\ Cardinality(Voided) <= Cardinality(Refunds)
    BY VoidedFinite, TypedStep DEF Typed, VoidInv
  <1>2. CASE Voided' \subseteq Voided
    <2>1. Cardinality(Voided') <= Cardinality(Voided) /\ Cardinality(Voided') \in Nat
      BY <1>1, <1>2, FS_Subset, FS_CardinalityType
    <2>2. Cardinality(Voided') <= Cardinality(Refunds')
      BY <1>1, <2>1, RefundsGrow
    <2>. QED  BY <2>2, RefundsGrow, HolderSteps DEF VoidInv
  <1>3. ASSUME NEW p \in Hook, Committing(p), UNCHANGED sent, proc[p].ev \notin ledger,
               sent[proc[p].ev].type = "refunded", Voided' \subseteq Voided \cup {proc[p].last}
        PROVE  VoidInv'
    <2> DEFINE k == proc[p].last
               e == proc[p].ev
               void == Voided
               refunds == Refunds
    <2>1. Refunds' = refunds \cup {e} /\ e \notin refunds /\ IsFiniteSet(refunds)
      BY <1>3, RefundsGrow DEF Refunds, Committing
    <2>2. IsFiniteSet(void) /\ Cardinality(void) \in Nat /\ Voided' \subseteq void \cup {k}
      BY <1>1, <1>3
    <2> HIDE DEF k, e, void, refunds
    <2>3. Cardinality(Refunds') = Cardinality(refunds) + 1 /\ Cardinality(refunds) \in Nat
      BY <2>1, FS_AddElement, FS_CardinalityType
    <2>4. /\ IsFiniteSet(void \cup {k})
          /\ Cardinality(void \cup {k}) =
               IF k \in void THEN Cardinality(void) ELSE Cardinality(void) + 1
      BY <2>2, FS_AddElement
    <2>5. Cardinality(Voided') <= Cardinality(void \cup {k}) /\ Cardinality(Voided') \in Nat
      BY <2>2, <2>4, FS_Subset, FS_CardinalityType
    <2>6. Cardinality(Voided') <= Cardinality(void) + 1
      BY <2>2, <2>4, <2>5
    <2>7. Cardinality(void) <= Cardinality(refunds)
      BY <1>1 DEF void, refunds
    <2>8. Cardinality(Voided') <= Cardinality(Refunds')
      BY <2>2, <2>3, <2>5, <2>6, <2>7
    <2>. QED  BY <2>8, RefundsGrow, HolderSteps DEF VoidInv
  <1>. QED  BY <1>2, <1>3, VoidSteps

\* Failures, disputes and redeliveries void nothing: each void invoice is that of a refund
\* that was processed, and no refund voids two (applyLifecycleOnly, webhooks.service.ts:229-236).
THEOREM VoidsAreRefunds == Spec => []VoidedByRefund
  <1>1. Init => VoidInv
    <2> SUFFICES ASSUME Init PROVE VoidInv
      OBVIOUS
    <2>1. ledger = {} /\ Voided = {} /\ Refunds = {}
      BY DEF Init, Voided, Refunds
    <2>2. \A p \in Hook : proc[p].op = "idle"
      BY DEF Init, Idle, Proc
    <2>. QED  BY <2>1, <2>2, FS_EmptySet DEF VoidInv
  <1>2. VoidInv => VoidedByRefund
    BY DEF VoidInv, VoidedByRefund, Voided, Refunds
  <1>. QED  BY <1>1, <1>2, TypedAlways, VoidStep, PTL DEF Spec
===============================================================================
