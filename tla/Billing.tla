------------------------------- MODULE Billing --------------------------------
(***************************************************************************)
(* One family's subscription: the parent's billing requests                *)
(* (billing.service.ts), plan selection (onboarding.service.ts), the       *)
(* payment webhook (webhooks.service.ts) and the purge of canceled         *)
(* subscriptions, running concurrently over one Postgres database.         *)
(*                                                                         *)
(* A worker is an API request (Api), a webhook delivery (Hook) or a purge  *)
(* sweep (Sweeper) in progress.  It reads in one step and writes in a      *)
(* later one, because every handler awaits the database in between; the    *)
(* default isolation, READ COMMITTED, lets anything commit meanwhile.  A   *)
(* webhook runs in a transaction, so all it writes becomes visible in its  *)
(* commit step and a crash before that step leaves nothing behind.         *)
(*                                                                         *)
(* The payment provider is external: it settles charges and produces       *)
(* events in `sent', which are delivered in any order, any number of       *)
(* times, or never.                                                        *)
(***************************************************************************)
EXTENDS BillingRules, Sequences, FiniteSets

CONSTANTS
  Api,            \* parent requests that may be in progress at once
  Hook,           \* webhook deliveries that may be in progress at once
  Sweeper,        \* purge jobs that may be in progress at once
  Event,          \* provider event ids (WebhookEvent.providerEventId)
  Intent,         \* PaymentIntent ids
  Plan,           \* the plan catalogue
  Price,          \* the price of a plan for one period
  OverflowPrice,  \* config.OVERFLOW_PRICE_MINOR
  How,            \* how the provider's events name their charge (see EventRec)
  Unreported,     \* {NoAmount} if the provider may leave an amount out, else {}
  MaxSuccess,     \* bound: success events the provider produces for one charge
  MaxTime,        \* bound: the clock
  MaxAsked,       \* bound: requests the parent makes
  MaxSub,         \* bound: subscription rows created one after another
  NoEvent, NoIntent, NoPlan

Proc == Api \cup Hook \cup Sweeper

NoAmount == -1
NoTime == -1

ASSUME BillingAssumption ==
  /\ Price \in [Plan -> Nat] /\ OverflowPrice \in Nat
  /\ How \subseteq {"intent", "ref"} /\ Unreported \subseteq {NoAmount}
  /\ MaxSuccess \in Nat /\ MaxTime \in Nat /\ MaxAsked \in Nat /\ MaxSub \in Nat
  /\ NoEvent \notin Event /\ NoIntent \notin Intent /\ NoPlan \notin Plan

VARIABLES
  now,        \* the clock, in days
  sub,        \* the family's Subscription row
  intents,    \* the PaymentIntent rows
  invoices,   \* the Invoice rows of the subscription, oldest insert first
  ledger,     \* the committed WebhookEvent rows
  applied,    \* history: how often each event's processing has committed
  charges,    \* external: the provider's charges, by the intent they were made for
  sent,       \* external: the provider's events
  asked,      \* how many requests the parent has made
  proc        \* what each worker has read and what it does next

db == <<sub, intents, invoices, ledger, applied>>
provider == <<charges, sent>>
vars == <<now, db, provider, asked, proc>>

-------------------------------------------------------------------------------
(* The rows. *)

Purpose == {"ACTIVATION", "OVERFLOW", "UPGRADE"}
Live == {"CREATED", "SUCCEEDED", "FAILED"}

\* A row that is not there has status "NONE"; id keeps counting over the rows that replace it.
SubRow ==
  [id : 0..MaxSub, status : SubStatus \cup {"NONE"}, plan : Plan \cup {NoPlan},
   end : Nat, canceledEffectiveAt : Nat \cup {NoTime}, slots : Nat]

NoSub ==
  [id |-> 0, status |-> "NONE", plan |-> NoPlan, end |-> 0,
   canceledEffectiveAt |-> NoTime, slots |-> 0]

IntentRow ==
  [status : Live \cup {"NONE", "DELETED"}, purpose : Purpose, amount : Nat,
   target : Plan \cup {NoPlan}, ref : BOOLEAN]

NoIntentRow ==
  [status |-> "NONE", purpose |-> "ACTIVATION", amount |-> 0, target |-> NoPlan, ref |-> FALSE]

\* event and purpose are history: the code's invoice does not say what it is for.
InvoiceRow ==
  [event : Event, purpose : Purpose, amount : Nat, status : {"PAID", "VOID"}, issuedAt : Nat]

Charge == [open : BOOLEAN, amount : Nat, paid : Nat]
NoCharge == [open |-> FALSE, amount |-> 0, paid |-> 0]

\* how = "intent": the event echoes metadata.intentId; "ref": it carries only the
\* providerRef; "sub": a recurring event carrying only metadata.subscriptionId.
EventRec ==
  [type : EventType, how : {"intent", "ref", "sub"}, intent : Intent \cup {NoIntent},
   subId : 0..MaxSub, amount : Nat \cup {NoAmount}]

NotSent ==
  [type |-> "none", how |-> "intent", intent |-> NoIntent, subId |-> 0, amount |-> NoAmount]

Op ==
  {"idle", "ACTIVATION", "OVERFLOW", "UPGRADE", "charge", "setRef", "cancel", "reactivate",
   "purge", "purgeDelete", "webhook"}

\* last is the index of the invoice a refund would void, 0 if there is none.
Local ==
  [op : Op, ev : Event \cup {NoEvent}, it : Intent \cup {NoIntent}, snap : SubRow,
   at : Nat, last : Nat, plan : Plan \cup {NoPlan}]

Idle ==
  [op |-> "idle", ev |-> NoEvent, it |-> NoIntent, snap |-> NoSub, at |-> 0, last |-> 0,
   plan |-> NoPlan]

Init ==
  /\ now = 0
  /\ sub = NoSub
  /\ intents = [i \in Intent |-> NoIntentRow]
  /\ invoices = <<>>
  /\ ledger = {}
  /\ applied = [e \in Event |-> 0]
  /\ charges = [i \in Intent |-> NoCharge]
  /\ sent = [e \in Event |-> NotSent]
  /\ asked = 0
  /\ proc = [p \in Proc |-> Idle]

-------------------------------------------------------------------------------
(* Helpers. *)

SubExists == sub.status # "NONE"
IsLive(i) == i \in Intent /\ intents[i].status \in Live

\* The row this worker read is still in the table, whatever its status is now.
RowStillThere(p) == SubExists /\ sub.id = proc[p].snap.id

Become(p, l) == proc' = [proc EXCEPT ![p] = l]
Return(p) == Become(p, Idle)

\* The parent makes one more request.
Ask == asked < MaxAsked /\ asked' = asked + 1

\* A request that has read the subscription row and is about to do op.
Reading(op) == [Idle EXCEPT !.op = op, !.snap = sub, !.at = now]

-------------------------------------------------------------------------------
(* The parent's requests. *)

\* PUT /onboarding/plan: one upsert.
SelectPlan(pl) ==
  /\ Ask
  /\ \/ /\ SubExists
        /\ sub' = [sub EXCEPT !.status = "PENDING", !.plan = pl]
     \/ /\ ~SubExists
        /\ sub.id < MaxSub
        /\ sub' = [NoSub EXCEPT !.id = sub.id + 1, !.status = "PENDING", !.plan = pl,
                                !.end = now + Period]
  /\ UNCHANGED <<now, intents, invoices, ledger, applied, provider, proc>>

InitiateRead(p) ==
  /\ proc[p].op = "idle" /\ Ask
  /\ SubExists /\ sub.status # "ACTIVE"
  /\ Become(p, Reading("ACTIVATION"))
  /\ UNCHANGED <<now, db, provider>>

\* getSlotUsage's answer depends on the family's children, which are not modelled here:
\* the family may be at its limit at any time.
OverflowRead(p) ==
  /\ proc[p].op = "idle" /\ Ask
  /\ SubExists /\ Proratable(sub.end, now)
  /\ Become(p, Reading("OVERFLOW"))
  /\ UNCHANGED <<now, db, provider>>

PlanChangeRead(p, pl) ==
  /\ proc[p].op = "idle" /\ Ask
  /\ SubExists /\ Price[pl] > Price[sub.plan] /\ Proratable(sub.end, now)
  /\ Become(p, [Reading("UPGRADE") EXCEPT !.plan = pl])
  /\ UNCHANGED <<now, db, provider>>

ExpectedAmount(w) ==
  CASE w.op = "ACTIVATION" -> Price[w.snap.plan]
    [] w.op = "OVERFLOW" -> Prorate(OverflowPrice, w.snap.end, w.at)
    [] w.op = "UPGRADE" -> Prorate(Price[w.plan] - Price[w.snap.plan], w.snap.end, w.at)

CreateIntentNoForeignKey(p, i) ==
  /\ proc[p].op \in Purpose
  /\ intents[i].status = "NONE"
  /\ intents' = [intents EXCEPT ![i] =
       [status |-> "CREATED", purpose |-> proc[p].op, amount |-> ExpectedAmount(proc[p]),
        target |-> proc[p].plan, ref |-> FALSE]]
  /\ Become(p, [proc[p] EXCEPT !.op = "charge", !.it = i])
  /\ UNCHANGED <<now, sub, invoices, ledger, applied, provider, asked>>

\* The foreign key to Subscription makes the insert fail once the row is gone.
CreateIntent(p, i) ==
  /\ proc[p].op \in Purpose
  /\ RowStillThere(p)
  /\ intents[i].status = "NONE"
  /\ intents' = [intents EXCEPT ![i] =
       [status |-> "CREATED", purpose |-> proc[p].op, amount |-> ExpectedAmount(proc[p]),
        target |-> proc[p].plan, ref |-> FALSE]]
  /\ Become(p, [proc[p] EXCEPT !.op = "charge", !.it = i])
  /\ UNCHANGED <<now, sub, invoices, ledger, applied, provider, asked>>

\* provider.createCharge: an activation may be charged to a saved method, exactly;
\* everything else goes through a hosted invoice, whose amount is rounded up.
CreateCharge(p) ==
  LET i == proc[p].it IN
  /\ proc[p].op = "charge"
  /\ \E saved \in BOOLEAN :
       /\ saved => intents[i].purpose = "ACTIVATION"
       /\ charges' = [charges EXCEPT ![i] =
            [open |-> TRUE, paid |-> 0,
             amount |-> IF saved THEN intents[i].amount ELSE HostedAmount(intents[i].amount)]]
  /\ Become(p, [proc[p] EXCEPT !.op = "setRef"])
  /\ UNCHANGED <<now, db, sent, asked>>

RecordRef(p) ==
  /\ proc[p].op = "setRef"
  /\ IsLive(proc[p].it)
  /\ intents' = [intents EXCEPT ![proc[p].it].ref = TRUE]
  /\ Return(p)
  /\ UNCHANGED <<now, sub, invoices, ledger, applied, provider, asked>>

CancelRead(p) ==
  /\ proc[p].op = "idle" /\ Ask
  /\ SubExists
  /\ Become(p, Reading("cancel"))
  /\ UNCHANGED <<now, db, provider>>

CancelWriteNoDeadline(p) ==
  /\ proc[p].op = "cancel"
  /\ RowStillThere(p)
  /\ sub' = [sub EXCEPT !.status = "CANCELED"]
  /\ Return(p)
  /\ UNCHANGED <<now, intents, invoices, ledger, applied, provider, asked>>

\* canceledEffectiveAt is the period end that was read, not the current one.
CancelWrite(p) ==
  /\ proc[p].op = "cancel"
  /\ RowStillThere(p)
  /\ sub' = [sub EXCEPT !.status = "CANCELED", !.canceledEffectiveAt = proc[p].snap.end]
  /\ Return(p)
  /\ UNCHANGED <<now, intents, invoices, ledger, applied, provider, asked>>

ReactivateRead(p) ==
  /\ proc[p].op = "idle" /\ Ask
  /\ SubExists /\ sub.status = "CANCELED"
  /\ sub.canceledEffectiveAt # NoTime /\ sub.canceledEffectiveAt > now
  /\ Become(p, Reading("reactivate"))
  /\ UNCHANGED <<now, db, provider>>

ReactivateWrite(p) ==
  /\ proc[p].op = "reactivate"
  /\ RowStillThere(p)
  /\ sub' = [sub EXCEPT !.status = "ACTIVE", !.canceledEffectiveAt = NoTime]
  /\ Return(p)
  /\ UNCHANGED <<now, intents, invoices, ledger, applied, provider, asked>>

-------------------------------------------------------------------------------
(* The purge sweep: scan, then per candidate a transaction that re-checks   *)
(* the row and deletes it with its dependents.                              *)

PurgeDue(t) == sub.status = "CANCELED" /\ sub.canceledEffectiveAt # NoTime /\ sub.canceledEffectiveAt <= t

PurgeScan(p) ==
  /\ proc[p].op = "idle"
  /\ PurgeDue(now)
  /\ Become(p, Reading("purge"))
  /\ UNCHANGED <<now, db, provider, asked>>

PurgeRecheck(p) ==
  /\ proc[p].op = "purge"
  /\ IF RowStillThere(p) /\ PurgeDue(proc[p].at)
     THEN Become(p, [proc[p] EXCEPT !.op = "purgeDelete"])
     ELSE Return(p)
  /\ UNCHANGED <<now, db, provider, asked>>

PurgeDeleteDependentsLast(p) ==
  /\ proc[p].op = "purgeDelete"
  /\ RowStillThere(p)
  /\ invoices = <<>> /\ \A i \in Intent : ~IsLive(i)
  /\ sub' = [NoSub EXCEPT !.id = sub.id]
  /\ Return(p)
  /\ UNCHANGED <<now, intents, invoices, ledger, applied, provider, asked>>

\* The deletes are by id alone: the status read in the re-check is not tested again.
PurgeDelete(p) ==
  /\ proc[p].op = "purgeDelete"
  /\ RowStillThere(p)
  /\ sub' = [NoSub EXCEPT !.id = sub.id]
  /\ invoices' = <<>>
  /\ intents' = [i \in Intent |->
       IF IsLive(i) THEN [intents[i] EXCEPT !.status = "DELETED"] ELSE intents[i]]
  /\ Return(p)
  /\ UNCHANGED <<now, ledger, applied, provider, asked>>

-------------------------------------------------------------------------------
(* The webhook. *)

InFlight(e) == \E q \in Hook : proc[q].ev = e

DeliverableNoLedger(e) == sent[e].type # "none" /\ ~InFlight(e)

\* A second delivery finds the committed ledger row (P2002, a silent no-op) or waits at
\* the unique index for the transaction that is inserting it.
Deliverable(e) == sent[e].type # "none" /\ e \notin ledger /\ ~InFlight(e)

\* The intent the event is about, if it can be found.
Resolve(e) ==
  IF \/ sent[e].how = "intent" /\ IsLive(sent[e].intent)
     \/ sent[e].how = "ref" /\ IsLive(sent[e].intent) /\ intents[sent[e].intent].ref
  THEN sent[e].intent
  ELSE NoIntent

\* The most recently issued paid invoices, which a refund would void one of.
LatestPaid ==
  {k \in DOMAIN invoices :
     /\ invoices[k].status = "PAID"
     /\ \A j \in DOMAIN invoices :
          invoices[j].status = "PAID" => invoices[j].issuedAt <= invoices[k].issuedAt}

AnyLastPaid(e) == IF LatestPaid # {} THEN LatestPaid ELSE {0}

\* The invoice a refund will void, 0 for none.
LastPaid(e) == IF sent[e].type = "refunded" /\ LatestPaid # {} THEN LatestPaid ELSE {0}

DeliverLedgerFirst(p, e) ==
  /\ proc[p].op = "idle"
  /\ Deliverable(e)
  /\ Become(p, [Reading("webhook") EXCEPT !.ev = e, !.it = Resolve(e)])
  /\ ledger' = ledger \cup {e}
  /\ UNCHANGED <<now, sub, intents, invoices, applied, provider, asked>>

\* The transaction begins: the ledger row is inserted, the intent, the subscription and
\* for a refund the latest paid invoice are read.
Deliver(p, e) ==
  /\ proc[p].op = "idle"
  /\ Deliverable(e)
  /\ \E k \in LastPaid(e) :
       Become(p, [Reading("webhook") EXCEPT !.ev = e, !.it = Resolve(e), !.last = k])
  /\ UNCHANGED <<now, db, provider, asked>>

AmountIgnored(p) == TRUE

\* The amount guard: a success that reports another amount than expected is refused.
AmountMatches(p) ==
  sent[proc[p].ev].amount \in {NoAmount, intents[proc[p].it].amount}

SetIntent(p, status) == intents' = [intents EXCEPT ![proc[p].it].status = status]

PaidInvoice(p) ==
  [event |-> proc[p].ev, purpose |-> intents[proc[p].it].purpose,
   amount |-> intents[proc[p].it].amount, status |-> "PAID", issuedAt |-> proc[p].at]

WritePaidInvoice(p) == invoices' = Append(invoices, PaidInvoice(p))

\* The status is resolved from the row that was read and written over the row there is.
NextStatus(p) == ResolveTransition(proc[p].snap.status, sent[proc[p].ev].type)

ApplyLifecycleUnchecked(p) ==
  /\ RowStillThere(p)
  /\ sub' = [sub EXCEPT !.status = NextStatus(p)]
  /\ UNCHANGED invoices

ApplyLifecycleOnly(p) ==
  \/ /\ NextStatus(p) = NoTransition
     /\ UNCHANGED <<sub, invoices>>
  \/ /\ NextStatus(p) # NoTransition
     /\ RowStillThere(p)
     /\ invoices' = [k \in DOMAIN invoices |->
          IF k = proc[p].last THEN [invoices[k] EXCEPT !.status = "VOID"] ELSE invoices[k]]
     /\ sub' = [sub EXCEPT !.status = NextStatus(p)]

\* What every commit does: the ledger row becomes visible with the effect.
Committing(p) ==
  /\ proc[p].op = "webhook"
  /\ ledger' = ledger \cup {proc[p].ev}
  /\ applied' = [applied EXCEPT ![proc[p].ev] = @ + 1]
  /\ Return(p)
  /\ UNCHANGED <<now, provider, asked>>

FoundSubOfEvent(p) ==
  /\ sent[proc[p].ev].how = "sub"
  /\ proc[p].snap.status # "NONE"
  /\ proc[p].snap.id = sent[proc[p].ev].subId

CommitUnmatchedThrows(p) ==
  /\ Committing(p)
  /\ proc[p].it = NoIntent /\ ~FoundSubOfEvent(p) /\ proc[p].snap.status # "NONE"
  /\ UNCHANGED <<sub, intents, invoices>>

CommitUnmatched(p) ==
  /\ Committing(p)
  /\ proc[p].it = NoIntent /\ ~FoundSubOfEvent(p)
  /\ UNCHANGED <<sub, intents, invoices>>

CommitRecurring(p) ==
  /\ Committing(p)
  /\ proc[p].it = NoIntent /\ FoundSubOfEvent(p)
  /\ ApplyLifecycleOnly(p)
  /\ UNCHANGED intents

\* An event about an intent whose row can still be written.
OnIntent(p) == Committing(p) /\ proc[p].it # NoIntent /\ IsLive(proc[p].it)

CommitMismatch(p) ==
  /\ OnIntent(p)
  /\ IsSuccess(sent[proc[p].ev].type) /\ ~AmountMatches(p)
  /\ SetIntent(p, "FAILED")
  /\ UNCHANGED <<sub, invoices>>

CommitFailure(p) ==
  /\ OnIntent(p)
  /\ ~IsSuccess(sent[proc[p].ev].type)
  /\ SetIntent(p, "FAILED")
  /\ ApplyLifecycleOnly(p)

CommitSuccess(p, purpose) ==
  /\ OnIntent(p) /\ RowStillThere(p)
  /\ IsSuccess(sent[proc[p].ev].type) /\ AmountMatches(p)
  /\ intents[proc[p].it].purpose = purpose
  /\ SetIntent(p, "SUCCEEDED")
  /\ WritePaidInvoice(p)

\* The period end is computed from the row that was read.
CommitActivation(p) ==
  /\ CommitSuccess(p, "ACTIVATION")
  /\ sub' = [sub EXCEPT !.status = "ACTIVE",
       !.end = IF proc[p].snap.status = "PENDING" THEN FreshPeriodEnd(proc[p].at)
               ELSE ExtendedPeriodEnd(proc[p].snap.end, proc[p].at)]

SlotsFromSnapshot(p) == proc[p].snap.slots + 1

\* { increment: 1 }: the database adds to the current value.
SlotsAfterGrant(p) == sub.slots + 1

CommitOverflow(p) ==
  /\ CommitSuccess(p, "OVERFLOW")
  /\ sub' = [sub EXCEPT !.slots = SlotsAfterGrant(p)]

CommitUpgrade(p) ==
  /\ CommitSuccess(p, "UPGRADE")
  /\ sub' = [sub EXCEPT !.plan = intents[proc[p].it].target, !.status = "ACTIVE"]

Commit(p) ==
  \/ CommitUnmatched(p) \/ CommitRecurring(p) \/ CommitMismatch(p) \/ CommitFailure(p)
  \/ CommitActivation(p) \/ CommitOverflow(p) \/ CommitUpgrade(p)

-------------------------------------------------------------------------------
(* Failure of a worker. *)

\* Every way a request or a job ends without its remaining writes: the process dies, the
\* transaction times out, createCharge fails, or a write finds its row gone (P2025).
Crash(p) ==
  /\ proc[p].op # "idle"
  /\ Return(p)
  /\ UNCHANGED <<now, db, provider, asked>>

-------------------------------------------------------------------------------
(* The environment: the payment provider and the clock. *)

Emit(e, rec) ==
  /\ sent[e].type = "none"
  /\ sent' = [sent EXCEPT ![e] = rec]

ChargeEvent(i, type, how, amount) ==
  [type |-> type, how |-> how, intent |-> i, subId |-> 0, amount |-> amount]

ChargePaid(e, i, how) ==
  /\ charges[i].open /\ charges[i].paid < MaxSuccess
  /\ \E amount \in {charges[i].amount} \cup Unreported :
       Emit(e, ChargeEvent(i, "payment_succeeded", how, amount))
  /\ charges' = [charges EXCEPT ![i].paid = @ + 1]
  /\ UNCHANGED <<now, db, proc, asked>>

ChargeFailed(e, i, how) ==
  /\ charges[i].open
  /\ Emit(e, ChargeEvent(i, "payment_failed", how, NoAmount))
  /\ UNCHANGED <<now, db, charges, proc, asked>>

ChargeRefunded(e, i, how) ==
  /\ charges[i].open /\ charges[i].paid > 0
  /\ Emit(e, ChargeEvent(i, "refunded", how, NoAmount))
  /\ UNCHANGED <<now, db, charges, proc, asked>>

\* A recurring event, once the provider holds a payment of this family.
RecurringEvent(e, type) ==
  /\ type # "payment_succeeded"
  /\ sub.id > 0 /\ \E i \in Intent : charges[i].paid > 0
  /\ Emit(e, [type |-> type, how |-> "sub", intent |-> NoIntent, subId |-> sub.id,
              amount |-> NoAmount])
  /\ UNCHANGED <<now, db, charges, proc, asked>>

Tick ==
  /\ now < MaxTime
  /\ now' = now + 1
  /\ UNCHANGED <<db, provider, asked, proc>>

-------------------------------------------------------------------------------

Request(p) ==
  \/ InitiateRead(p) \/ OverflowRead(p) \/ (\E pl \in Plan : PlanChangeRead(p, pl))
  \/ CancelRead(p) \/ ReactivateRead(p)

Continue(p) ==
  \/ (\E i \in Intent : CreateIntent(p, i)) \/ CreateCharge(p) \/ RecordRef(p)
  \/ CancelWrite(p) \/ ReactivateWrite(p)

Purge(p) == PurgeScan(p) \/ PurgeRecheck(p) \/ PurgeDelete(p)

Webhook(p) == (\E e \in Event : Deliver(p, e)) \/ Commit(p)

Provider ==
  \E e \in Event :
    \/ \E i \in Intent, how \in How :
         ChargePaid(e, i, how) \/ ChargeFailed(e, i, how) \/ ChargeRefunded(e, i, how)
    \/ \E type \in EventType : RecurringEvent(e, type)

Next ==
  \/ \E pl \in Plan : SelectPlan(pl)
  \/ \E p \in Api : Request(p) \/ Continue(p)
  \/ \E p \in Sweeper : Purge(p)
  \/ \E p \in Hook : Webhook(p)
  \/ \E p \in Proc : Crash(p)
  \/ Provider
  \/ Tick

Spec == Init /\ [][Next]_vars

(***************************************************************************)
(* Fairness.  A worker does not hang: it goes on or it ends (a transaction *)
(* times out, a process is restarted).  The provider redelivers until it   *)
(* gets a 2xx, and not every attempt is cut short, which takes strong      *)
(* fairness because a crash or another worker may disable a step.  The     *)
(* sweep runs every hour.                                                  *)
(***************************************************************************)
WorkersEnd ==
  \A p \in Proc : WF_vars(Continue(p) \/ PurgeRecheck(p) \/ PurgeDelete(p) \/ Commit(p) \/ Crash(p))

Redelivery ==
  \A e \in Event :
    /\ SF_vars(\E p \in Hook : Deliver(p, e))
    /\ SF_vars(\E p \in Hook : proc[p].ev = e /\ Commit(p))

HourlySweep ==
  /\ SF_vars(\E p \in Sweeper : PurgeScan(p))
  /\ SF_vars(\E p \in Sweeper : PurgeRecheck(p))
  /\ SF_vars(\E p \in Sweeper : PurgeDelete(p))

FairSpec == Spec /\ WorkersEnd /\ Redelivery /\ HourlySweep

-------------------------------------------------------------------------------
(* Properties. *)

TypeOK ==
  /\ now \in 0..MaxTime
  /\ sub \in SubRow
  /\ intents \in [Intent -> IntentRow]
  /\ invoices \in Seq(InvoiceRow)
  /\ ledger \subseteq Event
  /\ applied \in [Event -> Nat]
  /\ charges \in [Intent -> Charge]
  /\ sent \in [Event -> EventRec \cup {NotSent}]
  /\ asked \in 0..MaxAsked
  /\ proc \in [Proc -> Local]

Invoiced(e) == {k \in DOMAIN invoices : invoices[k].event = e}

\* However often the provider delivers an event, and however many workers handle it at
\* once, its invoice is written at most once, and only with its ledger row
\* (processWebhook: "a crash after the effect can't double-apply").
OneInvoicePerEvent ==
  \A k, j \in DOMAIN invoices :
    /\ invoices[k].event \in ledger
    /\ invoices[k].event = invoices[j].event => k = j

\* The ledger row and the effect commit together: once a full-amount success for an
\* intent that still exists is in the ledger, its invoice is there; no crash between the
\* insert of the ledger row and the effect can lose a payment for good.
LedgerRowMeansEffect ==
  \A e \in ledger :
    (/\ sent[e].how = "intent" /\ IsSuccess(sent[e].type)
     /\ IsLive(sent[e].intent)
     /\ sent[e].amount \in {NoAmount, intents[sent[e].intent].amount})
      => Invoiced(e) # {}

\* What an intent asks for is the price of a plan, or what is left of the period's share of
\* a slot or of an upgrade: never more than the full price of what it buys.
FairlyQuoted(i) ==
  LET row == intents[i] IN
  /\ row.purpose = "ACTIVATION" => \E pl \in Plan : row.amount = Price[pl]
  /\ row.purpose = "OVERFLOW" => row.amount <= OverflowPrice
  /\ row.purpose = "UPGRADE" => row.amount <= Price[row.target]

\* The provider is never asked for more than a fair quote, however old the row is from which
\* the quote was computed; the adapter's rounding adds less than 10 halalas to it.
ChargesAsQuoted ==
  \A i \in Intent : charges[i].open =>
    FairlyQuoted(i) /\ charges[i].amount - intents[i].amount \in 0..9

\* Extra child slots are neither lost nor granted twice by webhooks that read the same
\* row: the subscription has one slot for each overflow invoice.
SlotsMatchInvoices ==
  sub.slots = Cardinality({k \in DOMAIN invoices : invoices[k].purpose = "OVERFLOW"})

\* Each activation payment buys one period and no more: beyond the period a new row starts
\* with, the end is at most one period later for each activation invoice, even when webhooks
\* that read the same row, cancellations and new rows after a purge race (the code may lose
\* a period in such a race, never give one away).
PeriodIsPaid ==
  sub.end <= now + Period * (1 + Cardinality({k \in DOMAIN invoices :
                                                invoices[k].purpose = "ACTIVATION"}))

\* No invoice is issued for another amount than the provider reported (FR-017), nor for
\* an event that is not a success.
InvoiceMatchesCharge ==
  \A k \in DOMAIN invoices :
    /\ IsSuccess(sent[invoices[k].event].type)
    /\ sent[invoices[k].event].amount \in {NoAmount, invoices[k].amount}

\* An invoice is only ever voided by a refund: no more void invoices than processed
\* refunds, whatever failures and disputes arrive in between.
VoidedByRefund ==
  Cardinality({k \in DOMAIN invoices : invoices[k].status = "VOID"})
    <= Cardinality({e \in ledger : sent[e].type = "refunded"})

\* A canceled subscription always carries the date the purge looks for, even when cancel,
\* reactivate and webhooks overwrite each other's rows; without it the row would stay
\* canceled forever.
CanceledHasDeadline == sub.status = "CANCELED" => sub.canceledEffectiveAt # NoTime

\* The purge leaves nothing that points at a deleted subscription, not even for a
\* request that read the row before the purge and writes after it.
NoOrphans == ~SubExists => invoices = <<>> /\ \A i \in Intent : ~IsLive(i)

\* Every event the provider produces is eventually processed, despite crashes.
EventuallyProcessed == \A e \in Event : sent[e].type # "none" ~> e \in ledger

\* A subscription that stays canceled past its deadline is eventually removed, or has
\* been given another status.
EventuallyPurged == PurgeDue(now) ~> ~PurgeDue(now)

\* The webhook is an idempotent receiver.
Receiver == INSTANCE Inbox WITH
  Message <- Event, sent <- {e \in Event : sent[e].type # "none"}, done <- ledger,
  effects <- applied

ReceiverSpec == Receiver!Spec

(* The strengthening of the invariants above that is inductive.            *)

\* What a worker holds: a request holds a subscription it found, a quote was computable
\* when it was read, and a webhook holds an event that was sent and is not committed.
WorkerOK(p, w) ==
  /\ w.op \in Purpose => w.snap.plan \in Plan
  /\ w.op \in {"OVERFLOW", "UPGRADE"} => w.snap.end > w.at
  /\ w.op = "UPGRADE" => w.plan \in Plan /\ Price[w.plan] > Price[w.snap.plan]
  /\ w.op \in {"charge", "setRef"} => w.it \in Intent
  /\ w.op # "webhook" => w.ev = NoEvent
  /\ w.op = "webhook" =>
       p \in Hook /\ w.ev \in Event /\ w.ev \notin ledger /\ sent[w.ev].type # "none"

WorkerInv == \A p \in Proc : WorkerOK(p, proc[p])

\* The unique index on providerEventId: no two transactions hold the same event.
OneWorkerPerEvent ==
  \A p, q \in Proc : proc[p].ev # NoEvent /\ proc[p].ev = proc[q].ev => p = q

RowInv ==
  /\ SubExists => sub.plan \in Plan
  /\ \A i \in Intent : intents[i].purpose = "UPGRADE" => intents[i].target \in Plan

LedgerCounts == \A e \in Event : applied[e] = IF e \in ledger THEN 1 ELSE 0

(* Statements of the code's comments that the code does not keep.          *)

\* billing.service.ts: "This service NEVER sets subscription status to ACTIVE"; only the
\* verified webhook does.  So an active subscription has at least one invoice.
ActiveWasPaid == sub.status = "ACTIVE" => invoices # <<>>

\* planChange: "The plan swap applies on the verified webhook"; webhooks.service.ts:
\* "idempotency is guaranteed by the event ledger".  A charge the provider settled, once
\* its event is processed, has had its effect and its invoice.
SettledChargeTakesEffect ==
  \A e \in ledger :
    sent[e].how = "intent" /\ IsSuccess(sent[e].type) /\ IsLive(sent[e].intent)
      => Invoiced(e) # {}

\* What that claim is kept for: amounts that the hosted invoice does not have to round. The
\* rounding is all that keeps a settled charge of an intent that exists from its effect.
SettledRoundChargeTakesEffect ==
  \A e \in ledger :
    /\ sent[e].how = "intent" /\ IsSuccess(sent[e].type)
    /\ IsLive(sent[e].intent) /\ intents[sent[e].intent].amount % 10 = 0
    => Invoiced(e) # {}

\* transition.ts: "the next status, or null when no transition is defined (a no-op)"; no
\* event has a transition out of CANCELED to PAST_DUE.  A parent's cancellation is not
\* overwritten by a failed charge.
CancelSurvivesFailures == [][sub.status = "CANCELED" => sub'.status # "PAST_DUE"]_vars

\* purgeDueCanceled: "re-checked in-tx so a reactivation between scan and delete is
\* excluded".  The purge never deletes an active subscription.
PurgeSparesReactivated ==
  [][SubExists /\ sub'.status = "NONE" => sub.status # "ACTIVE"]_vars
===============================================================================
