---------------------------- MODULE Billing_proofs ----------------------------
(***************************************************************************)
(* Theorems about Billing, for every value of its constants: any number of *)
(* requests, webhook workers and sweeps, any plans and prices, any events. *)
(***************************************************************************)
EXTENDS Billing, TLAPS, FiniteSetTheorems

-------------------------------------------------------------------------------
(* Arithmetic of the quotes. *)

LEMMA DivNat ==
  ASSUME NEW a \in Nat, NEW b \in Nat \ {0}
  PROVE  a \div b \in Nat
  OBVIOUS

LEMMA TimesNat ==
  ASSUME NEW a \in Nat, NEW b \in Nat
  PROVE  a * b \in Nat
  OBVIOUS

\* A quote is an amount whenever it is computable.
LEMMA ProrateNat ==
  ASSUME NEW full \in Nat, NEW end \in Nat, NEW t \in Nat, end > t
  PROVE  Prorate(full, end, t) \in Nat
  <1>1. RemainingDays(end, t) \in Nat
    BY PeriodAssumption DEF RemainingDays, EarlierOf
  <1>2. (2 * full) * RemainingDays(end, t) \in Nat
    BY <1>1, TimesNat
  <1>3. 2 * Period \in Nat \ {0}
    BY PeriodAssumption
  <1>4. (2 * full) * RemainingDays(end, t) + Period \in Nat
    BY <1>2, PeriodAssumption
  <1>. QED  BY <1>3, <1>4, DivNat DEF Prorate

LEMMA TimesMono ==
  ASSUME NEW a \in Nat, NEW b \in Nat, NEW c \in Nat, b <= c
  PROVE  a * b <= a * c
  <1>1. PICK d \in Nat : c = b + d
    BY c - b \in Nat
  <1>2. a * c = a * b + a * d
    BY <1>1
  <1>3. a * b \in Nat /\ a * d \in Nat
    BY <1>1, TimesNat
  <1>. QED  BY <1>2, <1>3

LEMMA DivBound ==
  ASSUME NEW a \in Nat, NEW b \in Nat \ {0}, NEW c \in Nat, a < b * (c + 1)
  PROVE  a \div b <= c
  <1> DEFINE q == a \div b
  <1>1. q \in Nat /\ b * q <= a
    BY DivNat
  <1> HIDE DEF q
  <1>2. ASSUME q > c PROVE FALSE
    <2>1. c + 1 \in Nat /\ c + 1 <= q
      BY <1>1, <1>2
    <2>2. b * (c + 1) <= b * q
      BY <1>1, <2>1, TimesMono
    <2>3. b * (c + 1) \in Nat /\ b * q \in Nat
      BY <1>1, <2>1, TimesNat
    <2>. QED  BY <1>1, <2>2, <2>3
  <1>3. q <= c
    BY <1>1, <1>2
  <1>. QED  BY <1>3 DEF q

\* A quote never exceeds the full amount: the days that remain are at most a period, and
\* rounding to the nearest amount does not pass a whole one.
LEMMA ProrateBound ==
  ASSUME NEW full \in Nat, NEW end \in Nat, NEW t \in Nat, end > t
  PROVE  Prorate(full, end, t) <= full
  <1> DEFINE days == RemainingDays(end, t)
  <1>1. days \in Nat /\ days <= Period /\ Period \in Nat \ {0}
    BY PeriodAssumption DEF RemainingDays, EarlierOf
  <1> HIDE DEF days
  <1>2. (2 * full) * days <= (2 * full) * Period
    BY <1>1, TimesMono
  <1>3. (2 * full) * days \in Nat /\ (2 * full) * Period \in Nat
    BY <1>1, TimesNat
  <1>4. (2 * Period) * (full + 1) = (2 * full) * Period + 2 * Period
    BY <1>1
  <1>5. (2 * full) * days + Period < (2 * Period) * (full + 1)
    BY <1>1, <1>2, <1>3, <1>4
  <1>6. (2 * full) * days + Period \in Nat /\ 2 * Period \in Nat \ {0}
    BY <1>1, <1>3
  <1>7. ((2 * full) * days + Period) \div (2 * Period) <= full
    BY <1>5, <1>6, DivBound
  <1>. QED  BY <1>7 DEF Prorate, days

\* The hosted invoice adds less than 10 halalas, and nothing to a multiple of 10.
LEMMA HostedAmountBound ==
  ASSUME NEW a \in Nat
  PROVE  /\ HostedAmount(a) - a \in 0..9
         /\ a % 10 = 0 => HostedAmount(a) = a
  BY DEF HostedAmount

LEMMA HostedAmountNat ==
  ASSUME NEW a \in Nat
  PROVE  HostedAmount(a) \in Nat
  BY DEF HostedAmount

LEMMA TransitionType ==
  ASSUME NEW s, NEW type
  PROVE  ResolveTransition(s, type) \in {"ACTIVE", "PAST_DUE", NoTransition}
  BY DEF ResolveTransition, NoTransition

-------------------------------------------------------------------------------
(* Typing of the workers' records. *)

LEMMA IdleType == Idle \in Local
  BY BillingAssumption DEF Idle, Local, Op, NoSub, SubRow, NoTime

LEMMA BecomeType ==
  ASSUME TypeOK, NEW p \in Proc, NEW l \in Local, Become(p, l)
  PROVE  proc' \in [Proc -> Local]
  BY DEF TypeOK, Become

LEMMA ReadingType ==
  ASSUME TypeOK, NEW op \in Op
  PROVE  /\ Reading(op) \in Local
         /\ Reading(op).op = op /\ Reading(op).snap = sub /\ Reading(op).at = now
         /\ Reading(op).ev = NoEvent
  <1>1. sub \in SubRow /\ now \in Nat
    BY BillingAssumption DEF TypeOK
  <1>. QED  BY <1>1, IdleType DEF Reading, Idle, Local

\* The amount a request charges is an amount.
LEMMA ExpectedAmountNat ==
  ASSUME TypeOK, WorkerInv, NEW p \in Proc, proc[p].op \in Purpose
  PROVE  ExpectedAmount(proc[p]) \in Nat
  <1> DEFINE w == proc[p]
  <1>1. w \in Local /\ w.snap.end \in Nat /\ w.at \in Nat
    BY DEF TypeOK, Local, SubRow
  <1>2. w.snap.plan \in Plan /\ Price[w.snap.plan] \in Nat /\ OverflowPrice \in Nat
    BY BillingAssumption DEF WorkerInv, WorkerOK
  <1>3. CASE w.op = "ACTIVATION"
    BY <1>2, <1>3 DEF ExpectedAmount
  <1>4. CASE w.op = "OVERFLOW"
    <2>1. w.snap.end > w.at
      BY <1>4 DEF WorkerInv, WorkerOK
    <2>2. Prorate(OverflowPrice, w.snap.end, w.at) \in Nat
      BY <1>1, <1>2, <2>1, ProrateNat
    <2>. QED  BY <1>4, <2>2 DEF ExpectedAmount
  <1>5. CASE w.op = "UPGRADE"
    <2>1. w.snap.end > w.at /\ w.plan \in Plan /\ Price[w.plan] > Price[w.snap.plan]
      BY <1>5 DEF WorkerInv, WorkerOK
    <2>2. Price[w.plan] \in Nat
      BY <2>1, BillingAssumption
    <2>3. Price[w.plan] - Price[w.snap.plan] \in Nat
      BY <1>2, <2>1, <2>2
    <2>4. Prorate(Price[w.plan] - Price[w.snap.plan], w.snap.end, w.at) \in Nat
      BY <1>1, <2>1, <2>3, ProrateNat
    <2>. QED  BY <1>5, <2>4 DEF ExpectedAmount
  <1>. QED  BY <1>3, <1>4, <1>5 DEF Purpose

\* And it is at most the full price of what is bought.
LEMMA ExpectedAmountBound ==
  ASSUME TypeOK, WorkerInv, NEW p \in Proc, proc[p].op \in Purpose
  PROVE  /\ proc[p].op = "ACTIVATION" => \E pl \in Plan : ExpectedAmount(proc[p]) = Price[pl]
         /\ proc[p].op = "OVERFLOW" => ExpectedAmount(proc[p]) <= OverflowPrice
         /\ proc[p].op = "UPGRADE" => ExpectedAmount(proc[p]) <= Price[proc[p].plan]
  <1> DEFINE w == proc[p]
  <1>1. w.snap.end \in Nat /\ w.at \in Nat
    BY DEF TypeOK, Local, SubRow
  <1>2. w.snap.plan \in Plan /\ Price[w.snap.plan] \in Nat /\ OverflowPrice \in Nat
    BY BillingAssumption DEF WorkerInv, WorkerOK
  <1>3. CASE w.op = "ACTIVATION"
    BY <1>2, <1>3 DEF ExpectedAmount
  <1>4. CASE w.op = "OVERFLOW"
    <2>1. w.snap.end > w.at
      BY <1>4 DEF WorkerInv, WorkerOK
    <2>2. Prorate(OverflowPrice, w.snap.end, w.at) <= OverflowPrice
      BY <1>1, <1>2, <2>1, ProrateBound
    <2>. QED  BY <1>4, <2>2 DEF ExpectedAmount
  <1>5. CASE w.op = "UPGRADE"
    <2>1. w.snap.end > w.at /\ w.plan \in Plan /\ Price[w.plan] > Price[w.snap.plan]
      BY <1>5 DEF WorkerInv, WorkerOK
    <2>2. Price[w.plan] \in Nat
      BY <2>1, BillingAssumption
    <2> DEFINE full == Price[w.plan] - Price[w.snap.plan]
    <2>3. full \in Nat /\ full <= Price[w.plan]
      BY <1>2, <2>1, <2>2
    <2>4. /\ Prorate(full, w.snap.end, w.at) <= full
          /\ Prorate(full, w.snap.end, w.at) \in Nat
      BY <1>1, <2>1, <2>3, ProrateBound, ProrateNat
    <2>5. Prorate(full, w.snap.end, w.at) <= Price[w.plan]
      BY <2>2, <2>3, <2>4
    <2>. QED  BY <1>5, <2>5 DEF ExpectedAmount
  <1>. QED  BY <1>3, <1>4, <1>5 DEF Purpose

-------------------------------------------------------------------------------
(* Typing of the parts of a webhook's commit. *)

LEMMA CommittingType ==
  ASSUME TypeOK, WorkerInv, NEW p \in Proc, Committing(p)
  PROVE  /\ now' \in 0..MaxTime /\ ledger' \subseteq Event /\ applied' \in [Event -> Nat]
         /\ charges' \in [Intent -> Charge] /\ sent' \in [Event -> EventRec \cup {NotSent}]
         /\ asked' \in 0..MaxAsked /\ proc' \in [Proc -> Local]
  <1>1. proc[p].ev \in Event
    BY DEF WorkerInv, WorkerOK, Committing
  <1>2. proc' \in [Proc -> Local]
    BY IdleType, BecomeType DEF Committing, Return
  <1>. QED  BY <1>1, <1>2 DEF TypeOK, Committing, provider

LEMMA LifecycleType ==
  ASSUME TypeOK, NEW p \in Proc, ApplyLifecycleOnly(p)
  PROVE  sub' \in SubRow /\ invoices' \in Seq(InvoiceRow)
  <1>1. CASE UNCHANGED <<sub, invoices>>
    BY <1>1 DEF TypeOK
  <1>2. CASE NextStatus(p) # NoTransition
    <2>1. NextStatus(p) \in SubStatus
      BY <1>2, TransitionType DEF NextStatus, SubStatus
    <2>2. sub' = [sub EXCEPT !.status = NextStatus(p)]
      BY <1>2 DEF ApplyLifecycleOnly
    <2>3. sub' \in SubRow
      BY <2>1, <2>2 DEF TypeOK, SubRow
    <2>4. invoices \in Seq(InvoiceRow)
      BY DEF TypeOK
    <2>5. invoices' = [k \in 1..Len(invoices) |->
            IF k = proc[p].last THEN [invoices[k] EXCEPT !.status = "VOID"] ELSE invoices[k]]
      BY <1>2, <2>4 DEF ApplyLifecycleOnly
    <2>6. \A k \in 1..Len(invoices) : invoices[k] \in InvoiceRow
      BY <2>4
    <2>7. \A k \in 1..Len(invoices) : invoices'[k] \in InvoiceRow
      BY <2>5, <2>6 DEF InvoiceRow
    <2>8. invoices' \in [1..Len(invoices) -> InvoiceRow] /\ Len(invoices) \in Nat
      BY <2>4, <2>5, <2>7
    <2>. QED  BY <2>3, <2>8
  <1>. QED  BY <1>1, <1>2 DEF ApplyLifecycleOnly

LEMMA StatusKeepsRow ==
  ASSUME NEW r \in IntentRow, NEW s \in Live
  PROVE  [r EXCEPT !.status = s] \in IntentRow
  BY DEF IntentRow

LEMMA SetIntentType ==
  ASSUME TypeOK, NEW p \in Proc, proc[p].it \in Intent,
         NEW status \in Live, SetIntent(p, status)
  PROVE  intents' \in [Intent -> IntentRow]
  <1> DEFINE row == [intents[proc[p].it] EXCEPT !.status = status]
  <1>0. intents[proc[p].it] \in IntentRow
    BY DEF TypeOK
  <1>1. row \in IntentRow
    BY <1>0, StatusKeepsRow
  <1>2. intents' = [intents EXCEPT ![proc[p].it] = row]
    BY DEF SetIntent
  <1>3. intents \in [Intent -> IntentRow]
    BY DEF TypeOK
  <1>. HIDE DEF row
  <1>. QED  BY <1>1, <1>2, <1>3

LEMMA SuccessType ==
  ASSUME TypeOK, WorkerInv, NEW p \in Proc, NEW purpose, CommitSuccess(p, purpose)
  PROVE  /\ intents' \in [Intent -> IntentRow]
         /\ invoices' \in Seq(InvoiceRow)
         /\ PaidInvoice(p) \in InvoiceRow
         /\ proc[p].it \in Intent /\ proc[p].ev \in Event
  <1>1. proc[p] \in Local /\ proc[p].it \in Intent /\ proc[p].ev \in Event
    BY DEF TypeOK, WorkerInv, WorkerOK, CommitSuccess, OnIntent, Committing, IsLive
  <1>2. intents' \in [Intent -> IntentRow]
    BY <1>1, SetIntentType DEF CommitSuccess, Live
  <1>3. PaidInvoice(p) \in InvoiceRow
    BY <1>1 DEF PaidInvoice, InvoiceRow, TypeOK, IntentRow, Local
  <1>4. invoices' \in Seq(InvoiceRow)
    BY <1>3 DEF CommitSuccess, WritePaidInvoice, TypeOK
  <1>. QED  BY <1>1, <1>2, <1>3, <1>4

-------------------------------------------------------------------------------
(* Type correctness: one step per group of actions. *)

Typed == TypeOK /\ WorkerInv /\ OneWorkerPerEvent /\ RowInv

LEMMA RequestType ==
  ASSUME Typed, NEW p \in Api, Request(p)
  PROVE  TypeOK'
  <1>1. p \in Proc
    BY DEF Proc
  <1>a. UNCHANGED <<now, sub, intents, invoices, ledger, applied, charges, sent>> /\ Ask
    BY DEF Request, InitiateRead, OverflowRead, PlanChangeRead, CancelRead, ReactivateRead,
           db, provider
  <1>b. asked' \in 0..MaxAsked
    BY <1>a, BillingAssumption DEF Typed, TypeOK, Ask
  <1>3. PICK op \in {"ACTIVATION", "OVERFLOW", "UPGRADE", "cancel", "reactivate"},
             pl \in Plan \cup {NoPlan} :
          Become(p, [Reading(op) EXCEPT !.plan = pl]) \/ Become(p, Reading(op))
    BY DEF Request, InitiateRead, OverflowRead, PlanChangeRead, CancelRead, ReactivateRead
  <1>4. Reading(op) \in Local /\ [Reading(op) EXCEPT !.plan = pl] \in Local
    BY ReadingType DEF Typed, Op, Local
  <1>5. proc' \in [Proc -> Local]
    BY <1>1, <1>3, <1>4, BecomeType DEF Typed
  <1>. QED  BY <1>a, <1>b, <1>5 DEF Typed, TypeOK

LEMMA ContinueType ==
  ASSUME Typed, NEW p \in Api, Continue(p)
  PROVE  TypeOK'
  <1>1. p \in Proc /\ TypeOK /\ proc[p] \in Local
    BY DEF Proc, Typed, TypeOK
  <1>2. ASSUME NEW i \in Intent, CreateIntent(p, i)
        PROVE  TypeOK'
    <2>1. proc[p].op \in Purpose /\ proc[p].plan \in Plan \cup {NoPlan}
      BY <1>1, <1>2 DEF CreateIntent, Local
    <2>2. ExpectedAmount(proc[p]) \in Nat
      BY <1>1, <2>1, ExpectedAmountNat DEF Typed
    <2>3. intents' \in [Intent -> IntentRow]
      BY <1>1, <1>2, <2>1, <2>2 DEF CreateIntent, TypeOK, IntentRow, Live
    <2>4. [proc[p] EXCEPT !.op = "charge", !.it = i] \in Local
      BY <1>1 DEF Local, Op
    <2>5. proc' \in [Proc -> Local]
      BY <1>1, <1>2, <2>4, BecomeType DEF CreateIntent
    <2>. QED  BY <1>1, <1>2, <2>3, <2>5 DEF CreateIntent, TypeOK, provider
  <1>3. CASE CreateCharge(p)
    <2>1. proc[p].it \in Intent
      BY <1>1, <1>3 DEF CreateCharge, Typed, WorkerInv, WorkerOK
    <2>2. intents[proc[p].it].amount \in Nat
      BY <1>1, <2>1 DEF TypeOK, IntentRow
    <2>3. HostedAmount(intents[proc[p].it].amount) \in Nat
      BY <2>2, HostedAmountNat
    <2>4. charges' \in [Intent -> Charge]
      BY <1>1, <1>3, <2>1, <2>2, <2>3 DEF CreateCharge, TypeOK, Charge
    <2>5. [proc[p] EXCEPT !.op = "setRef"] \in Local
      BY <1>1 DEF Local, Op
    <2>6. proc' \in [Proc -> Local]
      BY <1>1, <1>3, <2>5, BecomeType DEF CreateCharge
    <2>. QED  BY <1>1, <1>3, <2>4, <2>6 DEF CreateCharge, TypeOK, db
  <1>4. CASE RecordRef(p)
    <2> DEFINE i == proc[p].it
    <2>a. i \in Intent /\ intents \in [Intent -> IntentRow]
      BY <1>1, <1>4 DEF RecordRef, TypeOK, IsLive
    <2>b. [intents[i] EXCEPT !.ref = TRUE] \in IntentRow
      BY <2>a DEF IntentRow
    <2>c. intents' = [intents EXCEPT ![i] = [intents[i] EXCEPT !.ref = TRUE]]
      BY <1>4 DEF RecordRef
    <2>1. intents' \in [Intent -> IntentRow]
      BY <2>a, <2>b, <2>c
    <2>2. proc' \in [Proc -> Local]
      BY <1>1, <1>4, IdleType, BecomeType DEF RecordRef, Return
    <2>. QED  BY <1>1, <1>4, <2>1, <2>2 DEF RecordRef, TypeOK, provider
  <1>5. CASE CancelWrite(p)
    <2>1. sub' \in SubRow
      BY <1>1, <1>5 DEF CancelWrite, TypeOK, SubRow, SubStatus, Local
    <2>2. proc' \in [Proc -> Local]
      BY <1>1, <1>5, IdleType, BecomeType DEF CancelWrite, Return
    <2>. QED  BY <1>1, <1>5, <2>1, <2>2 DEF CancelWrite, TypeOK, provider
  <1>6. CASE ReactivateWrite(p)
    <2>1. sub' \in SubRow
      BY <1>1, <1>6 DEF ReactivateWrite, TypeOK, SubRow, SubStatus
    <2>2. proc' \in [Proc -> Local]
      BY <1>1, <1>6, IdleType, BecomeType DEF ReactivateWrite, Return
    <2>. QED  BY <1>1, <1>6, <2>1, <2>2 DEF ReactivateWrite, TypeOK, provider
  <1>. QED  BY <1>2, <1>3, <1>4, <1>5, <1>6 DEF Continue

LEMMA PurgeType ==
  ASSUME Typed, NEW p \in Sweeper, Purge(p)
  PROVE  TypeOK'
  <1>1. p \in Proc /\ TypeOK /\ proc[p] \in Local
    BY DEF Proc, Typed, TypeOK
  <1>2. CASE PurgeScan(p)
    <2>1. proc' \in [Proc -> Local]
      BY <1>1, <1>2, ReadingType, BecomeType DEF PurgeScan, Op
    <2>. QED  BY <1>1, <1>2, <2>1 DEF PurgeScan, TypeOK, db, provider
  <1>3. CASE PurgeRecheck(p)
    <2>1. [proc[p] EXCEPT !.op = "purgeDelete"] \in Local
      BY <1>1 DEF Local, Op
    <2>2. proc' \in [Proc -> Local]
      BY <1>1, <1>3, <2>1, IdleType, BecomeType DEF PurgeRecheck, Return
    <2>. QED  BY <1>1, <1>3, <2>2 DEF PurgeRecheck, TypeOK, db, provider
  <1>4. CASE PurgeDelete(p)
    <2>1. sub' \in SubRow
      <3>1. sub' = [NoSub EXCEPT !.id = sub.id] /\ sub.id \in 0..MaxSub
        BY <1>1, <1>4 DEF PurgeDelete, TypeOK, SubRow
      <3>. QED  BY <3>1 DEF SubRow, NoSub
    <2>2. intents' \in [Intent -> IntentRow]
      <3>1. \A i \in Intent : [intents[i] EXCEPT !.status = "DELETED"] \in IntentRow
        BY <1>1 DEF TypeOK, IntentRow
      <3>. QED  BY <1>1, <1>4, <3>1 DEF PurgeDelete, TypeOK
    <2>3. invoices' \in Seq(InvoiceRow)
      BY <1>4 DEF PurgeDelete
    <2>4. proc' \in [Proc -> Local]
      BY <1>1, <1>4, IdleType, BecomeType DEF PurgeDelete, Return
    <2>. QED  BY <1>1, <1>4, <2>1, <2>2, <2>3, <2>4 DEF PurgeDelete, TypeOK, provider
  <1>. QED  BY <1>2, <1>3, <1>4 DEF Purge

LEMMA DeliverType ==
  ASSUME Typed, NEW p \in Hook, NEW e \in Event, Deliver(p, e)
  PROVE  TypeOK'
  <1>1. p \in Proc /\ TypeOK
    BY DEF Proc, Typed
  <1>2. PICK k \in LastPaid(e) :
          Become(p, [Reading("webhook") EXCEPT !.ev = e, !.it = Resolve(e), !.last = k])
    BY DEF Deliver
  <1>3. k \in Nat
    BY <1>1 DEF LastPaid, LatestPaid, TypeOK
  <1>4. Resolve(e) \in Intent \cup {NoIntent}
    BY DEF Resolve, IsLive
  <1>5. Reading("webhook") \in Local
    BY <1>1, ReadingType DEF Op
  <1>6. [Reading("webhook") EXCEPT !.ev = e, !.it = Resolve(e), !.last = k] \in Local
    BY <1>3, <1>4, <1>5 DEF Local
  <1>7. proc' \in [Proc -> Local]
    BY <1>1, <1>2, <1>6, BecomeType
  <1>. QED  BY <1>1, <1>7 DEF Deliver, TypeOK, db, provider

LEMMA CommitType ==
  ASSUME Typed, NEW p \in Hook, Commit(p)
  PROVE  TypeOK'
  <1>1. p \in Proc /\ TypeOK /\ WorkerInv /\ proc[p] \in Local
    BY DEF Proc, Typed, TypeOK
  <1>2. Committing(p)
    BY DEF Commit, CommitUnmatched, CommitRecurring, CommitMismatch, CommitFailure,
           CommitActivation, CommitOverflow, CommitUpgrade, CommitSuccess, OnIntent
  <1>3. /\ now' \in 0..MaxTime /\ ledger' \subseteq Event /\ applied' \in [Event -> Nat]
        /\ charges' \in [Intent -> Charge] /\ sent' \in [Event -> EventRec \cup {NotSent}]
        /\ asked' \in 0..MaxAsked /\ proc' \in [Proc -> Local]
    BY <1>1, <1>2, CommittingType
  <1>4. SUFFICES sub' \in SubRow /\ intents' \in [Intent -> IntentRow]
                 /\ invoices' \in Seq(InvoiceRow)
    BY <1>3 DEF TypeOK
  <1>5. CASE CommitUnmatched(p)
    BY <1>1, <1>5 DEF CommitUnmatched, TypeOK
  <1>6. CASE CommitRecurring(p)
    BY <1>1, <1>6, LifecycleType DEF CommitRecurring, TypeOK
  <1>7. CASE CommitMismatch(p)
    <2>1. proc[p].it \in Intent /\ SetIntent(p, "FAILED")
      BY <1>7 DEF CommitMismatch, OnIntent, IsLive
    <2>2. intents' \in [Intent -> IntentRow]
      BY <1>1, <2>1, SetIntentType DEF Live
    <2>. QED  BY <1>1, <1>7, <2>2 DEF CommitMismatch, TypeOK
  <1>8. CASE CommitFailure(p)
    <2>1. proc[p].it \in Intent /\ SetIntent(p, "FAILED") /\ ApplyLifecycleOnly(p)
      BY <1>8 DEF CommitFailure, OnIntent, IsLive
    <2>2. intents' \in [Intent -> IntentRow]
      BY <1>1, <2>1, SetIntentType DEF Live
    <2>. QED  BY <1>1, <2>1, <2>2, LifecycleType
  <1>9. CASE CommitActivation(p)
    <2>1. intents' \in [Intent -> IntentRow] /\ invoices' \in Seq(InvoiceRow)
      BY <1>1, <1>9, SuccessType DEF CommitActivation
    <2>2. proc[p].snap.end \in Nat /\ proc[p].at \in Nat
      BY <1>1 DEF Local, SubRow
    <2>3. /\ FreshPeriodEnd(proc[p].at) \in Nat
          /\ ExtendedPeriodEnd(proc[p].snap.end, proc[p].at) \in Nat
      BY <2>2, PeriodAssumption DEF FreshPeriodEnd, ExtendedPeriodEnd, LaterOf
    <2>4. PICK end \in Nat : sub' = [sub EXCEPT !.status = "ACTIVE", !.end = end]
      BY <1>9, <2>3 DEF CommitActivation
    <2>5. sub' \in SubRow
      BY <1>1, <2>4 DEF TypeOK, SubRow, SubStatus
    <2>. QED  BY <2>1, <2>5
  <1>10. CASE CommitOverflow(p)
    <2>1. intents' \in [Intent -> IntentRow] /\ invoices' \in Seq(InvoiceRow)
      BY <1>1, <1>10, SuccessType DEF CommitOverflow
    <2>2. sub \in SubRow /\ sub' = [sub EXCEPT !.slots = sub.slots + 1]
      BY <1>1, <1>10 DEF CommitOverflow, SlotsAfterGrant, TypeOK
    <2>3. sub.slots + 1 \in Nat
      BY <2>2 DEF SubRow
    <2>4. sub' \in SubRow
      BY <2>2, <2>3 DEF SubRow
    <2>. QED  BY <2>1, <2>4
  <1>11. CASE CommitUpgrade(p)
    <2>1. /\ intents' \in [Intent -> IntentRow] /\ invoices' \in Seq(InvoiceRow)
          /\ proc[p].it \in Intent
      BY <1>1, <1>11, SuccessType DEF CommitUpgrade
    <2>2. intents[proc[p].it].target \in Plan \cup {NoPlan}
      BY <1>1, <2>1 DEF TypeOK, IntentRow
    <2>3. sub' \in SubRow
      BY <1>1, <1>11, <2>2 DEF CommitUpgrade, TypeOK, SubRow, SubStatus
    <2>. QED  BY <2>1, <2>3
  <1>. QED  BY <1>5, <1>6, <1>7, <1>8, <1>9, <1>10, <1>11 DEF Commit

LEMMA SelectPlanType ==
  ASSUME Typed, NEW pl \in Plan, SelectPlan(pl)
  PROVE  TypeOK'
  <1>1. TypeOK /\ now \in Nat /\ Period \in Nat
    BY BillingAssumption, PeriodAssumption DEF Typed, TypeOK
  <1>2. sub' \in SubRow
    <2>1. CASE sub' = [sub EXCEPT !.status = "PENDING", !.plan = pl]
      BY <1>1, <2>1 DEF TypeOK, SubRow, SubStatus
    <2>2. CASE /\ sub.id < MaxSub
               /\ sub' = [NoSub EXCEPT !.id = sub.id + 1, !.status = "PENDING", !.plan = pl,
                                       !.end = now + Period]
      <3>1. sub.id + 1 \in 0..MaxSub /\ now + Period \in Nat
        <4>1. sub.id \in 0..MaxSub /\ now \in Nat /\ MaxSub \in Nat
          BY <1>1, BillingAssumption DEF TypeOK, SubRow
        <4>. QED  BY <1>1, <2>2, <4>1
      <3> DEFINE id == sub.id + 1
                 end == now + Period
      <3>2. sub' = [id |-> id, status |-> "PENDING", plan |-> pl, end |-> end,
                    canceledEffectiveAt |-> NoTime, slots |-> 0]
        BY <2>2 DEF NoSub
      <3>. HIDE DEF id, end
      <3>3. /\ id \in 0..MaxSub /\ end \in Nat /\ pl \in Plan \cup {NoPlan}
            /\ NoTime \in Nat \cup {NoTime} /\ 0 \in Nat
        BY <3>1 DEF id, end
      <3>4. "PENDING" \in SubStatus \cup {"NONE"}
        BY DEF SubStatus
      <3>. QED  BY <3>2, <3>3, <3>4 DEF SubRow
    <2>. QED  BY <2>1, <2>2 DEF SelectPlan
  <1>3. asked' \in 0..MaxAsked
    BY <1>1, BillingAssumption DEF SelectPlan, Ask, TypeOK
  <1>. QED  BY <1>1, <1>2, <1>3 DEF SelectPlan, TypeOK, provider

LEMMA CrashType ==
  ASSUME Typed, NEW p \in Proc, Crash(p)
  PROVE  TypeOK'
  <1>1. TypeOK
    BY DEF Typed
  <1>2. proc' \in [Proc -> Local]
    BY <1>1, IdleType, BecomeType DEF Crash, Return
  <1>. QED  BY <1>1, <1>2 DEF Crash, TypeOK, db, provider

LEMMA EmitType ==
  ASSUME TypeOK, NEW e \in Event, NEW rec \in EventRec, Emit(e, rec)
  PROVE  sent' \in [Event -> EventRec \cup {NotSent}]
  BY DEF Emit, TypeOK

LEMMA ProviderType ==
  ASSUME Typed, Provider
  PROVE  TypeOK'
  <1>1. TypeOK
    BY DEF Typed
  <1>2. ASSUME NEW e \in Event, NEW i \in Intent, NEW how \in How, ChargePaid(e, i, how)
        PROVE  TypeOK'
    <2>1. PICK amount \in {charges[i].amount} \cup Unreported :
            Emit(e, ChargeEvent(i, "payment_succeeded", how, amount))
      BY <1>2 DEF ChargePaid
    <2>2. amount \in Nat \cup {NoAmount}
      BY <1>1, BillingAssumption DEF TypeOK, Charge
    <2>3. ChargeEvent(i, "payment_succeeded", how, amount) \in EventRec
      BY <2>2, BillingAssumption DEF ChargeEvent, EventRec, EventType
    <2>4. sent' \in [Event -> EventRec \cup {NotSent}]
      BY <1>1, <2>1, <2>3, EmitType
    <2>5. charges' \in [Intent -> Charge]
      <3>1. charges[i] \in Charge /\ charges \in [Intent -> Charge]
        BY <1>1 DEF TypeOK
      <3>2. [charges[i] EXCEPT !.paid = @ + 1] \in Charge
        BY <3>1 DEF Charge
      <3>3. charges' = [charges EXCEPT ![i] = [charges[i] EXCEPT !.paid = @ + 1]]
        BY <1>2 DEF ChargePaid
      <3>. QED  BY <3>1, <3>2, <3>3
    <2>. QED  BY <1>1, <1>2, <2>4, <2>5 DEF ChargePaid, TypeOK, db
  <1>3. ASSUME NEW e \in Event, NEW i \in Intent, NEW how \in How,
               ChargeFailed(e, i, how) \/ ChargeRefunded(e, i, how)
        PROVE  TypeOK'
    <2>1. PICK type \in {"payment_failed", "refunded"} :
            Emit(e, ChargeEvent(i, type, how, NoAmount))
      BY <1>3 DEF ChargeFailed, ChargeRefunded
    <2>2. ChargeEvent(i, type, how, NoAmount) \in EventRec
      BY BillingAssumption DEF ChargeEvent, EventRec, EventType
    <2>3. sent' \in [Event -> EventRec \cup {NotSent}]
      BY <1>1, <2>1, <2>2, EmitType
    <2>4. UNCHANGED <<now, db, charges, proc, asked>>
      BY <1>3 DEF ChargeFailed, ChargeRefunded
    <2>. QED  BY <1>1, <2>3, <2>4 DEF TypeOK, db
  <1>4. ASSUME NEW e \in Event, NEW type \in EventType, RecurringEvent(e, type)
        PROVE  TypeOK'
    <2>1. [type |-> type, how |-> "sub", intent |-> NoIntent, subId |-> sub.id,
           amount |-> NoAmount] \in EventRec
      BY <1>1 DEF EventRec, TypeOK, SubRow
    <2>2. sent' \in [Event -> EventRec \cup {NotSent}]
      BY <1>1, <1>4, <2>1, EmitType DEF RecurringEvent
    <2>. QED  BY <1>1, <1>4, <2>2 DEF RecurringEvent, TypeOK, db
  <1>. QED  BY <1>2, <1>3, <1>4 DEF Provider

-------------------------------------------------------------------------------
(* What the workers hold.  A step changes one worker, and the ledger only by *)
(* the event that worker was processing.                                     *)

LEMMA OthersKeep ==
  ASSUME TypeOK, NEW p \in Proc, NEW l, Become(p, l)
  PROVE  proc'[p] = l /\ \A q \in Proc \ {p} : proc'[q] = proc[q]
  BY DEF TypeOK, Become

LEMMA WorkerFrame ==
  ASSUME Typed, NEW p \in Proc,
         \A q \in Proc \ {p} : proc'[q] = proc[q],
         WorkerOK(p, proc[p])',
         proc'[p].ev # NoEvent => \A q \in Proc \ {p} : proc[q].ev # proc'[p].ev,
         ledger' \subseteq ledger \cup {proc[p].ev},
         \A e \in Event : sent[e].type # "none" => sent'[e].type # "none"
  PROVE  WorkerInv' /\ OneWorkerPerEvent'
  <1>1. ASSUME NEW q \in Proc, q # p
        PROVE  WorkerOK(q, proc[q])'
    <2>1. WorkerOK(q, proc[q]) /\ proc'[q] = proc[q]
      BY <1>1 DEF Typed, WorkerInv
    <2>2. ASSUME proc[q].op = "webhook"
          PROVE  proc[q].ev \notin ledger' /\ sent'[proc[q].ev].type # "none"
      <3>1. proc[q].ev \in Event /\ proc[q].ev \notin ledger /\ sent[proc[q].ev].type # "none"
        BY <2>1, <2>2 DEF WorkerOK
      <3>2. proc[q].ev # proc[p].ev
        BY <1>1, <3>1, BillingAssumption DEF Typed, OneWorkerPerEvent
      <3>. QED  BY <3>1, <3>2
    <2>. QED  BY <2>1, <2>2 DEF WorkerOK
  <1>2. WorkerInv'
    BY <1>1 DEF WorkerInv
  <1>3. OneWorkerPerEvent'
    BY DEF Typed, OneWorkerPerEvent
  <1>. QED  BY <1>2, <1>3

\* A worker that takes no event, while nothing is sent and nothing enters the ledger but
\* the event it gives up, disturbs no other worker.
LEMMA EventlessStep ==
  ASSUME Typed, NEW p \in Proc, NEW l, Become(p, l), l.ev = NoEvent,
         WorkerOK(p, proc[p])',
         ledger' \subseteq ledger \cup {proc[p].ev}, UNCHANGED sent
  PROVE  WorkerInv' /\ OneWorkerPerEvent'
  <1>1. proc'[p] = l /\ \A q \in Proc \ {p} : proc'[q] = proc[q]
    BY OthersKeep DEF Typed
  <1>. QED  BY <1>1, WorkerFrame

LEMMA ReturnStep ==
  ASSUME Typed, NEW p \in Proc, Return(p),
         ledger' \subseteq ledger \cup {proc[p].ev}, UNCHANGED sent
  PROVE  WorkerInv' /\ OneWorkerPerEvent'
  <1>1. Become(p, Idle)
    BY DEF Return
  <1>2. proc'[p] = Idle
    BY <1>1, OthersKeep DEF Typed
  <1>3. WorkerOK(p, proc[p])'
    BY <1>2 DEF WorkerOK, Idle, Purpose
  <1>. QED  BY <1>1, <1>3, EventlessStep DEF Idle

LEMMA RequestWorkers ==
  ASSUME Typed, NEW p \in Api, Request(p)
  PROVE  WorkerInv' /\ OneWorkerPerEvent'
  <1>1. p \in Proc /\ TypeOK /\ RowInv
    BY DEF Proc, Typed
  <1>2. UNCHANGED <<ledger, sent>>
    BY DEF Request, InitiateRead, OverflowRead, PlanChangeRead, CancelRead, ReactivateRead,
           db, provider
  <1>3. ASSUME NEW op \in {"ACTIVATION", "cancel", "reactivate"}, SubExists,
               Become(p, Reading(op))
        PROVE  WorkerInv' /\ OneWorkerPerEvent'
    <2>1. proc'[p] = Reading(op)
      BY <1>1, <1>3, OthersKeep
    <2>2. Reading(op).op = op /\ Reading(op).snap = sub /\ Reading(op).ev = NoEvent
      BY <1>1, ReadingType DEF Op
    <2>3. WorkerOK(p, proc[p])'
      BY <1>1, <1>3, <2>1, <2>2 DEF WorkerOK, RowInv, Purpose
    <2>. QED  BY <1>1, <1>2, <1>3, <2>2, <2>3, EventlessStep
  <1>4. CASE OverflowRead(p)
    <2>1. proc'[p] = Reading("OVERFLOW") /\ Become(p, Reading("OVERFLOW"))
      BY <1>1, <1>4, OthersKeep DEF OverflowRead
    <2>2. /\ Reading("OVERFLOW").op = "OVERFLOW" /\ Reading("OVERFLOW").snap = sub
          /\ Reading("OVERFLOW").at = now /\ Reading("OVERFLOW").ev = NoEvent
      BY <1>1, ReadingType DEF Op
    <2>3. sub.plan \in Plan /\ sub.end > now
      BY <1>1, <1>4 DEF OverflowRead, RowInv, Proratable
    <2>4. WorkerOK(p, proc[p])'
      BY <2>1, <2>2, <2>3 DEF WorkerOK
    <2>. QED  BY <1>1, <1>2, <2>1, <2>2, <2>4, EventlessStep
  <1>5. ASSUME NEW pl \in Plan, PlanChangeRead(p, pl)
        PROVE  WorkerInv' /\ OneWorkerPerEvent'
    <2> DEFINE l == [Reading("UPGRADE") EXCEPT !.plan = pl]
    <2>1. proc'[p] = l /\ Become(p, l)
      BY <1>1, <1>5, OthersKeep DEF PlanChangeRead
    <2>2. /\ Reading("UPGRADE") \in Local
          /\ Reading("UPGRADE").op = "UPGRADE" /\ Reading("UPGRADE").snap = sub
          /\ Reading("UPGRADE").at = now /\ Reading("UPGRADE").ev = NoEvent
      BY <1>1, ReadingType DEF Op
    <2>3. /\ l.op = "UPGRADE" /\ l.snap = sub /\ l.at = now /\ l.ev = NoEvent
          /\ l.plan = pl
      BY <2>2 DEF Local
    <2>4. sub.plan \in Plan /\ sub.end > now /\ Price[pl] > Price[sub.plan]
      BY <1>1, <1>5 DEF PlanChangeRead, RowInv, Proratable
    <2>5. WorkerOK(p, proc[p])'
      BY <2>1, <2>3, <2>4 DEF WorkerOK
    <2>. QED  BY <1>1, <1>2, <2>1, <2>3, <2>5, EventlessStep
  <1>. QED  BY <1>3, <1>4, <1>5 DEF Request, InitiateRead, CancelRead, ReactivateRead

LEMMA ContinueWorkers ==
  ASSUME Typed, NEW p \in Api, Continue(p)
  PROVE  WorkerInv' /\ OneWorkerPerEvent'
  <1>1. p \in Proc /\ TypeOK /\ proc[p] \in Local /\ WorkerOK(p, proc[p])
    BY DEF Proc, Typed, TypeOK, WorkerInv
  <1>2. ASSUME NEW i \in Intent, CreateIntent(p, i)
        PROVE  WorkerInv' /\ OneWorkerPerEvent'
    <2> DEFINE l == [proc[p] EXCEPT !.op = "charge", !.it = i]
    <2>1. proc'[p] = l /\ Become(p, l) /\ proc[p].op # "webhook"
      BY <1>1, <1>2, OthersKeep DEF CreateIntent, Purpose
    <2>2. l.op = "charge" /\ l.it = i /\ l.ev = NoEvent
      BY <1>1, <2>1 DEF Local, WorkerOK
    <2>3. WorkerOK(p, proc[p])'
      BY <2>1, <2>2 DEF WorkerOK, Purpose
    <2>. QED  BY <1>1, <1>2, <2>1, <2>2, <2>3, EventlessStep DEF CreateIntent, provider
  <1>3. CASE CreateCharge(p)
    <2> DEFINE l == [proc[p] EXCEPT !.op = "setRef"]
    <2>1. proc'[p] = l /\ Become(p, l) /\ proc[p].op = "charge"
      BY <1>1, <1>3, OthersKeep DEF CreateCharge
    <2>2. l.op = "setRef" /\ l.it \in Intent /\ l.ev = NoEvent
      BY <1>1, <2>1 DEF Local, WorkerOK
    <2>3. WorkerOK(p, proc[p])'
      BY <2>1, <2>2 DEF WorkerOK, Purpose
    <2>. QED  BY <1>1, <1>3, <2>1, <2>2, <2>3, EventlessStep DEF CreateCharge, db
  <1>4. CASE RecordRef(p) \/ CancelWrite(p) \/ ReactivateWrite(p)
    BY <1>1, <1>4, ReturnStep DEF RecordRef, CancelWrite, ReactivateWrite, provider
  <1>. QED  BY <1>2, <1>3, <1>4 DEF Continue

LEMMA PurgeWorkers ==
  ASSUME Typed, NEW p \in Sweeper, Purge(p)
  PROVE  WorkerInv' /\ OneWorkerPerEvent'
  <1>1. p \in Proc /\ TypeOK /\ proc[p] \in Local /\ WorkerOK(p, proc[p])
    BY DEF Proc, Typed, TypeOK, WorkerInv
  <1>2. UNCHANGED <<ledger, sent>>
    BY DEF Purge, PurgeScan, PurgeRecheck, PurgeDelete, db, provider
  <1>3. CASE PurgeScan(p)
    <2>1. proc'[p] = Reading("purge") /\ Become(p, Reading("purge"))
      BY <1>1, <1>3, OthersKeep DEF PurgeScan
    <2>2. Reading("purge").op = "purge" /\ Reading("purge").ev = NoEvent
      BY <1>1, ReadingType DEF Op
    <2>3. WorkerOK(p, proc[p])'
      BY <2>1, <2>2 DEF WorkerOK, Purpose
    <2>. QED  BY <1>1, <1>2, <2>1, <2>2, <2>3, EventlessStep
  <1>4. ASSUME proc[p].op = "purge", Become(p, [proc[p] EXCEPT !.op = "purgeDelete"])
        PROVE  WorkerInv' /\ OneWorkerPerEvent'
    <2> DEFINE l == [proc[p] EXCEPT !.op = "purgeDelete"]
    <2>1. proc'[p] = l
      BY <1>1, <1>4, OthersKeep
    <2>2. l.op = "purgeDelete" /\ l.ev = NoEvent
      BY <1>1, <1>4 DEF Local, WorkerOK
    <2>3. WorkerOK(p, proc[p])'
      BY <2>1, <2>2 DEF WorkerOK, Purpose
    <2>. QED  BY <1>1, <1>2, <1>4, <2>2, <2>3, EventlessStep
  <1>5. CASE Return(p)
    BY <1>1, <1>2, <1>5, ReturnStep
  <1>. QED  BY <1>3, <1>4, <1>5 DEF Purge, PurgeRecheck, PurgeDelete

\* The unique index lets one worker at a time hold an event.
LEMMA DeliverWorkers ==
  ASSUME Typed, NEW p \in Hook, NEW e \in Event, Deliver(p, e)
  PROVE  WorkerInv' /\ OneWorkerPerEvent'
  <1>1. p \in Proc /\ TypeOK
    BY DEF Proc, Typed
  <1>2. PICK k \in LastPaid(e) :
          Become(p, [Reading("webhook") EXCEPT !.ev = e, !.it = Resolve(e), !.last = k])
    BY DEF Deliver
  <1> DEFINE l == [Reading("webhook") EXCEPT !.ev = e, !.it = Resolve(e), !.last = k]
  <1>3. proc'[p] = l /\ \A q \in Proc \ {p} : proc'[q] = proc[q]
    BY <1>1, <1>2, OthersKeep
  <1>4. Reading("webhook") \in Local /\ Reading("webhook").op = "webhook"
    BY <1>1, ReadingType DEF Op
  <1>5. l.op = "webhook" /\ l.ev = e
    BY <1>4 DEF Local
  <1>6. UNCHANGED <<ledger, sent>> /\ sent[e].type # "none" /\ e \notin ledger
    BY DEF Deliver, Deliverable, db, provider
  <1>7. WorkerOK(p, proc[p])'
    BY <1>3, <1>5, <1>6 DEF WorkerOK, Purpose
  <1>8. ASSUME NEW q \in Proc \ {p}
        PROVE  proc[q].ev # e
    <2>1. q \in Hook => proc[q].ev # e
      BY DEF Deliver, Deliverable, InFlight
    <2>2. q \notin Hook => proc[q].ev = NoEvent
      BY DEF Typed, WorkerInv, WorkerOK
    <2>. QED  BY <2>1, <2>2, BillingAssumption
  <1>. QED  BY <1>1, <1>3, <1>5, <1>6, <1>7, <1>8, WorkerFrame

LEMMA CommitIsCommitting ==
  ASSUME NEW p, Commit(p)
  PROVE  Committing(p)
  BY DEF Commit, CommitUnmatched, CommitRecurring, CommitMismatch, CommitFailure,
         CommitActivation, CommitOverflow, CommitUpgrade, CommitSuccess, OnIntent

\* A settled payment of an intent that can be written is committed as a success.
LEMMA PaidCommit ==
  ASSUME NEW p, Commit(p), proc[p].it # NoIntent,
         IsSuccess(sent[proc[p].ev].type), AmountMatches(p)
  PROVE  \E purpose \in {"ACTIVATION", "OVERFLOW", "UPGRADE"} : CommitSuccess(p, purpose)
  <1>1. ~CommitUnmatched(p) /\ ~CommitRecurring(p)
    BY DEF CommitUnmatched, CommitRecurring
  <1>2. ~CommitMismatch(p) /\ ~CommitFailure(p)
    BY DEF CommitMismatch, CommitFailure
  <1>3. CommitActivation(p) \/ CommitOverflow(p) \/ CommitUpgrade(p)
    BY <1>1, <1>2 DEF Commit
  <1>. QED  BY <1>3 DEF CommitActivation, CommitOverflow, CommitUpgrade

LEMMA CommitWorkers ==
  ASSUME Typed, NEW p \in Hook, Commit(p)
  PROVE  WorkerInv' /\ OneWorkerPerEvent'
  BY CommitIsCommitting, ReturnStep DEF Committing, Proc, provider

LEMMA EmitWorkers ==
  ASSUME Typed, Provider
  PROVE  WorkerInv' /\ OneWorkerPerEvent'
  <1>1. UNCHANGED <<ledger, proc>>
    BY DEF Provider, ChargePaid, ChargeFailed, ChargeRefunded, RecurringEvent, db
  <1>2. PICK e \in Event : \E rec : Emit(e, rec)
    BY DEF Provider, ChargePaid, ChargeFailed, ChargeRefunded, RecurringEvent
  <1>3. \A f \in Event : sent[f].type # "none" => sent'[f] = sent[f]
    BY <1>2 DEF Emit, Typed, TypeOK
  <1>4. WorkerInv'
    BY <1>1, <1>3 DEF Typed, WorkerInv, WorkerOK
  <1>. QED  BY <1>1, <1>4 DEF Typed, OneWorkerPerEvent

-------------------------------------------------------------------------------
(* The rows: a subscription that exists has a plan of the catalogue, and so *)
(* does the target of an upgrade.                                           *)

LEMMA LifecycleSub ==
  ASSUME TypeOK, NEW p \in Proc, ApplyLifecycleOnly(p)
  PROVE  /\ sub' = sub \/ (/\ SubExists /\ SubExists'
                           /\ sub'.status \in {"ACTIVE", "PAST_DUE"}
                           /\ sub' = [sub EXCEPT !.status = sub'.status])
  <1>1. CASE NextStatus(p) # NoTransition
    <2>1. NextStatus(p) \in {"ACTIVE", "PAST_DUE"}
      BY <1>1, TransitionType DEF NextStatus
    <2>2. SubExists /\ sub' = [sub EXCEPT !.status = NextStatus(p)]
      BY <1>1 DEF ApplyLifecycleOnly, RowStillThere
    <2>3. sub'.status = NextStatus(p)
      BY <2>2 DEF TypeOK, SubRow
    <2>. QED  BY <2>1, <2>2, <2>3 DEF SubExists
  <1>. QED  BY <1>1 DEF ApplyLifecycleOnly

LEMMA ContinueRows ==
  ASSUME Typed, NEW p \in Api, Continue(p)
  PROVE  RowInv'
  <1>1. p \in Proc /\ TypeOK /\ RowInv /\ proc[p] \in Local /\ WorkerOK(p, proc[p])
    BY DEF Proc, Typed, TypeOK, WorkerInv
  <1>2. ASSUME NEW i \in Intent, CreateIntent(p, i)
        PROVE  RowInv'
    <2>1. intents \in [Intent -> IntentRow] /\ UNCHANGED sub
      BY <1>1, <1>2 DEF TypeOK, CreateIntent
    <2>2. /\ intents'[i].purpose = proc[p].op /\ intents'[i].target = proc[p].plan
          /\ \A j \in Intent \ {i} : intents'[j] = intents[j]
      BY <1>2, <2>1 DEF CreateIntent
    <2>3. proc[p].op = "UPGRADE" => proc[p].plan \in Plan
      BY <1>1 DEF WorkerOK
    <2>. QED  BY <1>1, <2>1, <2>2, <2>3 DEF RowInv, SubExists
  <1>3. CASE CreateCharge(p)
    BY <1>1, <1>3 DEF CreateCharge, RowInv, SubExists, db
  <1>4. CASE RecordRef(p)
    <2>1. \A j \in Intent : intents'[j].purpose = intents[j].purpose
                            /\ intents'[j].target = intents[j].target
      BY <1>1, <1>4 DEF RecordRef, TypeOK, IntentRow
    <2>. QED  BY <1>1, <1>4, <2>1 DEF RecordRef, RowInv, SubExists
  <1>5. CASE CancelWrite(p) \/ ReactivateWrite(p)
    <2>1. sub'.plan = sub.plan /\ SubExists /\ UNCHANGED intents
      BY <1>1, <1>5 DEF CancelWrite, ReactivateWrite, TypeOK, SubRow, RowStillThere
    <2>. QED  BY <1>1, <2>1 DEF RowInv
  <1>. QED  BY <1>2, <1>3, <1>4, <1>5 DEF Continue

LEMMA PurgeRows ==
  ASSUME Typed, NEW p \in Sweeper, Purge(p)
  PROVE  RowInv'
  <1>1. CASE PurgeScan(p) \/ PurgeRecheck(p)
    BY <1>1 DEF PurgeScan, PurgeRecheck, db, Typed, RowInv, SubExists
  <1>2. CASE PurgeDelete(p)
    <2>1. sub'.status = "NONE"
      BY <1>2 DEF PurgeDelete, NoSub
    <2>2. \A i \in Intent : intents'[i].purpose = intents[i].purpose
                            /\ intents'[i].target = intents[i].target
      BY <1>2 DEF PurgeDelete, Typed, TypeOK, IntentRow
    <2>. QED  BY <2>1, <2>2 DEF Typed, RowInv, SubExists
  <1>. QED  BY <1>1, <1>2 DEF Purge

LEMMA SetIntentKeeps ==
  ASSUME TypeOK, NEW p \in Proc, NEW status, SetIntent(p, status)
  PROVE  \A i \in Intent :
           /\ intents'[i].purpose = intents[i].purpose
           /\ intents'[i].target = intents[i].target
           /\ intents'[i].amount = intents[i].amount
           /\ i # proc[p].it => intents'[i] = intents[i]
           /\ i = proc[p].it => intents'[i].status = status
  BY DEF TypeOK, SetIntent, IntentRow

LEMMA CommitRows ==
  ASSUME Typed, NEW p \in Hook, Commit(p)
  PROVE  RowInv'
  <1>1. p \in Proc /\ TypeOK /\ RowInv
    BY DEF Proc, Typed
  <1>2. \A i \in Intent : intents'[i].purpose = intents[i].purpose
                          /\ intents'[i].target = intents[i].target
    <2>1. UNCHANGED intents \/ (\E status \in Live : SetIntent(p, status))
      BY DEF Commit, CommitUnmatched, CommitRecurring, CommitMismatch, CommitFailure,
             CommitActivation, CommitOverflow, CommitUpgrade, CommitSuccess, Live
    <2>. QED  BY <1>1, <2>1, SetIntentKeeps
  <1>3. SubExists' => sub'.plan \in Plan
    <2>1. CASE UNCHANGED sub
      BY <1>1, <2>1 DEF RowInv, SubExists
    <2>2. CASE ApplyLifecycleOnly(p)
      BY <1>1, <2>2, LifecycleSub DEF RowInv, SubExists, TypeOK, SubRow
    <2>3. CASE CommitActivation(p) \/ CommitOverflow(p)
      <3>1. SubExists /\ sub'.plan = sub.plan
        BY <1>1, <2>3 DEF CommitActivation, CommitOverflow, CommitSuccess, RowStillThere,
                          TypeOK, SubRow
      <3>. QED  BY <1>1, <3>1 DEF RowInv
    <2>4. CASE CommitUpgrade(p)
      <3>1. proc[p].it \in Intent /\ intents[proc[p].it].purpose = "UPGRADE"
        BY <2>4 DEF CommitUpgrade, CommitSuccess, OnIntent, IsLive
      <3>2. sub'.plan = intents[proc[p].it].target
        BY <1>1, <2>4 DEF CommitUpgrade, TypeOK, SubRow
      <3>. QED  BY <1>1, <3>1, <3>2 DEF RowInv
    <2>. QED  BY <2>1, <2>2, <2>3, <2>4
              DEF Commit, CommitUnmatched, CommitRecurring, CommitMismatch, CommitFailure
  <1>. QED  BY <1>1, <1>2, <1>3 DEF RowInv

LEMMA SelectPlanRows ==
  ASSUME Typed, NEW pl \in Plan, SelectPlan(pl)
  PROVE  RowInv'
  <1>1. sub'.plan = pl
    BY DEF SelectPlan, Typed, TypeOK, SubRow, NoSub
  <1>. QED  BY <1>1 DEF SelectPlan, Typed, RowInv

-------------------------------------------------------------------------------
(* The inductive invariant Typed.                                            *)

LEMMA TypedInit == Init => Typed
  <1> SUFFICES ASSUME Init PROVE Typed
    OBVIOUS
  <1>1. TypeOK
    <2>1. sub \in SubRow /\ now \in 0..MaxTime /\ asked \in 0..MaxAsked
      BY BillingAssumption DEF Init, SubRow, NoSub, NoTime
    <2>2. intents \in [Intent -> IntentRow]
      BY DEF Init, IntentRow, NoIntentRow, Purpose
    <2>3. charges \in [Intent -> Charge] /\ sent \in [Event -> EventRec \cup {NotSent}]
      BY DEF Init, Charge, NoCharge
    <2>4. proc \in [Proc -> Local]
      BY IdleType DEF Init
    <2>5. invoices \in Seq(InvoiceRow) /\ ledger \subseteq Event /\ applied \in [Event -> Nat]
      BY DEF Init
    <2>. QED  BY <2>1, <2>2, <2>3, <2>4, <2>5 DEF TypeOK
  <1>2. WorkerInv /\ OneWorkerPerEvent
    <2>1. \A p \in Proc : proc[p] = Idle
      BY DEF Init
    <2>. QED  BY <2>1 DEF WorkerInv, WorkerOK, OneWorkerPerEvent, Idle, Purpose
  <1>3. RowInv
    BY DEF Init, RowInv, SubExists, NoSub, NoIntentRow
  <1>. QED  BY <1>1, <1>2, <1>3 DEF Typed

LEMMA TypedStep ==
  ASSUME Typed, [Next]_vars
  PROVE  Typed'
  <1>1. CASE UNCHANGED vars
    BY <1>1 DEF vars, db, provider, Typed, TypeOK, WorkerInv, WorkerOK, OneWorkerPerEvent,
                RowInv, SubExists
  <1>2. ASSUME NEW pl \in Plan, SelectPlan(pl)
        PROVE  Typed'
    <2>1. TypeOK' /\ RowInv'
      BY <1>2, SelectPlanType, SelectPlanRows
    <2>2. UNCHANGED <<ledger, sent, proc>>
      BY <1>2 DEF SelectPlan, provider
    <2>. QED  BY <2>1, <2>2 DEF Typed, WorkerInv, WorkerOK, OneWorkerPerEvent
  <1>3. ASSUME NEW p \in Api, Request(p)
        PROVE  Typed'
    <2>1. RowInv'
      BY <1>3 DEF Request, InitiateRead, OverflowRead, PlanChangeRead, CancelRead,
                  ReactivateRead, db, Typed, RowInv, SubExists
    <2>. QED  BY <1>3, <2>1, RequestType, RequestWorkers DEF Typed
  <1>4. ASSUME NEW p \in Api, Continue(p)
        PROVE  Typed'
    BY <1>4, ContinueType, ContinueWorkers, ContinueRows DEF Typed
  <1>5. ASSUME NEW p \in Sweeper, Purge(p)
        PROVE  Typed'
    BY <1>5, PurgeType, PurgeWorkers, PurgeRows DEF Typed
  <1>6. ASSUME NEW p \in Hook, NEW e \in Event, Deliver(p, e)
        PROVE  Typed'
    <2>1. RowInv'
      BY <1>6 DEF Deliver, db, Typed, RowInv, SubExists
    <2>. QED  BY <1>6, <2>1, DeliverType, DeliverWorkers DEF Typed
  <1>7. ASSUME NEW p \in Hook, Commit(p)
        PROVE  Typed'
    BY <1>7, CommitType, CommitWorkers, CommitRows DEF Typed
  <1>8. ASSUME NEW p \in Proc, Crash(p)
        PROVE  Typed'
    <2>1. WorkerInv' /\ OneWorkerPerEvent'
      BY <1>8, ReturnStep DEF Crash, db, provider
    <2>2. RowInv'
      BY <1>8 DEF Crash, db, Typed, RowInv, SubExists
    <2>. QED  BY <1>8, <2>1, <2>2, CrashType DEF Typed
  <1>9. CASE Provider
    <2>1. RowInv'
      BY <1>9 DEF Provider, ChargePaid, ChargeFailed, ChargeRefunded, RecurringEvent, db,
                  Typed, RowInv, SubExists
    <2>. QED  BY <1>9, <2>1, ProviderType, EmitWorkers DEF Typed
  <1>10. CASE Tick
    <2>1. now' \in 0..MaxTime
      BY <1>10, BillingAssumption DEF Tick, Typed, TypeOK
    <2>2. UNCHANGED <<sub, intents, invoices, ledger, applied, charges, sent, asked, proc>>
      BY <1>10 DEF Tick, db, provider
    <2>. QED  BY <2>1, <2>2 DEF Typed, TypeOK, WorkerInv, WorkerOK, OneWorkerPerEvent, RowInv,
                                SubExists
  <1>. QED  BY <1>1, <1>2, <1>3, <1>4, <1>5, <1>6, <1>7, <1>8, <1>9, <1>10 DEF Next, Webhook

LEMMA TypedAlways == Spec => []Typed
  BY TypedInit, TypedStep, PTL DEF Spec

\* Every reachable state is well typed: in particular the amount of an intent quoted from
\* a stale row is still a natural number, because a quote is only taken while it is
\* computable and the request keeps the row it quoted from (WorkerOK).
THEOREM TypeCorrect == Spec => []TypeOK
  BY TypedAlways, PTL DEF Typed
===============================================================================
