----------------------------- MODULE BillingRules -----------------------------
(***************************************************************************)
(* The pure arithmetic and the pure status table of the billing code:      *)
(* src/lib/proration.ts, the period helpers of webhooks.service.ts, the    *)
(* amount the Moyasar adapter puts on a hosted invoice, and transition.ts. *)
(*                                                                         *)
(* One unit of time is one day and every subscription has the same cycle,  *)
(* so a period is Period days (30 or 365 in the code).  Amounts are minor  *)
(* units (halalas).                                                        *)
(***************************************************************************)
EXTENDS Integers

CONSTANT Period

ASSUME PeriodAssumption == Period \in Nat \ {0}

LaterOf(a, b) == IF a > b THEN a ELSE b
EarlierOf(a, b) == IF a < b THEN a ELSE b

(***************************************************************************)
(* Proration.  Prorate is called only when Proratable holds: the code      *)
(* throws ProrationUncomputableError otherwise.  JavaScript's Math.round   *)
(* rounds a half up, hence the doubled numerator and denominator.          *)
(***************************************************************************)
Proratable(end, t) == end > t

RemainingDays(end, t) == EarlierOf(Period, end - t)

Prorate(full, end, t) ==
  (2 * full * RemainingDays(end, t) + Period) \div (2 * Period)

(***************************************************************************)
(* Moyasar accepts SAR amounts in multiples of 10 halalas on a hosted      *)
(* invoice, so the adapter rounds the amount up.                           *)
(***************************************************************************)
HostedAmount(amount) == ((amount + 9) \div 10) * 10

ExtendedPeriodEnd(end, t) == LaterOf(end, t) + Period
FreshPeriodEnd(t) == t + Period

(***************************************************************************)
(* The status table.  renewal_failed and disputed have the same row as     *)
(* payment_failed, which stands for the three.                             *)
(***************************************************************************)
EventType == {"payment_succeeded", "renewal_succeeded", "payment_failed", "refunded"}
SubStatus == {"PENDING", "ACTIVE", "PAST_DUE", "CANCELED"}
NoTransition == "null"

IsSuccess(type) == type \in {"payment_succeeded", "renewal_succeeded"}

ResolveTransition(current, type) ==
  CASE type = "payment_succeeded" /\ current \in {"PENDING", "PAST_DUE", "ACTIVE"} -> "ACTIVE"
    [] type = "renewal_succeeded" /\ current \in {"PAST_DUE", "ACTIVE"} -> "ACTIVE"
    [] type = "payment_failed" /\ current = "ACTIVE" -> "PAST_DUE"
    [] type = "refunded" /\ current \in {"PAST_DUE", "ACTIVE"} -> "PAST_DUE"
    [] OTHER -> NoTransition
===============================================================================
