----------------------------- MODULE ReminderRules -----------------------------
(***************************************************************************)
(* The pure part of reminders and notifications: the catalog of reminder   *)
(* types (lib/reminders.ts), the civil day the daily cap is counted over   *)
(* (lib/time.ts), and the intents a reminder turns into                    *)
(* (reminders.service.ts).                                                 *)
(***************************************************************************)
EXTENDS Integers

CONSTANTS
  Kid,          \* the children
  NoKid,        \* the child of a notice that is about the family
  TicksPerDay,  \* ticks of the clock in a civil day
  Offset        \* config.PLATFORM_TZ_OFFSET_MINUTES, in ticks

ASSUME ReminderRulesAssumption ==
  TicksPerDay \in Nat \ {0} /\ Offset \in Nat /\ NoKid \notin Kid

\* REMINDER_PRIORITY_RANK: the lower the rank, the sooner a notice is sent.
Rank ==
  [MISSED_SESSION |-> 1, STRUGGLE_ALERT |-> 2, HOMEWORK_DUE |-> 3, EXAM_COUNTDOWN |-> 4,
   STREAK_PROTECTION |-> 5, DAILY_STUDY |-> 6, WEEKLY_SUMMARY |-> 7, ACHIEVEMENT |-> 8,
   REWARD_REDEEMED |-> 9]

ReminderType == DOMAIN Rank
NoType == "none"

Recipient == {"CHILD", "PARENT", "BOTH"}

\* REMINDER_CATALOG: the recipient a row gets that is created by a parent's first change.
DefaultRecipient ==
  [t \in ReminderType |->
     CASE t \in {"DAILY_STUDY", "STREAK_PROTECTION"} -> "CHILD"
       [] t \in {"HOMEWORK_DUE", "EXAM_COUNTDOWN", "ACHIEVEMENT"} -> "BOTH"
       [] OTHER -> "PARENT"]

\* The types the time-driven sweep produces; the others have producers of their own.
SweepDriven ==
  {"DAILY_STUDY", "HOMEWORK_DUE", "STREAK_PROTECTION", "MISSED_SESSION", "WEEKLY_SUMMARY",
   "EXAM_COUNTDOWN"}

\* A ReminderConfig row of a child and a type.
ConfigRow == [there : BOOLEAN, enabled : BOOLEAN, recipient : Recipient]

\* riyadhCapDay.
CapDay(t) == (t + Offset) \div TicksPerDay

-------------------------------------------------------------------------------
(* Intents. *)

Channel == {"PUSH", "EMAIL"}

\* CHILD_CHANNELS and PARENT_CHANNELS.
ChannelsOf(to) == IF to = "CHILD" THEN {"PUSH"} ELSE Channel

\* counts: the daily cap counts it.
Intent ==
  [kid : Kid \cup {NoKid}, to : {"CHILD", "PARENT"}, type : ReminderType \cup {NoType},
   counts : BOOLEAN]

Notice(c, to, t, counts) == [kid |-> c, to |-> to, type |-> t, counts |-> counts]

\* buildIntentsForReminder, for the side `to`.
AddressedTo(row, to) == row.recipient \in {to, "BOTH"}

TriggerHolds(row, t) == row.there /\ row.enabled /\ t \in SweepDriven

\* evaluateChild: a paused child gets no reminder itself, its parents still do.
EvaluateChild(c, rows, inactive) ==
  {i \in {Notice(c, to, t, to = "CHILD") : to \in {"CHILD", "PARENT"}, t \in ReminderType} :
     /\ TriggerHolds(rows[i.type], i.type)
     /\ AddressedTo(rows[i.type], i.to)
     /\ ~(inactive /\ i.to = "CHILD")}

\* intentRank; an intent without a type comes last.
RankOf(i) == IF i.type = NoType THEN 10 ELSE Rank[i.type]

FirstInRank(s) == CHOOSE i \in s : \A j \in s : RankOf(i) <= RankOf(j)

\* What session-event processing adds (progress.service, rewards.service) and billing.
StruggleAlert(c) == Notice(c, "PARENT", "STRUGGLE_ALERT", FALSE)
GoalReached(c) == Notice(c, "PARENT", "REWARD_REDEEMED", TRUE)
BillingNotice == Notice(NoKid, "PARENT", NoType, FALSE)
===============================================================================
