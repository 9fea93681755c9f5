----------------------------- MODULE LearningRules -----------------------------
(***************************************************************************)
(* The pure part of session events: the homework transition                *)
(* (homework.service.ts), mastery, trend and levels (progress.service.ts), *)
(* and what the dashboard counts (dashboard.service.ts).                   *)
(***************************************************************************)
EXTENDS Integers, FiniteSetsExt, SequencesExt

CONSTANTS
  LevelSpan,        \* LEVEL_XP_SPAN
  HistoryLength,    \* how much of a subject's mastery history is kept
  LowMastery,       \* config.STRUGGLE_MASTERY_THRESHOLD
  StruggleAfter     \* config.STRUGGLE_CONSECUTIVE_THRESHOLD

ASSUME LearningRulesAssumption ==
  {LevelSpan, HistoryLength, StruggleAfter} \subseteq Nat \ {0} /\ LowMastery \in 0..100

Outcome == {"started", "completed", "abandoned"}

HomeworkStatus == {"PENDING", "IN_PROGRESS", "COMPLETED", "COMPLETED_LATE", "OVERDUE"}
Unfinished == {"PENDING", "IN_PROGRESS"}
Finished == {"COMPLETED", "COMPLETED_LATE"}

TransitionNeverLate(status, kind, deadline, at) ==
  CASE status \in Finished -> status
    [] status \notin Finished /\ kind = "started" ->
         IF status = "PENDING" THEN "IN_PROGRESS" ELSE status
    [] OTHER -> IF status = "OVERDUE" THEN "COMPLETED_LATE" ELSE "COMPLETED"

\* transition; the same status when the event does not move the item.
Transition(status, kind, deadline, at) ==
  CASE status \in Finished -> status
    [] status \notin Finished /\ kind = "started" ->
         IF status = "PENDING" THEN "IN_PROGRESS" ELSE status
    [] OTHER -> IF at > deadline \/ status = "OVERDUE" THEN "COMPLETED_LATE" ELSE "COMPLETED"

-------------------------------------------------------------------------------
(* Progress. *)

\* The counters of a Child row a session moves.
Totals == [xp : Nat, level : Nat, levelXp : Nat, minutes : Nat]

NoTotals == [xp |-> 0, level |-> 1, levelXp |-> 0, minutes |-> 0]

AddSessionOneLevel(c, xp, minutes) ==
  LET levelXp == c.levelXp + xp IN
  [xp |-> c.xp + xp, minutes |-> c.minutes + minutes,
   level |-> IF levelXp >= LevelSpan THEN c.level + 1 ELSE c.level,
   levelXp |-> levelXp % LevelSpan]

\* deriveFromSession, the child's snapshot: a session may lift it by several levels.
AddSession(c, xp, minutes) ==
  LET levelXp == c.levelXp + xp IN
  [xp |-> c.xp + xp, minutes |-> c.minutes + minutes,
   level |-> c.level + levelXp \div LevelSpan, levelXp |-> levelXp % LevelSpan]

Trend == {"UP", "DOWN", "FLAT"}

TrendFor(history, latest) ==
  LET previous == IF history = <<>> THEN latest ELSE Last(history) IN
  CASE latest > previous -> "UP" [] latest < previous -> "DOWN" [] OTHER -> "FLAT"

\* slice(-HistoryLength).
Remember(history, mastery) ==
  LET all == Append(history, mastery) IN
  IF Len(all) <= HistoryLength THEN all ELSE Tail(all)

AverageMasterySummed(topics, mastery) ==
  MapThenSumSet(LAMBDA t : IF t \in DOMAIN mastery THEN mastery[t] ELSE 0, topics)

\* averageMastery: a touched topic without a mastery counts as 0; Math.round.
AverageMastery(topics, mastery) ==
  LET n == Cardinality(topics)
      sum == MapThenSumSet(LAMBDA t : IF t \in DOMAIN mastery THEN mastery[t] ELSE 0, topics) IN
  (2 * sum + n) \div (2 * n)

IsLow(mastery) == mastery < LowMastery

-------------------------------------------------------------------------------
(* The views. *)

\* countHomework: the statuses behind each of the dashboard's three counts.
CountedAs == [pending |-> Unfinished, completed |-> Finished, overdue |-> {"OVERDUE"}]
===============================================================================
