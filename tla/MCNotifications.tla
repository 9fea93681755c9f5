---------------------------- MODULE MCNotifications ----------------------------
(* Instances of Notifications for TLC. *)
EXTENDS Notifications, TLC

\* Two reminders for the child itself are switched on.
MCSetup ==
  [c \in Kid |-> [t \in ReminderType |->
     [there |-> t \in {"STREAK_PROTECTION", "DAILY_STUDY"},
      enabled |-> t \in {"STREAK_PROTECTION", "DAILY_STUDY"},
      recipient |-> DefaultRecipient[t]]]]

===============================================================================
