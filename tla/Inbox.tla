-------------------------------- MODULE Inbox ---------------------------------
(***************************************************************************)
(* What an idempotent receiver promises, whatever it does with a message:  *)
(* a message that was sent takes effect at most once, however often it is  *)
(* delivered, and is recorded as processed exactly when it takes effect.   *)
(*                                                                         *)
(* The webhook receiver (webhooks.service.ts, ledger WebhookEvent) and the *)
(* session-event worker (sessionEvents.service.ts, ProcessedSessionEvent)  *)
(* are both written to this contract.                                      *)
(***************************************************************************)
EXTENDS Naturals

CONSTANT Message

VARIABLES
  sent,     \* the messages their sender has produced
  done,     \* the messages the ledger records
  effects   \* how many times each message has taken effect

vars == <<sent, done, effects>>

Init ==
  /\ sent = {}
  /\ done = {}
  /\ effects = [m \in Message |-> 0]

Send(m) ==
  /\ m \notin sent
  /\ sent' = sent \cup {m}
  /\ UNCHANGED <<done, effects>>

Process(m) ==
  /\ m \in sent \ done
  /\ done' = done \cup {m}
  /\ effects' = [effects EXCEPT ![m] = @ + 1]
  /\ UNCHANGED sent

Next == \E m \in Message : Send(m) \/ Process(m)

Spec == Init /\ [][Next]_vars
===============================================================================
