---------------------------- MODULE Learning_proofs ----------------------------
(***************************************************************************)
(* Theorems about Learning, for every value of its constants: any number   *)
(* of consumers, events, children, subjects, topics and homework items,    *)
(* any thresholds and any number of crashes.                               *)
(***************************************************************************)
EXTENDS Learning, SetSums

-------------------------------------------------------------------------------
(* Types. *)

TxOp == {"idle", "match", "update", "child", "commit", "notify"}

\* A consumer that is not idle holds an event, one that writes homework an item.
WorkTypes ==
  /\ kids \subseteq Kid /\ totals \in [Kid -> Totals]
  /\ hw \in [HwId -> HwRow]
  /\ tx \in [Consumer -> Tx]
  /\ \A c \in Consumer :
       /\ tx[c].op # "idle" => tx[c].event \in EventId
       /\ tx[c].op = "update" \/ tx[c].held => tx[c].item \in HwId

LEMMA EventTypes ==
  ASSUME NEW e \in EventId
  PROVE  /\ Event[e].kid \in Kid /\ Event[e].subject \in Subject
         /\ Event[e].topics \subseteq Topic /\ Event[e].outcome \in Outcome
         /\ Event[e].xp \in Nat /\ Event[e].minutes \in Nat /\ Event[e].at \in Nat
         /\ Event[e].ref \in HwId \cup {NoHw}
         /\ DOMAIN Event[e].mastery \subseteq Topic
         /\ \A t \in DOMAIN Event[e].mastery : Event[e].mastery[t] \in 0..100
  <1>1. Event[e] \in EventRec
    BY LearningAssumption
  <1>2. Event[e].mastery \in UNION {[ts -> 0..100] : ts \in SUBSET Topic}
    BY <1>1 DEF EventRec
  <1>3. PICK ts \in SUBSET Topic : Event[e].mastery \in [ts -> 0..100]
    BY <1>2
  <1>4. /\ DOMAIN Event[e].mastery \subseteq Topic
        /\ \A t \in DOMAIN Event[e].mastery : Event[e].mastery[t] \in 0..100
    BY <1>3
  <1>. QED  BY <1>1, <1>4 DEF EventRec

\* A level is LevelSpan points wide: what a session adds leaves the counters numbers, and
\* the points in the level fewer than its width (deriveFromSession).
LEMMA AddSessionTypes ==
  ASSUME NEW c \in Totals, NEW xp \in Nat, NEW minutes \in Nat
  PROVE  /\ AddSession(c, xp, minutes) \in Totals
         /\ AddSession(c, xp, minutes).xp = c.xp + xp
         /\ AddSession(c, xp, minutes).levelXp < LevelSpan
         /\ c.level >= 1 => AddSession(c, xp, minutes).level >= 1
         /\ c.xp = (c.level - 1) * LevelSpan + c.levelXp =>
              AddSession(c, xp, minutes).xp =
                (AddSession(c, xp, minutes).level - 1) * LevelSpan
                  + AddSession(c, xp, minutes).levelXp
  <1> DEFINE l == c.levelXp + xp
             q == l \div LevelSpan
             m == l % LevelSpan
  <1>1. /\ c.xp \in Nat /\ c.level \in Nat /\ c.levelXp \in Nat /\ c.minutes \in Nat
        /\ LevelSpan \in Nat /\ LevelSpan > 0 /\ l \in Nat
    BY LearningRulesAssumption DEF Totals
  <1>2. q \in Nat /\ m \in Nat /\ m < LevelSpan /\ l = q * LevelSpan + m
    BY <1>1
  <1>3. AddSession(c, xp, minutes) =
          [xp |-> c.xp + xp, minutes |-> c.minutes + minutes, level |-> c.level + q,
           levelXp |-> m]
    BY DEF AddSession
  <1>4. ASSUME c.xp = (c.level - 1) * LevelSpan + c.levelXp
        PROVE  c.xp + xp = (c.level + q - 1) * LevelSpan + m
    <2> HIDE DEF q, m
    <2>1. (c.level + q - 1) * LevelSpan = (c.level - 1) * LevelSpan + q * LevelSpan
      BY <1>1, <1>2
    <2>. QED  BY <1>1, <1>2, <1>4, <2>1
  <1> HIDE DEF q, m, l
  <1>. QED  BY <1>1, <1>2, <1>3, <1>4 DEF Totals

LEMMA MatchIsItem ==
  ASSUME NEW e \in EventId
  PROVE  MatchHomework(Event[e]) \subseteq HwId
  BY EventTypes DEF MatchHomework, Candidates

\* The steps that write a child, its counters, an item or a transaction.
WorkStep ==
  \/ \E c \in Consumer : (\E e \in EventId : Begin(c, e)) \/ ConsumerStep(c)
  \/ SweepOverdue
  \/ \E h \in HwId, k \in Kid, a \in Assignable : CreateHomework(h, k, a[1], a[2], a[3])
  \/ \E k \in Kid : PurgeChild(k)

LEMMA WorkSteps ==
  ASSUME [Next]_vars
  PROVE  WorkStep \/ UNCHANGED <<kids, totals, hw, tx>>
  <1>1. ASSUME NEW c \in Consumer, NEW e \in EventId, Finish(c, e)
        PROVE  UNCHANGED <<kids, totals, hw, tx>>
    BY <1>1 DEF Finish, progress
  <1>2. CASE \/ \E e \in EventId : EnqueueSessionEvent(e)
             \/ RecordConsent \/ Tick \/ UNCHANGED vars
    BY <1>2 DEF EnqueueSessionEvent, RecordConsent, Tick, progress, vars
  <1>. QED  BY <1>1, <1>2 DEF Next, WorkStep, TakeEvent, Request

LEMMA WorkInit == Init => WorkTypes
  <1>1. NoTotals \in Totals
    BY DEF NoTotals, Totals
  <1>2. IdleTx \in Tx
    BY <1>1 DEF IdleTx, Tx, HomeworkStatus
  <1>. QED  BY <1>1, <1>2, LearningAssumption DEF Init, WorkTypes, IdleTx

\* What a transaction does to itself: it reads an item and decides its next status, takes
\* the item's lock, reads the child.
LEMMA ReadsItem ==
  ASSUME WorkTypes, NEW c \in Consumer, ReadHomework(c)
  PROVE  /\ tx[c].op = "match" /\ tx[c].event \in EventId
         /\ tx'[c] \in Tx /\ tx' = [tx EXCEPT ![c] = tx'[c]]
         /\ tx'[c].event = tx[c].event /\ tx'[c].held = tx[c].held
         /\ \/ tx'[c].op = "child" /\ tx'[c].item = tx[c].item /\ tx'[c].next = tx[c].next
            \/ /\ tx'[c].op = "update" /\ tx'[c].item \in MatchHomework(EventOf(c))
               /\ tx'[c].item \in HwId
               /\ tx'[c].next # hw[tx'[c].item].status
               /\ tx'[c].next = Transition(hw[tx'[c].item].status, EventOf(c).outcome,
                                           hw[tx'[c].item].deadline, EventOf(c).at)
  <1> USE DEF WorkTypes
  <1>1. tx[c].op = "match" /\ tx[c] \in Tx /\ tx[c].event \in EventId
    BY DEF ReadHomework
  <1>2. CASE tx' = [tx EXCEPT ![c].op = "child"]
    BY <1>1, <1>2 DEF Tx
  <1>3. CASE tx' # [tx EXCEPT ![c].op = "child"]
    <2> DEFINE n(h) == Transition(hw[h].status, EventOf(c).outcome, hw[h].deadline,
                                  EventOf(c).at)
    <2>1. PICK h \in MatchHomework(EventOf(c)) :
            /\ tx' = [tx EXCEPT ![c].op = "update", ![c].item = h, ![c].next = n(h)]
            /\ n(h) # hw[h].status
      BY <1>3 DEF ReadHomework
    <2>2. h \in HwId /\ EventOf(c).outcome \in Outcome
      BY <1>1, MatchIsItem, EventTypes DEF EventOf
    <2>3. HwThere(h)
      BY DEF MatchHomework, Candidates, HwThere, Unfinished
    <2>4. n(h) \in HomeworkStatus
      BY <2>2, <2>3 DEF Transition, HomeworkStatus, Finished, Outcome, HwThere, HwRow
    <2> HIDE DEF n
    <2>5. /\ tx'[c] \in Tx /\ tx' = [tx EXCEPT ![c] = tx'[c]]
          /\ tx'[c].event = tx[c].event /\ tx'[c].held = tx[c].held
          /\ tx'[c].op = "update" /\ tx'[c].item = h /\ tx'[c].next = n(h)
      BY <1>1, <2>1, <2>2, <2>4 DEF Tx
    <2>. QED  BY <1>1, <2>1, <2>2, <2>5 DEF n
  <1>. QED  BY <1>2, <1>3

LEMMA LocksItem ==
  ASSUME WorkTypes, NEW c \in Consumer, UpdateHomework(c)
  PROVE  /\ tx[c].op = "update" /\ tx[c].event \in EventId
         /\ tx'[c] \in Tx /\ tx' = [tx EXCEPT ![c] = tx'[c]]
         /\ tx'[c].op = "child" /\ tx'[c].event = tx[c].event /\ tx'[c].item = tx[c].item
         /\ tx'[c].next = tx[c].next /\ tx'[c].held
  <1>1. tx[c] \in Tx /\ tx' = [tx EXCEPT ![c].op = "child", ![c].held = TRUE]
    BY DEF UpdateHomework, WorkTypes
  <1>2. tx' = [tx EXCEPT ![c] = [tx[c] EXCEPT !.op = "child", !.held = TRUE]]
        /\ tx'[c] = [tx[c] EXCEPT !.op = "child", !.held = TRUE]
    BY <1>1 DEF WorkTypes
  <1>3. tx'[c] \in Tx /\ tx'[c].op = "child" /\ tx'[c].event = tx[c].event
        /\ tx'[c].item = tx[c].item /\ tx'[c].next = tx[c].next /\ tx'[c].held
    BY <1>1, <1>2 DEF Tx
  <1>. QED  BY <1>2, <1>3 DEF UpdateHomework, WorkTypes

LEMMA ReadsChild ==
  ASSUME WorkTypes, NEW c \in Consumer, ReadChild(c)
  PROVE  /\ tx[c].op = "child" /\ tx[c].event \in EventId
         /\ tx'[c] \in Tx /\ tx' = [tx EXCEPT ![c] = tx'[c]]
         /\ tx'[c].op = "commit" /\ tx'[c].event = tx[c].event /\ tx'[c].item = tx[c].item
         /\ tx'[c].next = tx[c].next /\ tx'[c].held = tx[c].held
         /\ tx'[c].snapshot = totals[EventOf(c).kid]
         /\ tx'[c].found = (EventOf(c).kid \in kids)
  <1> DEFINE found == EventOf(c).kid \in kids
             counters == totals[EventOf(c).kid]
  <1>1. /\ tx[c] \in Tx /\ tx[c].event \in EventId /\ tx[c].op = "child"
        /\ tx' = [tx EXCEPT ![c].op = "commit", ![c].found = found, ![c].snapshot = counters]
    BY DEF ReadChild, WorkTypes
  <1>2. found \in BOOLEAN /\ counters \in Totals
    BY <1>1, EventTypes DEF EventOf, WorkTypes
  <1> SUFFICES /\ tx'[c] \in Tx /\ tx' = [tx EXCEPT ![c] = tx'[c]]
               /\ tx'[c].op = "commit" /\ tx'[c].event = tx[c].event
               /\ tx'[c].item = tx[c].item /\ tx'[c].next = tx[c].next
               /\ tx'[c].held = tx[c].held
               /\ tx'[c].snapshot = counters /\ tx'[c].found = found
    BY <1>1
  <1> HIDE DEF found, counters
  <1>3. /\ tx' = [tx EXCEPT ![c] = [tx[c] EXCEPT !.op = "commit", !.found = found,
                                                 !.snapshot = counters]]
        /\ tx'[c] = [tx[c] EXCEPT !.op = "commit", !.found = found, !.snapshot = counters]
    BY <1>1 DEF WorkTypes
  <1>4. [tx[c] EXCEPT !.op = "commit", !.found = found, !.snapshot = counters] \in Tx
    BY <1>1, <1>2 DEF Tx
  <1>. QED  BY <1>1, <1>3, <1>4 DEF Tx

LEMMA EndsTx ==
  ASSUME WorkTypes, NEW c \in Consumer, Commit(c) \/ Notify(c) \/ Retry(c)
  PROVE  tx'[c].op \in {"idle", "notify"} /\ tx'[c].held = FALSE
  <1>1. tx'[c] \in {IdleTx, [IdleTx EXCEPT !.op = "notify", !.event = tx[c].event]}
    BY DEF Commit, Notify, Retry, WorkTypes
  <1>2. CASE tx'[c] = IdleTx
    BY <1>2 DEF IdleTx
  <1>3. CASE tx'[c] = [IdleTx EXCEPT !.op = "notify", !.event = tx[c].event]
    BY <1>3 DEF IdleTx
  <1>. QED  BY <1>1, <1>2, <1>3

LEMMA ReplacesTx ==
  ASSUME WorkTypes, NEW c \in Consumer, tx'[c] \in Tx, tx' = [tx EXCEPT ![c] = tx'[c]],
         tx'[c].op # "idle" => tx'[c].event \in EventId,
         tx'[c].op = "update" \/ tx'[c].held => tx'[c].item \in HwId,
         UNCHANGED <<kids, totals, hw>>
  PROVE  WorkTypes'
  BY DEF WorkTypes

LEMMA WorkNext ==
  ASSUME WorkTypes, [Next]_vars
  PROVE  WorkTypes'
  <1> USE DEF WorkTypes
  <1>0. IdleTx \in Tx
    BY DEF IdleTx, Tx, HomeworkStatus, NoTotals, Totals
  <1>1. ASSUME NEW c \in Consumer, NEW e \in EventId, Begin(c, e) PROVE WorkTypes'
    <2>1. PICK op \in {"child", "match"} :
            tx' = [tx EXCEPT ![c] = [IdleTx EXCEPT !.event = e, !.op = op]]
      BY <1>1 DEF Begin
    <2>2. /\ [IdleTx EXCEPT !.event = e, !.op = op] \in Tx
          /\ [IdleTx EXCEPT !.event = e, !.op = op].op = op
          /\ [IdleTx EXCEPT !.event = e, !.op = op].event = e
          /\ ~[IdleTx EXCEPT !.event = e, !.op = op].held
      BY DEF IdleTx, Tx, HomeworkStatus, NoTotals, Totals
    <2>3. UNCHANGED <<kids, totals, hw>>
      BY <1>1 DEF Begin, progress
    <2>. QED  BY <2>1, <2>2, <2>3, ReplacesTx
  <1>2. ASSUME NEW c \in Consumer, ReadHomework(c) PROVE WorkTypes'
    <2>1. UNCHANGED <<kids, totals, hw>>
      BY <1>2 DEF ReadHomework, progress
    <2>. QED  BY <1>2, <2>1, ReadsItem, ReplacesTx
  <1>3. ASSUME NEW c \in Consumer, UpdateHomework(c) PROVE WorkTypes'
    <2>1. UNCHANGED <<kids, totals, hw>>
      BY <1>3 DEF UpdateHomework, progress
    <2>. QED  BY <1>3, <2>1, LocksItem, ReplacesTx
  <1>4. ASSUME NEW c \in Consumer, ReadChild(c) PROVE WorkTypes'
    <2>1. UNCHANGED <<kids, totals, hw>>
      BY <1>4 DEF ReadChild, progress
    <2>. QED  BY <1>4, <2>1, ReadsChild, ReplacesTx
  <1>5. ASSUME NEW c \in Consumer, Commit(c) PROVE WorkTypes'
    <2>1. tx[c] \in Tx /\ tx[c].event \in EventId /\ kids' = kids
      BY <1>5 DEF Commit
    <2>2. totals' \in [Kid -> Totals]
      <3>1. AddSession(tx[c].snapshot, EventOf(c).xp, EventOf(c).minutes) \in Totals
        BY <2>1, EventTypes, AddSessionTypes DEF EventOf, Tx
      <3>. QED  BY <1>5, <3>1 DEF Commit, DeriveFromSession
    <2>3. hw' \in [HwId -> HwRow]
      BY <1>5, <2>1 DEF Commit, Tx, HwRow
    <2>4. tx' = [tx EXCEPT ![c] = [IdleTx EXCEPT !.op = "notify", !.event = tx[c].event]]
      BY <1>5 DEF Commit
    <2>5. /\ [IdleTx EXCEPT !.op = "notify", !.event = tx[c].event] \in Tx
          /\ [IdleTx EXCEPT !.op = "notify", !.event = tx[c].event].held = FALSE
          /\ [IdleTx EXCEPT !.op = "notify", !.event = tx[c].event].op = "notify"
          /\ [IdleTx EXCEPT !.op = "notify", !.event = tx[c].event].event = tx[c].event
      BY <2>1 DEF IdleTx, Tx, HomeworkStatus, NoTotals, Totals
    <2>. QED  BY <2>1, <2>2, <2>3, <2>4, <2>5
  <1>6. ASSUME NEW c \in Consumer, Notify(c) \/ Retry(c) PROVE WorkTypes'
    <2>1. tx' = [tx EXCEPT ![c] = IdleTx] /\ UNCHANGED <<kids, totals, hw>>
      BY <1>6 DEF Notify, Retry, progress
    <2>2. IdleTx.op = "idle" /\ IdleTx.held = FALSE
      BY DEF IdleTx
    <2>. QED  BY <1>0, <2>1, <2>2
  <1>7. CASE SweepOverdue
    BY <1>7 DEF SweepOverdue, progress, HwRow, HomeworkStatus
  <1>8. ASSUME NEW h \in HwId, NEW k \in Kid, NEW a \in Assignable,
               CreateHomework(h, k, a[1], a[2], a[3])
        PROVE  WorkTypes'
    <2>1. a[1] \in Subject /\ a[2] \in Topic /\ a[3] \in Nat
      BY LearningAssumption
    <2>. QED  BY <1>8, <2>1 DEF CreateHomework, progress, HwRow, HomeworkStatus
  <1>9. ASSUME NEW k \in Kid, PurgeChild(k) PROVE WorkTypes'
    <2>1. NoTotals \in Totals
      BY DEF NoTotals, Totals
    <2>2. hw' \in [HwId -> HwRow]
      BY <1>9 DEF PurgeChild, HwRow
    <2>. QED  BY <1>9, <2>1, <2>2 DEF PurgeChild
  <1>10. CASE UNCHANGED <<kids, totals, hw, tx>>
    BY <1>10
  <1>. QED  BY <1>1, <1>2, <1>3, <1>4, <1>5, <1>6, <1>7, <1>8, <1>9, <1>10, WorkSteps
            DEF WorkStep, ConsumerStep

LEMMA WorkAlways == Spec => []WorkTypes
  BY WorkInit, WorkNext, PTL DEF Spec
-------------------------------------------------------------------------------
(* The ledger. *)

\* A consumer that is not idle holds an event that was sent; while its transaction is open
\* the event is not in the ledger and no other consumer holds it.
HoldsEvent(c) ==
  /\ tx[c].op # "idle" => tx[c].event \in sent
  /\ InTx(c) => tx[c].event \notin ledger
  /\ \A d \in Consumer : InTx(c) /\ InTx(d) /\ c # d => tx[c].event # tx[d].event

LedgerInv ==
  /\ sent \subseteq EventId /\ queue \subseteq sent /\ ledger \subseteq sent
  /\ effects \in [EventId -> Nat]
  /\ \A c \in Consumer : HoldsEvent(c)

\* The steps of a consumer, and those of the producer.
LedgerStep ==
  \/ \E e \in EventId : EnqueueSessionEvent(e)
  \/ \E c \in Consumer : TakeEvent(c) \/ ConsumerStep(c)

LEMMA LedgerSteps ==
  ASSUME [Next]_vars
  PROVE  LedgerStep \/ UNCHANGED <<sent, queue, ledger, effects, tx>>
  BY DEF Next, LedgerStep, SweepOverdue, Request, CreateHomework, RecordConsent, PurgeChild,
     Tick, vars

\* What a step of one consumer does to the transactions.
LEMMA OneConsumer ==
  ASSUME WorkTypes, NEW c \in Consumer,
         \/ \E e \in EventId : Begin(c, e)
         \/ ConsumerStep(c)
  PROVE  \A d \in Consumer \ {c} : tx'[d] = tx[d]
  BY DEF WorkTypes, Begin, ConsumerStep, ReadHomework, UpdateHomework, ReadChild, Commit, Notify, Retry

LEMMA LedgerInit == Init => LedgerInv
  BY DEF Init, LedgerInv, HoldsEvent, InTx, IdleTx

LEMMA LedgerNext ==
  ASSUME WorkTypes, LedgerInv, [Next]_vars
  PROVE  LedgerInv'
  <1> USE DEF LedgerInv, HoldsEvent, InTx
  <1>1. ASSUME NEW e \in EventId, EnqueueSessionEvent(e) PROVE LedgerInv'
    BY <1>1 DEF EnqueueSessionEvent
  <1>2. ASSUME NEW c \in Consumer, NEW e \in EventId, Finish(c, e) PROVE LedgerInv'
    BY <1>2 DEF Finish
  <1>3. ASSUME NEW c \in Consumer, NEW e \in EventId, Begin(c, e) PROVE LedgerInv'
    <2>1. /\ tx'[c].op \in {"child", "match"} /\ tx'[c].event = e
          /\ queue' = queue \ {e} /\ e \in queue /\ e \notin ledger /\ ~InFlight(e)
          /\ UNCHANGED <<sent, ledger, effects>>
      BY <1>3 DEF Begin, IdleTx, WorkTypes
    <2>2. \A d \in Consumer \ {c} : tx'[d] = tx[d]
      BY <1>3, OneConsumer
    <2>. QED  BY <2>1, <2>2 DEF InFlight
  <1>4. ASSUME NEW c \in Consumer, ReadHomework(c) \/ UpdateHomework(c) \/ ReadChild(c)
        PROVE  LedgerInv'
    <2>1. /\ InTx(c) /\ tx'[c].op \in {"update", "child", "commit"}
          /\ tx'[c].event = tx[c].event
          /\ UNCHANGED <<sent, queue, ledger, effects>>
      BY <1>4, ReadsItem, LocksItem, ReadsChild DEF ReadHomework, UpdateHomework, ReadChild
    <2>2. \A d \in Consumer \ {c} : tx'[d] = tx[d]
      BY <1>4, OneConsumer DEF ConsumerStep
    <2>. QED  BY <2>1, <2>2
  <1>5. ASSUME NEW c \in Consumer, Commit(c) PROVE LedgerInv'
    <2>1. /\ InTx(c) /\ tx'[c].op = "notify" /\ tx'[c].event = tx[c].event
          /\ ledger' = ledger \cup {tx[c].event}
          /\ effects' = [effects EXCEPT ![tx[c].event] = @ + 1]
          /\ UNCHANGED <<sent, queue>>
      BY <1>5 DEF Commit, IdleTx, WorkTypes
    <2>2. \A d \in Consumer \ {c} : tx'[d] = tx[d]
      BY <1>5, OneConsumer DEF ConsumerStep
    <2>. QED  BY <2>1, <2>2
  <1>6. ASSUME NEW c \in Consumer, Notify(c) \/ Retry(c) PROVE LedgerInv'
    <2>1. /\ tx'[c].op = "idle" /\ tx[c].op # "idle"
          /\ queue' \in {queue, queue \cup {tx[c].event}}
          /\ UNCHANGED <<sent, ledger, effects>>
      BY <1>6 DEF Notify, Retry, IdleTx, WorkTypes
    <2>2. \A d \in Consumer \ {c} : tx'[d] = tx[d]
      BY <1>6, OneConsumer DEF ConsumerStep
    <2>. QED  BY <2>1, <2>2
  <1>7. CASE UNCHANGED <<sent, queue, ledger, effects, tx>>
    BY <1>7
  <1>. QED  BY <1>1, <1>2, <1>3, <1>4, <1>5, <1>6, <1>7, LedgerSteps
            DEF LedgerStep, TakeEvent, ConsumerStep

LEMMA LedgerAlways == Spec => []LedgerInv
  BY LedgerInit, LedgerNext, WorkAlways, PTL DEF Spec

LEMMA ReceiverStep ==
  ASSUME WorkTypes, LedgerInv, [Next]_vars
  PROVE  [Receiver!Next]_(Receiver!vars)
  <1>1. ASSUME NEW e \in EventId, EnqueueSessionEvent(e)
        PROVE  [Receiver!Next]_(Receiver!vars)
    <2>1. CASE e \in sent
      BY <1>1, <2>1 DEF EnqueueSessionEvent, Receiver!vars
    <2>2. CASE e \notin sent
      BY <1>1, <2>2 DEF EnqueueSessionEvent, Receiver!Next, Receiver!Send
    <2>. QED  BY <2>1, <2>2
  <1>2. ASSUME NEW c \in Consumer, Commit(c)
        PROVE  Receiver!Next
    <2>1. tx[c].event \in sent \ ledger /\ tx[c].event \in EventId
      BY <1>2 DEF LedgerInv, HoldsEvent, InTx, Commit
    <2>2. Receiver!Process(tx[c].event)
      BY <1>2, <2>1 DEF Commit, Receiver!Process
    <2>. QED  BY <2>1, <2>2 DEF Receiver!Next
  <1>3. ASSUME NEW c \in Consumer,
               \/ TakeEvent(c) \/ ReadHomework(c) \/ UpdateHomework(c) \/ ReadChild(c)
               \/ Notify(c) \/ Retry(c)
        PROVE  UNCHANGED Receiver!vars
    BY <1>3 DEF TakeEvent, Finish, Begin, ReadHomework, UpdateHomework, ReadChild, Notify,
       Retry, Receiver!vars
  <1>4. CASE UNCHANGED <<sent, queue, ledger, effects, tx>>
    BY <1>4 DEF Receiver!vars
  <1>. QED  BY <1>1, <1>2, <1>3, <1>4, LedgerSteps DEF LedgerStep, ConsumerStep

\* The session-event worker implements the receiver of Inbox, for any number of consumers:
\* an event takes effect at most once, however often it is sent, delivered, rolled back and
\* run again, and is in the ledger exactly when it did (processSessionEvent).
THEOREM ReceiverRefined == Spec => ReceiverSpec
  <1>1. Init => Receiver!Init
    BY DEF Init, Receiver!Init
  <1>. QED  BY <1>1, ReceiverStep, WorkAlways, LedgerAlways, PTL DEF Spec, ReceiverSpec, Receiver!Spec

-------------------------------------------------------------------------------
(* Homework. *)

Writes(c) == tx[c].op = "update" \/ tx[c].held

\* The event is about the item: it names it, or touches its topic.
About(e, h) ==
  Event[e].kid = hw[h].kid /\ (Event[e].ref = h \/ hw[h].topic \in Event[e].topics)

\* An event of an abandoned session never comes to the homework; a transaction that is about
\* to write an item holds an event about it, and a status this event earns.
ItemOK(c) ==
  /\ tx[c].op = "match" => EventOf(c).outcome # "abandoned"
  /\ Writes(c) =>
       LET h == tx[c].item IN
       /\ InTx(c) /\ hw[h].status # "none" /\ About(tx[c].event, h)
       /\ tx[c].next \in Finished => EventOf(c).outcome = "completed"
       /\ tx[c].next = "COMPLETED" => EventOf(c).at <= hw[h].deadline

StatusInv == StatusIsEarned /\ \A c \in Consumer : ItemOK(c)

\* What a step does to an item: a request creates it, the sweep or the purge sets its
\* status, or a commit that holds its lock does.
LEMMA ItemSteps ==
  ASSUME WorkTypes, [Next]_vars, NEW h \in HwId
  PROVE  \/ hw'[h] = hw[h]
         \/ hw[h].status = "none" /\ hw'[h].status \in {"PENDING", "OVERDUE"}
         \/ \E s \in {"OVERDUE", "gone"} :
              hw[h].status # "none" /\ hw'[h] = [hw[h] EXCEPT !.status = s]
         \/ \E c \in Consumer :
              /\ Commit(c) /\ tx[c].held /\ tx[c].item = h
              /\ hw'[h] = [hw[h] EXCEPT !.status = tx[c].next]
  <1> USE DEF WorkTypes
  <1>1. ASSUME NEW c \in Consumer, Commit(c), hw'[h] # hw[h]
        PROVE  /\ tx[c].held /\ tx[c].item = h
               /\ hw'[h] = [hw[h] EXCEPT !.status = tx[c].next]
    BY <1>1 DEF Commit
  <1>2. ASSUME NEW c \in Consumer,
               \/ \E e \in EventId : Begin(c, e)
               \/ ReadHomework(c) \/ UpdateHomework(c) \/ ReadChild(c) \/ Notify(c) \/ Retry(c)
        PROVE  hw' = hw
    BY <1>2 DEF Begin, ReadHomework, UpdateHomework, ReadChild, Notify, Retry
  <1>3. CASE SweepOverdue
    BY <1>3 DEF SweepOverdue, Unfinished
  <1>4. ASSUME NEW g \in HwId, NEW k \in Kid, NEW a \in Assignable,
               CreateHomework(g, k, a[1], a[2], a[3])
        PROVE  \/ hw'[h] = hw[h]
               \/ hw[h].status = "none" /\ hw'[h].status \in {"PENDING", "OVERDUE"}
    <2> DEFINE row == [kid |-> k, subject |-> a[1], topic |-> a[2], deadline |-> a[3],
                       status |-> IF a[3] < now THEN "OVERDUE" ELSE "PENDING"]
    <2>1. hw' = [hw EXCEPT ![g] = row] /\ hw[g].status = "none"
      BY <1>4 DEF CreateHomework
    <2>2. row.status \in {"PENDING", "OVERDUE"}
      OBVIOUS
    <2> HIDE DEF row
    <2>. QED  BY <2>1, <2>2
  <1>5. ASSUME NEW k \in Kid, PurgeChild(k)
        PROVE  \/ hw'[h] = hw[h]
               \/ hw[h].status # "none" /\ hw'[h] = [hw[h] EXCEPT !.status = "gone"]
    <2>1. hw'[h] = IF HwThere(h) /\ hw[h].kid = k THEN [hw[h] EXCEPT !.status = "gone"]
                   ELSE hw[h]
      BY <1>5 DEF PurgeChild
    <2>. QED  BY <2>1 DEF HwThere
  <1>. QED  BY <1>1, <1>2, <1>3, <1>4, <1>5, WorkSteps DEF WorkStep, ConsumerStep

\* An item keeps its child, topic and deadline, and an event about it stays so.
LEMMA ItemKeeps ==
  ASSUME WorkTypes, [Next]_vars, NEW h \in HwId, hw[h].status # "none"
  PROVE  /\ hw'[h].kid = hw[h].kid /\ hw'[h].topic = hw[h].topic
         /\ hw'[h].deadline = hw[h].deadline /\ hw'[h].status # "none"
  <1>1. hw[h] \in HwRow
    BY DEF WorkTypes
  <1>2. ASSUME NEW c \in Consumer PROVE tx[c].next # "none"
    BY DEF WorkTypes, Tx, HomeworkStatus
  <1>3. hw'[h] = hw[h] \/ \E s : s # "none" /\ hw'[h] = [hw[h] EXCEPT !.status = s]
    BY <1>2, ItemSteps
  <1>. QED  BY <1>1, <1>3 DEF HwRow

LEMMA ItemNext ==
  ASSUME WorkTypes, LedgerInv, [Next]_vars, \A c \in Consumer : ItemOK(c),
         NEW c \in Consumer
  PROVE  ItemOK(c)'
  <1> USE DEF ItemOK, Writes, InTx, EventOf, About
  <1>1. CASE tx'[c] = tx[c]
    <2>1. ASSUME Writes(c) PROVE tx[c].item \in HwId
      BY <2>1 DEF WorkTypes
    <2>. QED  BY <1>1, <2>1, ItemKeeps
  <1>2. ASSUME NEW e \in EventId, Begin(c, e) PROVE ItemOK(c)'
    <2>1. /\ tx'[c].op = IF Event[e].outcome = "abandoned" THEN "child" ELSE "match"
          /\ tx'[c].event = e /\ tx'[c].held = FALSE
      BY <1>2 DEF Begin, IdleTx, WorkTypes
    <2>. QED  BY <2>1
  <1>3. CASE ReadHomework(c)
    <2>1. CASE tx'[c].op = "child"
      <3>1. hw' = hw
        BY <1>3 DEF ReadHomework
      <3>. QED  BY <1>3, <2>1, <3>1, ReadsItem
    <2>2. CASE tx'[c].op = "update"
      <3> DEFINE h == tx'[c].item
      <3>1. /\ h \in MatchHomework(EventOf(c)) /\ h \in HwId
            /\ tx'[c].next # hw[h].status
            /\ tx'[c].next = Transition(hw[h].status, EventOf(c).outcome, hw[h].deadline,
                                        EventOf(c).at)
            /\ tx'[c].event = tx[c].event /\ tx[c].event \in EventId
            /\ EventOf(c).outcome \in {"started", "completed"}
        BY <1>3, <2>2, ReadsItem, EventTypes DEF Outcome
      <3>2. hw[h].status # "none" /\ About(tx[c].event, h)
        BY <3>1 DEF MatchHomework, Candidates, HwThere, Unfinished
      <3>3. hw' = hw
        BY <1>3 DEF ReadHomework
      <3>4. /\ tx'[c].next \in Finished => EventOf(c).outcome = "completed"
            /\ tx'[c].next = "COMPLETED" => EventOf(c).at <= hw[h].deadline
        <4>1. hw[h].deadline \in Nat /\ EventOf(c).at \in Nat
          BY <3>1, EventTypes DEF WorkTypes, HwRow
        <4>2. ASSUME NEW s, NEW o \in {"started", "completed"}, NEW deadline, NEW at,
                     Transition(s, o, deadline, at) # s
              PROVE  /\ Transition(s, o, deadline, at) \in Finished => o = "completed"
                     /\ Transition(s, o, deadline, at) = "COMPLETED" => ~(at > deadline)
          BY <4>2 DEF Transition, Finished
        <4>3. /\ tx'[c].next \in Finished => EventOf(c).outcome = "completed"
              /\ tx'[c].next = "COMPLETED" => ~(EventOf(c).at > hw[h].deadline)
          BY <3>1, <4>2
        <4>. QED  BY <4>1, <4>3
      <3>. QED  BY <2>2, <3>1, <3>2, <3>3, <3>4
    <2>. QED  BY <1>3, <2>1, <2>2, ReadsItem
  <1>4. CASE UpdateHomework(c)
    <2>1. hw' = hw /\ tx[c].item \in HwId
      BY <1>4 DEF UpdateHomework, WorkTypes
    <2>. QED  BY <1>4, <2>1, LocksItem
  <1>5. CASE ReadChild(c)
    <2>1. hw' = hw
      BY <1>5 DEF ReadChild
    <2>. QED  BY <1>5, <2>1, ReadsChild
  <1>6. CASE Commit(c) \/ Notify(c) \/ Retry(c)
    BY <1>6, EndsTx
  <1>7. ASSUME NEW d \in Consumer, d # c,
               (\E e \in EventId : Begin(d, e)) \/ ConsumerStep(d)
        PROVE  tx'[c] = tx[c]
    BY <1>7, OneConsumer
  <1>8. ASSUME ~ \E d \in Consumer : (\E e \in EventId : Begin(d, e)) \/ ConsumerStep(d)
        PROVE  tx'[c] = tx[c]
    BY <1>8, WorkSteps DEF WorkStep, SweepOverdue, CreateHomework, PurgeChild
  <1>. QED  BY <1>1, <1>2, <1>3, <1>4, <1>5, <1>6, <1>7, <1>8 DEF ConsumerStep

LEMMA StatusInit == Init => StatusInv
  BY LearningAssumption
     DEF Init, StatusInv, StatusIsEarned, ItemOK, Writes, IdleTx, Finished

LEMMA StatusNext ==
  ASSUME WorkTypes, LedgerInv, StatusInv, [Next]_vars
  PROVE  StatusInv'
  <1> DEFINE by(h) == {e \in ledger : Event[e].outcome = "completed" /\ About(e, h)}
             earned(h) ==
               /\ hw[h].status = "COMPLETED" => \E e \in by(h) : Event[e].at <= hw[h].deadline
               /\ hw[h].status = "COMPLETED_LATE" => by(h) # {}
  <1>1. StatusIsEarned <=> \A h \in HwId : earned(h)
    BY DEF StatusIsEarned, About
  <1>2. StatusIsEarned' <=> \A h \in HwId : earned(h)'
    BY DEF StatusIsEarned, About
  <1>3. ledger \subseteq ledger'
    BY LedgerSteps DEF LedgerStep, EnqueueSessionEvent, TakeEvent, Finish, Begin, ConsumerStep,
       ReadHomework, UpdateHomework, ReadChild, Commit, Notify, Retry
  <1>4. ASSUME NEW h \in HwId PROVE earned(h)'
    <2>1. hw[h] \in HwRow /\ earned(h)
      BY <1>1 DEF StatusInv, WorkTypes
    <2>2. CASE hw[h].status = "none" /\ hw'[h].status \in {"none", "PENDING", "OVERDUE"}
      BY <2>2
    <2>3. ASSUME hw[h].status # "none" PROVE by(h) \subseteq by(h)'
      BY <1>3, <2>3, ItemKeeps DEF About
    <2>4. CASE hw'[h] = hw[h]
      BY <2>1, <2>2, <2>3, <2>4
    <2>5. ASSUME hw[h].status # "none", NEW s \in {"OVERDUE", "gone"},
                 hw'[h] = [hw[h] EXCEPT !.status = s]
          PROVE  earned(h)'
      BY <2>1, <2>5 DEF HwRow
    <2>6. ASSUME NEW c \in Consumer, Commit(c), tx[c].held, tx[c].item = h,
                 hw'[h] = [hw[h] EXCEPT !.status = tx[c].next]
          PROVE  earned(h)'
      <3>0. PICK e : e = tx[c].event
        OBVIOUS
      <3>1. /\ hw[h].status # "none" /\ About(e, h)
            /\ tx[c].next \in Finished => Event[e].outcome = "completed"
            /\ tx[c].next = "COMPLETED" => Event[e].at <= hw[h].deadline
        BY <2>6, <3>0 DEF StatusInv, ItemOK, Writes, EventOf
      <3>2. e \in ledger'
        BY <2>6, <3>0 DEF Commit
      <3>3. hw'[h].status = tx[c].next /\ hw'[h].deadline = hw[h].deadline
        BY <2>1, <2>6 DEF HwRow
      <3>4. About(e, h)'
        <4>1. About(e, h) /\ hw'[h].kid = hw[h].kid /\ hw'[h].topic = hw[h].topic
          BY <3>1, ItemKeeps
        <4>. QED  BY <4>1 DEF About
      <3>. QED  BY <3>1, <3>2, <3>3, <3>4 DEF Finished
    <2>. QED  BY <2>2, <2>4, <2>5, <2>6, ItemSteps
  <1>5. \A c \in Consumer : ItemOK(c)'
    BY ItemNext DEF StatusInv
  <1>. QED  BY <1>2, <1>4, <1>5 DEF StatusInv

\* Whatever is swept, created or purged between a transaction's read of an item and its
\* write, and however many transactions, retries and crashes there are, an item is COMPLETED
\* only if a processed session finished it in time (applyHomeworkEvent, transition).
THEOREM CompletedIsEarned == Spec => []StatusIsEarned
  <1>1. StatusInv => StatusIsEarned
    BY DEF StatusInv
  <1>. QED  BY <1>1, StatusInit, StatusNext, WorkAlways, LedgerAlways, PTL DEF Spec

-------------------------------------------------------------------------------
(* Struggle alerts. *)

AlertTypes ==
  /\ topics \in [Kid -> [Subject -> [Topic -> TopicRow]]]
  /\ trackers \in [Kid -> [Topic -> TrackerRow]]
  /\ alerts \in [Kid -> [Topic -> Nat]]

\* The tracker remembers that it has alerted, and a counter at the threshold has raised the
\* flag in one subject at least: the one of the session that brought it there, which only a
\* session of that subject lowers again, together with the counter.
AlertOK(k, t) ==
  /\ alerts[k][t] <= 1
  /\ k \in kids =>
       /\ ~trackers[k][t].alerted => alerts[k][t] = 0
       /\ trackers[k][t].count >= StruggleAfter =>
            \E s \in Subject : topics[k][s][t].struggling

AlertInv == AlertTypes /\ \A k \in Kid, t \in Topic : AlertOK(k, t)

LEMMA AlertSteps ==
  ASSUME [Next]_vars
  PROVE  \/ \E c \in Consumer : Commit(c) /\ tx[c].found
         \/ \E k \in Kid : PurgeChild(k)
         \/ UNCHANGED <<kids, topics, trackers, alerts>>
  <1>1. ASSUME NEW c \in Consumer, TakeEvent(c) \/ ConsumerStep(c)
        PROVE  \/ Commit(c) /\ tx[c].found
               \/ UNCHANGED <<kids, topics, trackers, alerts>>
    BY <1>1 DEF TakeEvent, Finish, Begin, ConsumerStep, ReadHomework, UpdateHomework, ReadChild,
       Commit, Notify, Retry, progress
  <1>2. CASE \/ \E e \in EventId : EnqueueSessionEvent(e)
             \/ SweepOverdue \/ RecordConsent \/ Tick \/ UNCHANGED vars
             \/ \E h \in HwId, k \in Kid, a \in Assignable :
                  CreateHomework(h, k, a[1], a[2], a[3])
    BY <1>2 DEF EnqueueSessionEvent, SweepOverdue, RecordConsent, Tick, CreateHomework,
       progress, vars
  <1>. QED  BY <1>1, <1>2 DEF Next, Request

LEMMA AlertInit == Init => AlertInv
  <1>1. NoTopic \in TopicRow /\ NoTracker \in TrackerRow
    BY DEF NoTopic, TopicRow, NoTracker, TrackerRow
  <1>2. ~(NoTracker.count >= StruggleAfter)
    BY LearningRulesAssumption DEF NoTracker
  <1>. QED  BY <1>1, <1>2 DEF Init, AlertInv, AlertTypes, AlertOK

\* What a committed session does to the tracker and the flag of one topic.
LEMMA TopicAfter ==
  ASSUME NEW row \in TrackerRow, NEW mastery \in 0..100, NEW flag \in BOOLEAN
  PROVE  /\ CountAfter(row, mastery) \in Nat
         /\ Alert(row, mastery) \in BOOLEAN
         /\ FlagAfter(flag, row, mastery) \in BOOLEAN
         /\ CountAfter(row, mastery) >= StruggleAfter => FlagAfter(flag, row, mastery)
         /\ Alert(row, mastery) => ~row.alerted
  <1>1. row.count \in Nat /\ row.alerted \in BOOLEAN
    BY DEF TrackerRow
  <1>2. CountAfter(row, mastery) \in Nat
    BY <1>1 DEF CountAfter
  <1>3. FlagAfter(flag, row, mastery) \in BOOLEAN
    BY DEF FlagAfter
  <1>4. Alert(row, mastery) \in BOOLEAN /\ (Alert(row, mastery) => ~row.alerted)
    BY DEF Alert, Struggles
  <1>5. CountAfter(row, mastery) >= StruggleAfter => FlagAfter(flag, row, mastery)
    BY DEF FlagAfter, Struggles
  <1>. QED  BY <1>2, <1>3, <1>4, <1>5

LEMMA AlertCommit ==
  ASSUME WorkTypes, AlertInv, NEW c \in Consumer, Commit(c), tx[c].found
  PROVE  AlertInv'
  <1> DEFINE e == tx[c].event  k == Event[e].kid  s == Event[e].subject  m == Event[e].mastery
             scored(t) == t \in DOMAIN m
             trackersOfK == [t \in Topic |-> IF ~scored(t) THEN trackers[k][t] ELSE
               [count |-> CountAfter(trackers[k][t], m[t]),
                alerted |-> trackers[k][t].alerted \/ Alert(trackers[k][t], m[t])]]
             topicsOfS == [t \in Topic |-> IF ~scored(t) THEN topics[k][s][t] ELSE
               [there |-> TRUE, mastery |-> m[t],
                struggling |-> FlagAfter(topics[k][s][t].struggling, trackers[k][t], m[t])]]
             alertsOfK == [t \in Topic |->
               IF scored(t) /\ Alert(trackers[k][t], m[t]) THEN alerts[k][t] + 1
               ELSE alerts[k][t]]
  <1>1. e \in EventId /\ k \in Kid /\ s \in Subject /\ k \in kids
    BY EventTypes DEF Commit, EventOf, WorkTypes
  <1>2. \A t \in Topic : scored(t) => m[t] \in 0..100
    BY <1>1, EventTypes
  <1>3. /\ kids' = kids
        /\ trackers' = [trackers EXCEPT ![k] = trackersOfK]
        /\ topics' = [topics EXCEPT ![k][s] = topicsOfS]
        /\ alerts' = [alerts EXCEPT ![k] = alertsOfK]
    BY DEF Commit, DeriveFromSession, EventOf
  <1> HIDE DEF e, m, k, s
  <1>4. ASSUME NEW t \in Topic
        PROVE  /\ trackersOfK[t] \in TrackerRow /\ topicsOfS[t] \in TopicRow
               /\ alertsOfK[t] \in Nat /\ alertsOfK[t] <= 1
               /\ ~trackersOfK[t].alerted => alertsOfK[t] = 0
               /\ trackersOfK[t].count >= StruggleAfter =>
                    \/ topicsOfS[t].struggling
                    \/ trackersOfK[t] = trackers[k][t] /\ topicsOfS[t] = topics[k][s][t]
    <2>1. /\ trackers[k][t] \in TrackerRow /\ topics[k][s][t] \in TopicRow
          /\ alerts[k][t] \in Nat /\ AlertOK(k, t)
          /\ topics[k][s][t].struggling \in BOOLEAN
      BY <1>1 DEF AlertInv, AlertTypes, TopicRow
    <2>2. CASE ~scored(t)
      BY <1>1, <2>1, <2>2 DEF AlertOK
    <2>3. CASE scored(t)
      <3> DEFINE count == CountAfter(trackers[k][t], m[t])
                 alert == Alert(trackers[k][t], m[t])
                 alerted == trackers[k][t].alerted \/ alert
                 flag == FlagAfter(topics[k][s][t].struggling, trackers[k][t], m[t])
      <3>1. /\ count \in Nat /\ alert \in BOOLEAN /\ flag \in BOOLEAN
            /\ count >= StruggleAfter => flag
            /\ alert => ~trackers[k][t].alerted
        BY <1>2, <2>1, <2>3, TopicAfter
      <3>2. /\ trackersOfK[t] = [count |-> count, alerted |-> alerted]
            /\ topicsOfS[t] = [there |-> TRUE, mastery |-> m[t], struggling |-> flag]
            /\ alertsOfK[t] = IF alert THEN alerts[k][t] + 1 ELSE alerts[k][t]
        BY <2>3
      <3>0. alerted \in BOOLEAN
        OBVIOUS
      <3> HIDE DEF count, alert, alerted, flag, trackersOfK, topicsOfS, alertsOfK
      <3>3. trackersOfK[t] \in TrackerRow
        BY <2>1, <3>0, <3>1, <3>2 DEF TrackerRow
      <3>4. topicsOfS[t] \in TopicRow
        BY <1>2, <2>3, <3>1, <3>2 DEF TopicRow
      <3>5. alertsOfK[t] \in Nat /\ alertsOfK[t] <= 1
        BY <1>1, <2>1, <3>1, <3>2 DEF AlertOK
      <3>6. ~trackersOfK[t].alerted => alertsOfK[t] = 0
        <4>0. trackersOfK[t].alerted = alerted
          BY <3>2
        <4>1. trackers[k][t].alerted \/ alert => alerted
          BY DEF alerted
        <4>2. trackers[k][t].alerted \/ alerts[k][t] = 0
          BY <1>1, <2>1 DEF AlertOK
        <4>3. ~alert => alertsOfK[t] = alerts[k][t]
          BY <3>2
        <4>. QED  BY <4>0, <4>1, <4>2, <4>3
      <3>7. trackersOfK[t].count >= StruggleAfter => topicsOfS[t].struggling
        BY <3>1, <3>2
      <3>. QED  BY <3>3, <3>4, <3>5, <3>6, <3>7
    <2>. QED  BY <2>2, <2>3
  <1> HIDE DEF trackersOfK, topicsOfS, alertsOfK
  <1>5. /\ trackersOfK \in [Topic -> TrackerRow] /\ topicsOfS \in [Topic -> TopicRow]
        /\ alertsOfK \in [Topic -> Nat]
    BY <1>4 DEF trackersOfK, topicsOfS, alertsOfK
  <1>6. AlertTypes'
    BY <1>1, <1>3, <1>5 DEF AlertInv, AlertTypes
  <1>7. ASSUME NEW j \in Kid, NEW t \in Topic PROVE AlertOK(j, t)'
    <2>1. CASE j # k
      BY <1>1, <1>3, <2>1 DEF AlertInv, AlertTypes, AlertOK
    <2>2. CASE j = k
      <3>1. /\ trackers'[j][t] = trackersOfK[t] /\ alerts'[j][t] = alertsOfK[t]
            /\ topics'[j][s][t] = topicsOfS[t]
            /\ \A r \in Subject \ {s} : topics'[j][r] = topics[j][r]
        BY <1>1, <1>3, <2>2 DEF AlertInv, AlertTypes
      <3>2. AlertOK(j, t)
        BY DEF AlertInv
      <3>. QED  BY <1>1, <1>4, <2>2, <3>1, <3>2 DEF AlertOK
    <2>. QED  BY <2>1, <2>2
  <1>. QED  BY <1>6, <1>7 DEF AlertInv

LEMMA AlertPurge ==
  ASSUME AlertInv, NEW k \in Kid, PurgeChild(k)
  PROVE  AlertInv'
  <1>1. NoTopic \in TopicRow /\ NoTracker \in TrackerRow
    BY DEF NoTopic, TopicRow, NoTracker, TrackerRow
  <1>2. /\ kids' = kids \ {k} /\ alerts' = alerts
        /\ trackers' = [trackers EXCEPT ![k] = [t \in Topic |-> NoTracker]]
        /\ topics' = [topics EXCEPT ![k] = [s \in Subject |-> [t \in Topic |-> NoTopic]]]
    BY DEF PurgeChild
  <1>3. AlertTypes'
    BY <1>1, <1>2 DEF AlertInv, AlertTypes
  <1>4. ASSUME NEW j \in Kid, NEW t \in Topic PROVE AlertOK(j, t)'
    BY <1>2 DEF AlertInv, AlertTypes, AlertOK
  <1>. QED  BY <1>3, <1>4 DEF AlertInv

LEMMA AlertNext == WorkTypes /\ AlertInv /\ [Next]_vars => AlertInv'
  <1>1. ASSUME AlertInv, UNCHANGED <<kids, topics, trackers, alerts>> PROVE AlertInv'
    BY <1>1 DEF AlertInv, AlertTypes, AlertOK
  <1>. QED  BY <1>1, AlertCommit, AlertPurge, AlertSteps

\* However many consumers process sessions of a child at once, and however often they are
\* retried, a topic's struggle is alerted once; and a counter at its threshold is seen on the
\* dashboard, whichever subjects the sessions were in (applyStruggle, buildOverviews).
THEOREM AlertedOnce == Spec => []StruggleAlertedOnce
  <1>1. WorkTypes /\ AlertInv => StruggleAlertedOnce
    BY DEF WorkTypes, AlertInv, AlertOK, StruggleAlertedOnce, Overview
  <1>. QED  BY <1>1, AlertInit, AlertNext, WorkAlways, PTL DEF Spec

-------------------------------------------------------------------------------
(* Experience points. *)

Xp == [e \in EventId |-> Event[e].xp]

\* What the events of L earned the child k.
XpSum(L, k) == SumOver(Xp, {e \in L : Event[e].kid = k})

CountersOK(t) ==
  /\ t.level >= 1 /\ t.levelXp < LevelSpan
  /\ t.xp = (t.level - 1) * LevelSpan + t.levelXp

\* Also a snapshot of the counters, however old, shows no more than was earned.
XpInv ==
  /\ IsFiniteSet(ledger)
  /\ \A k \in Kid : totals[k].xp <= XpSum(ledger, k) /\ CountersOK(totals[k])
  /\ \A c \in Consumer : tx[c].op = "commit" =>
       tx[c].snapshot.xp <= XpSum(ledger, EventOf(c).kid) /\ CountersOK(tx[c].snapshot)

LEMMA XpSumIs ==
  ASSUME NEW L \in SUBSET EventId, IsFiniteSet(L), NEW k
  PROVE  MapThenSumSet(LAMBDA e : Event[e].xp, {e \in L : Event[e].kid = k}) = XpSum(L, k)
  <1> DEFINE S == {e \in L : Event[e].kid = k}
  <1>1. IsFiniteSet(S) /\ S \subseteq EventId
    BY FS_Subset
  <1> HIDE DEF S
  <1> DEFINE P(g) == g = [s \in SUBSET S |-> IF s = {} THEN 0
                            ELSE Event[Chosen(s)].xp + g[s \ {Chosen(s)}]]
             sums == CHOOSE g : P(g)
  <1>2. ASSUME NEW g PROVE P(g) <=> Sums(Xp, S, g)
    <2>1. \A s \in SUBSET S : s # {} => Xp[Chosen(s)] = Event[Chosen(s)].xp
      BY <1>1, ChosenIn DEF Xp
    <2>. QED  BY <2>1 DEF Sums
  <1>3. \E g : P(g)
    BY <1>1, <1>2, SumsExist
  <1>4. P(sums)
    <2> HIDE DEF P
    <2>. QED  BY <1>3
  <1>5. Sums(Xp, S, sums)
    <2> HIDE DEF P, sums
    <2>. QED  BY <1>2, <1>4
  <1>6. sums[S] = SumOver(Xp, S)
    <2> HIDE DEF sums
    <2>. QED  BY <1>1, <1>5, SumOverIs
  <1>7. MapThenSumSet(LAMBDA e : Event[e].xp, S) = sums[S]
    BY DEF MapThenSumSet, MapThenFoldSet, Chosen
  <1> HIDE DEF sums
  <1>. QED  BY <1>6, <1>7 DEF S, XpSum

LEMMA XpSumGrows ==
  ASSUME NEW L \in SUBSET EventId, IsFiniteSet(L), NEW e \in EventId \ L, NEW k
  PROVE  /\ XpSum(L, k) \in Nat
         /\ XpSum(L \cup {e}, k) = IF Event[e].kid = k THEN Event[e].xp + XpSum(L, k)
                                   ELSE XpSum(L, k)
  <1> DEFINE S == {x \in L : Event[x].kid = k}
  <1>1. IsFiniteSet(S) /\ S \subseteq EventId /\ e \notin S
    BY FS_Subset
  <1>2. \A x \in EventId : Xp[x] = Event[x].xp /\ Xp[x] \in Nat
    BY EventTypes DEF Xp
  <1>3. CASE Event[e].kid = k
    <2>1. {x \in L \cup {e} : Event[x].kid = k} = S \cup {e}
      BY <1>3
    <2> HIDE DEF S
    <2>2. SumOver(Xp, S \cup {e}) = Xp[e] + SumOver(Xp, S)
      BY <1>1, <1>2, SumOverAdd
    <2>. QED  BY <1>1, <1>2, <1>3, <2>1, <2>2, SumOverNat DEF XpSum, S
  <1>4. CASE Event[e].kid # k
    <2>1. {x \in L \cup {e} : Event[x].kid = k} = S
      BY <1>4
    <2>. QED  BY <1>1, <1>2, <1>4, <2>1, SumOverNat DEF XpSum
  <1>. QED  BY <1>3, <1>4

\* What a step does to the ledger, the counters and the snapshots about to be written.
LEMMA XpSteps ==
  ASSUME WorkTypes, [Next]_vars
  PROVE  \/ \E c \in Consumer : Commit(c) \/ ReadChild(c)
         \/ /\ ledger' = ledger
            /\ \A k \in Kid : totals'[k] \in {totals[k], NoTotals}
            /\ \A c \in Consumer : tx'[c].op = "commit" => tx'[c] = tx[c]
  <1>1. ASSUME NEW c \in Consumer,
               (\E e \in EventId : Begin(c, e)) \/ ReadHomework(c) \/ UpdateHomework(c)
                 \/ Notify(c) \/ Retry(c)
        PROVE  /\ ledger' = ledger /\ totals' = totals
               /\ \A d \in Consumer : tx'[d].op = "commit" => tx'[d] = tx[d]
    <2>1. tx'[c].op # "commit"
      <3>1. ASSUME NEW e \in EventId, Begin(c, e) PROVE tx'[c].op # "commit"
        BY <3>1 DEF Begin, IdleTx, WorkTypes
      <3>. QED  BY <1>1, <3>1, ReadsItem, LocksItem, EndsTx
    <2>2. ledger' = ledger /\ totals' = totals
      BY <1>1 DEF Begin, ReadHomework, UpdateHomework, Notify, Retry, progress
    <2>3. \A d \in Consumer \ {c} : tx'[d] = tx[d]
      BY <1>1, OneConsumer DEF ConsumerStep
    <2>. QED  BY <2>1, <2>2, <2>3
  <1>2. ASSUME NEW k \in Kid, PurgeChild(k)
        PROVE  /\ ledger' = ledger /\ tx' = tx
               /\ \A j \in Kid : totals'[j] \in {totals[j], NoTotals}
    BY <1>2 DEF PurgeChild, WorkTypes
  <1>3. CASE SweepOverdue \/ \E h \in HwId, k \in Kid, a \in Assignable :
                               CreateHomework(h, k, a[1], a[2], a[3])
    BY <1>3 DEF SweepOverdue, CreateHomework, progress
  <1>4. CASE UNCHANGED <<kids, totals, hw, tx>>
    BY <1>4 DEF Next, EnqueueSessionEvent, TakeEvent, Finish, ConsumerStep, ReadHomework,
       UpdateHomework, Notify, Retry, SweepOverdue, Request, CreateHomework, RecordConsent,
       PurgeChild, Tick, vars, Begin
  <1>. QED  BY <1>1, <1>2, <1>3, <1>4, WorkSteps DEF WorkStep, ConsumerStep

LEMMA NoTotalsOK == NoTotals.xp = 0 /\ CountersOK(NoTotals)
  BY LearningRulesAssumption DEF NoTotals, CountersOK

LEMMA XpInit == Init => XpInv
  <1>1. ASSUME NEW k PROVE XpSum({}, k) = 0
    <2>1. {e \in {} : Event[e].kid = k} = {}
      OBVIOUS
    <2>. QED  BY <2>1, SumOverUnfold, FS_EmptySet DEF XpSum
  <1>2. IdleTx.op = "idle"
    BY DEF IdleTx
  <1>. QED  BY <1>1, <1>2, NoTotalsOK, FS_EmptySet DEF Init, XpInv

LEMMA XpCommit ==
  ASSUME WorkTypes, LedgerInv, XpInv, NEW c \in Consumer, Commit(c)
  PROVE  XpInv'
  <1>1. PICK e : e = tx[c].event
    OBVIOUS
  <1>2. e \in EventId \ ledger /\ ledger \in SUBSET EventId
    BY <1>1 DEF Commit, LedgerInv, HoldsEvent, InTx
  <1>3. ledger' = ledger \cup {e} /\ IsFiniteSet(ledger')
    BY <1>1, FS_AddElement DEF Commit, XpInv
  <1>4. ASSUME NEW k
        PROVE  /\ XpSum(ledger, k) \in Nat
               /\ XpSum(ledger', k) = IF Event[e].kid = k THEN Event[e].xp + XpSum(ledger, k)
                                      ELSE XpSum(ledger, k)
    BY <1>2, <1>3, XpSumGrows DEF XpInv
  <1>5. Event[e].xp \in Nat /\ Event[e].minutes \in Nat
    BY <1>2, EventTypes
  <1>6. ASSUME NEW d \in Consumer, tx'[d].op = "commit"
        PROVE  /\ tx'[d].snapshot.xp <= XpSum(ledger', Event[tx'[d].event].kid)
               /\ CountersOK(tx'[d].snapshot)
    <2>1. tx'[d] = tx[d]
      BY <1>6, EndsTx, OneConsumer DEF ConsumerStep
    <2>2. tx[d].snapshot \in Totals
      BY DEF WorkTypes, Tx
    <2>3. tx[d].snapshot.xp <= XpSum(ledger, Event[tx[d].event].kid) /\ CountersOK(tx[d].snapshot)
      BY <1>6, <2>1 DEF XpInv, EventOf
    <2>. QED  BY <1>4, <1>5, <2>1, <2>2, <2>3 DEF Totals
  <1>7. ASSUME NEW k \in Kid
        PROVE  totals'[k].xp <= XpSum(ledger', k) /\ CountersOK(totals'[k])
    <2>1. CASE totals'[k] = totals[k]
      <3>1. totals[k] \in Totals /\ totals[k].xp <= XpSum(ledger, k) /\ CountersOK(totals[k])
        BY DEF XpInv, WorkTypes
      <3>. QED  BY <1>4, <1>5, <2>1, <3>1 DEF Totals
    <2>2. CASE totals'[k] # totals[k]
      <3> DEFINE t == tx[c].snapshot
                 r == AddSession(t, Event[e].xp, Event[e].minutes)
      <3>1. k = Event[e].kid /\ totals'[k] = r
        BY <1>1, <2>2 DEF Commit, DeriveFromSession, EventOf, WorkTypes
      <3>2. t \in Totals /\ t.xp <= XpSum(ledger, k) /\ CountersOK(t)
        BY <1>1, <3>1 DEF Commit, XpInv, WorkTypes, Tx, EventOf
      <3>3. /\ r.xp = t.xp + Event[e].xp /\ r.levelXp < LevelSpan
            /\ r.level >= 1 /\ r.xp = (r.level - 1) * LevelSpan + r.levelXp
        BY <1>5, <3>2, AddSessionTypes DEF CountersOK
      <3>4. t.xp \in Nat
        BY <3>2 DEF Totals
      <3> HIDE DEF t, r
      <3>. QED  BY <1>4, <1>5, <3>1, <3>2, <3>3, <3>4 DEF CountersOK
    <2>. QED  BY <2>1, <2>2
  <1>. QED  BY <1>3, <1>6, <1>7 DEF XpInv, EventOf

LEMMA XpRead ==
  ASSUME WorkTypes, XpInv, NEW c \in Consumer, ReadChild(c)
  PROVE  XpInv'
  <1>1. ledger' = ledger /\ totals' = totals
    BY DEF ReadChild, progress
  <1>2. ASSUME NEW d \in Consumer, tx'[d].op = "commit"
        PROVE  /\ tx'[d].snapshot.xp <= XpSum(ledger, Event[tx'[d].event].kid)
               /\ CountersOK(tx'[d].snapshot)
    <2>1. CASE d = c
      <3>1. /\ tx'[c].snapshot = totals[Event[tx[c].event].kid] /\ tx'[c].event = tx[c].event
            /\ Event[tx[c].event].kid \in Kid
        BY ReadsChild, EventTypes DEF EventOf
      <3>. QED  BY <2>1, <3>1 DEF XpInv
    <2>2. CASE d # c
      BY <1>2, <2>2, OneConsumer DEF ConsumerStep, XpInv, EventOf
    <2>. QED  BY <2>1, <2>2
  <1>. QED  BY <1>1, <1>2 DEF XpInv, EventOf

LEMMA XpNext == WorkTypes /\ LedgerInv /\ XpInv /\ [Next]_vars => XpInv'
  <1>1. ASSUME WorkTypes, LedgerInv, XpInv,
               /\ ledger' = ledger
               /\ \A k \in Kid : totals'[k] \in {totals[k], NoTotals}
               /\ \A c \in Consumer : tx'[c].op = "commit" => tx'[c] = tx[c]
        PROVE  XpInv'
    <2>1. ASSUME NEW k \in Kid
          PROVE  totals'[k].xp <= XpSum(ledger', k) /\ CountersOK(totals'[k])
      <3>1. XpSum(ledger, k) >= 0
        <4>1. IsFiniteSet({e \in ledger : Event[e].kid = k})
          BY <1>1, FS_Subset DEF XpInv
        <4>2. \A e \in ledger : Xp[e] \in Nat
          BY <1>1, EventTypes DEF Xp, LedgerInv
        <4>3. XpSum(ledger, k) \in Nat
          BY <4>1, <4>2, SumOverNat DEF XpSum
        <4>. QED  BY <4>3
      <3>. QED  BY <1>1, <3>1, NoTotalsOK DEF XpInv
    <2>. QED  BY <1>1, <2>1 DEF XpInv, EventOf
  <1>. QED  BY <1>1, XpCommit, XpRead, XpSteps

\* Events of one child that are processed at once may overwrite each other's counters, but
\* no interleaving, retry or crash shows a child more than it earned, and the level is always
\* the one the total amounts to, across any number of levels at once (deriveFromSession).
THEOREM XpEarned == Spec => []XpIsEarned
  <1>1. WorkTypes /\ LedgerInv /\ XpInv => XpIsEarned
    <2>1. ASSUME LedgerInv, XpInv, NEW k \in Kid
          PROVE  MapThenSumSet(LAMBDA e : Event[e].xp, {e \in ledger : Event[e].kid = k})
                   = XpSum(ledger, k)
      BY <2>1, XpSumIs DEF LedgerInv, XpInv
    <2>. QED  BY <2>1 DEF WorkTypes, XpInv, CountersOK, XpIsEarned
  <1>. QED  BY <1>1, XpInit, XpNext, WorkAlways, LedgerAlways, PTL DEF Spec

-------------------------------------------------------------------------------
(* Type correctness. *)

\* The average of masteries is a mastery (averageMastery).
LEMMA AverageIsMastery ==
  ASSUME NEW e \in EventId
  PROVE  AverageMastery(Event[e].topics, Event[e].mastery) \in 0..100
  <1> DEFINE S == Event[e].topics
             m == Event[e].mastery
             f == [t \in S |-> IF t \in DOMAIN m THEN m[t] ELSE 0]
             n == Cardinality(S)
  <1>1. IsFiniteSet(S) /\ S # {} /\ \A t \in S : f[t] \in 0..100
    BY LearningAssumption, EventTypes
  <1> DEFINE P(g) == g = [s \in SUBSET S |-> IF s = {} THEN 0
                            ELSE (IF Chosen(s) \in DOMAIN m THEN m[Chosen(s)] ELSE 0)
                                   + g[s \ {Chosen(s)}]]
             sums == CHOOSE g : P(g)
  <1>2. AverageMastery(S, m) = (2 * sums[S] + n) \div (2 * n)
    BY DEF AverageMastery, MapThenSumSet, MapThenFoldSet, Chosen
  <1>3. ASSUME NEW g PROVE P(g) <=> Sums(f, S, g)
    <2>1. \A s \in SUBSET S : s # {} =>
            f[Chosen(s)] = IF Chosen(s) \in DOMAIN m THEN m[Chosen(s)] ELSE 0
      BY ChosenIn
    <2> HIDE DEF f, m, S
    <2>. QED  BY <2>1 DEF Sums
  <1>4. \E g : P(g)
    BY <1>1, <1>3, SumsExist
  <1>5. P(sums)
    <2> HIDE DEF P
    <2>. QED  BY <1>4
  <1>6. sums[S] = SumOver(f, S)
    <2> HIDE DEF P, sums, f, S
    <2>1. Sums(f, S, sums) /\ IsFiniteSet(S)
      BY <1>1, <1>3, <1>5
    <2>2. \A T \in SUBSET S : sums[T] = SumOver(f, T)
      BY <2>1, SumOverIs
    <2>. QED  BY <2>2
  <1> HIDE DEF sums, f, m, S
  <1>7. SumOver(f, S) \in Nat /\ SumOver(f, S) <= 100 * n
    BY <1>1, SumOverNat, SumOverBound DEF n
  <1>8. n \in Nat \ {0}
    BY <1>1, FS_CardinalityType, FS_EmptySet DEF n
  <1> HIDE DEF n
  <1>9. sums[S] \in Nat /\ sums[S] <= 100 * n
    BY <1>6, <1>7
  <1>10. (2 * sums[S] + n) \div (2 * n) \in 0..100
    <2>1. ASSUME NEW x \in Nat, x <= 100 * n PROVE (2 * x + n) \div (2 * n) \in 0..100
      <3> DEFINE q == (2 * x + n) \div (2 * n)
      <3>1. q \in Nat /\ (2 * n) * q <= 2 * x + n
        BY <1>8
      <3>2. ASSUME q >= 101 PROVE FALSE
        <4> HIDE DEF q
        <4>1. (2 * n) * q >= (2 * n) * 101
          BY <1>8, <3>1, <3>2
        <4>. QED  BY <1>8, <2>1, <3>1, <4>1
      <3> HIDE DEF q
      <3>3. q \in 0..100
        BY <3>1, <3>2
      <3>. QED  BY <3>3 DEF q
    <2>. QED  BY <1>9, <2>1
  <1>. QED  BY <1>2, <1>10 DEF S, m

LEMMA SubjectRowTypes ==
  ASSUME NEW row \in SubjectRow, NEW mastery \in 0..100
  PROVE  SubjectAfter(row, mastery) \in SubjectRow
  <1>1. row.history \in Seq(0..100)
    BY DEF SubjectRow
  <1>2. Append(row.history, mastery) \in Seq(0..100) /\ Append(row.history, mastery) # <<>>
    BY <1>1
  <1>3. Tail(Append(row.history, mastery)) \in Seq(0..100)
    BY <1>2
  <1>4. Remember(row.history, mastery) \in Seq(0..100)
    BY <1>2, <1>3 DEF Remember
  <1>5. TrendFor(row.history, mastery) \in Trend
    BY DEF TrendFor, Trend
  <1> DEFINE trend == IF row.there THEN TrendFor(row.history, mastery) ELSE "FLAT"
             history == Remember(row.history, mastery)
  <1>6. trend \in Trend
    BY <1>5 DEF Trend
  <1>7. SubjectAfter(row, mastery) =
          [there |-> TRUE, mastery |-> mastery, history |-> history, trend |-> trend]
    BY DEF SubjectAfter
  <1> HIDE DEF trend, history
  <1>8. history \in Seq(0..100)
    BY <1>4 DEF history
  <1>. QED  BY <1>6, <1>7, <1>8 DEF SubjectRow

SmallTypes ==
  /\ now \in 0..MaxTime /\ asked \in 0..MaxAsked /\ crashes \in 0..MaxCrash
  /\ consented \in BOOLEAN
  /\ subjects \in [Kid -> [Subject -> SubjectRow]]

LEMMA SmallInit == Init => SmallTypes
  <1>1. NoSubject \in SubjectRow
    BY DEF NoSubject, SubjectRow, Trend
  <1>. QED  BY <1>1, LearningAssumption DEF Init, SmallTypes

LEMMA SmallNext == WorkTypes /\ SmallTypes /\ [Next]_vars => SmallTypes'
  <1> SUFFICES ASSUME WorkTypes, SmallTypes, [Next]_vars PROVE SmallTypes'
    OBVIOUS
  <1> USE LearningAssumption DEF SmallTypes
  <1>1. ASSUME NEW e \in EventId, EnqueueSessionEvent(e) PROVE SmallTypes'
    BY <1>1 DEF EnqueueSessionEvent, Ask, progress
  <1>2. ASSUME NEW c \in Consumer, TakeEvent(c) \/ ReadHomework(c) \/ UpdateHomework(c)
                 \/ ReadChild(c) \/ Notify(c) \/ Retry(c)
        PROVE  SmallTypes'
    <2>1. UNCHANGED <<now, asked, consented, subjects>>
      BY <1>2 DEF TakeEvent, Finish, Begin, ReadHomework, UpdateHomework, ReadChild, Notify,
         Retry, progress
    <2>2. CASE TakeEvent(c) \/ ReadHomework(c) \/ UpdateHomework(c) \/ ReadChild(c)
                 \/ Notify(c)
      <3>1. crashes' = crashes
        BY <2>2 DEF TakeEvent, Finish, Begin, ReadHomework, UpdateHomework, ReadChild, Notify
      <3>. QED  BY <2>1, <3>1
    <2>3. CASE Retry(c)
      BY <2>1, <2>3 DEF Retry
    <2>. QED  BY <1>2, <2>2, <2>3
  <1>3. ASSUME NEW c \in Consumer, Commit(c) PROVE SmallTypes'
    <2>1. UNCHANGED <<now, asked, crashes, consented>>
      BY <1>3 DEF Commit
    <2>2. CASE UNCHANGED subjects
      BY <2>1, <2>2
    <2>3. CASE tx[c].found /\ DeriveFromSession(c)
      <3> DEFINE e == tx[c].event
                 k == Event[e].kid
                 s == Event[e].subject
                 row == SubjectAfter(subjects[k][s],
                                     AverageMastery(Event[e].topics, Event[e].mastery))
      <3>1. e \in EventId /\ k \in Kid /\ s \in Subject
        BY <1>3, EventTypes DEF Commit, WorkTypes
      <3>2. subjects' = [subjects EXCEPT ![k][s] = row]
        BY <2>3 DEF DeriveFromSession, EventOf
      <3>3. row \in SubjectRow
        BY <3>1, AverageIsMastery, SubjectRowTypes
      <3> HIDE DEF e, k, s, row
      <3>. QED  BY <2>1, <3>1, <3>2, <3>3
    <2>. QED  BY <1>3, <2>2, <2>3 DEF Commit
  <1>4. ASSUME NEW h \in HwId, NEW k \in Kid, NEW a \in Assignable,
               CreateHomework(h, k, a[1], a[2], a[3])
        PROVE  SmallTypes'
    BY <1>4 DEF CreateHomework, Ask, progress
  <1>5. ASSUME NEW k \in Kid, PurgeChild(k) PROVE SmallTypes'
    <2>1. NoSubject \in SubjectRow
      BY DEF NoSubject, SubjectRow, Trend
    <2>. QED  BY <1>5, <2>1 DEF PurgeChild, Ask
  <1>6. CASE SweepOverdue \/ UNCHANGED vars
    BY <1>6 DEF SweepOverdue, progress, vars
  <1>7. CASE RecordConsent
    BY <1>7 DEF RecordConsent, Ask, progress
  <1>8. CASE Tick
    BY <1>8 DEF Tick, progress
  <1>. QED  BY <1>1, <1>2, <1>3, <1>4, <1>5, <1>6, <1>7, <1>8
            DEF Next, ConsumerStep, Request

\* Type correctness of the learning record; in particular what averageMastery, trendFor and
\* the level arithmetic write is always a mastery, a trend and a counter.
THEOREM TypeCorrect == Spec => []TypeOK
  <1>1. WorkTypes /\ LedgerInv /\ AlertInv /\ SmallTypes => TypeOK
    BY DEF WorkTypes, LedgerInv, AlertInv, AlertTypes, SmallTypes, TypeOK
  <1>. QED  BY <1>1, AlertInit, AlertNext, SmallInit, SmallNext, WorkAlways, LedgerAlways, PTL
            DEF Spec
===============================================================================
