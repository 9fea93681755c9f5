------------------------------- MODULE Learning -------------------------------
(***************************************************************************)
(* One family's learning record: the session-event worker with its ledger  *)
(* and its one transaction (sessionEvents.service.ts), the homework and    *)
(* progress it derives (homework.service.ts, progress.service.ts), the     *)
(* alerts it sends after its commit, the consent gate (lib/consent.ts),    *)
(* the overdue sweep, and what the dashboard shows of the rows.            *)
(*                                                                         *)
(* A transaction reads a homework item, then writes it by id under a row   *)
(* lock it keeps; reads the child, then writes it by id.  What follows the *)
(* child's write is done under the child's row lock, so it is one step     *)
(* with the commit.                                                        *)
(***************************************************************************)
EXTENDS LearningRules

CONSTANTS
  Kid, Subject, Topic,
  HwId, NoHw,      \* Homework ids
  EventId, NoEvent,
  Event,           \* the session events, by id
  Given,           \* the homework there is at the start, of which none is finished
  Consumer,        \* jobs the session-event worker runs at once: WORKER_CONCURRENCY
  Enforce,         \* config.COPPA_ENFORCE_CONSENT
  Assignable,      \* bound: the subjects, topics and deadlines of homework a parent creates
  MaxTime, MaxAsked, MaxCrash  \* bounds: the clock, requests, crashes

EventRec ==
  [kid : Kid, subject : Subject, topics : SUBSET Topic,
   mastery : UNION {[ts -> 0..100] : ts \in SUBSET Topic}, xp : Nat, minutes : Nat,
   outcome : Outcome, ref : HwId \cup {NoHw}, at : Nat]

HwRow ==
  [status : HomeworkStatus \cup {"none", "gone"}, kid : Kid, subject : Subject, topic : Topic,
   deadline : Nat]

ASSUME LearningAssumption ==
  /\ Event \in [EventId -> EventRec]
  /\ Given \in [HwId -> HwRow] /\ \A h \in HwId : Given[h].status \notin Finished
  /\ \A e \in EventId :
       /\ Event[e].topics # {} /\ IsFiniteSet(Event[e].topics)
       /\ DOMAIN Event[e].mastery \subseteq Event[e].topics
  /\ Enforce \in BOOLEAN
  /\ Assignable \subseteq Subject \X Topic \X Nat
  /\ MaxTime \in Nat /\ MaxAsked \in Nat /\ MaxCrash \in Nat
  /\ NoHw \notin HwId /\ NoEvent \notin EventId

VARIABLES
  now,
  consented,  \* whether the family has a COPPA ConsentRecord
  sent,       \* the events the producer has sent
  queue,      \* the events that wait in the session-events queue
  ledger,     \* ProcessedSessionEvent rows
  effects,    \* history: how often each event has taken effect
  kids,       \* Child rows that exist
  totals,     \* their counters
  subjects,   \* SubjectProgress rows
  topics,     \* TopicProgress rows
  trackers,   \* StruggleTracker rows
  hw,         \* Homework rows
  tx,         \* what each consumer is doing
  alerts,     \* history: struggle alerts raised
  asked, crashes

progress == <<kids, totals, subjects, topics, trackers>>
vars ==
  <<now, consented, sent, queue, ledger, effects, progress, hw, tx, alerts,
    asked, crashes>>

-------------------------------------------------------------------------------
(* The rows. *)

SubjectRow ==
  [there : BOOLEAN, mastery : 0..100, trend : Trend, history : Seq(0..100)]
NoSubject == [there |-> FALSE, mastery |-> 0, trend |-> "FLAT", history |-> <<>>]

TopicRow == [there : BOOLEAN, mastery : 0..100, struggling : BOOLEAN]
NoTopic == [there |-> FALSE, mastery |-> 0, struggling |-> FALSE]

\* alerted: lastAlertedAt is set.
TrackerRow == [count : Nat, alerted : BOOLEAN]
NoTracker == [count |-> 0, alerted |-> FALSE]

\* item, next: the homework to be written and its status; held: its lock is held;
\* snapshot: the child's counters as they were read.
Tx ==
  [op : {"idle", "match", "update", "child", "commit", "notify"},
   event : EventId \cup {NoEvent}, item : HwId \cup {NoHw}, next : HomeworkStatus,
   held : BOOLEAN, found : BOOLEAN, snapshot : Totals]

IdleTx ==
  [op |-> "idle", event |-> NoEvent, item |-> NoHw, next |-> "PENDING", held |-> FALSE,
   found |-> FALSE, snapshot |-> NoTotals]

Init ==
  /\ now = 0 /\ consented \in BOOLEAN
  /\ sent = {} /\ queue = {} /\ ledger = {}
  /\ effects = [e \in EventId |-> 0]
  /\ kids = Kid
  /\ totals = [k \in Kid |-> NoTotals]
  /\ subjects = [k \in Kid |-> [s \in Subject |-> NoSubject]]
  /\ topics = [k \in Kid |-> [s \in Subject |-> [t \in Topic |-> NoTopic]]]
  /\ trackers = [k \in Kid |-> [t \in Topic |-> NoTracker]]
  /\ hw = Given
  /\ tx = [c \in Consumer |-> IdleTx]
  /\ alerts = [k \in Kid |-> [t \in Topic |-> 0]]
  /\ asked = 0 /\ crashes = 0

-------------------------------------------------------------------------------
(* Helpers. *)

Ask == asked < MaxAsked /\ asked' = asked + 1

HwThere(h) == hw[h].status \notin {"none", "gone"}

InTx(c) == tx[c].op \notin {"idle", "notify"}
EventOf(c) == Event[tx[c].event]

\* The unique index on eventId: a second insert waits for the transaction of the first.
InFlight(e) == \E c \in Consumer : InTx(c) /\ tx[c].event = e

Held(h) == \E c \in Consumer : tx[c].held /\ tx[c].item = h

\* matchHomework: the item the event names, else the unfinished ones on its topics whose
\* deadline is the earliest.
Candidates(e) ==
  {h \in HwId : /\ hw[h].status \in Unfinished /\ hw[h].kid = e.kid
                /\ hw[h].subject = e.subject /\ hw[h].topic \in e.topics}

MatchHomework(e) ==
  IF e.ref # NoHw /\ HwThere(e.ref) /\ hw[e.ref].kid = e.kid THEN {e.ref}
  ELSE {h \in Candidates(e) : \A g \in Candidates(e) : hw[h].deadline <= hw[g].deadline}

-------------------------------------------------------------------------------
(* The producer and the session-event worker. *)

\* enqueueSessionEvent: the producer may send an event again.
EnqueueSessionEvent(e) ==
  /\ Event[e].at <= now
  /\ e \in sent => Ask
  /\ e \notin sent => UNCHANGED asked
  /\ sent' = sent \cup {e} /\ queue' = queue \cup {e}
  /\ UNCHANGED <<now, consented, ledger, effects, progress, hw, tx, alerts, crashes>>

Blocked == Enforce /\ ~consented

FinishThrowing(c, e) ==
  /\ tx[c].op = "idle" /\ e \in queue /\ Blocked
  /\ queue' = queue \ {e}
  /\ UNCHANGED <<now, consented, sent, ledger, effects, progress, hw, tx, alerts, asked,
                 crashes>>

\* The job ends without an effect: consent is missing, or the event is in the ledger.
Finish(c, e) ==
  /\ tx[c].op = "idle" /\ e \in queue
  /\ Blocked \/ (~InFlight(e) /\ e \in ledger)
  /\ queue' = queue \ {e}
  /\ UNCHANGED <<now, consented, sent, ledger, effects, progress, hw, tx, alerts, asked,
                 crashes>>

BeginUnchecked(c, e) ==
  /\ tx[c].op = "idle" /\ e \in queue /\ ~Blocked /\ ~InFlight(e)
  /\ queue' = queue \ {e}
  /\ tx' = [tx EXCEPT ![c] = [IdleTx EXCEPT !.event = e,
       !.op = IF Event[e].outcome = "abandoned" THEN "child" ELSE "match"]]
  /\ UNCHANGED <<now, consented, sent, ledger, effects, progress, hw, alerts, asked,
                 crashes>>

\* The ledger row is inserted (it is there for others once the transaction commits).
Begin(c, e) ==
  /\ tx[c].op = "idle" /\ e \in queue /\ ~Blocked
  /\ ~InFlight(e) /\ e \notin ledger
  /\ queue' = queue \ {e}
  /\ tx' = [tx EXCEPT ![c] = [IdleTx EXCEPT !.event = e,
       !.op = IF Event[e].outcome = "abandoned" THEN "child" ELSE "match"]]
  /\ UNCHANGED <<now, consented, sent, ledger, effects, progress, hw, alerts, asked,
                 crashes>>

\* applyHomeworkEvent: the item is read and its next status decided.
ReadHomework(c) ==
  LET e == EventOf(c)
      Next(h) == Transition(hw[h].status, e.outcome, hw[h].deadline, e.at)
      moved == {h \in MatchHomework(e) : Next(h) # hw[h].status} IN
  /\ tx[c].op = "match"
  /\ IF moved = {} THEN tx' = [tx EXCEPT ![c].op = "child"]
     ELSE \E h \in moved : tx' = [tx EXCEPT ![c].op = "update", ![c].item = h,
                                            ![c].next = Next(h)]
  /\ UNCHANGED <<now, consented, sent, queue, ledger, effects, progress, hw, alerts,
                 asked, crashes>>

\* It is updated by id: the statement waits for a lock on the row, and keeps it.
UpdateHomework(c) ==
  /\ tx[c].op = "update" /\ HwThere(tx[c].item) /\ ~Held(tx[c].item)
  /\ tx' = [tx EXCEPT ![c].op = "child", ![c].held = TRUE]
  /\ UNCHANGED <<now, consented, sent, queue, ledger, effects, progress, hw, alerts,
                 asked, crashes>>

\* deriveFromSession reads the child.
ReadChild(c) ==
  LET k == EventOf(c).kid IN
  /\ tx[c].op = "child"
  /\ tx' = [tx EXCEPT ![c].op = "commit", ![c].found = k \in kids,
                      ![c].snapshot = totals[k]]
  /\ UNCHANGED <<now, consented, sent, queue, ledger, effects, progress, hw, alerts,
                 asked, crashes>>

\* upsertSubjectProgress.
SubjectAfter(row, mastery) ==
  [there |-> TRUE, mastery |-> mastery, history |-> Remember(row.history, mastery),
   trend |-> IF row.there THEN TrendFor(row.history, mastery) ELSE "FLAT"]

\* applyStruggle: the counter of the topic, and whether it has come to the threshold.
CountAfter(row, mastery) == IF IsLow(mastery) THEN row.count + 1 ELSE 0
Struggles(row, mastery) == CountAfter(row, mastery) >= StruggleAfter

AlertEveryTime(row, mastery) == Struggles(row, mastery)
Alert(row, mastery) == Struggles(row, mastery) /\ ~row.alerted

\* The flag is raised at the threshold, lowered by a mastery that is not low.
FlagAfter(flag, row, mastery) ==
  IF Struggles(row, mastery) THEN TRUE ELSE IF IsLow(mastery) THEN flag ELSE FALSE

\* The child's counters from the snapshot, its subject, the topics that have a mastery.
DeriveFromSession(c) ==
  LET e == EventOf(c)  k == e.kid  s == e.subject  m == e.mastery
      scored(t) == t \in DOMAIN m IN
  /\ totals' = [totals EXCEPT ![k] = AddSession(tx[c].snapshot, e.xp, e.minutes)]
  /\ subjects' = [subjects EXCEPT ![k][s] = SubjectAfter(@, AverageMastery(e.topics, m))]
  /\ topics' = [topics EXCEPT ![k][s] = [t \in Topic |-> IF ~scored(t) THEN @[t] ELSE
       [there |-> TRUE, mastery |-> m[t],
        struggling |-> FlagAfter(@[t].struggling, trackers[k][t], m[t])]]]
  /\ trackers' = [trackers EXCEPT ![k] = [t \in Topic |-> IF ~scored(t) THEN @[t] ELSE
       [count |-> CountAfter(@[t], m[t]), alerted |-> @[t].alerted \/ Alert(@[t], m[t])]]]
  /\ alerts' = [alerts EXCEPT ![k] = [t \in Topic |->
       IF scored(t) /\ Alert(trackers[k][t], m[t]) THEN @[t] + 1 ELSE @[t]]]

\* The rest of the transaction, under the lock of the child, and its commit.
Commit(c) ==
  /\ tx[c].op = "commit"
  /\ IF tx[c].found THEN EventOf(c).kid \in kids /\ DeriveFromSession(c)
     ELSE UNCHANGED <<totals, subjects, topics, trackers, alerts>>
  /\ hw' = IF tx[c].held THEN [hw EXCEPT ![tx[c].item].status = tx[c].next] ELSE hw
  /\ ledger' = ledger \cup {tx[c].event}
  /\ effects' = [effects EXCEPT ![tx[c].event] = @ + 1]
  /\ tx' = [tx EXCEPT ![c] = [IdleTx EXCEPT !.op = "notify", !.event = tx[c].event]]
  /\ UNCHANGED <<now, consented, sent, queue, kids, asked, crashes>>

\* After the commit the struggle alerts and the reward goals now met are dispatched (the
\* rewards are in Children, the dispatch in Notifications).
Notify(c) ==
  /\ tx[c].op = "notify"
  /\ tx' = [tx EXCEPT ![c] = IdleTx]
  /\ UNCHANGED <<now, consented, sent, queue, ledger, effects, progress, hw, alerts,
                 asked, crashes>>

\* The process dies, or a row to be written by id is gone: the transaction rolls back and
\* the job is run again.
Retry(c) ==
  /\ tx[c].op # "idle"
  /\ \/ crashes < MaxCrash /\ crashes' = crashes + 1
     \/ /\ \/ tx[c].op = "update" /\ ~HwThere(tx[c].item)
           \/ tx[c].op = "commit" /\ tx[c].found /\ EventOf(c).kid \notin kids
        /\ UNCHANGED crashes
  /\ queue' = queue \cup {tx[c].event}
  /\ tx' = [tx EXCEPT ![c] = IdleTx]
  /\ UNCHANGED <<now, consented, sent, ledger, effects, progress, hw, alerts, asked>>

-------------------------------------------------------------------------------
(* The sweep and the parents' requests. *)

SweepOverduePending ==
  LET late == {h \in HwId : hw[h].status = "PENDING" /\ hw[h].deadline < now} IN
  /\ late # {} /\ \A h \in late : ~Held(h)
  /\ hw' = [h \in HwId |-> IF h \in late THEN [hw[h] EXCEPT !.status = "OVERDUE"] ELSE hw[h]]
  /\ UNCHANGED <<now, consented, sent, queue, ledger, effects, progress, tx, alerts,
                 asked, crashes>>

\* sweepOverdueHomework: one conditional update, which waits for the rows that are locked.
SweepOverdue ==
  LET late == {h \in HwId : hw[h].status \in Unfinished /\ hw[h].deadline < now} IN
  /\ late # {} /\ \A h \in late : ~Held(h)
  /\ hw' = [h \in HwId |-> IF h \in late THEN [hw[h] EXCEPT !.status = "OVERDUE"] ELSE hw[h]]
  /\ UNCHANGED <<now, consented, sent, queue, ledger, effects, progress, tx, alerts,
                 asked, crashes>>

\* A new item gets a new id.
CreateHomework(h, k, s, t, deadline) ==
  /\ Ask /\ k \in kids /\ hw[h].status = "none"
  /\ hw' = [hw EXCEPT ![h] = [kid |-> k, subject |-> s, topic |-> t, deadline |-> deadline,
       status |-> IF deadline < now THEN "OVERDUE" ELSE "PENDING"]]
  /\ UNCHANGED <<now, consented, sent, queue, ledger, effects, progress, tx, alerts,
                 crashes>>

\* recordConsent: rows are only ever added.
RecordConsent ==
  /\ Ask /\ ~consented /\ consented' = TRUE
  /\ UNCHANGED <<now, sent, queue, ledger, effects, progress, hw, tx, alerts, crashes>>

\* hardDeleteChildDependents and the child itself; the ledger has no foreign key to it.
PurgeChild(k) ==
  /\ Ask /\ k \in kids /\ \A h \in HwId : Held(h) => hw[h].kid # k
  /\ kids' = kids \ {k}
  /\ totals' = [totals EXCEPT ![k] = NoTotals]
  /\ subjects' = [subjects EXCEPT ![k] = [s \in Subject |-> NoSubject]]
  /\ topics' = [topics EXCEPT ![k] = [s \in Subject |-> [t \in Topic |-> NoTopic]]]
  /\ trackers' = [trackers EXCEPT ![k] = [t \in Topic |-> NoTracker]]
  /\ hw' = [h \in HwId |-> IF HwThere(h) /\ hw[h].kid = k
                             THEN [hw[h] EXCEPT !.status = "gone"] ELSE hw[h]]
  /\ UNCHANGED <<now, consented, sent, queue, ledger, effects, tx, alerts, crashes>>

Tick ==
  /\ now < MaxTime /\ now' = now + 1
  /\ UNCHANGED <<consented, sent, queue, ledger, effects, progress, hw, tx, alerts, asked,
                 crashes>>

-------------------------------------------------------------------------------
(* The specification. *)

TakeEvent(c) == \E e \in EventId : Finish(c, e) \/ Begin(c, e)

ConsumerStep(c) ==
  \/ ReadHomework(c) \/ UpdateHomework(c) \/ ReadChild(c) \/ Commit(c) \/ Notify(c)
  \/ Retry(c)

Request ==
  \/ \E h \in HwId, k \in Kid, a \in Assignable : CreateHomework(h, k, a[1], a[2], a[3])
  \/ RecordConsent
  \/ \E k \in Kid : PurgeChild(k)

Next ==
  \/ \E e \in EventId : EnqueueSessionEvent(e)
  \/ \E c \in Consumer : TakeEvent(c) \/ ConsumerStep(c)
  \/ SweepOverdue
  \/ Request
  \/ Tick

Spec == Init /\ [][Next]_vars

\* Workers take jobs and go on with them; the sweep comes round every 15 minutes, and a
\* statement that waits for a row lock gets it when it is released.
FairSpec ==
  /\ Spec
  /\ \A c \in Consumer : WF_vars(TakeEvent(c)) /\ SF_vars(ConsumerStep(c))
  /\ SF_vars(SweepOverdue)

-------------------------------------------------------------------------------
(* What the dashboard shows. *)

\* buildOverviews, of a child.
Overview(k) ==
  [homework |-> [b \in DOMAIN CountedAs |->
      Cardinality({h \in HwId : hw[h].kid = k /\ hw[h].status \in CountedAs[b]})],
   hasStruggleAlert |-> \E s \in Subject, t \in Topic : topics[k][s][t].struggling]

-------------------------------------------------------------------------------
(* Properties. *)

TypeOK ==
  /\ now \in 0..MaxTime /\ asked \in 0..MaxAsked /\ crashes \in 0..MaxCrash
  /\ consented \in BOOLEAN
  /\ sent \subseteq EventId /\ queue \subseteq EventId /\ ledger \subseteq EventId
  /\ effects \in [EventId -> Nat] /\ kids \subseteq Kid
  /\ totals \in [Kid -> Totals]
  /\ subjects \in [Kid -> [Subject -> SubjectRow]]
  /\ topics \in [Kid -> [Subject -> [Topic -> TopicRow]]]
  /\ trackers \in [Kid -> [Topic -> TrackerRow]]
  /\ hw \in [HwId -> HwRow]
  /\ tx \in [Consumer -> Tx]
  /\ alerts \in [Kid -> [Topic -> Nat]]

\* However often an event is sent, delivered, rolled back and run again, it takes effect
\* exactly once, and the ledger records exactly those that did (Inbox).
Receiver == INSTANCE Inbox WITH Message <- EventId, done <- ledger
ReceiverSpec == Receiver!Spec

\* The child's counters never show more than the processed sessions earned, and its level
\* is the one its total XP amounts to (progress.service.ts:49-66).
XpIsEarned ==
  \A k \in kids :
    /\ totals[k].xp <= MapThenSumSet(LAMBDA e : Event[e].xp,
                                     {e \in ledger : Event[e].kid = k})
    /\ totals[k].xp = (totals[k].level - 1) * LevelSpan + totals[k].levelXp
    /\ totals[k].levelXp < LevelSpan

\* A homework item is COMPLETED only if a processed session finished it by its deadline,
\* and COMPLETED_LATE only if one finished it at all (homework.service.ts:18-24).
StatusIsEarned ==
  \A h \in HwId :
    LET by == {e \in ledger : /\ Event[e].outcome = "completed" /\ Event[e].kid = hw[h].kid
                              /\ \/ Event[e].ref = h
                                 \/ hw[h].topic \in Event[e].topics} IN
    /\ hw[h].status = "COMPLETED" => \E e \in by : Event[e].at <= hw[h].deadline
    /\ hw[h].status = "COMPLETED_LATE" => by # {}

\* A struggle is alerted once, however many sessions are processed at once
\* (progress.service.ts:201-202), and for as long as the topic's counter is at the threshold
\* the parents' dashboard shows it, whichever of the child's subjects the sessions were in.
StruggleAlertedOnce ==
  /\ \A k \in Kid, t \in Topic : alerts[k][t] <= 1
  /\ \A k \in kids, t \in Topic :
       trackers[k][t].count >= StruggleAfter => Overview(k).hasStruggleAlert

\* Homework past its deadline does not stay pending for ever: it is finished or shown as
\* overdue, whatever events write over the sweep's result meanwhile.
OverdueEventually ==
  []<>(\A h \in HwId : hw[h].status \in Unfinished => now <= hw[h].deadline)

\* Every event that waits is taken up and finished in the end: nothing waits for a lock or
\* for a ledger row for ever.
QueueDrains == []<>(queue = {} /\ \A c \in Consumer : tx[c].op = "idle")

\* homework.service.ts:24, "Completed/Completed-Late are terminal (a later `started` does
\* not regress them)".
FinishedStaysFinished ==
  [][\A h \in HwId :
       hw[h].status \in Finished => hw'[h].status \in Finished \cup {"gone"}]_vars
===============================================================================
