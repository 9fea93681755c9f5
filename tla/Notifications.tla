----------------------------- MODULE Notifications -----------------------------
(***************************************************************************)
(* One family's notifications: the 15-minute reminder sweep and the other  *)
(* producers, the central dispatcher with its daily cap                    *)
(* (notifications.service.ts), and the workers that deliver a row on its   *)
(* channels (notifications.worker.ts).                                     *)
(*                                                                         *)
(* A dispatcher persists a row and then enqueues one job per channel; the  *)
(* cap is counted from the rows once per child and then spent.  The two    *)
(* jobs of a row share its one status column.                              *)
(***************************************************************************)
EXTENDS ReminderRules, FiniteSets

CONSTANTS
  NoticeId,    \* Notification ids
  NoNotice,
  Sweeper,     \* reminder sweeps that may run at once: one (reminders.worker.ts:22) in one
               \* worker process, more with more processes
  Producer,    \* session-event jobs that may dispatch at once
  Worker,      \* delivery jobs that may run at once: WORKER_CONCURRENCY
  Token,       \* device push tokens
  Cap,         \* config.DAILY_NOTIFICATION_CAP
  Attempts,    \* attempts of a job before it has failed for good
  Setup,       \* the ReminderConfig rows there are at the start
  Billed,      \* whether the subscription is past due or about to renew
  MaxTime,     \* bound: the clock
  MaxAsked,    \* bound: dispatches and requests
  MaxFault,    \* bound: crashes and failed deliveries
  Edited       \* bound: the reminder types a parent switches on or off

Dispatcher == Sweeper \cup Producer
NoDay == -1

ASSUME NotificationsAssumption ==
  /\ Cap \in Nat /\ Attempts \in Nat \ {0} /\ Billed \in BOOLEAN
  /\ MaxTime \in Nat /\ MaxAsked \in Nat /\ MaxFault \in Nat
  /\ Setup \in [Kid -> [ReminderType -> ConfigRow]]
  /\ NoticeId \subseteq Nat /\ NoNotice \notin NoticeId /\ IsFiniteSet(Sweeper)
  /\ Edited \subseteq ReminderType

VARIABLES
  now,      \* the clock
  kids,     \* Child rows: status and deletedAt
  cfg,      \* ReminderConfig rows
  notices,  \* Notification rows
  jobs,     \* the delivery job of each row and channel
  doomed,   \* rows whose markDeadLettered is under way, not awaited by anyone
  tokens,   \* PushToken rows
  disp,     \* what each dispatcher is doing
  work,     \* what each delivery worker is doing
  asked, faults

vars ==
  <<now, kids, cfg, notices, jobs, doomed, tokens, disp, work, asked, faults>>

-------------------------------------------------------------------------------
(* The rows. *)

KidStatus == {"ACTIVE", "PAUSED", "DELETED", "GONE"}

\* via: history, the channels on which something was handed to a transport.
NoticeRow ==
  [status : {"none", "PENDING", "SENT", "SUPPRESSED", "DEAD_LETTERED", "gone"},
   intent : Intent, capDay : Int, read : BOOLEAN, via : SUBSET Channel]

NoRow ==
  [status |-> "none", intent |-> BillingNotice, capDay |-> NoDay, read |-> FALSE, via |-> {}]

Job == [state : {"none", "waiting", "active", "done", "failed"}, tries : 0..Attempts]
NoJob == [state |-> "none", tries |-> 0]
Queued == [state |-> "waiting", tries |-> 0]

\* A token is a parent's (owner NoKid) or a child's.
TokenRow == [there : BOOLEAN, owner : Kid \cup {NoKid}, disabled : BOOLEAN]
NoToken == [there |-> FALSE, owner |-> NoKid, disabled |-> FALSE]

\* kids, active: the children still to do and which of them were active at the scan;
\* uncapped, capped: intents still to persist; budget: what is left of the cap, or NoDay
\* before it was counted; notice, channels: the row whose channels are being enqueued.
Dispatch ==
  [op : {"idle", "evaluate", "dispatch", "enqueue"}, at : Nat, kids : SUBSET Kid,
   active : SUBSET Kid, uncapped : SUBSET Intent, capped : SUBSET Intent, budget : Int,
   notice : NoticeId \cup {NoNotice}, channels : SUBSET Channel, billed : BOOLEAN]

IdleDispatch ==
  [op |-> "idle", at |-> 0, kids |-> {}, active |-> {}, uncapped |-> {}, capped |-> {},
   budget |-> NoDay, notice |-> NoNotice, channels |-> {}, billed |-> TRUE]

Delivery ==
  [op : {"idle", "tokens", "send", "mark"}, notice : NoticeId \cup {NoNotice},
   channel : Channel, targets : SUBSET Token]

IdleDelivery == [op |-> "idle", notice |-> NoNotice, channel |-> "PUSH", targets |-> {}]

Init ==
  /\ now = 0
  /\ kids = [c \in Kid |-> "ACTIVE"]
  /\ cfg = Setup
  /\ notices = [n \in NoticeId |-> NoRow]
  /\ jobs = [n \in NoticeId |-> [c \in Channel |-> NoJob]]
  /\ doomed = {}
  /\ tokens = [k \in Token |-> NoToken]
  /\ disp = [d \in Dispatcher |-> IdleDispatch]
  /\ work = [w \in Worker |-> IdleDelivery]
  /\ asked = 0 /\ faults = 0

-------------------------------------------------------------------------------
(* Helpers. *)

Ask == asked < MaxAsked /\ asked' = asked + 1
Fault == faults < MaxFault /\ faults' = faults + 1

Purged(c) == c # NoKid /\ kids[c] = "GONE"

IsRow(n) == n \in NoticeId /\ notices[n].status \notin {"none", "gone"}
Rows == {n \in NoticeId : IsRow(n)}

\* The rows the cap of a child's day is counted over.
CappedRows(c, day) ==
  {n \in Rows : notices[n].intent.counts /\ notices[n].intent.kid = c
                /\ notices[n].capDay = day}

CountedSent(c, day) == {n \in CappedRows(c, day) : notices[n].status = "SENT"}

CountedEver(c, day) ==
  {n \in Rows : /\ notices[n].intent.counts /\ notices[n].intent.kid = c
                /\ notices[n].status \in {"PENDING", "SENT"}}

\* What has been delivered or will be.
Counted(c, day) == {n \in CappedRows(c, day) : notices[n].status \in {"PENDING", "SENT"}}

\* @@unique([childId, capDay, type]); a row without a capDay collides with none.
Collides(i, day) ==
  \E n \in Rows : /\ notices[n].capDay = day
                  /\ notices[n].intent.kid = i.kid /\ notices[n].intent.type = i.type

\* Ids are given out in order.
IsNextId(n) == n \in NoticeId /\ \A m \in NoticeId : m < n <=> notices[m].status # "none"

Create(n, i, day, status) ==
  /\ IsNextId(n)
  /\ notices' = [notices EXCEPT ![n] =
       [NoRow EXCEPT !.status = status, !.intent = i, !.capDay = day]]

\* The loop over the intents goes on, then the one over the children; a producer returns.
Continue(d, l) ==
  LET over == l.uncapped = {} /\ l.capped = {} IN
  disp' = [disp EXCEPT ![d] =
    IF ~over THEN [l EXCEPT !.op = "dispatch", !.notice = NoNotice]
    ELSE IF l.kids = {} /\ l.billed THEN IdleDispatch
    ELSE [l EXCEPT !.op = "evaluate", !.budget = NoDay, !.notice = NoNotice]]

\* enqueueChannels: to be done for the row just created before the loop goes on.
EnqueueFor(d, n, l) ==
  disp' = [disp EXCEPT ![d] = [l EXCEPT !.op = "enqueue", !.notice = n,
             !.channels = ChannelsOf(notices'[n].intent.to)]]

-------------------------------------------------------------------------------
(* What is dispatched: the reminder sweep, session events, billing. *)

\* runRemindersSweep: the children that are not deleted, with the status they have now.
SweepStart(d) ==
  /\ d \in Sweeper /\ disp[d].op = "idle" /\ Ask
  /\ disp' = [disp EXCEPT ![d] = [IdleDispatch EXCEPT !.op = "evaluate", !.at = now,
       !.billed = FALSE,
       !.kids = {c \in Kid : kids[c] \in {"ACTIVE", "PAUSED"}},
       !.active = {c \in Kid : kids[c] = "ACTIVE"}]]
  /\ UNCHANGED <<now, kids, cfg, notices, jobs, doomed, tokens, work, faults>>

\* The next child's reminders are read and evaluated, and buildAndDispatch partitions them.
Evaluate(d, c) ==
  LET l == disp[d]
      intents == EvaluateChild(c, cfg[c], c \notin l.active) IN
  /\ l.op = "evaluate" /\ c \in l.kids
  /\ Continue(d, [l EXCEPT !.kids = l.kids \ {c},
       !.uncapped = {i \in intents : ~i.counts},
       !.capped = {i \in intents : i.counts}])
  /\ UNCHANGED <<now, kids, cfg, notices, jobs, doomed, tokens, work, asked, faults>>

\* dispatchBillingNotifications, once the children are done.
BillingNotices(d) ==
  /\ disp[d].op = "evaluate" /\ disp[d].kids = {}
  /\ Continue(d, [disp[d] EXCEPT !.billed = TRUE,
       !.uncapped = IF Billed THEN {BillingNotice} ELSE {}])
  /\ UNCHANGED <<now, kids, cfg, notices, jobs, doomed, tokens, work, asked, faults>>

\* A session event dispatches what it derived: a struggle alert, a reward goal reached.
SessionEvent(d, c, struggle, goal) ==
  /\ d \in Producer /\ disp[d].op = "idle" /\ Ask
  /\ struggle \/ goal
  /\ ~Purged(c)
  /\ disp' = [disp EXCEPT ![d] = [IdleDispatch EXCEPT !.op = "dispatch", !.at = now,
       !.uncapped = IF struggle THEN {StruggleAlert(c)} ELSE {},
       !.capped = IF goal THEN {GoalReached(c)} ELSE {}]]
  /\ UNCHANGED <<now, kids, cfg, notices, jobs, doomed, tokens, work, faults>>

-------------------------------------------------------------------------------
(* buildAndDispatch. *)

\* An intent the cap does not count is always persisted: it has no capDay to collide on.
PersistUncapped(d, n, i) ==
  LET l == disp[d] IN
  /\ l.op = "dispatch" /\ i \in l.uncapped
  /\ ~Purged(i.kid)
  /\ Create(n, i, NoDay, "PENDING")
  /\ EnqueueFor(d, n, [l EXCEPT !.uncapped = @ \ {i}])
  /\ UNCHANGED <<now, kids, cfg, jobs, doomed, tokens, work, asked, faults>>

\* The next of the child's capped intents, in the order of their rank.
NextCapped(d) == FirstInRank(disp[d].capped)

\* What is left of the child's cap, counted once.
CountToday(d) ==
  LET l == disp[d]
      used == Cardinality(Counted(NextCapped(d).kid, CapDay(l.at))) IN
  /\ l.op = "dispatch" /\ l.uncapped = {} /\ l.capped # {} /\ l.budget = NoDay
  /\ disp' = [disp EXCEPT ![d].budget = IF used < Cap THEN Cap - used ELSE 0]
  /\ UNCHANGED <<now, kids, cfg, notices, jobs, doomed, tokens, work, asked, faults>>

AtCapped(d) ==
  /\ disp[d].op = "dispatch" /\ disp[d].uncapped = {} /\ disp[d].capped # {}
  /\ disp[d].budget # NoDay
  /\ ~Purged(NextCapped(d).kid)

DuplicateToday(d) == Collides(NextCapped(d), CapDay(disp[d].at))

PersistCappedUnspent(d, n) ==
  /\ AtCapped(d) /\ disp[d].budget > 0
  /\ ~DuplicateToday(d)
  /\ Create(n, NextCapped(d), CapDay(disp[d].at), "PENDING")
  /\ EnqueueFor(d, n, [disp[d] EXCEPT !.capped = @ \ {NextCapped(d)}])
  /\ UNCHANGED <<now, kids, cfg, jobs, doomed, tokens, work, asked, faults>>

PersistCapped(d, n) ==
  /\ AtCapped(d) /\ disp[d].budget > 0
  /\ ~DuplicateToday(d)
  /\ Create(n, NextCapped(d), CapDay(disp[d].at), "PENDING")
  /\ EnqueueFor(d, n, [disp[d] EXCEPT !.capped = @ \ {NextCapped(d)}, !.budget = @ - 1])
  /\ UNCHANGED <<now, kids, cfg, jobs, doomed, tokens, work, asked, faults>>

\* Over the cap: a row that is never delivered.
Suppress(d, n) ==
  /\ AtCapped(d) /\ disp[d].budget = 0
  /\ ~DuplicateToday(d)
  /\ Create(n, NextCapped(d), CapDay(disp[d].at), "SUPPRESSED")
  /\ Continue(d, [disp[d] EXCEPT !.capped = @ \ {NextCapped(d)}])
  /\ UNCHANGED <<now, kids, cfg, jobs, doomed, tokens, work, asked, faults>>

\* P2002: the day already has this row, and no budget is spent on it.
SkipDuplicate(d) ==
  /\ AtCapped(d) /\ DuplicateToday(d)
  /\ Continue(d, [disp[d] EXCEPT !.capped = @ \ {NextCapped(d)}])
  /\ UNCHANGED <<now, kids, cfg, notices, jobs, doomed, tokens, work, asked, faults>>

\* One job per channel, PUSH first.
Enqueue(d) ==
  LET l == disp[d]
      c == IF "PUSH" \in l.channels THEN "PUSH" ELSE "EMAIL"
      rest == l.channels \ {c} IN
  /\ l.op = "enqueue"
  /\ jobs' = [jobs EXCEPT ![l.notice][c] = Queued]
  /\ IF rest = {} THEN Continue(d, [l EXCEPT !.channels = rest])
     ELSE disp' = [disp EXCEPT ![d].channels = rest]
  /\ UNCHANGED <<now, kids, cfg, notices, doomed, tokens, work, asked, faults>>

\* A crash, or a row refused because its child was purged: the sweep is run again in any
\* case, and the retry of a session event finds it processed and dispatches nothing.
StopDispatch(d) ==
  LET l == disp[d] IN
  /\ l.op # "idle"
  /\ \/ /\ l.op = "dispatch" /\ \E i \in l.uncapped \cup l.capped : Purged(i.kid)
        /\ UNCHANGED faults
     \/ Fault
  /\ disp' = [disp EXCEPT ![d] = IdleDispatch]
  /\ UNCHANGED <<now, kids, cfg, notices, jobs, doomed, tokens, work, asked>>

-------------------------------------------------------------------------------
(* Delivering: notifications.worker. *)

JobTo(n, c, state) == jobs' = [jobs EXCEPT ![n][c].state = state]

Step(w, l) == work' = [work EXCEPT ![w] = l]

\* The job is taken and its row read.  A row that is gone fails the job for good, one that
\* is SENT has nothing left to do; otherwise the attempt is counted
\* (and recorded, in a column nothing reads).
TakeMissing(w, n, c) ==
  /\ work[w].op = "idle" /\ jobs[n][c].state = "waiting" /\ ~IsRow(n)
  /\ JobTo(n, c, "failed")
  /\ UNCHANGED <<now, kids, cfg, notices, doomed, tokens, disp, work, asked, faults>>

TakeSent(w, n, c) ==
  /\ work[w].op = "idle" /\ jobs[n][c].state = "waiting" /\ IsRow(n)
  /\ notices[n].status = "SENT"
  /\ JobTo(n, c, "done")
  /\ UNCHANGED <<now, kids, cfg, notices, doomed, tokens, disp, work, asked, faults>>

Take(w, n, c) ==
  /\ work[w].op = "idle" /\ jobs[n][c].state = "waiting" /\ IsRow(n)
  /\ notices[n].status # "SENT"
  /\ jobs' = [jobs EXCEPT ![n][c] = [state |-> "active", tries |-> @.tries + 1]]
  /\ Step(w, [op |-> IF c = "EMAIL" THEN "send" ELSE "tokens", notice |-> n, channel |-> c,
              targets |-> {}])
  /\ UNCHANGED <<now, kids, cfg, notices, doomed, tokens, disp, asked, faults>>

\* tokensForNotification: the child's devices, or the parents'.
TargetsOf(n) ==
  LET i == notices[n].intent
      owner == IF i.to = "CHILD" THEN i.kid ELSE NoKid IN
  {k \in Token : tokens[k].there /\ ~tokens[k].disabled /\ tokens[k].owner = owner}

ReadTokensUnmarked(w) ==
  LET l == work[w]  targets == TargetsOf(l.notice) IN
  /\ l.op = "tokens"
  /\ IF targets = {} THEN JobTo(l.notice, "PUSH", "done") /\ Step(w, IdleDelivery)
     ELSE UNCHANGED jobs /\ Step(w, [l EXCEPT !.op = "send", !.targets = targets])
  /\ UNCHANGED <<now, kids, cfg, notices, doomed, tokens, disp, asked, faults>>

\* Without a device there is nothing to push, and the row is marked SENT all the same.
ReadTokens(w) ==
  LET l == work[w]  targets == TargetsOf(l.notice) IN
  /\ l.op = "tokens"
  /\ Step(w, [l EXCEPT !.op = IF targets = {} THEN "mark" ELSE "send", !.targets = targets])
  /\ UNCHANGED <<now, kids, cfg, notices, jobs, doomed, tokens, disp, asked, faults>>

\* Handed to the mail transport, or to the push provider, which names invalid tokens.
Send(w, invalid) ==
  LET l == work[w] IN
  /\ l.op = "send" /\ invalid \subseteq l.targets
  /\ notices' = [notices EXCEPT ![l.notice].via = @ \cup {l.channel}]
  /\ tokens' = [k \in Token |->
       IF k \in invalid /\ tokens[k].there THEN [tokens[k] EXCEPT !.disabled = TRUE]
       ELSE tokens[k]]
  /\ Step(w, [l EXCEPT !.op = "mark", !.targets = {}])
  /\ UNCHANGED <<now, kids, cfg, jobs, doomed, disp, asked, faults>>

\* markSent, by id; then the job is complete.
MarkSent(w) ==
  LET l == work[w] IN
  /\ l.op = "mark" /\ IsRow(l.notice)
  /\ notices' = [notices EXCEPT ![l.notice].status = "SENT"]
  /\ JobTo(l.notice, l.channel, "done")
  /\ Step(w, IdleDelivery)
  /\ UNCHANGED <<now, kids, cfg, doomed, tokens, disp, asked, faults>>

\* A throw, of a transport or because the row is gone: BullMQ retries the job until its
\* attempts are used up; only then does the failed handler start markDeadLettered,
\* which nothing waits for.
FailAfter(w, limit) ==
  LET l == work[w]  n == l.notice
      exhausted == jobs[n][l.channel].tries >= limit IN
  /\ l.op # "idle"
  /\ IF IsRow(n) THEN Fault ELSE UNCHANGED faults
  /\ JobTo(n, l.channel, IF exhausted THEN "failed" ELSE "waiting")
  /\ doomed' = IF exhausted THEN doomed \cup {n} ELSE doomed
  /\ Step(w, IdleDelivery)
  /\ UNCHANGED <<now, kids, cfg, notices, tokens, disp, asked>>

FailLate(w) == FailAfter(w, Attempts + 1)

Fail(w) == FailAfter(w, Attempts)

\* markDeadLettered, by id, whatever the other channel made of the row meanwhile.
MarkDeadLettered(n) ==
  /\ n \in doomed /\ doomed' = doomed \ {n}
  /\ notices' = IF IsRow(n) THEN [notices EXCEPT ![n].status = "DEAD_LETTERED"] ELSE notices
  /\ UNCHANGED <<now, kids, cfg, jobs, tokens, disp, work, asked, faults>>

CrashWorkersLosingJobs ==
  /\ Fault
  /\ doomed' = {}
  /\ work' = [w \in Worker |-> IdleDelivery]
  /\ UNCHANGED <<now, kids, cfg, notices, jobs, tokens, disp, asked>>

\* The worker process dies: its jobs are stalled and go back to the queue, the marks under
\* way are lost.
CrashWorkers ==
  /\ Fault
  /\ doomed' = {}
  /\ jobs' = [n \in NoticeId |-> [c \in Channel |->
       IF jobs[n][c].state = "active"
       THEN [state |-> "waiting", tries |-> jobs[n][c].tries - 1] ELSE jobs[n][c]]]
  /\ work' = [w \in Worker |-> IdleDelivery]
  /\ UNCHANGED <<now, kids, cfg, notices, tokens, disp, asked>>

-------------------------------------------------------------------------------
(* Requests: devices, the bell, the reminder settings; and the children. *)

\* registerPushToken binds a token to the caller, a new one or one seen before.
RegisterToken(k, owner) ==
  /\ Ask /\ ~Purged(owner)
  /\ tokens' = [tokens EXCEPT ![k] = [there |-> TRUE, owner |-> owner, disabled |-> FALSE]]
  /\ UNCHANGED <<now, kids, cfg, notices, jobs, doomed, disp, work, faults>>

DeregisterToken(k) ==
  /\ Ask
  /\ tokens' = [tokens EXCEPT ![k] = NoToken]
  /\ UNCHANGED <<now, kids, cfg, notices, jobs, doomed, disp, work, faults>>

MarkNotificationRead(n) ==
  /\ Ask /\ IsRow(n)
  /\ notices' = [notices EXCEPT ![n].read = TRUE]
  /\ UNCHANGED <<now, kids, cfg, jobs, doomed, tokens, disp, work, faults>>

MarkAllNotificationsRead ==
  /\ Ask
  /\ notices' = [n \in NoticeId |->
       IF IsRow(n) /\ notices[n].intent.to = "PARENT" THEN [notices[n] EXCEPT !.read = TRUE]
       ELSE notices[n]]
  /\ UNCHANGED <<now, kids, cfg, jobs, doomed, tokens, disp, work, faults>>

\* updateReminder: the type's row of every child that is not deleted, created with the
\* catalog's recipient where there is none.
UpdateReminder(t, enabled) ==
  /\ Ask
  /\ cfg' = [c \in Kid |->
       IF kids[c] \in {"DELETED", "GONE"} THEN cfg[c]
       ELSE [cfg[c] EXCEPT ![t] = [there |-> TRUE, enabled |-> enabled,
              recipient |-> IF @.there THEN @.recipient ELSE DefaultRecipient[t]]]]
  /\ UNCHANGED <<now, kids, notices, jobs, doomed, tokens, disp, work, faults>>

\* pauseChild, reactivateChild, softDeleteChild, restoreChild, as far as reminders see them.
ChildChanges(c, s) ==
  /\ Ask /\ kids[c] \notin {s, "GONE"}
  /\ kids' = [kids EXCEPT ![c] = s]
  /\ UNCHANGED <<now, cfg, notices, jobs, doomed, tokens, disp, work, faults>>

\* hardDeleteChildDependents: the purge takes the child's rows, but not the queued jobs.
PurgeChild(c) ==
  /\ kids[c] = "DELETED"
  /\ kids' = [kids EXCEPT ![c] = "GONE"]
  /\ cfg' = [cfg EXCEPT ![c] = [t \in ReminderType |-> [@[t] EXCEPT !.there = FALSE]]]
  /\ notices' = [n \in NoticeId |->
       IF IsRow(n) /\ notices[n].intent.kid = c THEN [NoRow EXCEPT !.status = "gone"]
       ELSE notices[n]]
  /\ tokens' = [k \in Token |-> IF tokens[k].owner = c THEN NoToken ELSE tokens[k]]
  /\ UNCHANGED <<now, jobs, doomed, disp, work, asked, faults>>

Tick ==
  /\ now < MaxTime /\ now' = now + 1
  /\ UNCHANGED <<kids, cfg, notices, jobs, doomed, tokens, disp, work, asked, faults>>

-------------------------------------------------------------------------------
(* The specification. *)

DispatchStep(d) ==
  \/ \E c \in Kid : Evaluate(d, c)
  \/ BillingNotices(d)
  \/ CountToday(d)
  \/ Enqueue(d)
  \/ \E n \in NoticeId :
       \/ PersistCapped(d, n) \/ Suppress(d, n)
       \/ \E i \in disp[d].uncapped : PersistUncapped(d, n, i)
  \/ SkipDuplicate(d)

Produce(d) ==
  SweepStart(d) \/ \E c \in Kid, s, g \in BOOLEAN : SessionEvent(d, c, s, g)

TakeJob(w) ==
  \E n \in NoticeId, c \in Channel : TakeMissing(w, n, c) \/ TakeSent(w, n, c) \/ Take(w, n, c)

DeliverStep(w) ==
  ReadTokens(w) \/ (\E invalid \in SUBSET Token : Send(w, invalid)) \/ MarkSent(w)

Request ==
  \/ \E k \in Token : DeregisterToken(k) \/ \E o \in Kid \cup {NoKid} : RegisterToken(k, o)
  \/ \E n \in NoticeId : MarkNotificationRead(n)
  \/ MarkAllNotificationsRead
  \/ \E t \in Edited, e \in BOOLEAN : UpdateReminder(t, e)
  \/ \E c \in Kid : PurgeChild(c) \/ \E s \in {"ACTIVE", "PAUSED", "DELETED"} : ChildChanges(c, s)

Next ==
  \/ \E d \in Dispatcher : Produce(d) \/ DispatchStep(d) \/ StopDispatch(d)
  \/ \E w \in Worker : TakeJob(w) \/ DeliverStep(w) \/ Fail(w)
  \/ \E n \in NoticeId : MarkDeadLettered(n)
  \/ CrashWorkers
  \/ Request
  \/ Tick

Spec == Init /\ [][Next]_vars

\* A free worker takes a waiting job, and a handler that runs returns or throws, which also
\* ends it; nothing promises that a send succeeds.
FairSpec ==
  /\ Spec
  /\ \A w \in Worker : WF_vars(TakeJob(w)) /\ WF_vars(DeliverStep(w) \/ Fail(w))

-------------------------------------------------------------------------------
(* Properties. *)

TypeOK ==
  /\ now \in 0..MaxTime /\ asked \in 0..MaxAsked /\ faults \in 0..MaxFault
  /\ kids \in [Kid -> KidStatus]
  /\ cfg \in [Kid -> [ReminderType -> ConfigRow]]
  /\ notices \in [NoticeId -> NoticeRow]
  /\ jobs \in [NoticeId -> [Channel -> Job]]
  /\ doomed \subseteq NoticeId
  /\ tokens \in [Token -> TokenRow]
  /\ disp \in [Dispatcher -> Dispatch]
  /\ work \in [Worker -> Delivery]

CappedDays == {notices[n].capDay : n \in Rows} \ {NoDay}

\* No child is sent more than limit notices on one Riyadh day.
ChildSentAtMost(limit) ==
  \A c \in Kid, day \in CappedDays :
    Cardinality({n \in Counted(c, day) : notices[n].intent.to = "CHILD"}) <= limit

\* The cap protects the child (notifications.service.ts:20-29): however session events,
\* failures and crashes interleave, no child is sent more than Cap notices on a day for each
\* sweep that may run at once. Two sweeps may both count before either has persisted, so
\* one process, whose sweeps follow one another, keeps the cap as it is written.
CapProtectsChild == ChildSentAtMost(Cap * Cardinality(Sweeper))

\* The count and the rows it decides on are separate statements, so a session event may
\* overrun that, by its one kind of notice and by no more.
CapOverrun ==
  \A c \in Kid, day \in CappedDays :
    Cardinality(Counted(c, day)) <= Cap * Cardinality(Sweeper) + 1

\* Nothing is suppressed for want of budget unless the day's budget went to other rows: a
\* duplicate, a crash or a failed delivery never costs another notice its place.
SuppressedOnlyOverCap ==
  \A n \in Rows : notices[n].status = "SUPPRESSED" =>
    Cap <= Cardinality({m \in CappedRows(notices[n].intent.kid, notices[n].capDay) :
                          notices[m].status # "SUPPRESSED"})

\* What a row says follows from its jobs.  A row delivered on a channel says SENT, unless its
\* other channel failed for good (the failed handler overwrites it); a row given up is one
\* of whose channels every attempt was made: a worker's crash costs it none.
StatusFollowsJobs ==
  \A n \in Rows :
    /\ (\E c \in Channel : jobs[n][c].state = "done")
         => \/ notices[n].status = "SENT"
            \/ notices[n].status = "DEAD_LETTERED" /\ \E c \in Channel : jobs[n][c].state = "failed"
    /\ notices[n].status = "DEAD_LETTERED"
         => \E c \in Channel : jobs[n][c].state = "failed" /\ jobs[n][c].tries = Attempts

\* The queue drains: whatever is enqueued is delivered or given up, however often a worker
\* crashes, a transport throws or a row goes before its jobs do.
JobsSettle ==
  []<>(\A n \in NoticeId, c \in Channel : jobs[n][c].state \notin {"waiting", "active"})

\* reminders.service.ts:21, "Push to everyone; email to the parent side": a notice to the
\* parents all of whose jobs are done has been mailed.
EmailReachesParent ==
  \A n \in Rows :
    /\ notices[n].intent.to = "PARENT"
    /\ \A c \in Channel : jobs[n][c].state = "done"
    => "EMAIL" \in notices[n].via
===============================================================================
