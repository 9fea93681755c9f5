------------------------- MODULE Notifications_proofs -------------------------
(***************************************************************************)
(* Theorems about Notifications, for every value of its constants: any     *)
(* number of children, reminders, session events, delivery workers and     *)
(* attempts, any cap, and any number of crashes and failed deliveries.     *)
(***************************************************************************)
EXTENDS Notifications, SetSums

-------------------------------------------------------------------------------
(* Rules: days, ranks and intents. *)

LEMMA CapDayNat == \A t \in Nat : CapDay(t) \in Nat
  <1> SUFFICES ASSUME NEW t \in Nat PROVE CapDay(t) \in Nat
    OBVIOUS
  <1> t + Offset \in Nat /\ TicksPerDay \in Nat /\ TicksPerDay > 0
    BY ReminderRulesAssumption
  <1> QED  BY DEF CapDay

LEMMA RankIs == \A i \in Intent : RankOf(i) \in 1..10
  <1>1. \A t \in ReminderType : Rank[t] \in 1..10
    BY DEF ReminderType, Rank
  <1> QED  BY <1>1 DEF RankOf, Intent, NoType

\* A set of intents has one that comes first.
LEMMA FirstInRankIn ==
  ASSUME NEW s \in SUBSET Intent, s # {}
  PROVE  FirstInRank(s) \in s
  <1> DEFINE Has(r) == \E i \in s : RankOf(i) = r
             First(r) == Has(r) /\ \A q \in 1..10 : q < r => ~Has(q)
  <1>1. \E r \in 1..10 : Has(r)
    BY RankIs
  <1>2. \E r \in 1..10 : First(r)
    <2> HIDE DEF Has
    <2> QED  BY <1>1
  <1>3. PICK r \in 1..10 : First(r)
    BY <1>2
  <1>4. PICK i \in s : RankOf(i) = r
    BY <1>3
  <1>5. \A j \in s : RankOf(i) <= RankOf(j)
    BY <1>3, <1>4, RankIs
  <1> QED  BY <1>5 DEF FirstInRank

LEMMA NoticeTypes ==
  /\ BillingNotice \in Intent
  /\ \A c \in Kid : StruggleAlert(c) \in Intent /\ GoalReached(c) \in Intent
  BY DEF BillingNotice, StruggleAlert, GoalReached, Notice, Intent, ReminderType, Rank

\* A child's reminders: what the cap counts is what the child gets.
LEMMA EvaluatedAre ==
  ASSUME NEW c \in Kid, NEW rows, NEW inactive
  PROVE  \A i \in EvaluateChild(c, rows, inactive) :
           i \in Intent /\ i.kid = c /\ (i.counts <=> i.to = "CHILD")
  <1> SUFFICES ASSUME NEW i \in EvaluateChild(c, rows, inactive)
               PROVE  i \in Intent /\ i.kid = c /\ (i.counts <=> i.to = "CHILD")
    OBVIOUS
  <1>1. PICK to \in {"CHILD", "PARENT"}, t \in ReminderType : i = Notice(c, to, t, to = "CHILD")
    BY DEF EvaluateChild
  <1>2. (to = "CHILD") \in BOOLEAN
    OBVIOUS
  <1> QED  BY <1>1, <1>2 DEF Notice, Intent

-------------------------------------------------------------------------------
(* Rows, jobs, dispatchers and workers. *)

\* What the cap counts and is not for the child is a goal reached.
NoticeOK(row) ==
  /\ row \in NoticeRow
  /\ row.capDay \in Nat \cup {NoDay}
  /\ row.intent.counts /\ row.intent.to = "PARENT" => row.intent.type = "REWARD_REDEEMED"

JobOK(j) ==
  /\ j \in Job
  /\ j.state = "waiting" => j.tries < Attempts
  /\ j.state = "active" => j.tries > 0

WorkOK(l) == l \in Delivery /\ (l.op # "idle" => l.notice \in NoticeId)

\* Only a sweep goes from child to child, and only a sweep addresses a child; the capped
\* intents at hand are one child's.
LoopOK(d, l) ==
  /\ l \in Dispatch
  /\ l.budget \in Nat \cup {NoDay}
  /\ d \notin Sweeper => l.kids = {} /\ l.billed
  /\ \A i \in l.uncapped : ~i.counts
  /\ \A i \in l.capped :
       /\ i.counts /\ i.kid \in Kid
       /\ i.to = "CHILD" => d \in Sweeper
       /\ i.to = "PARENT" => i.type = "REWARD_REDEEMED"
  /\ \A i, j \in l.capped : i.kid = j.kid

DispOK(d, l) ==
  /\ LoopOK(d, l)
  /\ l.op = "enqueue" => l.notice \in NoticeId /\ l.channels # {}
  /\ l.op = "evaluate" => l.budget = NoDay /\ d \in Sweeper

DataInv ==
  /\ now \in 0..MaxTime /\ asked \in 0..MaxAsked /\ faults \in 0..MaxFault
  /\ kids \in [Kid -> KidStatus]
  /\ cfg \in [Kid -> [ReminderType -> ConfigRow]]
  /\ doomed \subseteq NoticeId
  /\ tokens \in [Token -> TokenRow]

\* The ids given out so far.
Used == {n \in NoticeId : notices[n].status # "none"}

NoticesInv ==
  /\ notices \in [NoticeId -> NoticeRow] /\ \A n \in NoticeId : NoticeOK(notices[n])
  /\ IsFiniteSet(Used)

JobsInv ==
  /\ jobs \in [NoticeId -> [Channel -> Job]]
  /\ \A n \in NoticeId, c \in Channel : JobOK(jobs[n][c])

DispInv == disp \in [Dispatcher -> Dispatch] /\ \A d \in Dispatcher : DispOK(d, disp[d])

WorkInv == work \in [Worker -> Delivery] /\ \A w \in Worker : WorkOK(work[w])

TypeInv == DataInv /\ NoticesInv /\ JobsInv /\ DispInv /\ WorkInv

LEMMA ConstantsAre ==
  /\ NoRow \in NoticeRow /\ NoticeOK(NoRow)
  /\ NoJob \in Job /\ JobOK(NoJob) /\ Queued \in Job /\ JobOK(Queued)
  /\ \A d : IdleDispatch \in Dispatch /\ DispOK(d, IdleDispatch)
  /\ IdleDelivery \in Delivery /\ WorkOK(IdleDelivery)
  /\ NoToken \in TokenRow
  /\ NoticeId \subseteq Nat /\ NoNotice \notin NoticeId
  <1>1. BillingNotice \in Intent /\ ~BillingNotice.counts
    BY NoticeTypes DEF BillingNotice, Notice
  <1>2. NoRow \in NoticeRow /\ NoticeOK(NoRow)
    BY <1>1 DEF NoRow, NoticeRow, NoticeOK, NoDay
  <1>3. NoJob \in Job /\ JobOK(NoJob) /\ Queued \in Job /\ JobOK(Queued)
    BY NotificationsAssumption DEF NoJob, Queued, Job, JobOK
  <1>4. ASSUME NEW d PROVE IdleDispatch \in Dispatch /\ DispOK(d, IdleDispatch)
    BY DEF IdleDispatch, Dispatch, DispOK, LoopOK, NoDay
  <1>5. IdleDelivery \in Delivery /\ WorkOK(IdleDelivery)
    BY DEF IdleDelivery, Delivery, WorkOK, Channel
  <1>6. NoToken \in TokenRow
    BY DEF NoToken, TokenRow
  <1> QED  BY <1>2, <1>3, <1>4, <1>5, <1>6, NotificationsAssumption

LEMMA TypeInit == Init => TypeInv
  <1> SUFFICES ASSUME Init PROVE TypeInv
    OBVIOUS
  <1> USE ConstantsAre DEF Init
  <1>1. DataInv
    BY NotificationsAssumption DEF DataInv, KidStatus
  <1>2. NoticesInv
    <2>1. Used = {}
      BY DEF Used, NoRow
    <2> QED  BY <2>1, FS_EmptySet DEF NoticesInv
  <1>3. JobsInv
    BY DEF JobsInv
  <1>4. DispInv
    BY DEF DispInv
  <1>5. WorkInv
    BY DEF WorkInv
  <1> QED  BY <1>1, <1>2, <1>3, <1>4, <1>5 DEF TypeInv

-------------------------------------------------------------------------------
(* Steps of a dispatcher. *)

\* The loops go on: the intents and the day stay what they are.
LEMMA ContinueRow ==
  ASSUME DispInv, NEW d \in Dispatcher, NEW l, Continue(d, l), LoopOK(d, l)
  PROVE  /\ disp' = [disp EXCEPT ![d] = disp'[d]] /\ DispOK(d, disp'[d])
         /\ disp'[d].op # "enqueue"
         /\ disp'[d].budget # NoDay =>
              /\ disp'[d].budget = l.budget /\ disp'[d].at = l.at
              /\ disp'[d].capped = l.capped
  <1> DEFINE going == [l EXCEPT !.op = "dispatch", !.notice = NoNotice]
             next == [l EXCEPT !.op = "evaluate", !.budget = NoDay, !.notice = NoNotice]
  <1>1. d \notin Sweeper => l.kids = {} /\ l.billed
    BY DEF LoopOK
  <1> l \in Dispatch
    BY DEF LoopOK
  <1>2. going \in Dispatch /\ next \in Dispatch
    <2>1. going \in Dispatch
      BY DEF Dispatch
    <2>2. [going EXCEPT !.op = "evaluate"] \in Dispatch
      <3> HIDE DEF going
      <3> QED  BY <2>1 DEF Dispatch
    <2>3. next = [[going EXCEPT !.op = "evaluate"] EXCEPT !.budget = NoDay]
      BY DEF Dispatch
    <2>4. next \in Dispatch
      <3> DEFINE g == [going EXCEPT !.op = "evaluate"]
      <3>1. g \in Dispatch /\ next = [g EXCEPT !.budget = NoDay]
        BY <2>2, <2>3
      <3> HIDE DEF g, next
      <3> QED  BY <3>1 DEF Dispatch, NoDay
    <2> QED  BY <2>1, <2>4
  <1>3. DispOK(d, going)
    BY <1>2 DEF DispOK, LoopOK, Dispatch
  <1>4. d \in Sweeper => DispOK(d, next)
    BY <1>2 DEF DispOK, LoopOK, Dispatch
  <1>5. CASE ~(l.uncapped = {} /\ l.capped = {})
    <2>1. disp' = [disp EXCEPT ![d] = going]
      BY <1>5 DEF Continue
    <2> QED  BY <2>1, <1>3 DEF DispInv, Dispatch
  <1>6. CASE l.uncapped = {} /\ l.capped = {} /\ l.kids = {} /\ l.billed
    <2>1. disp' = [disp EXCEPT ![d] = IdleDispatch]
      BY <1>6 DEF Continue
    <2> QED  BY <2>1, ConstantsAre DEF DispInv, IdleDispatch
  <1>7. CASE l.uncapped = {} /\ l.capped = {} /\ ~(l.kids = {} /\ l.billed)
    <2>1. disp' = [disp EXCEPT ![d] = next] /\ d \in Sweeper
      BY <1>7, <1>1 DEF Continue
    <2> QED  BY <2>1, <1>4, <1>2 DEF DispInv, Dispatch
  <1> QED  BY <1>5, <1>6, <1>7

\* A row was created: its channels come next.
LEMMA EnqueueRow ==
  ASSUME DispInv, NEW d \in Dispatcher, NEW l, NEW n \in NoticeId, EnqueueFor(d, n, l),
         LoopOK(d, l)
  PROVE  /\ disp' = [disp EXCEPT ![d] = disp'[d]] /\ DispOK(d, disp'[d])
         /\ disp'[d].op = "enqueue" /\ disp'[d].notice = n
         /\ disp'[d].channels = ChannelsOf(notices'[n].intent.to)
         /\ disp'[d].budget = l.budget /\ disp'[d].at = l.at /\ disp'[d].capped = l.capped
  <1> DEFINE ch == ChannelsOf(notices'[n].intent.to)
             row == [l EXCEPT !.op = "enqueue", !.notice = n, !.channels = ch]
  <1>1. ch \in SUBSET Channel /\ ch # {}
    BY DEF ChannelsOf, Channel
  <1>2. disp' = [disp EXCEPT ![d] = row]
    BY DEF EnqueueFor
  <1>3. l \in Dispatch
    BY DEF LoopOK
  <1> HIDE DEF ch
  <1>4. row \in Dispatch
    <2>1. [l EXCEPT !.op = "enqueue", !.notice = n] \in Dispatch
      BY <1>3 DEF Dispatch
    <2> DEFINE g == [l EXCEPT !.op = "enqueue", !.notice = n]
    <2>2. row = [g EXCEPT !.channels = ch]
      BY <1>3 DEF Dispatch
    <2> HIDE DEF g, row
    <2> QED  BY <1>1, <2>1, <2>2 DEF Dispatch, g
  <1>5. /\ row.op = "enqueue" /\ row.notice = n /\ row.channels = ch
        /\ row.budget = l.budget /\ row.at = l.at /\ row.capped = l.capped
        /\ row.uncapped = l.uncapped /\ row.kids = l.kids /\ row.billed = l.billed
    BY <1>3 DEF Dispatch
  <1> HIDE DEF row
  <1>6. DispOK(d, row)
    BY <1>1, <1>4, <1>5 DEF DispOK, LoopOK
  <1>7. disp'[d] = row /\ disp' = [disp EXCEPT ![d] = disp'[d]]
    BY <1>2 DEF DispInv
  <1> QED  BY <1>5, <1>6, <1>7 DEF ch

\* What is left of a dispatcher's intents is as good as what it had.
LEMMA LeftOK ==
  ASSUME DispInv, NEW d \in Dispatcher, NEW i
  PROVE  LET l == disp[d]
             u == [l EXCEPT !.uncapped = @ \ {i}]
             c == [l EXCEPT !.capped = @ \ {i}]
             b == [l EXCEPT !.capped = @ \ {i}, !.budget = @ - 1] IN
         /\ LoopOK(d, l) /\ LoopOK(d, u) /\ LoopOK(d, c)
         /\ l.budget \in Nat \ {0} => LoopOK(d, b)
         /\ u.capped = l.capped /\ u.budget = l.budget /\ u.at = l.at
         /\ c.capped = l.capped \ {i} /\ c.budget = l.budget /\ c.at = l.at
         /\ b.capped = l.capped \ {i} /\ b.budget = l.budget - 1 /\ b.at = l.at
  <1> DEFINE l == disp[d]
             u == [l EXCEPT !.uncapped = @ \ {i}]
             c == [l EXCEPT !.capped = @ \ {i}]
             b == [l EXCEPT !.capped = @ \ {i}, !.budget = @ - 1]
  <1>1. l \in Dispatch /\ LoopOK(d, l)
    BY DEF DispInv, DispOK
  <1>2. u \in Dispatch /\ LoopOK(d, u)
    BY <1>1 DEF Dispatch, LoopOK
  <1>3. c \in Dispatch /\ LoopOK(d, c)
    BY <1>1 DEF Dispatch, LoopOK
  <1>4. b = [c EXCEPT !.budget = l.budget - 1] /\ c.budget = l.budget
    BY <1>1 DEF Dispatch
  <1>5. ASSUME l.budget \in Nat \ {0} PROVE LoopOK(d, b)
    <2>1. l.budget - 1 \in Nat
      BY <1>5
    <2> HIDE DEF c, b
    <2>2. /\ b \in Dispatch /\ b.budget \in Nat
          /\ b.kids = c.kids /\ b.billed = c.billed /\ b.uncapped = c.uncapped
          /\ b.capped = c.capped
      BY <1>3, <1>4, <2>1 DEF Dispatch
    <2> QED  BY <1>3, <2>2 DEF LoopOK
  <1>6. /\ u.capped = l.capped /\ u.budget = l.budget /\ u.at = l.at
        /\ c.capped = l.capped \ {i} /\ c.at = l.at
        /\ b.capped = l.capped \ {i} /\ b.budget = l.budget - 1 /\ b.at = l.at
    BY <1>1 DEF Dispatch
  <1> QED  BY <1>1, <1>2, <1>3, <1>4, <1>5, <1>6

LEMMA CountedFinite ==
  ASSUME NoticesInv, NEW c, NEW day
  PROVE  /\ IsFiniteSet(CappedRows(c, day)) /\ IsFiniteSet(Counted(c, day))
         /\ Cardinality(Counted(c, day)) \in Nat
  <1>1. CappedRows(c, day) \subseteq Used /\ Counted(c, day) \subseteq CappedRows(c, day)
    BY DEF CappedRows, Counted, Rows, IsRow, Used
  <1>2. IsFiniteSet(Counted(c, day)) /\ IsFiniteSet(CappedRows(c, day))
    BY <1>1, FS_Subset DEF NoticesInv
  <1> QED  BY <1>2, FS_CardinalityType

LEMMA ProduceRow ==
  ASSUME TypeInv, NEW d \in Dispatcher, Produce(d)
  PROVE  /\ disp' = [disp EXCEPT ![d] = disp'[d]] /\ DispOK(d, disp'[d])
         /\ disp'[d].op # "enqueue" /\ disp'[d].budget = NoDay
  <1> USE DEF TypeInv, DispInv
  <1> now \in Nat
    BY NotificationsAssumption DEF DataInv
  <1>1. CASE SweepStart(d)
    <2> DEFINE ks == {c \in Kid : kids[c] \in {"ACTIVE", "PAUSED"}}
               ac == {c \in Kid : kids[c] = "ACTIVE"}
               row == [IdleDispatch EXCEPT !.op = "evaluate", !.at = now, !.billed = FALSE,
                                           !.kids = ks, !.active = ac]
    <2>1. d \in Sweeper /\ disp' = [disp EXCEPT ![d] = row]
      BY <1>1 DEF SweepStart
    <2>2. ks \subseteq Kid /\ ac \subseteq Kid
      OBVIOUS
    <2> HIDE DEF ks, ac
    <2>3. row \in Dispatch
      <3>1. [IdleDispatch EXCEPT !.op = "evaluate", !.at = now] \in Dispatch
        BY ConstantsAre DEF Dispatch
      <3> DEFINE g == [IdleDispatch EXCEPT !.op = "evaluate", !.at = now]
      <3>2. row = [g EXCEPT !.billed = FALSE, !.kids = ks, !.active = ac]
        BY ConstantsAre DEF Dispatch
      <3> HIDE DEF g, row
      <3> QED  BY <3>1, <3>2, <2>2 DEF Dispatch, g
    <2>4. row.budget = NoDay /\ row.op = "evaluate" /\ row.uncapped = {} /\ row.capped = {}
      BY DEF IdleDispatch
    <2> HIDE DEF row
    <2>5. DispOK(d, row)
      BY <2>1, <2>3, <2>4 DEF DispOK, LoopOK
    <2> QED  BY <2>1, <2>4, <2>5
  <1>2. CASE \E c \in Kid, s, g \in BOOLEAN : SessionEvent(d, c, s, g)
    <2>1. PICK c \in Kid, s \in BOOLEAN, g \in BOOLEAN : SessionEvent(d, c, s, g)
      BY <1>2
    <2> DEFINE u == IF s THEN {StruggleAlert(c)} ELSE {}
               k == IF g THEN {GoalReached(c)} ELSE {}
               row == [IdleDispatch EXCEPT !.op = "dispatch", !.at = now,
                                           !.uncapped = u, !.capped = k]
    <2>2. disp' = [disp EXCEPT ![d] = row]
      BY <2>1 DEF SessionEvent
    <2>3. /\ StruggleAlert(c) \in Intent /\ StruggleAlert(c).counts = FALSE
          /\ GoalReached(c) \in Intent /\ GoalReached(c).counts = TRUE
          /\ GoalReached(c).kid = c /\ GoalReached(c).to = "PARENT"
          /\ GoalReached(c).type = "REWARD_REDEEMED"
      BY NoticeTypes DEF StruggleAlert, GoalReached, Notice
    <2>4. /\ u \subseteq Intent /\ k \subseteq Intent
          /\ \A i \in u : ~i.counts
          /\ \A i \in k : i.counts /\ i.kid = c /\ i.to = "PARENT" /\ i.type = "REWARD_REDEEMED"
      BY <2>3
    <2> HIDE DEF u, k
    <2>5. row \in Dispatch
      <3>1. [IdleDispatch EXCEPT !.op = "dispatch", !.at = now] \in Dispatch
        BY ConstantsAre DEF Dispatch
      <3> DEFINE g2 == [IdleDispatch EXCEPT !.op = "dispatch", !.at = now]
      <3>2. row = [g2 EXCEPT !.uncapped = u, !.capped = k]
        BY ConstantsAre DEF Dispatch
      <3> HIDE DEF g2, row
      <3> QED  BY <3>1, <3>2, <2>4 DEF Dispatch, g2
    <2>6. /\ row.budget = NoDay /\ row.op = "dispatch" /\ row.uncapped = u /\ row.capped = k
          /\ row.kids = {} /\ row.billed
      BY DEF IdleDispatch
    <2> HIDE DEF row
    <2>7. DispOK(d, row)
      BY <2>4, <2>5, <2>6 DEF DispOK, LoopOK
    <2> QED  BY <2>2, <2>6, <2>7
  <1> QED  BY <1>1, <1>2 DEF Produce

LEMMA EvaluateRow ==
  ASSUME TypeInv, NEW d \in Dispatcher,
         (\E c \in Kid : Evaluate(d, c)) \/ BillingNotices(d)
  PROVE  /\ disp' = [disp EXCEPT ![d] = disp'[d]] /\ DispOK(d, disp'[d])
         /\ disp'[d].op # "enqueue" /\ disp'[d].budget = NoDay
  <1> USE DEF TypeInv
  <1> DEFINE l == disp[d]
  <1>1. l \in Dispatch /\ DispOK(d, l)
    BY DEF DispInv
  <1>2. ASSUME NEW c \in Kid, Evaluate(d, c)
        PROVE  \E m : Continue(d, m) /\ LoopOK(d, m) /\ m.budget = NoDay
    <2> DEFINE s == EvaluateChild(c, cfg[c], c \notin l.active)
               u == {i \in s : ~i.counts}
               k == {i \in s : i.counts}
               ks == l.kids \ {c}
               m == [l EXCEPT !.kids = ks, !.uncapped = u, !.capped = k]
    <2>1. Continue(d, m) /\ l.op = "evaluate"
      BY <1>2 DEF Evaluate
    <2>2. /\ u \subseteq Intent /\ k \subseteq Intent
          /\ \A i \in u : ~i.counts
          /\ \A i \in k : i.counts /\ i.kid = c /\ i.to = "CHILD"
      BY EvaluatedAre
    <2>3. d \in Sweeper /\ l.budget = NoDay /\ ks \subseteq Kid
      BY <1>1, <2>1 DEF DispOK, Dispatch
    <2> HIDE DEF u, k, ks
    <2>4. m \in Dispatch
      <3> DEFINE g == [l EXCEPT !.kids = ks, !.uncapped = u]
      <3>1. g \in Dispatch /\ m = [g EXCEPT !.capped = k]
        BY <1>1, <2>2, <2>3 DEF Dispatch
      <3> HIDE DEF g, m
      <3> QED  BY <3>1, <2>2 DEF Dispatch
    <2>5. m.budget = NoDay /\ m.uncapped = u /\ m.capped = k
      BY <1>1, <2>3 DEF Dispatch
    <2> HIDE DEF m
    <2>6. LoopOK(d, m)
      BY <2>2, <2>3, <2>4, <2>5 DEF LoopOK
    <2> QED  BY <2>1, <2>5, <2>6
  <1>3. ASSUME BillingNotices(d)
        PROVE  \E m : Continue(d, m) /\ LoopOK(d, m) /\ m.budget = NoDay
    <2> DEFINE u == IF Billed THEN {BillingNotice} ELSE {}
               m == [l EXCEPT !.billed = TRUE, !.uncapped = u]
    <2>1. Continue(d, m) /\ l.op = "evaluate"
      BY <1>3 DEF BillingNotices
    <2>2. u \subseteq Intent /\ \A i \in u : ~i.counts
      <3>1. BillingNotice \in Intent /\ BillingNotice.counts = FALSE
        BY NoticeTypes DEF BillingNotice, Notice
      <3> QED  BY <3>1
    <2>3. d \in Sweeper /\ l.budget = NoDay /\ LoopOK(d, l)
      BY <1>1, <2>1 DEF DispOK
    <2> HIDE DEF u
    <2>4. m \in Dispatch
      BY <1>1, <2>2 DEF Dispatch
    <2>5. m.budget = NoDay /\ m.uncapped = u /\ m.capped = l.capped
      BY <1>1, <2>3 DEF Dispatch
    <2> HIDE DEF m
    <2>6. LoopOK(d, m)
      BY <2>2, <2>3, <2>4, <2>5 DEF LoopOK
    <2> QED  BY <2>1, <2>5, <2>6
  <1> QED  BY <1>2, <1>3, ContinueRow

\* What an action of buildAndDispatch leaves its dispatcher with.
LEMMA PersistUncappedRow ==
  ASSUME TypeInv, NEW d \in Dispatcher, NEW n \in NoticeId, NEW i, PersistUncapped(d, n, i)
  PROVE  /\ disp' = [disp EXCEPT ![d] = disp'[d]] /\ DispOK(d, disp'[d])
         /\ disp'[d].op = "enqueue" /\ disp'[d].notice = n
         /\ disp'[d].channels = ChannelsOf(notices'[n].intent.to)
         /\ disp'[d].budget = disp[d].budget /\ disp'[d].at = disp[d].at
         /\ disp'[d].capped = disp[d].capped
         /\ i \in Intent /\ ~i.counts
  <1> DEFINE l == disp[d]
             u == [l EXCEPT !.uncapped = @ \ {i}]
  <1>1. EnqueueFor(d, n, u) /\ i \in l.uncapped
    BY DEF PersistUncapped
  <1>2. l \in Dispatch /\ LoopOK(d, l)
    BY DEF TypeInv, DispInv, DispOK
  <1>3. LoopOK(d, u) /\ u.capped = l.capped /\ u.budget = l.budget /\ u.at = l.at
    BY LeftOK DEF TypeInv
  <1>4. i \in Intent /\ ~i.counts
    BY <1>1, <1>2 DEF LoopOK, Dispatch
  <1> HIDE DEF u
  <1> QED  BY <1>1, <1>3, <1>4, EnqueueRow DEF TypeInv

\* The intent at hand.
LEMMA NextCappedIs ==
  ASSUME TypeInv, NEW d \in Dispatcher, disp[d].capped # {}
  PROVE  LET i == NextCapped(d) IN
         /\ i \in disp[d].capped /\ i \in Intent /\ i.counts /\ i.kid \in Kid
         /\ i.to = "CHILD" => d \in Sweeper
         /\ i.to = "PARENT" => i.type = "REWARD_REDEEMED"
         /\ \A j \in disp[d].capped : j.kid = i.kid
         /\ disp[d].at \in Nat /\ CapDay(disp[d].at) \in Nat
         /\ disp[d].budget \in Nat \cup {NoDay}
  <1>1. disp[d] \in Dispatch /\ LoopOK(d, disp[d])
    BY DEF TypeInv, DispInv, DispOK
  <1>2. NextCapped(d) \in disp[d].capped
    BY <1>1, FirstInRankIn DEF NextCapped, Dispatch
  <1> QED  BY <1>1, <1>2, CapDayNat DEF LoopOK, Dispatch

LEMMA CountRow ==
  ASSUME TypeInv, NEW d \in Dispatcher, CountToday(d)
  PROVE  LET used == Cardinality(Counted(NextCapped(d).kid, CapDay(disp[d].at))) IN
         /\ disp[d].capped # {}
         /\ disp' = [disp EXCEPT ![d] = disp'[d]] /\ DispOK(d, disp'[d])
         /\ disp'[d].op # "enqueue" /\ disp'[d].at = disp[d].at
         /\ disp'[d].capped = disp[d].capped
         /\ used \in Nat /\ disp'[d].budget = IF used < Cap THEN Cap - used ELSE 0
  <1> DEFINE l == disp[d]
             used == Cardinality(Counted(NextCapped(d).kid, CapDay(disp[d].at)))
             b == IF used < Cap THEN Cap - used ELSE 0
             row == [l EXCEPT !.budget = b]
  <1>1. l \in Dispatch /\ DispOK(d, l)
    BY DEF TypeInv, DispInv
  <1>2. used \in Nat
    BY CountedFinite DEF TypeInv
  <1>3. l.capped # {} /\ l.op = "dispatch" /\ disp' = [disp EXCEPT ![d] = row]
    BY <1>1 DEF CountToday, TypeInv, DispInv
  <1> HIDE DEF used
  <1>4. b \in Nat
    BY <1>2, NotificationsAssumption
  <1> HIDE DEF b
  <1>5. row \in Dispatch
    BY <1>1, <1>4 DEF Dispatch
  <1>6. /\ row.op = "dispatch" /\ row.at = l.at /\ row.capped = l.capped /\ row.budget = b
        /\ row.kids = l.kids /\ row.billed = l.billed /\ row.uncapped = l.uncapped
    BY <1>1, <1>3 DEF Dispatch
  <1> HIDE DEF row
  <1>7. DispOK(d, row)
    BY <1>1, <1>4, <1>5, <1>6 DEF DispOK, LoopOK
  <1>8. disp'[d] = row
    BY <1>3 DEF TypeInv, DispInv
  <1> QED  BY <1>2, <1>3, <1>6, <1>7, <1>8 DEF used, b

LEMMA PersistCappedRow ==
  ASSUME TypeInv, NEW d \in Dispatcher, NEW n \in NoticeId, PersistCapped(d, n)
  PROVE  LET i == NextCapped(d) IN
         /\ disp[d].capped # {} /\ disp[d].budget \in Nat \ {0}
         /\ disp' = [disp EXCEPT ![d] = disp'[d]] /\ DispOK(d, disp'[d])
         /\ disp'[d].op = "enqueue" /\ disp'[d].notice = n
         /\ disp'[d].channels = ChannelsOf(notices'[n].intent.to)
         /\ disp'[d].budget = disp[d].budget - 1 /\ disp'[d].at = disp[d].at
         /\ disp'[d].capped = disp[d].capped \ {i}
  <1> DEFINE l == disp[d]
             i == NextCapped(d)
             b == [l EXCEPT !.capped = @ \ {i}, !.budget = @ - 1]
  <1>1. EnqueueFor(d, n, b) /\ l.capped # {} /\ l.budget # NoDay /\ l.budget > 0
    BY DEF PersistCapped, AtCapped
  <1>2. l.budget \in Nat \ {0}
    BY <1>1, NextCappedIs
  <1>3. /\ LoopOK(d, b)
        /\ b.capped = l.capped \ {i} /\ b.budget = l.budget - 1 /\ b.at = l.at
    BY <1>2, LeftOK DEF TypeInv
  <1> HIDE DEF b
  <1> QED  BY <1>1, <1>2, <1>3, EnqueueRow DEF TypeInv

LEMMA PassedRow ==
  ASSUME TypeInv, NEW d \in Dispatcher,
         SkipDuplicate(d) \/ \E n \in NoticeId : Suppress(d, n)
  PROVE  LET i == NextCapped(d) IN
         /\ disp[d].capped # {}
         /\ disp' = [disp EXCEPT ![d] = disp'[d]] /\ DispOK(d, disp'[d])
         /\ disp'[d].op # "enqueue"
         /\ disp'[d].budget # NoDay =>
              /\ disp'[d].budget = disp[d].budget /\ disp'[d].at = disp[d].at
              /\ disp'[d].capped = disp[d].capped \ {i}
  <1> DEFINE l == disp[d]
             i == NextCapped(d)
             c == [l EXCEPT !.capped = @ \ {i}]
  <1>1. Continue(d, c) /\ l.capped # {}
    BY DEF SkipDuplicate, Suppress, AtCapped
  <1>2. LoopOK(d, c) /\ c.capped = l.capped \ {i} /\ c.budget = l.budget /\ c.at = l.at
    BY LeftOK DEF TypeInv
  <1> HIDE DEF c
  <1> QED  BY <1>1, <1>2, ContinueRow DEF TypeInv

\* The channel the job of which is enqueued.
NextChannel(d) == IF "PUSH" \in disp[d].channels THEN "PUSH" ELSE "EMAIL"

LEMMA EnqueueJobRow ==
  ASSUME TypeInv, NEW d \in Dispatcher, Enqueue(d)
  PROVE  LET n == disp[d].notice  c == NextChannel(d) IN
         /\ disp[d].op = "enqueue" /\ n \in NoticeId /\ c \in Channel /\ c \in disp[d].channels
         /\ jobs' = [jobs EXCEPT ![n][c] = Queued]
         /\ disp' = [disp EXCEPT ![d] = disp'[d]] /\ DispOK(d, disp'[d])
         /\ disp'[d].op = "enqueue" => /\ disp'[d].notice = n
                                       /\ disp'[d].channels = disp[d].channels \ {c}
         /\ disp'[d].budget # NoDay =>
              /\ disp'[d].budget = disp[d].budget /\ disp'[d].at = disp[d].at
              /\ disp'[d].capped = disp[d].capped
  <1> DEFINE l == disp[d]
             c == NextChannel(d)
             rest == l.channels \ {c}
             m == [l EXCEPT !.channels = rest]
  <1>1. l \in Dispatch /\ DispOK(d, l) /\ l.op = "enqueue"
    BY DEF TypeInv, DispInv, Enqueue
  <1>2. l.notice \in NoticeId /\ c \in Channel /\ c \in l.channels
    <2>1. l.notice \in NoticeId /\ l.channels # {} /\ l.channels \subseteq {"PUSH", "EMAIL"}
      BY <1>1 DEF DispOK, Dispatch, Channel
    <2> QED  BY <2>1 DEF NextChannel, Channel
  <1>3. /\ m \in Dispatch /\ LoopOK(d, m) /\ m.op = "enqueue" /\ m.notice = l.notice
        /\ m.channels = rest
        /\ m.budget = l.budget /\ m.at = l.at /\ m.capped = l.capped
    <2>1. rest \subseteq Channel
      BY <1>1 DEF Dispatch
    <2> HIDE DEF rest
    <2>2. m \in Dispatch /\ m.uncapped = l.uncapped /\ m.kids = l.kids /\ m.billed = l.billed
      BY <1>1, <2>1 DEF Dispatch
    <2>3. /\ m.op = "enqueue" /\ m.notice = l.notice /\ m.channels = rest
          /\ m.budget = l.budget /\ m.at = l.at /\ m.capped = l.capped
      BY <1>1 DEF Dispatch
    <2> HIDE DEF m
    <2> QED  BY <1>1, <2>2, <2>3 DEF DispOK, LoopOK
  <1>4. /\ jobs' = [jobs EXCEPT ![l.notice][c] = Queued]
        /\ IF rest = {} THEN Continue(d, m) ELSE disp' = [disp EXCEPT ![d].channels = rest]
    BY DEF Enqueue, NextChannel
  <1>5. CASE rest = {}
    <2> HIDE DEF m, rest, c
    <2> QED  BY <1>1, <1>2, <1>3, <1>4, <1>5, ContinueRow DEF TypeInv, c
  <1>6. CASE rest # {}
    <2>1. disp' = [disp EXCEPT ![d] = m]
      BY <1>4, <1>6 DEF TypeInv, DispInv
    <2> HIDE DEF m, rest, c
    <2>2. DispOK(d, m)
      BY <1>2, <1>3, <1>6 DEF DispOK
    <2>3. disp'[d] = m
      BY <2>1 DEF TypeInv, DispInv
    <2> QED  BY <1>1, <1>2, <1>3, <1>4, <2>1, <2>2, <2>3 DEF c, rest
  <1> QED  BY <1>5, <1>6

\* A step writes one dispatcher, or none.
DispActions(d) ==
  \/ Produce(d)
  \/ (\E c \in Kid : Evaluate(d, c)) \/ BillingNotices(d)
  \/ \E n \in NoticeId : \E i : PersistUncapped(d, n, i)
  \/ CountToday(d)
  \/ \E n \in NoticeId : PersistCapped(d, n)
  \/ SkipDuplicate(d) \/ \E n \in NoticeId : Suppress(d, n)
  \/ Enqueue(d)
  \/ StopDispatch(d)

LEMMA DispSteps ==
  ASSUME Next
  PROVE  (\E d \in Dispatcher : DispActions(d)) \/ UNCHANGED disp
  <1>1. ASSUME NEW d \in Dispatcher, Produce(d) \/ DispatchStep(d) \/ StopDispatch(d)
        PROVE  DispActions(d)
    BY <1>1 DEF DispActions, DispatchStep
  <1>2. ASSUME NEW w \in Worker, TakeJob(w) \/ DeliverStep(w) \/ Fail(w) PROVE UNCHANGED disp
    BY <1>2 DEF TakeJob, TakeMissing, TakeSent, Take, DeliverStep, ReadTokens, Send, MarkSent,
                Fail, FailAfter
  <1>3. ASSUME (\E n \in NoticeId : MarkDeadLettered(n)) \/ CrashWorkers \/ Request \/ Tick
        PROVE  UNCHANGED disp
    BY <1>3 DEF MarkDeadLettered, CrashWorkers, Request, DeregisterToken, RegisterToken,
                MarkNotificationRead, MarkAllNotificationsRead, UpdateReminder, PurgeChild,
                ChildChanges, Tick
  <1> QED  BY <1>1, <1>2, <1>3 DEF Next

LEMMA DispRow ==
  ASSUME TypeInv, NEW d \in Dispatcher, DispActions(d)
  PROVE  disp' = [disp EXCEPT ![d] = disp'[d]] /\ DispOK(d, disp'[d])
  <1>1. ASSUME StopDispatch(d)
        PROVE  disp' = [disp EXCEPT ![d] = disp'[d]] /\ DispOK(d, disp'[d])
    <2>1. disp' = [disp EXCEPT ![d] = IdleDispatch]
      BY <1>1 DEF StopDispatch
    <2> QED  BY <2>1, ConstantsAre DEF TypeInv, DispInv
  <1> QED  BY <1>1, ProduceRow, EvaluateRow, PersistUncappedRow, CountRow, PersistCappedRow,
              PassedRow, EnqueueJobRow DEF DispActions

LEMMA DispNext == TypeInv /\ [Next]_vars => DispInv'
  <1> SUFFICES ASSUME TypeInv, [Next]_vars PROVE DispInv'
    OBVIOUS
  <1>1. CASE UNCHANGED disp
    BY <1>1 DEF TypeInv, DispInv
  <1>2. ASSUME NEW d \in Dispatcher, DispActions(d) PROVE DispInv'
    <2>1. disp' = [disp EXCEPT ![d] = disp'[d]] /\ DispOK(d, disp'[d])
      BY <1>2, DispRow
    <2> QED  BY <2>1 DEF TypeInv, DispInv, DispOK, LoopOK
  <1> QED  BY <1>1, <1>2, DispSteps DEF vars

-------------------------------------------------------------------------------
(* Steps of a worker. *)

WorkActions(w) == TakeJob(w) \/ DeliverStep(w) \/ Fail(w)

LEMMA WorkSteps ==
  ASSUME Next
  PROVE  (\E w \in Worker : WorkActions(w)) \/ CrashWorkers \/ UNCHANGED work
  <1>1. ASSUME NEW d \in Dispatcher, Produce(d) \/ DispatchStep(d) \/ StopDispatch(d)
        PROVE  UNCHANGED work
    BY <1>1 DEF Produce, SweepStart, SessionEvent, DispatchStep, Evaluate, BillingNotices,
                CountToday, Enqueue, PersistUncapped, PersistCapped, Suppress, SkipDuplicate,
                StopDispatch
  <1>2. ASSUME (\E n \in NoticeId : MarkDeadLettered(n)) \/ Request \/ Tick
        PROVE  UNCHANGED work
    BY <1>2 DEF MarkDeadLettered, Request, DeregisterToken, RegisterToken,
                MarkNotificationRead, MarkAllNotificationsRead, UpdateReminder, PurgeChild,
                ChildChanges, Tick
  <1> QED  BY <1>1, <1>2 DEF Next, WorkActions

\* A worker takes a waiting job, keeps it while it delivers, or is free again.
LEMMA WorkRow ==
  ASSUME TypeInv, NEW w \in Worker, WorkActions(w)
  PROVE  /\ work' = [work EXCEPT ![w] = work'[w]] /\ WorkOK(work'[w])
         /\ \/ work'[w].op = "idle"
            \/ /\ work[w].op # "idle" /\ work'[w].notice = work[w].notice
               /\ work'[w].channel = work[w].channel /\ UNCHANGED jobs
            \/ /\ \E n \in NoticeId, c \in Channel : Take(w, n, c)
               /\ jobs[work'[w].notice][work'[w].channel].state = "waiting"
               /\ jobs'[work'[w].notice][work'[w].channel].state = "active"
  <1> DEFINE l == work[w]
             m == work'[w]
  <1> USE DEF TypeInv
  <1>1. l \in Delivery /\ WorkOK(l)
    BY DEF WorkInv
  <1>2. CASE TakeJob(w)
    <2>1. PICK n \in NoticeId, c \in Channel :
            TakeMissing(w, n, c) \/ TakeSent(w, n, c) \/ Take(w, n, c)
      BY <1>2 DEF TakeJob
    <2>2. CASE TakeMissing(w, n, c) \/ TakeSent(w, n, c)
      <3>1. UNCHANGED work /\ l.op = "idle"
        BY <2>2 DEF TakeMissing, TakeSent
      <3> QED  BY <3>1, <1>1 DEF WorkInv
    <2>3. CASE Take(w, n, c)
      <3> DEFINE row == [op |-> IF c = "EMAIL" THEN "send" ELSE "tokens", notice |-> n,
                         channel |-> c, targets |-> {}]
      <3>1. /\ work' = [work EXCEPT ![w] = row] /\ jobs[n][c].state = "waiting"
            /\ jobs' = [jobs EXCEPT ![n][c] = [state |-> "active", tries |-> @.tries + 1]]
        BY <2>3 DEF Take, Step
      <3>2. row \in Delivery /\ row.notice = n /\ row.channel = c
        BY DEF Delivery
      <3>3. jobs'[n][c].state = "active"
        BY <3>1 DEF JobsInv
      <3> HIDE DEF row
      <3> QED  BY <2>3, <3>1, <3>2, <3>3 DEF WorkInv, WorkOK
    <2> QED  BY <2>1, <2>2, <2>3
  <1>3. CASE ReadTokens(w)
    <2> DEFINE t == TargetsOf(l.notice)
               o == IF t = {} THEN "mark" ELSE "send"
               row == [l EXCEPT !.op = o, !.targets = t]
    <2>1. work' = [work EXCEPT ![w] = row] /\ l.op = "tokens" /\ UNCHANGED jobs
      BY <1>3 DEF ReadTokens, Step
    <2>2. t \subseteq Token
      BY DEF TargetsOf
    <2> HIDE DEF t
    <2>3. o \in {"mark", "send"}
      OBVIOUS
    <2> HIDE DEF o
    <2>4. row \in Delivery /\ row.notice = l.notice /\ row.channel = l.channel
      BY <1>1, <2>2, <2>3 DEF Delivery
    <2> HIDE DEF row
    <2> QED  BY <1>1, <2>1, <2>4 DEF WorkInv, WorkOK
  <1>4. ASSUME NEW invalid \in SUBSET Token, Send(w, invalid)
        PROVE  /\ work' = [work EXCEPT ![w] = work'[w]] /\ WorkOK(m) /\ l.op # "idle"
               /\ m.notice = l.notice /\ m.channel = l.channel /\ UNCHANGED jobs
    <2> DEFINE row == [l EXCEPT !.op = "mark", !.targets = {}]
    <2>1. work' = [work EXCEPT ![w] = row] /\ l.op = "send" /\ UNCHANGED jobs
      BY <1>4 DEF Send, Step
    <2>2. row \in Delivery /\ row.notice = l.notice /\ row.channel = l.channel
      BY <1>1 DEF Delivery
    <2> HIDE DEF row
    <2> QED  BY <1>1, <2>1, <2>2 DEF WorkInv, WorkOK
  <1>5. CASE MarkSent(w) \/ Fail(w)
    <2>1. work' = [work EXCEPT ![w] = IdleDelivery]
      BY <1>5 DEF MarkSent, Fail, FailAfter, Step
    <2> QED  BY <2>1, ConstantsAre DEF WorkInv, IdleDelivery
  <1> QED  BY <1>2, <1>3, <1>4, <1>5 DEF WorkActions, DeliverStep

LEMMA WorkNext == TypeInv /\ [Next]_vars => WorkInv'
  <1> SUFFICES ASSUME TypeInv, [Next]_vars PROVE WorkInv'
    OBVIOUS
  <1>1. CASE UNCHANGED work
    BY <1>1 DEF TypeInv, WorkInv
  <1>2. ASSUME NEW w \in Worker, WorkActions(w) PROVE WorkInv'
    <2>1. work' = [work EXCEPT ![w] = work'[w]] /\ WorkOK(work'[w])
      BY <1>2, WorkRow
    <2> QED  BY <2>1 DEF TypeInv, WorkInv, WorkOK
  <1>3. CASE CrashWorkers
    BY <1>3, ConstantsAre DEF CrashWorkers, WorkInv
  <1> QED  BY <1>1, <1>2, <1>3, WorkSteps DEF vars

-------------------------------------------------------------------------------
(* Steps of a job. *)

JobActions(w) == TakeJob(w) \/ MarkSent(w) \/ Fail(w)

LEMMA JobSteps ==
  ASSUME Next
  PROVE  \/ \E d \in Dispatcher : Enqueue(d)
         \/ \E w \in Worker : JobActions(w)
         \/ CrashWorkers
         \/ UNCHANGED jobs
  <1>1. ASSUME NEW d \in Dispatcher, Produce(d) \/ DispatchStep(d) \/ StopDispatch(d)
        PROVE  Enqueue(d) \/ UNCHANGED jobs
    BY <1>1 DEF Produce, SweepStart, SessionEvent, DispatchStep, Evaluate, BillingNotices,
                CountToday, PersistUncapped, PersistCapped, Suppress, SkipDuplicate,
                StopDispatch
  <1>2. ASSUME NEW w \in Worker, TakeJob(w) \/ DeliverStep(w) \/ Fail(w)
        PROVE  JobActions(w) \/ UNCHANGED jobs
    BY <1>2 DEF JobActions, DeliverStep, ReadTokens, Send
  <1>3. ASSUME (\E n \in NoticeId : MarkDeadLettered(n)) \/ Request \/ Tick
        PROVE  UNCHANGED jobs
    BY <1>3 DEF MarkDeadLettered, Request, DeregisterToken, RegisterToken,
                MarkNotificationRead, MarkAllNotificationsRead, UpdateReminder, PurgeChild,
                ChildChanges, Tick
  <1> QED  BY <1>1, <1>2, <1>3 DEF Next

\* The job of a row and channel goes from waiting to active, or out of the queue, or back.
JobMoves(w, n, c) ==
  LET l == work[w]  from == jobs[n][c]  to == jobs'[n][c]  free == work'[w].op = "idle" IN
  \/ /\ from.state = "waiting" /\ l.op = "idle" /\ UNCHANGED <<work, notices, doomed>>
     /\ \/ ~IsRow(n) /\ to.state = "failed"
        \/ IsRow(n) /\ notices[n].status = "SENT" /\ to.state = "done"
  \/ /\ from.state = "waiting" /\ l.op = "idle" /\ UNCHANGED <<notices, doomed>>
     /\ to.state = "active" /\ ~free /\ work'[w].notice = n /\ work'[w].channel = c
  \/ /\ l.op = "mark" /\ n = l.notice /\ c = l.channel /\ free /\ UNCHANGED doomed
     /\ to.state = "done" /\ IsRow(n)
     /\ notices' = [notices EXCEPT ![n].status = "SENT"]
  \/ /\ l.op # "idle" /\ n = l.notice /\ c = l.channel /\ free /\ UNCHANGED notices
     /\ \/ to.state = "waiting" /\ UNCHANGED doomed
        \/ to.state = "failed" /\ to.tries = Attempts /\ doomed' = doomed \cup {n}

LEMMA JobRow ==
  ASSUME TypeInv, NEW w \in Worker, JobActions(w)
  PROVE  \E n \in NoticeId, c \in Channel :
           /\ jobs' = [jobs EXCEPT ![n][c] = jobs'[n][c]] /\ JobOK(jobs'[n][c])
           /\ JobMoves(w, n, c)
  <1> DEFINE l == work[w]
  <1> USE DEF TypeInv
  <1>1. l \in Delivery /\ WorkOK(l)
    BY DEF WorkInv
  <1>2. ASSUME NEW n \in NoticeId, NEW c \in Channel
        PROVE  jobs[n][c] \in Job /\ JobOK(jobs[n][c])
    BY DEF JobsInv
  <1>3. ASSUME NEW n \in NoticeId, NEW c \in Channel, NEW s \in {"waiting", "done", "failed"},
               JobTo(n, c, s)
        PROVE  /\ jobs' = [jobs EXCEPT ![n][c] = jobs'[n][c]] /\ jobs'[n][c] \in Job
               /\ jobs'[n][c].state = s /\ jobs'[n][c].tries = jobs[n][c].tries
    <2>1. jobs' = [jobs EXCEPT ![n][c] = [jobs[n][c] EXCEPT !.state = s]]
      BY <1>3 DEF JobTo, JobsInv
    <2>2. jobs'[n][c] = [jobs[n][c] EXCEPT !.state = s]
      BY <2>1 DEF JobsInv
    <2>3. [jobs[n][c] EXCEPT !.state = s] = [state |-> s, tries |-> jobs[n][c].tries]
      BY <1>2 DEF Job
    <2>4. jobs[n][c].tries \in 0..Attempts
      BY <1>2 DEF Job
    <2>5. jobs'[n][c] \in Job /\ jobs'[n][c].state = s /\ jobs'[n][c].tries = jobs[n][c].tries
      BY <2>2, <2>3, <2>4 DEF Job
    <2> QED  BY <2>1, <2>2, <2>5
  <1>4. CASE TakeJob(w)
    <2>1. PICK n \in NoticeId, c \in Channel :
            TakeMissing(w, n, c) \/ TakeSent(w, n, c) \/ Take(w, n, c)
      BY <1>4 DEF TakeJob
    <2>2. CASE TakeMissing(w, n, c)
      <3>1. JobTo(n, c, "failed") /\ JobMoves(w, n, c)
        BY <2>2, <1>3 DEF TakeMissing, JobMoves
      <3> QED  BY <3>1, <1>3 DEF JobOK
    <2>3. CASE TakeSent(w, n, c)
      <3>1. JobTo(n, c, "done") /\ JobMoves(w, n, c)
        BY <2>3, <1>3 DEF TakeSent, JobMoves
      <3> QED  BY <3>1, <1>3 DEF JobOK
    <2>4. CASE Take(w, n, c)
      <3> DEFINE j == [state |-> "active", tries |-> jobs[n][c].tries + 1]
                 row == [op |-> IF c = "EMAIL" THEN "send" ELSE "tokens", notice |-> n,
                         channel |-> c, targets |-> {}]
      <3>1. jobs' = [jobs EXCEPT ![n][c] = j] /\ jobs[n][c].state = "waiting"
        BY <2>4 DEF Take, JobsInv
      <3>2. jobs[n][c].tries \in 0..Attempts /\ jobs[n][c].tries < Attempts
        BY <1>2, <3>1 DEF JobOK, Job
      <3>3. jobs'[n][c] = j
        BY <3>1 DEF JobsInv
      <3>4. j \in Job /\ JobOK(j)
        BY <3>2, NotificationsAssumption DEF Job, JobOK
      <3>5. work'[w] = row /\ row.op # "idle" /\ row.notice = n /\ row.channel = c
        BY <2>4 DEF Take, Step, WorkInv
      <3>6. JobMoves(w, n, c)
        <4> HIDE DEF row
        <4> QED  BY <2>4, <3>3, <3>5 DEF Take, JobMoves
      <3> QED  BY <3>1, <3>3, <3>4, <3>6
    <2> QED  BY <2>1, <2>2, <2>3, <2>4
  <1>5. CASE MarkSent(w)
    <2>1. /\ l.notice \in NoticeId /\ l.channel \in Channel /\ work'[w].op = "idle"
          /\ JobTo(l.notice, l.channel, "done")
      BY <1>1, <1>5 DEF MarkSent, IsRow, Step, Delivery, WorkInv, IdleDelivery
    <2>2. JobMoves(w, l.notice, l.channel)
      BY <1>5, <2>1, <1>3 DEF MarkSent, JobMoves
    <2> QED  BY <2>1, <2>2, <1>3 DEF JobOK
  <1>6. CASE Fail(w)
    <2> DEFINE n == l.notice
               c == l.channel
               exhausted == jobs[n][c].tries >= Attempts
    <2>1. n \in NoticeId /\ c \in Channel /\ work'[w].op = "idle" /\ l.op # "idle"
      BY <1>1, <1>6 DEF Fail, FailAfter, Step, Delivery, WorkOK, WorkInv, IdleDelivery
    <2>2. /\ JobTo(n, c, IF exhausted THEN "failed" ELSE "waiting")
          /\ doomed' = IF exhausted THEN doomed \cup {n} ELSE doomed
          /\ UNCHANGED notices
      BY <1>6 DEF Fail, FailAfter
    <2>3. jobs[n][c].tries \in 0..Attempts
      BY <2>1, <1>2 DEF Job
    <2>4. CASE exhausted
      <3>0. jobs[n][c].tries = Attempts
        BY <2>3, <2>4, NotificationsAssumption
      <3>1. JobTo(n, c, "failed") /\ jobs[n][c].tries = Attempts
        BY <2>2, <2>4, <3>0
      <3>2. JobMoves(w, n, c)
        BY <2>1, <2>2, <2>4, <3>1, <1>3 DEF JobMoves
      <3>3. /\ jobs' = [jobs EXCEPT ![n][c] = jobs'[n][c]] /\ jobs'[n][c] \in Job
            /\ jobs'[n][c].state = "failed"
        BY <2>1, <3>1, <1>3
      <3>4. JobOK(jobs'[n][c])
        BY <3>3 DEF JobOK
      <3> QED  BY <2>1, <3>2, <3>3, <3>4
    <2>5. CASE ~exhausted
      <3>1. JobTo(n, c, "waiting") /\ jobs[n][c].tries < Attempts
        BY <2>2, <2>3, <2>5, NotificationsAssumption
      <3>2. JobMoves(w, n, c)
        BY <2>1, <2>2, <2>5, <3>1, <1>3 DEF JobMoves
      <3> QED  BY <2>1, <3>1, <3>2, <1>3 DEF JobOK
    <2> QED  BY <2>4, <2>5
  <1> QED  BY <1>4, <1>5, <1>6 DEF JobActions

LEMMA JobsNext == TypeInv /\ [Next]_vars => JobsInv'
  <1> SUFFICES ASSUME TypeInv, [Next]_vars PROVE JobsInv'
    OBVIOUS
  <1> USE DEF TypeInv, JobsInv
  <1>1. CASE UNCHANGED jobs
    BY <1>1
  <1>2. ASSUME NEW n \in NoticeId, NEW c \in Channel,
               jobs' = [jobs EXCEPT ![n][c] = jobs'[n][c]], JobOK(jobs'[n][c])
        PROVE  JobsInv'
    <2> DEFINE j == jobs'[n][c]
    <2>1. j \in Job /\ JobOK(j) /\ jobs' = [jobs EXCEPT ![n][c] = j]
      BY <1>2 DEF JobOK
    <2> HIDE DEF j
    <2>2. jobs' \in [NoticeId -> [Channel -> Job]]
      BY <2>1
    <2>3. \A m \in NoticeId, d \in Channel : jobs'[m][d] \in {j, jobs[m][d]}
      BY <2>1
    <2> QED  BY <2>1, <2>2, <2>3
  <1>3. ASSUME NEW d \in Dispatcher, Enqueue(d) PROVE JobsInv'
    <2>1. PICK n \in NoticeId, c \in Channel : jobs' = [jobs EXCEPT ![n][c] = Queued]
      BY <1>3, EnqueueJobRow
    <2> QED  BY <2>1, ConstantsAre
  <1>4. ASSUME NEW w \in Worker, JobActions(w) PROVE JobsInv'
    BY <1>2, <1>4, JobRow
  <1>5. CASE CrashWorkers
    <2>1. ASSUME NEW n \in NoticeId, NEW c \in Channel
          PROVE  jobs'[n][c] \in Job /\ JobOK(jobs'[n][c])
      <3>1. jobs[n][c] \in Job /\ JobOK(jobs[n][c])
        OBVIOUS
      <3>2. jobs'[n][c] = IF jobs[n][c].state = "active"
                          THEN [state |-> "waiting", tries |-> jobs[n][c].tries - 1]
                          ELSE jobs[n][c]
        BY <1>5 DEF CrashWorkers
      <3> QED  BY <3>1, <3>2, NotificationsAssumption DEF JobOK, Job
    <2> QED  BY <1>5, <2>1 DEF CrashWorkers
  <1> QED  BY <1>1, <1>3, <1>4, <1>5, JobSteps DEF vars

-------------------------------------------------------------------------------
(* Steps of a row. *)

\* No row changes in what it is about or in its status.
SameRows ==
  \A n \in NoticeId : /\ notices'[n].status = notices[n].status
                      /\ notices'[n].intent = notices[n].intent
                      /\ notices'[n].capDay = notices[n].capDay

Persists(d, n) ==
  (\E i : PersistUncapped(d, n, i)) \/ PersistCapped(d, n) \/ Suppress(d, n)

LEMMA NoticeSteps ==
  ASSUME Next
  PROVE  \/ \E d \in Dispatcher, n \in NoticeId : Persists(d, n)
         \/ \E w \in Worker : MarkSent(w) \/ \E invalid \in SUBSET Token : Send(w, invalid)
         \/ \E n \in NoticeId : MarkDeadLettered(n) \/ MarkNotificationRead(n)
         \/ MarkAllNotificationsRead
         \/ \E c \in Kid : PurgeChild(c)
         \/ UNCHANGED notices
  <1>1. ASSUME NEW d \in Dispatcher, Produce(d) \/ DispatchStep(d) \/ StopDispatch(d)
        PROVE  (\E n \in NoticeId : Persists(d, n)) \/ UNCHANGED notices
    BY <1>1 DEF Persists, Produce, SweepStart, SessionEvent, DispatchStep, Evaluate,
                BillingNotices, CountToday, Enqueue, SkipDuplicate, StopDispatch
  <1>2. ASSUME NEW w \in Worker, TakeJob(w) \/ DeliverStep(w) \/ Fail(w)
        PROVE  \/ MarkSent(w) \/ \E invalid \in SUBSET Token : Send(w, invalid)
               \/ UNCHANGED notices
    BY <1>2 DEF TakeJob, TakeMissing, TakeSent, Take, DeliverStep, ReadTokens, Fail, FailAfter
  <1>3. ASSUME Request
        PROVE  \/ \E n \in NoticeId : MarkNotificationRead(n)
               \/ MarkAllNotificationsRead
               \/ \E c \in Kid : PurgeChild(c)
               \/ UNCHANGED notices
    BY <1>3 DEF Request, DeregisterToken, RegisterToken, UpdateReminder, ChildChanges
  <1>4. CrashWorkers \/ Tick => UNCHANGED notices
    BY DEF CrashWorkers, Tick
  <1> QED  BY <1>1, <1>2, <1>3, <1>4 DEF Next

LEMMA SendRow ==
  ASSUME TypeInv, NEW w \in Worker, NEW invalid \in SUBSET Token, Send(w, invalid)
  PROVE  NoticesInv' /\ SameRows
  <1> DEFINE l == work[w]
             n == l.notice
             via == notices[n].via \cup {l.channel}
             row == [notices[n] EXCEPT !.via = via]
  <1> USE DEF TypeInv
  <1>1. n \in NoticeId /\ l.channel \in Channel
    BY DEF Send, WorkInv, WorkOK, Delivery
  <1>2. notices[n] \in NoticeRow /\ NoticeOK(notices[n])
    BY <1>1 DEF NoticesInv
  <1>3. via \in SUBSET Channel
    BY <1>1, <1>2 DEF NoticeRow
  <1>4. notices' = [notices EXCEPT ![n] = row]
    BY <1>1 DEF Send, NoticesInv
  <1> HIDE DEF via
  <1>5. /\ row \in NoticeRow /\ row.status = notices[n].status
        /\ row.intent = notices[n].intent /\ row.capDay = notices[n].capDay
    BY <1>2, <1>3 DEF NoticeRow
  <1> HIDE DEF row
  <1>6. NoticeOK(row)
    BY <1>2, <1>5 DEF NoticeOK
  <1>7. SameRows
    BY <1>4, <1>5 DEF SameRows, NoticesInv
  <1>8. Used' = Used
    BY <1>7 DEF Used, SameRows
  <1> QED  BY <1>4, <1>5, <1>6, <1>7, <1>8 DEF NoticesInv

LEMMA ReadRow ==
  ASSUME TypeInv,
         (\E n \in NoticeId : MarkNotificationRead(n)) \/ MarkAllNotificationsRead
  PROVE  NoticesInv' /\ SameRows
  <1> USE DEF TypeInv
  <1>1. /\ notices' \in [NoticeId -> NoticeRow]
        /\ \A m \in NoticeId : \/ notices'[m] = notices[m]
                               \/ notices'[m] = [notices[m] EXCEPT !.read = TRUE]
    <2>1. \A m \in NoticeId : [notices[m] EXCEPT !.read = TRUE] \in NoticeRow
      BY DEF NoticesInv, NoticeRow
    <2>2. ASSUME NEW n \in NoticeId, MarkNotificationRead(n)
          PROVE  notices' = [notices EXCEPT ![n] = [notices[n] EXCEPT !.read = TRUE]]
      BY <2>2 DEF MarkNotificationRead, NoticesInv
    <2>3. CASE \E n \in NoticeId : MarkNotificationRead(n)
      BY <2>1, <2>2, <2>3 DEF NoticesInv
    <2>4. CASE MarkAllNotificationsRead
      BY <2>1, <2>4 DEF MarkAllNotificationsRead, NoticesInv
    <2> QED  BY <2>3, <2>4
  <1>2. SameRows
    BY <1>1 DEF SameRows, NoticesInv, NoticeRow
  <1>3. \A m \in NoticeId : NoticeOK(notices'[m])
    BY <1>1, <1>2 DEF SameRows, NoticesInv, NoticeOK
  <1>4. Used' = Used
    BY <1>2 DEF Used, SameRows
  <1> QED  BY <1>1, <1>2, <1>3, <1>4 DEF NoticesInv

LEMMA CreateRow ==
  ASSUME TypeInv, NEW n \in NoticeId, NEW i \in Intent, NEW day \in Nat \cup {NoDay},
         NEW s \in {"PENDING", "SUPPRESSED"}, Create(n, i, day, s),
         i.counts /\ i.to = "PARENT" => i.type = "REWARD_REDEEMED"
  PROVE  /\ notices[n].status = "none" /\ notices' = [notices EXCEPT ![n] = notices'[n]]
         /\ notices'[n].status = s /\ notices'[n].intent = i /\ notices'[n].capDay = day
         /\ NoticesInv'
  <1> DEFINE row == [NoRow EXCEPT !.status = s, !.intent = i, !.capDay = day]
  <1> USE DEF TypeInv
  <1>1. notices[n].status = "none"
    BY ConstantsAre DEF Create, IsNextId
  <1>2. notices' = [notices EXCEPT ![n] = row]
    BY DEF Create
  <1>3. row \in NoticeRow /\ row.status = s /\ row.intent = i /\ row.capDay = day
    <2>1. day \in Int
      BY DEF NoDay
    <2>2. [NoRow EXCEPT !.status = s] \in NoticeRow
      BY ConstantsAre DEF NoticeRow
    <2> DEFINE g == [NoRow EXCEPT !.status = s]
    <2>3. row = [g EXCEPT !.intent = i, !.capDay = day] /\ g.status = s
      BY ConstantsAre DEF NoticeRow
    <2> HIDE DEF g, row
    <2> QED  BY <2>1, <2>2, <2>3 DEF NoticeRow, g
  <1> HIDE DEF row
  <1>4. NoticeOK(row)
    BY <1>3 DEF NoticeOK
  <1>5. notices'[n] = row
    BY <1>2 DEF NoticesInv
  <1>6. Used' = Used \cup {n}
    BY <1>2, <1>3 DEF NoticesInv, Used
  <1>7. IsFiniteSet(Used')
    BY <1>6, FS_AddElement DEF NoticesInv
  <1> QED  BY <1>1, <1>2, <1>3, <1>4, <1>5, <1>7 DEF NoticesInv

LEMMA PersistsRow ==
  ASSUME TypeInv, NEW d \in Dispatcher, NEW n \in NoticeId, Persists(d, n)
  PROVE  \E i \in Intent, day \in Nat \cup {NoDay}, s \in {"PENDING", "SUPPRESSED"} :
           /\ notices[n].status = "none" /\ notices' = [notices EXCEPT ![n] = notices'[n]]
           /\ notices'[n].status = s /\ notices'[n].intent = i /\ notices'[n].capDay = day
           /\ NoticesInv'
           /\ \/ ~i.counts /\ s = "PENDING" /\ day = NoDay /\ \E j : PersistUncapped(d, n, j)
              \/ /\ i = NextCapped(d) /\ day = CapDay(disp[d].at) /\ AtCapped(d)
                 /\ ~Collides(i, day)
                 /\ \/ PersistCapped(d, n) /\ s = "PENDING"
                    \/ Suppress(d, n) /\ s = "SUPPRESSED"
  <1>1. ASSUME NEW i, PersistUncapped(d, n, i)
        PROVE  /\ i \in Intent /\ ~i.counts /\ notices[n].status = "none"
               /\ notices' = [notices EXCEPT ![n] = notices'[n]]
               /\ notices'[n].status = "PENDING" /\ notices'[n].intent = i
               /\ notices'[n].capDay = NoDay /\ NoticesInv'
    <2>1. i \in Intent /\ ~i.counts /\ Create(n, i, NoDay, "PENDING")
      BY <1>1, PersistUncappedRow DEF PersistUncapped
    <2> QED  BY <2>1, CreateRow
  <1>2. ASSUME PersistCapped(d, n) \/ Suppress(d, n),
               NEW s \in {"PENDING", "SUPPRESSED"},
               Create(n, NextCapped(d), CapDay(disp[d].at), s)
        PROVE  LET i == NextCapped(d)  day == CapDay(disp[d].at) IN
               /\ i \in Intent /\ day \in Nat /\ notices[n].status = "none"
               /\ notices' = [notices EXCEPT ![n] = notices'[n]]
               /\ notices'[n].status = s /\ notices'[n].intent = i
               /\ notices'[n].capDay = day /\ NoticesInv'
               /\ AtCapped(d) /\ ~Collides(i, day)
    <2>1. AtCapped(d) /\ ~DuplicateToday(d)
      BY <1>2 DEF PersistCapped, Suppress
    <2>2. /\ NextCapped(d) \in Intent /\ CapDay(disp[d].at) \in Nat
          /\ NextCapped(d).to = "PARENT" => NextCapped(d).type = "REWARD_REDEEMED"
      BY <2>1, NextCappedIs DEF AtCapped
    <2> QED  BY <1>2, <2>1, <2>2, CreateRow DEF DuplicateToday
  <1>3. PersistCapped(d, n) => Create(n, NextCapped(d), CapDay(disp[d].at), "PENDING")
    BY DEF PersistCapped
  <1>4. Suppress(d, n) => Create(n, NextCapped(d), CapDay(disp[d].at), "SUPPRESSED")
    BY DEF Suppress
  <1> QED  BY <1>1, <1>2, <1>3, <1>4 DEF Persists

\* A row's status is written by id.
LEMMA StatusRow ==
  ASSUME TypeInv, NEW n \in NoticeId, NEW s \in {"SENT", "DEAD_LETTERED"}, IsRow(n),
         notices' = [notices EXCEPT ![n].status = s]
  PROVE  /\ notices' = [notices EXCEPT ![n] = notices'[n]]
         /\ notices'[n].status = s /\ notices'[n].intent = notices[n].intent
         /\ notices'[n].capDay = notices[n].capDay
         /\ NoticesInv'
  <1> DEFINE row == [notices[n] EXCEPT !.status = s]
  <1> USE DEF TypeInv
  <1>1. notices[n] \in NoticeRow /\ NoticeOK(notices[n])
    BY DEF NoticesInv
  <1>2. notices' = [notices EXCEPT ![n] = row]
    BY DEF NoticesInv
  <1>3. /\ row \in NoticeRow /\ row.status = s
        /\ row.intent = notices[n].intent /\ row.capDay = notices[n].capDay
    BY <1>1 DEF NoticeRow
  <1> HIDE DEF row
  <1>4. NoticeOK(row) /\ notices'[n] = row
    BY <1>1, <1>2, <1>3 DEF NoticeOK, NoticesInv
  <1>5. Used' = Used
    BY <1>2, <1>3 DEF NoticesInv, Used, IsRow
  <1> QED  BY <1>2, <1>3, <1>4, <1>5 DEF NoticesInv

LEMMA PurgeRow ==
  ASSUME TypeInv, NEW c \in Kid, PurgeChild(c)
  PROVE  /\ NoticesInv'
         /\ \A n \in NoticeId :
              IF IsRow(n) /\ notices[n].intent.kid = c
              THEN notices'[n].status = "gone" ELSE notices'[n] = notices[n]
  <1> DEFINE row == [NoRow EXCEPT !.status = "gone"]
  <1> USE DEF TypeInv
  <1>1. /\ row \in NoticeRow /\ row.status = "gone" /\ row.intent = NoRow.intent
        /\ row.capDay = NoRow.capDay
    BY ConstantsAre DEF NoticeRow
  <1>2. notices' = [n \in NoticeId |->
          IF IsRow(n) /\ notices[n].intent.kid = c THEN row ELSE notices[n]]
    BY DEF PurgeChild
  <1> HIDE DEF row
  <1>3. NoticeOK(row)
    BY <1>1, ConstantsAre DEF NoticeOK
  <1>4. Used' = Used
    BY <1>1, <1>2 DEF NoticesInv, Used, IsRow
  <1> QED  BY <1>1, <1>2, <1>3, <1>4 DEF NoticesInv

LEMMA NoticesNext == TypeInv /\ [Next]_vars => NoticesInv'
  <1> SUFFICES ASSUME TypeInv, [Next]_vars PROVE NoticesInv'
    OBVIOUS
  <1>1. CASE UNCHANGED notices
    BY <1>1 DEF TypeInv, NoticesInv, Used
  <1>2. ASSUME NEW w \in Worker, MarkSent(w) PROVE NoticesInv'
    <2>1. /\ work[w].notice \in NoticeId /\ IsRow(work[w].notice)
          /\ notices' = [notices EXCEPT ![work[w].notice].status = "SENT"]
      BY <1>2 DEF MarkSent, IsRow
    <2> QED  BY <2>1, StatusRow
  <1>3. ASSUME NEW n \in NoticeId, MarkDeadLettered(n) PROVE NoticesInv'
    <2>1. CASE IsRow(n)
      BY <1>3, <2>1, StatusRow DEF MarkDeadLettered
    <2> QED  BY <1>1, <1>3, <2>1 DEF MarkDeadLettered
  <1> QED  BY <1>1, <1>2, <1>3, NoticeSteps, PersistsRow, SendRow, ReadRow, PurgeRow DEF vars

-------------------------------------------------------------------------------
(* Type correctness. *)

LEMMA CountersNext ==
  TypeInv /\ [Next]_vars => /\ now' \in 0..MaxTime
                            /\ asked' \in 0..MaxAsked /\ faults' \in 0..MaxFault
  <1> SUFFICES ASSUME TypeInv, [Next]_vars
               PROVE  /\ now' \in 0..MaxTime
                      /\ asked' \in 0..MaxAsked /\ faults' \in 0..MaxFault
    OBVIOUS
  <1> USE DEF Ask, Fault
  <1>1. ASSUME NEW d \in Dispatcher, Produce(d) \/ DispatchStep(d) \/ StopDispatch(d)
        PROVE  /\ UNCHANGED now /\ (Ask \/ UNCHANGED asked) /\ (Fault \/ UNCHANGED faults)
    BY <1>1 DEF Produce, SweepStart, SessionEvent, DispatchStep, Evaluate, BillingNotices,
                CountToday, Enqueue, PersistUncapped, PersistCapped, Suppress, SkipDuplicate,
                StopDispatch
  <1>2. ASSUME NEW w \in Worker, TakeJob(w) \/ DeliverStep(w) \/ Fail(w)
        PROVE  /\ UNCHANGED now /\ (Ask \/ UNCHANGED asked) /\ (Fault \/ UNCHANGED faults)
    BY <1>2 DEF TakeJob, TakeMissing, TakeSent, Take, DeliverStep, ReadTokens, Send, MarkSent,
                Fail, FailAfter
  <1>3. Request => UNCHANGED <<now, faults>> /\ (Ask \/ UNCHANGED asked)
    BY DEF Request, DeregisterToken, RegisterToken, MarkNotificationRead,
           MarkAllNotificationsRead, UpdateReminder, PurgeChild, ChildChanges
  <1>4. (\E n \in NoticeId : MarkDeadLettered(n)) \/ CrashWorkers
           => UNCHANGED <<now, asked>> /\ (Fault \/ UNCHANGED faults)
    BY DEF MarkDeadLettered, CrashWorkers
  <1>5. CASE Tick
    BY <1>5, NotificationsAssumption DEF TypeInv, DataInv, Tick
  <1>6. CASE UNCHANGED vars
    BY <1>6 DEF TypeInv, DataInv, vars
  <1>7. CASE UNCHANGED now /\ (Ask \/ UNCHANGED asked) /\ (Fault \/ UNCHANGED faults)
    BY <1>7, NotificationsAssumption DEF TypeInv, DataInv
  <1> QED  BY <1>1, <1>2, <1>3, <1>4, <1>5, <1>6, <1>7 DEF Next

LEMMA DoomedNext == TypeInv /\ [Next]_vars => doomed' \subseteq NoticeId
  <1> SUFFICES ASSUME TypeInv, [Next]_vars PROVE doomed' \subseteq NoticeId
    OBVIOUS
  <1>1. ASSUME NEW d \in Dispatcher, Produce(d) \/ DispatchStep(d) \/ StopDispatch(d)
        PROVE  UNCHANGED doomed
    BY <1>1 DEF Produce, SweepStart, SessionEvent, DispatchStep, Evaluate, BillingNotices,
                CountToday, Enqueue, PersistUncapped, PersistCapped, Suppress, SkipDuplicate,
                StopDispatch
  <1>2. ASSUME NEW w \in Worker, TakeJob(w) \/ DeliverStep(w)
        PROVE  UNCHANGED doomed
    BY <1>2 DEF TakeJob, TakeMissing, TakeSent, Take, DeliverStep, ReadTokens, Send, MarkSent
  <1>3. ASSUME NEW w \in Worker, Fail(w)
        PROVE  doomed' \subseteq NoticeId
    <2>1. work[w].notice \in NoticeId
      BY <1>3 DEF Fail, FailAfter, TypeInv, WorkInv, WorkOK
    <2> QED  BY <1>3, <2>1 DEF Fail, FailAfter, TypeInv, DataInv
  <1>4. Request \/ Tick => UNCHANGED doomed
    BY DEF Request, DeregisterToken, RegisterToken, MarkNotificationRead,
           MarkAllNotificationsRead, UpdateReminder, PurgeChild, ChildChanges, Tick
  <1>5. (\E n \in NoticeId : MarkDeadLettered(n)) \/ CrashWorkers => doomed' \subseteq doomed
    BY DEF MarkDeadLettered, CrashWorkers
  <1>6. doomed \subseteq NoticeId
    BY DEF TypeInv, DataInv
  <1> QED  BY <1>1, <1>2, <1>3, <1>4, <1>5, <1>6 DEF Next, vars

LEMMA DevicesNext ==
  TypeInv /\ [Next]_vars => /\ kids' \in [Kid -> KidStatus]
                            /\ cfg' \in [Kid -> [ReminderType -> ConfigRow]]
                            /\ tokens' \in [Token -> TokenRow]
  <1> SUFFICES ASSUME TypeInv, [Next]_vars
               PROVE  /\ kids' \in [Kid -> KidStatus]
                      /\ cfg' \in [Kid -> [ReminderType -> ConfigRow]]
                      /\ tokens' \in [Token -> TokenRow]
    OBVIOUS
  <1> USE DEF TypeInv, DataInv
  <1>0. CASE UNCHANGED <<kids, cfg, tokens>>
    BY <1>0
  <1>1. ASSUME NEW d \in Dispatcher, Produce(d) \/ DispatchStep(d) \/ StopDispatch(d)
        PROVE  UNCHANGED <<kids, cfg, tokens>>
    BY <1>1 DEF Produce, SweepStart, SessionEvent, DispatchStep, Evaluate, BillingNotices,
                CountToday, Enqueue, PersistUncapped, PersistCapped, Suppress, SkipDuplicate,
                StopDispatch
  <1>2. ASSUME NEW w \in Worker, TakeJob(w) \/ ReadTokens(w) \/ MarkSent(w) \/ Fail(w)
        PROVE  UNCHANGED <<kids, cfg, tokens>>
    BY <1>2 DEF TakeJob, TakeMissing, TakeSent, Take, ReadTokens, MarkSent, Fail, FailAfter
  <1>3. (\E n \in NoticeId : MarkDeadLettered(n)) \/ CrashWorkers \/ Tick
           => UNCHANGED <<kids, cfg, tokens>>
    BY DEF MarkDeadLettered, CrashWorkers, Tick
  <1>4. ASSUME NEW w \in Worker, NEW invalid \in SUBSET Token, Send(w, invalid)
        PROVE  UNCHANGED <<kids, cfg>> /\ tokens' \in [Token -> TokenRow]
    <2>1. \A k \in Token : [tokens[k] EXCEPT !.disabled = TRUE] \in TokenRow
      BY DEF TokenRow
    <2> QED  BY <1>4, <2>1 DEF Send
  <1>5. ASSUME NEW k \in Token,
               DeregisterToken(k) \/ \E o \in Kid \cup {NoKid} : RegisterToken(k, o)
        PROVE  UNCHANGED <<kids, cfg>> /\ tokens' \in [Token -> TokenRow]
    <2>1. CASE DeregisterToken(k)
      BY <2>1, ConstantsAre DEF DeregisterToken
    <2>2. ASSUME NEW o \in Kid \cup {NoKid}, RegisterToken(k, o)
          PROVE  UNCHANGED <<kids, cfg>> /\ tokens' \in [Token -> TokenRow]
      <3>1. [there |-> TRUE, owner |-> o, disabled |-> FALSE] \in TokenRow
        BY DEF TokenRow
      <3> QED  BY <2>2, <3>1 DEF RegisterToken
    <2> QED  BY <1>5, <2>1, <2>2
  <1>6. (\E n \in NoticeId : MarkNotificationRead(n)) \/ MarkAllNotificationsRead
           => UNCHANGED <<kids, cfg, tokens>>
    BY DEF MarkNotificationRead, MarkAllNotificationsRead
  <1>7. ASSUME NEW t \in Edited, NEW e \in BOOLEAN, UpdateReminder(t, e)
        PROVE  UNCHANGED <<kids, tokens>> /\ cfg' \in [Kid -> [ReminderType -> ConfigRow]]
    <2> DEFINE row(c) == [there |-> TRUE, enabled |-> e,
                          recipient |-> IF cfg[c][t].there THEN cfg[c][t].recipient
                                        ELSE DefaultRecipient[t]]
    <2>1. DefaultRecipient[t] \in Recipient
      BY NotificationsAssumption DEF DefaultRecipient, Recipient
    <2>2. \A c \in Kid : row(c) \in ConfigRow
      BY <2>1, NotificationsAssumption DEF ConfigRow
    <2>3. ASSUME NEW c \in Kid PROVE [cfg[c] EXCEPT ![t] = row(c)] \in [ReminderType -> ConfigRow]
      BY <2>2
    <2>4. cfg' = [c \in Kid |-> IF kids[c] \in {"DELETED", "GONE"} THEN cfg[c]
                                ELSE [cfg[c] EXCEPT ![t] = row(c)]]
      BY <1>7, NotificationsAssumption DEF UpdateReminder
    <2>5. UNCHANGED <<kids, tokens>>
      BY <1>7 DEF UpdateReminder
    <2> HIDE DEF row
    <2> QED  BY <2>3, <2>4, <2>5
  <1>8. ASSUME NEW c \in Kid, PurgeChild(c)
        PROVE  /\ kids' \in [Kid -> KidStatus]
               /\ cfg' \in [Kid -> [ReminderType -> ConfigRow]]
               /\ tokens' \in [Token -> TokenRow]
    <2>1. ASSUME NEW t \in ReminderType PROVE [cfg[c][t] EXCEPT !.there = FALSE] \in ConfigRow
      <3>1. cfg[c][t] \in ConfigRow
        OBVIOUS
      <3> QED  BY <3>1 DEF ConfigRow
    <2> DEFINE rows == [t \in ReminderType |-> [cfg[c][t] EXCEPT !.there = FALSE]]
    <2>2. rows \in [ReminderType -> ConfigRow]
      BY <2>1
    <2>3. cfg' = [cfg EXCEPT ![c] = rows]
      BY <1>8 DEF PurgeChild
    <2> HIDE DEF rows
    <2>4. cfg' \in [Kid -> [ReminderType -> ConfigRow]]
      BY <2>2, <2>3
    <2> QED  BY <1>8, <2>4, ConstantsAre DEF PurgeChild, KidStatus
  <1>9. ASSUME NEW c \in Kid, NEW s \in {"ACTIVE", "PAUSED", "DELETED"}, ChildChanges(c, s)
        PROVE  UNCHANGED <<cfg, tokens>> /\ kids' \in [Kid -> KidStatus]
    BY <1>9 DEF ChildChanges, KidStatus
  <1> QED  BY <1>0, <1>1, <1>2, <1>3, <1>4, <1>5, <1>6, <1>7, <1>8, <1>9
           DEF Next, DeliverStep, Request, vars

LEMMA TypeNext == TypeInv /\ [Next]_vars => TypeInv'
  BY DispNext, WorkNext, JobsNext, NoticesNext, CountersNext, DoomedNext, DevicesNext
  DEF TypeInv, DataInv

\* Every variable keeps its type: no job is tried more often than it may be, no dispatcher
\* loses the row it enqueues for.
THEOREM TypeCorrect == Spec => []TypeOK
  <1>1. TypeInv => TypeOK
    BY DEF TypeInv, DataInv, NoticesInv, JobsInv, DispInv, WorkInv, TypeOK
  <1> QED  BY <1>1, TypeInit, TypeNext, PTL DEF Spec

-------------------------------------------------------------------------------
(* What a row says follows from its jobs. *)

\* A row is created, sent or given up, or it goes; its contents stay.
Kept(m) ==
  notices'[m].intent = notices[m].intent /\ notices'[m].capDay = notices[m].capDay

RowMoves(m) ==
  \/ notices'[m].status = notices[m].status /\ Kept(m)
  \/ /\ notices[m].status = "none"
     /\ notices'[m].status \in {"PENDING", "SUPPRESSED"}
     /\ \E d \in Dispatcher : Persists(d, m)
  \/ /\ IsRow(m) /\ notices'[m].status = "SENT" /\ Kept(m)
     /\ \E w \in Worker : MarkSent(w) /\ work[w].notice = m
  \/ /\ IsRow(m) /\ notices'[m].status = "DEAD_LETTERED" /\ Kept(m) /\ m \in doomed
     /\ UNCHANGED jobs
  \/ /\ IsRow(m) /\ notices'[m].status = "gone"
     /\ \E c \in Kid : PurgeChild(c) /\ notices[m].intent.kid = c

LEMMA RowSteps ==
  ASSUME TypeInv, [Next]_vars, NEW m \in NoticeId
  PROVE  RowMoves(m)
  <1> USE DEF TypeInv, NoticesInv
  <1>1. CASE UNCHANGED notices
    BY <1>1 DEF RowMoves, Kept
  <1>2. CASE SameRows
    BY <1>2 DEF RowMoves, SameRows, Kept
  <1>3. ASSUME NEW d \in Dispatcher, NEW n \in NoticeId, Persists(d, n) PROVE RowMoves(m)
    <2>1. /\ notices[n].status = "none" /\ notices'[n].status \in {"PENDING", "SUPPRESSED"}
          /\ notices' = [notices EXCEPT ![n] = notices'[n]]
      BY <1>3, PersistsRow
    <2> QED  BY <1>3, <2>1 DEF RowMoves, Kept
  <1>4. ASSUME NEW w \in Worker, MarkSent(w) PROVE RowMoves(m)
    <2> DEFINE n == work[w].notice
    <2>1. n \in NoticeId /\ IsRow(n) /\ notices' = [notices EXCEPT ![n].status = "SENT"]
      BY <1>4 DEF MarkSent, IsRow
    <2>2. /\ notices' = [notices EXCEPT ![n] = notices'[n]] /\ notices'[n].status = "SENT"
          /\ notices'[n].intent = notices[n].intent /\ notices'[n].capDay = notices[n].capDay
      BY <2>1, StatusRow
    <2>3. CASE m = n
      BY <1>4, <2>1, <2>2, <2>3 DEF RowMoves, Kept
    <2>4. CASE m # n
      BY <2>2, <2>4 DEF RowMoves, Kept
    <2> QED  BY <2>3, <2>4
  <1>5. ASSUME NEW n \in NoticeId, MarkDeadLettered(n) PROVE RowMoves(m)
    <2>1. CASE ~IsRow(n)
      BY <1>1, <1>5, <2>1 DEF MarkDeadLettered
    <2>2. CASE IsRow(n)
      <3>1. /\ notices' = [notices EXCEPT ![n] = notices'[n]]
            /\ notices'[n].status = "DEAD_LETTERED"
            /\ notices'[n].intent = notices[n].intent /\ notices'[n].capDay = notices[n].capDay
            /\ n \in doomed /\ UNCHANGED jobs
        BY <1>5, <2>2, StatusRow DEF MarkDeadLettered
      <3> QED  BY <2>2, <3>1 DEF RowMoves, Kept
    <2> QED  BY <2>1, <2>2
  <1>6. ASSUME NEW c \in Kid, PurgeChild(c) PROVE RowMoves(m)
    BY <1>6, PurgeRow DEF RowMoves, Kept
  <1> QED  BY <1>1, <1>2, <1>3, <1>4, <1>5, <1>6, NoticeSteps, SendRow, ReadRow DEF vars

\* A job is enqueued or moves with its worker, or all the active ones go back.
JobChanges(m, k) ==
  \/ jobs'[m][k] = jobs[m][k]
  \/ /\ jobs'[m][k] = Queued
     /\ \E d \in Dispatcher : Enqueue(d) /\ disp[d].notice = m /\ NextChannel(d) = k
  \/ \E w \in Worker : JobActions(w) /\ JobMoves(w, m, k)
  \/ CrashWorkers /\ jobs[m][k].state = "active" /\ jobs'[m][k].state = "waiting"

LEMMA JobChangesIs ==
  ASSUME TypeInv, [Next]_vars, NEW m \in NoticeId, NEW k \in Channel
  PROVE  JobChanges(m, k)
  <1> USE DEF TypeInv, JobsInv
  <1>1. CASE UNCHANGED jobs
    BY <1>1 DEF JobChanges
  <1>2. ASSUME NEW d \in Dispatcher, Enqueue(d) PROVE JobChanges(m, k)
    <2>1. /\ disp[d].notice \in NoticeId /\ NextChannel(d) \in Channel
          /\ jobs' = [jobs EXCEPT ![disp[d].notice][NextChannel(d)] = Queued]
      BY <1>2, EnqueueJobRow
    <2> QED  BY <1>2, <2>1 DEF JobChanges
  <1>3. ASSUME NEW w \in Worker, JobActions(w) PROVE JobChanges(m, k)
    <2>1. PICK n \in NoticeId, c \in Channel :
            jobs' = [jobs EXCEPT ![n][c] = jobs'[n][c]] /\ JobMoves(w, n, c)
      BY <1>3, JobRow
    <2>2. CASE m = n /\ k = c
      BY <1>3, <2>1, <2>2 DEF JobChanges
    <2>3. CASE ~(m = n /\ k = c)
      BY <2>1, <2>3 DEF JobChanges
    <2> QED  BY <2>2, <2>3
  <1>4. CASE CrashWorkers
    BY <1>4 DEF CrashWorkers, JobChanges
  <1> QED  BY <1>1, <1>2, <1>3, <1>4, JobSteps DEF vars

\* A job is enqueued once, for a row that is to be delivered, and never for the mail of a
\* child.
QueueInv ==
  /\ \A n \in NoticeId : notices[n].status \in {"none", "SUPPRESSED"} =>
       \A c \in Channel : jobs[n][c].state = "none"
  /\ \A n \in Rows : notices[n].intent.to = "CHILD" => jobs[n]["EMAIL"].state = "none"
  /\ \A d \in Dispatcher : disp[d].op = "enqueue" =>
       /\ notices[disp[d].notice].status \notin {"none", "SUPPRESSED"}
       /\ \A c \in disp[d].channels : jobs[disp[d].notice][c].state = "none"
       /\ IsRow(disp[d].notice) /\ notices[disp[d].notice].intent.to = "CHILD"
            => "EMAIL" \notin disp[d].channels
  /\ \A d, e \in Dispatcher :
       /\ disp[d].op = "enqueue" /\ disp[e].op = "enqueue" /\ disp[d].notice = disp[e].notice
       => d = e

\* A worker has a job of its own.
OwnJobInv ==
  /\ \A w \in Worker : work[w].op # "idle" =>
       jobs[work[w].notice][work[w].channel].state = "active"
  /\ \A w, x \in Worker :
       /\ work[w].op # "idle" /\ work[x].op # "idle"
       /\ work[w].notice = work[x].notice /\ work[w].channel = work[x].channel
       => w = x

\* A job that has failed with all its attempts made, of a row that is not delivered for it.
GivenUp(n, c) == jobs[n][c].state = "failed" /\ jobs[n][c].tries = Attempts

MarkInv ==
  /\ \A n \in doomed : \E c \in Channel : GivenUp(n, c)
  /\ \A n \in Rows :
       /\ (\E c \in Channel : jobs[n][c].state = "done")
            => notices[n].status \in {"SENT", "DEAD_LETTERED"}
       /\ notices[n].status = "DEAD_LETTERED" => \E c \in Channel : GivenUp(n, c)

DeliveryInv == TypeInv /\ QueueInv /\ OwnJobInv /\ MarkInv

LEMMA DeliveryInit == Init => DeliveryInv
  <1> SUFFICES ASSUME Init PROVE DeliveryInv
    OBVIOUS
  <1>1. \A n \in NoticeId, c \in Channel : jobs[n][c].state = "none"
    BY DEF Init, NoJob
  <1>2. Rows = {} /\ doomed = {}
    BY DEF Init, Rows, IsRow, NoRow
  <1>3. /\ \A d \in Dispatcher : disp[d].op = "idle"
        /\ \A w \in Worker : work[w].op = "idle"
    BY DEF Init, IdleDispatch, IdleDelivery
  <1> QED  BY <1>1, <1>2, <1>3, TypeInit DEF DeliveryInv, QueueInv, OwnJobInv, MarkInv

\* A job that has come out of the queue stays so; a new one was not there before.
LEMMA JobsFrom ==
  ASSUME DeliveryInv, [Next]_vars, NEW m \in NoticeId, NEW k \in Channel
  PROVE  /\ jobs'[m][k].state # "none" =>
              \/ jobs[m][k].state # "none"
              \/ \E d \in Dispatcher : Enqueue(d) /\ disp[d].notice = m /\ NextChannel(d) = k
         /\ jobs[m][k].state \in {"done", "failed"} => jobs'[m][k] = jobs[m][k]
  <1>1. JobChanges(m, k)
    BY JobChangesIs DEF DeliveryInv
  <1>2. ASSUME NEW d \in Dispatcher, Enqueue(d), disp[d].notice = m, NextChannel(d) = k
        PROVE  jobs[m][k].state = "none"
    BY <1>2, EnqueueJobRow DEF DeliveryInv, QueueInv
  <1>3. ASSUME NEW w \in Worker, JobMoves(w, m, k)
        PROVE  jobs[m][k].state \in {"waiting", "active"}
    BY <1>3 DEF JobMoves, DeliveryInv, OwnJobInv
  <1> QED  BY <1>1, <1>2, <1>3 DEF JobChanges

LEMMA MarkNext == DeliveryInv /\ [Next]_vars => MarkInv'
  <1> SUFFICES ASSUME DeliveryInv, [Next]_vars PROVE MarkInv'
    OBVIOUS
  <1> USE DEF DeliveryInv
  <1>1. ASSUME NEW n \in NoticeId, NEW c \in Channel, GivenUp(n, c) PROVE GivenUp(n, c)'
    BY <1>1, JobsFrom DEF GivenUp
  <1>2. doomed' \subseteq doomed \/ \E w \in Worker : Fail(w)
    <2>1. ASSUME NEW d \in Dispatcher, Produce(d) \/ DispatchStep(d) \/ StopDispatch(d)
          PROVE  UNCHANGED doomed
      BY <2>1 DEF Produce, SweepStart, SessionEvent, DispatchStep, Evaluate, BillingNotices,
                  CountToday, Enqueue, PersistUncapped, PersistCapped, Suppress, SkipDuplicate,
                  StopDispatch
    <2>2. ASSUME NEW w \in Worker, TakeJob(w) \/ DeliverStep(w)
          PROVE  UNCHANGED doomed
      BY <2>2 DEF TakeJob, TakeMissing, TakeSent, Take, DeliverStep, ReadTokens, Send, MarkSent
    <2>3. Request \/ Tick => UNCHANGED doomed
      BY DEF Request, DeregisterToken, RegisterToken, MarkNotificationRead,
             MarkAllNotificationsRead, UpdateReminder, PurgeChild, ChildChanges, Tick
    <2>4. (\E n \in NoticeId : MarkDeadLettered(n)) \/ CrashWorkers => doomed' \subseteq doomed
      BY DEF MarkDeadLettered, CrashWorkers
    <2> QED  BY <2>1, <2>2, <2>3, <2>4 DEF Next, vars
  <1>3. ASSUME NEW n \in doomed' PROVE \E c \in Channel : GivenUp(n, c)'
    <2>1. CASE n \in doomed
      <3>1. n \in NoticeId
        BY <2>1 DEF TypeInv, DataInv
      <3> QED  BY <1>1, <2>1, <3>1 DEF MarkInv
    <2>2. CASE n \notin doomed
      <3>1. PICK w \in Worker : Fail(w)
        BY <1>2, <2>2
      <3>2. PICK m \in NoticeId, c \in Channel : JobMoves(w, m, c)
        BY <3>1, JobRow DEF JobActions
      <3>3. doomed' = doomed \cup {m} /\ GivenUp(m, c)'
        BY <2>2, <3>2 DEF JobMoves, GivenUp
      <3> QED  BY <2>2, <3>3
    <2> QED  BY <2>1, <2>2
  <1>4. ASSUME NEW n \in NoticeId, IsRow(n)'
        PROVE  /\ (\E c \in Channel : jobs'[n][c].state = "done")
                    => notices'[n].status \in {"SENT", "DEAD_LETTERED"}
               /\ notices'[n].status = "DEAD_LETTERED" => \E c \in Channel : GivenUp(n, c)'
    <2>1. RowMoves(n)
      BY RowSteps
    <2>2. ASSUME NEW c \in Channel, jobs'[n][c].state = "done"
          PROVE  notices'[n].status \in {"SENT", "DEAD_LETTERED"}
      <3>1. CASE jobs[n][c].state = "done"
        <4>1. notices[n].status \notin {"none", "SUPPRESSED"}
          BY <3>1 DEF QueueInv
        <4>2. IsRow(n)
          BY <1>4, <2>1, <4>1 DEF RowMoves, IsRow
        <4>3. notices[n].status \in {"SENT", "DEAD_LETTERED"}
          BY <3>1, <4>2 DEF MarkInv, Rows
        <4> QED  BY <1>4, <2>1, <4>3 DEF RowMoves, IsRow
      <3>2. CASE jobs[n][c].state # "done"
        <4>1. PICK w \in Worker : JobMoves(w, n, c)
          BY <2>2, <3>2, JobChangesIs DEF JobChanges, Queued
        <4>2. \/ UNCHANGED notices /\ notices[n].status = "SENT"
              \/ notices' = [notices EXCEPT ![n].status = "SENT"]
          BY <2>2, <4>1 DEF JobMoves
        <4> QED  BY <4>2 DEF TypeInv, NoticesInv, NoticeRow
      <3> QED  BY <3>1, <3>2
    <2>3. ASSUME notices'[n].status = "DEAD_LETTERED" PROVE \E c \in Channel : GivenUp(n, c)'
      <3>1. CASE notices[n].status = "DEAD_LETTERED"
        <4>1. n \in Rows
          BY <3>1 DEF Rows, IsRow
        <4> QED  BY <1>1, <3>1, <4>1 DEF MarkInv
      <3>2. CASE notices[n].status # "DEAD_LETTERED"
        <4>1. n \in doomed
          BY <2>1, <2>3, <3>2 DEF RowMoves
        <4> QED  BY <1>1, <4>1 DEF MarkInv
      <3> QED  BY <3>1, <3>2
    <2> QED  BY <2>2, <2>3
  <1>5. Rows' = {n \in NoticeId : IsRow(n)'}
    BY DEF Rows
  <1> QED  BY <1>3, <1>4, <1>5 DEF MarkInv

LEMMA OwnJobNext == DeliveryInv /\ [Next]_vars => OwnJobInv'
  <1> SUFFICES ASSUME DeliveryInv, [Next]_vars PROVE OwnJobInv'
    OBVIOUS
  <1> USE DEF DeliveryInv
  <1> DEFINE Busy(w) == work[w].op # "idle"
  <1>1. ASSUME NEW w \in Worker, work'[w] = work[w], Busy(w)
        PROVE  jobs'[work[w].notice][work[w].channel].state = "active" \/ CrashWorkers
    <2> DEFINE n == work[w].notice
               c == work[w].channel
    <2>1. n \in NoticeId /\ c \in Channel
      BY <1>1 DEF TypeInv, WorkInv, WorkOK, Delivery
    <2>2. jobs[n][c].state = "active"
      BY <1>1 DEF OwnJobInv
    <2>3. ASSUME NEW d \in Dispatcher, Enqueue(d), disp[d].notice = n, NextChannel(d) = c
          PROVE  FALSE
      BY <2>2, <2>3, EnqueueJobRow DEF QueueInv
    <2>4. ASSUME NEW x \in Worker, JobMoves(x, n, c) PROVE FALSE
      <3>1. work[x].op # "idle" /\ n = work[x].notice /\ c = work[x].channel
              /\ work'[x].op = "idle"
        BY <2>2, <2>4 DEF JobMoves
      <3>2. x = w
        BY <1>1, <3>1 DEF OwnJobInv
      <3> QED  BY <1>1, <3>1, <3>2
    <2> QED  BY <2>1, <2>2, <2>3, <2>4, JobChangesIs DEF JobChanges
  <1>2. CASE UNCHANGED work /\ ~CrashWorkers
    BY <1>1, <1>2 DEF OwnJobInv
  <1>3. CASE CrashWorkers
    BY <1>3 DEF CrashWorkers, OwnJobInv, IdleDelivery
  <1>4. ASSUME NEW x \in Worker, WorkActions(x), ~CrashWorkers PROVE OwnJobInv'
    <2>1. /\ work' = [work EXCEPT ![x] = work'[x]]
          /\ \/ work'[x].op = "idle"
             \/ /\ work[x].op # "idle" /\ work'[x].notice = work[x].notice
                /\ work'[x].channel = work[x].channel /\ UNCHANGED jobs
             \/ /\ jobs[work'[x].notice][work'[x].channel].state = "waiting"
                /\ jobs'[work'[x].notice][work'[x].channel].state = "active"
      BY <1>4, WorkRow
    <2>2. \A w \in Worker : w # x => work'[w] = work[w]
      BY <2>1 DEF TypeInv, WorkInv
    <2>3. ASSUME NEW w \in Worker, work'[w].op # "idle"
          PROVE  jobs'[work'[w].notice][work'[w].channel].state = "active"
      <3>1. CASE w # x
        BY <1>1, <1>4, <2>2, <2>3, <3>1
      <3>2. CASE w = x
        BY <2>1, <2>3, <3>2 DEF OwnJobInv
      <3> QED  BY <3>1, <3>2
    <2>4. ASSUME NEW w \in Worker, w # x, work'[w].op # "idle", work'[x].op # "idle",
                 work'[w].notice = work'[x].notice, work'[w].channel = work'[x].channel
          PROVE  FALSE
      <3>1. jobs[work[w].notice][work[w].channel].state = "active"
        BY <2>2, <2>4 DEF OwnJobInv
      <3> QED  BY <2>1, <2>2, <2>4, <3>1 DEF OwnJobInv
    <2>5. ASSUME NEW w \in Worker, NEW y \in Worker, w # x, y # x,
                 work'[w].op # "idle", work'[y].op # "idle",
                 work'[w].notice = work'[y].notice, work'[w].channel = work'[y].channel
          PROVE  w = y
      BY <2>2, <2>5 DEF OwnJobInv
    <2> QED  BY <2>3, <2>4, <2>5 DEF OwnJobInv
  <1>5. (\E w \in Worker : WorkActions(w)) \/ CrashWorkers \/ UNCHANGED work
    BY WorkSteps DEF vars
  <1> QED  BY <1>2, <1>3, <1>4, <1>5

\* A dispatcher that enqueues has just created its row, or did so before.
LEMMA EnqueueingFrom ==
  ASSUME DeliveryInv, [Next]_vars, NEW d \in Dispatcher, disp'[d].op = "enqueue"
  PROVE  LET n == disp'[d].notice IN
         /\ n \in NoticeId
         /\ \/ /\ disp[d].op = "enqueue" /\ disp[d].notice = n
               /\ disp'[d].channels \subseteq disp[d].channels
               /\ Enqueue(d) => NextChannel(d) \notin disp'[d].channels
            \/ /\ notices[n].status = "none" /\ notices'[n].status = "PENDING"
               /\ disp'[d].channels = ChannelsOf(notices'[n].intent.to)
               /\ \A e \in Dispatcher : e # d => disp'[e] = disp[e]
  <1> DEFINE n == disp'[d].notice
  <1> USE DEF DeliveryInv
  <1>1. Enqueue(d) => NextChannel(d) \notin disp'[d].channels
    BY EnqueueJobRow
  <1>2. CASE disp'[d] = disp[d]
    BY <1>1, <1>2 DEF TypeInv, DispInv, DispOK
  <1>3. ASSUME NEW e \in Dispatcher, DispActions(e), e # d PROVE disp'[d] = disp[d]
    <2>1. disp' = [disp EXCEPT ![e] = disp'[e]]
      BY <1>3, DispRow
    <2> QED  BY <1>3, <2>1 DEF TypeInv, DispInv
  <1>4. CASE DispActions(d)
    <2>1. /\ disp' = [disp EXCEPT ![d] = disp'[d]] /\ n \in NoticeId
          /\ \A e \in Dispatcher : e # d => disp'[e] = disp[e]
      BY <1>4, DispRow DEF TypeInv, DispInv, DispOK
    <2>2. CASE Enqueue(d)
      BY <1>1, <2>1, <2>2, EnqueueJobRow
    <2>3. ASSUME NEW m \in NoticeId, PersistCapped(d, m) \/ \E i : PersistUncapped(d, m, i)
          PROVE  /\ n = m /\ notices[n].status = "none" /\ notices'[n].status = "PENDING"
                 /\ disp'[d].channels = ChannelsOf(notices'[n].intent.to)
      <3>1. n = m /\ disp'[d].channels = ChannelsOf(notices'[m].intent.to)
        BY <2>3, PersistCappedRow, PersistUncappedRow
      <3>2. notices[m].status = "none"
        BY <2>3, PersistsRow DEF Persists
      <3>3. \E i, day : Create(m, i, day, "PENDING")
        BY <2>3 DEF PersistCapped, PersistUncapped
      <3>4. notices'[m].status = "PENDING"
        BY <3>3 DEF Create, TypeInv, NoticesInv, NoRow
      <3> QED  BY <3>1, <3>2, <3>4
    <2>4. ~(Produce(d) \/ (\E c \in Kid : Evaluate(d, c)) \/ BillingNotices(d) \/ CountToday(d)
            \/ SkipDuplicate(d) \/ \E m \in NoticeId : Suppress(d, m))
      BY ProduceRow, EvaluateRow, CountRow, PassedRow
    <2>5. ~StopDispatch(d)
      BY DEF StopDispatch, TypeInv, DispInv, IdleDispatch
    <2> QED  BY <1>4, <2>1, <2>2, <2>3, <2>4, <2>5 DEF DispActions
  <1> QED  BY <1>2, <1>3, <1>4, DispSteps DEF vars

LEMMA QueueNext == DeliveryInv /\ [Next]_vars => QueueInv'
  <1> SUFFICES ASSUME DeliveryInv, [Next]_vars PROVE QueueInv'
    OBVIOUS
  <1> USE DEF DeliveryInv
  \* A job that was not there is enqueued for a row that is being enqueued.
  <1>1. ASSUME NEW n \in NoticeId, NEW c \in Channel, jobs[n][c].state = "none",
               jobs'[n][c].state # "none"
        PROVE  \E d \in Dispatcher :
                 /\ Enqueue(d) /\ disp[d].op = "enqueue" /\ disp[d].notice = n
                 /\ NextChannel(d) = c /\ c \in disp[d].channels
                 /\ notices[n].status \notin {"none", "SUPPRESSED"}
                 /\ IsRow(n) /\ notices[n].intent.to = "CHILD" => c # "EMAIL"
    <2>1. PICK d \in Dispatcher : Enqueue(d) /\ disp[d].notice = n /\ NextChannel(d) = c
      BY <1>1, JobsFrom
    <2>2. disp[d].op = "enqueue" /\ c \in disp[d].channels
      BY <2>1, EnqueueJobRow
    <2>3. /\ notices[n].status \notin {"none", "SUPPRESSED"}
          /\ IsRow(n) /\ notices[n].intent.to = "CHILD" => c # "EMAIL"
      BY <2>1, <2>2 DEF QueueInv
    <2> QED  BY <2>1, <2>2, <2>3
  <1>2. ASSUME NEW n \in NoticeId, notices'[n].status \in {"none", "SUPPRESSED"},
               NEW c \in Channel
        PROVE  jobs'[n][c].state = "none"
    <2>1. notices[n].status \in {"none", "SUPPRESSED"}
      BY <1>2, RowSteps DEF RowMoves
    <2> QED  BY <1>1, <2>1 DEF QueueInv
  <1>3. ASSUME NEW n \in NoticeId, IsRow(n)', notices'[n].intent.to = "CHILD"
        PROVE  jobs'[n]["EMAIL"].state = "none"
    <2> "EMAIL" \in Channel
      BY DEF Channel
    <2>1. RowMoves(n)
      BY RowSteps
    <2>2. CASE notices[n].status = "none"
      BY <1>1, <2>2 DEF QueueInv
    <2>3. CASE notices[n].status # "none"
      <3>1. IsRow(n) /\ notices[n].intent.to = "CHILD"
        BY <1>3, <2>1, <2>3 DEF RowMoves, IsRow, Kept
      <3> QED  BY <1>1, <3>1 DEF QueueInv, Rows
    <2> QED  BY <2>2, <2>3
  <1>4. ASSUME NEW d \in Dispatcher, disp'[d].op = "enqueue", NEW n, n = disp'[d].notice
        PROVE  /\ notices'[n].status \notin {"none", "SUPPRESSED"}
               /\ \A c \in disp'[d].channels : jobs'[n][c].state = "none"
               /\ IsRow(n)' /\ notices'[n].intent.to = "CHILD"
                    => "EMAIL" \notin disp'[d].channels
    <2>1. n \in NoticeId /\ disp'[d].channels \subseteq Channel
      BY <1>4, EnqueueingFrom, DispNext DEF DispInv, Dispatch
    <2>2. RowMoves(n)
      BY <2>1, RowSteps
    <2>3. CASE /\ disp[d].op = "enqueue" /\ disp[d].notice = n
               /\ disp'[d].channels \subseteq disp[d].channels
               /\ Enqueue(d) => NextChannel(d) \notin disp'[d].channels
      <3>1. notices[n].status \notin {"none", "SUPPRESSED"}
        BY <2>3 DEF QueueInv
      <3>2. notices'[n].status \notin {"none", "SUPPRESSED"}
        BY <2>2, <3>1 DEF RowMoves
      <3>3. ASSUME NEW c \in disp'[d].channels PROVE jobs'[n][c].state = "none"
        <4>1. jobs[n][c].state = "none" /\ c \in Channel
          BY <2>1, <2>3 DEF QueueInv
        <4>2. ASSUME jobs'[n][c].state # "none" PROVE FALSE
          <5>1. PICK e \in Dispatcher : /\ Enqueue(e) /\ disp[e].op = "enqueue"
                                        /\ disp[e].notice = n /\ NextChannel(e) = c
            BY <1>1, <2>1, <4>1, <4>2
          <5>2. e = d
            BY <2>3, <5>1 DEF QueueInv
          <5> QED  BY <2>3, <5>1, <5>2
        <4> QED  BY <4>2
      <3>4. IsRow(n)' /\ notices'[n].intent.to = "CHILD"
              => IsRow(n) /\ notices[n].intent.to = "CHILD"
        BY <2>1, <2>2, <3>1 DEF RowMoves, IsRow, Kept
      <3> QED  BY <2>3, <3>2, <3>3, <3>4 DEF QueueInv
    <2>4. CASE /\ notices[n].status = "none" /\ notices'[n].status = "PENDING"
               /\ disp'[d].channels = ChannelsOf(notices'[n].intent.to)
      <3>1. ASSUME NEW c \in Channel PROVE jobs'[n][c].state = "none"
        BY <1>1, <2>1, <2>4 DEF QueueInv
      <3> QED  BY <2>1, <2>4, <3>1 DEF ChannelsOf
    <2> QED  BY <1>4, <2>3, <2>4, EnqueueingFrom
  <1>5. ASSUME NEW d \in Dispatcher, NEW e \in Dispatcher,
               disp'[d].op = "enqueue", disp'[e].op = "enqueue",
               disp'[d].notice = disp'[e].notice, d # e
        PROVE  FALSE
    <2> DEFINE n == disp'[d].notice
               Old(x) == disp[x].op = "enqueue" /\ disp[x].notice = n
               New(x) == notices[n].status = "none"
                         /\ \A y \in Dispatcher : y # x => disp'[y] = disp[y]
    <2>0. (Old(d) \/ New(d)) /\ (Old(e) \/ New(e))
      BY <1>5, EnqueueingFrom
    <2>1. Old(d) \/ Old(e) => notices[n].status # "none"
      BY DEF QueueInv
    <2>2. Old(d) /\ Old(e) => FALSE
      BY <1>5 DEF QueueInv
    <2>3. New(d) => Old(e)
      BY <1>5
    <2> QED  BY <2>0, <2>1, <2>2, <2>3
  <1>6. Rows' = {n \in NoticeId : IsRow(n)'}
    BY DEF Rows
  <1>7. \A n \in Rows' : notices'[n].intent.to = "CHILD" => jobs'[n]["EMAIL"].state = "none"
    BY <1>3, <1>6
  <1>8. ASSUME NEW d \in Dispatcher, disp'[d].op = "enqueue"
        PROVE  /\ notices'[disp'[d].notice].status \notin {"none", "SUPPRESSED"}
               /\ \A c \in disp'[d].channels : jobs'[disp'[d].notice][c].state = "none"
               /\ IsRow(disp[d].notice)' /\ notices'[disp'[d].notice].intent.to = "CHILD"
                    => "EMAIL" \notin disp'[d].channels
    BY <1>4, <1>8 DEF IsRow
  <1> QED  BY <1>2, <1>5, <1>7, <1>8 DEF QueueInv

LEMMA DeliveryNext == DeliveryInv /\ [Next]_vars => DeliveryInv'
  BY TypeNext, QueueNext, OwnJobNext, MarkNext DEF DeliveryInv

\* A row delivered on a channel says SENT, unless another channel has failed for good, and a
\* row given up is one of whose channels every attempt was made, however many workers
\* deliver and crash.
THEOREM StatusSound == Spec => []StatusFollowsJobs
  <1>1. DeliveryInv => StatusFollowsJobs
    BY DEF DeliveryInv, MarkInv, GivenUp, StatusFollowsJobs
  <1> QED  BY <1>1, DeliveryInit, DeliveryNext, PTL DEF Spec

-------------------------------------------------------------------------------
(* The daily cap. *)

\* A day has one row of a child and a type (@@unique).
UniqueInv ==
  \A m, n \in Rows :
    /\ notices[m].capDay = notices[n].capDay /\ notices[m].capDay # NoDay
    /\ notices[m].intent.kid = notices[n].intent.kid
    /\ notices[m].intent.type = notices[n].intent.type
    => m = n

\* What the child has been sent or will be on a day, and what took budget of the day.
ChildCounted(c, day) == {n \in Counted(c, day) : notices[n].intent.to = "CHILD"}
Spent(c, day) == {n \in CappedRows(c, day) : notices[n].status # "SUPPRESSED"}

ChildCount(c, day) == Cardinality(ChildCounted(c, day))
SpentCount(c, day) == Cardinality(Spent(c, day))

\* What a sweep may still send the child on the day: the budget it has left, if it counted
\* the child's day and has rows left to persist.
Claim(d, c, day) ==
  IF /\ disp[d].budget # NoDay /\ CapDay(disp[d].at) = day
     /\ \E i \in disp[d].capped : i.kid = c
  THEN disp[d].budget ELSE 0

Claims(c, day) == SumOver([d \in Sweeper |-> Claim(d, c, day)], Sweeper)

ChildLimit == Cap * Cardinality(Sweeper)

\* What a child has been sent and what all sweeps may still send it fits their caps.
ChildCapInv ==
  /\ \A d \in Sweeper : disp[d].budget # NoDay => disp[d].budget <= Cap
  /\ \A c \in Kid, day \in Nat : ChildCount(c, day) + Claims(c, day) <= ChildLimit

\* What a dispatcher has no budget for was spent.
SpentInv ==
  /\ \A n \in Rows, c \in Kid, day \in Nat :
       /\ notices[n].status = "SUPPRESSED"
       /\ notices[n].intent.kid = c /\ notices[n].capDay = day
       => Cap <= SpentCount(c, day)
  /\ \A n \in Rows : notices[n].status = "SUPPRESSED" =>
       notices[n].intent.kid \in Kid /\ notices[n].capDay \in Nat
  /\ \A d \in Dispatcher, day \in Nat : disp[d].budget # NoDay /\ day = CapDay(disp[d].at) =>
       \A i \in disp[d].capped :
         Purged(i.kid) \/ Cap <= disp[d].budget + SpentCount(i.kid, day)

CapInv == DeliveryInv /\ UniqueInv /\ ChildCapInv /\ SpentInv

LEMMA CapSetsFinite ==
  ASSUME TypeInv, NEW c, NEW day
  PROVE  /\ IsFiniteSet(Counted(c, day)) /\ IsFiniteSet(ChildCounted(c, day))
         /\ IsFiniteSet(Spent(c, day))
         /\ Cardinality(Counted(c, day)) \in Nat
         /\ ChildCount(c, day) \in Nat /\ SpentCount(c, day) \in Nat
         /\ ChildCount(c, day) <= Cardinality(Counted(c, day))
         /\ Cardinality(Counted(c, day)) <= SpentCount(c, day)
  <1>1. IsFiniteSet(CappedRows(c, day))
    BY CountedFinite DEF TypeInv
  <1>2. /\ ChildCounted(c, day) \subseteq Counted(c, day)
        /\ Counted(c, day) \subseteq Spent(c, day)
        /\ Spent(c, day) \subseteq CappedRows(c, day)
    BY DEF ChildCounted, Counted, Spent
  <1>3. IsFiniteSet(Spent(c, day)) /\ IsFiniteSet(Counted(c, day))
        /\ IsFiniteSet(ChildCounted(c, day))
    BY <1>1, <1>2, FS_Subset
  <1> QED  BY <1>2, <1>3, FS_Subset, FS_CardinalityType DEF ChildCount, SpentCount

LEMMA CapSetsFiniteNext ==
  ASSUME TypeInv', NEW c, NEW day
  PROVE  /\ IsFiniteSet(ChildCounted(c, day)') /\ IsFiniteSet(Spent(c, day)')
         /\ ChildCount(c, day)' \in Nat /\ SpentCount(c, day)' \in Nat
  <1>1. IsFiniteSet(Used')
    BY DEF TypeInv, NoticesInv
  <1>2. ChildCounted(c, day)' \subseteq Used' /\ Spent(c, day)' \subseteq Used'
    BY DEF ChildCounted, Counted, Spent, CappedRows, Rows, IsRow, Used
  <1>3. IsFiniteSet(ChildCounted(c, day)') /\ IsFiniteSet(Spent(c, day)')
    BY <1>1, <1>2, FS_Subset
  <1> QED  BY <1>3, FS_CardinalityType DEF ChildCount, SpentCount

LEMMA CapInit == Init => CapInv
  <1> SUFFICES ASSUME Init PROVE CapInv
    OBVIOUS
  <1>1. Rows = {}
    BY DEF Init, Rows, IsRow, NoRow
  <1>2. \A c, day : ChildCounted(c, day) = {}
    BY <1>1 DEF ChildCounted, Counted, CappedRows
  <1>3. \A d \in Dispatcher : disp[d].budget = NoDay
    BY DEF Init, IdleDispatch
  <1>4. UniqueInv
    BY <1>1 DEF UniqueInv
  <1>5. ASSUME NEW c \in Kid, NEW day \in Nat
        PROVE  ChildCount(c, day) + Claims(c, day) <= ChildLimit
    <2> DEFINE f == [d \in Sweeper |-> Claim(d, c, day)]
    <2>1. ChildCount(c, day) = 0
      BY <1>2, FS_EmptySet DEF ChildCount
    <2>2. \A d \in Sweeper : f[d] = 0
      BY <1>3 DEF Claim, Dispatcher
    <2>3. \A d \in Sweeper : f[d] \in 0..0
      BY <2>2
    <2>4. IsFiniteSet(Sweeper) /\ Cap \in Nat /\ Cardinality(Sweeper) \in Nat
      BY NotificationsAssumption, FS_CardinalityType
    <2> HIDE DEF f
    <2>5. SumOver(f, Sweeper) <= 0 * Cardinality(Sweeper) /\ SumOver(f, Sweeper) \in Nat
      BY <2>2, <2>3, <2>4, SumOverBound, SumOverNat
    <2>6. ChildLimit \in Nat
      BY <2>4 DEF ChildLimit
    <2>7. Claims(c, day) = SumOver(f, Sweeper)
      BY DEF Claims, f
    <2> QED  BY <2>1, <2>4, <2>5, <2>6, <2>7
  <1>6. ChildCapInv
    BY <1>3, <1>5 DEF ChildCapInv, Dispatcher
  <1>7. SpentInv
    BY <1>1, <1>3 DEF SpentInv
  <1> QED  BY <1>4, <1>6, <1>7, DeliveryInit DEF CapInv

LEMMA UniqueNext == CapInv /\ [Next]_vars => UniqueInv'
  <1> SUFFICES ASSUME CapInv, [Next]_vars PROVE UniqueInv'
    OBVIOUS
  <1> USE DEF CapInv, DeliveryInv
  <1>1. ASSUME NEW m \in NoticeId, IsRow(m)', notices'[m].capDay # NoDay
        PROVE  \/ IsRow(m) /\ Kept(m)
               \/ /\ ~IsRow(m) /\ \A n \in NoticeId : n # m => notices'[n] = notices[n]
                  /\ ~Collides(notices'[m].intent, notices'[m].capDay)
    <2>1. RowMoves(m)
      BY RowSteps
    <2>2. CASE notices[m].status # "none"
      BY <1>1, <2>1, <2>2 DEF RowMoves, IsRow
    <2>3. CASE notices[m].status = "none"
      <3>1. PICK d \in Dispatcher : Persists(d, m)
        BY <1>1, <2>1, <2>3 DEF RowMoves, IsRow
      <3>2. /\ notices' = [notices EXCEPT ![m] = notices'[m]]
            /\ ~Collides(notices'[m].intent, notices'[m].capDay)
        BY <1>1, <3>1, PersistsRow
      <3> QED  BY <2>3, <3>2 DEF TypeInv, NoticesInv, IsRow
    <2> QED  BY <2>2, <2>3
  <1>2. SUFFICES ASSUME NEW m \in NoticeId, NEW n \in NoticeId, IsRow(m)', IsRow(n)', m # n,
                        notices'[m].capDay = notices'[n].capDay, notices'[m].capDay # NoDay,
                        notices'[m].intent.kid = notices'[n].intent.kid,
                        notices'[m].intent.type = notices'[n].intent.type
                 PROVE  FALSE
    BY DEF UniqueInv, Rows
  <1>3. CASE IsRow(m) /\ IsRow(n)
    <2>1. Kept(m) /\ Kept(n)
      BY <1>1, <1>2, <1>3
    <2> QED  BY <1>2, <1>3, <2>1 DEF UniqueInv, Rows, Kept
  <1>4. ASSUME NEW x \in {m, n}, NEW y \in {m, n}, x # y, ~IsRow(x) PROVE FALSE
    <2>1. /\ notices'[y] = notices[y]
          /\ ~Collides(notices'[x].intent, notices'[x].capDay)
      BY <1>1, <1>2, <1>4
    <2>2. IsRow(y) /\ y \in NoticeId
      BY <1>2, <1>4, <2>1 DEF IsRow
    <2> QED  BY <1>2, <1>4, <2>1, <2>2 DEF Collides, Rows
  <1> QED  BY <1>2, <1>3, <1>4

\* What counts of a child's day grows by what the sweep persists, and by nothing else: a row
\* of the child that was given up or suppressed is never sent.
LEMMA ChildCountedSteps ==
  ASSUME CapInv, [Next]_vars, NEW c \in Kid, NEW day \in Nat
  PROVE  \/ ChildCounted(c, day)' \subseteq ChildCounted(c, day)
         \/ \E d \in Sweeper, n \in NoticeId :
              /\ PersistCapped(d, n)
              /\ NextCapped(d).kid = c /\ CapDay(disp[d].at) = day
              /\ ChildCounted(c, day)' \subseteq ChildCounted(c, day) \cup {n}
  <1> USE DEF CapInv, DeliveryInv
  <1> DEFINE In(n) == /\ IsRow(n) /\ notices[n].intent.counts /\ notices[n].intent.kid = c
                      /\ notices[n].capDay = day /\ notices[n].status \in {"PENDING", "SENT"}
                      /\ notices[n].intent.to = "CHILD"
  <1>1. ChildCounted(c, day) = {n \in NoticeId : In(n)}
    BY DEF ChildCounted, Counted, CappedRows, Rows
  <1>2. ChildCounted(c, day)' = {n \in NoticeId : In(n)'}
    BY DEF ChildCounted, Counted, CappedRows, Rows
  <1>3. SUFFICES ASSUME NEW n \in NoticeId, In(n)', ~In(n)
                 PROVE  \E d \in Sweeper :
                          /\ PersistCapped(d, n)
                          /\ NextCapped(d).kid = c /\ CapDay(disp[d].at) = day
                          /\ \A m \in NoticeId : m # n => notices'[m] = notices[m]
    <2>1. ASSUME NEW n \in NoticeId, \A m \in NoticeId : m # n => notices'[m] = notices[m]
          PROVE  ChildCounted(c, day)' \subseteq ChildCounted(c, day) \cup {n}
      BY <1>1, <1>2, <2>1 DEF IsRow
    <2> QED  BY <1>1, <1>2, <1>3, <2>1
  <1>4. RowMoves(n)
    BY RowSteps
  <1>5. ~(notices'[n].status = notices[n].status /\ Kept(n))
    BY <1>3 DEF IsRow, Kept
  <1>6. ASSUME Kept(n), IsRow(n), NEW w \in Worker, MarkSent(w), work[w].notice = n
        PROVE  FALSE
    <2>1. /\ notices[n].status \in {"SUPPRESSED", "DEAD_LETTERED"}
          /\ notices[n].intent.to = "CHILD" /\ n \in Rows
      BY <1>3, <1>6 DEF Kept, IsRow, Rows, TypeInv, NoticesInv, NoticeRow
    <2>2. work[w].channel \in {"PUSH", "EMAIL"} /\ jobs[n][work[w].channel].state = "active"
      BY <1>6 DEF MarkSent, OwnJobInv, TypeInv, WorkInv, Delivery, Channel
    <2>3. jobs[n]["EMAIL"].state = "none"
      BY <2>1 DEF QueueInv
    <2>4. CASE notices[n].status = "SUPPRESSED"
      BY <2>2, <2>4 DEF QueueInv, Channel
    <2>5. CASE notices[n].status = "DEAD_LETTERED"
      <3>1. \E k \in {"PUSH", "EMAIL"} : jobs[n][k].state = "failed"
        BY <2>1, <2>5 DEF MarkInv, GivenUp, Channel
      <3> QED  BY <2>2, <2>3, <3>1
    <2> QED  BY <2>1, <2>4, <2>5
  <1>7. PICK d \in Dispatcher : Persists(d, n)
    BY <1>3, <1>4, <1>5, <1>6 DEF RowMoves, IsRow
  <1>8. /\ PersistCapped(d, n) /\ AtCapped(d)
        /\ notices'[n].intent = NextCapped(d) /\ notices'[n].capDay = CapDay(disp[d].at)
        /\ notices' = [notices EXCEPT ![n] = notices'[n]]
    BY <1>3, <1>7, PersistsRow
  <1>9. d \in Sweeper
    BY <1>3, <1>8, NextCappedIs DEF AtCapped
  <1> QED  BY <1>3, <1>8, <1>9 DEF TypeInv, NoticesInv

\* What took budget of a child's day stays until the child is purged.
LEMMA SpentSteps ==
  ASSUME CapInv, [Next]_vars, NEW c, NEW day
  PROVE  \/ c \in Kid /\ PurgeChild(c)
         \/ /\ Spent(c, day) \subseteq Spent(c, day)'
            /\ SpentCount(c, day) <= SpentCount(c, day)'
  <1> USE DEF CapInv, DeliveryInv
  <1>1. ASSUME ~(c \in Kid /\ PurgeChild(c)), NEW n \in Spent(c, day) PROVE n \in Spent(c, day)'
    <2>1. n \in NoticeId /\ IsRow(n) /\ notices[n].intent.kid = c
      BY DEF Spent, CappedRows, Rows
    <2>2. RowMoves(n)
      BY <2>1, RowSteps
    <2>3. Kept(n) /\ IsRow(n)' /\ notices'[n].status # "SUPPRESSED"
      BY <1>1, <2>1, <2>2 DEF RowMoves, IsRow, Spent
    <2> QED  BY <2>1, <2>3 DEF Spent, CappedRows, Rows, Kept
  <1>2. TypeInv'
    BY TypeNext
  <1>3. IsFiniteSet(Spent(c, day)')
    BY <1>2, CapSetsFiniteNext
  <1> QED  BY <1>1, <1>3, FS_Subset DEF SpentCount

LEMMA PurgedStays ==
  ASSUME TypeInv, [Next]_vars, NEW c \in Kid
  PROVE  /\ Purged(c) => Purged(c)'
         /\ PurgeChild(c) => Purged(c)'
  <1>1. \/ UNCHANGED kids
        \/ \E k \in Kid : PurgeChild(k)
        \/ \E k \in Kid, s \in {"ACTIVE", "PAUSED", "DELETED"} : ChildChanges(k, s)
    <2>1. ASSUME NEW d \in Dispatcher, Produce(d) \/ DispatchStep(d) \/ StopDispatch(d)
          PROVE  UNCHANGED kids
      BY <2>1 DEF Produce, SweepStart, SessionEvent, DispatchStep, Evaluate, BillingNotices,
                  CountToday, Enqueue, PersistUncapped, PersistCapped, Suppress, SkipDuplicate,
                  StopDispatch
    <2>2. ASSUME NEW w \in Worker, TakeJob(w) \/ DeliverStep(w) \/ Fail(w)
          PROVE  UNCHANGED kids
      BY <2>2 DEF TakeJob, TakeMissing, TakeSent, Take, DeliverStep, ReadTokens, Send, MarkSent,
                  Fail, FailAfter
    <2>3. (\E n \in NoticeId : MarkDeadLettered(n)) \/ CrashWorkers \/ Tick => UNCHANGED kids
      BY DEF MarkDeadLettered, CrashWorkers, Tick
    <2>4. Request => \/ UNCHANGED kids
                     \/ \E k \in Kid : PurgeChild(k)
                     \/ \E k \in Kid, s \in {"ACTIVE", "PAUSED", "DELETED"} : ChildChanges(k, s)
      BY DEF Request, DeregisterToken, RegisterToken, MarkNotificationRead,
             MarkAllNotificationsRead, UpdateReminder
    <2> QED  BY <2>1, <2>2, <2>3, <2>4 DEF Next, vars
  <1>2. kids \in [Kid -> KidStatus] /\ c # NoKid
    BY ReminderRulesAssumption DEF TypeInv, DataInv
  <1>3. ASSUME NEW k \in Kid, PurgeChild(k)
        PROVE  kids' = [kids EXCEPT ![k] = "GONE"]
    BY <1>3 DEF PurgeChild
  <1>4. ASSUME NEW k \in Kid, NEW s, ChildChanges(k, s)
        PROVE  kids' = [kids EXCEPT ![k] = s] /\ kids[k] # "GONE"
    BY <1>4 DEF ChildChanges
  <1>5. Purged(c) => Purged(c)'
    BY <1>1, <1>2, <1>3, <1>4 DEF Purged
  <1> QED  BY <1>2, <1>3, <1>5 DEF Purged

\* A dispatcher's budget stays, is spent with a row, or is counted.
LEMMA BudgetFrom ==
  ASSUME TypeInv, [Next]_vars, NEW d \in Dispatcher, disp'[d].budget # NoDay
  PROVE  \/ /\ disp[d].budget # NoDay /\ disp'[d].budget = disp[d].budget
            /\ disp'[d].at = disp[d].at /\ disp'[d].capped \subseteq disp[d].capped
            /\ \A n \in NoticeId : ~PersistCapped(d, n)
         \/ /\ \E n \in NoticeId : PersistCapped(d, n)
            /\ disp[d].budget # NoDay /\ disp'[d].budget = disp[d].budget - 1
            /\ disp'[d].at = disp[d].at /\ disp'[d].capped \subseteq disp[d].capped
         \/ /\ CountToday(d) /\ UNCHANGED notices
            /\ disp'[d].at = disp[d].at /\ disp'[d].capped \subseteq disp[d].capped
  <1>1. CASE \E n \in NoticeId : PersistCapped(d, n)
    BY <1>1, PersistCappedRow DEF PersistCapped, AtCapped
  <1>2. CASE disp'[d] = disp[d] /\ \A n \in NoticeId : ~PersistCapped(d, n)
    BY <1>2
  <1>3. ASSUME NEW e \in Dispatcher, DispActions(e), e # d PROVE disp'[d] = disp[d]
    <2>1. disp' = [disp EXCEPT ![e] = disp'[e]]
      BY <1>3, DispRow
    <2> QED  BY <1>3, <2>1 DEF TypeInv, DispInv
  <1>4. CASE DispActions(d) /\ \A n \in NoticeId : ~PersistCapped(d, n)
    <2>1. ~(Produce(d) \/ (\E c \in Kid : Evaluate(d, c)) \/ BillingNotices(d))
      BY ProduceRow, EvaluateRow
    <2>2. ~StopDispatch(d)
      BY DEF StopDispatch, TypeInv, DispInv, IdleDispatch
    <2>3. CASE CountToday(d)
      BY <2>3, CountRow DEF CountToday
    <2>4. CASE \E n \in NoticeId : \E i : PersistUncapped(d, n, i)
      BY <1>4, <2>4, PersistUncappedRow
    <2>5. CASE Enqueue(d)
      BY <1>4, <2>5, EnqueueJobRow
    <2>6. CASE SkipDuplicate(d) \/ \E n \in NoticeId : Suppress(d, n)
      BY <1>4, <2>6, PassedRow
    <2> QED  BY <1>4, <2>1, <2>2, <2>3, <2>4, <2>5, <2>6 DEF DispActions
  <1> QED  BY <1>1, <1>2, <1>3, <1>4, DispSteps DEF vars

LEMMA LimitNat == ChildLimit \in Nat /\ Cap \in Nat /\ IsFiniteSet(Sweeper)
  <1>1. Cap \in Nat /\ Cardinality(Sweeper) \in Nat
    BY NotificationsAssumption, FS_CardinalityType
  <1> QED  BY <1>1, NotificationsAssumption DEF ChildLimit

LEMMA ClaimBound ==
  ASSUME TypeInv, ChildCapInv, NEW d \in Sweeper, NEW c, NEW day
  PROVE  Claim(d, c, day) \in 0..Cap
  <1>1. CASE disp[d].budget # NoDay /\ disp[d].capped # {}
    <2>1. d \in Dispatcher
      BY DEF Dispatcher
    <2>2. disp[d].budget \in Nat \cup {NoDay}
      BY <1>1, <2>1, NextCappedIs
    <2>3. disp[d].budget <= Cap
      BY <1>1 DEF ChildCapInv
    <2> QED  BY <1>1, <2>2, <2>3, LimitNat DEF Claim, NoDay
  <1>2. CASE ~(disp[d].budget # NoDay /\ disp[d].capped # {})
    <2>1. Claim(d, c, day) = 0
      BY <1>2 DEF Claim
    <2> QED  BY <2>1, LimitNat
  <1> QED  BY <1>1, <1>2

LEMMA BudgetBound ==
  ASSUME CapInv, [Next]_vars, NEW d \in Sweeper, disp'[d].budget # NoDay
  PROVE  disp'[d].budget <= Cap
  <1> USE DEF CapInv, DeliveryInv
  <1>1. d \in Dispatcher /\ Cap \in Nat
    BY LimitNat DEF Dispatcher
  <1>2. disp[d].budget # NoDay => disp[d].budget <= Cap
    BY DEF ChildCapInv
  <1>3. CASE disp[d].budget # NoDay /\ disp'[d].budget = disp[d].budget
    BY <1>2, <1>3
  <1>4. CASE /\ \E n \in NoticeId : PersistCapped(d, n)
             /\ disp[d].budget # NoDay /\ disp'[d].budget = disp[d].budget - 1
    <2>1. disp[d].budget \in Nat
      BY <1>1, <1>4, PersistCappedRow
    <2> QED  BY <1>1, <1>2, <1>4, <2>1
  <1>5. CASE CountToday(d)
    <2>1. PICK used \in Nat : disp'[d].budget = IF used < Cap THEN Cap - used ELSE 0
      BY <1>1, <1>5, CountRow
    <2> QED  BY <1>1, <2>1
  <1> QED  BY <1>1, <1>3, <1>4, <1>5, BudgetFrom

\* A claim grows only when the sweep counts the child's day, to what the count leaves; what
\* is persisted for the child is taken from it.
LEMMA ClaimMoves ==
  ASSUME CapInv, [Next]_vars, NEW d \in Sweeper, NEW c \in Kid, NEW day \in Nat
  PROVE  /\ \/ Claim(d, c, day)' <= Claim(d, c, day)
            \/ /\ CountToday(d) /\ UNCHANGED notices /\ c = NextCapped(d).kid
               /\ Claim(d, c, day)' + Cardinality(Counted(c, day)) <= Cap
         /\ (/\ \E n \in NoticeId : PersistCapped(d, n)
             /\ NextCapped(d).kid = c /\ CapDay(disp[d].at) = day)
            => Claim(d, c, day)' + 1 <= Claim(d, c, day)
  <1> USE DEF CapInv, DeliveryInv
  <1> DEFINE b == disp[d].budget
             new == disp'[d].budget
             On == CapDay(disp[d].at) = day /\ \E i \in disp[d].capped : i.kid = c
             On1 == CapDay(disp'[d].at) = day /\ \E i \in disp'[d].capped : i.kid = c
  <1>1. d \in Dispatcher /\ Cap \in Nat /\ TypeInv'
    BY LimitNat, TypeNext DEF Dispatcher
  <1>2. /\ Claim(d, c, day) = IF b # NoDay /\ On THEN b ELSE 0
        /\ Claim(d, c, day)' = IF new # NoDay /\ On1 THEN new ELSE 0
    BY DEF Claim, CapDay
  <1>3. Claim(d, c, day) \in 0..Cap
    BY ClaimBound
  <1>4. CASE ~(new # NoDay /\ On1)
    <2>1. Claim(d, c, day)' = 0
      BY <1>2, <1>4
    <2>2. ASSUME NEW n \in NoticeId, PersistCapped(d, n), NextCapped(d).kid = c,
                 CapDay(disp[d].at) = day
          PROVE  Claim(d, c, day) \in Nat \ {0}
      <3>1. disp[d].capped # {} /\ b \in Nat \ {0}
        BY <1>1, <2>2, PersistCappedRow
      <3>2. NextCapped(d) \in disp[d].capped
        BY <1>1, <3>1, NextCappedIs
      <3> QED  BY <1>2, <2>2, <3>1, <3>2 DEF NoDay
    <2> QED  BY <1>1, <1>3, <2>1, <2>2
  <1>5. CASE new # NoDay /\ On1
    <2>1. disp'[d].at = disp[d].at /\ disp'[d].capped \subseteq disp[d].capped
      BY <1>1, <1>5, BudgetFrom
    <2>2. On /\ c = NextCapped(d).kid
      <3>1. PICK i \in disp[d].capped : i.kid = c
        BY <1>5, <2>1
      <3>2. i.kid = NextCapped(d).kid
        BY <1>1, <3>1, NextCappedIs
      <3>3. CapDay(disp[d].at) = day
        BY <1>5, <2>1
      <3> QED  BY <3>1, <3>2, <3>3
    <2>3. Claim(d, c, day)' = new /\ (b # NoDay => Claim(d, c, day) = b)
      BY <1>2, <1>5, <2>2
    <2> HIDE DEF On, On1
    <2>4. CASE b # NoDay /\ new = b /\ \A n \in NoticeId : ~PersistCapped(d, n)
      BY <1>1, <1>3, <2>3, <2>4
    <2>5. CASE b # NoDay /\ new = b - 1
      BY <1>1, <1>3, <2>3, <2>5
    <2>6. CASE CountToday(d) /\ UNCHANGED notices
      <3>1. \A n \in NoticeId : ~PersistCapped(d, n)
        BY <2>6 DEF CountToday, PersistCapped, AtCapped
      <3>2. CapDay(disp[d].at) = day
        BY <2>2 DEF On
      <3> DEFINE used == Cardinality(Counted(c, day))
      <3>3. used \in Nat /\ new = IF used < Cap THEN Cap - used ELSE 0
        BY <1>1, <2>2, <2>6, <3>2, CountRow
      <3> HIDE DEF used, b, new
      <3>4. Claim(d, c, day)' <= Claim(d, c, day) \/ Claim(d, c, day)' + used <= Cap
        BY <1>1, <1>3, <2>3, <3>3
      <3>5. ~\E n \in NoticeId : PersistCapped(d, n)
        BY <3>1
      <3>6. c = NextCapped(d).kid
        BY <2>2
      <3> QED  BY <2>6, <3>4, <3>5, <3>6, Zenon DEF used
    <2> QED  BY <1>1, <1>5, <2>4, <2>5, <2>6, BudgetFrom DEF b, new
  <1> QED  BY <1>4, <1>5

\* What the child counts grows by one at most, and only by what a sweep persists for it.
LEMMA ChildCountMoves ==
  ASSUME CapInv, [Next]_vars, NEW c \in Kid, NEW day \in Nat
  PROVE  /\ ChildCount(c, day) \in Nat /\ ChildCount(c, day)' \in Nat
         /\ \/ ChildCount(c, day)' <= ChildCount(c, day)
            \/ \E d \in Sweeper, n \in NoticeId :
                 /\ PersistCapped(d, n)
                 /\ ChildCount(c, day)' <= ChildCount(c, day) + 1
                 /\ NextCapped(d).kid = c /\ CapDay(disp[d].at) = day
  <1> USE DEF CapInv, DeliveryInv
  <1>1. /\ IsFiniteSet(ChildCounted(c, day)) /\ ChildCount(c, day) \in Nat
        /\ IsFiniteSet(ChildCounted(c, day)') /\ ChildCount(c, day)' \in Nat
    BY TypeNext, CapSetsFinite, CapSetsFiniteNext
  <1>2. CASE ChildCounted(c, day)' \subseteq ChildCounted(c, day)
    BY <1>1, <1>2, FS_Subset DEF ChildCount
  <1>3. ASSUME NEW n \in NoticeId,
               ChildCounted(c, day)' \subseteq ChildCounted(c, day) \cup {n}
        PROVE  ChildCount(c, day)' <= ChildCount(c, day) + 1
    <2> DEFINE big == ChildCounted(c, day) \cup {n}
    <2>1. IsFiniteSet(big)
      BY <1>1, FS_AddElement
    <2>2. Cardinality(big) \in {ChildCount(c, day), ChildCount(c, day) + 1}
      BY <1>1, FS_AddElement DEF ChildCount
    <2>3. ChildCount(c, day)' <= Cardinality(big)
      BY <1>3, <2>1, FS_Subset DEF ChildCount
    <2> HIDE DEF big
    <2> QED  BY <1>1, <2>2, <2>3
  <1> QED  BY <1>1, <1>2, <1>3, ChildCountedSteps

\* The child's cap: each sweep sends a child what it has claimed, and claims no more than a
\* cap of which its count has taken away what was sent before.
LEMMA ChildCapNext == CapInv /\ [Next]_vars => ChildCapInv'
  <1> SUFFICES ASSUME CapInv, [Next]_vars PROVE ChildCapInv'
    OBVIOUS
  <1> USE DEF CapInv, DeliveryInv
  <1>0. TypeInv' /\ ChildLimit \in Nat /\ Cap \in Nat /\ IsFiniteSet(Sweeper)
    BY TypeNext, LimitNat
  <1>1. \A d \in Sweeper : disp'[d].budget # NoDay => disp'[d].budget <= Cap
    BY BudgetBound
  <1>2. ASSUME NEW c \in Kid, NEW day \in Nat
        PROVE  ChildCount(c, day)' + Claims(c, day)' <= ChildLimit
    <2> DEFINE f == [d \in Sweeper |-> Claim(d, c, day)]
               g == [d \in Sweeper |-> Claim(d, c, day)']
               n0 == ChildCount(c, day)
               n1 == ChildCount(c, day)'
               used == Cardinality(Counted(c, day))
    <2>1. ASSUME NEW d \in Sweeper PROVE f[d] \in 0..Cap /\ g[d] \in 0..Cap
      <3>1. f[d] = Claim(d, c, day) /\ g[d] = Claim(d, c, day)'
        OBVIOUS
      <3>2. Claim(d, c, day) \in 0..Cap
        BY ClaimBound
      <3>3. Claim(d, c, day)' \in 0..Cap
        <4>1. CASE disp'[d].budget # NoDay /\ disp'[d].capped # {}
          <5>1. disp'[d].budget \in Nat \cup {NoDay}
            BY <1>0 DEF TypeInv, DispInv, DispOK, LoopOK, Dispatcher
          <5>2. disp'[d].budget <= Cap
            BY <1>1, <4>1
          <5> QED  BY <1>0, <4>1, <5>1, <5>2 DEF Claim, NoDay
        <4>2. CASE ~(disp'[d].budget # NoDay /\ disp'[d].capped # {})
          <5>1. Claim(d, c, day)' = 0
            BY <4>2 DEF Claim
          <5> QED  BY <1>0, <5>1
        <4> QED  BY <4>1, <4>2
      <3> QED  BY <3>1, <3>2, <3>3
    <2>2. /\ Claims(c, day) = SumOver(f, Sweeper) /\ Claims(c, day)' = SumOver(g, Sweeper)
      BY DEF Claims
    <2>3. n0 + SumOver(f, Sweeper) <= ChildLimit
      BY <2>2 DEF ChildCapInv
    <2>4. ASSUME NEW d \in Sweeper
          PROVE  /\ \/ g[d] <= f[d]
                    \/ CountToday(d) /\ UNCHANGED notices /\ g[d] + used <= Cap
                 /\ (/\ \E n \in NoticeId : PersistCapped(d, n)
                     /\ NextCapped(d).kid = c /\ CapDay(disp[d].at) = day)
                    => g[d] + 1 <= f[d]
      BY ClaimMoves
    <2>5. ASSUME NEW d \in Sweeper, disp' = [disp EXCEPT ![d] = disp'[d]],
                 NEW e \in Sweeper \ {d}
          PROVE  g[e] = f[e]
      <3>1. disp'[e] = disp[e]
        BY <2>5 DEF TypeInv, DispInv, Dispatcher
      <3> QED  BY <3>1 DEF Claim, CapDay
    <2>6. n0 <= used /\ used \in Nat
      BY CapSetsFinite
    <2>7. /\ n0 \in Nat /\ n1 \in Nat
          /\ \/ n1 <= n0
             \/ \E d \in Sweeper, n \in NoticeId :
                  /\ PersistCapped(d, n) /\ n1 <= n0 + 1
                  /\ NextCapped(d).kid = c /\ CapDay(disp[d].at) = day
      BY ChildCountMoves
    <2> HIDE DEF f, g, n0, n1, used
    <2>8. /\ \A d \in Sweeper : f[d] \in Nat /\ g[d] \in Nat
          /\ SumOver(f, Sweeper) \in Nat /\ SumOver(g, Sweeper) \in Nat
      BY <1>0, <2>1, SumOverNat
    <2>9. n1 + SumOver(g, Sweeper) <= ChildLimit
      <3>1. ASSUME NEW d \in Sweeper, NEW n \in NoticeId, PersistCapped(d, n), n1 <= n0 + 1,
                   NextCapped(d).kid = c, CapDay(disp[d].at) = day
            PROVE  n1 + SumOver(g, Sweeper) <= ChildLimit
        <4>1. disp' = [disp EXCEPT ![d] = disp'[d]]
          BY <3>1, PersistCappedRow DEF Dispatcher
        <4>2. \A e \in Sweeper \ {d} : g[e] <= f[e]
          BY <2>5, <2>8, <4>1
        <4>3. SumOver(g, Sweeper) + f[d] <= SumOver(f, Sweeper) + g[d]
          BY <1>0, <2>8, <4>2, SumOverChange
        <4>4. g[d] + 1 <= f[d]
          BY <2>4, <3>1
        <4> QED  BY <1>0, <2>3, <2>7, <2>8, <3>1, <4>3, <4>4
      <3>2. CASE n1 <= n0 /\ \A d \in Sweeper : g[d] <= f[d]
        <4>1. SumOver(g, Sweeper) <= SumOver(f, Sweeper)
          BY <1>0, <2>8, <3>2, SumOverMono
        <4> QED  BY <1>0, <2>3, <2>7, <2>8, <3>2, <4>1
      <3>3. ASSUME n1 <= n0, NEW d \in Sweeper, ~(g[d] <= f[d])
            PROVE  n1 + SumOver(g, Sweeper) <= ChildLimit
        <4>1. g[d] + used <= Cap
          BY <2>4, <3>3
        <4>2. SumOver(g, Sweeper) + Cap <= g[d] + ChildLimit
          BY <1>0, <2>1, SumOverBoundBut DEF ChildLimit
        <4> QED  BY <1>0, <2>6, <2>7, <2>8, <3>3, <4>1, <4>2
      <3> QED  BY <2>7, <3>1, <3>2, <3>3
    <2> QED  BY <2>2, <2>9 DEF n1
  <1> QED  BY <1>1, <1>2 DEF ChildCapInv, ChildLimit

\* Notices are suppressed over the cap only.
LEMMA SpentGrows ==
  ASSUME CapInv, [Next]_vars, NEW d \in Dispatcher, NEW n \in NoticeId, PersistCapped(d, n),
         NEW c, NEW day, c = NextCapped(d).kid, day = CapDay(disp[d].at)
  PROVE  (c \in Kid /\ PurgeChild(c)) \/ SpentCount(c, day) + 1 <= SpentCount(c, day)'
  <1> USE DEF CapInv, DeliveryInv
  <1>1. /\ notices[n].status = "none" /\ notices'[n].status = "PENDING"
        /\ notices'[n].intent = NextCapped(d) /\ notices'[n].capDay = day
        /\ NextCapped(d).counts
    <2>1. AtCapped(d) /\ Create(n, NextCapped(d), day, "PENDING")
      BY DEF PersistCapped
    <2>2. /\ NextCapped(d) \in Intent /\ NextCapped(d).counts /\ day \in Nat
          /\ NextCapped(d).to = "PARENT" => NextCapped(d).type = "REWARD_REDEEMED"
      BY <2>1, NextCappedIs DEF AtCapped
    <2> QED  BY <2>1, <2>2, CreateRow
  <1>2. n \notin Spent(c, day) /\ n \in Spent(c, day)'
    BY <1>1 DEF Spent, CappedRows, Rows, IsRow
  <1>3. TypeInv'
    BY TypeNext
  <1>4. ASSUME Spent(c, day) \subseteq Spent(c, day)'
        PROVE  SpentCount(c, day) + 1 <= SpentCount(c, day)'
    <2> DEFINE big == Spent(c, day) \cup {n}
    <2>1. Cardinality(big) = SpentCount(c, day) + 1 /\ big \subseteq Spent(c, day)'
      BY <1>2, <1>4, CapSetsFinite, FS_AddElement DEF SpentCount
    <2>2. Cardinality(big) <= SpentCount(c, day)'
      BY <1>3, <2>1, CapSetsFiniteNext, FS_Subset DEF SpentCount
    <2> QED  BY <2>1, <2>2
  <1> QED  BY <1>4, SpentSteps

LEMMA SpentNext == CapInv /\ [Next]_vars => SpentInv'
  <1> SUFFICES ASSUME CapInv, [Next]_vars PROVE SpentInv'
    OBVIOUS
  <1> USE DEF CapInv, DeliveryInv
  <1>0. TypeInv' /\ Cap \in Nat
    BY TypeNext, NotificationsAssumption
  <1>1. ASSUME NEW c \in Kid, NEW day
        PROVE  /\ SpentCount(c, day) \in Nat /\ SpentCount(c, day)' \in Nat
               /\ PurgeChild(c) \/ SpentCount(c, day) <= SpentCount(c, day)'
    BY <1>0, CapSetsFinite, CapSetsFiniteNext, SpentSteps
  <1>2. ASSUME NEW n \in NoticeId, IsRow(n)', notices'[n].status = "SUPPRESSED"
        PROVE  /\ notices'[n].intent.kid \in Kid /\ notices'[n].capDay \in Nat
               /\ \A c \in Kid, day \in Nat :
                    /\ notices'[n].intent.kid = c /\ notices'[n].capDay = day
                    => Cap <= SpentCount(c, day)'
    <2>0. RowMoves(n)
      BY RowSteps
    <2>1. CASE notices[n].status = "SUPPRESSED" /\ Kept(n)
      <3>1. n \in Rows
        BY <2>1 DEF Rows, IsRow
      <3>2. notices'[n].intent.kid \in Kid /\ notices'[n].capDay \in Nat
        BY <2>1, <3>1 DEF SpentInv, Kept
      <3>3. ASSUME NEW c \in Kid, NEW day \in Nat,
                   notices'[n].intent.kid = c, notices'[n].capDay = day
            PROVE  Cap <= SpentCount(c, day)'
        <4>1. Cap <= SpentCount(c, day)
          BY <2>1, <3>1, <3>3 DEF SpentInv, Kept
        <4>2. PurgeChild(c) => FALSE
          BY <1>2, <2>1, <3>1, <3>3, PurgeRow DEF Rows, Kept
        <4> QED  BY <1>0, <1>1, <4>1, <4>2
      <3> QED  BY <3>2, <3>3
    <2>2. ASSUME NEW d \in Dispatcher, Persists(d, n)
          PROVE  /\ notices'[n].intent.kid \in Kid /\ notices'[n].capDay \in Nat
                 /\ \A c \in Kid, day \in Nat :
                      /\ notices'[n].intent.kid = c /\ notices'[n].capDay = day
                      => Cap <= SpentCount(c, day)'
      <3>1. /\ Suppress(d, n) /\ AtCapped(d) /\ notices'[n].intent = NextCapped(d)
            /\ notices'[n].capDay = CapDay(disp[d].at)
        BY <1>2, <2>2, PersistsRow
      <3>2. /\ disp[d].budget = 0 /\ disp[d].budget # NoDay
            /\ NextCapped(d) \in disp[d].capped /\ ~Purged(NextCapped(d).kid)
            /\ NextCapped(d).kid \in Kid /\ CapDay(disp[d].at) \in Nat
        BY <3>1, NextCappedIs DEF Suppress, AtCapped, NoDay
      <3>3. ASSUME NEW c \in Kid, NEW day \in Nat,
                   c = NextCapped(d).kid, day = CapDay(disp[d].at)
            PROVE  Cap <= SpentCount(c, day)'
        <4>1. Cap <= disp[d].budget + SpentCount(c, day)
          BY <3>2, <3>3 DEF SpentInv
        <4>2. UNCHANGED kids
          BY <3>1 DEF Suppress
        <4>3. ~PurgeChild(c)
          BY <3>2, <3>3, <4>2, PurgedStays DEF Purged
        <4> QED  BY <1>0, <1>1, <3>2, <4>1, <4>3
      <3> QED  BY <3>1, <3>2, <3>3
    <2> QED  BY <1>2, <2>0, <2>1, <2>2 DEF RowMoves
  <1>3. ASSUME NEW d \in Dispatcher, NEW day \in Nat, disp'[d].budget # NoDay,
               day = CapDay(disp'[d].at), NEW i \in disp'[d].capped
        PROVE  Purged(i.kid)' \/ Cap <= disp'[d].budget + SpentCount(i.kid, day)'
    <2>0. PICK c : c = i.kid
      OBVIOUS
    <2>1. disp'[d].at = disp[d].at /\ i \in disp[d].capped /\ day = CapDay(disp[d].at)
      BY <1>3, BudgetFrom
    <2>2. c \in Kid /\ c = NextCapped(d).kid /\ disp[d].budget \in Nat \cup {NoDay}
      BY <2>0, <2>1, NextCappedIs
    <2>3. CASE PurgeChild(c) \/ Purged(c)
      BY <2>0, <2>2, <2>3, PurgedStays DEF Purged
    <2>4. CASE ~PurgeChild(c) /\ ~Purged(c)
      <3>1. /\ SpentCount(c, day) \in Nat /\ SpentCount(c, day)' \in Nat
            /\ SpentCount(c, day) <= SpentCount(c, day)'
        BY <1>1, <2>2, <2>4
      <3>2. disp[d].budget # NoDay => Cap <= disp[d].budget + SpentCount(c, day)
        BY <2>0, <2>1, <2>4 DEF SpentInv
      <3>3. CASE disp[d].budget # NoDay /\ disp'[d].budget = disp[d].budget
        BY <1>0, <2>0, <2>2, <3>1, <3>2, <3>3 DEF NoDay
      <3>4. CASE /\ \E n \in NoticeId : PersistCapped(d, n)
                 /\ disp[d].budget # NoDay /\ disp'[d].budget = disp[d].budget - 1
        <4>1. SpentCount(c, day) + 1 <= SpentCount(c, day)'
          BY <2>1, <2>2, <2>4, <3>4, SpentGrows
        <4> QED  BY <1>0, <2>0, <2>2, <3>1, <3>2, <3>4, <4>1 DEF NoDay
      <3>5. CASE CountToday(d) /\ UNCHANGED notices
        <4> DEFINE used == Cardinality(Counted(c, day))
        <4>1. used \in Nat /\ disp'[d].budget = IF used < Cap THEN Cap - used ELSE 0
          BY <2>1, <2>2, <3>5, CountRow
        <4>2. used <= SpentCount(c, day)
          BY CapSetsFinite
        <4> HIDE DEF used
        <4> QED  BY <1>0, <2>0, <3>1, <4>1, <4>2
      <3> QED  BY <1>3, <3>3, <3>4, <3>5, BudgetFrom
    <2> QED  BY <2>3, <2>4
  <1>4. Rows' = {n \in NoticeId : IsRow(n)'}
    BY DEF Rows
  <1> QED  BY <1>2, <1>3, <1>4 DEF SpentInv, CapDay

LEMMA CapNext == CapInv /\ [Next]_vars => CapInv'
  BY DeliveryNext, UniqueNext, ChildCapNext, SpentNext DEF CapInv

LEMMA ChildCountBound ==
  ASSUME CapInv, NEW c \in Kid, NEW day \in Nat
  PROVE  ChildCount(c, day) \in Nat /\ ChildCount(c, day) <= ChildLimit
  <1> USE DEF CapInv, DeliveryInv
  <1> DEFINE f == [d \in Sweeper |-> Claim(d, c, day)]
  <1>1. \A d \in Sweeper : f[d] \in Nat
    BY ClaimBound, LimitNat
  <1>2. SumOver(f, Sweeper) \in Nat
    BY <1>1, LimitNat, SumOverNat
  <1>3. ChildCount(c, day) + SumOver(f, Sweeper) <= ChildLimit
    BY DEF ChildCapInv, Claims
  <1>4. ChildCount(c, day) \in Nat
    BY CapSetsFinite
  <1> HIDE DEF f
  <1> QED  BY <1>2, <1>3, <1>4, LimitNat

\* The cap protects the child: no child is sent more than Cap notices on a day for each sweep
\* that may run at once, however session events, deliveries, failures and crashes interleave.
THEOREM ChildProtected == Spec => []CapProtectsChild
  <1>1. CapInv => CapProtectsChild
    <2> SUFFICES ASSUME CapInv, NEW c \in Kid, NEW day \in CappedDays
                 PROVE  Cardinality({n \in Counted(c, day) : notices[n].intent.to = "CHILD"})
                          <= Cap * Cardinality(Sweeper)
      BY DEF CapProtectsChild, ChildSentAtMost
    <2>1. day \in Nat
      BY DEF CapInv, DeliveryInv, TypeInv, NoticesInv, NoticeOK, CappedDays, Rows
    <2>2. ChildCount(c, day) <= ChildLimit
      BY <2>1, ChildCountBound
    <2> QED  BY <2>2 DEF ChildLimit, ChildCount, ChildCounted
  <1> QED  BY <1>1, CapInit, CapNext, PTL DEF Spec

\* With one sweep at a time, which one worker process guarantees (reminders.worker.ts:22),
\* the cap is kept as it is written: no child is sent more than Cap notices on a day.
THEOREM OneSweepKeepsTheCap ==
  ASSUME \A s, t \in Sweeper : s = t
  PROVE  Spec => []ChildSentAtMost(Cap)
  <1>1. Cardinality(Sweeper) \in 0..1
    <2>1. CASE Sweeper = {}
      BY <2>1, FS_EmptySet
    <2>2. CASE Sweeper # {}
      <3>1. PICK s : Sweeper = {s}
        BY <2>2
      <3> QED  BY <3>1, FS_Singleton
    <2> QED  BY <2>1, <2>2
  <1>2. Cap * Cardinality(Sweeper) <= Cap
    <2>1. CASE Cardinality(Sweeper) = 0
      BY <2>1, LimitNat
    <2>2. CASE Cardinality(Sweeper) = 1
      BY <2>2, LimitNat
    <2> QED  BY <1>1, <2>1, <2>2
  <1>3. CapInv => ChildSentAtMost(Cap)
    <2> SUFFICES ASSUME CapInv, NEW c \in Kid, NEW day \in CappedDays
                 PROVE  Cardinality({n \in Counted(c, day) : notices[n].intent.to = "CHILD"}) <= Cap
      BY DEF ChildSentAtMost
    <2>1. day \in Nat
      BY DEF CapInv, DeliveryInv, TypeInv, NoticesInv, NoticeOK, CappedDays, Rows
    <2>2. ChildCount(c, day) \in Nat /\ ChildCount(c, day) <= ChildLimit
      BY <2>1, ChildCountBound
    <2>3. ChildCount(c, day) <= Cap
      BY <1>2, <2>2, LimitNat DEF ChildLimit
    <2> QED  BY <2>3 DEF ChildCount, ChildCounted
  <1> QED  BY <1>3, CapInit, CapNext, PTL DEF Spec

\* A session event that is decided with a stale count overruns that by one notice at most.
THEOREM OverrunByOne == Spec => []CapOverrun
  <1>1. CapInv => CapOverrun
    <2> SUFFICES ASSUME CapInv, NEW c \in Kid, NEW day \in CappedDays
                 PROVE  Cardinality(Counted(c, day)) <= ChildLimit + 1
      BY DEF CapOverrun, ChildLimit
    <2> USE DEF CapInv, DeliveryInv
    <2>1. day \in Nat /\ day # NoDay
      BY DEF TypeInv, NoticesInv, NoticeOK, CappedDays, Rows
    <2>2. /\ IsFiniteSet(ChildCounted(c, day)) /\ ChildCount(c, day) \in Nat
          /\ ChildCount(c, day) <= ChildLimit /\ ChildLimit \in Nat
      BY <2>1, CapSetsFinite, ChildCountBound, LimitNat
    <2>3. ASSUME NEW n \in Counted(c, day), n \notin ChildCounted(c, day)
          PROVE  /\ n \in Rows /\ notices[n].intent.kid = c /\ notices[n].capDay = day
                 /\ notices[n].intent.type = "REWARD_REDEEMED"
      <3>1. n \in NoticeId /\ n \in Rows /\ notices[n].intent.kid = c /\ notices[n].capDay = day
            /\ notices[n].intent.counts /\ notices[n].intent.to # "CHILD"
        BY <2>3 DEF ChildCounted, Counted, CappedRows, Rows
      <3>2. notices[n] \in NoticeRow /\ NoticeOK(notices[n])
        BY <3>1 DEF TypeInv, NoticesInv
      <3>3. notices[n].intent.to = "PARENT"
        BY <3>1, <3>2 DEF NoticeRow, Intent
      <3> QED  BY <3>1, <3>2, <3>3 DEF NoticeOK
    <2>4. \A m, n \in Counted(c, day) \ ChildCounted(c, day) : m = n
      BY <2>1, <2>3 DEF UniqueInv
    <2>5. \E g : Counted(c, day) \subseteq ChildCounted(c, day) \cup {g}
      BY <2>4
    <2>6. PICK g : Counted(c, day) \subseteq ChildCounted(c, day) \cup {g}
      BY <2>5
    <2> DEFINE big == ChildCounted(c, day) \cup {g}
    <2>7. /\ IsFiniteSet(big)
          /\ Cardinality(big) \in {ChildCount(c, day), ChildCount(c, day) + 1}
      BY <2>2, FS_AddElement DEF ChildCount
    <2>8. Cardinality(Counted(c, day)) <= Cardinality(big)
          /\ Cardinality(Counted(c, day)) \in Nat
      BY <2>6, <2>7, FS_Subset, CapSetsFinite
    <2> HIDE DEF big
    <2> QED  BY <2>2, <2>7, <2>8
  <1> QED  BY <1>1, CapInit, CapNext, PTL DEF Spec

\* A notice is suppressed only when the day's budget went to other rows.
THEOREM SuppressedSoundly == Spec => []SuppressedOnlyOverCap
  <1>1. CapInv => SuppressedOnlyOverCap
    BY DEF CapInv, SpentInv, SpentCount, Spent, SuppressedOnlyOverCap
  <1> QED  BY <1>1, CapInit, CapNext, PTL DEF Spec
===============================================================================
