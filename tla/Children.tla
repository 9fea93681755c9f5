------------------------------- MODULE Children -------------------------------
(***************************************************************************)
(* One family's children and their rewards: the requests of                *)
(* children.service.ts, the credential change and the sign-in of a child   *)
(* (auth.service.ts), the printed login card, the hourly purge of the      *)
(* children deleted a week ago, and rewards.service.ts.                    *)
(*                                                                         *)
(* A request that reads and then writes is two steps, and what it read may *)
(* be stale when it writes.  The purge is one transaction per child: its   *)
(* deletes are seen by others at its commit, and a row that appears        *)
(* meanwhile makes the last delete fail on its foreign key.                *)
(***************************************************************************)
EXTENDS Integers, Sequences, FiniteSets, SequencesExt

CONSTANTS
  Kid, NoKid,      \* Child ids
  Name, NoName,    \* normalised usernames
  Foreign,         \* the usernames of other families' children
  Given,           \* the children there are at the start, and their usernames
  Limits,          \* the child limits of the plans
  Request,         \* requests the API serves at once
  Prize, NoPrize,  \* Reward ids
  Terms,           \* the goals of rewards: child, metric and target
  Window,          \* RESTORE_WINDOW_MS
  MaxTime, MaxAsked, MaxCrash  \* bounds: the clock, requests, crashes

None == -1         \* a null column or goal
Metric == {"XP", "SESSIONS", "none"}

ASSUME ChildrenAssumption ==
  /\ NoKid \notin Kid /\ NoName \notin Name /\ NoPrize \notin Prize
  /\ Foreign \subseteq Name
  /\ DOMAIN Given \subseteq Kid /\ IsFiniteSet(DOMAIN Given)
  /\ \A k \in DOMAIN Given : Given[k] \in Name \ Foreign
  /\ \A k, j \in DOMAIN Given : Given[k] = Given[j] => k = j
  /\ Limits \subseteq Nat \ {0}
  /\ IsFiniteSet(Request) /\ Request # {}
  /\ Terms # {} /\ Terms \subseteq
       [kid : Kid \cup {NoKid}, metric : Metric, target : Nat \cup {None}]
  /\ Window \in Nat \ {0} /\ MaxTime \in Nat /\ MaxAsked \in Nat /\ MaxCrash \in Nat

VARIABLES
  now,
  limit,     \* the child limit of the family's plan; 1 before a plan is chosen
  peak,      \* history: the highest limit the family has had
  kids,      \* Child rows
  rows,      \* the tables that hold rows of each child
  signedIn,  \* the children with a live session
  cards,     \* the stored login cards: the username printed on each
  prizes,    \* Reward rows
  earned,    \* each child's totalXp and scored sessions
  claims,    \* history: the rewards a goal-met intent was built for
  reqs,      \* what each request is doing
  purge,     \* what the childPurge worker is doing
  touched,   \* history: the child whose deletion was written under the purge's transaction
  asked, crashes

vars ==
  <<now, limit, peak, kids, rows, signedIn, cards, prizes, earned, claims, reqs, purge,
    touched, asked, crashes>>

-------------------------------------------------------------------------------
(* The rows. *)

\* born: the id has been given out; card: loginCardUrl is set.
KidRow ==
  [born : BOOLEAN, there : BOOLEAN, name : Name \cup {NoName}, paused : BOOLEAN, card : BOOLEAN,
   deletedAt : Nat \cup {None}, purgeAfter : Nat \cup {None}]
NoRow ==
  [born |-> FALSE, there |-> FALSE, name |-> NoName, paused |-> FALSE, card |-> FALSE,
   deletedAt |-> None, purgeAfter |-> None]
NewKid(n) == [NoRow EXCEPT !.born = TRUE, !.there = TRUE, !.name = n]

PrizeRow ==
  [status : {"none", "ACTIVE", "FULFILLED", "EXPIRED", "gone"}, terms : Terms,
   fulfilledAt : Nat \cup {None}]

\* The tables whose rows refer to a child, in the order the purge empties them.
DependentOrder ==
  <<"topicProgress", "subjectProgress", "struggleTracker", "pushToken", "notification",
    "reminderConfig", "homework", "session", "badge", "reward", "consentRecord",
    "message", "conversation", "authSession">>
Table == ToSet(DependentOrder)

\* The rows of these tables hang off rows of another, the others off the child.
HangsOff == {<<"topicProgress", "subjectProgress">>, <<"message", "conversation">>}

\* kid, name: what the request is about; terms, prize: the reward it writes.
Req ==
  [op : {"idle", "create", "slot", "restore", "delete", "pause", "reactivate",
         "credentials", "reread", "card", "reward", "edit"},
   kid : Kid \cup {NoKid}, name : Name \cup {NoName}, terms : Terms \cup {NoKid},
   prize : Prize \cup {NoPrize}]
Idle ==
  [op |-> "idle", kid |-> NoKid, name |-> NoName, terms |-> NoKid, prize |-> NoPrize]

\* due: the children scanned and not yet handled; at: the time of the run;
\* emptied: how many tables its transaction has emptied for kid;
\* late: the tables that got a row after they were emptied.
Purge ==
  [due : SUBSET Kid, at : Nat, kid : Kid \cup {NoKid}, emptied : 0..Len(DependentOrder),
   late : SUBSET Table]
NoPurge == [due |-> {}, at |-> 0, kid |-> NoKid, emptied |-> 0, late |-> {}]

Init ==
  /\ now = 0 /\ limit \in Limits /\ limit >= Cardinality(DOMAIN Given) /\ peak = limit
  /\ kids = [k \in Kid |-> IF k \in DOMAIN Given THEN NewKid(Given[k]) ELSE NoRow]
  /\ rows = [k \in Kid |-> IF k \in DOMAIN Given THEN Table \ {"reward"} ELSE {}]
  /\ signedIn = DOMAIN Given
  /\ cards = [k \in Kid |-> NoName]
  /\ prizes = [p \in Prize |->
                 [status |-> "none", terms |-> CHOOSE t \in Terms : TRUE, fulfilledAt |-> None]]
  /\ earned = [k \in Kid |-> [XP |-> 0, SESSIONS |-> 0]]
  /\ claims = {}
  /\ reqs = [r \in Request |-> Idle]
  /\ purge = NoPurge /\ touched = {}
  /\ asked = 0 /\ crashes = 0

-------------------------------------------------------------------------------
(* Helpers. *)

Ask == asked < MaxAsked /\ asked' = asked + 1

Active == {k \in Kid : kids[k].there /\ kids[k].deletedAt = None}
TakenNames == Foreign \cup {kids[k].name : k \in {j \in Kid : kids[j].there}}
FreeFor(k, n) == n \notin Foreign /\ \A j \in Kid \ {k} : kids[j].there => kids[j].name # n

\* One too many is let through.
SlotAvailableLate == Cardinality(Active) <= limit

\* assertSlotAvailable: counted now, acted on later.
SlotAvailable == Cardinality(Active) < limit

\* A row of T that refers to k is inserted; the purge of k may have passed that table.
InsertRow(k, T) ==
  /\ rows' = [rows EXCEPT ![k] = @ \cup {T}]
  /\ purge' = IF purge.kid = k /\ \E i \in 1..purge.emptied : DependentOrder[i] = T
              THEN [purge EXCEPT !.late = @ \cup {T}] ELSE purge

\* The purge's transaction holds the locks of the rows it has deleted.
PrizeLocked(p) ==
  purge.kid # NoKid /\ prizes[p].terms.kid = purge.kid
    /\ \E i \in 1..purge.emptied : DependentOrder[i] = "reward"

Touch(k) == IF purge.kid = k THEN touched \cup {k} ELSE touched

Done(r) == reqs' = [reqs EXCEPT ![r] = Idle]
Goes(r, next) == reqs' = [reqs EXCEPT ![r] = next]

familyRows == <<limit, peak, kids, rows, signedIn, cards>>
rewardRows == <<prizes, earned, claims>>

-------------------------------------------------------------------------------
(* Requests about a child. *)

\* createChild checks the slot first.
AskCreate(r, n) ==
  /\ Ask /\ reqs[r].op = "idle"
  /\ SlotAvailable
  /\ Goes(r, [Idle EXCEPT !.op = "create", !.name = n])
  /\ UNCHANGED <<now, familyRows, rewardRows, purge, touched, crashes>>

\* restoreChild looks at the deletion, then at the slot.
AskRestore(r, k) ==
  /\ Ask /\ reqs[r].op = "idle"
  /\ kids[k].there /\ kids[k].deletedAt # None
  /\ now - kids[k].deletedAt <= Window
  /\ Goes(r, [Idle EXCEPT !.op = "slot", !.kid = k])
  /\ UNCHANGED <<now, familyRows, rewardRows, purge, touched, crashes>>

CheckSlot(r) ==
  /\ reqs[r].op = "slot"
  /\ IF SlotAvailable THEN Goes(r, [reqs[r] EXCEPT !.op = "restore"]) ELSE Done(r)
  /\ UNCHANGED <<now, familyRows, rewardRows, purge, touched, asked, crashes>>

\* The requests that begin with assertChildInFamily and then write the row by its id.
AskAbout(r, k, op, n) ==
  /\ Ask /\ reqs[r].op = "idle" /\ k \in Active
  /\ op = "credentials" => n = NoName \/ FreeFor(k, n)
  /\ op # "credentials" => n = NoName
  /\ Goes(r, [Idle EXCEPT !.op = op, !.kid = k, !.name = n])
  /\ UNCHANGED <<now, familyRows, rewardRows, purge, touched, crashes>>

\* The unique index on the username decides.
Create(r) ==
  /\ reqs[r].op = "create"
  /\ \/ /\ reqs[r].name \in TakenNames
        /\ Done(r)
        /\ UNCHANGED <<kids, purge>>
     \/ \E k \in Kid :
          /\ reqs[r].name \notin TakenNames
          /\ ~kids[k].born
          /\ kids' = [kids EXCEPT ![k] = NewKid(reqs[r].name)]
          /\ Goes(r, [Idle EXCEPT !.op = "card", !.kid = k, !.name = reqs[r].name])
          /\ UNCHANGED purge
  /\ UNCHANGED <<now, limit, peak, rows, signedIn, cards, rewardRows, touched, asked,
                 crashes>>

\* The purge marker is not cleared.
RestoreKeepingMarker(r) ==
  /\ reqs[r].op = "restore"
  /\ Done(r)
  /\ LET k == reqs[r].kid IN
       IF kids[k].there
       THEN kids' = [kids EXCEPT ![k].deletedAt = None] /\ touched' = Touch(k)
       ELSE UNCHANGED <<kids, touched>>
  /\ UNCHANGED <<now, limit, peak, rows, signedIn, cards, rewardRows, purge, asked, crashes>>

Restore(r) ==
  /\ reqs[r].op = "restore"
  /\ Done(r)
  /\ LET k == reqs[r].kid IN
       IF kids[k].there
       THEN /\ kids' = [kids EXCEPT ![k].deletedAt = None, ![k].purgeAfter = None]
            /\ touched' = Touch(k)
       ELSE UNCHANGED <<kids, touched>>
  /\ UNCHANGED <<now, limit, peak, rows, signedIn, cards, rewardRows, purge, asked, crashes>>

\* softDeleteChild, pauseChild and reactivateChild: the row is written by its id alone.
SetStatus(r) ==
  /\ reqs[r].op \in {"delete", "pause", "reactivate"}
  /\ Done(r)
  /\ LET k == reqs[r].kid op == reqs[r].op IN
       IF ~kids[k].there THEN UNCHANGED <<kids, signedIn, touched>>
       ELSE /\ kids' = [kids EXCEPT ![k] =
                 CASE op = "delete" ->
                        [@ EXCEPT !.deletedAt = now, !.purgeAfter = now + Window]
                   [] op = "pause" -> [@ EXCEPT !.paused = TRUE]
                   [] OTHER -> [@ EXCEPT !.paused = FALSE]]
            /\ signedIn' = IF op = "reactivate" THEN signedIn ELSE signedIn \ {k}
            /\ touched' = IF op = "delete" THEN Touch(k) ELSE touched
  /\ UNCHANGED <<now, limit, peak, rows, cards, rewardRows, purge, asked, crashes>>

\* A name taken since it was looked up, or a row gone, makes the transaction throw.
UpdateCredentials(r) ==
  /\ reqs[r].op = "credentials"
  /\ LET k == reqs[r].kid n == reqs[r].name IN
       IF kids[k].there /\ (n = NoName \/ FreeFor(k, n))
       THEN /\ kids' = [kids EXCEPT ![k].name = IF n = NoName THEN @ ELSE n]
            /\ signedIn' = signedIn \ {k}
            /\ Goes(r, [reqs[r] EXCEPT !.op = "reread"])
       ELSE Done(r) /\ UNCHANGED <<kids, signedIn>>
  /\ UNCHANGED <<now, limit, peak, rows, cards, rewardRows, purge, touched, asked, crashes>>

\* The row is read once more for the card.
Reread(r) ==
  /\ reqs[r].op = "reread"
  /\ LET k == reqs[r].kid IN
       IF kids[k].there
       THEN Goes(r, [reqs[r] EXCEPT !.op = "card", !.name = kids[k].name]) ELSE Done(r)
  /\ UNCHANGED <<now, familyRows, rewardRows, purge, touched, asked, crashes>>

\* backfillLoginCard: the image is stored, then its reference; either may fail quietly.
BackfillLoginCard(r) ==
  /\ reqs[r].op = "card"
  /\ Done(r)
  /\ LET k == reqs[r].kid IN
       \/ UNCHANGED <<cards, kids>>
       \/ /\ cards' = [cards EXCEPT ![k] = reqs[r].name]
          /\ \/ UNCHANGED kids
             \/ kids[k].there /\ kids' = [kids EXCEPT ![k].card = TRUE]
  /\ UNCHANGED <<now, limit, peak, rows, signedIn, rewardRows, purge, touched, asked, crashes>>

\* getLoginCard: what a request for the card gets.
GetLoginCard(k) ==
  IF k \notin Active \/ ~kids[k].card THEN "not found"
  ELSE IF cards[k] = NoName THEN "unavailable" ELSE "served"

\* loginChild looks at the family and the credential, not at status or deletedAt.
LoginChild(k) ==
  /\ Ask /\ kids[k].there
  /\ signedIn' = signedIn \cup {k}
  /\ InsertRow(k, "authSession")
  /\ UNCHANGED <<now, limit, peak, kids, cards, rewardRows, reqs, touched, crashes>>

\* The plan changes, by a payment or by a choice of the parent.
ChangePlan ==
  /\ Ask
  /\ limit' \in Limits \ {limit}
  /\ peak' = IF limit' > peak THEN limit' ELSE peak
  /\ UNCHANGED <<now, kids, rows, signedIn, cards, rewardRows, reqs, purge, touched, crashes>>

-------------------------------------------------------------------------------
(* Rewards. *)

\* deriveGoal and computeGoalMet: nothing of them is stored.
GoalProgress(p) ==
  LET t == prizes[p].terms IN
    IF t.metric = "none" \/ t.kid = NoKid THEN None ELSE earned[t.kid][t.metric]
GoalMet(p) ==
  /\ prizes[p].status = "ACTIVE" /\ prizes[p].terms.target # None
  /\ GoalProgress(p) # None /\ GoalProgress(p) >= prizes[p].terms.target

\* createReward and editReward look the child up, then write.
AskReward(r, t) ==
  /\ Ask /\ reqs[r].op = "idle"
  /\ t.kid # NoKid => t.kid \in Active
  /\ Goes(r, [Idle EXCEPT !.op = "reward", !.terms = t])
  /\ UNCHANGED <<now, familyRows, rewardRows, purge, touched, crashes>>

AskEdit(r, p, t) ==
  /\ Ask /\ reqs[r].op = "idle"
  /\ prizes[p].status \in {"ACTIVE", "EXPIRED"}
  /\ t.kid # NoKid => t.kid \in Active
  /\ Goes(r, [Idle EXCEPT !.op = "edit", !.prize = p, !.terms = t])
  /\ UNCHANGED <<now, familyRows, rewardRows, purge, touched, crashes>>

WriteReward(r, p) ==
  /\ reqs[r].op = "reward" /\ prizes[p].status = "none"
  /\ Done(r)
  /\ LET t == reqs[r].terms IN
       IF t.kid = NoKid \/ kids[t.kid].there
       THEN /\ prizes' = [prizes EXCEPT ![p] =
                 [status |-> "ACTIVE", terms |-> t, fulfilledAt |-> None]]
            /\ IF t.kid = NoKid THEN UNCHANGED <<rows, purge>> ELSE InsertRow(t.kid, "reward")
       ELSE UNCHANGED <<prizes, rows, purge>>
  /\ UNCHANGED <<now, limit, peak, kids, signedIn, cards, earned, claims, touched, asked,
                 crashes>>

\* The terms are written by id: a reward fulfilled since is not looked at again.
EditReward(r) ==
  /\ reqs[r].op = "edit" /\ ~PrizeLocked(reqs[r].prize)
  /\ Done(r)
  /\ LET t == reqs[r].terms p == reqs[r].prize IN
       IF prizes[p].status # "gone" /\ (t.kid = NoKid \/ kids[t.kid].there)
       THEN /\ prizes' = [prizes EXCEPT ![p].terms = t]
            /\ IF t.kid = NoKid THEN UNCHANGED <<rows, purge>> ELSE InsertRow(t.kid, "reward")
       ELSE UNCHANGED <<prizes, rows, purge>>
  /\ UNCHANGED <<now, limit, peak, kids, signedIn, cards, earned, claims, touched, asked,
                 crashes>>

\* The update does not look at the status.
FulfillRewardAgain(p) ==
  /\ Ask /\ ~PrizeLocked(p)
  /\ prizes[p].status \notin {"none", "gone"}
  /\ prizes' = [prizes EXCEPT ![p].status = "FULFILLED", ![p].fulfilledAt = now]
  /\ UNCHANGED <<now, familyRows, earned, claims, reqs, purge, touched, crashes>>

\* fulfillReward: one conditional update, whatever was read before it.
FulfillReward(p) ==
  /\ Ask /\ ~PrizeLocked(p)
  /\ prizes[p].status = "ACTIVE"
  /\ prizes' = [prizes EXCEPT ![p].status = "FULFILLED", ![p].fulfilledAt = now]
  /\ UNCHANGED <<now, familyRows, earned, claims, reqs, purge, touched, crashes>>

\* A session is processed: the child earns, and its goals that are met are announced.
Earn(k) ==
  /\ Ask /\ kids[k].there
  /\ earned' = [earned EXCEPT ![k] = [m \in {"XP", "SESSIONS"} |-> @[m] + 1]]
  /\ InsertRow(k, "session")
  /\ UNCHANGED <<now, limit, peak, kids, signedIn, cards, prizes, claims, reqs, touched,
                 crashes>>
GoalMetIntentsForChild(k) ==
  LET met == {p \in Prize : prizes[p].terms.kid = k /\ GoalMet(p)} IN
    /\ kids[k].there /\ ~(met \subseteq claims)
    /\ claims' = claims \cup met
    /\ InsertRow(k, "notification")
    /\ UNCHANGED <<now, limit, peak, kids, signedIn, cards, prizes, earned, reqs, touched,
                   asked, crashes>>

-------------------------------------------------------------------------------
(* The hourly purge. *)

PurgeDue(k, t) ==
  kids[k].there /\ kids[k].deletedAt # None /\ kids[k].purgeAfter # None
    /\ kids[k].purgeAfter <= t

PurgeScan ==
  /\ purge.due = {} /\ purge.kid = NoKid
  /\ \E k \in Kid : PurgeDue(k, now)
  /\ purge' = [NoPurge EXCEPT !.due = {k \in Kid : PurgeDue(k, now)}, !.at = now]
  /\ UNCHANGED <<now, familyRows, rewardRows, reqs, touched, asked, crashes>>

\* No second look.
PurgeUnchecked ==
  /\ purge.kid = NoKid
  /\ \E k \in purge.due :
       purge' = [purge EXCEPT !.due = @ \ {k}, !.kid = k, !.emptied = 0, !.late = {}]
  /\ touched' = {}
  /\ UNCHANGED <<now, familyRows, rewardRows, reqs, asked, crashes>>

\* The transaction of one child opens with a second look at its row.
PurgeRecheck ==
  /\ purge.kid = NoKid
  /\ \E k \in purge.due :
       purge' = [purge EXCEPT !.due = @ \ {k},
                              !.kid = IF PurgeDue(k, purge.at) THEN k ELSE NoKid,
                              !.emptied = 0, !.late = {}]
  /\ touched' = {}
  /\ UNCHANGED <<now, familyRows, rewardRows, reqs, asked, crashes>>

\* A table is forgotten.
EmptyTableForgetting ==
  /\ purge.kid # NoKid /\ purge.emptied < Len(DependentOrder)
  /\ LET T == DependentOrder[purge.emptied + 1] IN
       purge' = [purge EXCEPT !.emptied = @ + 1,
                              !.late = IF T = "badge" /\ T \in rows[purge.kid]
                                       THEN @ \cup {T} ELSE @]
  /\ UNCHANGED <<now, familyRows, rewardRows, reqs, touched, asked, crashes>>

\* hardDeleteChildDependents: one deleteMany; rows that hang off its rows forbid it.
EmptyTable ==
  /\ purge.kid # NoKid /\ purge.emptied < Len(DependentOrder)
  /\ LET T == DependentOrder[purge.emptied + 1]
         gone == {DependentOrder[i] : i \in 1..purge.emptied} \ purge.late IN
       purge' = IF \E pair \in HangsOff :
                     pair[2] = T /\ T \in rows[purge.kid]
                       /\ pair[1] \in rows[purge.kid] \ gone
                THEN [purge EXCEPT !.kid = NoKid] ELSE [purge EXCEPT !.emptied = @ + 1]
  /\ UNCHANGED <<now, familyRows, rewardRows, reqs, touched, asked, crashes>>

\* The child is deleted and the transaction commits, or all of it is rolled back.
PurgeChild ==
  /\ purge.kid # NoKid /\ purge.emptied = Len(DependentOrder)
  /\ purge' = [purge EXCEPT !.kid = NoKid]
  /\ LET k == purge.kid IN
       IF purge.late = {} /\ kids[k].there
       THEN /\ kids' = [kids EXCEPT ![k] = [NoRow EXCEPT !.born = TRUE]]
            /\ rows' = [rows EXCEPT ![k] = {}]
            /\ signedIn' = signedIn \ {k}
            /\ prizes' = [p \in Prize |-> IF prizes[p].terms.kid = k /\ prizes[p].status # "none"
                                          THEN [prizes[p] EXCEPT !.status = "gone",
                                                  !.fulfilledAt = None] ELSE prizes[p]]
       ELSE UNCHANGED <<kids, rows, signedIn, prizes>>
  /\ UNCHANGED <<now, limit, peak, cards, earned, claims, reqs, touched, asked, crashes>>

-------------------------------------------------------------------------------
(* The surroundings. *)

Crash ==
  /\ crashes < MaxCrash /\ crashes' = crashes + 1
  /\ reqs' = [r \in Request |-> Idle]
  /\ purge' = NoPurge
  /\ UNCHANGED <<now, familyRows, rewardRows, touched, asked>>

Tick ==
  /\ now < MaxTime /\ now' = now + 1
  /\ UNCHANGED <<familyRows, rewardRows, reqs, purge, touched, asked, crashes>>

Next ==
  \/ \E r \in Request :
       \/ \E n \in Name : AskCreate(r, n)
       \/ \E k \in Kid :
            \/ AskRestore(r, k)
            \/ \E op \in {"delete", "pause", "reactivate", "credentials"},
                  n \in Name \cup {NoName} : AskAbout(r, k, op, n)
       \/ CheckSlot(r) \/ Create(r) \/ Restore(r) \/ SetStatus(r)
       \/ UpdateCredentials(r) \/ Reread(r) \/ BackfillLoginCard(r)
       \/ \E t \in Terms : AskReward(r, t) \/ \E p \in Prize : AskEdit(r, p, t)
       \/ EditReward(r)
       \/ \E p \in Prize : WriteReward(r, p)
  \/ \E k \in Kid : LoginChild(k) \/ Earn(k) \/ GoalMetIntentsForChild(k)
  \/ \E p \in Prize : FulfillReward(p)
  \/ ChangePlan
  \/ PurgeScan \/ PurgeRecheck \/ EmptyTable \/ PurgeChild
  \/ Crash \/ Tick

Spec == Init /\ [][Next]_vars

\* BullMQ starts the purge every hour and runs it to its end.
FairSpec ==
  /\ Spec
  /\ WF_vars(PurgeScan \/ PurgeRecheck \/ EmptyTable \/ PurgeChild)

-------------------------------------------------------------------------------
(* What the family may rely on. *)

\* Every row, request and purge has the shape its table or its code gives it, no username is
\* held twice, also by a child that waits for its purge, and a card that is offered is there.
TypeOK ==
  /\ now \in 0..MaxTime /\ limit \in Limits /\ peak \in Limits
  /\ kids \in [Kid -> KidRow] /\ rows \in [Kid -> SUBSET Table]
  /\ \A k, j \in Kid : kids[k].there /\ kids[j].there /\ k # j => kids[k].name # kids[j].name
  /\ \A k \in Kid : kids[k].deletedAt = None <=> kids[k].purgeAfter = None
  /\ signedIn \subseteq {k \in Kid : kids[k].there}
  /\ cards \in [Kid -> Name \cup {NoName}]
  /\ \A k \in Kid : GetLoginCard(k) # "unavailable"
  /\ prizes \in [Prize -> PrizeRow]
  /\ \A p \in Prize : (prizes[p].status = "FULFILLED") <=> (prizes[p].fulfilledAt # None)
  /\ earned \in [Kid -> [{"XP", "SESSIONS"} -> Nat]] /\ claims \subseteq Prize
  /\ reqs \in [Request -> Req] /\ purge \in Purge /\ touched \subseteq Kid
  /\ asked \in 0..MaxAsked /\ crashes \in 0..MaxCrash

\* The slot check counts first and writes later (assertSlotAvailable, children.service.ts
\* 45-50): requests that run together may pass the limit, but only by one less than their
\* number, however plans, restores and creations interleave.
LimitOverrun == Cardinality(Active) <= peak + Cardinality(Request) - 1

\* The purge deletes a child only when the window of its latest deletion is over, unless
\* the child was restored, or deleted again, while the transaction of the purge was open
\* (purgeDueSoftDeleted, 266-291, which looks at each child again in its transaction).
PurgeSparesRestored ==
  [][\A k \in Kid : kids[k].there /\ ~kids'[k].there =>
        \/ k \in touched
        \/ kids[k].deletedAt # None /\ kids[k].purgeAfter <= now]_vars

\* A reward is fulfilled once: however many parents and retries ask, and whatever is
\* edited meanwhile, its time does not move and it does not become active again
\* (fulfillReward, rewards.service.ts 231-248).
FulfilledOnce ==
  [][\A p \in Prize : prizes[p].status = "FULFILLED" =>
        \/ prizes'[p].status = "gone"
        \/ prizes'[p].status = "FULFILLED" /\ prizes'[p].fulfilledAt = prizes[p].fulfilledAt]_vars

\* Every deleted child whose window is over is purged in the end, or restored: each of its
\* tables is emptied in an order the foreign keys allow, and a purge that a new row or a
\* crash stops is done again (hardDeleteChildDependents, 304-343).
DueChildrenGo == []<>(\A k \in Kid : ~PurgeDue(k, now))
===============================================================================
