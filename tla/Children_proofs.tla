---------------------------- MODULE Children_proofs ----------------------------
(***************************************************************************)
(* Theorems about Children, for every value of its constants: any number   *)
(* of children, names, rewards and requests at once, any limits and any    *)
(* number of crashes.                                                      *)
(***************************************************************************)
EXTENDS Children, FiniteSetTheorems, TLAPS

-------------------------------------------------------------------------------
(* Rows and requests. *)

\* A child that is there has a name and an id that is not given out again.
RowOK(row) ==
  /\ row \in KidRow
  /\ row.there => row.born /\ row.name \in Name
  /\ row.deletedAt = None <=> row.purgeAfter = None

\* A request knows what it is about.
ReqOK(q) ==
  /\ q \in Req
  /\ q.op \in {"slot", "restore", "delete", "pause", "reactivate", "credentials", "reread",
               "card"} => q.kid \in Kid
  /\ q.op \in {"create", "card"} => q.name \in Name
  /\ q.op \in {"reward", "edit"} => q.terms \in Terms
  /\ q.op = "edit" => q.prize \in Prize

Base ==
  /\ now \in Nat
  /\ kids \in [Kid -> KidRow] /\ \A k \in Kid : RowOK(kids[k])
  /\ reqs \in [Request -> Req] /\ \A r \in Request : ReqOK(reqs[r])

LEMMA NoneIs == None \notin Nat
  BY DEF None

LEMMA IdleOK == ReqOK(Idle)
  BY DEF ReqOK, Idle, Req

LEMMA NewKidOK ==
  ASSUME NEW n \in Name
  PROVE  /\ RowOK(NewKid(n)) /\ NewKid(n).there /\ NewKid(n).name = n
         /\ NewKid(n).deletedAt = None /\ NewKid(n).card = FALSE
  BY DEF RowOK, NewKid, NoRow, KidRow

LEMMA GoneOK ==
  /\ RowOK(NoRow) /\ NoRow.there = FALSE /\ NoRow.card = FALSE
  /\ LET row == [NoRow EXCEPT !.born = TRUE] IN
       RowOK(row) /\ row.there = FALSE /\ row.card = FALSE
  BY DEF RowOK, NoRow, KidRow

\* What the actions that write a child do to its row: whether it is there, its name and its
\* deletion, besides the flags.
LEMMA RestoreRow ==
  ASSUME Base, NEW r \in Request, Restore(r), kids' # kids
  PROVE  LET k == reqs[r].kid IN
         /\ k \in Kid /\ kids[k].there /\ kids' = [kids EXCEPT ![k] = kids'[k]]
         /\ RowOK(kids'[k]) /\ kids'[k].there /\ kids'[k].name = kids[k].name
         /\ kids'[k].card = kids[k].card /\ kids'[k].deletedAt = None
         /\ touched' = Touch(k)
  <1> DEFINE k == reqs[r].kid
             row == [kids[k] EXCEPT !.deletedAt = None, !.purgeAfter = None]
  <1>1. k \in Kid /\ kids[k] \in KidRow /\ RowOK(kids[k])
    BY DEF Base, ReqOK, Restore
  <1>2. /\ kids[k].there /\ touched' = Touch(k)
        /\ kids' = [kids EXCEPT ![k].deletedAt = None, ![k].purgeAfter = None]
    BY DEF Restore
  <1>3. kids' = [kids EXCEPT ![k] = row] /\ kids'[k] = row
    BY <1>1, <1>2 DEF Base
  <1>4. /\ RowOK(row) /\ row.there = kids[k].there /\ row.name = kids[k].name
        /\ row.card = kids[k].card /\ row.deletedAt = None
    BY <1>1 DEF RowOK, KidRow
  <1>. QED  BY <1>1, <1>2, <1>3, <1>4

LEMMA StatusRow ==
  ASSUME Base, NEW r \in Request, SetStatus(r), kids' # kids
  PROVE  LET k == reqs[r].kid IN
         /\ k \in Kid /\ kids[k].there /\ kids' = [kids EXCEPT ![k] = kids'[k]]
         /\ RowOK(kids'[k]) /\ kids'[k].there /\ kids'[k].name = kids[k].name
         /\ kids'[k].card = kids[k].card
         /\ \/ kids'[k].deletedAt # None /\ touched' = Touch(k)
            \/ /\ kids'[k].deletedAt = kids[k].deletedAt
               /\ kids'[k].purgeAfter = kids[k].purgeAfter /\ touched' = touched
  <1> DEFINE k == reqs[r].kid
             op == reqs[r].op
  <1>1. k \in Kid /\ kids[k] \in KidRow /\ RowOK(kids[k])
    BY DEF Base, ReqOK, SetStatus
  <1>2. PICK row : /\ kids' = [kids EXCEPT ![k] = row]
                   /\ \/ /\ row = [kids[k] EXCEPT !.deletedAt = now, !.purgeAfter = now + Window]
                         /\ touched' = Touch(k)
                      \/ row = [kids[k] EXCEPT !.paused = TRUE] /\ touched' = touched
                      \/ row = [kids[k] EXCEPT !.paused = FALSE] /\ touched' = touched
    BY <1>1 DEF SetStatus
  <1>3. kids[k].there /\ kids'[k] = row
    BY <1>1, <1>2 DEF SetStatus, Base
  <1>4. CASE row = [kids[k] EXCEPT !.deletedAt = now, !.purgeAfter = now + Window]
              /\ touched' = Touch(k)
    <2>1. now \in Nat /\ now + Window \in Nat
      BY ChildrenAssumption DEF Base
    <2>2. /\ row.there = kids[k].there /\ row.name = kids[k].name /\ row.card = kids[k].card
          /\ row.deletedAt = now /\ row.purgeAfter = now + Window /\ row.born = kids[k].born
          /\ row \in KidRow
      BY <1>1, <1>4, <2>1 DEF KidRow
    <2>3. RowOK(row) /\ row.deletedAt # None
      BY <1>1, <2>1, <2>2, NoneIs DEF RowOK
    <2>. QED  BY <1>1, <1>2, <1>3, <1>4, <2>2, <2>3
  <1>5. CASE /\ \E b \in BOOLEAN : row = [kids[k] EXCEPT !.paused = b]
             /\ touched' = touched
    <2>1. /\ RowOK(row) /\ row.there = kids[k].there /\ row.name = kids[k].name
          /\ row.card = kids[k].card /\ row.deletedAt = kids[k].deletedAt
          /\ row.purgeAfter = kids[k].purgeAfter
      BY <1>1, <1>5 DEF RowOK, KidRow
    <2>. QED  BY <1>1, <1>2, <1>3, <1>5, <2>1
  <1>. QED  BY <1>2, <1>4, <1>5

LEMMA CredentialsRow ==
  ASSUME Base, NEW r \in Request, UpdateCredentials(r), kids' # kids
  PROVE  LET k == reqs[r].kid IN
         /\ k \in Kid /\ kids[k].there /\ kids' = [kids EXCEPT ![k] = kids'[k]]
         /\ RowOK(kids'[k]) /\ kids'[k].there
         /\ kids'[k].name # kids[k].name => FreeFor(k, kids'[k].name)
         /\ kids'[k].card = kids[k].card /\ kids'[k].deletedAt = kids[k].deletedAt
         /\ kids'[k].purgeAfter = kids[k].purgeAfter /\ touched' = touched
  <1> DEFINE k == reqs[r].kid
             n == reqs[r].name
             name == IF n = NoName THEN kids[k].name ELSE n
             row == [kids[k] EXCEPT !.name = name]
  <1>1. k \in Kid /\ kids[k] \in KidRow /\ RowOK(kids[k]) /\ reqs[r] \in Req
    BY DEF Base, ReqOK, UpdateCredentials
  <1>2. /\ kids[k].there /\ touched' = touched /\ (n = NoName \/ FreeFor(k, n))
        /\ kids' = [kids EXCEPT ![k].name = name]
    BY DEF UpdateCredentials
  <1>3. kids' = [kids EXCEPT ![k] = row] /\ kids'[k] = row
    BY <1>1, <1>2 DEF Base
  <1>4. name \in Name /\ (name # kids[k].name => FreeFor(k, name))
    BY <1>1, <1>2 DEF RowOK, Req
  <1> HIDE DEF name
  <1>5. /\ RowOK(row) /\ row.there = kids[k].there /\ row.name = name
        /\ row.card = kids[k].card /\ row.deletedAt = kids[k].deletedAt
        /\ row.purgeAfter = kids[k].purgeAfter
    BY <1>1, <1>4 DEF RowOK, KidRow
  <1>. QED  BY <1>1, <1>2, <1>3, <1>4, <1>5

LEMMA CardRow ==
  ASSUME Base, NEW r \in Request, BackfillLoginCard(r), kids' # kids
  PROVE  LET k == reqs[r].kid IN
         /\ k \in Kid /\ kids[k].there /\ kids' = [kids EXCEPT ![k] = kids'[k]]
         /\ RowOK(kids'[k]) /\ kids'[k].there /\ kids'[k].name = kids[k].name
         /\ kids'[k].deletedAt = kids[k].deletedAt
         /\ kids'[k].purgeAfter = kids[k].purgeAfter /\ touched' = touched
         /\ cards' = [cards EXCEPT ![k] = reqs[r].name]
  <1> DEFINE k == reqs[r].kid
             row == [kids[k] EXCEPT !.card = TRUE]
  <1>1. k \in Kid /\ kids[k] \in KidRow /\ RowOK(kids[k])
    BY DEF Base, ReqOK, BackfillLoginCard
  <1>2. /\ kids[k].there /\ touched' = touched /\ kids' = [kids EXCEPT ![k].card = TRUE]
        /\ cards' = [cards EXCEPT ![k] = reqs[r].name]
    BY DEF BackfillLoginCard
  <1>3. kids' = [kids EXCEPT ![k] = row] /\ kids'[k] = row
    BY <1>1, <1>2 DEF Base
  <1>4. /\ RowOK(row) /\ row.there = kids[k].there /\ row.name = kids[k].name
        /\ row.deletedAt = kids[k].deletedAt /\ row.purgeAfter = kids[k].purgeAfter
    BY <1>1 DEF RowOK, KidRow
  <1>. QED  BY <1>1, <1>2, <1>3, <1>4

LEMMA CreateRow ==
  ASSUME Base, NEW r \in Request, Create(r), kids' # kids
  PROVE  \E k \in Kid :
           /\ ~kids[k].born /\ ~kids[k].there
           /\ reqs[r].name \in Name /\ reqs[r].name \notin TakenNames
           /\ kids' = [kids EXCEPT ![k] = NewKid(reqs[r].name)]
           /\ reqs' = [reqs EXCEPT ![r] = [Idle EXCEPT !.op = "card", !.kid = k,
                                                       !.name = reqs[r].name]]
           /\ touched' = touched
  <1>1. reqs[r].name \in Name
    BY DEF Create, Base, ReqOK
  <1>. QED  BY <1>1 DEF Create, Base, RowOK, Goes

-------------------------------------------------------------------------------
(* The kinds of steps, and what each leaves alone. *)

\* Requests that look and go on, or write children, or write rewards; uses of a child.
Looks(r) ==
  \/ \E n \in Name : AskCreate(r, n)
  \/ \E k \in Kid : AskRestore(r, k)
  \/ \E k \in Kid, op \in {"delete", "pause", "reactivate", "credentials"},
       n \in Name \cup {NoName} : AskAbout(r, k, op, n)
  \/ \E t \in Terms : AskReward(r, t)
  \/ \E t \in Terms, p \in Prize : AskEdit(r, p, t)
  \/ CheckSlot(r) \/ Reread(r)

WritesKid(r) ==
  Create(r) \/ Restore(r) \/ SetStatus(r) \/ UpdateCredentials(r) \/ BackfillLoginCard(r)

WritesPrize(r) == EditReward(r) \/ \E p \in Prize : WriteReward(r, p)

Uses(k) == LoginChild(k) \/ Earn(k) \/ GoalMetIntentsForChild(k)

PurgeMoves == PurgeScan \/ PurgeRecheck \/ EmptyTable

LEMMA StepKinds ==
  ASSUME [Next]_vars
  PROVE  \/ \E r \in Request : Looks(r) \/ WritesKid(r) \/ WritesPrize(r)
         \/ \E k \in Kid : Uses(k)
         \/ \E p \in Prize : FulfillReward(p)
         \/ ChangePlan \/ PurgeMoves \/ PurgeChild \/ Crash \/ Tick \/ UNCHANGED vars
  BY DEF Next, Looks, WritesKid, WritesPrize, Uses, PurgeMoves

LEMMA LooksLeaves ==
  ASSUME NEW r \in Request, Looks(r)
  PROVE  /\ UNCHANGED <<now, limit, peak, kids, rows, signedIn, cards, prizes, earned, claims,
                       purge, touched, crashes>>
         /\ asked' = asked \/ Ask
  BY DEF Looks, AskCreate, AskRestore, AskAbout, AskReward, AskEdit, CheckSlot, Reread,
     familyRows, rewardRows

LEMMA WritesKidLeaves ==
  ASSUME NEW r \in Request, WritesKid(r)
  PROVE  UNCHANGED <<now, limit, peak, rows, prizes, earned, claims, purge, asked, crashes>>
  BY DEF WritesKid, Create, Restore, SetStatus, UpdateCredentials, BackfillLoginCard, rewardRows

LEMMA WritesPrizeLeaves ==
  ASSUME NEW r \in Request, WritesPrize(r)
  PROVE  UNCHANGED <<now, limit, peak, kids, signedIn, cards, earned, claims, touched, asked,
                     crashes>>
  BY DEF WritesPrize, EditReward, WriteReward

LEMMA UsesLeaves ==
  ASSUME NEW k \in Kid, Uses(k)
  PROVE  /\ UNCHANGED <<now, limit, peak, kids, cards, prizes, reqs, touched, crashes>>
         /\ asked' = asked \/ Ask
  BY DEF Uses, LoginChild, Earn, GoalMetIntentsForChild, rewardRows

LEMMA PurgeMovesLeave ==
  ASSUME PurgeMoves
  PROVE  UNCHANGED <<now, limit, peak, kids, rows, signedIn, cards, prizes, earned, claims,
                     reqs, asked, crashes>>
  BY DEF PurgeMoves, PurgeScan, PurgeRecheck, EmptyTable, familyRows, rewardRows

\* A step writes the rows of children in one of these ways.
LEMMA KidSteps ==
  ASSUME [Next]_vars
  PROVE  \/ \E r \in Request : /\ kids' # kids
                               /\ \/ Create(r) \/ Restore(r) \/ SetStatus(r)
                                  \/ UpdateCredentials(r) \/ BackfillLoginCard(r)
         \/ PurgeChild /\ kids' # kids
         \/ kids' = kids
  BY StepKinds, LooksLeaves, WritesPrizeLeaves, UsesLeaves, PurgeMovesLeave
     DEF WritesKid, FulfillReward, ChangePlan, Crash, Tick, familyRows, vars

\* A step writes what one request is doing, or all of them are lost.
LEMMA ReqSteps ==
  ASSUME Base, [Next]_vars
  PROVE  \/ reqs' = reqs
         \/ reqs' = [r \in Request |-> Idle]
         \/ \E r \in Request, q \in Req : ReqOK(q) /\ reqs' = [reqs EXCEPT ![r] = q]
  <1>1. ASSUME NEW r \in Request,
               \/ CheckSlot(r) \/ Create(r) \/ Restore(r) \/ SetStatus(r)
               \/ UpdateCredentials(r) \/ Reread(r) \/ BackfillLoginCard(r) \/ EditReward(r)
               \/ \E p \in Prize : WriteReward(r, p)
               \/ \E n \in Name : AskCreate(r, n)
               \/ \E k \in Kid : AskRestore(r, k)
               \/ \E k \in Kid, op \in {"delete", "pause", "reactivate", "credentials"},
                     n \in Name \cup {NoName} : AskAbout(r, k, op, n)
               \/ \E t \in Terms : AskReward(r, t) \/ \E p \in Prize : AskEdit(r, p, t)
        PROVE  \E q \in Req : ReqOK(q) /\ reqs' = [reqs EXCEPT ![r] = q]
    <2>0. ReqOK(reqs[r]) /\ reqs[r] \in Req
      BY DEF Base
    <2>1. CASE Done(r)
      BY <2>1, IdleOK DEF Done, ReqOK
    <2>2. CASE CheckSlot(r) /\ ~Done(r)
      <3>1. /\ [reqs[r] EXCEPT !.op = "restore"] \in Req
            /\ ReqOK([reqs[r] EXCEPT !.op = "restore"])
        BY <2>0, <2>2 DEF ReqOK, Req, CheckSlot
      <3>. QED  BY <2>2, <3>1 DEF CheckSlot, Goes
    <2>3. CASE Create(r) /\ ~Done(r)
      <3>1. reqs[r].name \in Name
        BY <2>0, <2>3 DEF Create, ReqOK
      <3>2. PICK k \in Kid : Goes(r, [Idle EXCEPT !.op = "card", !.kid = k,
                                                   !.name = reqs[r].name])
        BY <2>3 DEF Create
      <3>3. ReqOK([Idle EXCEPT !.op = "card", !.kid = k, !.name = reqs[r].name])
        BY <3>1 DEF ReqOK, Req, Idle
      <3>. QED  BY <3>2, <3>3 DEF Goes, ReqOK
    <2>4. CASE UpdateCredentials(r) /\ ~Done(r)
      <3>1. ReqOK([reqs[r] EXCEPT !.op = "reread"])
        BY <2>0, <2>4 DEF ReqOK, Req, UpdateCredentials
      <3>. QED  BY <2>4, <3>1 DEF UpdateCredentials, Goes, ReqOK
    <2>5. CASE Reread(r) /\ ~Done(r)
      <3> DEFINE n == kids[reqs[r].kid].name
                 q == [reqs[r] EXCEPT !.op = "card", !.name = n]
      <3>1. n \in Name /\ Goes(r, q) /\ reqs[r].kid \in Kid
        BY <2>0, <2>5 DEF Reread, Base, ReqOK, RowOK
      <3> HIDE DEF n
      <3>2. ReqOK(q)
        BY <2>0, <3>1 DEF ReqOK, Req
      <3>. QED  BY <3>1, <3>2 DEF Goes, ReqOK
    <2>6. ASSUME NEW n \in Name, AskCreate(r, n)
          PROVE  \E q \in Req : ReqOK(q) /\ reqs' = [reqs EXCEPT ![r] = q]
      <3>1. ReqOK([Idle EXCEPT !.op = "create", !.name = n])
        BY DEF ReqOK, Req, Idle
      <3>. QED  BY <2>6, <3>1 DEF AskCreate, Goes, ReqOK
    <2>7. ASSUME NEW k \in Kid, AskRestore(r, k)
          PROVE  \E q \in Req : ReqOK(q) /\ reqs' = [reqs EXCEPT ![r] = q]
      <3>1. ReqOK([Idle EXCEPT !.op = "slot", !.kid = k])
        BY DEF ReqOK, Req, Idle
      <3>. QED  BY <2>7, <3>1 DEF AskRestore, Goes, ReqOK
    <2>8. ASSUME NEW k \in Kid, NEW op \in {"delete", "pause", "reactivate", "credentials"},
                 NEW n \in Name \cup {NoName}, AskAbout(r, k, op, n)
          PROVE  \E q \in Req : ReqOK(q) /\ reqs' = [reqs EXCEPT ![r] = q]
      <3>1. ReqOK([Idle EXCEPT !.op = op, !.kid = k, !.name = n])
        BY DEF ReqOK, Req, Idle
      <3>. QED  BY <2>8, <3>1 DEF AskAbout, Goes, ReqOK
    <2>9. ASSUME NEW t \in Terms, AskReward(r, t)
          PROVE  \E q \in Req : ReqOK(q) /\ reqs' = [reqs EXCEPT ![r] = q]
      <3>1. ReqOK([Idle EXCEPT !.op = "reward", !.terms = t])
        BY DEF ReqOK, Req, Idle
      <3>. QED  BY <2>9, <3>1 DEF AskReward, Goes, ReqOK
    <2>10. ASSUME NEW t \in Terms, NEW p \in Prize, AskEdit(r, p, t)
           PROVE  \E q \in Req : ReqOK(q) /\ reqs' = [reqs EXCEPT ![r] = q]
      <3>1. ReqOK([Idle EXCEPT !.op = "edit", !.prize = p, !.terms = t])
        BY DEF ReqOK, Req, Idle
      <3>. QED  BY <2>10, <3>1 DEF AskEdit, Goes, ReqOK
    <2>. QED  BY <1>1, <2>1, <2>2, <2>3, <2>4, <2>5, <2>6, <2>7, <2>8, <2>9, <2>10
              DEF Restore, SetStatus, BackfillLoginCard, EditReward, WriteReward
  <1>2. CASE \/ \E k \in Kid : LoginChild(k) \/ Earn(k) \/ GoalMetIntentsForChild(k)
             \/ \E p \in Prize : FulfillReward(p)
             \/ ChangePlan \/ PurgeScan \/ PurgeRecheck \/ EmptyTable \/ PurgeChild \/ Tick
             \/ UNCHANGED vars
    BY <1>2 DEF LoginChild, Earn, GoalMetIntentsForChild, FulfillReward, ChangePlan, PurgeScan,
       PurgeRecheck, EmptyTable, PurgeChild, Tick, vars
  <1>3. CASE Crash
    BY <1>3 DEF Crash
  <1>. QED  BY <1>1, <1>2, <1>3 DEF Next

LEMMA ClockSteps ==
  ASSUME [Next]_vars
  PROVE  now' = now \/ Tick
  BY StepKinds, LooksLeaves, WritesKidLeaves, WritesPrizeLeaves, UsesLeaves, PurgeMovesLeave
     DEF FulfillReward, ChangePlan, PurgeChild, Crash, vars

LEMMA BaseInit == Init => Base
  <1>1. ASSUME NEW k \in DOMAIN Given PROVE RowOK(NewKid(Given[k]))
    BY NewKidOK, ChildrenAssumption
  <1>2. Init => \A k \in Kid : kids[k] = IF k \in DOMAIN Given THEN NewKid(Given[k]) ELSE NoRow
    BY DEF Init
  <1>3. Init => \A k \in Kid : RowOK(kids[k])
    BY <1>1, <1>2, GoneOK
  <1>4. Init => kids \in [Kid -> KidRow]
    <2>1. \A k \in DOMAIN Given : NewKid(Given[k]) \in KidRow
      BY <1>1 DEF RowOK
    <2>2. NoRow \in KidRow
      BY GoneOK DEF RowOK
    <2>. QED  BY <2>1, <2>2 DEF Init
  <1>5. Init => now \in Nat /\ reqs \in [Request -> Req] /\ \A r \in Request : ReqOK(reqs[r])
    BY IdleOK DEF Init, ReqOK
  <1>. QED  BY <1>3, <1>4, <1>5 DEF Base

LEMMA BaseNext == Base /\ [Next]_vars => Base'
  <1> SUFFICES ASSUME Base, [Next]_vars PROVE Base'
    OBVIOUS
  <1>1. now' \in Nat
    <2>1. now' = now \/ Tick
      BY ClockSteps
    <2>. QED  BY <2>1 DEF Base, Tick
  <1>2. reqs' \in [Request -> Req] /\ \A r \in Request : ReqOK(reqs'[r])
    <2>1. CASE reqs' = [r \in Request |-> Idle]
      BY <2>1, IdleOK DEF ReqOK
    <2>2. CASE \E r \in Request, q \in Req : ReqOK(q) /\ reqs' = [reqs EXCEPT ![r] = q]
      BY <2>2 DEF Base
    <2>. QED  BY <2>1, <2>2, ReqSteps DEF Base
  <1>3. ASSUME NEW k \in Kid, NEW row, RowOK(row), kids' = [kids EXCEPT ![k] = row]
        PROVE  kids' \in [Kid -> KidRow] /\ \A j \in Kid : RowOK(kids'[j])
    <2>1. row \in KidRow
      BY <1>3 DEF RowOK
    <2>. QED  BY <1>3, <2>1 DEF Base
  <1>4. kids' \in [Kid -> KidRow] /\ \A k \in Kid : RowOK(kids'[k])
    <2>1. ASSUME NEW r \in Request, kids' # kids,
                 \/ Create(r) \/ Restore(r) \/ SetStatus(r) \/ UpdateCredentials(r)
                 \/ BackfillLoginCard(r)
          PROVE  \E k \in Kid, row \in KidRow : RowOK(row) /\ kids' = [kids EXCEPT ![k] = row]
      <3>1. CASE Create(r)
        <4>1. PICK k \in Kid : reqs[r].name \in Name
                             /\ kids' = [kids EXCEPT ![k] = NewKid(reqs[r].name)]
          BY <2>1, <3>1, CreateRow
        <4>2. RowOK(NewKid(reqs[r].name)) /\ NewKid(reqs[r].name) \in KidRow
          BY <4>1, NewKidOK DEF RowOK
        <4>. QED  BY <4>1, <4>2
      <3>2. CASE Restore(r)
        BY <2>1, <3>2, RestoreRow DEF RowOK
      <3>3. CASE SetStatus(r)
        BY <2>1, <3>3, StatusRow DEF RowOK
      <3>4. CASE UpdateCredentials(r)
        BY <2>1, <3>4, CredentialsRow DEF RowOK
      <3>5. CASE BackfillLoginCard(r)
        BY <2>1, <3>5, CardRow DEF RowOK
      <3>. QED  BY <2>1, <3>1, <3>2, <3>3, <3>4, <3>5
    <2>2. CASE PurgeChild /\ kids' # kids
      <3> DEFINE row == [NoRow EXCEPT !.born = TRUE]
      <3>1. kids' = [kids EXCEPT ![purge.kid] = row] /\ RowOK(row)
        BY <2>2, GoneOK DEF PurgeChild
      <3> HIDE DEF row
      <3>. QED  BY <3>1 DEF Base, RowOK
    <2>. QED  BY <1>3, <2>1, <2>2, KidSteps DEF Base
  <1>. QED  BY <1>1, <1>2, <1>4 DEF Base

LEMMA BaseAlways == Spec => []Base
  BY BaseInit, BaseNext, PTL DEF Spec

-------------------------------------------------------------------------------
(* The child limit. *)

\* The requests that have passed the slot check and not yet written.
Passed == {r \in Request : reqs[r].op \in {"create", "restore"}}

\* Who has passed the check may still write, whatever the limit has become.
SlotInv ==
  /\ limit \in Limits /\ peak \in Limits /\ limit <= peak
  /\ IsFiniteSet(Active)
  /\ Cardinality(Active) + Cardinality(Passed) <= peak + Cardinality(Request) - 1

LEMMA SlotNumbers ==
  ASSUME SlotInv
  PROVE  /\ limit \in Nat /\ peak \in Nat /\ Cardinality(Active) \in Nat
         /\ IsFiniteSet(Passed) /\ Cardinality(Passed) \in Nat
         /\ Cardinality(Request) \in Nat
  <1>1. IsFiniteSet(Passed) /\ IsFiniteSet(Request)
    BY ChildrenAssumption, FS_Subset DEF Passed
  <1>. QED  BY <1>1, ChildrenAssumption, FS_CardinalityType DEF SlotInv

\* Nobody joins.
LEMMA SlotsLess ==
  ASSUME SlotInv, Active' \subseteq Active, Passed' \subseteq Passed, UNCHANGED <<limit, peak>>
  PROVE  SlotInv'
  <1>1. IsFiniteSet(Active') /\ Cardinality(Active') <= Cardinality(Active)
    BY FS_Subset DEF SlotInv
  <1>2. IsFiniteSet(Passed') /\ Cardinality(Passed') <= Cardinality(Passed)
    BY SlotNumbers, FS_Subset
  <1>3. Cardinality(Active') \in Nat /\ Cardinality(Passed') \in Nat
    BY <1>1, <1>2, FS_CardinalityType
  <1> DEFINE a == Cardinality(Active)
             b == Cardinality(Active')
             p == Cardinality(Passed)
             q == Cardinality(Passed')
             n == Cardinality(Request)
  <1>4. a + p <= peak + n - 1 /\ b <= a /\ q <= p
    BY <1>1, <1>2 DEF SlotInv
  <1>5. {a, b, p, q, n, peak} \subseteq Nat
    BY <1>3, SlotNumbers
  <1> HIDE DEF a, b, p, q, n
  <1>6. b + q <= peak + n - 1
    BY <1>4, <1>5
  <1>. QED  BY <1>1, <1>6 DEF SlotInv, b, q, n

\* One that has passed the check takes a slot.
LEMMA SlotTaken ==
  ASSUME SlotInv, NEW r \in Passed, NEW k, Active' \subseteq Active \cup {k},
         Passed' \subseteq Passed \ {r}, UNCHANGED <<limit, peak>>
  PROVE  SlotInv'
  <1>1. /\ IsFiniteSet(Active \cup {k})
        /\ Cardinality(Active \cup {k}) <= Cardinality(Active) + 1
    <2>1. /\ IsFiniteSet(Active \cup {k})
          /\ Cardinality(Active \cup {k}) =
               IF k \in Active THEN Cardinality(Active) ELSE Cardinality(Active) + 1
      BY FS_AddElement DEF SlotInv
    <2>. QED  BY <2>1, SlotNumbers
  <1>2. IsFiniteSet(Active') /\ Cardinality(Active') <= Cardinality(Active \cup {k})
    BY <1>1, FS_Subset
  <1>3. /\ IsFiniteSet(Passed \ {r})
        /\ Cardinality(Passed \ {r}) = Cardinality(Passed) - 1
    BY SlotNumbers, FS_RemoveElement
  <1>4. IsFiniteSet(Passed') /\ Cardinality(Passed') <= Cardinality(Passed \ {r})
    BY <1>3, FS_Subset
  <1>5. /\ Cardinality(Active') \in Nat /\ Cardinality(Passed') \in Nat
        /\ Cardinality(Active \cup {k}) \in Nat
    BY <1>1, <1>2, <1>4, FS_CardinalityType
  <1> DEFINE a == Cardinality(Active)
             b == Cardinality(Active')
             c == Cardinality(Active \cup {k})
             p == Cardinality(Passed)
             q == Cardinality(Passed')
             n == Cardinality(Request)
  <1>6. a + p <= peak + n - 1 /\ b <= c /\ c <= a + 1 /\ q <= p - 1
    BY <1>1, <1>2, <1>3, <1>4 DEF SlotInv
  <1>7. {a, b, c, p, q, n, peak} \subseteq Nat
    BY <1>5, SlotNumbers
  <1> HIDE DEF a, b, c, p, q, n
  <1>8. b + q <= peak + n - 1
    BY <1>6, <1>7
  <1>. QED  BY <1>2, <1>8 DEF SlotInv, b, q, n

\* One passes the check, which has just counted.
LEMMA SlotPassed ==
  ASSUME SlotInv, SlotAvailable, Active' = Active, Passed' \subseteq Request,
         UNCHANGED <<limit, peak>>
  PROVE  SlotInv'
  <1>1. IsFiniteSet(Request)
    BY ChildrenAssumption
  <1>2. IsFiniteSet(Passed') /\ Cardinality(Passed') <= Cardinality(Request)
    BY <1>1, FS_Subset
  <1>3. Cardinality(Passed') \in Nat
    BY <1>2, FS_CardinalityType
  <1> DEFINE a == Cardinality(Active)
             q == Cardinality(Passed')
             n == Cardinality(Request)
  <1>4. a < limit /\ limit <= peak /\ q <= n
    BY <1>2 DEF SlotInv, SlotAvailable
  <1>5. {a, q, n, peak, limit} \subseteq Nat
    BY <1>3, SlotNumbers
  <1> HIDE DEF a, q, n
  <1>6. a + q <= peak + n - 1
    BY <1>4, <1>5
  <1>. QED  BY <1>6 DEF SlotInv, a, q, n

LEMMA SlotInit == Init => SlotInv
  <1> SUFFICES ASSUME Init PROVE SlotInv
    OBVIOUS
  <1>1. ASSUME NEW k \in Kid PROVE k \in Active <=> k \in DOMAIN Given
    BY NewKidOK, GoneOK, ChildrenAssumption DEF Init, Active
  <1>2. Active = DOMAIN Given
    BY <1>1, ChildrenAssumption DEF Active
  <1>3. Passed = {}
    BY DEF Init, Passed, Idle
  <1>4. Cardinality(Request) \in Nat /\ Cardinality(Request) # 0
    BY ChildrenAssumption, FS_CardinalityType, FS_EmptySet
  <1>5. Cardinality(Active) \in Nat /\ Cardinality(Passed) = 0 /\ IsFiniteSet(Active)
    BY <1>2, <1>3, ChildrenAssumption, FS_CardinalityType, FS_EmptySet
  <1>6. limit \in Limits /\ limit \in Nat /\ Cardinality(Active) <= limit /\ peak = limit
    BY <1>2, ChildrenAssumption DEF Init
  <1>. QED  BY <1>4, <1>5, <1>6 DEF SlotInv

LEMMA SlotNext == Base /\ SlotInv /\ [Next]_vars => SlotInv'
  <1> SUFFICES ASSUME Base, SlotInv, [Next]_vars PROVE SlotInv'
    OBVIOUS
  <1>1. ASSUME NEW r \in Request, NEW q, q.op \notin {"create", "restore"},
               reqs' = [reqs EXCEPT ![r] = q]
        PROVE  Passed' \subseteq Passed \ {r}
    BY <1>1 DEF Passed, Base
  <1>2. ASSUME NEW r \in Request, \/ \E n \in Name : AskCreate(r, n)
                                  \/ CheckSlot(r) /\ SlotAvailable
        PROVE  SlotInv'
    <2>1. Active' = Active /\ SlotAvailable /\ UNCHANGED <<limit, peak>>
      BY <1>2 DEF AskCreate, CheckSlot, Active, familyRows
    <2>. QED  BY <2>1, SlotPassed DEF Passed
  <1>3. ASSUME NEW r \in Request, Create(r)
        PROVE  SlotInv'
    <2>1. UNCHANGED <<limit, peak>> /\ r \in Passed
      BY <1>3 DEF Create, Passed
    <2>2. Passed' \subseteq Passed \ {r}
      <3>1. CASE Done(r)
        BY <1>1, <3>1 DEF Done, Idle
      <3>2. ASSUME NEW k \in Kid, Goes(r, [Idle EXCEPT !.op = "card", !.kid = k,
                                                       !.name = reqs[r].name])
            PROVE  Passed' \subseteq Passed \ {r}
        <4>1. [Idle EXCEPT !.op = "card", !.kid = k, !.name = reqs[r].name].op = "card"
          BY DEF Idle
        <4>. QED  BY <1>1, <3>2, <4>1 DEF Goes
      <3>3. Done(r) \/ \E k \in Kid : Goes(r, [Idle EXCEPT !.op = "card", !.kid = k,
                                                          !.name = reqs[r].name])
        BY <1>3 DEF Create
      <3>. QED  BY <3>1, <3>2, <3>3
    <2>3. \E k : Active' \subseteq Active \cup {k}
      <3>1. CASE kids' = kids
        BY <3>1 DEF Active
      <3>2. CASE kids' # kids
        <4>1. PICK k \in Kid : kids' = [kids EXCEPT ![k] = NewKid(reqs[r].name)]
          BY <1>3, <3>2, CreateRow
        <4>2. \A j \in Kid \ {k} : kids'[j] = kids[j]
          BY <4>1 DEF Base
        <4>. QED  BY <4>2 DEF Active
      <3>. QED  BY <3>1, <3>2
    <2>. QED  BY <2>1, <2>2, <2>3, SlotTaken
  <1>4. ASSUME NEW r \in Request, Restore(r)
        PROVE  SlotInv'
    <2>1. UNCHANGED <<limit, peak>> /\ r \in Passed
      BY <1>4 DEF Restore, Passed
    <2>2. Passed' \subseteq Passed \ {r}
      BY <1>1, <1>4 DEF Restore, Done, Idle
    <2>3. Active' \subseteq Active \cup {reqs[r].kid}
      <3>1. CASE kids' = kids
        BY <3>1 DEF Active
      <3>2. CASE kids' # kids
        BY <1>4, <3>2, RestoreRow DEF Active, Base
      <3>. QED  BY <3>1, <3>2
    <2>. QED  BY <2>1, <2>2, <2>3, SlotTaken
  <1>5. ASSUME NEW r \in Request,
               \/ CheckSlot(r) /\ ~SlotAvailable
               \/ SetStatus(r) \/ UpdateCredentials(r) \/ Reread(r) \/ BackfillLoginCard(r)
               \/ EditReward(r)
               \/ \E p \in Prize : WriteReward(r, p)
               \/ \E k \in Kid : AskRestore(r, k)
               \/ \E k \in Kid, op \in {"delete", "pause", "reactivate", "credentials"},
                     n \in Name \cup {NoName} : AskAbout(r, k, op, n)
               \/ \E t \in Terms : AskReward(r, t) \/ \E p \in Prize : AskEdit(r, p, t)
        PROVE  SlotInv'
    <2>1. UNCHANGED <<limit, peak>>
      BY <1>5 DEF CheckSlot, SetStatus, UpdateCredentials, Reread, BackfillLoginCard, EditReward,
         WriteReward, AskRestore, AskAbout, AskReward, AskEdit, familyRows
    <2>2. Passed' \subseteq Passed
      <3>1. \E q : q.op \notin {"create", "restore"} /\ reqs' = [reqs EXCEPT ![r] = q]
        <4>1. CASE Done(r)
          BY <4>1 DEF Done, Idle
        <4>2. CASE UpdateCredentials(r) /\ ~Done(r)
          <5>1. [reqs[r] EXCEPT !.op = "reread"].op = "reread"
            BY DEF Base, Req
          <5>. QED  BY <4>2, <5>1 DEF UpdateCredentials, Goes
        <4>3. CASE Reread(r) /\ ~Done(r)
          <5> DEFINE q == [reqs[r] EXCEPT !.op = "card", !.name = kids[reqs[r].kid].name]
          <5>1. q.op = "card" /\ Goes(r, q)
            BY <4>3 DEF Reread, Base, Req
          <5>. QED  BY <5>1 DEF Goes
        <4>4. ASSUME NEW k \in Kid, AskRestore(r, k)
              PROVE  \E q : q.op = "slot" /\ reqs' = [reqs EXCEPT ![r] = q]
          BY <4>4 DEF AskRestore, Goes, Idle
        <4>5. ASSUME NEW k \in Kid, NEW op \in {"delete", "pause", "reactivate", "credentials"},
                     NEW n \in Name \cup {NoName}, AskAbout(r, k, op, n)
              PROVE  \E q : q.op = op /\ reqs' = [reqs EXCEPT ![r] = q]
          BY <4>5 DEF AskAbout, Goes, Idle
        <4>6. ASSUME NEW t \in Terms, AskReward(r, t)
              PROVE  \E q : q.op = "reward" /\ reqs' = [reqs EXCEPT ![r] = q]
          BY <4>6 DEF AskReward, Goes, Idle
        <4>7. ASSUME NEW t \in Terms, NEW p \in Prize, AskEdit(r, p, t)
              PROVE  \E q : q.op = "edit" /\ reqs' = [reqs EXCEPT ![r] = q]
          BY <4>7 DEF AskEdit, Goes, Idle
        <4>. QED  BY <1>5, <4>1, <4>2, <4>3, <4>4, <4>5, <4>6, <4>7
                  DEF CheckSlot, SetStatus, BackfillLoginCard, EditReward, WriteReward
      <3>. QED  BY <1>1, <3>1
    <2>3. Active' \subseteq Active
      <3>1. CASE kids' = kids
        BY <3>1 DEF Active
      <3>2. CASE SetStatus(r) /\ kids' # kids
        BY <3>2, StatusRow DEF Active, Base
      <3>3. CASE UpdateCredentials(r) /\ kids' # kids
        BY <3>3, CredentialsRow DEF Active, Base
      <3>4. CASE BackfillLoginCard(r) /\ kids' # kids
        BY <3>4, CardRow DEF Active, Base
      <3>. QED  BY <1>5, <3>1, <3>2, <3>3, <3>4 DEF CheckSlot, Reread, EditReward, WriteReward,
                AskRestore, AskAbout, AskReward, AskEdit, familyRows
    <2>. QED  BY <2>1, <2>2, <2>3, SlotsLess
  <1>6. CASE ChangePlan
    <2>1. /\ limit' \in Limits /\ peak' = IF limit' > peak THEN limit' ELSE peak
          /\ Active' = Active /\ Passed' = Passed
      BY <1>6 DEF ChangePlan, Active, Passed
    <2>2. limit' \in Nat /\ peak' \in Limits /\ limit' <= peak' /\ peak <= peak' /\ peak' \in Nat
      BY <2>1, SlotNumbers, ChildrenAssumption DEF SlotInv
    <2>. QED  BY <2>1, <2>2, SlotNumbers DEF SlotInv
  <1>7. CASE PurgeChild
    <2>1. UNCHANGED <<limit, peak, reqs>>
      BY <1>7 DEF PurgeChild
    <2>2. Active' \subseteq Active
      <3>1. CASE kids' # kids
        <4>1. kids' = [kids EXCEPT ![purge.kid] = [NoRow EXCEPT !.born = TRUE]]
          BY <1>7, <3>1 DEF PurgeChild
        <4>2. [NoRow EXCEPT !.born = TRUE].there = FALSE
          BY GoneOK
        <4>. QED  BY <4>1, <4>2 DEF Active, Base
      <3>. QED  BY <3>1 DEF Active
    <2>. QED  BY <2>1, <2>2, SlotsLess DEF Passed
  <1>8. CASE Crash
    <2>1. Passed' = {}
      BY <1>8 DEF Crash, Passed, Idle
    <2>. QED  BY <1>8, <2>1, SlotsLess DEF Crash, Active, familyRows
  <1>9. CASE \/ \E k \in Kid : LoginChild(k) \/ Earn(k) \/ GoalMetIntentsForChild(k)
             \/ \E p \in Prize : FulfillReward(p)
             \/ PurgeScan \/ PurgeRecheck \/ EmptyTable \/ Tick \/ UNCHANGED vars
    <2>1. UNCHANGED <<limit, peak, kids, reqs>>
      BY <1>9 DEF LoginChild, Earn, GoalMetIntentsForChild, FulfillReward, PurgeScan,
         PurgeRecheck, EmptyTable, Tick, familyRows, vars
    <2>. QED  BY <2>1, SlotsLess DEF Active, Passed
  <1>. QED  BY <1>2, <1>3, <1>4, <1>5, <1>6, <1>7, <1>8, <1>9 DEF Next

\* The slot check and the write it permits are not one step: with any number of requests at
\* once, plans that change and children restored and created, a family passes its highest
\* limit by at most one less than the requests at once (assertSlotAvailable).
THEOREM OverrunBounded == Spec => []LimitOverrun
  <1>1. SlotInv => LimitOverrun
    <2> SUFFICES ASSUME SlotInv PROVE LimitOverrun
      OBVIOUS
    <2> DEFINE a == Cardinality(Active)
               p == Cardinality(Passed)
               n == Cardinality(Request)
    <2>1. a + p <= peak + n - 1
      BY DEF SlotInv
    <2>2. {a, p, n, peak} \subseteq Nat
      BY SlotNumbers
    <2> HIDE DEF a, p, n
    <2>3. a <= peak + n - 1
      BY <2>1, <2>2
    <2>. QED  BY <2>3 DEF LimitOverrun, a, n
  <1>. QED  BY <1>1, SlotInit, SlotNext, BaseAlways, PTL DEF Spec

-------------------------------------------------------------------------------
(* The purge. *)

LEMMA Tables ==
  /\ {"authSession", "reward", "session", "notification"} \subseteq Table
  /\ Len(DependentOrder) \in Nat /\ 0 \in 0..Len(DependentOrder)
  /\ \A i \in 1..Len(DependentOrder) : DependentOrder[i] \in Table
  <1>1. Len(DependentOrder) = 14
    BY DEF DependentOrder
  <1>3. /\ DependentOrder[14] = "authSession" /\ DependentOrder[10] = "reward"
        /\ DependentOrder[8] = "session" /\ DependentOrder[5] = "notification"
    BY DEF DependentOrder
  <1>4. DOMAIN DependentOrder = 1..14
    BY DEF DependentOrder
  <1>. QED  BY <1>1, <1>3, <1>4 DEF Table, ToSet

PurgeTypes == rows \in [Kid -> SUBSET Table] /\ purge \in Purge

LEMMA InsertRowTypes ==
  ASSUME PurgeTypes, NEW k \in Kid, NEW T \in Table, InsertRow(k, T)
  PROVE  /\ PurgeTypes' /\ purge'.due = purge.due /\ purge'.at = purge.at
         /\ purge'.kid = purge.kid /\ purge'.emptied = purge.emptied
  <1>1. purge' = purge \/ purge' = [purge EXCEPT !.late = @ \cup {T}]
    BY DEF InsertRow
  <1>2. rows' \in [Kid -> SUBSET Table]
    BY DEF InsertRow, PurgeTypes
  <1>. QED  BY <1>1, <1>2 DEF PurgeTypes, Purge

\* What a step does to the purge: a row may come late, a run starts, looks at a child again,
\* empties a table, ends a child, or all of it is lost.
LEMMA PurgeSteps ==
  ASSUME Base, PurgeTypes, [Next]_vars
  PROVE  /\ PurgeTypes'
         /\ \/ PurgeScan \/ PurgeRecheck \/ EmptyTable \/ PurgeChild \/ Crash
            \/ purge'.kid = purge.kid /\ purge'.at = purge.at
  <1>1. ASSUME \/ UNCHANGED <<rows, purge>>
               \/ \E k \in Kid, T \in Table : InsertRow(k, T)
        PROVE  PurgeTypes' /\ purge'.kid = purge.kid /\ purge'.at = purge.at
    BY <1>1, InsertRowTypes DEF PurgeTypes
  <1>2. ASSUME NEW r \in Request,
               \/ CheckSlot(r) \/ Create(r) \/ Restore(r) \/ SetStatus(r)
               \/ UpdateCredentials(r) \/ Reread(r) \/ BackfillLoginCard(r)
               \/ \E n \in Name : AskCreate(r, n)
               \/ \E k \in Kid : AskRestore(r, k)
               \/ \E k \in Kid, op \in {"delete", "pause", "reactivate", "credentials"},
                     n \in Name \cup {NoName} : AskAbout(r, k, op, n)
               \/ \E t \in Terms : AskReward(r, t) \/ \E p \in Prize : AskEdit(r, p, t)
        PROVE  UNCHANGED <<rows, purge>>
    BY <1>2 DEF AskCreate, AskRestore, AskAbout, CheckSlot, Create, Restore, SetStatus,
       UpdateCredentials, Reread, BackfillLoginCard, AskReward, AskEdit, familyRows
  <1>3. ASSUME NEW r \in Request, EditReward(r) \/ \E p \in Prize : WriteReward(r, p)
        PROVE  UNCHANGED <<rows, purge>> \/ \E k \in Kid, T \in Table : InsertRow(k, T)
    <2>1. reqs[r].terms \in Terms
      BY <1>3 DEF Base, ReqOK, EditReward, WriteReward
    <2>2. reqs[r].terms.kid \in Kid \cup {NoKid}
      BY <2>1, ChildrenAssumption
    <2>3. CASE EditReward(r)
      BY <2>2, <2>3, Tables DEF EditReward
    <2>4. CASE \E p \in Prize : WriteReward(r, p)
      BY <2>2, <2>4, Tables DEF WriteReward
    <2>. QED  BY <1>3, <2>3, <2>4
  <1>4. ASSUME NEW k \in Kid, LoginChild(k) \/ Earn(k) \/ GoalMetIntentsForChild(k)
        PROVE  \E T \in Table : InsertRow(k, T)
    BY <1>4, Tables DEF LoginChild, Earn, GoalMetIntentsForChild
  <1>5. CASE (\E p \in Prize : FulfillReward(p)) \/ ChangePlan \/ Tick \/ UNCHANGED vars
    BY <1>1, <1>5 DEF FulfillReward, ChangePlan, Tick, familyRows, vars
  <1>6. CASE PurgeScan
    <2>1. purge' = [NoPurge EXCEPT !.due = {k \in Kid : PurgeDue(k, now)}, !.at = now]
      BY <1>6 DEF PurgeScan
    <2> DEFINE due == {k \in Kid : PurgeDue(k, now)}
    <2>2. due \in SUBSET Kid /\ now \in Nat
      BY DEF Base
    <2> HIDE DEF due
    <2>3. NoPurge \in Purge
      BY Tables DEF NoPurge, Purge
    <2>4. [NoPurge EXCEPT !.due = due, !.at = now] \in Purge
      BY <2>2, <2>3 DEF Purge
    <2>. QED  BY <1>6, <2>1, <2>4 DEF PurgeScan, PurgeTypes, familyRows, due
  <1>7. CASE PurgeRecheck
    <2>1. PICK k \in purge.due, j \in Kid \cup {NoKid} :
            purge' = [purge EXCEPT !.due = @ \ {k}, !.kid = j, !.emptied = 0, !.late = {}]
      BY <1>7 DEF PurgeRecheck, PurgeTypes, Purge
    <2>2. purge \in Purge
      BY DEF PurgeTypes
    <2>3. purge' = [due |-> purge.due \ {k}, at |-> purge.at, kid |-> j, emptied |-> 0,
                    late |-> {}]
      BY <2>1, <2>2 DEF Purge
    <2>4. purge' \in Purge
      BY <2>2, <2>3, Tables DEF Purge
    <2>. QED  BY <1>7, <2>4 DEF PurgeRecheck, PurgeTypes, familyRows
  <1>8. CASE EmptyTable
    <2>1. /\ purge.emptied < Len(DependentOrder)
          /\ \/ purge' = [purge EXCEPT !.kid = NoKid]
             \/ purge' = [purge EXCEPT !.emptied = @ + 1]
      BY <1>8 DEF EmptyTable
    <2>2. purge' \in Purge
      BY <2>1, Tables DEF Purge, PurgeTypes
    <2>. QED  BY <1>8, <2>2 DEF EmptyTable, PurgeTypes, familyRows
  <1>9. CASE PurgeChild
    <2>1. purge' = [purge EXCEPT !.kid = NoKid] /\ rows' \in [Kid -> SUBSET Table]
      BY <1>9 DEF PurgeChild, PurgeTypes
    <2>. QED  BY <1>9, <2>1 DEF PurgeTypes, Purge
  <1>10. CASE Crash
    <2>1. NoPurge \in Purge
      BY Tables DEF NoPurge, Purge
    <2>. QED  BY <1>10, <2>1 DEF Crash, PurgeTypes, familyRows
  <1>. QED  BY <1>1, <1>2, <1>3, <1>4, <1>5, <1>6, <1>7, <1>8, <1>9, <1>10 DEF Next

\* The child whose purge is under way was due when the run began, and still is unless it was
\* restored or deleted again since.
PurgeInv ==
  /\ PurgeTypes
  /\ purge.at <= now
  /\ purge.kid \in Kid \ touched => PurgeDue(purge.kid, purge.at)

\* What makes a child due is kept by every step but its restore, its deletion and its purge.
LEMMA DueKept ==
  ASSUME Base, [Next]_vars, NEW k \in Kid, NEW t \in Nat, PurgeDue(k, t)
  PROVE  \/ PurgeDue(k, t)'
         \/ PurgeChild
         \/ \E r \in Request : (Restore(r) \/ SetStatus(r)) /\ touched' = Touch(k)
  <1>1. kids[k].there /\ kids[k].deletedAt # None /\ kids[k].born
    BY DEF PurgeDue, Base, RowOK
  <1>2. ASSUME /\ kids'[k].there /\ kids'[k].deletedAt = kids[k].deletedAt
               /\ kids'[k].purgeAfter = kids[k].purgeAfter
        PROVE  PurgeDue(k, t)'
    BY <1>2 DEF PurgeDue
  <1>3. ASSUME NEW r \in Request, Create(r), kids' # kids PROVE kids'[k] = kids[k]
    BY <1>1, <1>3, CreateRow DEF Base
  <1>4. ASSUME NEW r \in Request, kids' # kids,
               \/ Restore(r) \/ SetStatus(r) \/ UpdateCredentials(r) \/ BackfillLoginCard(r),
               kids'[k] # kids[k]
        PROVE  k = reqs[r].kid
    BY <1>4, RestoreRow, StatusRow, CredentialsRow, CardRow DEF Base
  <1>5. ASSUME NEW r \in Request, Restore(r), kids' # kids, k = reqs[r].kid
        PROVE  touched' = Touch(k)
    BY <1>5, RestoreRow
  <1>6. ASSUME NEW r \in Request, SetStatus(r), kids' # kids, k = reqs[r].kid
        PROVE  \/ touched' = Touch(k)
               \/ /\ kids'[k].there /\ kids'[k].deletedAt = kids[k].deletedAt
                  /\ kids'[k].purgeAfter = kids[k].purgeAfter
    BY <1>6, StatusRow
  <1>7. ASSUME NEW r \in Request, UpdateCredentials(r), kids' # kids, k = reqs[r].kid
        PROVE  /\ kids'[k].there /\ kids'[k].deletedAt = kids[k].deletedAt
               /\ kids'[k].purgeAfter = kids[k].purgeAfter
    BY <1>7, CredentialsRow
  <1>8. ASSUME NEW r \in Request, BackfillLoginCard(r), kids' # kids, k = reqs[r].kid
        PROVE  /\ kids'[k].there /\ kids'[k].deletedAt = kids[k].deletedAt
               /\ kids'[k].purgeAfter = kids[k].purgeAfter
    BY <1>8, CardRow
  <1>9. CASE kids'[k] = kids[k]
    BY <1>1, <1>2, <1>9
  <1>. QED  BY <1>2, <1>3, <1>4, <1>5, <1>6, <1>7, <1>8, <1>9, KidSteps

LEMMA TouchedSteps ==
  ASSUME Base, [Next]_vars, ~PurgeRecheck
  PROVE  touched \subseteq touched'
  <1>1. ASSUME NEW r \in Request, WritesKid(r)
        PROVE  touched \subseteq touched'
    BY <1>1 DEF WritesKid, Create, Restore, SetStatus, UpdateCredentials, BackfillLoginCard,
                Touch
  <1>2. CASE PurgeMoves
    BY <1>2 DEF PurgeMoves, PurgeScan, EmptyTable
  <1>. QED  BY <1>1, <1>2, StepKinds, LooksLeaves, WritesPrizeLeaves, UsesLeaves
            DEF FulfillReward, ChangePlan, PurgeChild, Crash, Tick, vars

LEMMA PurgeInit == Init => PurgeInv
  <1>1. NoPurge \in Purge /\ NoPurge.kid = NoKid /\ NoPurge.at = 0
    BY Tables DEF NoPurge, Purge
  <1>. QED  BY <1>1, ChildrenAssumption DEF Init, PurgeInv, PurgeTypes

LEMMA PurgeNext == Base /\ PurgeInv /\ [Next]_vars => PurgeInv'
  <1> SUFFICES ASSUME Base, PurgeInv, [Next]_vars PROVE PurgeInv'
    OBVIOUS
  <1>1. PurgeTypes' /\ purge \in Purge
    BY PurgeSteps DEF PurgeInv, PurgeTypes
  <1>2. now' >= now /\ now \in Nat /\ now' \in Nat
    <2>1. now' = now \/ Tick
      BY ClockSteps
    <2>. QED  BY <2>1 DEF Base, Tick
  <1>3. purge.at \in Nat /\ purge.kid \in Kid \cup {NoKid} /\ NoKid \notin Kid
    BY <1>1, ChildrenAssumption DEF Purge
  <1>4. CASE purge'.kid = purge.kid /\ purge'.at = purge.at /\ ~PurgeRecheck /\ ~PurgeChild
    <2>1. purge'.at <= now'
      BY <1>2, <1>3, <1>4 DEF PurgeInv
    <2>2. ASSUME purge'.kid \in Kid \ touched' PROVE PurgeDue(purge.kid, purge.at)'
      <3>0. PICK k \in Kid, t \in Nat : k = purge.kid /\ t = purge.at
        BY <1>3, <1>4, <2>2
      <3>1. PurgeDue(k, t)
        BY <1>4, <2>2, <3>0, TouchedSteps DEF PurgeInv
      <3>2. touched' # Touch(k)
        BY <1>4, <2>2, <3>0 DEF Touch
      <3>3. PurgeDue(k, t)'
        BY <1>4, <3>1, <3>2, DueKept
      <3>. QED  BY <1>4, <3>0, <3>3
    <2>. QED  BY <1>1, <2>1, <2>2 DEF PurgeInv
  <1>5. CASE PurgeScan
    <2>1. purge'.at = now /\ purge'.kid = NoKid /\ now' = now
      BY <1>5 DEF PurgeScan, NoPurge
    <2>. QED  BY <1>1, <1>2, <1>3, <2>1 DEF PurgeInv
  <1>6. CASE PurgeRecheck
    <2>1. PICK k \in purge.due :
            purge' = [purge EXCEPT !.due = @ \ {k},
                                   !.kid = IF PurgeDue(k, purge.at) THEN k ELSE NoKid,
                                   !.emptied = 0, !.late = {}]
      BY <1>6 DEF PurgeRecheck
    <2> DEFINE j == IF PurgeDue(k, purge.at) THEN k ELSE NoKid
    <2>2. j \in Kid => PurgeDue(j, purge.at)
      BY <1>3
    <2> HIDE DEF j
    <2>3. purge'.at = purge.at /\ purge'.kid = j
      BY <1>1, <2>1 DEF j, Purge
    <2>4. kids' = kids
      BY <1>6 DEF PurgeRecheck, familyRows
    <2>5. purge'.kid \in Kid => PurgeDue(purge.kid, purge.at)'
      BY <2>2, <2>3, <2>4 DEF PurgeDue
    <2>. QED  BY <1>1, <1>2, <1>3, <2>3, <2>5 DEF PurgeInv
  <1>7. CASE EmptyTable
    <2>1. /\ purge'.at = purge.at /\ purge'.kid \in {purge.kid, NoKid}
          /\ UNCHANGED <<now, kids, touched>>
      BY <1>1, <1>7 DEF EmptyTable, Purge, familyRows
    <2>. QED  BY <1>1, <1>2, <1>3, <2>1 DEF PurgeInv, PurgeDue
  <1>8. CASE PurgeChild
    <2>1. purge'.at = purge.at /\ purge'.kid = NoKid
      BY <1>1, <1>8 DEF PurgeChild, Purge
    <2>. QED  BY <1>1, <1>2, <1>3, <2>1 DEF PurgeInv
  <1>9. CASE Crash
    <2>1. purge'.at = 0 /\ purge'.kid = NoKid
      BY <1>9 DEF Crash, NoPurge
    <2>. QED  BY <1>1, <1>2, <1>3, <2>1 DEF PurgeInv
  <1>. QED  BY <1>4, <1>5, <1>6, <1>7, <1>8, <1>9, PurgeSteps DEF PurgeInv

\* The hourly purge deletes a child only when the window of its latest deletion is over,
\* unless it was restored or deleted again while the purge's own transaction was open: the
\* second look at the row is enough, whatever happened since the scan
\* (purgeDueSoftDeleted, restoreChild, softDeleteChild).
THEOREM RestoredSpared == Spec => PurgeSparesRestored
  <1>1. ASSUME Base, PurgeInv, [Next]_vars, NEW k \in Kid, kids[k].there, ~kids'[k].there
        PROVE  k \in touched \/ (kids[k].deletedAt # None /\ kids[k].purgeAfter <= now)
    <2>1. PurgeChild
      <3>1. ASSUME NEW r \in Request, kids' # kids,
                   \/ Create(r) \/ Restore(r) \/ SetStatus(r)
                   \/ UpdateCredentials(r) \/ BackfillLoginCard(r)
            PROVE  kids'[k].there
        <4>1. kids[k].born
          BY <1>1 DEF Base, RowOK
        <4>2. CASE Create(r)
          BY <1>1, <3>1, <4>1, <4>2, CreateRow DEF Base
        <4>3. CASE Restore(r)
          BY <1>1, <3>1, <4>3, RestoreRow DEF Base
        <4>4. CASE SetStatus(r)
          BY <1>1, <3>1, <4>4, StatusRow DEF Base
        <4>5. CASE UpdateCredentials(r)
          BY <1>1, <3>1, <4>5, CredentialsRow DEF Base
        <4>6. CASE BackfillLoginCard(r)
          BY <1>1, <3>1, <4>6, CardRow DEF Base
        <4>. QED  BY <3>1, <4>2, <4>3, <4>4, <4>5, <4>6
      <3>. QED  BY <1>1, <3>1, KidSteps
    <2>2. k = purge.kid
      BY <1>1, <2>1 DEF PurgeChild, Base
    <2>3. k \in touched \/ PurgeDue(k, purge.at)
      BY <1>1, <2>2 DEF PurgeInv
    <2>4. purge.at \in Nat /\ now \in Nat /\ purge.at <= now
      BY <1>1 DEF PurgeInv, PurgeTypes, Purge, Base
    <2>5. kids[k].purgeAfter # None => kids[k].purgeAfter \in Nat
      BY <1>1 DEF Base, KidRow
    <2>. QED  BY <2>3, <2>4, <2>5 DEF PurgeDue
  <1>2. Base /\ PurgeInv /\ [Next]_vars =>
          [\A k \in Kid : kids[k].there /\ ~kids'[k].there =>
             \/ k \in touched
             \/ kids[k].deletedAt # None /\ kids[k].purgeAfter <= now]_vars
    BY <1>1
  <1>. QED  BY <1>2, PurgeInit, PurgeNext, BaseAlways, PTL DEF Spec, PurgeSparesRestored

-------------------------------------------------------------------------------
(* Rewards. *)

PrizeOK(row) == row \in PrizeRow /\ (row.status = "FULFILLED" <=> row.fulfilledAt # None)

PrizeInv == prizes \in [Prize -> PrizeRow] /\ \A p \in Prize : PrizeOK(prizes[p])

\* A reward is created, edited, fulfilled or purged; what is fulfilled stays so, with its time,
\* through every one of these.
LEMMA PrizeSteps ==
  ASSUME Base, PrizeInv, [Next]_vars
  PROVE  /\ PrizeInv'
         /\ \A p \in Prize : prizes[p].status = "FULFILLED" =>
              \/ prizes'[p].status = "gone"
              \/ /\ prizes'[p].status = "FULFILLED"
                 /\ prizes'[p].fulfilledAt = prizes[p].fulfilledAt
  <1> DEFINE Kept(p) == prizes[p].status = "FULFILLED" =>
               \/ prizes'[p].status = "gone"
               \/ /\ prizes'[p].status = "FULFILLED"
                  /\ prizes'[p].fulfilledAt = prizes[p].fulfilledAt
  <1>1. ASSUME prizes' = prizes PROVE PrizeInv' /\ \A p \in Prize : Kept(p)
    BY <1>1 DEF PrizeInv
  <1>2. ASSUME NEW p \in Prize, NEW row, PrizeOK(row), prizes' = [prizes EXCEPT ![p] = row],
               \/ prizes[p].status # "FULFILLED"
               \/ row.status = prizes[p].status /\ row.fulfilledAt = prizes[p].fulfilledAt
        PROVE  PrizeInv' /\ \A q \in Prize : Kept(q)
    <2>1. row \in PrizeRow /\ prizes'[p] = row
      BY <1>2 DEF PrizeOK, PrizeInv
    <2>2. PrizeInv'
      BY <1>2, <2>1 DEF PrizeInv
    <2>3. \A q \in Prize \ {p} : prizes'[q] = prizes[q]
      BY <1>2 DEF PrizeInv
    <2>. QED  BY <1>2, <2>1, <2>2, <2>3
  <1>3. ASSUME NEW r \in Request, NEW p \in Prize, WriteReward(r, p), prizes' # prizes
        PROVE  PrizeInv' /\ \A q \in Prize : Kept(q)
    <2> DEFINE row == [status |-> "ACTIVE", terms |-> reqs[r].terms, fulfilledAt |-> None]
    <2>1. reqs[r].terms \in Terms
      BY <1>3 DEF WriteReward, Base, ReqOK
    <2>2. prizes' = [prizes EXCEPT ![p] = row] /\ prizes[p].status # "FULFILLED"
      BY <1>3 DEF WriteReward
    <2>3. PrizeOK(row)
      BY <2>1 DEF PrizeOK, PrizeRow
    <2> HIDE DEF row
    <2>. QED  BY <1>2, <2>2, <2>3
  <1>4. ASSUME NEW r \in Request, EditReward(r), prizes' # prizes
        PROVE  PrizeInv' /\ \A q \in Prize : Kept(q)
    <2> DEFINE p == reqs[r].prize
               t == reqs[r].terms
               row == [prizes[p] EXCEPT !.terms = t]
    <2>1. t \in Terms /\ p \in Prize /\ PrizeOK(prizes[p])
      BY <1>4 DEF EditReward, Base, ReqOK, PrizeInv
    <2>2. prizes' = [prizes EXCEPT ![p].terms = t]
      BY <1>4 DEF EditReward
    <2>3. prizes' = [prizes EXCEPT ![p] = row]
      BY <2>1, <2>2 DEF PrizeInv
    <2>4. /\ PrizeOK(row) /\ row.status = prizes[p].status
          /\ row.fulfilledAt = prizes[p].fulfilledAt
      BY <2>1 DEF PrizeOK, PrizeRow
    <2> HIDE DEF row, p
    <2>. QED  BY <1>2, <2>1, <2>3, <2>4
  <1>5. ASSUME NEW p \in Prize, FulfillReward(p)
        PROVE  PrizeInv' /\ \A q \in Prize : Kept(q)
    <2> DEFINE row == [prizes[p] EXCEPT !.status = "FULFILLED", !.fulfilledAt = now]
    <2>1. prizes[p].status = "ACTIVE" /\ PrizeOK(prizes[p]) /\ now \in Nat
      BY <1>5 DEF FulfillReward, Base, PrizeInv
    <2>2. prizes' = [prizes EXCEPT ![p].status = "FULFILLED", ![p].fulfilledAt = now]
      BY <1>5 DEF FulfillReward
    <2>3. prizes' = [prizes EXCEPT ![p] = row]
      BY <2>2 DEF PrizeInv
    <2>4. row \in PrizeRow /\ row.status = "FULFILLED" /\ row.fulfilledAt = now
      BY <2>1 DEF PrizeOK, PrizeRow
    <2>5. PrizeOK(row)
      BY <2>1, <2>4, NoneIs DEF PrizeOK
    <2> HIDE DEF row
    <2>. QED  BY <1>2, <2>1, <2>3, <2>5
  <1>6. ASSUME PurgeChild, prizes' # prizes
        PROVE  PrizeInv' /\ \A q \in Prize : Kept(q)
    <2>1. ASSUME NEW p \in Prize
          PROVE  /\ prizes'[p] \in {prizes[p],
                      [prizes[p] EXCEPT !.status = "gone", !.fulfilledAt = None]}
                 /\ prizes' = [q \in Prize |-> prizes'[q]]
      BY <1>6 DEF PurgeChild
    <2>2. ASSUME NEW p \in Prize PROVE PrizeOK(prizes'[p]) /\ Kept(p)
      <3>1. prizes[p] \in PrizeRow /\ PrizeOK(prizes[p])
        BY DEF PrizeInv
      <3>2. CASE prizes'[p] = prizes[p]
        BY <3>1, <3>2
      <3>3. CASE prizes'[p] = [prizes[p] EXCEPT !.status = "gone", !.fulfilledAt = None]
        BY <3>1, <3>3 DEF PrizeOK, PrizeRow
      <3>. QED  BY <2>1, <3>2, <3>3
    <2>3. prizes' \in [Prize -> PrizeRow]
      <3>1. prizes' = [q \in Prize |->
              IF prizes[q].terms.kid = purge.kid /\ prizes[q].status # "none"
              THEN [prizes[q] EXCEPT !.status = "gone", !.fulfilledAt = None] ELSE prizes[q]]
        BY <1>6 DEF PurgeChild
      <3>2. \A q \in Prize : prizes'[q] \in PrizeRow
        BY <2>2 DEF PrizeOK
      <3>. QED  BY <3>1, <3>2
    <2>. QED  BY <2>2, <2>3 DEF PrizeInv
  <1>7. \/ prizes' = prizes
        \/ \E r \in Request : EditReward(r) \/ \E p \in Prize : WriteReward(r, p)
        \/ \E p \in Prize : FulfillReward(p)
        \/ PurgeChild
    BY StepKinds, LooksLeaves, WritesKidLeaves, UsesLeaves, PurgeMovesLeave
       DEF WritesPrize, ChangePlan, Crash, Tick, rewardRows, vars
  <1>. QED  BY <1>1, <1>3, <1>4, <1>5, <1>6, <1>7

LEMMA PrizeInit == Init => PrizeInv
  <1> DEFINE row == [status |-> "none", terms |-> CHOOSE t \in Terms : TRUE,
                     fulfilledAt |-> None]
  <1>1. (CHOOSE t \in Terms : TRUE) \in Terms
    BY ChildrenAssumption
  <1>2. PrizeOK(row) /\ row \in PrizeRow
    BY <1>1 DEF PrizeOK, PrizeRow
  <1>3. Init => prizes = [p \in Prize |-> row]
    BY DEF Init
  <1> HIDE DEF row
  <1>. QED  BY <1>2, <1>3 DEF PrizeInv

LEMMA PrizeNext == Base /\ PrizeInv /\ [Next]_vars => PrizeInv'
  BY PrizeSteps

\* Of any number of fulfilments, edits and purges at once, the first fulfilment stands: its
\* time does not move and the reward never becomes active again (fulfillReward).
THEOREM FulfilledOnceOnly == Spec => FulfilledOnce
  <1>1. Base /\ PrizeInv /\ [Next]_vars =>
          [\A p \in Prize : prizes[p].status = "FULFILLED" =>
             \/ prizes'[p].status = "gone"
             \/ prizes'[p].status = "FULFILLED" /\ prizes'[p].fulfilledAt = prizes[p].fulfilledAt]_vars
    BY PrizeSteps
  <1>. QED  BY <1>1, PrizeInit, PrizeNext, BaseAlways, PTL DEF Spec, FulfilledOnce

-------------------------------------------------------------------------------
(* Type correctness. *)

\* No username is held twice, a card that is offered has been stored, only a child that is
\* there is signed in.
NameInv ==
  /\ cards \in [Kid -> Name \cup {NoName}]
  /\ signedIn \subseteq {k \in Kid : kids[k].there}
  /\ \A k \in Kid : kids[k].card => cards[k] \in Name
  /\ \A k, j \in Kid : kids[k].there /\ kids[j].there /\ k # j => kids[k].name # kids[j].name

LEMMA NameInit == Init => NameInv
  <1> SUFFICES ASSUME Init PROVE NameInv
    OBVIOUS
  <1>1. ASSUME NEW k \in Kid
        PROVE  /\ kids[k].card = FALSE
               /\ k \in DOMAIN Given => kids[k].there /\ kids[k].name = Given[k]
               /\ k \notin DOMAIN Given => ~kids[k].there
    BY NewKidOK, GoneOK, ChildrenAssumption DEF Init
  <1>2. signedIn = DOMAIN Given /\ cards = [k \in Kid |-> NoName]
    BY DEF Init
  <1>3. ASSUME NEW k \in Kid, NEW j \in Kid, kids[k].there, kids[j].there, k # j
        PROVE  kids[k].name # kids[j].name
    <2>1. k \in DOMAIN Given /\ j \in DOMAIN Given
      BY <1>1, <1>3
    <2>2. Given[k] # Given[j]
      BY <1>3, <2>1, ChildrenAssumption
    <2>. QED  BY <1>1, <2>1, <2>2
  <1>4. signedIn \subseteq {k \in Kid : kids[k].there}
    BY <1>1, <1>2, ChildrenAssumption
  <1>. QED  BY <1>1, <1>2, <1>3, <1>4 DEF NameInv

LEMMA NameNext == Base /\ NameInv /\ [Next]_vars => NameInv'
  <1> SUFFICES ASSUME Base, NameInv, [Next]_vars PROVE NameInv'
    OBVIOUS
  <1>1. CASE UNCHANGED <<kids, signedIn, cards>>
    BY <1>1 DEF NameInv
  <1>2. ASSUME NEW k \in Kid, NEW row, kids' = [kids EXCEPT ![k] = row],
               row.card => cards'[k] \in Name,
               row.there \/ k \notin signedIn',
               row.there => \/ kids[k].there /\ row.name = kids[k].name
                            \/ FreeFor(k, row.name),
               signedIn' \subseteq signedIn,
               cards' \in [Kid -> Name \cup {NoName}],
               \A j \in Kid \ {k} : cards'[j] = cards[j]
        PROVE  NameInv'
    <2>1. /\ kids'[k] = row
          /\ \A j \in Kid \ {k} : kids'[j] = kids[j]
      BY <1>2 DEF Base
    <2>2. signedIn' \subseteq {j \in Kid : kids'[j].there}
      BY <1>2, <2>1 DEF NameInv
    <2>3. \A j \in Kid : kids'[j].card => cards'[j] \in Name
      BY <1>2, <2>1 DEF NameInv
    <2>4. ASSUME NEW i \in Kid, NEW j \in Kid, kids'[i].there, kids'[j].there, i # j
          PROVE  kids'[i].name # kids'[j].name
      BY <1>2, <2>1, <2>4 DEF NameInv, FreeFor
    <2>. QED  BY <1>2, <2>2, <2>3, <2>4 DEF NameInv
  <1>3. ASSUME NEW r \in Request, Create(r), kids' # kids PROVE NameInv'
    <2>1. PICK k \in Kid :
            /\ ~kids[k].there /\ reqs[r].name \in Name /\ reqs[r].name \notin TakenNames
            /\ kids' = [kids EXCEPT ![k] = NewKid(reqs[r].name)]
      BY <1>3, CreateRow
    <2>2. FreeFor(k, reqs[r].name)
      BY <2>1 DEF FreeFor, TakenNames
    <2>3. UNCHANGED <<signedIn, cards>>
      BY <1>3 DEF Create
    <2> DEFINE row == NewKid(reqs[r].name)
    <2>4. row.there /\ row.name = reqs[r].name /\ row.card = FALSE
      BY <2>1, NewKidOK
    <2> HIDE DEF row
    <2>. QED  BY <1>2, <2>1, <2>2, <2>3, <2>4 DEF NameInv, row
  <1>4. ASSUME NEW r \in Request, Restore(r), kids' # kids PROVE NameInv'
    <2>1. UNCHANGED <<signedIn, cards>>
      BY <1>4 DEF Restore
    <2>. QED  BY <1>2, <1>4, <2>1, RestoreRow DEF NameInv
  <1>5. ASSUME NEW r \in Request, SetStatus(r), kids' # kids PROVE NameInv'
    <2>1. signedIn' \subseteq signedIn /\ UNCHANGED cards
      BY <1>5 DEF SetStatus
    <2>. QED  BY <1>2, <1>5, <2>1, StatusRow DEF NameInv
  <1>6. ASSUME NEW r \in Request, UpdateCredentials(r), kids' # kids PROVE NameInv'
    <2>1. signedIn' \subseteq signedIn /\ UNCHANGED cards
      BY <1>6 DEF UpdateCredentials
    <2>. QED  BY <1>2, <1>6, <2>1, CredentialsRow DEF NameInv
  <1>7. ASSUME NEW r \in Request, BackfillLoginCard(r), kids' # kids PROVE NameInv'
    <2>1. UNCHANGED signedIn /\ reqs[r].name \in Name
      BY <1>7 DEF BackfillLoginCard, Base, ReqOK
    <2>2. /\ reqs[r].kid \in Kid /\ kids[reqs[r].kid].there
          /\ cards' = [cards EXCEPT ![reqs[r].kid] = reqs[r].name]
      BY <1>7, CardRow
    <2>3. /\ cards' \in [Kid -> Name \cup {NoName}] /\ cards'[reqs[r].kid] \in Name
          /\ \A j \in Kid \ {reqs[r].kid} : cards'[j] = cards[j]
      BY <2>1, <2>2 DEF NameInv
    <2> DEFINE k == reqs[r].kid
    <2>4. /\ k \in Kid /\ kids' = [kids EXCEPT ![k] = kids'[k]]
          /\ kids'[k].there /\ kids[k].there /\ kids'[k].name = kids[k].name
      BY <1>7, CardRow
    <2> HIDE DEF k
    <2>. QED  BY <1>2, <2>1, <2>3, <2>4 DEF k
  <1>8. CASE PurgeChild /\ kids' # kids
    <2>1. /\ kids' = [kids EXCEPT ![purge.kid] = [NoRow EXCEPT !.born = TRUE]]
          /\ signedIn' = signedIn \ {purge.kid} /\ UNCHANGED cards
      BY <1>8 DEF PurgeChild
    <2> DEFINE row == [NoRow EXCEPT !.born = TRUE]
    <2>2. row.there = FALSE /\ row.card = FALSE /\ purge.kid \in Kid
      BY <1>8, <2>1, GoneOK DEF Base
    <2> HIDE DEF row
    <2>. QED  BY <1>2, <2>1, <2>2 DEF NameInv, row
  <1>9. ASSUME kids' = kids, ~UNCHANGED <<signedIn, cards>>
        PROVE  NameInv'
    <2>1. ASSUME NEW r \in Request, SetStatus(r) \/ UpdateCredentials(r)
          PROVE  signedIn' \subseteq signedIn /\ UNCHANGED cards
      BY <2>1 DEF SetStatus, UpdateCredentials
    <2>2. ASSUME NEW r \in Request, BackfillLoginCard(r)
          PROVE  /\ UNCHANGED signedIn /\ cards' \in [Kid -> Name \cup {NoName}]
                 /\ \A k \in Kid : cards[k] \in Name => cards'[k] \in Name
      <3>1. reqs[r].name \in Name /\ reqs[r].kid \in Kid
        BY <2>2 DEF BackfillLoginCard, Base, ReqOK
      <3>. QED  BY <2>2, <3>1 DEF BackfillLoginCard, NameInv
    <2>3. ASSUME NEW k \in Kid, LoginChild(k)
          PROVE  signedIn' \subseteq {j \in Kid : kids[j].there} /\ UNCHANGED cards
      BY <2>3 DEF LoginChild, NameInv
    <2>4. CASE PurgeChild
      BY <1>9, <2>4 DEF PurgeChild, NameInv
    <2>5. \/ \E r \in Request : SetStatus(r) \/ UpdateCredentials(r) \/ BackfillLoginCard(r)
          \/ \E k \in Kid : LoginChild(k)
          \/ PurgeChild
      BY <1>9, StepKinds, LooksLeaves, WritesPrizeLeaves, PurgeMovesLeave
         DEF WritesKid, Create, Restore, Uses, Earn, GoalMetIntentsForChild, FulfillReward,
             ChangePlan, Crash, Tick, familyRows, vars
    <2>. QED  BY <1>9, <2>1, <2>2, <2>3, <2>4, <2>5 DEF NameInv
  <1>. QED  BY <1>1, <1>3, <1>4, <1>5, <1>6, <1>7, <1>8, <1>9, KidSteps

CountTypes ==
  /\ now \in 0..MaxTime /\ asked \in 0..MaxAsked /\ crashes \in 0..MaxCrash
  /\ earned \in [Kid -> [{"XP", "SESSIONS"} -> Nat]] /\ claims \subseteq Prize
  /\ touched \subseteq Kid

LEMMA CountInit == Init => CountTypes
  BY ChildrenAssumption DEF Init, CountTypes

LEMMA CountNext == Base /\ PurgeTypes /\ CountTypes /\ [Next]_vars => CountTypes'
  <1> SUFFICES ASSUME Base, PurgeTypes, CountTypes, [Next]_vars PROVE CountTypes'
    OBVIOUS
  <1>1. touched' \subseteq Kid
    <2>1. \/ touched' = touched \/ touched' = {}
          \/ \E k \in Kid : touched' = Touch(k)
      <3>1. ASSUME NEW r \in Request, Restore(r) \/ SetStatus(r)
            PROVE  touched' = touched \/ \E k \in Kid : touched' = Touch(k)
        <4>1. reqs[r].kid \in Kid
          BY <3>1 DEF Restore, SetStatus, Base, ReqOK
        <4>. QED  BY <3>1, <4>1 DEF Restore, SetStatus
      <3>2. ASSUME NEW r \in Request, WritesKid(r)
            PROVE  touched' = touched \/ \E k \in Kid : touched' = Touch(k)
        BY <3>1, <3>2 DEF WritesKid, Create, UpdateCredentials, BackfillLoginCard
      <3>3. CASE PurgeMoves
        BY <3>3 DEF PurgeMoves, PurgeScan, PurgeRecheck, EmptyTable
      <3>. QED  BY <3>2, <3>3, StepKinds, LooksLeaves, WritesPrizeLeaves, UsesLeaves
                DEF FulfillReward, ChangePlan, PurgeChild, Crash, Tick, vars
    <2>. QED  BY <2>1 DEF CountTypes, Touch
  <1>2. claims' \subseteq Prize
    <2>1. claims' = claims \/ \E k \in Kid : GoalMetIntentsForChild(k)
      BY StepKinds, LooksLeaves, WritesKidLeaves, WritesPrizeLeaves, PurgeMovesLeave
         DEF Uses, LoginChild, Earn, FulfillReward, ChangePlan, PurgeChild, Crash, Tick,
             rewardRows, vars
    <2>. QED  BY <2>1 DEF CountTypes, GoalMetIntentsForChild
  <1>3. earned' \in [Kid -> [{"XP", "SESSIONS"} -> Nat]]
    <2>1. earned' = earned \/ \E k \in Kid : Earn(k)
      BY StepKinds, LooksLeaves, WritesKidLeaves, WritesPrizeLeaves, PurgeMovesLeave
         DEF Uses, LoginChild, GoalMetIntentsForChild, FulfillReward, ChangePlan, PurgeChild,
             Crash, Tick, rewardRows, vars
    <2>2. ASSUME NEW k \in Kid, Earn(k)
          PROVE  earned' = [earned EXCEPT ![k] =
                              [m \in {"XP", "SESSIONS"} |-> earned[k][m] + 1]]
      BY <2>2 DEF Earn, CountTypes
    <2>. QED  BY <2>1, <2>2 DEF CountTypes
  <1>4. /\ now' = now \/ (now < MaxTime /\ now' = now + 1)
        /\ asked' = asked \/ (asked < MaxAsked /\ asked' = asked + 1)
        /\ crashes' = crashes \/ (crashes < MaxCrash /\ crashes' = crashes + 1)
    BY StepKinds, LooksLeaves, WritesKidLeaves, WritesPrizeLeaves, UsesLeaves, PurgeMovesLeave
       DEF Ask, FulfillReward, ChangePlan, PurgeChild, Crash, Tick, vars
  <1>5. now' \in 0..MaxTime /\ asked' \in 0..MaxAsked /\ crashes' \in 0..MaxCrash
    BY <1>4, ChildrenAssumption DEF CountTypes
  <1>. QED  BY <1>1, <1>2, <1>3, <1>5 DEF CountTypes

\* Type correctness, with unique usernames, and a login card wherever one is offered: a child
\* created, renamed, purged and created again never points at a card that was not stored
\* (backfillLoginCard, getLoginCard).
THEOREM TypeCorrect == Spec => []TypeOK
  <1>1. Base /\ SlotInv /\ PurgeInv /\ PrizeInv /\ NameInv /\ CountTypes => TypeOK
    <2> SUFFICES ASSUME Base, SlotInv, PurgeInv, PrizeInv, NameInv, CountTypes PROVE TypeOK
      OBVIOUS
    <2>1. ASSUME NEW k \in Kid PROVE GetLoginCard(k) # "unavailable"
      <3>1. kids[k].card => cards[k] # NoName
        BY ChildrenAssumption DEF NameInv
      <3>. QED  BY <3>1 DEF GetLoginCard
    <2>2. \A k \in Kid : kids[k].deletedAt = None <=> kids[k].purgeAfter = None
      BY DEF Base, RowOK
    <2>3. \A p \in Prize : (prizes[p].status = "FULFILLED") <=> (prizes[p].fulfilledAt # None)
      BY DEF PrizeInv, PrizeOK
    <2>. QED  BY <2>1, <2>2, <2>3
              DEF TypeOK, Base, SlotInv, PurgeInv, PurgeTypes, PrizeInv, NameInv, CountTypes
  <1>2. PurgeInv => PurgeTypes
    BY DEF PurgeInv
  <1>. QED  BY <1>1, <1>2, SlotInit, SlotNext, PurgeInit, PurgeNext, PrizeInit, PrizeNext,
            NameInit, NameNext, CountInit, CountNext, BaseAlways, PTL DEF Spec
===============================================================================
