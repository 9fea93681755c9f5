--------------------------- MODULE Accounts_proofs ----------------------------
(***************************************************************************)
(* Theorems about Accounts, for every value of its constants: any number   *)
(* of requests, purge jobs, sessions and children, any window and any      *)
(* lifetime of a session.                                                  *)
(***************************************************************************)
EXTENDS Accounts, FiniteSetTheorems, TLAPS

Typed == TypeOK /\ WorkerInv

-------------------------------------------------------------------------------
(* What a step may do to the sessions.                                      *)

CreateStep ==
  /\ exists /\ UNCHANGED <<exists, epoch>>
  /\ \E s \in Session, who \in Who, from \in Session \cup {NoSession} :
       /\ sessions[s].status = "none"
       /\ \/ sessions' = [sessions EXCEPT ![s] = NewRow(who, from)]
          \/ /\ from = NoSession
             /\ sessions' = [sessions EXCEPT ![s] = [NewRow(who, from) EXCEPT !.issued = TRUE]]
       /\ \E p \in Req : Mint(p, s) \/ RotateCreate(p, s)

RevokeStep ==
  /\ UNCHANGED exists
  /\ \E ids \in SUBSET Session :
       /\ sessions' = Revoked(ids)
       /\ epoch' = epoch \/ (epoch' = epoch + 1 /\ ids = LiveSessions)

SessionStep ==
  \/ UNCHANGED <<sessions, exists, epoch>>
  \/ CreateStep
  \/ RevokeStep
  \/ \E p \in Req : RotateMark(p)
  \/ \E p \in Sweeper : PurgeFamily(p)

LEMMA WorkerTypes ==
  ASSUME Typed, NEW p \in Proc
  PROVE  proc[p] \in Local
  BY DEF Typed, TypeOK

LEMMA SessionSteps ==
  ASSUME Typed, [Next]_vars
  PROVE  SessionStep
  <1>1. ASSUME NEW p \in Req, Request(p)
        PROVE  UNCHANGED <<sessions, exists, epoch>>
    BY <1>1 DEF Request, LoginRead, OAuthRead, RefreshRead, Authenticate
  <1>2. ASSUME NEW p \in Req, Continue(p)
        PROVE  SessionStep
    <2>0. proc[p] \in Local
      BY WorkerTypes DEF Proc
    <2>1. ASSUME NEW s \in Session, Mint(p, s)
          PROVE  CreateStep
      BY <2>0, <2>1 DEF Mint, CreateStep, Local
    <2>2. ASSUME NEW s \in Session, RotateCreate(p, s)
          PROVE  CreateStep
      BY <2>0, <2>2 DEF RotateCreate, CreateStep, Local
    <2>3. CASE RevokeWalked(p)
      BY <2>3 DEF RevokeWalked, RevokeStep, SessionStep, LiveSessions
    <2>4. CASE DeleteWrite(p)
      BY <2>4 DEF DeleteWrite, RevokeStep, SessionStep, LiveSessions
    <2>5. CASE RefreshCheck(p) \/ Walk(p) \/ DeleteRead(p) \/ CancelRead(p) \/ CancelWrite(p)
      BY <2>5 DEF RefreshCheck, Walk, DeleteRead, CancelRead, CancelWrite, SessionStep
    <2>. QED  BY <1>2, <2>1, <2>2, <2>3, <2>4, <2>5 DEF Continue, SessionStep
  <1>3. ASSUME NEW p \in Sweeper, PurgeScan(p) \/ PurgeStep(p)
        PROVE  SessionStep
    BY <1>3 DEF PurgeStep, PurgeScan, PurgeRecheck, PurgeRows, SessionStep
  <1>4. ASSUME NEW s \in Session, Logout(s)
        PROVE  RevokeStep
    BY <1>4 DEF Logout, RevokeStep
  <1>5. ASSUME NEW s \in Session, NEW c \in Child, RevokeAllForChild(s, c)
        PROVE  RevokeStep
    BY <1>5 DEF RevokeAllForChild, RevokeStep, LiveSessions
  <1>6. CASE UNCHANGED vars \/ Tick \/ \E p \in Proc : Crash(p)
    BY <1>6 DEF vars, Tick, Crash, SessionStep
  <1>. QED  BY <1>1, <1>2, <1>3, <1>4, <1>5, <1>6 DEF Next, SessionStep

-------------------------------------------------------------------------------
(* Type correctness. *)

LEMMA NewRowType ==
  ASSUME TypeOK, NEW who \in Who, NEW from \in Session \cup {NoSession}
  PROVE  NewRow(who, from) \in SessionRow /\ [NewRow(who, from) EXCEPT !.issued = TRUE] \in SessionRow
  <1>1. now + Ttl \in Nat /\ epoch \in Nat
    BY AccountsAssumption DEF TypeOK
  <1>. QED  BY <1>1 DEF NewRow, NoRow, SessionRow

\* Updating the marks of a session leaves a session, with its other fields as they were.
LEMMA RowUpdates ==
  ASSUME NEW r \in SessionRow, NEW t \in Session
  PROVE  /\ [r EXCEPT !.rotated = TRUE] \in SessionRow
         /\ [r EXCEPT !.replacedBy = t] \in SessionRow
         /\ [r EXCEPT !.issued = TRUE] \in SessionRow
  BY DEF SessionRow

LEMMA IssueKeeps ==
  ASSUME NEW r \in SessionRow
  PROVE  LET new == [r EXCEPT !.issued = TRUE]
         IN  /\ new.status = r.status /\ new.from = r.from
             /\ new.epoch = r.epoch /\ new.revoked = r.revoked
             /\ new.rotated = r.rotated /\ new.replacedBy = r.replacedBy
  BY DEF SessionRow

LEMMA RevokeRow ==
  ASSUME NEW r \in SessionRow
  PROVE  [r EXCEPT !.revoked = TRUE] \in SessionRow
  BY DEF SessionRow

\* Marking a session as rotated changes that session and hands out the new one.
LEMMA MarkEffect ==
  ASSUME Typed, NEW p \in Proc, RotateMark(p)
  PROVE  /\ sessions' \in [Session -> SessionRow]
         /\ \A s \in Session :
              /\ sessions'[s].status = sessions[s].status
              /\ sessions'[s].from = sessions[s].from
              /\ sessions'[s].epoch = sessions[s].epoch
              /\ sessions'[s].revoked = sessions[s].revoked
              /\ s # proc[p].sid => /\ sessions'[s].rotated = sessions[s].rotated
                                    /\ sessions'[s].replacedBy = sessions[s].replacedBy
              /\ s # proc[p].new => sessions'[s].issued = sessions[s].issued
         /\ sessions'[proc[p].sid].rotated
         /\ sessions'[proc[p].sid].replacedBy = proc[p].new
  <1>1. /\ sessions \in [Session -> SessionRow]
        /\ proc[p].sid \in Session /\ proc[p].new \in Session
    BY DEF Typed, TypeOK, RotateMark, WorkerInv, WorkerOK
  <1> DEFINE S1 == [sessions EXCEPT ![proc[p].sid] = [@ EXCEPT !.rotated = TRUE]]
             S2 == [S1 EXCEPT ![proc[p].sid] = [@ EXCEPT !.replacedBy = proc[p].new]]
             Same(S) ==
               \A s \in Session :
                 /\ S[s].status = sessions[s].status
                 /\ S[s].from = sessions[s].from
                 /\ S[s].epoch = sessions[s].epoch
                 /\ S[s].revoked = sessions[s].revoked
                 /\ s # proc[p].sid => /\ S[s].rotated = sessions[s].rotated
                                       /\ S[s].replacedBy = sessions[s].replacedBy
                 /\ s # proc[p].new => S[s].issued = sessions[s].issued
  <1>2. S1 \in [Session -> SessionRow] /\ Same(S1) /\ S1[proc[p].sid].rotated
    <2>1. /\ S1[proc[p].sid] = [sessions[proc[p].sid] EXCEPT !.rotated = TRUE]
          /\ \A s \in Session \ {proc[p].sid} : S1[s] = sessions[s]
      BY <1>1
    <2>2. [sessions[proc[p].sid] EXCEPT !.rotated = TRUE] \in SessionRow
      <3>1. sessions[proc[p].sid] \in SessionRow
        BY <1>1
      <3>. QED  BY <1>1, <3>1, RowUpdates, Zenon
    <2>3. S1 \in [Session -> SessionRow]
      BY <1>1, <2>2
    <2>5. /\ S1[proc[p].sid].rotated
          /\ S1[proc[p].sid].status = sessions[proc[p].sid].status
          /\ S1[proc[p].sid].from = sessions[proc[p].sid].from
          /\ S1[proc[p].sid].epoch = sessions[proc[p].sid].epoch
          /\ S1[proc[p].sid].revoked = sessions[proc[p].sid].revoked
          /\ S1[proc[p].sid].issued = sessions[proc[p].sid].issued
      <3> HIDE DEF S1
      <3>. QED  BY <1>1, <2>1 DEF SessionRow
    <2>4. Same(S1)
      <3> HIDE DEF S1
      <3>. QED  BY <2>1, <2>5
    <2>. HIDE DEF S1, Same
    <2>. QED  BY <2>3, <2>4, <2>5
  <1>3. /\ S2 \in [Session -> SessionRow] /\ Same(S2)
        /\ S2[proc[p].sid].rotated /\ S2[proc[p].sid].replacedBy = proc[p].new
    <2> HIDE DEF S1
    <2>1. /\ S2[proc[p].sid] = [S1[proc[p].sid] EXCEPT !.replacedBy = proc[p].new]
          /\ \A s \in Session \ {proc[p].sid} : S2[s] = S1[s]
      BY <1>1, <1>2
    <2>2. S1[proc[p].sid] \in SessionRow
      BY <1>1, <1>2
    <2>3. /\ S2[proc[p].sid] \in SessionRow
          /\ S2[proc[p].sid].rotated = S1[proc[p].sid].rotated
          /\ S2[proc[p].sid].replacedBy = proc[p].new
          /\ S2[proc[p].sid].status = S1[proc[p].sid].status
          /\ S2[proc[p].sid].from = S1[proc[p].sid].from
          /\ S2[proc[p].sid].epoch = S1[proc[p].sid].epoch
          /\ S2[proc[p].sid].revoked = S1[proc[p].sid].revoked
          /\ S2[proc[p].sid].issued = S1[proc[p].sid].issued
      BY <1>1, <2>1, <2>2 DEF SessionRow
    <2>4. S2 \in [Session -> SessionRow]
      BY <1>2, <2>1, <2>3
    <2>5. Same(S2)
      <3> HIDE DEF S2
      <3> SUFFICES ASSUME NEW s \in Session
                   PROVE  /\ S2[s].status = sessions[s].status
                          /\ S2[s].from = sessions[s].from
                          /\ S2[s].epoch = sessions[s].epoch
                          /\ S2[s].revoked = sessions[s].revoked
                          /\ s # proc[p].sid => /\ S2[s].rotated = sessions[s].rotated
                                                /\ S2[s].replacedBy = sessions[s].replacedBy
                          /\ s # proc[p].new => S2[s].issued = sessions[s].issued
        OBVIOUS
      <3>1. CASE s = proc[p].sid
        BY <1>2, <2>3, <3>1, Zenon
      <3>2. CASE s # proc[p].sid
        <4>1. S2[s] = S1[s]
          BY <2>1, <3>2
        <4>. QED  BY <1>2, <3>2, <4>1, Zenon
      <3>. QED  BY <3>1, <3>2
    <2>. HIDE DEF S2, Same
    <2>. QED  BY <1>2, <2>3, <2>4, <2>5, Zenon
  <1>4. sessions' = [S2 EXCEPT ![proc[p].new] = [@ EXCEPT !.issued = TRUE]]
    BY DEF RotateMark
  <1>5. /\ sessions' \in [Session -> SessionRow] /\ Same(sessions')
        /\ sessions'[proc[p].sid].rotated /\ sessions'[proc[p].sid].replacedBy = proc[p].new
    <2> HIDE DEF S2
    <2>1. /\ sessions'[proc[p].new] = [S2[proc[p].new] EXCEPT !.issued = TRUE]
          /\ \A s \in Session \ {proc[p].new} : sessions'[s] = S2[s]
      BY <1>1, <1>3, <1>4
    <2>2. S2[proc[p].new] \in SessionRow
      BY <1>1, <1>3
    <2>3. [S2[proc[p].new] EXCEPT !.issued = TRUE] \in SessionRow
      BY <1>1, <2>2, RowUpdates, Zenon
    <2>4. sessions' \in [Session -> SessionRow]
      BY <1>1, <1>3, <1>4, <2>3
    <2>5. \A s \in Session :
            /\ sessions'[s].status = S2[s].status /\ sessions'[s].from = S2[s].from
            /\ sessions'[s].epoch = S2[s].epoch /\ sessions'[s].revoked = S2[s].revoked
            /\ sessions'[s].rotated = S2[s].rotated
            /\ sessions'[s].replacedBy = S2[s].replacedBy
            /\ s # proc[p].new => sessions'[s].issued = S2[s].issued
      <3>1. ASSUME NEW s \in Session, s # proc[p].new
            PROVE  sessions'[s] = S2[s]
        BY <2>1, <3>1
      <3>2. LET new == sessions'[proc[p].new]
                old == S2[proc[p].new]
            IN  /\ new.status = old.status /\ new.from = old.from
                /\ new.epoch = old.epoch /\ new.revoked = old.revoked
                /\ new.rotated = old.rotated /\ new.replacedBy = old.replacedBy
        BY <2>1, <2>2, IssueKeeps
      <3> SUFFICES ASSUME NEW s \in Session
                   PROVE  /\ sessions'[s].status = S2[s].status /\ sessions'[s].from = S2[s].from
                          /\ sessions'[s].epoch = S2[s].epoch
                          /\ sessions'[s].revoked = S2[s].revoked
                          /\ sessions'[s].rotated = S2[s].rotated
                          /\ sessions'[s].replacedBy = S2[s].replacedBy
                          /\ s # proc[p].new => sessions'[s].issued = S2[s].issued
        OBVIOUS
      <3>3. CASE s = proc[p].new
        BY <3>2, <3>3
      <3>4. CASE s # proc[p].new
        BY <3>1, <3>4
      <3>. QED  BY <3>3, <3>4
    <2>6. Same(sessions')
      <3>1. ASSUME NEW s \in Session
            PROVE  /\ sessions'[s].status = sessions[s].status
                   /\ sessions'[s].from = sessions[s].from
                   /\ sessions'[s].epoch = sessions[s].epoch
                   /\ sessions'[s].revoked = sessions[s].revoked
                   /\ s # proc[p].sid => /\ sessions'[s].rotated = sessions[s].rotated
                                         /\ sessions'[s].replacedBy = sessions[s].replacedBy
                   /\ s # proc[p].new => sessions'[s].issued = sessions[s].issued
        <4>1. /\ sessions'[s].status = S2[s].status /\ sessions'[s].from = S2[s].from
              /\ sessions'[s].epoch = S2[s].epoch /\ sessions'[s].revoked = S2[s].revoked
              /\ sessions'[s].rotated = S2[s].rotated
              /\ sessions'[s].replacedBy = S2[s].replacedBy
              /\ s # proc[p].new => sessions'[s].issued = S2[s].issued
          BY <2>5
        <4>. QED  BY <1>3, <4>1
      <3>. QED  BY <3>1
    <2>7. sessions'[proc[p].sid].rotated /\ sessions'[proc[p].sid].replacedBy = proc[p].new
      BY <1>1, <1>3, <2>5, Zenon
    <2>. HIDE DEF Same
    <2>. QED  BY <2>4, <2>6, <2>7
  <1>. QED  BY <1>5

LEMMA SessionsType ==
  ASSUME Typed, [Next]_vars
  PROVE  sessions' \in [Session -> SessionRow]
  <1>0. TypeOK /\ sessions \in [Session -> SessionRow]
    BY DEF Typed, TypeOK
  <1>1. CASE UNCHANGED sessions
    BY <1>0, <1>1
  <1>2. CASE CreateStep
    BY <1>0, <1>2, NewRowType DEF CreateStep
  <1>3. CASE RevokeStep
    <2>1. PICK ids \in SUBSET Session : sessions' = Revoked(ids)
      BY <1>3 DEF RevokeStep
    <2>2. \A s \in Session : [sessions[s] EXCEPT !.revoked = TRUE] \in SessionRow
      BY <1>0, RevokeRow
    <2>. QED  BY <1>0, <2>1, <2>2 DEF Revoked
  <1>4. CASE \E p \in Req : RotateMark(p)
    BY <1>4, MarkEffect DEF Proc
  <1>5. ASSUME NEW p \in Sweeper, PurgeFamily(p)
        PROVE  sessions' \in [Session -> SessionRow]
    <2>1. \A s \in Session : [sessions[s] EXCEPT !.status = "gone"] \in SessionRow
      BY <1>0 DEF SessionRow
    <2>. QED  BY <1>0, <1>5, <2>1 DEF PurgeFamily
  <1>. QED  BY <1>1, <1>2, <1>3, <1>4, <1>5, SessionSteps DEF SessionStep

LEMMA IdleType == Idle \in Local
  BY DEF Idle, Local, Op, Who

LEMMA BecomeType ==
  ASSUME Typed, NEW p \in Proc, NEW l \in Local, Become(p, l)
  PROVE  proc' \in [Proc -> Local]
  BY DEF Typed, TypeOK, Become

LEMMA BecomeAt ==
  ASSUME Typed, NEW p \in Proc, NEW l, Become(p, l)
  PROVE  proc'[p] = l /\ \A q \in Proc \ {p} : proc'[q] = proc[q]
  BY DEF Typed, TypeOK, Become

LEMMA RequestTypes ==
  ASSUME Typed, NEW p \in Req, Request(p)
  PROVE  proc' \in [Proc -> Local]
  <1>1. p \in Proc /\ Idle \in Local
    BY IdleType DEF Proc
  <1>2. ASSUME NEW who \in Who, LoginRead(p, who)
        PROVE  proc' \in [Proc -> Local]
    <2>1. [Idle EXCEPT !.op = "mint", !.who = who] \in Local
      BY <1>1 DEF Local, Op
    <2>. QED  BY <1>1, <1>2, <2>1, BecomeType DEF LoginRead
  <1>3. CASE OAuthRead(p)
    <2>1. [Idle EXCEPT !.op = "mint"] \in Local
      BY <1>1 DEF Local, Op
    <2>. QED  BY <1>1, <1>3, <2>1, BecomeType DEF OAuthRead
  <1>4. ASSUME NEW s \in Session, RefreshRead(p, s)
        PROVE  proc' \in [Proc -> Local]
    <2>1. sessions[s].who \in Who /\ sessions[s].rotated \in BOOLEAN
      BY DEF Typed, TypeOK, SessionRow
    <2>2. [Idle EXCEPT !.op = "refresh", !.sid = s, !.who = sessions[s].who,
                       !.rotated = sessions[s].rotated] \in Local
      BY <1>1, <2>1 DEF Local, Op
    <2>. QED  BY <1>1, <1>4, <2>2, BecomeType DEF RefreshRead
  <1>5. ASSUME NEW s \in Session, NEW op \in {"delete", "cancel"}, Authenticate(p, s, op)
        PROVE  proc' \in [Proc -> Local]
    <2>1. [Idle EXCEPT !.op = op] \in Local
      BY <1>1 DEF Local, Op
    <2>. QED  BY <1>1, <1>5, <2>1, BecomeType DEF Authenticate
  <1>. QED  BY <1>2, <1>3, <1>4, <1>5 DEF Request

LEMMA ContinueTypes ==
  ASSUME Typed, NEW p \in Req, Continue(p)
  PROVE  proc' \in [Proc -> Local]
  <1>1. p \in Proc /\ Idle \in Local /\ proc[p] \in Local /\ now \in Nat
    BY IdleType, WorkerTypes, AccountsAssumption DEF Proc, Typed, TypeOK
  <1>2. CASE Return(p)
    BY <1>1, <1>2, BecomeType DEF Return
  <1>3. ASSUME NEW s \in Session, RotateCreate(p, s)
        PROVE  proc' \in [Proc -> Local]
    <2>1. [proc[p] EXCEPT !.op = "mark", !.new = s] \in Local
      BY <1>1 DEF Local, Op
    <2>. QED  BY <1>1, <1>3, <2>1, BecomeType DEF RotateCreate
  <1>4. CASE RefreshCheck(p)
    <2>1. /\ [proc[p] EXCEPT !.op = "walk", !.new = proc[p].sid] \in Local
          /\ [proc[p] EXCEPT !.op = "rotate"] \in Local
      BY <1>1 DEF Local, Op
    <2>. QED  BY <1>1, <1>2, <1>4, <2>1, BecomeType DEF RefreshCheck
  <1>5. CASE Walk(p)
    <2>1. proc[p].new \in Session
      BY <1>5 DEF Walk, IsLive
    <2>2. sessions[proc[p].new].replacedBy \in Session \cup {NoSession}
      BY <2>1 DEF Typed, TypeOK, SessionRow
    <2>3. [proc[p] EXCEPT !.ids = @ \cup {proc[p].new},
                          !.new = sessions[proc[p].new].replacedBy] \in Local
      BY <1>1, <2>1, <2>2 DEF Local
    <2>. QED  BY <1>1, <1>5, <2>3, BecomeType DEF Walk
  <1>6. CASE DeleteRead(p)
    <2>1. [proc[p] EXCEPT !.op = "deleteWrite", !.at = now] \in Local
      BY <1>1 DEF Local, Op
    <2>. QED  BY <1>1, <1>2, <1>6, <2>1, BecomeType DEF DeleteRead
  <1>7. CASE CancelRead(p)
    <2>1. [proc[p] EXCEPT !.op = "cancelWrite"] \in Local
      BY <1>1 DEF Local, Op
    <2>. QED  BY <1>1, <1>2, <1>7, <2>1, BecomeType DEF CancelRead
  <1>8. CASE \/ \E s \in Session : Mint(p, s)
             \/ RotateMark(p) \/ RevokeWalked(p) \/ DeleteWrite(p) \/ CancelWrite(p)
    BY <1>2, <1>8 DEF Mint, RotateMark, RevokeWalked, DeleteWrite, CancelWrite
  <1>. QED  BY <1>3, <1>4, <1>5, <1>6, <1>7, <1>8 DEF Continue

LEMMA PurgeTypes ==
  ASSUME Typed, NEW p \in Sweeper, PurgeScan(p) \/ PurgeStep(p)
  PROVE  proc' \in [Proc -> Local]
  <1>1. p \in Proc /\ Idle \in Local /\ proc[p] \in Local /\ now \in Nat
    BY IdleType, WorkerTypes, AccountsAssumption DEF Proc, Typed, TypeOK
  <1>2. CASE Return(p)
    BY <1>1, <1>2, BecomeType DEF Return
  <1>3. /\ [Idle EXCEPT !.op = "purge", !.at = now] \in Local
        /\ [proc[p] EXCEPT !.op = "purgeRows"] \in Local
        /\ [proc[p] EXCEPT !.op = "purgeFamily", !.ids = LiveSessions] \in Local
    BY <1>1 DEF Local, Op, LiveSessions
  <1>4. CASE PurgeScan(p)
    BY <1>1, <1>3, <1>4, BecomeType DEF PurgeScan
  <1>5. CASE PurgeRecheck(p)
    BY <1>1, <1>2, <1>3, <1>5, BecomeType DEF PurgeRecheck
  <1>6. CASE PurgeRows(p)
    BY <1>1, <1>3, <1>6, BecomeType DEF PurgeRows
  <1>7. CASE PurgeFamily(p)
    BY <1>2, <1>7 DEF PurgeFamily
  <1>. QED  BY <1>4, <1>5, <1>6, <1>7 DEF PurgeStep

LEMMA ProcTypes ==
  ASSUME Typed, [Next]_vars
  PROVE  proc' \in [Proc -> Local]
  <1>1. CASE \E p \in Proc : Crash(p)
    BY <1>1, IdleType, BecomeType DEF Crash, Return
  <1>2. CASE \/ UNCHANGED vars \/ Tick \/ (\E s \in Session : Logout(s))
             \/ (\E s \in Session, c \in Child : RevokeAllForChild(s, c))
    BY <1>2 DEF vars, Tick, Logout, RevokeAllForChild, Typed, TypeOK
  <1>. QED  BY <1>1, <1>2, RequestTypes, ContinueTypes, PurgeTypes DEF Next

LEMMA ScalarTypes ==
  ASSUME Typed, [Next]_vars
  PROVE  /\ now' \in 0..MaxTime /\ exists' \in BOOLEAN /\ purgeAfter' \in Nat \cup {NoTime}
         /\ epoch' \in Nat /\ asked' \in 0..MaxAsked
  <1>0. /\ now \in 0..MaxTime /\ exists \in BOOLEAN /\ purgeAfter \in Nat \cup {NoTime}
        /\ epoch \in Nat /\ asked \in 0..MaxAsked
    BY DEF Typed, TypeOK
  <1>1. ASSUME Ask
        PROVE  asked' \in 0..MaxAsked
    BY <1>0, <1>1, AccountsAssumption DEF Ask
  <1>2. ASSUME NEW p \in Req, Request(p)
        PROVE  UNCHANGED <<now, exists, purgeAfter, epoch>> /\ Ask
    BY <1>2 DEF Request, LoginRead, OAuthRead, RefreshRead, Authenticate
  <1>3. ASSUME NEW p \in Req, Continue(p)
        PROVE  /\ UNCHANGED <<now, exists, asked>>
               /\ purgeAfter' \in Nat \cup {NoTime} /\ epoch' \in Nat
    <2>1. CASE DeleteWrite(p)
      <3>1. proc[p].at \in Nat
        BY WorkerTypes DEF Proc, Local
      <3>2. proc[p].at + Retain \in Nat
        BY <3>1, AccountsAssumption
      <3>. QED  BY <1>0, <2>1, <3>2 DEF DeleteWrite
    <2>2. CASE CancelWrite(p)
      BY <1>0, <2>2 DEF CancelWrite
    <2>3. CASE ~DeleteWrite(p) /\ ~CancelWrite(p)
      BY <1>0, <1>3, <2>3 DEF Continue, Mint, RefreshCheck, RotateCreate, RotateMark, Walk,
                              RevokeWalked, DeleteRead, CancelRead
    <2>. QED  BY <2>1, <2>2, <2>3
  <1>4. ASSUME NEW p \in Sweeper, PurgeScan(p) \/ PurgeStep(p)
        PROVE  /\ UNCHANGED <<now, epoch, asked>>
               /\ exists' \in BOOLEAN /\ purgeAfter' \in Nat \cup {NoTime}
    BY <1>0, <1>4 DEF PurgeScan, PurgeStep, PurgeRecheck, PurgeRows, PurgeFamily
  <1>5. ASSUME \/ \E s \in Session : Logout(s)
               \/ \E s \in Session, c \in Child : RevokeAllForChild(s, c)
        PROVE  UNCHANGED <<now, exists, purgeAfter, epoch>> /\ Ask
    BY <1>5 DEF Logout, RevokeAllForChild
  <1>6. ASSUME UNCHANGED vars \/ \E p \in Proc : Crash(p)
        PROVE  UNCHANGED <<now, exists, purgeAfter, epoch, asked>>
    BY <1>6 DEF vars, Crash
  <1>7. ASSUME Tick
        PROVE  UNCHANGED <<exists, purgeAfter, epoch, asked>> /\ now' \in 0..MaxTime
    BY <1>0, <1>7, AccountsAssumption DEF Tick
  <1>. QED  BY <1>0, <1>1, <1>2, <1>3, <1>4, <1>5, <1>6, <1>7 DEF Next

-------------------------------------------------------------------------------
(* A request holds sessions that were created, and the one it created is    *)
(* the replacement of the one it was given.                                 *)

\* Rows stay, and what they replace is never rewritten.
Persist ==
  \A s \in Session :
    sessions[s].status # "none" =>
      sessions'[s].status # "none" /\ sessions'[s].from = sessions[s].from

LEMMA SessionsPersist ==
  ASSUME Typed, [Next]_vars
  PROVE  Persist
  <1>0. sessions \in [Session -> SessionRow]
    BY DEF Typed, TypeOK
  <1>1. CASE UNCHANGED sessions
    BY <1>1 DEF Persist
  <1>2. CASE CreateStep
    BY <1>0, <1>2 DEF CreateStep, Persist
  <1>3. CASE RevokeStep
    BY <1>0, <1>3 DEF RevokeStep, Revoked, Persist, SessionRow
  <1>4. ASSUME NEW p \in Req, RotateMark(p)
        PROVE  Persist
    BY <1>4, MarkEffect DEF Proc, Persist
  <1>5. ASSUME NEW p \in Sweeper, PurgeFamily(p)
        PROVE  Persist
    BY <1>0, <1>5 DEF PurgeFamily, Persist, SessionRow
  <1>. QED  BY <1>1, <1>2, <1>3, <1>4, <1>5, SessionSteps DEF SessionStep

\* A request comes to hold a session only by reading it, and goes on with it only if it
\* has not been used before.
LEMMA RefreshMoves ==
  ASSUME Typed, [Next]_vars, NEW q \in Proc
  PROVE  \/ proc'[q] = proc[q]
         \/ proc'[q].op \notin {"refresh", "rotate", "mark"}
         \/ \E s \in Session : RefreshRead(q, s) \/ RotateCreate(q, s)
         \/ RefreshCheck(q) /\ proc'[q].op = "rotate"
  <1>0. proc \in [Proc -> Local] /\ proc[q] \in Local
    BY DEF Typed, TypeOK
  <1>1. ASSUME NEW p \in Req, Request(p)
        PROVE  \/ proc'[q] = proc[q]
               \/ proc'[q].op \in {"mint", "delete", "cancel"}
               \/ \E s \in Session : RefreshRead(q, s)
    BY <1>0, <1>1 DEF Request, LoginRead, OAuthRead, Authenticate, RefreshRead, Become, Idle
  <1>2. ASSUME NEW p \in Req, Continue(p), p = q
        PROVE  \/ proc'[q].op \notin {"refresh", "rotate", "mark"}
               \/ \E s \in Session : RotateCreate(q, s)
               \/ RefreshCheck(q) /\ proc'[q].op = "rotate"
    <2>1. CASE Return(q)
      BY <2>1, BecomeAt DEF Return, Idle
    <2>2. CASE RefreshCheck(q) /\ ~Return(q)
      <3>1. CASE Become(q, [proc[q] EXCEPT !.op = "walk", !.new = proc[q].sid])
        <4>1. proc'[q] = [proc[q] EXCEPT !.op = "walk", !.new = proc[q].sid]
          BY <3>1, BecomeAt
        <4>. QED  BY <1>0, <4>1 DEF Local
      <3>2. CASE Become(q, [proc[q] EXCEPT !.op = "rotate"])
        BY <1>0, <2>2, <3>2, BecomeAt DEF Local
      <3>. QED  BY <2>2, <3>1, <3>2 DEF RefreshCheck
    <2>3. CASE Walk(q)
      <3>1. proc'[q] = [proc[q] EXCEPT !.ids = @ \cup {proc[q].new},
                                       !.new = sessions[proc[q].new].replacedBy]
        BY <2>3, BecomeAt DEF Walk
      <3>2. proc'[q].op = proc[q].op
        BY <1>0, <3>1 DEF Local
      <3>. QED  BY <2>3, <3>2 DEF Walk
    <2>4. CASE DeleteRead(q) /\ ~Return(q)
      <3>1. proc'[q] = [proc[q] EXCEPT !.op = "deleteWrite", !.at = now]
        BY <2>4, BecomeAt DEF DeleteRead
      <3>. QED  BY <1>0, <3>1 DEF Local
    <2>5. CASE CancelRead(q) /\ ~Return(q)
      <3>1. proc'[q].op = "cancelWrite"
        BY <1>0, <2>5, BecomeAt DEF CancelRead, Local
      <3>. QED  BY <3>1
    <2>. QED  BY <1>2, <2>1, <2>2, <2>3, <2>4, <2>5 DEF Continue, Mint, RotateMark,
                 RevokeWalked, DeleteWrite, CancelWrite
  <1>3. ASSUME NEW p \in Req, Continue(p), p # q
        PROVE  proc'[q] = proc[q]
    <2>1. \E l : Become(p, l)
      BY <1>3 DEF Continue, Mint, RefreshCheck, RotateCreate, RotateMark, Walk,
               RevokeWalked, DeleteRead, DeleteWrite, CancelRead, CancelWrite, Return
    <2>. QED  BY <1>3, <2>1, BecomeAt DEF Proc
  <1>4. ASSUME NEW p \in Sweeper, PurgeScan(p) \/ PurgeStep(p)
        PROVE  proc'[q] = proc[q] \/ proc'[q].op \notin {"refresh", "rotate", "mark"}
    <2>0. p \in Proc
      BY DEF Proc
    <2>1. CASE p # q
      <3>1. \E l : Become(p, l)
        BY <1>4 DEF PurgeScan, PurgeStep, PurgeRecheck, PurgeRows, PurgeFamily, Return
      <3>. QED  BY <2>0, <2>1, <3>1, BecomeAt
    <2>2. CASE Return(q)
      BY <2>2, BecomeAt DEF Return, Idle
    <2>3. CASE PurgeScan(q)
      <3>1. proc'[q] = [Idle EXCEPT !.op = "purge", !.at = now]
        BY <2>3, BecomeAt DEF PurgeScan
      <3>. QED  BY <3>1 DEF Idle
    <2>4. CASE PurgeRecheck(q) /\ ~Return(q)
      <3>1. proc'[q] = [proc[q] EXCEPT !.op = "purgeRows"]
        BY <2>4, BecomeAt DEF PurgeRecheck
      <3>. QED  BY <1>0, <3>1 DEF Local
    <2>5. CASE PurgeRows(q)
      <3>1. proc'[q] = [proc[q] EXCEPT !.op = "purgeFamily", !.ids = LiveSessions]
        BY <2>5, BecomeAt DEF PurgeRows
      <3>. QED  BY <1>0, <3>1 DEF Local
    <2>. QED  BY <1>4, <2>1, <2>2, <2>3, <2>4, <2>5 DEF PurgeStep, PurgeFamily
  <1>5. ASSUME NEW p \in Proc, Crash(p)
        PROVE  proc'[q] = proc[q] \/ proc'[q].op = "idle"
    BY <1>0, <1>5 DEF Crash, Become, Return, Idle
  <1>6. ASSUME \/ UNCHANGED vars \/ Tick \/ (\E s \in Session : Logout(s))
               \/ (\E s \in Session, c \in Child : RevokeAllForChild(s, c))
        PROVE  UNCHANGED proc
    BY <1>6 DEF vars, Tick, Logout, RevokeAllForChild
  <1>. QED  BY <1>1, <1>2, <1>3, <1>4, <1>5, <1>6 DEF Next

LEMMA CheckPassed ==
  ASSUME Typed, NEW q \in Proc, RefreshCheck(q), proc'[q].op = "rotate"
  PROVE  /\ proc[q].op = "refresh" /\ ~proc[q].rotated
         /\ proc'[q].sid = proc[q].sid /\ UNCHANGED sessions
  <1>0. proc \in [Proc -> Local] /\ proc[q] \in Local
    BY DEF Typed, TypeOK
  <1>1. ~Return(q)
    BY BecomeAt DEF Return, Idle
  <1>2. ~Become(q, [proc[q] EXCEPT !.op = "walk", !.new = proc[q].sid])
    <2>1. SUFFICES ASSUME Become(q, [proc[q] EXCEPT !.op = "walk", !.new = proc[q].sid])
                   PROVE  FALSE
      OBVIOUS
    <2>2. proc'[q] = [proc[q] EXCEPT !.op = "walk", !.new = proc[q].sid]
      BY <2>1, BecomeAt
    <2>3. proc'[q].op = "walk"
      BY <1>0, <2>2 DEF Local
    <2>. QED  BY <2>3
  <1>3. ~proc[q].rotated /\ Become(q, [proc[q] EXCEPT !.op = "rotate"])
    BY <1>1, <1>2 DEF RefreshCheck
  <1>4. proc'[q].sid = proc[q].sid
    BY <1>0, <1>3, BecomeAt DEF Local
  <1>. QED  BY <1>3, <1>4 DEF RefreshCheck

\* What a worker goes on with is all right, given that the rows persist.
LEMMA WorkerSteps ==
  ASSUME Typed, [Next]_vars, Persist, NEW q \in Proc
  PROVE  WorkerOK(proc[q])'
  <1>0. /\ proc \in [Proc -> Local] /\ proc[q] \in Local /\ WorkerOK(proc[q])
        /\ sessions \in [Session -> SessionRow]
    BY DEF Typed, TypeOK, WorkerInv
  <1>1. CASE proc'[q] = proc[q]
    BY <1>0, <1>1 DEF WorkerOK, Persist
  <1>2. CASE proc'[q].op \notin {"refresh", "rotate", "mark"}
    BY <1>2 DEF WorkerOK
  <1>3. ASSUME NEW s \in Session, RefreshRead(q, s)
        PROVE  WorkerOK(proc[q])'
    <2>1. /\ proc'[q].op = "refresh" /\ proc'[q].sid = s
          /\ sessions'[s].status # "none"
      BY <1>0, <1>3 DEF RefreshRead, Become, Idle, SignedIn, IsLive
    <2>. QED  BY <2>1 DEF WorkerOK
  <1>4. CASE RefreshCheck(q) /\ proc'[q].op = "rotate"
    <2>. QED  BY <1>0, <1>4, CheckPassed DEF WorkerOK
  <1>5. ASSUME NEW s \in Session, RotateCreate(q, s)
        PROVE  WorkerOK(proc[q])'
    <2>1. /\ proc'[q].op = "mark" /\ proc'[q].sid = proc[q].sid /\ proc'[q].new = s
          /\ proc[q].sid \in Session /\ sessions[proc[q].sid].status # "none"
      BY <1>0, <1>5 DEF RotateCreate, Become, Local, WorkerOK
    <2>2. sessions'[s].status = "live" /\ sessions'[s].from = proc[q].sid
      BY <1>0, <1>5 DEF RotateCreate, NewRow, NoRow
    <2>3. sessions'[proc[q].sid].status # "none"
      BY <2>1 DEF Persist
    <2>. QED  BY <2>1, <2>2, <2>3 DEF WorkerOK
  <1>. QED  BY <1>1, <1>2, <1>3, <1>4, <1>5, RefreshMoves

LEMMA TypedInit == Init => Typed
  <1> SUFFICES ASSUME Init PROVE Typed
    OBVIOUS
  <1>1. NoRow \in SessionRow
    BY DEF NoRow, SessionRow, Who
  <1>2. now \in 0..MaxTime /\ asked \in 0..MaxAsked
    BY AccountsAssumption DEF Init
  <1>3. proc \in [Proc -> Local] /\ WorkerInv
    BY IdleType DEF Init, WorkerInv, WorkerOK, Idle
  <1>. QED  BY <1>1, <1>2, <1>3 DEF Init, Typed, TypeOK

LEMMA TypedStep ==
  ASSUME Typed, [Next]_vars
  PROVE  Typed'
  <1>1. TypeOK'
    BY SessionsType, ProcTypes, ScalarTypes DEF TypeOK
  <1>2. WorkerInv'
    BY SessionsPersist, WorkerSteps DEF WorkerInv
  <1>. QED  BY <1>1, <1>2 DEF Typed

LEMMA TypedAlways == Spec => []Typed
  BY TypedInit, TypedStep, PTL DEF Spec

\* Every reachable state is well typed: a session always expires at a time, a deletion has
\* a date or none, and a refresh in progress always holds sessions that exist.
THEOREM TypeCorrect == Spec => []TypeOK
  BY TypedAlways, PTL DEF Typed

-------------------------------------------------------------------------------
(* What the deletion and the purge leave. *)

LEMMA RevokedStep ==
  ASSUME Typed, RevokedByDeletion, [Next]_vars
  PROVE  RevokedByDeletion'
  <1>0. sessions \in [Session -> SessionRow] /\ epoch \in Nat
    BY DEF Typed, TypeOK
  <1>1. CASE UNCHANGED <<sessions, exists, epoch>>
    BY <1>1 DEF RevokedByDeletion, LiveSessions, IsLive
  <1>2. CASE CreateStep
    <2>1. PICK s \in Session, who \in Who, from \in Session \cup {NoSession} :
            /\ sessions[s].status = "none"
            /\ \/ sessions' = [sessions EXCEPT ![s] = NewRow(who, from)]
               \/ sessions' = [sessions EXCEPT ![s] = [NewRow(who, from) EXCEPT !.issued = TRUE]]
      BY <1>2 DEF CreateStep
    <2>2. sessions'[s].epoch = epoch /\ \A t \in Session \ {s} : sessions'[t] = sessions[t]
      BY <1>0, <2>1 DEF NewRow, NoRow
    <2>3. epoch' = epoch
      BY <1>2 DEF CreateStep
    <2>. QED  BY <1>0, <2>2, <2>3 DEF RevokedByDeletion, LiveSessions, IsLive
  <1>3. CASE RevokeStep
    <2>1. PICK ids \in SUBSET Session :
            /\ sessions' = Revoked(ids)
            /\ epoch' = epoch \/ (epoch' = epoch + 1 /\ ids = LiveSessions)
      BY <1>3 DEF RevokeStep
    <2>2. \A s \in Session :
            /\ sessions'[s].status = sessions[s].status /\ sessions'[s].epoch = sessions[s].epoch
            /\ sessions[s].revoked \/ s \in ids => sessions'[s].revoked
      BY <1>0, <2>1 DEF Revoked, SessionRow
    <2>. QED  BY <1>0, <2>1, <2>2 DEF RevokedByDeletion, LiveSessions, IsLive
  <1>4. ASSUME NEW p \in Req, RotateMark(p)
        PROVE  RevokedByDeletion'
    <2>1. /\ epoch' = epoch
          /\ \A s \in Session :
               /\ sessions'[s].status = sessions[s].status
               /\ sessions'[s].epoch = sessions[s].epoch
               /\ sessions'[s].revoked = sessions[s].revoked
      BY <1>4, MarkEffect DEF Proc, RotateMark
    <2>. QED  BY <2>1 DEF RevokedByDeletion, LiveSessions, IsLive
  <1>5. ASSUME NEW p \in Sweeper, PurgeFamily(p)
        PROVE  RevokedByDeletion'
    <2>1. /\ epoch' = epoch
          /\ \A s \in Session :
               \/ sessions'[s] = sessions[s]
               \/ sessions'[s].status = "gone"
      BY <1>0, <1>5 DEF PurgeFamily, SessionRow
    <2>. QED  BY <2>1 DEF RevokedByDeletion, LiveSessions, IsLive
  <1>. QED  BY <1>1, <1>2, <1>3, <1>4, <1>5, SessionSteps DEF SessionStep

\* Whatever sign-ins, refreshes, cancellations and purges are under way, a session that was
\* there when a deletion request committed is never valid again (requestAccountDeletion).
THEOREM DeletionRevokes == Spec => []RevokedByDeletion
  <1>1. Init => RevokedByDeletion
    BY DEF Init, RevokedByDeletion, LiveSessions, IsLive, NoRow
  <1>. QED  BY <1>1, TypedAlways, RevokedStep, PTL DEF Spec

LEMMA PurgedStep ==
  ASSUME Typed, NoSessionsAfterPurge, [Next]_vars
  PROVE  NoSessionsAfterPurge'
  <1>0. sessions \in [Session -> SessionRow]
    BY DEF Typed, TypeOK
  <1>1. CASE UNCHANGED <<sessions, exists, epoch>>
    BY <1>1 DEF NoSessionsAfterPurge, LiveSessions, IsLive
  <1>2. CASE CreateStep
    BY <1>2 DEF CreateStep, NoSessionsAfterPurge
  <1>3. CASE RevokeStep
    <2>1. /\ exists' = exists
          /\ \A s \in Session : sessions'[s].status = sessions[s].status
      BY <1>0, <1>3 DEF RevokeStep, Revoked, SessionRow
    <2>. QED  BY <2>1 DEF NoSessionsAfterPurge, LiveSessions, IsLive
  <1>4. ASSUME NEW p \in Req, RotateMark(p)
        PROVE  NoSessionsAfterPurge'
    <2>1. /\ exists' = exists
          /\ \A s \in Session : sessions'[s].status = sessions[s].status
      BY <1>4, MarkEffect DEF Proc, RotateMark
    <2>. QED  BY <2>1 DEF NoSessionsAfterPurge, LiveSessions, IsLive
  <1>5. ASSUME NEW p \in Sweeper, PurgeFamily(p)
        PROVE  NoSessionsAfterPurge'
    <2>1. \A s \in Session :
            \/ s \notin LiveSessions /\ sessions'[s] = sessions[s]
            \/ sessions'[s].status = "gone"
      BY <1>0, <1>5 DEF PurgeFamily, SessionRow
    <2>. QED  BY <2>1 DEF NoSessionsAfterPurge, LiveSessions, IsLive
  <1>. QED  BY <1>1, <1>2, <1>3, <1>4, <1>5, SessionSteps DEF SessionStep

\* No interleaving of sign-ins and refreshes with the purge leaves a session of a purged
\* family behind, or creates one afterwards (purgeFamilyGraph).
THEOREM PurgedIsEmpty == Spec => []NoSessionsAfterPurge
  <1>1. Init => NoSessionsAfterPurge
    BY DEF Init, NoSessionsAfterPurge
  <1>. QED  BY <1>1, TypedAlways, PurgedStep, PTL DEF Spec

-------------------------------------------------------------------------------
(* The chains of sessions. *)

\* Inductive: besides, a session that replaces one has been created, so the row of a new
\* session is never one that is already pointed at.
LineageInv ==
  \A s, t \in Session :
    sessions[s].replacedBy = t =>
      sessions[s].rotated /\ sessions[t].from = s /\ sessions[t].status # "none"

LEMMA LineageStep ==
  ASSUME Typed, LineageInv, [Next]_vars
  PROVE  LineageInv'
  <1>0. sessions \in [Session -> SessionRow] /\ NoSession \notin Session
    BY AccountsAssumption DEF Typed, TypeOK
  <1>1. CASE UNCHANGED <<sessions, exists, epoch>>
    BY <1>1 DEF LineageInv
  <1>2. CASE CreateStep
    <2>1. PICK s \in Session, who \in Who, from \in Session \cup {NoSession} :
            /\ sessions[s].status = "none"
            /\ \/ sessions' = [sessions EXCEPT ![s] = NewRow(who, from)]
               \/ sessions' = [sessions EXCEPT ![s] = [NewRow(who, from) EXCEPT !.issued = TRUE]]
      BY <1>2 DEF CreateStep
    <2>2. /\ sessions'[s].replacedBy = NoSession
          /\ \A t \in Session \ {s} : sessions'[t] = sessions[t]
      <3> DEFINE row == NewRow(who, from)
      <3>1. row.replacedBy = NoSession /\ [row EXCEPT !.issued = TRUE].replacedBy = NoSession
        BY DEF NewRow, NoRow
      <3> HIDE DEF row
      <3>2. sessions' \in {[sessions EXCEPT ![s] = row],
                           [sessions EXCEPT ![s] = [row EXCEPT !.issued = TRUE]]}
        BY <2>1 DEF row
      <3>. QED  BY <1>0, <3>1, <3>2
    <2>. QED  BY <1>0, <2>1, <2>2 DEF LineageInv
  <1>3. CASE RevokeStep
    <2>1. \A s \in Session :
            /\ sessions'[s].status = sessions[s].status /\ sessions'[s].from = sessions[s].from
            /\ sessions'[s].rotated = sessions[s].rotated
            /\ sessions'[s].replacedBy = sessions[s].replacedBy
      BY <1>0, <1>3 DEF RevokeStep, Revoked, SessionRow
    <2>. QED  BY <2>1 DEF LineageInv
  <1>4. ASSUME NEW p \in Req, RotateMark(p)
        PROVE  LineageInv'
    <2>1. /\ proc[p].sid \in Session /\ proc[p].new \in Session
          /\ sessions[proc[p].new].from = proc[p].sid
          /\ sessions[proc[p].new].status # "none"
      BY <1>4 DEF RotateMark, Typed, WorkerInv, WorkerOK, Proc
    <2>2. \A s \in Session :
            /\ sessions'[s].status = sessions[s].status /\ sessions'[s].from = sessions[s].from
            /\ s # proc[p].sid => /\ sessions'[s].rotated = sessions[s].rotated
                                  /\ sessions'[s].replacedBy = sessions[s].replacedBy
      BY <1>4, MarkEffect DEF Proc
    <2>3. sessions'[proc[p].sid].rotated /\ sessions'[proc[p].sid].replacedBy = proc[p].new
      BY <1>4, MarkEffect DEF Proc
    <2>. QED  BY <2>1, <2>2, <2>3 DEF LineageInv
  <1>5. ASSUME NEW p \in Sweeper, PurgeFamily(p)
        PROVE  LineageInv'
    <2>1. \A s \in Session :
            /\ sessions'[s].from = sessions[s].from /\ sessions'[s].rotated = sessions[s].rotated
            /\ sessions'[s].replacedBy = sessions[s].replacedBy
            /\ sessions'[s].status \in {sessions[s].status, "gone"}
      BY <1>0, <1>5 DEF PurgeFamily, SessionRow
    <2>. QED  BY <2>1 DEF LineageInv
  <1>. QED  BY <1>1, <1>2, <1>3, <1>4, <1>5, SessionSteps DEF SessionStep

\* The pointers revokeLineage follows lead from a used session to the one that was created
\* for it, also when several refreshes of one session overlap; no two chains meet.
THEOREM ChainsAreForward == Spec => []LineageIsForward
  <1>1. Init => LineageInv
    BY AccountsAssumption DEF Init, LineageInv, NoRow
  <1>2. LineageInv => LineageIsForward
    BY DEF LineageInv, LineageIsForward
  <1>. QED  BY <1>1, <1>2, TypedAlways, LineageStep, PTL DEF Spec

-------------------------------------------------------------------------------
(* How often a chain forks. *)

Replacing(s) == {t \in Session : sessions[t].from = s /\ sessions[t].issued}

\* The request has found the session unused, and may still hand out a pair for it.
Using(w, s) ==
  /\ w.sid = s
  /\ w.op \in {"rotate", "mark"} \/ (w.op = "refresh" /\ ~w.rotated)

Users(s) == {p \in Req : Using(proc[p], s)}

\* Inductive: the pairs handed out and those that are still to come are no more than the
\* requests there may be at once, since a new request finds a session that has a replacement
\* used.
ForkOK(s) ==
  /\ IsFiniteSet(Replacing(s))
  /\ Replacing(s) # {} => sessions[s].rotated /\ sessions[s].status # "none"
  /\ Cardinality(Replacing(s)) + Cardinality(Users(s)) <= Cardinality(Req)

ForkInv == \A s \in Session : ForkOK(s)

LEMMA UsersFinite ==
  ASSUME NEW s
  PROVE  /\ IsFiniteSet(Users(s)) /\ Cardinality(Users(s)) \in Nat /\ Cardinality(Req) \in Nat
         /\ Cardinality(Users(s)) <= Cardinality(Req)
  <1>1. Users(s) \subseteq Req /\ IsFiniteSet(Req)
    BY AccountsAssumption DEF Users
  <1>. QED  BY <1>1, FS_Subset, FS_CardinalityType

\* Only reading an unused session makes a request one that may replace it.
LEMMA UserSteps ==
  ASSUME Typed, [Next]_vars, NEW q \in Req, NEW s \in Session, Using(proc'[q], s)
  PROVE  \/ Using(proc[q], s)
         \/ RefreshRead(q, s) /\ ~sessions[s].rotated
  <1>0. q \in Proc /\ proc \in [Proc -> Local] /\ proc[q] \in Local
    BY DEF Typed, TypeOK, Proc
  <1>1. CASE proc'[q] = proc[q]
    BY <1>1
  <1>2. ASSUME NEW t \in Session, RefreshRead(q, t)
        PROVE  RefreshRead(q, s) /\ ~sessions[s].rotated
    <2>1. /\ proc'[q].sid = t /\ proc'[q].op = "refresh"
          /\ proc'[q].rotated = sessions[t].rotated
      BY <1>0, <1>2 DEF RefreshRead, Become, Idle
    <2>. QED  BY <1>2, <2>1 DEF Using
  <1>3. ASSUME NEW t \in Session, RotateCreate(q, t)
        PROVE  Using(proc[q], s)
    <2>1. proc'[q].sid = proc[q].sid /\ proc[q].op = "rotate"
      BY <1>0, <1>3 DEF RotateCreate, Become, Local
    <2>. QED  BY <2>1 DEF Using
  <1>4. CASE RefreshCheck(q) /\ proc'[q].op = "rotate"
    BY <1>0, <1>4, CheckPassed DEF Using
  <1>. QED  BY <1>0, <1>1, <1>2, <1>3, <1>4, RefreshMoves DEF Using

\* Without a request that hands out a pair, a session is replaced by no more than before,
\* and a new session by none.
ReplacingKept ==
  \A s \in Session :
    /\ Replacing(s)' \subseteq Replacing(s)
    /\ sessions[s].status # "none" =>
         sessions'[s].status # "none" /\ (sessions[s].rotated => sessions'[s].rotated)

LEMMA ReplacingSteps ==
  ASSUME Typed, SessionStep
  PROVE  ReplacingKept \/ \E p \in Req : RotateMark(p)
  <1>0. sessions \in [Session -> SessionRow] /\ NoSession \notin Session
    BY AccountsAssumption DEF Typed, TypeOK
  <1>1. CASE UNCHANGED <<sessions, exists, epoch>>
    BY <1>1 DEF ReplacingKept, Replacing
  <1>2. CASE CreateStep
    <2>1. PICK s \in Session, who \in Who, from \in Session \cup {NoSession} :
            /\ sessions[s].status = "none"
            /\ \/ sessions' = [sessions EXCEPT ![s] = NewRow(who, from)]
               \/ /\ from = NoSession
                  /\ sessions' = [sessions EXCEPT ![s] = [NewRow(who, from) EXCEPT !.issued = TRUE]]
      BY <1>2 DEF CreateStep
    <2>2. /\ ~sessions'[s].issued \/ sessions'[s].from = NoSession
          /\ \A t \in Session \ {s} : sessions'[t] = sessions[t]
      <3>1. CASE sessions' = [sessions EXCEPT ![s] = NewRow(who, from)]
        <4>1. ~NewRow(who, from).issued
          BY DEF NewRow, NoRow
        <4>. QED  BY <1>0, <3>1, <4>1
      <3>2. CASE /\ from = NoSession
                 /\ sessions' = [sessions EXCEPT ![s] = [NewRow(who, from) EXCEPT !.issued = TRUE]]
        <4>1. [NewRow(who, from) EXCEPT !.issued = TRUE].from = NoSession
          BY <3>2 DEF NewRow, NoRow
        <4>. QED  BY <1>0, <3>2, <4>1
      <3>. QED  BY <2>1, <3>1, <3>2
    <2>. QED  BY <1>0, <2>1, <2>2 DEF ReplacingKept, Replacing
  <1>3. CASE RevokeStep
    <2>1. \A s \in Session :
            /\ sessions'[s].status = sessions[s].status /\ sessions'[s].from = sessions[s].from
            /\ sessions'[s].rotated = sessions[s].rotated
            /\ sessions'[s].issued = sessions[s].issued
      BY <1>0, <1>3 DEF RevokeStep, Revoked, SessionRow
    <2>. QED  BY <2>1 DEF ReplacingKept, Replacing
  <1>4. ASSUME NEW p \in Sweeper, PurgeFamily(p)
        PROVE  ReplacingKept
    <2>1. \A s \in Session :
            /\ sessions'[s].from = sessions[s].from /\ sessions'[s].rotated = sessions[s].rotated
            /\ sessions'[s].issued = sessions[s].issued
            /\ sessions'[s].status \in {sessions[s].status, "gone"}
      BY <1>0, <1>4 DEF PurgeFamily, SessionRow
    <2>. QED  BY <2>1 DEF ReplacingKept, Replacing
  <1>. QED  BY <1>1, <1>2, <1>3, <1>4 DEF SessionStep

LEMMA ForkMarked ==
  ASSUME Typed, ForkInv, [Next]_vars, NEW p \in Req, RotateMark(p), NEW s \in Session
  PROVE  ForkOK(s)'
  <1>0. /\ p \in Proc /\ proc \in [Proc -> Local]
        /\ proc[p].op = "mark" /\ sessions[proc[p].sid].status = "live"
        /\ proc[p].sid \in Session /\ proc[p].new \in Session
        /\ sessions[proc[p].new].from = proc[p].sid
    BY DEF Typed, TypeOK, RotateMark, IsLive, WorkerInv, WorkerOK, Proc
  <1>1. /\ \A t \in Session :
             /\ sessions'[t].status = sessions[t].status
             /\ sessions'[t].from = sessions[t].from
             /\ t # proc[p].sid => sessions'[t].rotated = sessions[t].rotated
             /\ t # proc[p].new => sessions'[t].issued = sessions[t].issued
        /\ sessions'[proc[p].sid].rotated
    BY <1>0, MarkEffect
  <1>2. /\ IsFiniteSet(Replacing(s)) /\ Cardinality(Replacing(s)) \in Nat
        /\ Replacing(s) # {} => sessions[s].rotated /\ sessions[s].status # "none"
        /\ Cardinality(Replacing(s)) + Cardinality(Users(s)) <= Cardinality(Req)
    BY FS_CardinalityType DEF ForkInv, ForkOK
  <1>3. ~Using(proc'[p], s)
    BY <1>0, BecomeAt DEF RotateMark, Return, Idle, Using
  <1>4. \A q \in Req : ~RefreshRead(q, s)
    <2>1. proc' = [proc EXCEPT ![p] = Idle]
      BY DEF RotateMark, Return, Become
    <2>2. ASSUME NEW q \in Req, RefreshRead(q, s)
          PROVE  FALSE
      <3>1. proc'[q].op = "refresh" /\ proc[q].op = "idle"
        BY <1>0, <2>2 DEF RefreshRead, Become, Idle, Proc
      <3>2. proc'[q] = proc[q] \/ proc'[q] = Idle
        BY <1>0, <2>1 DEF Proc
      <3>. QED  BY <3>1, <3>2 DEF Idle
    <2>. QED  BY <2>2
  <1>5. Users(s)' \subseteq Users(s) \ {p}
    BY <1>3, <1>4, UserSteps DEF Users
  <1>6. CASE s = proc[p].sid
    <2>1. p \in Users(s)
      BY <1>0, <1>6 DEF Users, Using
    <2>2. Cardinality(Users(s)') <= Cardinality(Users(s)) - 1 /\ Cardinality(Users(s)') \in Nat
      <3>1. /\ IsFiniteSet(Users(s) \ {p})
            /\ Cardinality(Users(s) \ {p}) = Cardinality(Users(s)) - 1
        BY <2>1, UsersFinite, FS_RemoveElement
      <3>. QED  BY <1>5, <3>1, FS_Subset, FS_CardinalityType
    <2>3. Replacing(s)' \subseteq Replacing(s) \cup {proc[p].new}
      BY <1>1 DEF Replacing
    <2>4. /\ IsFiniteSet(Replacing(s)') /\ Cardinality(Replacing(s)') \in Nat
          /\ Cardinality(Replacing(s)') <= Cardinality(Replacing(s)) + 1
      <3>1. /\ IsFiniteSet(Replacing(s) \cup {proc[p].new})
            /\ Cardinality(Replacing(s) \cup {proc[p].new}) <= Cardinality(Replacing(s)) + 1
        <4> DEFINE g == proc[p].new
                   old == Replacing(s)
        <4>1. IsFiniteSet(old) /\ Cardinality(old) \in Nat
          BY <1>2
        <4> HIDE DEF g, old
        <4>2. /\ IsFiniteSet(old \cup {g})
              /\ Cardinality(old \cup {g}) <= Cardinality(old) + 1
          <5>1. /\ IsFiniteSet(old \cup {g})
                /\ Cardinality(old \cup {g}) =
                     IF g \in old THEN Cardinality(old) ELSE Cardinality(old) + 1
            BY <4>1, FS_AddElement
          <5>. QED  BY <4>1, <5>1
        <4>. QED  BY <4>2 DEF g, old
      <3>. QED  BY <1>2, <2>3, <3>1, FS_Subset, FS_CardinalityType
    <2>5. sessions'[s].rotated /\ sessions'[s].status # "none"
      BY <1>0, <1>1, <1>6
    <2>6. Cardinality(Replacing(s)') + Cardinality(Users(s)') <= Cardinality(Req)
      BY <1>2, <2>2, <2>4, UsersFinite
    <2>. QED  BY <2>4, <2>5, <2>6 DEF ForkOK
  <1>7. CASE s # proc[p].sid
    <2>1. Replacing(s)' = Replacing(s)
      BY <1>0, <1>1, <1>7 DEF Replacing
    <2>2. Cardinality(Users(s)') <= Cardinality(Users(s)) /\ Cardinality(Users(s)') \in Nat
      <3>1. Users(s)' \subseteq Users(s)
        BY <1>5
      <3>. QED  BY <3>1, UsersFinite, FS_Subset, FS_CardinalityType
    <2>3. Cardinality(Replacing(s)') + Cardinality(Users(s)') <= Cardinality(Req)
      BY <1>2, <2>1, <2>2, UsersFinite
    <2>4. sessions'[s].status = sessions[s].status /\ sessions'[s].rotated = sessions[s].rotated
      BY <1>1, <1>7
    <2>. QED  BY <1>2, <2>1, <2>3, <2>4 DEF ForkOK
  <1>. QED  BY <1>6, <1>7

LEMMA ForkStep ==
  ASSUME Typed, ForkInv, [Next]_vars
  PROVE  ForkInv'
  <1>1. CASE \E p \in Req : RotateMark(p)
    BY <1>1, ForkMarked DEF ForkInv
  <1>2. CASE ReplacingKept
    <2> SUFFICES ASSUME NEW s \in Session
                 PROVE  ForkOK(s)'
      BY DEF ForkInv
    <2>1. /\ IsFiniteSet(Replacing(s)) /\ Cardinality(Replacing(s)) \in Nat
          /\ Replacing(s) # {} => sessions[s].rotated /\ sessions[s].status # "none"
          /\ Cardinality(Replacing(s)) + Cardinality(Users(s)) <= Cardinality(Req)
      BY FS_CardinalityType DEF ForkInv, ForkOK
    <2>2. Replacing(s)' \subseteq Replacing(s)
      BY <1>2 DEF ReplacingKept
    <2>3. /\ IsFiniteSet(Replacing(s)') /\ Cardinality(Replacing(s)') \in Nat
          /\ Cardinality(Replacing(s)') <= Cardinality(Replacing(s))
      BY <2>1, <2>2, FS_Subset, FS_CardinalityType
    <2>4. Replacing(s)' # {} => sessions'[s].rotated /\ sessions'[s].status # "none"
      BY <1>2, <2>1, <2>2 DEF ReplacingKept
    <2>5. Users(s)' \subseteq Req /\ Cardinality(Users(s)') \in Nat
                                  /\ Cardinality(Users(s)') <= Cardinality(Req)
      <3>1. Users(s)' \subseteq Req /\ IsFiniteSet(Req)
        BY AccountsAssumption DEF Users
      <3>. QED  BY <3>1, FS_Subset, FS_CardinalityType
    <2>6. Cardinality(Replacing(s)') + Cardinality(Users(s)') <= Cardinality(Req)
      <3>1. CASE Replacing(s)' = {}
        <4>1. Cardinality(Replacing(s)') = 0
          BY <3>1, FS_EmptySet
        <4>. QED  BY <2>5, <4>1, UsersFinite
      <3>2. CASE Replacing(s)' # {}
        <4>1. sessions[s].rotated
          BY <2>1, <2>2, <3>2
        <4>2. Users(s)' \subseteq Users(s)
          BY <4>1, UserSteps DEF Users
        <4>3. Cardinality(Users(s)') <= Cardinality(Users(s))
          BY <4>2, UsersFinite, FS_Subset
        <4>. QED  BY <2>1, <2>3, <2>5, <4>3, UsersFinite
      <3>. QED  BY <3>1, <3>2
    <2>. QED  BY <2>3, <2>4, <2>6 DEF ForkOK
  <1>. QED  BY <1>1, <1>2, SessionSteps, ReplacingSteps

\* However refreshes of one session overlap, no more pairs are handed out for it than
\* requests may be in progress at once (rotateRefresh).
THEOREM ForksAreBounded == Spec => []BoundedFork
  <1>1. Init => ForkInv
    <2> SUFFICES ASSUME Init, NEW s \in Session
                 PROVE  ForkOK(s)
      BY DEF ForkInv
    <2>1. Replacing(s) = {}
      BY DEF Init, Replacing, NoRow
    <2>2. IsFiniteSet(Replacing(s)) /\ Cardinality(Replacing(s)) = 0
      BY <2>1, FS_EmptySet
    <2>. QED  BY <2>1, <2>2, UsersFinite DEF ForkOK
  <1>2. ForkInv => BoundedFork
    <2> SUFFICES ASSUME ForkInv, NEW s \in Session
                 PROVE  Cardinality(Replacing(s)) <= Cardinality(Req)
      BY DEF BoundedFork, Replacing
    <2>1. /\ Cardinality(Replacing(s)) \in Nat
          /\ Cardinality(Replacing(s)) + Cardinality(Users(s)) <= Cardinality(Req)
      BY FS_CardinalityType DEF ForkInv, ForkOK
    <2>. QED  BY <2>1, UsersFinite
  <1>. QED  BY <1>1, <1>2, TypedAlways, ForkStep, PTL DEF Spec

-------------------------------------------------------------------------------
(* What is minted in the retain window. *)

\* The request is past its look at the deletion and creates a session next.
Minting(w) == w.op \in {"mint", "rotate"}
Minters == {p \in Req : Minting(proc[p])}

EpochInv == \A s \in Session : sessions[s].epoch <= epoch

\* Inductive: the sessions minted and those still to come are fewer than the requests there
\* may be at once, since the request that deletes is one of those and mints nothing.
LateInv ==
  ~OAuth /\ Pending =>
    /\ IsFiniteSet(MintedSince)
    /\ Cardinality(MintedSince) + Cardinality(Minters) < Cardinality(Req)

\* The window is open after a step if it was before, or else by a deletion.
LEMMA WindowSteps ==
  ASSUME Typed, [Next]_vars, Pending'
  PROVE  (Pending /\ epoch' = epoch) \/ \E p \in Req : DeleteWrite(p)
  <1>1. ASSUME NEW p \in Req, Request(p)
        PROVE  UNCHANGED <<purgeAfter, epoch>>
    BY <1>1 DEF Request, LoginRead, OAuthRead, RefreshRead, Authenticate
  <1>2. ASSUME NEW p \in Req, Continue(p), ~DeleteWrite(p)
        PROVE  UNCHANGED <<purgeAfter, epoch>>
    <2>1. ~CancelWrite(p)
      BY DEF CancelWrite, Pending
    <2>. QED  BY <1>2, <2>1 DEF Continue, Mint, RefreshCheck, RotateCreate, RotateMark, Walk,
                 RevokeWalked, DeleteRead, CancelRead
  <1>3. ASSUME NEW p \in Sweeper, PurgeScan(p) \/ PurgeStep(p)
        PROVE  UNCHANGED <<purgeAfter, epoch>>
    <2>1. ~PurgeFamily(p)
      BY DEF PurgeFamily, Pending
    <2>. QED  BY <1>3, <2>1 DEF PurgeScan, PurgeStep, PurgeRecheck, PurgeRows
  <1>4. ASSUME \/ UNCHANGED vars \/ Tick \/ (\E s \in Session : Logout(s))
               \/ (\E s \in Session, c \in Child : RevokeAllForChild(s, c))
               \/ (\E p \in Proc : Crash(p))
        PROVE  UNCHANGED <<purgeAfter, epoch>>
    BY <1>4 DEF vars, Tick, Logout, RevokeAllForChild, Crash
  <1>5. UNCHANGED <<purgeAfter, epoch>> \/ \E p \in Req : DeleteWrite(p)
    BY <1>1, <1>2, <1>3, <1>4 DEF Next
  <1>. QED  BY <1>5 DEF Pending

\* Only signing in makes a request one that mints without a look at a session.
LEMMA MintMoves ==
  ASSUME Typed, [Next]_vars, NEW q \in Req, proc'[q].op = "mint"
  PROVE  proc'[q] = proc[q] \/ OAuthRead(q) \/ \E who \in Who : LoginRead(q, who)
  <1>0. q \in Proc /\ proc \in [Proc -> Local] /\ proc[q] \in Local
    BY DEF Typed, TypeOK, Proc
  <1>1. ASSUME NEW p \in Req, Request(p)
        PROVE  proc'[q] = proc[q] \/ OAuthRead(q) \/ \E who \in Who : LoginRead(q, who)
    <2>0. p \in Proc
      BY DEF Proc
    <2>1. CASE p # q
      <3>1. \E l : Become(p, l)
        BY <1>1 DEF Request, LoginRead, OAuthRead, Authenticate, RefreshRead
      <3>. QED  BY <1>0, <2>0, <2>1, <3>1, BecomeAt
    <2>2. ASSUME NEW s \in Session, RefreshRead(q, s)
          PROVE  FALSE
      <3>1. proc'[q] = [Idle EXCEPT !.op = "refresh", !.sid = s, !.who = sessions[s].who,
                                    !.rotated = sessions[s].rotated]
        BY <1>0, <2>2, BecomeAt DEF RefreshRead
      <3>. QED  BY <3>1 DEF Idle
    <2>3. ASSUME NEW s \in Session, NEW op \in {"delete", "cancel"}, Authenticate(q, s, op)
          PROVE  FALSE
      <3>1. proc'[q] = [Idle EXCEPT !.op = op]
        BY <1>0, <2>3, BecomeAt DEF Authenticate
      <3>. QED  BY <3>1 DEF Idle
    <2>. QED  BY <1>1, <2>1, <2>2, <2>3 DEF Request
  <1>2. ASSUME NEW p \in Req, Continue(p)
        PROVE  proc'[q] = proc[q]
    <2>0. p \in Proc
      BY DEF Proc
    <2>1. CASE p # q
      <3>1. \E l : Become(p, l)
        BY <1>2 DEF Continue, Mint, RefreshCheck, RotateCreate, RotateMark, Walk,
                 RevokeWalked, DeleteRead, DeleteWrite, CancelRead, CancelWrite, Return
      <3>. QED  BY <1>0, <2>0, <2>1, <3>1, BecomeAt
    <2>2. ~Return(q)
      BY <1>0, BecomeAt DEF Return, Idle
    <2>3. ASSUME NEW s \in Session, RotateCreate(q, s)
          PROVE  FALSE
      <3>1. proc'[q] = [proc[q] EXCEPT !.op = "mark", !.new = s]
        BY <1>0, <2>3, BecomeAt DEF RotateCreate
      <3>. QED  BY <1>0, <3>1 DEF Local
    <2>4. ~RefreshCheck(q)
      <3>1. ASSUME Become(q, [proc[q] EXCEPT !.op = "walk", !.new = proc[q].sid])
            PROVE  FALSE
        <4>1. proc'[q] = [proc[q] EXCEPT !.op = "walk", !.new = proc[q].sid]
          BY <1>0, <3>1, BecomeAt
        <4>. QED  BY <1>0, <4>1 DEF Local
      <3>2. ASSUME Become(q, [proc[q] EXCEPT !.op = "rotate"])
            PROVE  FALSE
        BY <1>0, <3>2, BecomeAt DEF Local
      <3>. QED  BY <2>2, <3>1, <3>2 DEF RefreshCheck
    <2>5. ~Walk(q)
      <3> SUFFICES ASSUME Walk(q)
                   PROVE  FALSE
        OBVIOUS
      <3>1. proc'[q] = [proc[q] EXCEPT !.ids = @ \cup {proc[q].new},
                                       !.new = sessions[proc[q].new].replacedBy]
        BY <1>0, BecomeAt DEF Walk
      <3>2. proc'[q].op = proc[q].op
        BY <1>0, <3>1 DEF Local
      <3>. QED  BY <3>2 DEF Walk
    <2>6. ~DeleteRead(q)
      <3> SUFFICES ASSUME Become(q, [proc[q] EXCEPT !.op = "deleteWrite", !.at = now])
                   PROVE  FALSE
        BY <2>2 DEF DeleteRead
      <3>1. proc'[q] = [proc[q] EXCEPT !.op = "deleteWrite", !.at = now]
        BY <1>0, BecomeAt
      <3>. QED  BY <1>0, <3>1 DEF Local
    <2>7. ~CancelRead(q)
      <3> SUFFICES ASSUME Become(q, [proc[q] EXCEPT !.op = "cancelWrite"])
                   PROVE  FALSE
        BY <2>2 DEF CancelRead
      <3>. QED  BY <1>0, BecomeAt DEF Local
    <2>. QED  BY <1>2, <2>1, <2>2, <2>3, <2>4, <2>5, <2>6, <2>7
              DEF Continue, Mint, RotateMark, RevokeWalked, DeleteWrite, CancelWrite
  <1>3. ASSUME NEW p \in Sweeper, PurgeScan(p) \/ PurgeStep(p)
        PROVE  proc'[q] = proc[q]
    <2>0. p \in Proc
      BY DEF Proc
    <2>1. CASE p # q
      <3>1. \E l : Become(p, l)
        BY <1>3 DEF PurgeScan, PurgeStep, PurgeRecheck, PurgeRows, PurgeFamily, Return
      <3>. QED  BY <1>0, <2>0, <2>1, <3>1, BecomeAt
    <2>2. ~Return(q)
      BY <1>0, BecomeAt DEF Return, Idle
    <2>3. ~PurgeScan(q)
      <3> SUFFICES ASSUME Become(q, [Idle EXCEPT !.op = "purge", !.at = now])
                   PROVE  FALSE
        BY DEF PurgeScan
      <3>1. proc'[q] = [Idle EXCEPT !.op = "purge", !.at = now]
        BY <1>0, BecomeAt
      <3>. QED  BY <3>1 DEF Idle
    <2>4. ~PurgeRecheck(q)
      <3> SUFFICES ASSUME Become(q, [proc[q] EXCEPT !.op = "purgeRows"])
                   PROVE  FALSE
        BY <2>2 DEF PurgeRecheck
      <3>. QED  BY <1>0, BecomeAt DEF Local
    <2>5. ~PurgeRows(q)
      <3> SUFFICES ASSUME Become(q, [proc[q] EXCEPT !.op = "purgeFamily", !.ids = LiveSessions])
                   PROVE  FALSE
        BY DEF PurgeRows
      <3>1. proc'[q] = [proc[q] EXCEPT !.op = "purgeFamily", !.ids = LiveSessions]
        BY <1>0, BecomeAt
      <3>. QED  BY <1>0, <3>1 DEF Local
    <2>. QED  BY <1>3, <2>1, <2>2, <2>3, <2>4, <2>5 DEF PurgeStep, PurgeFamily
  <1>4. ASSUME NEW p \in Proc, Crash(p)
        PROVE  proc'[q] = proc[q]
    <2>1. ~Return(q)
      BY <1>0, BecomeAt DEF Return, Idle
    <2>. QED  BY <1>0, <1>4, <2>1, BecomeAt DEF Crash, Return
  <1>5. ASSUME \/ UNCHANGED vars \/ Tick \/ (\E s \in Session : Logout(s))
               \/ (\E s \in Session, c \in Child : RevokeAllForChild(s, c))
        PROVE  UNCHANGED proc
    BY <1>5 DEF vars, Tick, Logout, RevokeAllForChild
  <1>. QED  BY <1>1, <1>2, <1>3, <1>4, <1>5 DEF Next

\* While the window is open and nobody signs in by OAuth, no request becomes one that mints.
LEMMA NoNewMinter ==
  ASSUME Typed, [Next]_vars, ~OAuth, Pending, NEW q \in Req, Minting(proc'[q])
  PROVE  Minting(proc[q])
  <1>0. q \in Proc /\ proc \in [Proc -> Local]
    BY DEF Typed, TypeOK, Proc
  <1>1. CASE proc'[q].op = "mint"
    BY <1>1, MintMoves DEF LoginRead, OAuthRead, Minting
  <1>2. CASE proc'[q].op = "rotate"
    <2>1. ASSUME NEW s \in Session, RefreshRead(q, s)
          PROVE  FALSE
      <3>1. proc'[q] = [Idle EXCEPT !.op = "refresh", !.sid = s, !.who = sessions[s].who,
                                    !.rotated = sessions[s].rotated]
        BY <1>0, <2>1, BecomeAt DEF RefreshRead
      <3>. QED  BY <1>2, <3>1 DEF Idle
    <2>2. ASSUME NEW s \in Session, RotateCreate(q, s)
          PROVE  FALSE
      <3>1. proc[q] \in Local
        BY <1>0
      <3>2. proc'[q] = [proc[q] EXCEPT !.op = "mark", !.new = s]
        BY <1>0, <2>2, BecomeAt DEF RotateCreate
      <3>. QED  BY <1>2, <3>1, <3>2 DEF Local
    <2>3. ASSUME RefreshCheck(q)
          PROVE  FALSE
      BY <1>0, <1>2, <2>3, BecomeAt DEF RefreshCheck, Return, Idle
    <2>. QED  BY <1>0, <1>2, <2>1, <2>2, <2>3, RefreshMoves DEF Minting
  <1>. QED  BY <1>1, <1>2 DEF Minting

LEMMA MintersFinite ==
  /\ IsFiniteSet(Minters) /\ Cardinality(Minters) \in Nat /\ Cardinality(Req) \in Nat
  /\ Cardinality(Minters) <= Cardinality(Req)
  <1>1. Minters \subseteq Req /\ IsFiniteSet(Req)
    BY AccountsAssumption DEF Minters
  <1>. QED  BY <1>1, FS_Subset, FS_CardinalityType

\* No step but one that mints makes a session one of the window's.
LEMMA MintedSteps ==
  ASSUME Typed, SessionStep, Pending', epoch' = epoch
  PROVE  MintedSince' \subseteq MintedSince \/ CreateStep
  <1>0. sessions \in [Session -> SessionRow]
    BY DEF Typed, TypeOK
  <1>1. ASSUME \A s \in Session : /\ sessions'[s].epoch = sessions[s].epoch
                                  /\ sessions[s].status = "none" => sessions'[s].status = "none"
        PROVE  MintedSince' \subseteq MintedSince
    <2> SUFFICES ASSUME NEW s \in Session,
                        sessions'[s].status # "none", sessions'[s].epoch = epoch'
                 PROVE  sessions[s].status # "none" /\ sessions[s].epoch = epoch
      BY DEF MintedSince
    <2>. QED  BY <1>1
  <1>2. CASE UNCHANGED <<sessions, exists, epoch>>
    BY <1>2 DEF MintedSince
  <1>3. CASE RevokeStep
    <2>1. PICK ids \in SUBSET Session : sessions' = Revoked(ids)
      BY <1>3 DEF RevokeStep
    <2>2. \A s \in Session :
            /\ sessions'[s].status = sessions[s].status
            /\ sessions'[s].epoch = sessions[s].epoch
      BY <1>0, <2>1 DEF Revoked, SessionRow
    <2>. QED  BY <1>1, <2>2
  <1>4. ASSUME NEW p \in Req, RotateMark(p)
        PROVE  MintedSince' \subseteq MintedSince
    BY <1>1, <1>4, MarkEffect DEF Proc
  <1>5. ~\E p \in Sweeper : PurgeFamily(p)
    BY DEF PurgeFamily, Pending
  <1>. QED  BY <1>2, <1>3, <1>4, <1>5 DEF SessionStep

\* A deletion leaves none minted, and the request that made it will not mint.
LEMMA LateDeleted ==
  ASSUME Typed, EpochInv, [Next]_vars, NEW p \in Req, DeleteWrite(p)
  PROVE  LateInv'
  <1>0. /\ p \in Proc /\ proc \in [Proc -> Local] /\ sessions \in [Session -> SessionRow]
        /\ epoch \in Nat /\ epoch' = epoch + 1
    BY DEF Typed, TypeOK, Proc, DeleteWrite
  <1>1. MintedSince' = {}
    <2>1. \A s \in Session : sessions'[s].epoch = sessions[s].epoch
      BY <1>0 DEF DeleteWrite, Revoked, SessionRow
    <2>2. \A s \in Session : sessions[s].epoch \in Nat /\ sessions[s].epoch <= epoch
      BY <1>0 DEF SessionRow, EpochInv
    <2>. QED  BY <1>0, <2>1, <2>2 DEF MintedSince
  <1>2. Minters' \subseteq Req \ {p}
    BY <1>0, BecomeAt DEF DeleteWrite, Return, Idle, Minters, Minting
  <1>3. /\ IsFiniteSet(Req \ {p}) /\ Cardinality(Req \ {p}) = Cardinality(Req) - 1
        /\ Cardinality(Req) \in Nat
    BY AccountsAssumption, FS_RemoveElement, FS_CardinalityType
  <1>4. Cardinality(Minters') \in Nat /\ Cardinality(Minters') < Cardinality(Req)
    <2>1. /\ IsFiniteSet(Minters')
          /\ Cardinality(Minters') <= Cardinality(Req \ {p})
      BY <1>2, <1>3, FS_Subset
    <2>2. Cardinality(Minters') \in Nat
      BY <2>1, FS_CardinalityType
    <2>. QED  BY <1>3, <2>1, <2>2
  <1>5. IsFiniteSet(MintedSince') /\ Cardinality(MintedSince') = 0
    BY <1>1, FS_EmptySet
  <1>. QED  BY <1>4, <1>5 DEF LateInv

\* A request that mints is one of those that were about to.
LEMMA LateMinted ==
  ASSUME Typed, LateInv, [Next]_vars, ~OAuth, Pending, Pending', CreateStep
  PROVE  LateInv'
  <1>0. sessions \in [Session -> SessionRow] /\ proc \in [Proc -> Local] /\ epoch' = epoch
    BY DEF Typed, TypeOK, CreateStep
  <1>1. /\ IsFiniteSet(MintedSince) /\ Cardinality(MintedSince) \in Nat
        /\ Cardinality(MintedSince) + Cardinality(Minters) < Cardinality(Req)
    BY FS_CardinalityType DEF LateInv
  <1>2. PICK s \in Session : /\ \A t \in Session \ {s} : sessions'[t] = sessions[t]
                             /\ \E p \in Req : Mint(p, s) \/ RotateCreate(p, s)
    BY <1>0 DEF CreateStep
  <1>3. PICK p \in Req : Mint(p, s) \/ RotateCreate(p, s)
    BY <1>2
  <1>4. p \in Proc /\ proc[p] \in Local /\ Minting(proc[p]) /\ ~Minting(proc'[p])
    <2>1. p \in Proc /\ proc[p] \in Local
      BY <1>0 DEF Proc
    <2>2. CASE Mint(p, s)
      BY <2>1, <2>2, BecomeAt DEF Mint, Return, Idle, Minting
    <2>3. CASE RotateCreate(p, s)
      <3>1. proc'[p] = [proc[p] EXCEPT !.op = "mark", !.new = s]
        BY <2>1, <2>3, BecomeAt DEF RotateCreate
      <3>2. proc'[p].op = "mark"
        BY <2>1, <3>1 DEF Local
      <3>. QED  BY <2>1, <2>3, <3>2 DEF RotateCreate, Minting
    <2>. QED  BY <1>3, <2>2, <2>3
  <1>5. Minters' \subseteq Minters \ {p} /\ p \in Minters
    BY <1>4, NoNewMinter DEF Minters
  <1>6. Cardinality(Minters') \in Nat /\ Cardinality(Minters') <= Cardinality(Minters) - 1
    <2>1. /\ IsFiniteSet(Minters \ {p})
          /\ Cardinality(Minters \ {p}) = Cardinality(Minters) - 1
      BY <1>5, MintersFinite, FS_RemoveElement
    <2>. QED  BY <1>5, <2>1, FS_Subset, FS_CardinalityType
  <1>7. MintedSince' \subseteq MintedSince \cup {s}
    BY <1>0, <1>2 DEF MintedSince
  <1>8. /\ IsFiniteSet(MintedSince') /\ Cardinality(MintedSince') \in Nat
        /\ Cardinality(MintedSince') <= Cardinality(MintedSince) + 1
    <2> DEFINE old == MintedSince
    <2>1. IsFiniteSet(old) /\ Cardinality(old) \in Nat
      BY <1>1
    <2> HIDE DEF old
    <2>2. /\ IsFiniteSet(old \cup {s})
          /\ Cardinality(old \cup {s}) =
               IF s \in old THEN Cardinality(old) ELSE Cardinality(old) + 1
      BY <2>1, FS_AddElement
    <2>3. IsFiniteSet(old \cup {s}) /\ Cardinality(old \cup {s}) <= Cardinality(old) + 1
      BY <2>1, <2>2
    <2>4. MintedSince' \subseteq old \cup {s}
      BY <1>7 DEF old
    <2>5. /\ IsFiniteSet(MintedSince') /\ Cardinality(MintedSince') \in Nat
          /\ Cardinality(MintedSince') <= Cardinality(old \cup {s})
          /\ Cardinality(old \cup {s}) \in Nat
      BY <2>3, <2>4, FS_Subset, FS_CardinalityType
    <2>6. Cardinality(MintedSince') <= Cardinality(old) + 1
      BY <2>1, <2>3, <2>5
    <2>. QED  BY <2>5, <2>6 DEF old
  <1>9. Cardinality(MintedSince') + Cardinality(Minters') < Cardinality(Req)
    BY <1>1, <1>6, <1>8, MintersFinite
  <1>. QED  BY <1>8, <1>9 DEF LateInv

LEMMA LateStep ==
  ASSUME Typed, EpochInv, LateInv, [Next]_vars
  PROVE  LateInv'
  <1>1. SUFFICES ASSUME ~OAuth, Pending'
                 PROVE  LateInv'
    BY DEF LateInv
  <1>2. CASE \E p \in Req : DeleteWrite(p)
    BY <1>2, LateDeleted
  <1>3. CASE Pending /\ epoch' = epoch
    <2>1. CASE CreateStep
      BY <1>1, <1>3, <2>1, LateMinted
    <2>2. CASE MintedSince' \subseteq MintedSince
      <3>1. /\ IsFiniteSet(MintedSince) /\ Cardinality(MintedSince) \in Nat
            /\ Cardinality(MintedSince) + Cardinality(Minters) < Cardinality(Req)
        BY <1>1, <1>3, FS_CardinalityType DEF LateInv
      <3>2. /\ IsFiniteSet(MintedSince') /\ Cardinality(MintedSince') \in Nat
            /\ Cardinality(MintedSince') <= Cardinality(MintedSince)
        BY <2>2, <3>1, FS_Subset, FS_CardinalityType
      <3>3. Minters' \subseteq Minters
        BY <1>1, <1>3, NoNewMinter DEF Minters
      <3>4. Cardinality(Minters') \in Nat /\ Cardinality(Minters') <= Cardinality(Minters)
        BY <3>3, MintersFinite, FS_Subset, FS_CardinalityType
      <3>5. Cardinality(MintedSince') + Cardinality(Minters') < Cardinality(Req)
        BY <3>1, <3>2, <3>4, MintersFinite
      <3>. QED  BY <3>2, <3>5 DEF LateInv
    <2>. QED  BY <1>1, <1>3, <2>1, <2>2, SessionSteps, MintedSteps
  <1>. QED  BY <1>1, <1>2, <1>3, WindowSteps

LEMMA EpochStep ==
  ASSUME Typed, EpochInv, [Next]_vars
  PROVE  EpochInv'
  <1>0. sessions \in [Session -> SessionRow] /\ epoch \in Nat
    BY DEF Typed, TypeOK
  <1>1. \A s \in Session : sessions[s].epoch \in Nat /\ sessions[s].epoch <= epoch
    BY <1>0 DEF SessionRow, EpochInv
  <1>2. CASE UNCHANGED <<sessions, exists, epoch>>
    BY <1>2 DEF EpochInv
  <1>3. CASE CreateStep
    <2>1. PICK s \in Session, who \in Who, from \in Session \cup {NoSession} :
            \/ sessions' = [sessions EXCEPT ![s] = NewRow(who, from)]
            \/ sessions' = [sessions EXCEPT ![s] = [NewRow(who, from) EXCEPT !.issued = TRUE]]
      BY <1>3 DEF CreateStep
    <2>2. sessions'[s].epoch = epoch /\ \A t \in Session \ {s} : sessions'[t] = sessions[t]
      BY <1>0, <2>1 DEF NewRow, NoRow
    <2>3. epoch' = epoch
      BY <1>3 DEF CreateStep
    <2>. QED  BY <1>0, <1>1, <2>2, <2>3 DEF EpochInv
  <1>4. CASE RevokeStep
    <2>1. epoch' \in Nat /\ epoch <= epoch'
      BY <1>0, <1>4 DEF RevokeStep
    <2>2. PICK ids \in SUBSET Session : sessions' = Revoked(ids)
      BY <1>4 DEF RevokeStep
    <2>3. \A s \in Session : sessions'[s].epoch = sessions[s].epoch
      BY <1>0, <2>2 DEF Revoked, SessionRow
    <2>. QED  BY <1>0, <1>1, <2>1, <2>3 DEF EpochInv
  <1>5. ASSUME NEW p \in Req, RotateMark(p)
        PROVE  EpochInv'
    <2>1. epoch' = epoch /\ \A s \in Session : sessions'[s].epoch = sessions[s].epoch
      BY <1>5, MarkEffect DEF Proc, RotateMark
    <2>. QED  BY <1>1, <2>1 DEF EpochInv
  <1>6. ASSUME NEW p \in Sweeper, PurgeFamily(p)
        PROVE  EpochInv'
    <2>1. epoch' = epoch /\ \A s \in Session : sessions'[s].epoch = sessions[s].epoch
      BY <1>0, <1>6 DEF PurgeFamily, SessionRow
    <2>. QED  BY <1>1, <2>1 DEF EpochInv
  <1>. QED  BY <1>2, <1>3, <1>4, <1>5, <1>6, SessionSteps DEF SessionStep

\* Without OAuth, what is minted in the retain window is only what was under way when the
\* deletion committed, fewer sessions than requests may be in progress: a sign-in or a
\* refresh that looks at the family afterwards mints none (assertFamilyNotPendingDeletion).
THEOREM LateMintsAreFew == Spec => []LateMintsAreInFlight
  <1>1. Init => EpochInv /\ LateInv
    <2>1. ASSUME Init
          PROVE  EpochInv
      BY <2>1 DEF Init, EpochInv, NoRow
    <2>2. ASSUME Init
          PROVE  LateInv
      BY <2>2 DEF Init, LateInv, Pending
    <2>. QED  BY <2>1, <2>2
  <1>2. LateInv => LateMintsAreInFlight
    <2> SUFFICES ASSUME LateInv, ~OAuth, Pending
                 PROVE  Cardinality(MintedSince) < Cardinality(Req)
      BY DEF LateMintsAreInFlight
    <2>1. /\ Cardinality(MintedSince) \in Nat
          /\ Cardinality(MintedSince) + Cardinality(Minters) < Cardinality(Req)
      BY FS_CardinalityType DEF LateInv
    <2>. QED  BY <2>1, MintersFinite
  <1>. QED  BY <1>1, <1>2, TypedAlways, EpochStep, LateStep, PTL DEF Spec
===============================================================================
