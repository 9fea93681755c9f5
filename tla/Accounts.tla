------------------------------- MODULE Accounts -------------------------------
(***************************************************************************)
(* A family account from sign-in to deletion: the sessions of its parent   *)
(* and its children (auth.service.ts), the deletion request, its           *)
(* cancellation and the hourly purge (settings.service.ts).                *)
(*                                                                         *)
(* Every handler awaits the database between its steps.  A session is a    *)
(* row; a refresh does not change it but creates the row that replaces it, *)
(* so the sessions of one sign-in are a chain linked by replacedById.      *)
(***************************************************************************)
EXTENDS Integers, FiniteSets

CONSTANTS
  Req,        \* requests that may be in progress at once
  Sweeper,    \* family-purge jobs that may be in progress at once
  Session,    \* AuthSession ids
  Child,      \* the family's children; the parent is Parent
  Parent,
  OAuth,      \* whether a parent has linked an OAuth account or been invited
  Retain,     \* config.ACCOUNT_RETAIN_DAYS
  Ttl,        \* config.JWT_REFRESH_TTL
  MaxTime,    \* bound: the clock
  MaxAsked,   \* bound: requests made
  NoSession

Proc == Req \cup Sweeper
Who == Child \cup {Parent}
NoTime == -1

ASSUME AccountsAssumption ==
  /\ Retain \in Nat /\ Ttl \in Nat /\ MaxTime \in Nat /\ MaxAsked \in Nat
  /\ NoSession \notin Session /\ Parent \notin Child /\ IsFiniteSet(Req)

VARIABLES
  now,         \* the clock
  exists,      \* whether the Family row (and with it the parents' rows) is there
  purgeAfter,  \* Family.purgeAfter; deletedAt is set and cleared with it
  sessions,    \* the AuthSession rows
  epoch,       \* history: how many deletion requests have been committed
  asked,       \* how many requests have been made
  proc         \* what each request or job has read and what it does next

vars == <<now, exists, purgeAfter, sessions, epoch, asked, proc>>

-------------------------------------------------------------------------------
(* The rows. *)

\* from and epoch are history: the session this one was created to replace, and how many
\* deletion requests came before it.  issued: a client has been given the session's tokens.
SessionRow ==
  [status : {"none", "live", "gone"}, who : Who, expires : Nat, rotated : BOOLEAN,
   replacedBy : Session \cup {NoSession}, revoked : BOOLEAN, issued : BOOLEAN,
   from : Session \cup {NoSession}, epoch : Nat]

NoRow ==
  [status |-> "none", who |-> Parent, expires |-> 0, rotated |-> FALSE,
   replacedBy |-> NoSession, revoked |-> FALSE, issued |-> FALSE, from |-> NoSession,
   epoch |-> 0]

Op ==
  {"idle", "mint", "refresh", "rotate", "mark", "walk", "delete", "deleteWrite", "cancel",
   "cancelWrite", "purge", "purgeRows", "purgeFamily"}

\* sid: the session presented; new: the session created; ids: the sessions collected.
Local ==
  [op : Op, who : Who, sid : Session \cup {NoSession}, new : Session \cup {NoSession},
   rotated : BOOLEAN, ids : SUBSET Session, at : Nat]

Idle ==
  [op |-> "idle", who |-> Parent, sid |-> NoSession, new |-> NoSession, rotated |-> FALSE,
   ids |-> {}, at |-> 0]

Init ==
  /\ now = 0
  /\ exists = TRUE
  /\ purgeAfter = NoTime
  /\ sessions = [s \in Session |-> NoRow]
  /\ epoch = 0
  /\ asked = 0
  /\ proc = [p \in Proc |-> Idle]

-------------------------------------------------------------------------------
(* Helpers. *)

Pending == purgeAfter # NoTime

IsLive(s) == s \in Session /\ sessions[s].status = "live"
LiveSessions == {s \in Session : IsLive(s)}

\* isSessionValid, for a session whose access token a client holds.
SignedIn(s) ==
  IsLive(s) /\ sessions[s].issued /\ ~sessions[s].revoked /\ sessions[s].expires >= now

Become(p, l) == proc' = [proc EXCEPT ![p] = l]
Return(p) == Become(p, Idle)

Ask == asked < MaxAsked /\ asked' = asked + 1

NewRowNeverExpires(who, from) ==
  [NoRow EXCEPT !.status = "live", !.who = who, !.expires = NoTime, !.from = from,
                !.epoch = epoch]

NewRow(who, from) ==
  [NoRow EXCEPT !.status = "live", !.who = who, !.expires = now + Ttl, !.from = from,
                !.epoch = epoch]

\* Revoking sets revokedAt of the rows where it is still null.
Revoked(ids) ==
  [s \in Session |-> IF s \in ids THEN [sessions[s] EXCEPT !.revoked = TRUE] ELSE sessions[s]]

-------------------------------------------------------------------------------
(* Signing in. *)

\* loginParent, loginChild: the credentials are right and no deletion is pending.
LoginRead(p, who) ==
  /\ proc[p].op = "idle" /\ Ask
  /\ exists /\ ~Pending
  /\ Become(p, [Idle EXCEPT !.op = "mint", !.who = who])
  /\ UNCHANGED <<now, exists, purgeAfter, sessions, epoch>>

\* findOrCreateByOAuth, completeOAuthDob and acceptCoParent do not look at the deletion.
\* (A first OAuth sign-in creates another family.)
OAuthRead(p) ==
  /\ proc[p].op = "idle" /\ Ask
  /\ exists /\ OAuth
  /\ Become(p, [Idle EXCEPT !.op = "mint"])
  /\ UNCHANGED <<now, exists, purgeAfter, sessions, epoch>>

\* issueSessionPair; the foreign keys need the family.
Mint(p, s) ==
  /\ proc[p].op = "mint"
  /\ exists /\ sessions[s].status = "none"
  /\ sessions' = [sessions EXCEPT ![s] =
       [NewRow(proc[p].who, NoSession) EXCEPT !.issued = TRUE]]
  /\ Return(p)
  /\ UNCHANGED <<now, exists, purgeAfter, epoch, asked>>

-------------------------------------------------------------------------------
(* Refreshing: rotateRefresh. *)

\* The session is read; the deletion is looked up in a later step.
RefreshRead(p, s) ==
  /\ proc[p].op = "idle" /\ Ask
  /\ SignedIn(s)
  /\ Become(p, [Idle EXCEPT !.op = "refresh", !.sid = s, !.who = sessions[s].who,
                            !.rotated = sessions[s].rotated])
  /\ UNCHANGED <<now, exists, purgeAfter, sessions, epoch>>

RefreshCheckUnused(p) ==
  /\ proc[p].op = "refresh"
  /\ IF Pending THEN Return(p) ELSE Become(p, [proc[p] EXCEPT !.op = "rotate"])
  /\ UNCHANGED <<now, exists, purgeAfter, sessions, epoch, asked>>

\* A token that was used before starts the revocation of its chain.
RefreshCheck(p) ==
  /\ proc[p].op = "refresh"
  /\ IF Pending THEN Return(p)
     ELSE IF proc[p].rotated THEN Become(p, [proc[p] EXCEPT !.op = "walk", !.new = proc[p].sid])
     ELSE Become(p, [proc[p] EXCEPT !.op = "rotate"])
  /\ UNCHANGED <<now, exists, purgeAfter, sessions, epoch, asked>>

RotateCreate(p, s) ==
  /\ proc[p].op = "rotate"
  /\ exists /\ sessions[s].status = "none"
  /\ sessions' = [sessions EXCEPT ![s] = NewRow(proc[p].who, proc[p].sid)]
  /\ Become(p, [proc[p] EXCEPT !.op = "mark", !.new = s])
  /\ UNCHANGED <<now, exists, purgeAfter, epoch, asked>>

RotateMarkBackwards(p) ==
  /\ proc[p].op = "mark"
  /\ IsLive(proc[p].sid)
  /\ sessions' = [sessions EXCEPT ![proc[p].sid].rotated = TRUE,
                                  ![proc[p].new].replacedBy = proc[p].sid,
                                  ![proc[p].new].issued = TRUE]
  /\ Return(p)
  /\ UNCHANGED <<now, exists, purgeAfter, epoch, asked>>

\* Only now is the new pair of tokens returned to the client.
RotateMark(p) ==
  /\ proc[p].op = "mark"
  /\ IsLive(proc[p].sid)
  /\ sessions' = [sessions EXCEPT ![proc[p].sid].rotated = TRUE,
                                  ![proc[p].sid].replacedBy = proc[p].new,
                                  ![proc[p].new].issued = TRUE]
  /\ Return(p)
  /\ UNCHANGED <<now, exists, purgeAfter, epoch, asked>>

\* revokeLineage: one read for each session of the chain, then one update of them all.
Walk(p) ==
  /\ proc[p].op = "walk"
  /\ IsLive(proc[p].new)
  /\ Become(p, [proc[p] EXCEPT !.ids = @ \cup {proc[p].new},
                               !.new = sessions[proc[p].new].replacedBy])
  /\ UNCHANGED <<now, exists, purgeAfter, sessions, epoch, asked>>

RevokeWalked(p) ==
  /\ proc[p].op = "walk"
  /\ ~IsLive(proc[p].new)
  /\ sessions' = Revoked(proc[p].ids \cap LiveSessions)
  /\ Return(p)
  /\ UNCHANGED <<now, exists, purgeAfter, epoch, asked>>

-------------------------------------------------------------------------------
(* Ending sessions. *)

Logout(s) ==
  /\ Ask
  /\ SignedIn(s)
  /\ sessions' = Revoked({s})
  /\ UNCHANGED <<now, exists, purgeAfter, epoch, proc>>

\* A parent pauses or deletes a child or changes its credentials.
RevokeAllForChild(s, c) ==
  /\ Ask
  /\ SignedIn(s) /\ sessions[s].who = Parent
  /\ sessions' = Revoked({t \in LiveSessions : sessions[t].who = c})
  /\ UNCHANGED <<now, exists, purgeAfter, epoch, proc>>

-------------------------------------------------------------------------------
(* Deleting the account.  requireAuth looks at the session before the       *)
(* handler reads the family.                                                *)

Authenticate(p, s, op) ==
  /\ proc[p].op = "idle" /\ Ask
  /\ SignedIn(s) /\ sessions[s].who = Parent
  /\ Become(p, [Idle EXCEPT !.op = op])
  /\ UNCHANGED <<now, exists, purgeAfter, sessions, epoch>>

\* A request for an account that is already pending changes nothing.
DeleteRead(p) ==
  /\ proc[p].op = "delete"
  /\ IF exists /\ ~Pending
     THEN Become(p, [proc[p] EXCEPT !.op = "deleteWrite", !.at = now])
     ELSE Return(p)
  /\ UNCHANGED <<now, exists, purgeAfter, sessions, epoch, asked>>

DeleteWriteParentOnly(p) ==
  /\ proc[p].op = "deleteWrite"
  /\ exists
  /\ purgeAfter' = proc[p].at + Retain
  /\ sessions' = Revoked({s \in LiveSessions : sessions[s].who = Parent})
  /\ epoch' = epoch + 1
  /\ Return(p)
  /\ UNCHANGED <<now, exists, asked>>

\* One transaction sets the window and revokes every session of the family.
DeleteWrite(p) ==
  /\ proc[p].op = "deleteWrite"
  /\ exists
  /\ purgeAfter' = proc[p].at + Retain
  /\ sessions' = Revoked(LiveSessions)
  /\ epoch' = epoch + 1
  /\ Return(p)
  /\ UNCHANGED <<now, exists, asked>>

CancelRead(p) ==
  /\ proc[p].op = "cancel"
  /\ IF exists /\ Pending /\ purgeAfter > now
     THEN Become(p, [proc[p] EXCEPT !.op = "cancelWrite"])
     ELSE Return(p)
  /\ UNCHANGED <<now, exists, purgeAfter, sessions, epoch, asked>>

CancelWrite(p) ==
  /\ proc[p].op = "cancelWrite"
  /\ exists
  /\ purgeAfter' = NoTime
  /\ Return(p)
  /\ UNCHANGED <<now, exists, sessions, epoch, asked>>

-------------------------------------------------------------------------------
(* The family purge: a scan, then per family a transaction that re-checks   *)
(* the window, deletes the rows of the family and last the family.          *)

PurgeDue(t) == exists /\ Pending /\ purgeAfter <= t

PurgeScan(p) ==
  /\ proc[p].op = "idle"
  /\ PurgeDue(now)
  /\ Become(p, [Idle EXCEPT !.op = "purge", !.at = now])
  /\ UNCHANGED <<now, exists, purgeAfter, sessions, epoch, asked>>

PurgeRecheck(p) ==
  /\ proc[p].op = "purge"
  /\ IF PurgeDue(proc[p].at)
     THEN Become(p, [proc[p] EXCEPT !.op = "purgeRows"])
     ELSE Return(p)
  /\ UNCHANGED <<now, exists, purgeAfter, sessions, epoch, asked>>

PurgeRowsUnrevoked(p) ==
  /\ proc[p].op = "purgeRows"
  /\ Become(p, [proc[p] EXCEPT !.op = "purgeFamily",
                               !.ids = {s \in LiveSessions : ~sessions[s].revoked}])
  /\ UNCHANGED <<now, exists, purgeAfter, sessions, epoch, asked>>

\* authSession.deleteMany deletes the sessions there are when it runs.
PurgeRows(p) ==
  /\ proc[p].op = "purgeRows"
  /\ Become(p, [proc[p] EXCEPT !.op = "purgeFamily", !.ids = LiveSessions])
  /\ UNCHANGED <<now, exists, purgeAfter, sessions, epoch, asked>>

PurgeFamilyCascades(p) ==
  /\ proc[p].op = "purgeFamily"
  /\ exists
  /\ exists' = FALSE
  /\ purgeAfter' = NoTime
  /\ sessions' = [s \in Session |->
       IF s \in proc[p].ids THEN [sessions[s] EXCEPT !.status = "gone"] ELSE sessions[s]]
  /\ Return(p)
  /\ UNCHANGED <<now, epoch, asked>>

\* The foreign keys of a session created since make the transaction fail (Crash).
PurgeFamily(p) ==
  /\ proc[p].op = "purgeFamily"
  /\ exists /\ LiveSessions \subseteq proc[p].ids
  /\ exists' = FALSE
  /\ purgeAfter' = NoTime
  /\ sessions' = [s \in Session |->
       IF s \in proc[p].ids THEN [sessions[s] EXCEPT !.status = "gone"] ELSE sessions[s]]
  /\ Return(p)
  /\ UNCHANGED <<now, epoch, asked>>

-------------------------------------------------------------------------------

\* A request or job ends without its remaining writes: the process dies, or a write finds
\* its row gone, a foreign key missing or the transaction timed out.
Crash(p) ==
  /\ proc[p].op # "idle"
  /\ Return(p)
  /\ UNCHANGED <<now, exists, purgeAfter, sessions, epoch, asked>>

Tick ==
  /\ now < MaxTime
  /\ now' = now + 1
  /\ UNCHANGED <<exists, purgeAfter, sessions, epoch, asked, proc>>

Request(p) ==
  \/ \E who \in Who : LoginRead(p, who)
  \/ OAuthRead(p)
  \/ \E s \in Session : RefreshRead(p, s)
  \/ \E s \in Session, op \in {"delete", "cancel"} : Authenticate(p, s, op)

Continue(p) ==
  \/ \E s \in Session : Mint(p, s) \/ RotateCreate(p, s)
  \/ RefreshCheck(p) \/ RotateMark(p) \/ Walk(p) \/ RevokeWalked(p)
  \/ DeleteRead(p) \/ DeleteWrite(p) \/ CancelRead(p) \/ CancelWrite(p)

PurgeStep(p) == PurgeRecheck(p) \/ PurgeRows(p) \/ PurgeFamily(p)

Next ==
  \/ \E p \in Req : Request(p) \/ Continue(p)
  \/ \E p \in Sweeper : PurgeScan(p) \/ PurgeStep(p)
  \/ \E s \in Session : Logout(s)
  \/ \E s \in Session, c \in Child : RevokeAllForChild(s, c)
  \/ \E p \in Proc : Crash(p)
  \/ Tick

Spec == Init /\ [][Next]_vars

(***************************************************************************)
(* Fairness.  A request ends, one way or the other.  The purge runs every  *)
(* hour and not every run of it is cut short: strong fairness, because a   *)
(* crash or a new session may disable one of its steps for a while.        *)
(***************************************************************************)
WorkersEnd == \A p \in Proc : WF_vars(Continue(p) \/ PurgeStep(p) \/ Crash(p))

HourlySweep ==
  /\ SF_vars(\E p \in Sweeper : PurgeScan(p))
  /\ SF_vars(\E p \in Sweeper : PurgeRecheck(p))
  /\ SF_vars(\E p \in Sweeper : PurgeRows(p))
  /\ SF_vars(\E p \in Sweeper : PurgeFamily(p))

FairSpec == Spec /\ WorkersEnd /\ HourlySweep

-------------------------------------------------------------------------------
(* Properties. *)

TypeOK ==
  /\ now \in 0..MaxTime
  /\ exists \in BOOLEAN
  /\ purgeAfter \in Nat \cup {NoTime}
  /\ sessions \in [Session -> SessionRow]
  /\ epoch \in Nat
  /\ asked \in 0..MaxAsked
  /\ proc \in [Proc -> Local]

\* A session that existed when the deletion of the account was requested is never valid
\* again, not even after the deletion is cancelled, nor is one that a sign-in created
\* while the request was under way (requestAccountDeletion's "Revoke every live session").
RevokedByDeletion ==
  \A s \in LiveSessions : sessions[s].epoch < epoch => sessions[s].revoked

\* Nobody can be signed in to an account that was purged, whatever sign-ins and refreshes
\* were under way (purgeFamilyGraph, issueSessionPair).
NoSessionsAfterPurge == ~exists => LiveSessions = {}

\* replacedById points from a session to the one that was created to replace it, and only
\* once that was marked; the walk of revokeLineage never goes back or into another chain.
LineageIsForward ==
  \A s, t \in Session :
    sessions[s].replacedBy = t => sessions[s].rotated /\ sessions[t].from = s

\* However often a refresh token is presented, only the requests that were in progress
\* when it was first used get a new pair for it, one each (rotateRefresh's check of
\* rotatedAt): a token that was used is refused from then on.
BoundedFork ==
  \A s \in Session :
    Cardinality({t \in Session : sessions[t].from = s /\ sessions[t].issued})
      <= Cardinality(Req)

\* An account whose window has elapsed does not stay: it is purged, unless a cancellation
\* that was under way comes first (purgeDueDeletedFamilies).
WindowCloses == PurgeDue(now) ~> ~PurgeDue(now)

(* The strengthening of the invariants above that is inductive. *)

WorkerOK(w) ==
  /\ w.op \in {"refresh", "rotate", "mark"} => w.sid \in Session /\ sessions[w.sid].status # "none"
  /\ w.op = "mark" =>
       /\ w.new \in Session /\ sessions[w.new].status # "none"
       /\ sessions[w.new].from = w.sid

WorkerInv == \A p \in Proc : WorkerOK(proc[p])

(* Statements of the code's comments that the code does not keep. *)

\* requestAccountDeletion: "the window is never reset/extended".
WindowNeverReset ==
  [][Pending /\ purgeAfter' # NoTime => purgeAfter' = purgeAfter]_vars

\* assertFamilyNotPendingDeletion: "No token may be minted or refreshed during the retain
\* window".
NoMintWhilePending ==
  [][Pending => \A s \in Session : sessions'[s].status = "live" => IsLive(s)]_vars

\* What the code keeps of it: without OAuth, each session created in the retain window is
\* that of a request which was past its look at the deletion when that committed, one each
\* and none of the request that deletes (assertFamilyNotPendingDeletion, issueSessionPair).
MintedSince == {s \in Session : sessions[s].status # "none" /\ sessions[s].epoch = epoch}

LateMintsAreInFlight ==
  ~OAuth /\ Pending => Cardinality(MintedSince) < Cardinality(Req)

\* cancelAccountDeletion: "Cancel a pending deletion within the retain window (FR-009),
\* restoring access": while the window is open a parent is signed in, is about to be, or
\* can sign in by a path that does not look at the deletion.
DeletionCanBeCancelled ==
  exists /\ Pending /\ now < purgeAfter =>
    \/ OAuth
    \/ \E s \in Session : SignedIn(s) /\ sessions[s].who = Parent
    \/ \E p \in Req :
         /\ proc[p].op \in {"mint", "rotate", "mark", "cancel", "cancelWrite"}
         /\ proc[p].who = Parent
===============================================================================
