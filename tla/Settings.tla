------------------------------- MODULE Settings -------------------------------
(***************************************************************************)
(* One family's account: signing up and verifying the address              *)
(* (onboarding.service.ts, auth.service.ts), the parents' own rows and the *)
(* invitations (settings.service.ts), the payment methods                  *)
(* (billing.service.ts), the data exports with their stored objects, and   *)
(* what the law makes the family's purge keep.                             *)
(*                                                                         *)
(* A request that reads and then writes is two steps.  The re-checks and   *)
(* the row locks of the purge are in Accounts; here it is one step.        *)
(***************************************************************************)
EXTENDS Integers, FiniteSets

CONSTANTS
  Parent, NoParent,  \* Parent ids
  Email, NoEmail,    \* addresses
  Invitation,        \* CoParentInvitation ids
  Card, NoCard,      \* the provider's references to cards
  Method,            \* PaymentMethod ids
  Export,            \* DataExport ids
  Invoice,           \* Invoice ids
  Request,           \* requests the API serves at once
  TokenTtl, InviteTtl, ExportTtl,   \* lifetimes
  Keep,                             \* ACCOUNT_RETAIN_DAYS
  InvoiceRetain, ConsentRetain,     \* INVOICE_ and CONSENT_LEGAL_RETAIN_DAYS
  MaxTime, MaxAsked, MaxFault       \* bounds: the clock, requests, faults and crashes

None == -1           \* a null column

ASSUME SettingsAssumption ==
  /\ Parent # {} /\ Email # {}
  /\ NoParent \notin Parent /\ NoEmail \notin Email /\ NoCard \notin Card
  /\ TokenTtl \in Nat \ {0} /\ InviteTtl \in Nat \ {0} /\ ExportTtl \in Nat \ {0}
  /\ Keep \in Nat \ {0} /\ InvoiceRetain \in Nat /\ ConsentRetain \in Nat
  /\ MaxTime \in Nat /\ MaxAsked \in Nat /\ MaxFault \in Nat

VARIABLES
  now,
  family,       \* the Family row
  parents,      \* its Parent rows
  elsewhere,    \* the addresses of other families' parents
  token,        \* the owner's EmailVerificationToken
  consents,     \* ConsentRecord rows
  invoices,     \* Invoice rows
  invitations,  \* CoParentInvitation rows
  methods,      \* PaymentMethod rows
  exports,      \* DataExport rows
  jobs,         \* the data-export jobs
  objects,      \* the stored bundles
  sweep,        \* what the familyPurge worker is doing
  reqs,         \* what each request is doing
  admitted,     \* history: the parents each invitation has let in
  asked, faults

accountRows == <<family, parents, elsewhere, token>>
kept == <<consents, invoices>>
exporting == <<exports, jobs, objects, sweep>>
vars ==
  <<now, accountRows, kept, invitations, methods, exporting, reqs, admitted, asked, faults>>

-------------------------------------------------------------------------------
(* The rows. *)

\* The parent-level consents of registerOnboarding, in their order.
ConsentType == {"TERMS", "PRIVACY", "COPPA"}
ConsentOrder == <<"TERMS", "PRIVACY", "COPPA">>

FamilyRow ==
  [state : {"none", "active", "pending", "gone"}, purgeAfter : Nat \cup {None}]

ParentRow ==
  [there : BOOLEAN, born : BOOLEAN, owner : BOOLEAN, email : Email \cup {NoEmail},
   secret : {"first", "second"}, verified : BOOLEAN]
NoRow ==
  [there |-> FALSE, born |-> FALSE, owner |-> FALSE, email |-> NoEmail,
   secret |-> "first", verified |-> FALSE]
NewParent(e, owner) ==
  [NoRow EXCEPT !.there = TRUE, !.born = TRUE, !.owner = owner, !.email = e]

\* holder: the family the record belongs to; named: it names a parent.
Holder == {"none", "family", "tombstone"}
ConsentRow == [holder : Holder, at : Nat \cup {None}, named : BOOLEAN]
InvoiceRow == [holder : Holder, at : Nat \cup {None}]

InvitationRow ==
  [status : {"none", "PENDING", "ACCEPTED", "REVOKED", "EXPIRED", "gone"},
   email : Email \cup {NoEmail}, expiresAt : Nat]
MethodRow == [there : BOOLEAN, card : Card \cup {NoCard}, isDefault : BOOLEAN]
NoMethod == [there |-> FALSE, card |-> NoCard, isDefault |-> FALSE]
ExportRow ==
  [status : {"none", "PENDING", "READY", "FAILED", "EXPIRED", "gone"},
   expiresAt : Nat \cup {None}]

\* A job waits in the queue or is run by a worker: it builds the bundle, has stored it, or
\* has failed and writes that down.
JobState == {"none", "waiting", "building", "stored", "failing"}

\* due: the exports the sweep found; deleted: it has deleted their object.
Sweep == [due : SUBSET Export, deleted : SUBSET Export]

\* found: the method a change of payment method has found.
Req ==
  [op : {"idle", "register", "consent", "email", "password", "invite", "accept", "expire",
         "revoke", "demote", "promote", "enqueue"},
   id : Parent \cup Invitation \cup Method \cup Export \cup {NoParent},
   email : Email \cup {NoEmail}, card : Card \cup {NoCard}, step : 0..2]
Idle ==
  [op |-> "idle", id |-> NoParent, email |-> NoEmail, card |-> NoCard, step |-> 0]

Fresh ==
  /\ family = [state |-> "none", purgeAfter |-> None]
  /\ parents = [p \in Parent |-> NoRow]
  /\ consents = [t \in ConsentType |-> [holder |-> "none", at |-> None, named |-> FALSE]]
  /\ elsewhere = {}

\* A family whose owner has signed up.
Settled ==
  /\ family = [state |-> "active", purgeAfter |-> None]
  /\ LET p == CHOOSE q \in Parent : TRUE e == CHOOSE a \in Email : TRUE IN
       parents = [q \in Parent |-> IF q = p THEN NewParent(e, TRUE) ELSE NoRow]
  /\ consents = [t \in ConsentType |-> [holder |-> "family", at |-> 0, named |-> TRUE]]
  /\ elsewhere = {}

Init ==
  /\ now = 0
  /\ Fresh \/ Settled
  /\ token = [live |-> family.state = "active", expiresAt |-> TokenTtl]
  /\ invoices = [i \in Invoice |-> [holder |-> "none", at |-> None]]
  /\ invitations = [i \in Invitation |->
                      [status |-> "none", email |-> NoEmail, expiresAt |-> 0]]
  /\ methods = [m \in Method |-> NoMethod]
  /\ exports = [x \in Export |-> [status |-> "none", expiresAt |-> None]]
  /\ jobs = [x \in Export |-> "none"]
  /\ objects = {}
  /\ sweep = [due |-> {}, deleted |-> {}]
  /\ reqs = [r \in Request |-> Idle]
  /\ admitted = [i \in Invitation |-> {}]
  /\ asked = 0 /\ faults = 0

-------------------------------------------------------------------------------
(* Helpers. *)

There == {p \in Parent : parents[p].there}
FamilyThere == family.state \in {"active", "pending"}

\* What a co-parent may not do.
OwnerOnly ==
  {"children.delete", "billing.manage", "co_parent.manage", "account.settings", "family.delete"}
Can(p, action) == p \in There /\ (parents[p].owner \/ action \notin OwnerOnly)

\* A request comes in; one of a signed-in parent needs a parent whose role permits it, and a
\* family not pending deletion.
Ask(r) == asked < MaxAsked /\ asked' = asked + 1 /\ reqs[r].op = "idle"
AskSignedIn(r, action) ==
  Ask(r) /\ family.state = "active" /\ \E p \in Parent : Can(p, action)
Fault == faults < MaxFault /\ faults' = faults + 1

Goes(r, next) == reqs' = [reqs EXCEPT ![r] = next]
Done(r) == Goes(r, Idle)

\* Parent.email is unique over all families.
Registered(e) == e \in elsewhere \cup {parents[p].email : p \in There}
RegisteredToAnother(e, p) == e \in elsewhere \cup {parents[q].email : q \in There \ {p}}

-------------------------------------------------------------------------------
(* Signing up. *)

\* registerParent looks the address up before it hashes the password.
AskRegister(r, e) ==
  /\ Ask(r) /\ family.state = "none" /\ ~Registered(e)
  /\ Goes(r, [Idle EXCEPT !.op = "register", !.email = e])
  /\ UNCHANGED <<now, accountRows, kept, invitations, methods, exporting, admitted, faults>>

\* The family, its owner and the token, in one transaction; a second one of the same
\* address fails on its unique index.
Register(r) ==
  /\ reqs[r].op = "register"
  /\ \/ /\ Registered(reqs[r].email) \/ family.state # "none"
        /\ Done(r)
        /\ UNCHANGED <<family, parents, token>>
     \/ \E p \in Parent :
          /\ ~Registered(reqs[r].email) /\ family.state = "none" /\ ~parents[p].born
          /\ family' = [family EXCEPT !.state = "active"]
          /\ parents' = [parents EXCEPT ![p] = NewParent(reqs[r].email, TRUE)]
          /\ token' = [live |-> TRUE, expiresAt |-> now + TokenTtl]
          /\ Goes(r, [reqs[r] EXCEPT !.op = "consent", !.id = p])
  /\ UNCHANGED <<now, elsewhere, kept, invitations, methods, exporting, admitted, asked,
                 faults>>

\* registerOnboarding then records the consents one by one.
RecordConsent(r) ==
  /\ reqs[r].op = "consent" /\ FamilyThere
  /\ consents' = [consents EXCEPT ![ConsentOrder[reqs[r].step + 1]] =
                    [holder |-> "family", at |-> now, named |-> TRUE]]
  /\ IF reqs[r].step = 2 THEN Done(r) ELSE Goes(r, [reqs[r] EXCEPT !.step = @ + 1])
  /\ UNCHANGED <<now, accountRows, invoices, invitations, methods, exporting, admitted,
                 asked, faults>>

\* One that throws ends the signup, whose account there is by now.
RecordConsentFails(r) ==
  /\ reqs[r].op = "consent"
  /\ Fault \/ (~FamilyThere /\ UNCHANGED faults)
  /\ Done(r)
  /\ UNCHANGED <<now, accountRows, kept, invitations, methods, exporting, admitted, asked>>

VerifyEmail ==
  /\ token.live /\ now < token.expiresAt
  /\ token' = [token EXCEPT !.live = FALSE]
  /\ parents' = [p \in Parent |->
                   [parents[p] EXCEPT !.verified = @ \/ (parents[p].there /\ parents[p].owner)]]
  /\ UNCHANGED <<now, family, elsewhere, kept, invitations, methods, exporting, reqs,
                 admitted, asked, faults>>

\* A parent of another family registers.
RegisterElsewhere(e) ==
  /\ asked < MaxAsked /\ asked' = asked + 1
  /\ ~Registered(e)
  /\ elsewhere' = elsewhere \cup {e}
  /\ UNCHANGED <<now, family, parents, token, kept, invitations, methods, exporting, reqs,
                 admitted, faults>>

-------------------------------------------------------------------------------
(* A parent's own row. *)

AskEmail(r, p, e) ==
  /\ AskSignedIn(r, "account.settings") /\ Can(p, "account.settings")
  /\ ~RegisteredToAnother(e, p)
  /\ Goes(r, [Idle EXCEPT !.op = "email", !.id = p, !.email = e])
  /\ UNCHANGED <<now, accountRows, kept, invitations, methods, exporting, admitted, faults>>

\* The current password is verified, then the new one is hashed and written by id.
AskPassword(r, p) ==
  /\ AskSignedIn(r, "account.settings") /\ Can(p, "account.settings")
  /\ Goes(r, [Idle EXCEPT !.op = "password", !.id = p])
  /\ UNCHANGED <<now, accountRows, kept, invitations, methods, exporting, admitted, faults>>

\* updateAccount and changePassword; an address taken meanwhile makes the update throw.
UpdateParent(r) ==
  /\ reqs[r].op \in {"email", "password"}
  /\ Done(r)
  /\ LET p == reqs[r].id IN
       IF p \notin There THEN UNCHANGED parents
       ELSE IF reqs[r].op = "password"
       THEN parents' = [parents EXCEPT ![p].secret = "second"]
       ELSE IF RegisteredToAnother(reqs[r].email, p) THEN UNCHANGED parents
       ELSE parents' = [parents EXCEPT ![p].email = reqs[r].email]
  /\ UNCHANGED <<now, family, elsewhere, token, kept, invitations, methods, exporting,
                 admitted, asked, faults>>

-------------------------------------------------------------------------------
(* Co-parents. *)

AskInvite(r, e) ==
  /\ AskSignedIn(r, "co_parent.manage") /\ ~Registered(e)
  /\ Goes(r, [Idle EXCEPT !.op = "invite", !.email = e])
  /\ UNCHANGED <<now, accountRows, kept, invitations, methods, exporting, admitted, faults>>

InviteCoParent(r, i) ==
  /\ reqs[r].op = "invite" /\ invitations[i].status = "none"
  /\ Done(r)
  /\ invitations' = IF FamilyThere
                    THEN [invitations EXCEPT ![i] =
                            [status |-> "PENDING", email |-> reqs[r].email,
                             expiresAt |-> now + InviteTtl]]
                    ELSE invitations
  /\ UNCHANGED <<now, accountRows, kept, methods, exporting, admitted, asked, faults>>

\* acceptCoParent is asked for with the token alone.
AskAccept(r, i) ==
  /\ Ask(r) /\ invitations[i].status = "PENDING"
  /\ IF invitations[i].expiresAt < now THEN Goes(r, [Idle EXCEPT !.op = "expire", !.id = i])
     ELSE /\ ~Registered(invitations[i].email)
          /\ Goes(r, [Idle EXCEPT !.op = "accept", !.id = i, !.email = invitations[i].email])
  /\ UNCHANGED <<now, accountRows, kept, invitations, methods, exporting, admitted, faults>>

AskRevoke(r, i) ==
  /\ AskSignedIn(r, "co_parent.manage") /\ invitations[i].status = "PENDING"
  /\ Goes(r, [Idle EXCEPT !.op = "revoke", !.id = i])
  /\ UNCHANGED <<now, accountRows, kept, invitations, methods, exporting, admitted, faults>>

\* The new status is written by id, over whatever was written meanwhile.
CloseInvitation(r) ==
  /\ reqs[r].op \in {"expire", "revoke"}
  /\ Done(r)
  /\ LET i == reqs[r].id IN
       invitations' =
         IF invitations[i].status = "gone" THEN invitations
         ELSE [invitations EXCEPT ![i].status =
                 IF reqs[r].op = "expire" THEN "EXPIRED" ELSE "REVOKED"]
  /\ UNCHANGED <<now, accountRows, kept, methods, exporting, admitted, asked, faults>>

\* Without the update of the invitation in its transaction.
AcceptUnmarked(r) ==
  /\ reqs[r].op = "accept"
  /\ Done(r)
  /\ LET i == reqs[r].id IN
       \E p \in Parent :
         /\ ~Registered(reqs[r].email) /\ ~parents[p].born
         /\ FamilyThere /\ invitations[i].status # "gone"
         /\ parents' = [parents EXCEPT ![p] = NewParent(reqs[r].email, FALSE)]
         /\ admitted' = [admitted EXCEPT ![i] = @ \cup {p}]
  /\ UNCHANGED <<now, family, elsewhere, token, kept, invitations, methods, exporting, asked,
                 faults>>

\* The parent is created and the invitation marked, or neither.
AcceptCoParent(r) ==
  /\ reqs[r].op = "accept"
  /\ Done(r)
  /\ LET i == reqs[r].id IN
       \/ /\ \/ Registered(reqs[r].email)
             \/ ~FamilyThere \/ invitations[i].status = "gone"
          /\ UNCHANGED <<parents, invitations, admitted>>
       \/ \E p \in Parent :
            /\ ~Registered(reqs[r].email) /\ ~parents[p].born
            /\ FamilyThere /\ invitations[i].status # "gone"
            /\ parents' = [parents EXCEPT ![p] = NewParent(reqs[r].email, FALSE)]
            /\ invitations' = [invitations EXCEPT ![i].status = "ACCEPTED"]
            /\ admitted' = [admitted EXCEPT ![i] = @ \cup {p}]
  /\ UNCHANGED <<now, family, elsewhere, token, kept, methods, exporting, asked, faults>>

-------------------------------------------------------------------------------
(* Payment methods. *)

WithCard(c) == {m \in Method : methods[m].there /\ methods[m].card = c}

\* changePaymentMethod finds the method, demotes the defaults, then stores the new one:
\* three statements without a transaction.
AskMethod(r, c) ==
  /\ AskSignedIn(r, "billing.manage")
  /\ \/ /\ WithCard(c) = {}
        /\ Goes(r, [Idle EXCEPT !.op = "demote", !.card = c])
     \/ \E m \in WithCard(c) : Goes(r, [Idle EXCEPT !.op = "demote", !.card = c, !.id = m])
  /\ UNCHANGED <<now, accountRows, kept, invitations, methods, exporting, admitted, faults>>

DemoteMethods(r) ==
  /\ reqs[r].op = "demote"
  /\ methods' = [m \in Method |-> [methods[m] EXCEPT !.isDefault = FALSE]]
  /\ Goes(r, [reqs[r] EXCEPT !.op = "promote"])
  /\ UNCHANGED <<now, accountRows, kept, invitations, exporting, admitted, asked, faults>>

PromoteMethod(r) ==
  /\ reqs[r].op = "promote"
  /\ Done(r)
  /\ \/ /\ reqs[r].id \in Method
        /\ methods' = IF methods[reqs[r].id].there
                      THEN [methods EXCEPT ![reqs[r].id].isDefault = TRUE] ELSE methods
     \/ /\ reqs[r].id = NoParent
        /\ \/ ~FamilyThere /\ UNCHANGED methods
           \/ \E m \in Method :
                /\ FamilyThere /\ ~methods[m].there
                /\ methods' = [methods EXCEPT ![m] =
                     [there |-> TRUE, card |-> reqs[r].card, isDefault |-> TRUE]]
  /\ UNCHANGED <<now, accountRows, kept, invitations, exporting, admitted, asked, faults>>

-------------------------------------------------------------------------------
(* Data exports. *)

\* requestDataExport creates the row, then adds the job.
RequestDataExport(r, x) ==
  /\ AskSignedIn(r, "account.settings") /\ exports[x].status = "none"
  /\ exports' = [exports EXCEPT ![x].status = "PENDING"]
  /\ Goes(r, [Idle EXCEPT !.op = "enqueue", !.id = x])
  /\ UNCHANGED <<now, accountRows, kept, invitations, methods, jobs, objects, sweep, admitted,
                 faults>>

EnqueueExport(r) ==
  /\ reqs[r].op = "enqueue"
  /\ Done(r)
  /\ jobs' = [jobs EXCEPT ![reqs[r].id] = "waiting"]
  /\ UNCHANGED <<now, accountRows, kept, invitations, methods, exports, objects, sweep,
                 admitted, asked, faults>>

\* Whatever its row says.
StartExportAlways(x) ==
  /\ jobs[x] = "waiting"
  /\ jobs' = [jobs EXCEPT ![x] = "building"]
  /\ UNCHANGED <<now, accountRows, kept, invitations, methods, exports, objects, sweep, reqs,
                 admitted, asked, faults>>

\* assembleDataExport: an export that is no longer PENDING is no work.
StartExport(x) ==
  /\ jobs[x] = "waiting"
  /\ jobs' = [jobs EXCEPT ![x] = IF exports[x].status = "PENDING" THEN "building" ELSE "none"]
  /\ UNCHANGED <<now, accountRows, kept, invitations, methods, exports, objects, sweep, reqs,
                 admitted, asked, faults>>

StoreExport(x) ==
  /\ jobs[x] = "building"
  /\ objects' = objects \cup {x}
  /\ jobs' = [jobs EXCEPT ![x] = "stored"]
  /\ UNCHANGED <<now, accountRows, kept, invitations, methods, exports, sweep, reqs, admitted,
                 asked, faults>>

\* A read or the store throws.
ExportFails(x) ==
  /\ jobs[x] = "building" /\ Fault
  /\ jobs' = [jobs EXCEPT ![x] = "failing"]
  /\ UNCHANGED <<now, accountRows, kept, invitations, methods, exports, objects, sweep, reqs,
                 admitted, asked>>

\* Without its expiry.
MarkExportUntimed(x) ==
  /\ jobs[x] \in {"stored", "failing"} /\ exports[x].status # "gone"
  /\ jobs' = [jobs EXCEPT ![x] = "none"]
  /\ exports' = [exports EXCEPT ![x].status = IF jobs[x] = "stored" THEN "READY" ELSE "FAILED"]
  /\ UNCHANGED <<now, accountRows, kept, invitations, methods, objects, sweep, reqs, admitted,
                 asked, faults>>

\* The row is written READY, or FAILED; if the family was purged meanwhile both throw, and
\* the queue runs the job again.
MarkExport(x) ==
  /\ jobs[x] \in {"stored", "failing"}
  /\ IF exports[x].status = "gone"
     THEN /\ jobs' = [jobs EXCEPT ![x] = IF @ = "stored" THEN "failing" ELSE "waiting"]
          /\ UNCHANGED exports
     ELSE /\ jobs' = [jobs EXCEPT ![x] = "none"]
          /\ exports' = [exports EXCEPT ![x] =
               IF jobs[x] = "stored" THEN [status |-> "READY", expiresAt |-> now + ExportTtl]
               ELSE [@ EXCEPT !.status = "FAILED"]]
  /\ UNCHANGED <<now, accountRows, kept, invitations, methods, objects, sweep, reqs, admitted,
                 asked, faults>>

\* toExportView, getDataExport and resolveExportStorageKey agree on what can be fetched.
Retrievable(x) == exports[x].status = "READY" /\ exports[x].expiresAt > now

\* getExport: what a request for the bundle gets; a key without an object is not resolved.
Fetch(x) ==
  IF ~Retrievable(x) THEN "refused"
  ELSE IF x \in objects THEN "served" ELSE "unavailable"

-------------------------------------------------------------------------------
(* The hourly sweep of the familyPurge worker. *)

PurgeDue == family.state = "pending" /\ family.purgeAfter <= now

\* A record younger than its legal minimum loses its names and is kept; older ones go.
RetainedUntil(retain, at) == retain > 0 /\ at # None /\ at >= now - retain

\* The comparison the wrong way round.
RehomedOld(row, retain) ==
  IF row.holder # "family" THEN row
  ELSE [row EXCEPT !.holder = IF RetainedUntil(retain, row.at) THEN "none" ELSE "tombstone"]

\* What the purge makes of a record: it goes to the tombstone family, or is deleted.
Rehomed(row, retain) ==
  IF row.holder # "family" THEN row
  ELSE [row EXCEPT !.holder = IF RetainedUntil(retain, row.at) THEN "tombstone" ELSE "none"]

PurgeOrRetainConsent ==
  consents' = [t \in ConsentType |-> [Rehomed(consents[t], ConsentRetain) EXCEPT !.named = FALSE]]
PurgeOrRetainInvoices == invoices' = [i \in Invoice |-> Rehomed(invoices[i], InvoiceRetain)]

\* purgeFamilyGraph: all rows of the family; the stored objects are not among them.
PurgeFamily ==
  /\ PurgeDue /\ sweep.due = {}
  /\ family' = [state |-> "gone", purgeAfter |-> None]
  /\ parents' = [p \in Parent |-> [NoRow EXCEPT !.born = parents[p].born]]
  /\ token' = [token EXCEPT !.live = FALSE]
  /\ invitations' = [i \in Invitation |->
       IF invitations[i].status = "none" THEN invitations[i]
       ELSE [invitations[i] EXCEPT !.status = "gone"]]
  /\ methods' = [m \in Method |-> NoMethod]
  /\ exports' = [x \in Export |->
       IF exports[x].status = "none" THEN exports[x]
       ELSE [status |-> "gone", expiresAt |-> None]]
  /\ PurgeOrRetainConsent /\ PurgeOrRetainInvoices
  /\ UNCHANGED <<now, elsewhere, jobs, objects, sweep, reqs, admitted, asked, faults>>

ExportDue(x) == exports[x].status = "READY" /\ exports[x].expiresAt <= now

\* expireDueExports: first the bytes, then the row.
ScanExports ==
  /\ sweep.due = {}
  /\ \E x \in Export : ExportDue(x)
  /\ sweep' = [sweep EXCEPT !.due = {x \in Export : ExportDue(x)}]
  /\ UNCHANGED <<now, accountRows, kept, invitations, methods, exports, jobs, objects, reqs,
                 admitted, asked, faults>>

\* With a backend whose objects cannot be deleted.
DeleteNothing(x) ==
  /\ x \in sweep.due \ sweep.deleted
  /\ sweep' = [sweep EXCEPT !.deleted = @ \cup {x}]
  /\ UNCHANGED <<now, accountRows, kept, invitations, methods, exports, jobs, objects, reqs,
                 admitted, asked, faults>>

\* deleteStoredObject, on the local backend.
DeleteStoredObject(x) ==
  /\ x \in sweep.due \ sweep.deleted
  /\ sweep' = [sweep EXCEPT !.deleted = @ \cup {x}]
  /\ objects' = objects \ {x}
  /\ UNCHANGED <<now, accountRows, kept, invitations, methods, exports, jobs, reqs, admitted,
                 asked, faults>>

MarkExpired(x) ==
  /\ x \in sweep.deleted
  /\ sweep' = [due |-> sweep.due \ {x}, deleted |-> sweep.deleted \ {x}]
  /\ exports' = IF exports[x].status = "gone" THEN exports
                ELSE [exports EXCEPT ![x].status = "EXPIRED"]
  /\ UNCHANGED <<now, accountRows, kept, invitations, methods, jobs, objects, reqs, admitted,
                 asked, faults>>

-------------------------------------------------------------------------------
(* The surroundings. *)

ComputePurgeAfter == now + Keep

\* Deletion is requested or cancelled (Accounts has the steps).
RequestDeletion ==
  /\ asked < MaxAsked /\ asked' = asked + 1
  /\ family.state = "active"
  /\ family' = [state |-> "pending", purgeAfter |-> ComputePurgeAfter]
  /\ UNCHANGED <<now, parents, elsewhere, token, kept, invitations, methods, exporting, reqs,
                 admitted, faults>>
CancelDeletion ==
  /\ asked < MaxAsked /\ asked' = asked + 1
  /\ family.state = "pending"
  /\ family' = [state |-> "active", purgeAfter |-> None]
  /\ UNCHANGED <<now, parents, elsewhere, token, kept, invitations, methods, exporting, reqs,
                 admitted, faults>>

\* A payment is invoiced (Billing has the steps).
IssueInvoice(i) ==
  /\ asked < MaxAsked /\ asked' = asked + 1
  /\ FamilyThere /\ invoices[i].at = None
  /\ invoices' = [invoices EXCEPT ![i] = [holder |-> "family", at |-> now]]
  /\ UNCHANGED <<now, accountRows, consents, invitations, methods, exporting, reqs, admitted,
                 faults>>

\* The processes die; the queue runs the jobs they had again.
Crash ==
  /\ Fault
  /\ reqs' = [r \in Request |-> Idle]
  /\ jobs' = [x \in Export |-> IF jobs[x] = "none" THEN "none" ELSE "waiting"]
  /\ sweep' = [due |-> {}, deleted |-> {}]
  /\ UNCHANGED <<now, accountRows, kept, invitations, methods, exports, objects, admitted,
                 asked>>

Tick ==
  /\ now < MaxTime /\ now' = now + 1
  /\ UNCHANGED <<accountRows, kept, invitations, methods, exporting, reqs, admitted, asked,
                 faults>>

Serve(r) ==
  \/ Register(r) \/ RecordConsent(r) \/ UpdateParent(r) \/ CloseInvitation(r)
  \/ AcceptCoParent(r) \/ DemoteMethods(r) \/ PromoteMethod(r) \/ EnqueueExport(r)
  \/ \E i \in Invitation : InviteCoParent(r, i)

RunJob(x) == StartExport(x) \/ StoreExport(x) \/ MarkExport(x)

RunSweep ==
  \/ PurgeFamily \/ ScanExports
  \/ \E x \in Export : DeleteStoredObject(x) \/ MarkExpired(x)

Next ==
  \/ \E r \in Request :
       \/ \E e \in Email : AskRegister(r, e) \/ AskInvite(r, e)
       \/ \E p \in Parent : AskPassword(r, p) \/ \E e \in Email : AskEmail(r, p, e)
       \/ \E i \in Invitation : AskAccept(r, i) \/ AskRevoke(r, i)
       \/ \E c \in Card : AskMethod(r, c)
       \/ \E x \in Export : RequestDataExport(r, x)
       \/ Serve(r) \/ RecordConsentFails(r)
  \/ \E x \in Export : RunJob(x) \/ ExportFails(x)
  \/ RunSweep
  \/ VerifyEmail \/ RequestDeletion \/ CancelDeletion
  \/ \E e \in Email : RegisterElsewhere(e)
  \/ \E i \in Invoice : IssueInvoice(i)
  \/ Crash \/ Tick

Spec == Init /\ [][Next]_vars

\* The queue runs every job it holds, and the sweep is started every hour and ends.
FairSpec ==
  /\ Spec
  /\ \A x \in Export : WF_vars(RunJob(x))
  /\ WF_vars(RunSweep)

-------------------------------------------------------------------------------
(* What the family may rely on. *)

\* Every row, job and request has the shape its table or its code gives it, and no address
\* signs in two parents.
TypeOK ==
  /\ now \in 0..MaxTime /\ family \in FamilyRow
  /\ parents \in [Parent -> ParentRow] /\ elsewhere \subseteq Email
  /\ \A p, q \in There : p # q => parents[p].email # parents[q].email
  /\ \A p \in There : parents[p].email \notin elsewhere
  /\ token \in [live : BOOLEAN, expiresAt : Nat]
  /\ consents \in [ConsentType -> ConsentRow] /\ invoices \in [Invoice -> InvoiceRow]
  /\ invitations \in [Invitation -> InvitationRow] /\ methods \in [Method -> MethodRow]
  /\ exports \in [Export -> ExportRow] /\ jobs \in [Export -> JobState]
  /\ \A x \in Export : exports[x].status \in {"READY", "EXPIRED"} => exports[x].expiresAt # None
  /\ objects \subseteq Export /\ sweep \in Sweep /\ sweep.deleted \subseteq sweep.due
  /\ reqs \in [Request -> Req] /\ admitted \in [Invitation -> SUBSET Parent]
  /\ asked \in 0..MaxAsked /\ faults \in 0..MaxFault

\* The store follows the rows: an export the parent is offered can be fetched, and the bytes
\* of one that is EXPIRED are gone (settings.service.ts:670-673), through failed and repeated
\* assemblies, crashes between the object and the row, and the family's purge.
BytesFollowRows ==
  \A x \in Export :
    /\ Fetch(x) # "unavailable"
    /\ exports[x].status = "EXPIRED" => x \notin objects

\* An export that was handed to the queue comes to an end, and one past its lifetime does not
\* stay READY, with its bytes, for ever.
ExportsSettle ==
  []<>(\A x \in Export : jobs[x] = "none" /\ ~ExportDue(x))

\* What the law makes the operator keep survives the family's purge, and names nobody
\* (purgeOrRetainInvoices and purgeOrRetainConsent, 457-513).
RetainedSurvives ==
  /\ \A i \in Invoice :
       RetainedUntil(InvoiceRetain, invoices[i].at) => invoices[i].holder # "none"
  /\ \A t \in ConsentType :
       RetainedUntil(ConsentRetain, consents[t].at) => consents[t].holder # "none"
  /\ \A t \in ConsentType : consents[t].holder = "tombstone" => ~consents[t].named

\* An invitation that has let a parent in is never again open to another, whatever
\* acceptances, revocations and expiries write over each other (159-228).
UsedInvitationIsSpent ==
  \A i \in Invitation : admitted[i] # {} => invitations[i].status # "PENDING"
===============================================================================
