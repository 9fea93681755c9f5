--------------------------- MODULE Settings_proofs ----------------------------
(***************************************************************************)
(* Theorems about Settings, for every value of its constants: any number   *)
(* of requests, parents, invitations, exports and invoices, any lifetimes  *)
(* and any legal minimum.                                                  *)
(***************************************************************************)
EXTENDS Settings, TLAPS

-------------------------------------------------------------------------------
(* Exports. *)

ExportTypes ==
  /\ now \in Nat
  /\ exports \in [Export -> ExportRow] /\ jobs \in [Export -> JobState]
  /\ objects \subseteq Export
  /\ sweep \in Sweep /\ sweep.deleted \subseteq sweep.due

\* A job past its first read has an export that nothing but the purge has closed; the sweep
\* holds exports that are past their lifetime; so the two never meet over one object.
ExportOK(x) ==
  /\ jobs[x] \in {"building", "stored", "failing"} => exports[x].status \in {"PENDING", "gone"}
  /\ jobs[x] = "stored" /\ exports[x].status = "PENDING" => x \in objects
  /\ x \in sweep.due => \/ exports[x].status = "gone"
                        \/ exports[x].status = "READY" /\ exports[x].expiresAt <= now
  /\ x \in sweep.deleted /\ exports[x].status # "gone" => x \notin objects
  /\ exports[x].status = "READY" =>
       exports[x].expiresAt \in Nat /\ (exports[x].expiresAt > now => x \in objects)
  /\ exports[x].status = "EXPIRED" => x \notin objects /\ exports[x].expiresAt \in Nat

ExportInv == ExportTypes /\ \A x \in Export : ExportOK(x)

\* The steps that write an export, its job, its object or the clock.
ExportStep ==
  \/ \E x \in Export :
       \/ \E r \in Request : RequestDataExport(r, x)
       \/ RunJob(x) \/ ExportFails(x) \/ DeleteStoredObject(x) \/ MarkExpired(x)
  \/ \E r \in Request : EnqueueExport(r)
  \/ PurgeFamily \/ ScanExports \/ Crash \/ Tick

LEMMA ExportSteps ==
  ASSUME [Next]_vars
  PROVE  ExportStep \/ UNCHANGED <<now, exporting>>
  <1>1. ASSUME NEW r \in Request, Serve(r) PROVE ExportStep \/ UNCHANGED <<now, exporting>>
    BY <1>1 DEF Serve, Register, RecordConsent, UpdateParent, CloseInvitation, AcceptCoParent,
       DemoteMethods, PromoteMethod, InviteCoParent, ExportStep
  <1>2. ASSUME NEW r \in Request,
               \/ \E e \in Email : AskRegister(r, e) \/ AskInvite(r, e)
               \/ \E p \in Parent : AskPassword(r, p) \/ \E e \in Email : AskEmail(r, p, e)
               \/ \E i \in Invitation : AskAccept(r, i) \/ AskRevoke(r, i)
               \/ \E c \in Card : AskMethod(r, c)
               \/ RecordConsentFails(r)
        PROVE  UNCHANGED <<now, exporting>>
    BY <1>2 DEF AskRegister, AskInvite, AskPassword, AskEmail, AskAccept, AskRevoke, AskMethod,
       RecordConsentFails
  <1>3. CASE \/ VerifyEmail \/ RequestDeletion \/ CancelDeletion
             \/ \E e \in Email : RegisterElsewhere(e)
             \/ \E i \in Invoice : IssueInvoice(i)
             \/ UNCHANGED vars
    BY <1>3 DEF VerifyEmail, RequestDeletion, CancelDeletion, RegisterElsewhere, IssueInvoice,
       vars
  <1>. QED  BY <1>1, <1>2, <1>3 DEF Next, RunSweep, ExportStep

LEMMA ExportInit == Init => ExportInv
  BY DEF Init, ExportInv, ExportTypes, ExportOK, ExportRow, JobState, Sweep

LEMMA ExportNext ==
  ASSUME ExportInv, [Next]_vars
  PROVE  ExportInv'
  <1> USE DEF ExportInv, ExportTypes, ExportOK, JobState, Sweep
  <1>0. ExportTtl \in Nat /\ now \in Nat
    BY SettingsAssumption
  <1>1. ASSUME NEW x \in Export, NEW r \in Request, RequestDataExport(r, x) PROVE ExportInv'
    <2>1. exports' = [exports EXCEPT ![x].status = "PENDING"]
          /\ exports[x].status = "none" /\ UNCHANGED <<now, jobs, objects, sweep>>
      BY <1>1 DEF RequestDataExport
    <2>. QED  BY <2>1 DEF ExportRow
  <1>2. ASSUME NEW x \in Export, StartExport(x) PROVE ExportInv'
    BY <1>2 DEF StartExport
  <1>3. ASSUME NEW x \in Export, StoreExport(x) PROVE ExportInv'
    BY <1>3 DEF StoreExport
  <1>4. ASSUME NEW x \in Export, MarkExport(x) PROVE ExportInv'
    <2>1. CASE exports[x].status = "gone"
      BY <1>4, <2>1 DEF MarkExport
    <2>2. CASE exports[x].status # "gone"
      BY <1>0, <1>4, <2>2 DEF MarkExport, ExportRow
    <2>. QED  BY <2>1, <2>2
  <1>5. ASSUME NEW x \in Export, ExportFails(x) PROVE ExportInv'
    BY <1>5 DEF ExportFails
  <1>6. ASSUME NEW x \in Export, DeleteStoredObject(x) PROVE ExportInv'
    BY <1>6 DEF DeleteStoredObject
  <1>7. ASSUME NEW x \in Export, MarkExpired(x) PROVE ExportInv'
    BY <1>7 DEF MarkExpired, ExportRow
  <1>8. ASSUME NEW r \in Request, EnqueueExport(r) PROVE ExportInv'
    BY <1>8 DEF EnqueueExport
  <1>9. CASE PurgeFamily
    BY <1>9 DEF PurgeFamily, ExportRow
  <1>10. CASE ScanExports
    BY <1>10 DEF ScanExports, ExportDue
  <1>11. CASE Crash
    BY <1>11 DEF Crash
  <1>12. CASE Tick
    BY <1>12 DEF Tick, exporting, ExportRow
  <1>13. CASE UNCHANGED <<now, exporting>>
    BY <1>13 DEF exporting
  <1>. QED  BY <1>1, <1>2, <1>3, <1>4, <1>5, <1>6, <1>7, <1>8, <1>9, <1>10, <1>11, <1>12,
               <1>13, ExportSteps DEF ExportStep, RunJob

LEMMA ExportAlways == Spec => []ExportInv
  BY ExportInit, ExportNext, PTL DEF Spec

\* The store follows the rows, for any number of exports and any lifetime: no sweep, crash,
\* failure or purge makes an export that is offered unfetchable or leaves an expired one's
\* bytes.
THEOREM StoreFollowsRows == Spec => []BytesFollowRows
  <1>1. ExportInv => BytesFollowRows
    BY DEF ExportInv, ExportTypes, ExportOK, BytesFollowRows, Fetch, Retrievable
  <1>. QED  BY <1>1, ExportAlways, PTL

-------------------------------------------------------------------------------
(* What the law makes the operator keep. *)

KeptTypes ==
  /\ now \in Nat
  /\ consents \in [ConsentType -> ConsentRow] /\ invoices \in [Invoice -> InvoiceRow]

KeptInv == KeptTypes /\ RetainedSurvives

KeptStep ==
  \/ \E r \in Request : RecordConsent(r)
  \/ \E i \in Invoice : IssueInvoice(i)
  \/ PurgeFamily \/ Tick

LEMMA KeptSteps ==
  ASSUME [Next]_vars
  PROVE  KeptStep \/ UNCHANGED <<now, kept>>
  <1>1. ASSUME NEW r \in Request, Serve(r) PROVE KeptStep \/ UNCHANGED <<now, kept>>
    BY <1>1 DEF Serve, Register, EnqueueExport, UpdateParent, CloseInvitation, AcceptCoParent,
       DemoteMethods, PromoteMethod, InviteCoParent, KeptStep
  <1>2. ASSUME NEW r \in Request,
               \/ \E e \in Email : AskRegister(r, e) \/ AskInvite(r, e)
               \/ \E p \in Parent : AskPassword(r, p) \/ \E e \in Email : AskEmail(r, p, e)
               \/ \E i \in Invitation : AskAccept(r, i) \/ AskRevoke(r, i)
               \/ \E c \in Card : AskMethod(r, c)
               \/ \E x \in Export : RequestDataExport(r, x)
               \/ RecordConsentFails(r)
        PROVE  UNCHANGED <<now, kept>>
    BY <1>2 DEF AskRegister, AskInvite, AskPassword, AskEmail, AskAccept, AskRevoke, AskMethod,
       RequestDataExport, RecordConsentFails
  <1>3. ASSUME NEW x \in Export,
               RunJob(x) \/ ExportFails(x) \/ DeleteStoredObject(x) \/ MarkExpired(x)
        PROVE  UNCHANGED <<now, kept>>
    BY <1>3 DEF RunJob, StartExport, StoreExport, MarkExport, ExportFails, DeleteStoredObject,
       MarkExpired
  <1>4. CASE \/ VerifyEmail \/ RequestDeletion \/ CancelDeletion \/ ScanExports \/ Crash
             \/ \E e \in Email : RegisterElsewhere(e)
             \/ UNCHANGED vars
    BY <1>4 DEF VerifyEmail, RequestDeletion, CancelDeletion, ScanExports, Crash,
       RegisterElsewhere, vars
  <1>. QED  BY <1>1, <1>2, <1>3, <1>4 DEF Next, RunSweep, KeptStep

\* A record that is retained at a later time is retained at an earlier one.
LEMMA RetentionEnds ==
  ASSUME now \in Nat, now' = now + 1, NEW n \in Nat, NEW at \in Nat \cup {None},
         n > 0 /\ at # None /\ at >= now' - n
  PROVE  RetainedUntil(n, at)
  <1>1. at \in Nat
    OBVIOUS
  <1>. QED  BY <1>1 DEF RetainedUntil

LEMMA RehomedInvoice ==
  ASSUME NEW n \in Nat, NEW row \in InvoiceRow,
         RetainedUntil(n, row.at) => row.holder # "none"
  PROVE  /\ Rehomed(row, n) \in InvoiceRow
         /\ Rehomed(row, n).at = row.at
         /\ RetainedUntil(n, row.at) => Rehomed(row, n).holder # "none"
  <1>1. \/ Rehomed(row, n) = [row EXCEPT !.holder = "tombstone"]
        \/ Rehomed(row, n) = [row EXCEPT !.holder = "none"] /\ ~RetainedUntil(n, row.at)
        \/ Rehomed(row, n) = row
    BY DEF Rehomed, RetainedUntil
  <1>. QED  BY <1>1 DEF InvoiceRow, Holder

LEMMA RehomedConsent ==
  ASSUME NEW n \in Nat, NEW row \in ConsentRow,
         RetainedUntil(n, row.at) => row.holder # "none"
  PROVE  /\ Rehomed(row, n) \in ConsentRow
         /\ Rehomed(row, n).at = row.at
         /\ RetainedUntil(n, row.at) => Rehomed(row, n).holder # "none"
  <1>1. \/ Rehomed(row, n) = [row EXCEPT !.holder = "tombstone"]
        \/ Rehomed(row, n) = [row EXCEPT !.holder = "none"] /\ ~RetainedUntil(n, row.at)
        \/ Rehomed(row, n) = row
    BY DEF Rehomed, RetainedUntil
  <1>. QED  BY <1>1 DEF ConsentRow, Holder

LEMMA KeptInit == Init => KeptInv
  <1> SUFFICES ASSUME Init PROVE KeptInv
    OBVIOUS
  <1>1. \/ consents = [t \in ConsentType |-> [holder |-> "none", at |-> None, named |-> FALSE]]
        \/ consents = [t \in ConsentType |-> [holder |-> "family", at |-> 0, named |-> TRUE]]
    BY DEF Init, Fresh, Settled
  <1>2. /\ consents \in [ConsentType -> ConsentRow]
        /\ \A t \in ConsentType : /\ consents[t].holder # "tombstone"
                                  /\ consents[t].holder = "none" => consents[t].at = None
    <2>1. [holder |-> "none", at |-> None, named |-> FALSE] \in ConsentRow
      BY DEF ConsentRow, Holder
    <2>2. [holder |-> "family", at |-> 0, named |-> TRUE] \in ConsentRow
      BY DEF ConsentRow, Holder
    <2>3. CASE consents = [t \in ConsentType |-> [holder |-> "none", at |-> None, named |-> FALSE]]
      BY <2>1, <2>3
    <2>4. CASE consents = [t \in ConsentType |-> [holder |-> "family", at |-> 0, named |-> TRUE]]
      BY <2>2, <2>4
    <2>. QED  BY <1>1, <2>3, <2>4
  <1>3. invoices = [i \in Invoice |-> [holder |-> "none", at |-> None]] /\ now \in Nat
    BY DEF Init
  <1>4. invoices \in [Invoice -> InvoiceRow]
    BY <1>3 DEF InvoiceRow, Holder
  <1>. QED  BY <1>2, <1>3, <1>4 DEF KeptInv, KeptTypes, RetainedSurvives, RetainedUntil

LEMMA KeptNext ==
  ASSUME KeptInv, [Next]_vars
  PROVE  KeptInv'
  <1>0. InvoiceRetain \in Nat /\ ConsentRetain \in Nat
    BY SettingsAssumption
  <1>1. ASSUME NEW r \in Request, RecordConsent(r) PROVE KeptInv'
    BY <1>0, <1>1 DEF RecordConsent, KeptInv, KeptTypes, RetainedSurvives, RetainedUntil,
       ConsentRow, Holder
  <1>2. ASSUME NEW i \in Invoice, IssueInvoice(i) PROVE KeptInv'
    BY <1>0, <1>2 DEF IssueInvoice, KeptInv, KeptTypes, RetainedSurvives, RetainedUntil,
       InvoiceRow, Holder
  <1>3. CASE PurgeFamily
    <2>1. UNCHANGED now
      BY <1>3 DEF PurgeFamily
    <2>2. /\ invoices' \in [Invoice -> InvoiceRow]
          /\ \A i \in Invoice :
               RetainedUntil(InvoiceRetain, invoices'[i].at) => invoices'[i].holder # "none"
      <3>1. invoices' = [i \in Invoice |-> Rehomed(invoices[i], InvoiceRetain)]
        BY <1>3 DEF PurgeFamily, PurgeOrRetainInvoices
      <3>2. ASSUME NEW i \in Invoice
            PROVE  /\ invoices'[i] \in InvoiceRow
                   /\ RetainedUntil(InvoiceRetain, invoices'[i].at) =>
                        invoices'[i].holder # "none"
        <4>1. invoices[i] \in InvoiceRow
          BY DEF KeptInv, KeptTypes
        <4>2. RetainedUntil(InvoiceRetain, invoices[i].at) => invoices[i].holder # "none"
          BY DEF KeptInv, RetainedSurvives
        <4>3. invoices'[i] = Rehomed(invoices[i], InvoiceRetain)
          BY <3>1
        <4>. QED  BY <1>0, <4>1, <4>2, <4>3, RehomedInvoice
      <3>. QED  BY <3>1, <3>2
    <2>3. /\ consents' \in [ConsentType -> ConsentRow]
          /\ \A t \in ConsentType :
               /\ RetainedUntil(ConsentRetain, consents'[t].at) => consents'[t].holder # "none"
               /\ ~consents'[t].named
      <3>1. consents' = [t \in ConsentType |->
                           [Rehomed(consents[t], ConsentRetain) EXCEPT !.named = FALSE]]
        BY <1>3 DEF PurgeFamily, PurgeOrRetainConsent
      <3>2. ASSUME NEW t \in ConsentType
            PROVE  /\ consents'[t] \in ConsentRow /\ ~consents'[t].named
                   /\ RetainedUntil(ConsentRetain, consents'[t].at) =>
                        consents'[t].holder # "none"
        <4> DEFINE row == Rehomed(consents[t], ConsentRetain)
        <4>1. consents[t] \in ConsentRow
          BY DEF KeptInv, KeptTypes
        <4>2. RetainedUntil(ConsentRetain, consents[t].at) => consents[t].holder # "none"
          BY DEF KeptInv, RetainedSurvives
        <4>3. /\ row \in ConsentRow
              /\ row.at = consents[t].at
              /\ RetainedUntil(ConsentRetain, consents[t].at) => row.holder # "none"
          BY <1>0, <4>1, <4>2, RehomedConsent
        <4>4. consents'[t] = [row EXCEPT !.named = FALSE]
          BY <3>1
        <4>. HIDE DEF row
        <4>. QED  BY <4>3, <4>4 DEF ConsentRow
      <3>. QED  BY <3>1, <3>2
    <2>. QED  BY <2>1, <2>2, <2>3 DEF KeptInv, KeptTypes, RetainedSurvives, RetainedUntil
  <1>4. CASE Tick
    <2>1. now \in Nat /\ now' = now + 1 /\ UNCHANGED <<consents, invoices>>
      BY <1>4 DEF Tick, kept, KeptInv, KeptTypes
    <2>2. ASSUME NEW i \in Invoice, RetainedUntil(InvoiceRetain, invoices[i].at)'
          PROVE  invoices[i].holder # "none"
      <3>1. invoices[i].at \in Nat \cup {None}
        BY DEF KeptInv, KeptTypes, InvoiceRow
      <3>2. /\ InvoiceRetain > 0 /\ invoices[i].at # None
            /\ invoices[i].at >= now' - InvoiceRetain
        BY <2>1, <2>2 DEF RetainedUntil
      <3>. QED  BY <1>0, <2>1, <3>1, <3>2, RetentionEnds DEF KeptInv, RetainedSurvives
    <2>3. ASSUME NEW t \in ConsentType, RetainedUntil(ConsentRetain, consents[t].at)'
          PROVE  consents[t].holder # "none"
      <3>1. consents[t].at \in Nat \cup {None}
        BY DEF KeptInv, KeptTypes, ConsentRow
      <3>2. /\ ConsentRetain > 0 /\ consents[t].at # None
            /\ consents[t].at >= now' - ConsentRetain
        BY <2>1, <2>3 DEF RetainedUntil
      <3>. QED  BY <1>0, <2>1, <3>1, <3>2, RetentionEnds DEF KeptInv, RetainedSurvives
    <2>. QED  BY <2>1, <2>2, <2>3 DEF KeptInv, KeptTypes, RetainedSurvives
  <1>5. CASE UNCHANGED <<now, kept>>
    BY <1>5 DEF kept, KeptInv, KeptTypes, RetainedSurvives, RetainedUntil
  <1>. QED  BY <1>1, <1>2, <1>3, <1>4, <1>5, KeptSteps DEF KeptStep

\* No purge deletes an invoice or a consent younger than its legal minimum, and none keeps a
\* name with a consent, for any two minimums.
THEOREM LegalMinimumKept == Spec => []RetainedSurvives
  <1>1. KeptInv => RetainedSurvives
    BY DEF KeptInv
  <1>. QED  BY <1>1, KeptInit, KeptNext, PTL DEF Spec

-------------------------------------------------------------------------------
(* Type correctness. *)

RequestTypes ==
  /\ now \in 0..MaxTime /\ asked \in 0..MaxAsked /\ faults \in 0..MaxFault
  /\ reqs \in [Request -> Req]

UniqueAddresses ==
  /\ \A p, q \in There : p # q => parents[p].email # parents[q].email
  /\ \A p \in There : parents[p].email \notin elsewhere

AccountTypes ==
  /\ family \in FamilyRow /\ token \in [live : BOOLEAN, expiresAt : Nat]
  /\ parents \in [Parent -> ParentRow] /\ elsewhere \subseteq Email
  /\ UniqueAddresses

InvitationTypes ==
  /\ invitations \in [Invitation -> InvitationRow]
  /\ admitted \in [Invitation -> SUBSET Parent]

MethodTypes == methods \in [Method -> MethodRow]

Typed ==
  /\ RequestTypes /\ AccountTypes /\ InvitationTypes /\ MethodTypes
  /\ ExportInv /\ KeptInv

LEMMA TypedParts == Typed <=> TypeOK /\ ExportInv /\ KeptInv
  BY DEF Typed, TypeOK, RequestTypes, AccountTypes, InvitationTypes, MethodTypes,
     UniqueAddresses, ExportInv, ExportTypes, ExportOK, KeptInv, KeptTypes, ExportRow, None

\* What a request comes to hold.
Held == Parent \cup Invitation \cup Method \cup Export \cup {NoParent}

LEMMA HeldTypes ==
  ASSUME NEW q \in Req
  PROVE  /\ \A op \in {"idle", "register", "consent", "email", "password", "invite", "accept",
                       "expire", "revoke", "demote", "promote", "enqueue"} :
              [q EXCEPT !.op = op] \in Req
         /\ \A id \in Held : [q EXCEPT !.id = id] \in Req
         /\ \A e \in Email \cup {NoEmail} : [q EXCEPT !.email = e] \in Req
         /\ \A c \in Card : [q EXCEPT !.card = c] \in Req
  BY DEF Req, Held

LEMMA IdleType == Idle \in Req
  BY DEF Idle, Req

LEMMA AskedTypes ==
  /\ \A e \in Email : /\ [Idle EXCEPT !.op = "register", !.email = e] \in Req
                      /\ [Idle EXCEPT !.op = "invite", !.email = e] \in Req
  /\ \A p \in Parent : /\ [Idle EXCEPT !.op = "password", !.id = p] \in Req
                       /\ \A e \in Email : [Idle EXCEPT !.op = "email", !.id = p, !.email = e] \in Req
  /\ \A i \in Invitation :
       /\ [Idle EXCEPT !.op = "expire", !.id = i] \in Req
       /\ [Idle EXCEPT !.op = "revoke", !.id = i] \in Req
       /\ \A e \in Email \cup {NoEmail} : [Idle EXCEPT !.op = "accept", !.id = i, !.email = e] \in Req
  /\ \A c \in Card : /\ [Idle EXCEPT !.op = "demote", !.card = c] \in Req
                     /\ \A m \in Method : [Idle EXCEPT !.op = "demote", !.card = c, !.id = m] \in Req
  /\ \A x \in Export : [Idle EXCEPT !.op = "enqueue", !.id = x] \in Req
  <1> DEFINE As(op) == [Idle EXCEPT !.op = op]
  <1>1. \A op \in {"register", "invite", "password", "email", "expire", "revoke", "accept",
                   "demote", "enqueue"} : As(op) \in Req
    BY IdleType, HeldTypes
  <1>2. /\ As("register") \in Req /\ As("invite") \in Req /\ As("password") \in Req
        /\ As("email") \in Req /\ As("expire") \in Req /\ As("revoke") \in Req
        /\ As("accept") \in Req /\ As("demote") \in Req /\ As("enqueue") \in Req
    BY <1>1
  <1> HIDE DEF As
  <1>3. \A q \in Req :
          /\ \A p \in Parent : [q EXCEPT !.id = p] \in Req
          /\ \A i \in Invitation : [q EXCEPT !.id = i] \in Req
          /\ \A m \in Method : [q EXCEPT !.id = m] \in Req
          /\ \A x \in Export : [q EXCEPT !.id = x] \in Req
          /\ \A e \in Email \cup {NoEmail} : [q EXCEPT !.email = e] \in Req
          /\ \A c \in Card : [q EXCEPT !.card = c] \in Req
    BY HeldTypes DEF Held
  <1>4. /\ \A e \in Email : /\ [As("register") EXCEPT !.email = e] \in Req
                            /\ [As("invite") EXCEPT !.email = e] \in Req
        /\ \A p \in Parent : [As("password") EXCEPT !.id = p] \in Req
        /\ \A x \in Export : [As("enqueue") EXCEPT !.id = x] \in Req
        /\ \A i \in Invitation : /\ [As("expire") EXCEPT !.id = i] \in Req
                                 /\ [As("revoke") EXCEPT !.id = i] \in Req
        /\ \A c \in Card : [As("demote") EXCEPT !.card = c] \in Req
    BY <1>2, <1>3
  <1>5. ASSUME NEW p \in Parent, NEW e \in Email
        PROVE  [[As("email") EXCEPT !.id = p] EXCEPT !.email = e] \in Req
    <2>1. [As("email") EXCEPT !.id = p] \in Req
      BY <1>2, <1>3
    <2>. QED  BY <2>1, <1>3
  <1>6. ASSUME NEW i \in Invitation, NEW e \in Email \cup {NoEmail}
        PROVE  [[As("accept") EXCEPT !.id = i] EXCEPT !.email = e] \in Req
    <2>1. [As("accept") EXCEPT !.id = i] \in Req
      BY <1>2, <1>3
    <2>. QED  BY <2>1, <1>3
  <1>7. ASSUME NEW c \in Card, NEW m \in Method
        PROVE  [[As("demote") EXCEPT !.card = c] EXCEPT !.id = m] \in Req
    BY <1>3, <1>4
  <1> USE DEF As
  <1>. QED  BY <1>4, <1>5, <1>6, <1>7

LEMMA RequestNext ==
  ASSUME Typed, [Next]_vars
  PROVE  RequestTypes'
  <1>1. ASSUME NEW r \in Request, NEW next \in Req, Goes(r, next)
        PROVE  reqs' \in [Request -> Req]
    BY <1>1 DEF Goes, Typed, RequestTypes
  <1>2. Idle \in Req
    BY IdleType
  <1>3. ASSUME NEW r \in Request, Done(r)
        PROVE  reqs' \in [Request -> Req]
    BY <1>1, <1>2, <1>3 DEF Done
  <1>4. ASSUME NEW r \in Request, Ask(r)
        PROVE  asked' \in 0..MaxAsked
    BY <1>4, SettingsAssumption DEF Ask, Typed, RequestTypes
  <1>5. ASSUME Fault
        PROVE  faults' \in 0..MaxFault
    BY <1>5, SettingsAssumption DEF Fault, Typed, RequestTypes
  <1>6. ASSUME NEW r \in Request,
               Ask(r) /\ UNCHANGED <<now, faults>> /\ \E next \in Req : Goes(r, next)
        PROVE  RequestTypes'
    BY <1>1, <1>4, <1>6 DEF Typed, RequestTypes
  <1>7. ASSUME NEW r \in Request, NEW e \in Email, AskRegister(r, e) \/ AskInvite(r, e)
        PROVE  RequestTypes'
    <2>1. \/ Goes(r, [Idle EXCEPT !.op = "register", !.email = e])
          \/ Goes(r, [Idle EXCEPT !.op = "invite", !.email = e])
      BY <1>7 DEF AskRegister, AskInvite
    <2>2. Ask(r) /\ UNCHANGED <<now, faults>>
      BY <1>7 DEF AskRegister, AskInvite, AskSignedIn
    <2>. QED  BY <1>6, <2>1, <2>2, AskedTypes
  <1>8. ASSUME NEW r \in Request, NEW p \in Parent,
               AskPassword(r, p) \/ \E e \in Email : AskEmail(r, p, e)
        PROVE  RequestTypes'
    <2>1. \/ Goes(r, [Idle EXCEPT !.op = "password", !.id = p])
          \/ \E e \in Email : Goes(r, [Idle EXCEPT !.op = "email", !.id = p, !.email = e])
      BY <1>8 DEF AskPassword, AskEmail
    <2>2. Ask(r) /\ UNCHANGED <<now, faults>>
      BY <1>8 DEF AskPassword, AskEmail, AskSignedIn
    <2>. QED  BY <1>6, <2>1, <2>2, AskedTypes
  <1>9. ASSUME NEW r \in Request, NEW i \in Invitation, AskAccept(r, i) \/ AskRevoke(r, i)
        PROVE  RequestTypes'
    <2>1. \/ Goes(r, [Idle EXCEPT !.op = "expire", !.id = i])
          \/ Goes(r, [Idle EXCEPT !.op = "revoke", !.id = i])
          \/ Goes(r, [Idle EXCEPT !.op = "accept", !.id = i, !.email = invitations[i].email])
      BY <1>9 DEF AskAccept, AskRevoke
    <2>2. Ask(r) /\ UNCHANGED <<now, faults>>
      BY <1>9 DEF AskAccept, AskRevoke, AskSignedIn
    <2>3. invitations[i].email \in Email \cup {NoEmail}
      BY DEF Typed, InvitationTypes, InvitationRow
    <2>. QED  BY <1>6, <2>1, <2>2, <2>3, AskedTypes
  <1>10. ASSUME NEW r \in Request, NEW c \in Card, AskMethod(r, c)
        PROVE  RequestTypes'
    <2>1. \/ Goes(r, [Idle EXCEPT !.op = "demote", !.card = c])
          \/ \E m \in Method : Goes(r, [Idle EXCEPT !.op = "demote", !.card = c, !.id = m])
      BY <1>10 DEF AskMethod, WithCard
    <2>2. Ask(r) /\ UNCHANGED <<now, faults>>
      BY <1>10 DEF AskMethod, AskSignedIn
    <2>. QED  BY <1>6, <2>1, <2>2, AskedTypes
  <1>11. ASSUME NEW r \in Request, NEW x \in Export, RequestDataExport(r, x)
        PROVE  RequestTypes'
    <2>1. /\ Goes(r, [Idle EXCEPT !.op = "enqueue", !.id = x])
          /\ Ask(r) /\ UNCHANGED <<now, faults>>
      BY <1>11 DEF RequestDataExport, AskSignedIn
    <2>. QED  BY <1>6, <2>1, AskedTypes
  <1>12. ASSUME NEW r \in Request, Register(r)
         PROVE  RequestTypes'
    <2>1. \A p \in Parent : [reqs[r] EXCEPT !.op = "consent", !.id = p] \in Req
      <3>1. [reqs[r] EXCEPT !.op = "consent"] \in Req
        BY HeldTypes DEF Typed, RequestTypes
      <3>. QED  BY <3>1, HeldTypes DEF Held
    <2>2. UNCHANGED <<now, asked, faults>> /\ (Done(r) \/ \E next \in Req : Goes(r, next))
      BY <1>12, <2>1 DEF Register
    <2>. QED  BY <1>1, <1>3, <2>2 DEF Typed, RequestTypes
  <1>13. ASSUME NEW r \in Request, RecordConsent(r)
         PROVE  RequestTypes'
    <2>1. reqs[r].step # 2 => [reqs[r] EXCEPT !.step = @ + 1] \in Req
      BY DEF Typed, RequestTypes, Req
    <2>2. UNCHANGED <<now, asked, faults>> /\ (Done(r) \/ \E next \in Req : Goes(r, next))
      BY <1>13, <2>1 DEF RecordConsent
    <2>. QED  BY <1>1, <1>3, <2>2 DEF Typed, RequestTypes
  <1>14. ASSUME NEW r \in Request, DemoteMethods(r)
         PROVE  RequestTypes'
    <2>1. [reqs[r] EXCEPT !.op = "promote"] \in Req
      BY DEF Typed, RequestTypes, Req
    <2>2. UNCHANGED <<now, asked, faults>> /\ \E next \in Req : Goes(r, next)
      BY <1>14, <2>1 DEF DemoteMethods
    <2>. QED  BY <1>1, <2>2 DEF Typed, RequestTypes
  <1>15. ASSUME NEW r \in Request,
                \/ UpdateParent(r) \/ CloseInvitation(r) \/ AcceptCoParent(r)
                \/ PromoteMethod(r) \/ EnqueueExport(r)
                \/ \E i \in Invitation : InviteCoParent(r, i)
         PROVE  RequestTypes'
    <2>1. UNCHANGED <<now, asked, faults>> /\ Done(r)
      BY <1>15 DEF UpdateParent, CloseInvitation, AcceptCoParent, PromoteMethod, EnqueueExport,
         InviteCoParent
    <2>. QED  BY <1>3, <2>1 DEF Typed, RequestTypes
  <1>16. ASSUME NEW r \in Request, RecordConsentFails(r)
         PROVE  RequestTypes'
    BY <1>3, <1>5, <1>16 DEF RecordConsentFails, Typed, RequestTypes
  <1>17. ASSUME NEW x \in Export, RunJob(x) \/ DeleteStoredObject(x) \/ MarkExpired(x)
         PROVE  UNCHANGED <<now, asked, faults, reqs>>
    BY <1>17 DEF RunJob, StartExport, StoreExport, MarkExport, DeleteStoredObject, MarkExpired
  <1>18. ASSUME NEW x \in Export, ExportFails(x)
         PROVE  RequestTypes'
    BY <1>5, <1>18 DEF ExportFails, Typed, RequestTypes
  <1>19. CASE PurgeFamily \/ ScanExports \/ VerifyEmail \/ UNCHANGED vars
    BY <1>19 DEF PurgeFamily, ScanExports, VerifyEmail, vars, Typed, RequestTypes
  <1>20. CASE \/ RequestDeletion \/ CancelDeletion
              \/ \E e \in Email : RegisterElsewhere(e)
              \/ \E i \in Invoice : IssueInvoice(i)
    BY <1>20, SettingsAssumption DEF RequestDeletion, CancelDeletion, RegisterElsewhere,
       IssueInvoice, Typed, RequestTypes
  <1>21. CASE Crash
    BY <1>2, <1>5, <1>21 DEF Crash, Typed, RequestTypes
  <1>22. CASE Tick
    BY <1>22, SettingsAssumption DEF Tick, Typed, RequestTypes
  <1>23. ASSUME UNCHANGED <<now, asked, faults, reqs>>
         PROVE  RequestTypes'
    BY <1>23 DEF Typed, RequestTypes
  <1>. QED  BY <1>7, <1>8, <1>9, <1>10, <1>11, <1>12, <1>13, <1>14,
               <1>15, <1>16, <1>17, <1>18, <1>19, <1>20, <1>21, <1>22, <1>23 DEF Next, Serve, RunSweep

AccountStep ==
  \/ \E r \in Request : Register(r) \/ UpdateParent(r) \/ AcceptCoParent(r)
  \/ VerifyEmail \/ RequestDeletion \/ CancelDeletion \/ PurgeFamily
  \/ \E e \in Email : RegisterElsewhere(e)

LEMMA AccountSteps ==
  ASSUME [Next]_vars
  PROVE  AccountStep \/ UNCHANGED accountRows
  <1>1. ASSUME NEW r \in Request, Serve(r) PROVE AccountStep \/ UNCHANGED accountRows
    BY <1>1 DEF Serve, RecordConsent, CloseInvitation, DemoteMethods, PromoteMethod,
       EnqueueExport, InviteCoParent, AccountStep
  <1>2. ASSUME NEW r \in Request,
               \/ \E e \in Email : AskRegister(r, e) \/ AskInvite(r, e)
               \/ \E p \in Parent : AskPassword(r, p) \/ \E e \in Email : AskEmail(r, p, e)
               \/ \E i \in Invitation : AskAccept(r, i) \/ AskRevoke(r, i)
               \/ \E c \in Card : AskMethod(r, c)
               \/ \E x \in Export : RequestDataExport(r, x)
               \/ RecordConsentFails(r)
        PROVE  UNCHANGED accountRows
    BY <1>2 DEF AskRegister, AskInvite, AskPassword, AskEmail, AskAccept, AskRevoke, AskMethod,
       RequestDataExport, RecordConsentFails
  <1>3. ASSUME NEW x \in Export,
               RunJob(x) \/ ExportFails(x) \/ DeleteStoredObject(x) \/ MarkExpired(x)
        PROVE  UNCHANGED accountRows
    BY <1>3 DEF RunJob, StartExport, StoreExport, MarkExport, ExportFails, DeleteStoredObject,
       MarkExpired
  <1>4. CASE ScanExports \/ Crash \/ Tick \/ UNCHANGED vars \/ \E i \in Invoice : IssueInvoice(i)
    BY <1>4 DEF ScanExports, Crash, Tick, IssueInvoice, vars
  <1>. QED  BY <1>1, <1>2, <1>3, <1>4 DEF Next, RunSweep, AccountStep

LEMMA NewParentType ==
  ASSUME NEW e \in Email \cup {NoEmail}, NEW owner \in BOOLEAN
  PROVE  /\ NewParent(e, owner) \in ParentRow
         /\ NewParent(e, owner).there /\ NewParent(e, owner).email = e
  BY DEF NewParent, NoRow, ParentRow

\* A new parent's address, or a changed one, is no other parent's when it is written.
LEMMA AddressesStayUnique ==
  ASSUME AccountTypes, NEW p \in Parent, NEW row \in ParentRow,
         row.there => ~RegisteredToAnother(row.email, p),
         parents' = [parents EXCEPT ![p] = row], UNCHANGED elsewhere
  PROVE  parents' \in [Parent -> ParentRow] /\ UniqueAddresses'
  <1>1. parents' \in [Parent -> ParentRow]
    BY DEF AccountTypes
  <1>2. parents'[p] = row /\ \A q \in Parent \ {p} : parents'[q] = parents[q]
    BY DEF AccountTypes
  <1>3. \A q \in Parent : q \in There' => q \in There \/ q = p
    BY <1>2 DEF There
  <1>4. p \in There' => /\ row.email \notin elsewhere
                        /\ \A q \in There \ {p} : row.email # parents[q].email
    BY <1>2 DEF There, RegisteredToAnother
  <1>. QED  BY <1>1, <1>2, <1>3, <1>4 DEF AccountTypes, UniqueAddresses, There

LEMMA AccountNext ==
  ASSUME Typed, [Next]_vars
  PROVE  AccountTypes'
  <1>0. /\ AccountTypes /\ now \in Nat
        /\ TokenTtl \in Nat /\ Keep \in Nat /\ parents \in [Parent -> ParentRow]
    BY SettingsAssumption DEF Typed, AccountTypes, ExportInv, ExportTypes
  <1>1. ASSUME NEW r \in Request, Register(r) PROVE AccountTypes'
    <2>1. reqs[r].email \in Email \cup {NoEmail}
      BY DEF Typed, RequestTypes, Req
    <2>2. CASE UNCHANGED <<family, parents, token>>
      BY <1>0, <1>1, <2>2 DEF Register, AccountTypes, UniqueAddresses, There
    <2>3. ASSUME NEW p \in Parent, ~Registered(reqs[r].email),
                 family' = [family EXCEPT !.state = "active"],
                 parents' = [parents EXCEPT ![p] = NewParent(reqs[r].email, TRUE)],
                 token' = [live |-> TRUE, expiresAt |-> now + TokenTtl], UNCHANGED elsewhere
          PROVE  AccountTypes'
      <3>1. ~RegisteredToAnother(reqs[r].email, p)
        BY <2>3 DEF Registered, RegisteredToAnother
      <3>2. parents' \in [Parent -> ParentRow] /\ UniqueAddresses'
        BY <1>0, <2>1, <2>3, <3>1, NewParentType, AddressesStayUnique
      <3>3. family' \in FamilyRow
        BY <1>0, <2>3 DEF AccountTypes, FamilyRow
      <3>4. token' \in [live : BOOLEAN, expiresAt : Nat]
        BY <1>0, <2>3
      <3>. QED  BY <1>0, <2>3, <3>2, <3>3, <3>4 DEF AccountTypes
    <2>. QED  BY <1>1, <2>2, <2>3 DEF Register
  <1>2. ASSUME NEW r \in Request, UpdateParent(r) PROVE AccountTypes'
    <2> DEFINE p == reqs[r].id
    <2>0. UNCHANGED <<family, elsewhere, token>> /\ reqs[r].email \in Email \cup {NoEmail}
      BY <1>2 DEF UpdateParent, Typed, RequestTypes, Req
    <2>1. CASE UNCHANGED parents
      BY <1>0, <2>0, <2>1 DEF AccountTypes, UniqueAddresses, There
    <2>2. CASE p \in There /\ parents' = [parents EXCEPT ![p].secret = "second"]
      <3>1. p \in Parent /\ parents[p] \in ParentRow
        BY <1>0, <2>2 DEF There
      <3>2. parents' = [parents EXCEPT ![p] = [parents[p] EXCEPT !.secret = "second"]]
        BY <2>2
      <3>3. [parents[p] EXCEPT !.secret = "second"] \in ParentRow
            /\ [parents[p] EXCEPT !.secret = "second"].email = parents[p].email
        BY <3>1 DEF ParentRow
      <3>4. ~RegisteredToAnother(parents[p].email, p)
        BY <1>0, <2>2 DEF AccountTypes, UniqueAddresses, RegisteredToAnother
      <3>. HIDE DEF p
      <3>5. parents' \in [Parent -> ParentRow] /\ UniqueAddresses'
        BY <1>0, <2>0, <3>1, <3>2, <3>3, <3>4, AddressesStayUnique
      <3>. QED  BY <1>0, <2>0, <3>5 DEF AccountTypes
    <2>3. CASE /\ p \in There /\ ~RegisteredToAnother(reqs[r].email, p)
               /\ parents' = [parents EXCEPT ![p].email = reqs[r].email]
      <3> DEFINE e == reqs[r].email
      <3>1. p \in Parent /\ parents[p] \in ParentRow
        BY <1>0, <2>3 DEF There
      <3>2. parents' = [parents EXCEPT ![p] = [parents[p] EXCEPT !.email = e]]
        BY <2>3
      <3>3. [parents[p] EXCEPT !.email = e] \in ParentRow
            /\ [parents[p] EXCEPT !.email = e].email = e
        <4> HIDE DEF p, e
        <4>1. e \in Email \cup {NoEmail}
          BY <2>0 DEF e
        <4>. QED  BY <3>1, <4>1 DEF ParentRow
      <3>4. ~RegisteredToAnother(e, p)
        BY <2>3
      <3>. HIDE DEF p, e
      <3>5. parents' \in [Parent -> ParentRow] /\ UniqueAddresses'
        BY <1>0, <2>0, <3>1, <3>2, <3>3, <3>4, AddressesStayUnique
      <3>. QED  BY <1>0, <2>0, <3>5 DEF AccountTypes
    <2>. QED  BY <1>2, <2>1, <2>2, <2>3 DEF UpdateParent
  <1>3. ASSUME NEW r \in Request, AcceptCoParent(r) PROVE AccountTypes'
    <2>1. UNCHANGED <<family, elsewhere, token>> /\ reqs[r].email \in Email \cup {NoEmail}
      BY <1>3 DEF AcceptCoParent, Typed, RequestTypes, Req
    <2>2. CASE UNCHANGED parents
      BY <1>0, <2>1, <2>2 DEF AccountTypes, UniqueAddresses, There
    <2>3. ASSUME NEW p \in Parent, ~Registered(reqs[r].email),
                 parents' = [parents EXCEPT ![p] = NewParent(reqs[r].email, FALSE)]
          PROVE  AccountTypes'
      <3>1. ~RegisteredToAnother(reqs[r].email, p)
        BY <2>3 DEF Registered, RegisteredToAnother
      <3>2. parents' \in [Parent -> ParentRow] /\ UniqueAddresses'
        BY <1>0, <2>1, <2>3, <3>1, NewParentType, AddressesStayUnique
      <3>. QED  BY <1>0, <2>1, <3>2 DEF AccountTypes
    <2>. QED  BY <1>3, <2>2, <2>3 DEF AcceptCoParent
  <1>4. CASE VerifyEmail
    <2>1. \A p \in Parent : /\ parents'[p] \in ParentRow
                            /\ parents'[p].there = parents[p].there
                            /\ parents'[p].email = parents[p].email
      BY <1>0, <1>4 DEF VerifyEmail, ParentRow
    <2>2. parents' = [p \in Parent |-> parents'[p]] /\ UNCHANGED <<family, elsewhere>>
      BY <1>4 DEF VerifyEmail
    <2>3. UniqueAddresses'
      BY <1>0, <2>1, <2>2 DEF AccountTypes, UniqueAddresses, There
    <2>4. token' \in [live : BOOLEAN, expiresAt : Nat]
      BY <1>0, <1>4 DEF VerifyEmail, AccountTypes
    <2>. QED  BY <1>0, <2>1, <2>2, <2>3, <2>4 DEF AccountTypes
  <1>5. CASE RequestDeletion \/ CancelDeletion
    <2>1. family' \in FamilyRow
      BY <1>0, <1>5 DEF RequestDeletion, CancelDeletion, ComputePurgeAfter, FamilyRow
    <2>2. UNCHANGED <<parents, elsewhere, token>>
      BY <1>5 DEF RequestDeletion, CancelDeletion
    <2>. QED  BY <1>0, <2>1, <2>2 DEF AccountTypes, UniqueAddresses, There
  <1>6. CASE PurgeFamily
    <2>1. \A p \in Parent : parents'[p] \in ParentRow /\ ~parents'[p].there
      BY <1>0, <1>6 DEF PurgeFamily, NoRow, ParentRow
    <2>2. parents' = [p \in Parent |-> parents'[p]] /\ UNCHANGED elsewhere
      BY <1>6 DEF PurgeFamily
    <2>3. family' \in FamilyRow /\ token' \in [live : BOOLEAN, expiresAt : Nat]
      BY <1>0, <1>6 DEF PurgeFamily, AccountTypes, FamilyRow
    <2>. QED  BY <1>0, <2>1, <2>2, <2>3 DEF AccountTypes, UniqueAddresses, There
  <1>7. ASSUME NEW e \in Email, RegisterElsewhere(e) PROVE AccountTypes'
    BY <1>0, <1>7 DEF RegisterElsewhere, Registered, AccountTypes, UniqueAddresses, There
  <1>8. CASE UNCHANGED accountRows
    BY <1>0, <1>8 DEF accountRows, AccountTypes, UniqueAddresses, There
  <1>. QED  BY <1>1, <1>2, <1>3, <1>4, <1>5, <1>6, <1>7, <1>8, AccountSteps DEF AccountStep

RowStep ==
  \/ \E r \in Request :
       \/ \E i \in Invitation : InviteCoParent(r, i)
       \/ CloseInvitation(r) \/ AcceptCoParent(r) \/ DemoteMethods(r) \/ PromoteMethod(r)
  \/ PurgeFamily

LEMMA RowSteps ==
  ASSUME [Next]_vars
  PROVE  RowStep \/ UNCHANGED <<invitations, admitted, methods>>
  <1>1. ASSUME NEW r \in Request, Serve(r)
        PROVE  RowStep \/ UNCHANGED <<invitations, admitted, methods>>
    BY <1>1 DEF Serve, Register, RecordConsent, UpdateParent, EnqueueExport, RowStep
  <1>2. ASSUME NEW r \in Request,
               \/ \E e \in Email : AskRegister(r, e) \/ AskInvite(r, e)
               \/ \E p \in Parent : AskPassword(r, p) \/ \E e \in Email : AskEmail(r, p, e)
               \/ \E i \in Invitation : AskAccept(r, i) \/ AskRevoke(r, i)
               \/ \E c \in Card : AskMethod(r, c)
               \/ \E x \in Export : RequestDataExport(r, x)
               \/ RecordConsentFails(r)
        PROVE  UNCHANGED <<invitations, admitted, methods>>
    BY <1>2 DEF AskRegister, AskInvite, AskPassword, AskEmail, AskAccept, AskRevoke, AskMethod,
       RequestDataExport, RecordConsentFails
  <1>3. ASSUME NEW x \in Export,
               RunJob(x) \/ ExportFails(x) \/ DeleteStoredObject(x) \/ MarkExpired(x)
        PROVE  UNCHANGED <<invitations, admitted, methods>>
    BY <1>3 DEF RunJob, StartExport, StoreExport, MarkExport, ExportFails, DeleteStoredObject,
       MarkExpired
  <1>4. CASE \/ ScanExports \/ Crash \/ Tick \/ UNCHANGED vars
             \/ VerifyEmail \/ RequestDeletion \/ CancelDeletion
             \/ \E e \in Email : RegisterElsewhere(e)
             \/ \E i \in Invoice : IssueInvoice(i)
    BY <1>4 DEF ScanExports, Crash, Tick, IssueInvoice, VerifyEmail, RequestDeletion,
       CancelDeletion, RegisterElsewhere, vars
  <1>. QED  BY <1>1, <1>2, <1>3, <1>4 DEF Next, RunSweep, RowStep

\* An invitation that let somebody in was created and is closed.
SpentInv ==
  \A i \in Invitation : admitted[i] # {} => invitations[i].status \notin {"none", "PENDING"}

LEMMA InvitationNext ==
  ASSUME Typed, [Next]_vars
  PROVE  InvitationTypes' /\ (SpentInv => SpentInv')
  <1> USE DEF Typed, InvitationTypes, SpentInv
  <1>0. now \in Nat /\ InviteTtl \in Nat
    BY SettingsAssumption DEF ExportInv, ExportTypes
  <1>1. ASSUME NEW r \in Request, NEW i \in Invitation, InviteCoParent(r, i)
        PROVE  InvitationTypes' /\ (SpentInv => SpentInv')
    <2>1. reqs[r].email \in Email \cup {NoEmail}
      BY DEF RequestTypes, Req
    <2> DEFINE row == [status |-> "PENDING", email |-> reqs[r].email, expiresAt |-> now + InviteTtl]
    <2>2. row \in InvitationRow /\ row.status = "PENDING"
      BY <1>0, <2>1 DEF InvitationRow
    <2>3. /\ invitations[i].status = "none" /\ UNCHANGED admitted
          /\ invitations' \in {invitations, [invitations EXCEPT ![i] = row]}
      BY <1>1 DEF InviteCoParent
    <2>. HIDE DEF row
    <2>. QED  BY <2>2, <2>3
  <1>2. ASSUME NEW r \in Request, CloseInvitation(r)
        PROVE  InvitationTypes' /\ (SpentInv => SpentInv')
    <2> DEFINE i == reqs[r].id
               s == IF reqs[r].op = "expire" THEN "EXPIRED" ELSE "REVOKED"
               row == [invitations[i] EXCEPT !.status = s]
    <2>1. /\ UNCHANGED admitted
          /\ invitations' = IF invitations[i].status = "gone" THEN invitations
                            ELSE [invitations EXCEPT ![i] = row]
      BY <1>2 DEF CloseInvitation
    <2>2. ASSUME i \in Invitation
          PROVE  row \in InvitationRow /\ row.status \in {"EXPIRED", "REVOKED"}
      BY <2>2 DEF InvitationRow
    <2>. HIDE DEF row, i
    <2>. QED  BY <2>1, <2>2
  <1>3. ASSUME NEW r \in Request, AcceptCoParent(r)
        PROVE  InvitationTypes' /\ (SpentInv => SpentInv')
    <2>1. CASE UNCHANGED <<invitations, admitted>>
      BY <2>1
    <2>2. ASSUME NEW p \in Parent, NEW i,
                 invitations' = [invitations EXCEPT ![i].status = "ACCEPTED"],
                 admitted' = [admitted EXCEPT ![i] = @ \cup {p}]
          PROVE  InvitationTypes' /\ (SpentInv => SpentInv')
      <3>1. invitations' \in [Invitation -> InvitationRow]
        BY <2>2 DEF InvitationRow
      <3>2. admitted' \in [Invitation -> SUBSET Parent]
        BY <2>2
      <3>3. ASSUME NEW j \in Invitation
            PROVE  \/ invitations'[j].status = "ACCEPTED"
                   \/ invitations'[j] = invitations[j] /\ admitted'[j] = admitted[j]
        BY <2>2 DEF InvitationRow
      <3>. QED  BY <3>1, <3>2, <3>3
    <2>. QED  BY <1>3, <2>1, <2>2 DEF AcceptCoParent
  <1>4. CASE PurgeFamily
    <2>1. UNCHANGED admitted
      BY <1>4 DEF PurgeFamily
    <2>2. /\ invitations' \in [Invitation -> InvitationRow]
          /\ \A i \in Invitation : \/ invitations'[i] = invitations[i]
                                   \/ invitations'[i].status = "gone"
      BY <1>4 DEF PurgeFamily, InvitationRow
    <2>. QED  BY <2>1, <2>2
  <1>5. CASE \/ UNCHANGED <<invitations, admitted, methods>>
             \/ \E r \in Request : DemoteMethods(r) \/ PromoteMethod(r)
    BY <1>5 DEF DemoteMethods, PromoteMethod
  <1>. QED  BY <1>1, <1>2, <1>3, <1>4, <1>5, RowSteps DEF RowStep

LEMMA MethodNext ==
  ASSUME Typed, [Next]_vars
  PROVE  MethodTypes'
  <1> USE DEF Typed, MethodTypes
  <1>1. ASSUME NEW r \in Request, DemoteMethods(r) PROVE MethodTypes'
    BY <1>1 DEF DemoteMethods, MethodRow
  <1>2. ASSUME NEW r \in Request, PromoteMethod(r) PROVE MethodTypes'
    <2>1. reqs[r].card \in Card \cup {NoCard}
      BY DEF RequestTypes, Req
    <2>2. [there |-> TRUE, card |-> reqs[r].card, isDefault |-> TRUE] \in MethodRow
      BY <2>1 DEF MethodRow
    <2>3. \A m \in Method : [methods[m] EXCEPT !.isDefault = TRUE] \in MethodRow
      BY DEF MethodRow
    <2>. QED  BY <1>2, <2>2, <2>3 DEF PromoteMethod
  <1>3. CASE PurgeFamily
    BY <1>3 DEF PurgeFamily, NoMethod, MethodRow
  <1>4. CASE \/ UNCHANGED <<invitations, admitted, methods>>
             \/ \E r \in Request : \/ \E i \in Invitation : InviteCoParent(r, i)
                                   \/ CloseInvitation(r) \/ AcceptCoParent(r)
    BY <1>4 DEF InviteCoParent, CloseInvitation, AcceptCoParent
  <1>. QED  BY <1>1, <1>2, <1>3, <1>4, RowSteps DEF RowStep

LEMMA TypedInit == Init => Typed /\ SpentInv
  <1> SUFFICES ASSUME Init PROVE Typed /\ SpentInv
    OBVIOUS
  <1>1. RequestTypes
    BY IdleType, SettingsAssumption DEF Init, RequestTypes
  <1>2. AccountTypes
    <2>1. family \in FamilyRow /\ elsewhere = {}
      <3>1. /\ elsewhere = {}
            /\ \/ family = [state |-> "none", purgeAfter |-> None]
               \/ family = [state |-> "active", purgeAfter |-> None]
        BY DEF Init, Fresh, Settled
      <3>. QED  BY <3>1 DEF FamilyRow
    <2>4. token \in [live : BOOLEAN, expiresAt : Nat]
      BY SettingsAssumption DEF Init
    <2>2. CASE Fresh
      BY <2>1, <2>2, <2>4 DEF Fresh, AccountTypes, UniqueAddresses, There, NoRow, ParentRow
    <2>3. CASE Settled
      <3> DEFINE p == CHOOSE q \in Parent : TRUE
                 e == CHOOSE a \in Email : TRUE
      <3>1. parents = [q \in Parent |-> IF q = p THEN NewParent(e, TRUE) ELSE NoRow]
        BY <2>3 DEF Settled
      <3>2. NewParent(e, TRUE) \in ParentRow /\ NoRow \in ParentRow /\ ~NoRow.there
        <4>1. e \in Email
          BY SettingsAssumption
        <4>. HIDE DEF e
        <4>. QED  BY <4>1, NewParentType DEF NoRow, ParentRow
      <3>. HIDE DEF p, e
      <3>3. parents \in [Parent -> ParentRow] /\ There \subseteq {p}
        BY <3>1, <3>2 DEF There
      <3>. QED  BY <2>1, <2>4, <3>3 DEF AccountTypes, UniqueAddresses
    <2>. QED  BY <2>2, <2>3 DEF Init
  <1>3. InvitationTypes /\ MethodTypes /\ SpentInv
    BY DEF Init, InvitationTypes, InvitationRow, MethodTypes, NoMethod, MethodRow, SpentInv
  <1>. QED  BY <1>1, <1>2, <1>3, ExportInit, KeptInit DEF Typed

LEMMA TypedNext ==
  ASSUME Typed, SpentInv, [Next]_vars
  PROVE  Typed' /\ SpentInv'
  BY RequestNext, AccountNext, InvitationNext, MethodNext, ExportNext, KeptNext DEF Typed

LEMMA TypedAlways == Spec => [](Typed /\ SpentInv)
  BY TypedInit, TypedNext, PTL DEF Spec

\* Every reachable state is well typed and no address signs in two parents, however signups,
\* acceptances and changes of address overlap.
THEOREM TypeCorrect == Spec => []TypeOK
  BY TypedAlways, TypedParts, PTL

\* An invitation that was accepted never reads as open again, although a revocation, an
\* expiry and another acceptance write its status by id.
THEOREM InvitationsAreSpent == Spec => []UsedInvitationIsSpent
  <1>1. SpentInv => UsedInvitationIsSpent
    BY DEF SpentInv, UsedInvitationIsSpent
  <1>. QED  BY <1>1, TypedAlways, PTL
===============================================================================
