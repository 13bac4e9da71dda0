------------------------------ MODULE Receiver ------------------------------
(***************************************************************************)
(* The durable work queue of the TSN Receiver (services/tsn-receiver,      *)
(* lib/store.ts): ingress, lease with requeue, authorization attachment    *)
(* and the two reporting transitions.                                      *)
(*                                                                         *)
(* Every write of the store is one Firestore transaction, and one action   *)
(* here.  Everything the store reads OUTSIDE a transaction - the query for *)
(* stale leases, the query for candidates, the look-up of the funding a    *)
(* settlement waits for - is a step of its own, so any other request may   *)
(* commit between such a read and the write that relies on it.             *)
(*                                                                         *)
(* Time is abstracted to the one fact the code asks of it: whether a lease *)
(* has passed its expiresAt.  ExpireLease makes that true at any moment.   *)
(***************************************************************************)
EXTENDS Naturals, FiniteSets

CONSTANTS
  Ref,          \* ids chosen by submitters
  Body,         \* request bodies, told apart by their payload commitment
  Node,         \* TSN Node identities (lease owners of the verification queue)
  Cranker,      \* Cranker operator keys (lease owners of the execution queue)
  Signature,    \* transaction signatures a Cranker may report
  Call,         \* concurrent lease requests being served
  None,         \* null
  ExpiryBound,  \* bound: a lease expires only while stateVersion is below it
  Legacy        \* refs that may be stored since before settlements were pre-created

Owner == Node \cup Cranker

ASSUME ReceiverAssumption ==
  /\ None \notin Owner \cup Signature
  /\ Node \cap Cranker = {}
  /\ ExpiryBound \in Nat
  /\ Legacy \subseteq Ref
  /\ "ingress" \notin Body

ExternalKind == {"AUTHORIZED_FUNDING", "TIN_OPERATION"}
Kind == ExternalKind \cup {"SETTLEMENT"}
NodeVerdict == {"VERIFIED", "REJECTED"}
CrankerOutcome == {"SUBMITTED", "CONFIRMED", "FAILED"}
Status == {"RECEIVED", "NODE_VERIFYING", "CRANKER_LEASED"} \cup NodeVerdict \cup CrankerOutcome

(* A document is named by its submitter's ref; the name of a settlement is *)
(* a hash of its payment's ref and payload commitment.                     *)
WorkId == Ref \X ({"ingress"} \cup Body)
Ingress(r) == <<r, "ingress">>
SettlementOf(r, b) == <<r, b>>
FundingOf(w) == Ingress(w[1])

NoLease == [owner |-> None, version |-> 0, expired |-> FALSE]
Lease == [owner : Owner, version : Nat, expired : BOOLEAN] \cup {NoLease}

VARIABLES
  work,     \* the collection: WorkId -> document, or Absent
  call,     \* the lease requests in progress
  grants,   \* history: every lease a caller was ever told it holds
  acks      \* history: every Cranker report the Receiver ever acknowledged

vars == <<work, call, grants, acks>>

NoVerification == [decision |-> "NONE", lease |-> 0]
NoResult == [signature |-> None, lease |-> 0]

Document ==
  [status : Status, kind : Kind, body : Body, version : Nat,
   nodeLease : Lease, crankerLease : Lease,
   verification : [decision : NodeVerdict \cup {"NONE"}, lease : Nat],
   result : [signature : Signature \cup {None}, lease : Nat],
   authorization : Nat]

Absent == [status |-> "ABSENT"]
Exists(w) == work[w].status # "ABSENT"

NewWork(kind, b) ==
  [status |-> "RECEIVED", kind |-> kind, body |-> b, version |-> 1,
   nodeLease |-> NoLease, crankerLease |-> NoLease,
   verification |-> NoVerification, result |-> NoResult, authorization |-> 0]

IdleCall == [pc |-> "idle", owner |-> None, todo |-> {}, pick |-> None, version |-> 0]
Phase == {"idle", "requeue", "pick", "claim", "authorize"}

Grant == [id : WorkId, owner : Owner, lease : Nat, version : Nat, live : BOOLEAN]
Ack == [id : WorkId, status : CrankerOutcome, signature : Signature \cup {None}]

Init ==
  /\ \E stored \in SUBSET Legacy : \E b \in [stored -> Body] :
       work = [w \in WorkId |-> IF w[1] \in stored /\ w[2] = "ingress"
                                  THEN NewWork("AUTHORIZED_FUNDING", b[w[1]])
                                  ELSE Absent]
  /\ call = [c \in Call |-> IdleCall]
  /\ grants = {}
  /\ acks = {}

-----------------------------------------------------------------------------
(* Ingress.  A conflicting resubmission is refused and an identical one    *)
(* returns the stored work, so neither is a step; the one resubmission     *)
(* that writes is of a payment stored before settlements were pre-created. *)

(* Slip: a resubmission is taken for the stored payment unseen.            *)
ReceiveAnyBody(r, kind, b) ==
  LET settlement == [work EXCEPT ![SettlementOf(r, b)] = NewWork("SETTLEMENT", b)]
      created == IF kind = "AUTHORIZED_FUNDING" THEN settlement ELSE work
  IN /\ kind \in ExternalKind
     /\ \/ /\ ~Exists(Ingress(r))
           /\ work' = [created EXCEPT ![Ingress(r)] = NewWork(kind, b)]
        \/ /\ Exists(Ingress(r))
           /\ kind = "AUTHORIZED_FUNDING"
           /\ ~Exists(SettlementOf(r, b))
           /\ work' = settlement
     /\ UNCHANGED <<call, grants, acks>>

Receive(r, kind, b) ==
  LET settlement == [work EXCEPT ![SettlementOf(r, b)] = NewWork("SETTLEMENT", b)]
      \* the settlement is created in the same transaction as its payment
      created == IF kind = "AUTHORIZED_FUNDING" THEN settlement ELSE work
  IN /\ kind \in ExternalKind
     /\ \/ /\ ~Exists(Ingress(r))
           /\ work' = [created EXCEPT ![Ingress(r)] = NewWork(kind, b)]
        \/ /\ Exists(Ingress(r))
           /\ work[Ingress(r)].body = b
           /\ work[Ingress(r)].kind = kind
           /\ kind = "AUTHORIZED_FUNDING"
           /\ ~Exists(SettlementOf(r, b))
           /\ work' = settlement
     /\ UNCHANGED <<call, grants, acks>>

-----------------------------------------------------------------------------
(* The lease request of lib/store.ts, served in several steps.             *)

QueueOf(o) == IF o \in Node THEN "RECEIVED" ELSE "VERIFIED"
LeasedBy(o) == IF o \in Node THEN "NODE_VERIFYING" ELSE "CRANKER_LEASED"
LeaseOf(o, d) == IF o \in Node THEN d.nodeLease ELSE d.crankerLease
LeaseHeld(lease, o) == lease.owner = o /\ ~lease.expired
WithStatus(s) == {w \in WorkId : work[w].status = s}

(* Slip: abandoned leases are never looked for.                            *)
BeginLeaseAtOnce(c, o) ==
  /\ call[c].pc = "idle"
  /\ call' = [call EXCEPT ![c] =
       [pc |-> "requeue", owner |-> o, pick |-> None, version |-> 0, todo |-> {}]]
  /\ UNCHANGED <<work, grants, acks>>

(* The query for abandoned leases; a row without a lease is skipped.       *)
BeginLease(c, o) ==
  /\ call[c].pc = "idle"
  /\ call' = [call EXCEPT ![c] =
       [pc |-> "requeue", owner |-> o, pick |-> None, version |-> 0,
        todo |-> {w \in WithStatus(LeasedBy(o)) : LeaseOf(o, work[w]) # NoLease}]]
  /\ UNCHANGED <<work, grants, acks>>

(* Slip: the transaction trusts the query's view of the lease.             *)
LeasedWhenQueried(w, o) == work[w].status = LeasedBy(o)

(* One requeue transaction.  A row whose lease still runs is left alone.   *)
(* The transaction looks again, because the row may have been reported,    *)
(* requeued or leased afresh since the query; leases run equally long, so  *)
(* it finds no expired lease where the row it came from had a running one. *)
Requeued(d, o) ==
  [d EXCEPT !.status = QueueOf(o), !.version = d.version + 1,
            !.nodeLease = NoLease, !.crankerLease = NoLease]

StillStale(w, o) ==
  /\ work[w].status = LeasedBy(o)
  /\ LeaseOf(o, work[w]) = NoLease \/ LeaseOf(o, work[w]).expired

RequeueOne(c, w) ==
  LET o == call[c].owner
  IN /\ call[c].pc = "requeue"
     /\ w \in call[c].todo
     /\ work' = IF StillStale(w, o) THEN [work EXCEPT ![w] = Requeued(@, o)] ELSE work
     /\ call' = [call EXCEPT ![c].todo = @ \ {w}]
     /\ UNCHANGED <<grants, acks>>

(* The query for candidates.                                               *)
ScanCandidates(c) ==
  /\ call[c].pc = "requeue"
  /\ call[c].todo = {}
  /\ call' = [call EXCEPT ![c].pc = "pick", ![c].todo = WithStatus(QueueOf(call[c].owner))]
  /\ UNCHANGED <<work, grants, acks>>

(* Settlement waits for its payment's funding to be confirmed on chain;    *)
(* the funding document is read outside the lease transaction.             *)
FundingConfirmed(w) ==
  /\ work[FundingOf(w)].status = "CONFIRMED"
  /\ work[FundingOf(w)].kind = "AUTHORIZED_FUNDING"

Eligible(w) == work[w].kind = "SETTLEMENT" => FundingConfirmed(w)

PickCandidate(c, w) ==
  /\ call[c].pc = "pick"
  /\ w \in call[c].todo
  /\ call' = [call EXCEPT ![c].todo = @ \ {w},
                          ![c].pc = IF Eligible(w) THEN "claim" ELSE "pick",
                          ![c].pick = IF Eligible(w) THEN w ELSE None]
  /\ UNCHANGED <<work, grants, acks>>

NothingToLease(c) ==
  /\ call[c].pc = "pick"
  /\ call[c].todo = {}
  /\ call' = [call EXCEPT ![c] = IdleCall]
  /\ UNCHANGED <<work, grants, acks>>

Leased(d, o) ==
  LET l == [owner |-> o, version |-> d.version + 1, expired |-> FALSE]
  IN [d EXCEPT !.status = LeasedBy(o), !.version = d.version + 1,
               !.nodeLease = IF o \in Node THEN l ELSE d.nodeLease,
               !.crankerLease = IF o \in Node THEN d.crankerLease ELSE l]

Told(w, o, lease, version) ==
  [id |-> w, owner |-> o, lease |-> lease, version |-> version, live |-> TRUE]

(* Slip: the lease transaction does not look at the status again.          *)
ClaimUnchecked(c) ==
  LET o == call[c].owner
      w == call[c].pick
      v == work[w].version + 1
      needsAuthorization == o \in Cranker /\ work[w].kind = "SETTLEMENT"
  IN /\ call[c].pc = "claim"
     /\ work' = [work EXCEPT ![w] = Leased(@, o)]
     /\ IF needsAuthorization
          THEN /\ call' = [call EXCEPT ![c].pc = "authorize", ![c].version = v]
               /\ UNCHANGED grants
          ELSE /\ call' = [call EXCEPT ![c] = IdleCall]
               /\ grants' = grants \cup {Told(w, o, v, v)}
     /\ UNCHANGED acks

(* The lease transaction.  A Cranker's settlement lease is not answered    *)
(* yet: the route first obtains the Node's authorization for it.           *)
Claim(c) ==
  LET o == call[c].owner
      w == call[c].pick
      v == work[w].version + 1
      needsAuthorization == o \in Cranker /\ work[w].kind = "SETTLEMENT"
  IN /\ call[c].pc = "claim"
     /\ IF work[w].status = QueueOf(o)
          THEN /\ work' = [work EXCEPT ![w] = Leased(@, o)]
               /\ IF needsAuthorization
                    THEN /\ call' = [call EXCEPT ![c].pc = "authorize", ![c].version = v]
                         /\ UNCHANGED grants
                    ELSE /\ call' = [call EXCEPT ![c] = IdleCall]
                         /\ grants' = grants \cup {Told(w, o, v, v)}
          ELSE /\ call' = [call EXCEPT ![c].pc = "pick", ![c].pick = None]
               /\ UNCHANGED <<work, grants>>
     /\ UNCHANGED acks

Authorized(d, v) == [d EXCEPT !.authorization = v, !.version = d.version + 1]

(* Slip: the authorization's lease version is not compared.                *)
AttachAnyAuthorization(c) ==
  LET o == call[c].owner
      w == call[c].pick
      d == work[w]
  IN /\ call[c].pc = "authorize"
     /\ \E v \in 1..d.version : work' = [work EXCEPT ![w] = Authorized(@, v)]
     /\ d.status = "CRANKER_LEASED"
     /\ LeaseHeld(d.crankerLease, o)
     /\ d.version = call[c].version
     /\ grants' = grants \cup {Told(w, o, d.crankerLease.version, d.version + 1)}
     /\ call' = [call EXCEPT ![c] = IdleCall]
     /\ UNCHANGED acks

(* The Node answered with an authorization bound to lease version v, of    *)
(* the lease it saw or of an earlier one.                                  *)
AttachAuthorization(c) ==
  LET o == call[c].owner
      w == call[c].pick
      d == work[w]
  IN /\ call[c].pc = "authorize"
     /\ \E v \in 1..d.version :
          /\ v = d.crankerLease.version
          /\ work' = [work EXCEPT ![w] = Authorized(@, v)]
     /\ d.status = "CRANKER_LEASED"
     /\ LeaseHeld(d.crankerLease, o)
     /\ d.version = call[c].version
     /\ grants' = grants \cup {Told(w, o, d.crankerLease.version, d.version + 1)}
     /\ call' = [call EXCEPT ![c] = IdleCall]
     /\ UNCHANGED acks

(* The Node refused or was unreachable, or the attachment was refused: the *)
(* route answers with an error and the lease stays until it expires.       *)
AuthorizationFails(c) ==
  /\ call[c].pc = "authorize"
  /\ call' = [call EXCEPT ![c] = IdleCall]
  /\ UNCHANGED <<work, grants, acks>>

-----------------------------------------------------------------------------
(* Reports.  The caller quotes the stateVersion of some lease it was given *)
(* - possibly an old one, possibly after its lease was taken away.         *)

Retire(g) == (grants \ {g}) \cup {[g EXCEPT !.live = FALSE]}

Judged(d, verdict, lease) ==
  [d EXCEPT !.status = verdict, !.version = d.version + 1, !.nodeLease = NoLease,
            !.verification = [decision |-> verdict, lease |-> lease]]

(* The attestation is bound to the work, the decision and the lease.       *)
NodeReport(g, verdict) ==
  LET d == work[g.id]
  IN /\ g \in grants /\ g.owner \in Node
     /\ LeaseHeld(d.nodeLease, g.owner)
     /\ d.version = g.version
     /\ d.nodeLease.version = g.lease
     /\ work' = [work EXCEPT ![g.id] = Judged(@, verdict, g.lease)]
     /\ grants' = Retire(g)
     /\ UNCHANGED <<call, acks>>

(* A payout authorization is dropped with the settlement it was for.       *)
Reported(d, outcome, sig, lease) ==
  [d EXCEPT !.status = outcome, !.version = d.version + 1, !.crankerLease = NoLease,
            !.result = [signature |-> sig, lease |-> lease],
            !.authorization = IF outcome = "CONFIRMED" /\ d.kind = "SETTLEMENT"
                                THEN 0 ELSE d.authorization]

(* Slip: any repeated outcome is acknowledged, whatever its signature.     *)
IsSameOutcome(d, outcome, sig) == d.status = outcome

(* A report may be repeated when its answer was lost: the same outcome     *)
(* with the same signature is acknowledged without a lease.                *)
IsReplay(d, outcome, sig) ==
  d.status = outcome /\ d.result.signature # None /\ d.result.signature = sig

(* Slip: the caller's stateVersion is not compared.                        *)
CrankerReportAnyVersion(g, outcome, sig) ==
  LET d == work[g.id]
      ack == [id |-> g.id, status |-> outcome, signature |-> sig]
  IN /\ g \in grants /\ g.owner \in Cranker
     /\ IF IsReplay(d, outcome, sig)
          THEN UNCHANGED <<work, grants>>
          ELSE /\ LeaseHeld(d.crankerLease, g.owner)
               /\ work' = [work EXCEPT ![g.id] = Reported(@, outcome, sig, g.lease)]
               /\ grants' = Retire(g)
     /\ acks' = acks \cup {ack}
     /\ UNCHANGED call

CrankerReport(g, outcome, sig) ==
  LET d == work[g.id]
      ack == [id |-> g.id, status |-> outcome, signature |-> sig]
  IN /\ g \in grants /\ g.owner \in Cranker
     /\ IF IsReplay(d, outcome, sig)
          THEN UNCHANGED <<work, grants>>
          ELSE /\ LeaseHeld(d.crankerLease, g.owner)
               /\ d.version = g.version
               /\ work' = [work EXCEPT ![g.id] = Reported(@, outcome, sig, g.lease)]
               /\ grants' = Retire(g)
     /\ acks' = acks \cup {ack}
     /\ UNCHANGED call

(* A lease passes its expiresAt.                                           *)
Expired(l) == IF l = NoLease THEN l ELSE [l EXCEPT !.expired = TRUE]
LeasePassed(d) ==
  [d EXCEPT !.nodeLease = Expired(d.nodeLease), !.crankerLease = Expired(d.crankerLease)]

ExpireLease(w) ==
  /\ work[w].status \in {"NODE_VERIFYING", "CRANKER_LEASED"}
  /\ work[w].version < ExpiryBound
  /\ work' = [work EXCEPT ![w] = LeasePassed(@)]
  /\ grants' = {IF g.id = w THEN [g EXCEPT !.live = FALSE] ELSE g : g \in grants}
  /\ UNCHANGED <<call, acks>>

-----------------------------------------------------------------------------
ServeLease(c) ==
  \/ \E o \in Owner : BeginLease(c, o)
  \/ \E w \in call[c].todo : RequeueOne(c, w)
  \/ ScanCandidates(c)
  \/ \E w \in call[c].todo : PickCandidate(c, w)
  \/ NothingToLease(c)
  \/ Claim(c)
  \/ AttachAuthorization(c)
  \/ AuthorizationFails(c)

Next ==
  \/ \E r \in Ref, kind \in Kind, b \in Body : Receive(r, kind, b)
  \/ \E c \in Call : ServeLease(c)
  \/ \E g \in grants, verdict \in NodeVerdict : NodeReport(g, verdict)
  \/ \E g \in grants, outcome \in CrankerOutcome, sig \in Signature \cup {None} :
       CrankerReport(g, outcome, sig)
  \/ \E w \in WorkId : ExpireLease(w)

Spec == Init /\ [][Next]_vars

-----------------------------------------------------------------------------
(* Properties                                                              *)

(* The documents, requests and histories have the shapes the code writes.  *)
TypeOK ==
  /\ work \in [WorkId -> Document \cup {Absent}]
  /\ call \in [Call -> [pc : Phase, owner : Owner \cup {None}, todo : SUBSET WorkId,
                        pick : WorkId \cup {None}, version : Nat]]
  /\ grants \subseteq Grant
  /\ acks \subseteq Ack

(* A document carries a lease exactly while its status says it is leased,  *)
(* and never two: what requeue and the reports rely on when they clear it. *)
LeaseMatchesStatus ==
  \A w \in WorkId : Exists(w) =>
    /\ work[w].nodeLease # NoLease <=> work[w].status = "NODE_VERIFYING"
    /\ work[w].crankerLease # NoLease <=> work[w].status = "CRANKER_LEASED"

(* No two workers ever hold the same work at the same time: whoever was    *)
(* told it holds a lease, and whose lease has not run out, still holds it  *)
(* in the store.  The requeue and claim transactions work from stale       *)
(* queries and must not take running leases away.                          *)
HolderExclusive ==
  \A g \in grants : g.live =>
    /\ work[g.id].status = LeasedBy(g.owner)
    /\ LeaseOf(g.owner, work[g.id]) = [owner |-> g.owner, version |-> g.lease, expired |-> FALSE]
    /\ work[g.id].version = g.version

(* Nobody touches a settlement before its payment's funding is confirmed,  *)
(* though the check is made outside the transaction that leases it.        *)
SettlementAfterFunding ==
  \A w \in WorkId :
    Exists(w) /\ work[w].kind = "SETTLEMENT" /\ work[w].status # "RECEIVED" => FundingConfirmed(w)

(* A payment has at most one settlement, whatever is submitted again under *)
(* its id: a second one would pay the recipient twice.                     *)
OneSettlementPerPayment ==
  \A r \in Ref, b \in Body : Exists(SettlementOf(r, b)) =>
    /\ Exists(Ingress(r))
    /\ work[Ingress(r)].kind = "AUTHORIZED_FUNDING"
    /\ work[Ingress(r)].body = b

(* A Cranker only ever executes what a Node accepted, and what a Node      *)
(* rejected never leaves that state.                                       *)
AttestedBeforeExecution ==
  \A w \in WorkId : Exists(w) =>
    CASE work[w].status \in {"RECEIVED", "NODE_VERIFYING"} -> work[w].verification = NoVerification
      [] work[w].status = "REJECTED" -> work[w].verification.decision = "REJECTED"
      [] OTHER -> work[w].verification.decision = "VERIFIED"

(* A Cranker that holds a settlement was handed the authorization of this  *)
(* very lease, never one left behind by an earlier holder.                 *)
AuthorizationFresh ==
  \A g \in grants :
    g.live /\ g.owner \in Cranker /\ work[g.id].kind = "SETTLEMENT" =>
      work[g.id].authorization = g.lease

(* An acknowledged report is what the record says, for ever after, also    *)
(* when the acknowledgement answered a repeated report.                    *)
AckedReportsStand ==
  \A a \in acks : work[a.id].status = a.status /\ work[a.id].result.signature = a.signature

(* Finished work is never reopened or rewritten, by a late report, a late  *)
(* requeue or a resubmission.                                              *)
Finished == {"REJECTED"} \cup CrankerOutcome
FinishedStays ==
  [][\A w \in WorkId : work[w].status \in Finished => work'[w] = work[w]]_vars

(* Every outcome comes from the holder of the lease that is running when   *)
(* it is recorded, not from an earlier lease of the same owner.            *)
OutcomeOfRunningLease ==
  [][\A w \in WorkId : Exists(w) =>
       /\ work'[w].result # work[w].result =>
            work'[w].result.lease = work[w].crankerLease.version /\ ~work[w].crankerLease.expired
       /\ work'[w].verification # work[w].verification =>
            work'[w].verification.lease = work[w].nodeLease.version /\ ~work[w].nodeLease.expired]_vars

(* stateVersion identifies a state of the document: whatever is written,   *)
(* it grows, so quoting it fences off every older view.                    *)
Written(d) == <<d.status, d.verification, d.result, d.authorization,
                d.nodeLease.version, d.crankerLease.version>>
VersionFences ==
  [][\A w \in WorkId : Exists(w) /\ Written(work'[w]) # Written(work[w]) =>
       work'[w].version > work[w].version]_vars

-----------------------------------------------------------------------------
(* The inductive invariant.  What the listed properties need besides       *)
(* themselves: which documents are settlements, what a request in progress *)
(* may rely on after its reads, and what an old grant can still do.        *)

KindsMatch ==
  \A w \in WorkId : Exists(w) => (work[w].kind = "SETTLEMENT" <=> w[2] # "ingress")

CallsCoherent ==
  \A c \in Call :
    /\ call[c].pc # "idle" => call[c].owner \in Owner
    /\ \A w \in call[c].todo : Exists(w)
    /\ call[c].pc \in {"claim", "authorize"} =>
         call[c].pick \in WorkId /\ Exists(call[c].pick) /\ Eligible(call[c].pick)
    /\ call[c].pc = "authorize" =>
         /\ call[c].owner \in Cranker
         /\ work[call[c].pick].kind = "SETTLEMENT"
         /\ call[c].version <= work[call[c].pick].version
         /\ call[c].version = work[call[c].pick].version =>
              call[c].version = work[call[c].pick].crankerLease.version

GrantsCoherent ==
  \A g \in grants :
    /\ Exists(g.id)
    /\ g.version <= work[g.id].version
    /\ ~g.live /\ g.version = work[g.id].version =>
         ~LeaseHeld(LeaseOf(g.owner, work[g.id]), g.owner)
    /\ g.owner \in Cranker /\ work[g.id].kind = "SETTLEMENT" => g.lease < g.version

IInv ==
  /\ TypeOK
  /\ KindsMatch
  /\ LeaseMatchesStatus
  /\ AttestedBeforeExecution
  /\ SettlementAfterFunding
  /\ OneSettlementPerPayment
  /\ AckedReportsStand
  /\ CallsCoherent
  /\ GrantsCoherent
  /\ HolderExclusive
  /\ AuthorizationFresh
=============================================================================
