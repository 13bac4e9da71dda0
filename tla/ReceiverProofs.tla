--------------------------- MODULE ReceiverProofs ---------------------------
(***************************************************************************)
(* Proofs about the Receiver's queue and about the pipeline of workers     *)
(* that drains it, for any number of payments, bodies, Nodes, Crankers,    *)
(* requests, expiries, nonces and faults.  The first part is about the     *)
(* queue alone.  The second shows that the steps of the pipeline are steps *)
(* of the queue, so all that the first part shows holds of it as well, and *)
(* goes on to what the workers and the chain add.                          *)
(***************************************************************************)
EXTENDS ReceiverLifecycle, Pipeline, TLAPS

-----------------------------------------------------------------------------
(* What each write does to a document, field by field.                     *)

(* A stored document is one that is not absent.                            *)
LEMMA StoredDocument ==
  ASSUME NEW d \in Document \cup {Absent}
  PROVE  d.status # "ABSENT" <=> d \in Document
  BY DEF Document, Absent, Status, NodeVerdict, CrankerOutcome

LEMMA NoLeaseFacts ==
  /\ NoLease \in Lease
  /\ NoLease.version = 0 /\ NoLease.expired = FALSE /\ NoLease.owner = None
  /\ \A o \in Owner : ~LeaseHeld(NoLease, o)
  BY ReceiverAssumption DEF NoLease, Lease, LeaseHeld, Owner

LEMMA NewWorkDocument ==
  ASSUME NEW kind \in Kind, NEW b \in Body
  PROVE  /\ NewWork(kind, b) \in Document
         /\ NewWork(kind, b).status = "RECEIVED"
         /\ NewWork(kind, b).kind = kind /\ NewWork(kind, b).body = b
         /\ NewWork(kind, b).version = 1
         /\ NewWork(kind, b).nodeLease = NoLease /\ NewWork(kind, b).crankerLease = NoLease
         /\ NewWork(kind, b).verification = NoVerification
         /\ NewWork(kind, b).result = NoResult
  BY NoLeaseFacts DEF NewWork, Document, Status, NoVerification, NoResult, NodeVerdict

LEMMA RequeuedDocument ==
  ASSUME NEW d \in Document, NEW o \in Owner
  PROVE  LET e == Requeued(d, o) IN
         /\ e \in Document
         /\ e.status = QueueOf(o) /\ e.version = d.version + 1
         /\ e.nodeLease = NoLease /\ e.crankerLease = NoLease
         /\ e.kind = d.kind /\ e.body = d.body /\ e.result = d.result
         /\ e.verification = d.verification /\ e.authorization = d.authorization
  <1>1. d.version + 1 \in Nat
    BY DEF Document
  <1> QED
    BY <1>1, NoLeaseFacts DEF Requeued, Document, QueueOf, Status, NodeVerdict

LEMMA LeasedDocument ==
  ASSUME NEW d \in Document, NEW o \in Owner
  PROVE  LET e == Leased(d, o)
             l == [owner |-> o, version |-> d.version + 1, expired |-> FALSE] IN
         /\ e \in Document
         /\ l \in Lease
         /\ e.status = LeasedBy(o) /\ e.version = d.version + 1
         /\ LeaseOf(o, e) = l
         /\ e.nodeLease = IF o \in Node THEN l ELSE d.nodeLease
         /\ e.crankerLease = IF o \in Node THEN d.crankerLease ELSE l
         /\ e.kind = d.kind /\ e.body = d.body /\ e.result = d.result
         /\ e.verification = d.verification /\ e.authorization = d.authorization
  <1> DEFINE l == [owner |-> o, version |-> d.version + 1, expired |-> FALSE]
  <1>1. d.version + 1 \in Nat
    BY DEF Document
  <1>2. l \in Lease
    BY <1>1 DEF Lease
  <1> QED
    BY <1>1, <1>2 DEF Leased, Document, LeasedBy, LeaseOf, Status

LEMMA CrankerLeasedDocument ==
  ASSUME NEW d \in Document, NEW o, o \notin Node
  PROVE  /\ Leased(d, o).version = d.version + 1 /\ Leased(d, o).kind = d.kind
         /\ Leased(d, o).crankerLease.version = d.version + 1
  BY DEF Leased, Document

LEMMA AuthorizedDocument ==
  ASSUME NEW d \in Document, NEW v \in Nat
  PROVE  LET e == Authorized(d, v) IN
         /\ e \in Document
         /\ e.authorization = v /\ e.version = d.version + 1
         /\ e.status = d.status /\ e.nodeLease = d.nodeLease /\ e.crankerLease = d.crankerLease
         /\ e.kind = d.kind /\ e.body = d.body /\ e.result = d.result
         /\ e.verification = d.verification
  <1>1. d.version + 1 \in Nat
    BY DEF Document
  <1> QED
    BY <1>1 DEF Authorized, Document

LEMMA JudgedDocument ==
  ASSUME NEW d \in Document, NEW verdict \in NodeVerdict, NEW v \in Nat
  PROVE  LET e == Judged(d, verdict, v) IN
         /\ e \in Document
         /\ e.status = verdict /\ e.version = d.version + 1
         /\ e.verification = [decision |-> verdict, lease |-> v]
         /\ e.nodeLease = NoLease /\ e.crankerLease = d.crankerLease
         /\ e.kind = d.kind /\ e.body = d.body /\ e.result = d.result
         /\ e.authorization = d.authorization
  <1>1. d.version + 1 \in Nat
    BY DEF Document
  <1> QED
    BY <1>1, NoLeaseFacts DEF Judged, Document, Status

LEMMA ReportedDocument ==
  ASSUME NEW d \in Document, NEW outcome \in CrankerOutcome,
         NEW sig \in Signature \cup {None}, NEW v \in Nat
  PROVE  LET e == Reported(d, outcome, sig, v) IN
         /\ e \in Document
         /\ e.status = outcome /\ e.version = d.version + 1
         /\ e.result = [signature |-> sig, lease |-> v]
         /\ e.nodeLease = d.nodeLease /\ e.crankerLease = NoLease
         /\ e.kind = d.kind /\ e.body = d.body /\ e.verification = d.verification
  <1>1. d.version + 1 \in Nat
    BY DEF Document
  <1> QED
    BY <1>1, NoLeaseFacts DEF Reported, Document, Status

LEMMA ExpiredLease ==
  ASSUME NEW l \in Lease
  PROVE  /\ Expired(l) \in Lease
         /\ Expired(l) = NoLease <=> l = NoLease
         /\ Expired(l).owner = l.owner /\ Expired(l).version = l.version
         /\ \A o \in Owner : ~LeaseHeld(Expired(l), o)
  <1>1. CASE l = NoLease
    BY <1>1, NoLeaseFacts DEF Expired
  <1>2. CASE l # NoLease
    <2>1. l \in [owner : Owner, version : Nat, expired : BOOLEAN]
      BY <1>2 DEF Lease
    <2>2. Expired(l) = [owner |-> l.owner, version |-> l.version, expired |-> TRUE]
      BY <1>2, <2>1 DEF Expired
    <2> QED
      BY <1>2, <2>1, <2>2, NoLeaseFacts DEF Lease, LeaseHeld
  <1> QED
    BY <1>1, <1>2

LEMMA LeasePassedDocument ==
  ASSUME NEW d \in Document
  PROVE  LET e == LeasePassed(d) IN
         /\ e \in Document
         /\ e.nodeLease = Expired(d.nodeLease) /\ e.crankerLease = Expired(d.crankerLease)
         /\ e.status = d.status /\ e.version = d.version /\ e.authorization = d.authorization
         /\ e.kind = d.kind /\ e.body = d.body /\ e.result = d.result
         /\ e.verification = d.verification
  <1>1. Expired(d.nodeLease) \in Lease /\ Expired(d.crankerLease) \in Lease
    BY ExpiredLease DEF Document
  <1> QED
    BY <1>1 DEF LeasePassed, Document

-----------------------------------------------------------------------------
(* The shape of every step.                                                *)

(* The invariants that speak of one document.                              *)
Sound(d) ==
  /\ d.nodeLease # NoLease <=> d.status = "NODE_VERIFYING"
  /\ d.crankerLease # NoLease <=> d.status = "CRANKER_LEASED"
  /\ CASE d.status \in {"RECEIVED", "NODE_VERIFYING"} -> d.verification = NoVerification
       [] d.status = "REJECTED" -> d.verification.decision = "REJECTED"
       [] OTHER -> d.verification.decision = "VERIFIED"

(* What any write does to a stored document.                               *)
Evolves(d, e) ==
  /\ d.status \notin Finished
  /\ e.status # "ABSENT" /\ e.kind = d.kind /\ e.body = d.body
  /\ \/ e.version = d.version + 1
     \/ /\ e.version = d.version /\ e.crankerLease.version = d.crankerLease.version
        /\ Written(e) = Written(d)
  /\ e.result # d.result =>
       e.result.lease = d.crankerLease.version /\ ~d.crankerLease.expired
  /\ e.verification # d.verification =>
       e.verification.lease = d.nodeLease.version /\ ~d.nodeLease.expired

Writes(w, e) ==
  /\ w \in WorkId /\ Exists(w) /\ work[w] \in Document
  /\ e \in Document /\ Sound(e) /\ Evolves(work[w], e)
  /\ work' = [work EXCEPT ![w] = e]
  /\ Eligible(w)

LEMMA SoundDocuments ==
  ASSUME LeaseMatchesStatus, AttestedBeforeExecution, TypeOK,
         NEW w \in WorkId, Exists(w)
  PROVE  Sound(work[w]) /\ work[w] \in Document
  <1>1. work[w] \in Document
    BY StoredDocument DEF TypeOK, Exists
  <1>2. Sound(work[w])
    BY DEF LeaseMatchesStatus, AttestedBeforeExecution, Sound
  <1> QED
    BY <1>1, <1>2

(* Work past RECEIVED was eligible, so it still is.                        *)
LEMMA StillEligible ==
  ASSUME SettlementAfterFunding, NEW w \in WorkId, Exists(w), work[w].status # "RECEIVED"
  PROVE  Eligible(w)
  BY DEF SettlementAfterFunding, Eligible

LEMMA RequeueWrites ==
  ASSUME IInv, NEW c \in Call, NEW w \in call[c].todo, RequeueOne(c, w)
  PROVE  \/ work' = work
         \/ /\ Writes(w, Requeued(work[w], call[c].owner))
            /\ StillStale(w, call[c].owner)
  <1> DEFINE o == call[c].owner
             e == Requeued(work[w], o)
  <1>1. o \in Owner /\ w \in WorkId /\ Exists(w)
    BY DEF IInv, TypeOK, CallsCoherent, RequeueOne
  <1>2. Sound(work[w]) /\ work[w] \in Document
    BY <1>1, SoundDocuments DEF IInv
  <1>3. CASE ~StillStale(w, o)
    BY <1>3 DEF RequeueOne
  <1>4. CASE StillStale(w, o)
    <2>1. work' = [work EXCEPT ![w] = e]
      BY <1>4 DEF RequeueOne
    <2>2. work[w].status = LeasedBy(o)
      BY <1>4 DEF StillStale
    <2>3. Eligible(w)
      BY <1>1, <2>2, StillEligible DEF IInv, LeasedBy
    <2>4. /\ e \in Document
          /\ e.status = QueueOf(o) /\ e.version = work[w].version + 1
          /\ e.nodeLease = NoLease /\ e.crankerLease = NoLease
          /\ e.kind = work[w].kind /\ e.body = work[w].body
          /\ e.verification = work[w].verification /\ e.result = work[w].result
      BY <1>1, <1>2, RequeuedDocument
    <2>5. Sound(e)
      BY <1>1, <1>2, <2>2, <2>4 DEF Sound, QueueOf, LeasedBy
    <2>6. Evolves(work[w], e)
      BY <2>2, <2>4 DEF Evolves, Finished, CrankerOutcome, LeasedBy, QueueOf
    <2> QED
      BY <1>1, <1>2, <1>4, <2>1, <2>3, <2>4, <2>5, <2>6 DEF Writes
  <1> QED
    BY <1>3, <1>4

LEMMA ClaimWrites ==
  ASSUME IInv, NEW c \in Call, Claim(c)
  PROVE  \/ work' = work
         \/ /\ Writes(call[c].pick, Leased(work[call[c].pick], call[c].owner))
            /\ work[call[c].pick].status = QueueOf(call[c].owner)
  <1> DEFINE o == call[c].owner
             w == call[c].pick
             e == Leased(work[w], o)
  <1>1. o \in Owner /\ w \in WorkId /\ Exists(w) /\ Eligible(w)
    BY DEF IInv, TypeOK, CallsCoherent, Claim
  <1>2. Sound(work[w]) /\ work[w] \in Document
    BY <1>1, SoundDocuments DEF IInv
  <1>3. CASE work[w].status # QueueOf(o)
    BY <1>3 DEF Claim
  <1>4. CASE work[w].status = QueueOf(o)
    <2>1. work' = [work EXCEPT ![w] = e]
      BY <1>4 DEF Claim
    <2> DEFINE l == [owner |-> o, version |-> work[w].version + 1, expired |-> FALSE]
    <2>2. /\ e \in Document /\ l \in Lease
          /\ e.status = LeasedBy(o) /\ e.version = work[w].version + 1
          /\ e.nodeLease = IF o \in Node THEN l ELSE work[w].nodeLease
          /\ e.crankerLease = IF o \in Node THEN work[w].crankerLease ELSE l
          /\ e.kind = work[w].kind /\ e.body = work[w].body
          /\ e.verification = work[w].verification /\ e.result = work[w].result
      BY <1>1, <1>2, LeasedDocument
    <2>3. l # NoLease
      <3>1. l.owner = o /\ NoLease.owner = None /\ o # None
        BY <1>1, NoLeaseFacts, ReceiverAssumption
      <3> QED
        BY <3>1
    <2>4. Sound(e)
      BY <1>2, <1>4, <2>2, <2>3 DEF Sound, QueueOf, LeasedBy
    <2>5. Evolves(work[w], e)
      BY <1>4, <2>2 DEF Evolves, Finished, CrankerOutcome, LeasedBy, QueueOf
    <2> QED
      BY <1>1, <1>2, <1>4, <2>1, <2>2, <2>4, <2>5 DEF Writes
  <1> QED
    BY <1>3, <1>4

LEMMA AttachWrites ==
  ASSUME IInv, NEW c \in Call, AttachAuthorization(c)
  PROVE  LET w == call[c].pick IN
         /\ Writes(w, Authorized(work[w], work[w].crankerLease.version))
         /\ work[w].status = "CRANKER_LEASED" /\ call[c].owner \in Cranker
         /\ LeaseHeld(work[w].crankerLease, call[c].owner)
         /\ work[w].crankerLease.version = call[c].version
         /\ work[w].version = call[c].version
         /\ work[w].kind = "SETTLEMENT"
  <1> DEFINE w == call[c].pick
             v == work[w].crankerLease.version
             e == Authorized(work[w], v)
  <1>1. /\ call[c].owner \in Cranker /\ w \in WorkId /\ Exists(w)
        /\ work[w].kind = "SETTLEMENT"
        /\ call[c].version = work[w].version =>
              call[c].version = work[w].crankerLease.version
    BY DEF IInv, TypeOK, CallsCoherent, AttachAuthorization
  <1>2. Sound(work[w]) /\ work[w] \in Document
    BY <1>1, SoundDocuments DEF IInv
  <1>3. /\ work[w].status = "CRANKER_LEASED"
        /\ LeaseHeld(work[w].crankerLease, call[c].owner)
        /\ work[w].version = call[c].version
        /\ work' = [work EXCEPT ![w] = e]
    BY DEF AttachAuthorization
  <1>4. v \in Nat
    BY <1>1, <1>2, <1>3 DEF Document
  <1>5. /\ e \in Document
        /\ e.version = work[w].version + 1
        /\ e.status = work[w].status
        /\ e.nodeLease = work[w].nodeLease /\ e.crankerLease = work[w].crankerLease
        /\ e.kind = work[w].kind /\ e.body = work[w].body
        /\ e.verification = work[w].verification /\ e.result = work[w].result
    BY <1>2, <1>4, AuthorizedDocument
  <1>6. Eligible(w)
    BY <1>1, <1>3, StillEligible DEF IInv
  <1>7. Sound(e)
    BY <1>2, <1>5 DEF Sound
  <1>8. Evolves(work[w], e)
    BY <1>3, <1>5 DEF Evolves, Finished, CrankerOutcome
  <1> QED
    BY <1>1, <1>2, <1>3, <1>5, <1>6, <1>7, <1>8 DEF Writes

LEMMA NodeReportWrites ==
  ASSUME IInv, NEW g \in grants, NEW verdict \in NodeVerdict, NodeReport(g, verdict)
  PROVE  /\ Writes(g.id, Judged(work[g.id], verdict, g.lease))
         /\ g \in Grant /\ g.live /\ g.owner \in Node
         /\ work[g.id].status = "NODE_VERIFYING"
         /\ LeaseHeld(work[g.id].nodeLease, g.owner)
         /\ work[g.id].nodeLease.version = g.lease
         /\ work[g.id].version = g.version
  <1> DEFINE d == work[g.id]
             e == Judged(d, verdict, g.lease)
  <1>1. /\ g \in Grant /\ g.id \in WorkId /\ Exists(g.id)
        /\ g.owner \in Node /\ g.owner \in Owner /\ g.lease \in Nat
    BY DEF IInv, TypeOK, GrantsCoherent, NodeReport, Grant
  <1>2. Sound(d) /\ d \in Document
    BY <1>1, SoundDocuments DEF IInv
  <1>3. /\ LeaseHeld(d.nodeLease, g.owner)
        /\ d.version = g.version
        /\ d.nodeLease.version = g.lease
        /\ work' = [work EXCEPT ![g.id] = e]
    BY DEF NodeReport
  <1>4. g.live
    BY <1>1, <1>3 DEF IInv, GrantsCoherent, LeaseOf, Grant
  <1>5. d.status = "NODE_VERIFYING"
    BY <1>1, <1>2, <1>3, NoLeaseFacts DEF Sound
  <1>6. /\ e \in Document
        /\ e.status = verdict /\ e.version = d.version + 1
        /\ e.verification = [decision |-> verdict, lease |-> g.lease]
        /\ e.nodeLease = NoLease /\ e.crankerLease = d.crankerLease
        /\ e.kind = d.kind /\ e.body = d.body /\ e.result = d.result
    BY <1>1, <1>2, JudgedDocument
  <1>7. Eligible(g.id)
    BY <1>1, <1>5, StillEligible DEF IInv
  <1>8. Sound(e)
    BY <1>2, <1>5, <1>6 DEF Sound, NodeVerdict
  <1>9. Evolves(d, e)
    BY <1>3, <1>5, <1>6 DEF Evolves, Finished, CrankerOutcome, NodeVerdict, LeaseHeld
  <1> QED
    BY <1>1, <1>2, <1>3, <1>4, <1>5, <1>6, <1>7, <1>8, <1>9 DEF Writes

LEMMA CrankerReportWrites ==
  ASSUME IInv, NEW g \in grants, NEW outcome \in CrankerOutcome,
         NEW sig \in Signature \cup {None}, CrankerReport(g, outcome, sig)
  PROVE  /\ g \in Grant
         /\ \/ work' = work /\ grants' = grants /\ IsReplay(work[g.id], outcome, sig)
            \/ /\ Writes(g.id, Reported(work[g.id], outcome, sig, g.lease))
               /\ grants' = Retire(g)
               /\ g.live /\ g.owner \in Cranker
               /\ work[g.id].status = "CRANKER_LEASED"
               /\ LeaseHeld(work[g.id].crankerLease, g.owner)
               /\ work[g.id].crankerLease.version = g.lease
               /\ work[g.id].version = g.version
  <1> DEFINE d == work[g.id]
             e == Reported(d, outcome, sig, g.lease)
  <1>1. /\ g \in Grant /\ g.id \in WorkId /\ Exists(g.id)
        /\ g.owner \in Cranker /\ g.owner \in Owner /\ g.owner \notin Node /\ g.lease \in Nat
    BY ReceiverAssumption DEF IInv, TypeOK, GrantsCoherent, CrankerReport, Grant, Owner
  <1>2. Sound(d) /\ d \in Document
    BY <1>1, SoundDocuments DEF IInv
  <1>3. CASE IsReplay(d, outcome, sig)
    BY <1>1, <1>3 DEF CrankerReport
  <1>4. CASE ~IsReplay(d, outcome, sig)
    <2>1. /\ LeaseHeld(d.crankerLease, g.owner)
          /\ d.version = g.version
          /\ work' = [work EXCEPT ![g.id] = e]
          /\ grants' = Retire(g)
      BY <1>4 DEF CrankerReport
    <2>2. g.live
      BY <1>1, <2>1 DEF IInv, GrantsCoherent, LeaseOf, Grant
    <2>3. d.crankerLease.version = g.lease
      <3>1. LeaseOf(g.owner, d) = [owner |-> g.owner, version |-> g.lease, expired |-> FALSE]
        BY <2>2 DEF IInv, HolderExclusive
      <3> QED
        BY <1>1, <3>1 DEF LeaseOf
    <2>4. d.status = "CRANKER_LEASED"
      BY <1>1, <1>2, <2>1, NoLeaseFacts DEF Sound
    <2>5. /\ e \in Document
          /\ e.status = outcome /\ e.version = d.version + 1
          /\ e.nodeLease = d.nodeLease /\ e.crankerLease = NoLease
          /\ e.kind = d.kind /\ e.body = d.body /\ e.verification = d.verification
          /\ e.result = [signature |-> sig, lease |-> g.lease]
      <3>1. d.version + 1 \in Nat
        BY <1>2 DEF Document
      <3> QED
        BY <1>1, <1>2, <3>1, NoLeaseFacts DEF Reported, Document, Status
    <2>6. Eligible(g.id)
      BY <1>1, <2>4, StillEligible DEF IInv
    <2>7. Sound(e)
      BY <1>2, <2>4, <2>5 DEF Sound, CrankerOutcome
    <2>8. Evolves(d, e)
      BY <2>1, <2>3, <2>4, <2>5 DEF Evolves, Finished, CrankerOutcome, LeaseHeld
    <2> QED
      BY <1>1, <1>2, <2>1, <2>2, <2>3, <2>4, <2>5, <2>6, <2>7, <2>8 DEF Writes
  <1> QED
    BY <1>3, <1>4

LEMMA ExpireWrites ==
  ASSUME IInv, NEW w \in WorkId, ExpireLease(w)
  PROVE  Writes(w, LeasePassed(work[w]))
  <1> DEFINE d == work[w]
             e == LeasePassed(d)
  <1>1. d.status \in {"NODE_VERIFYING", "CRANKER_LEASED"} /\ work' = [work EXCEPT ![w] = e]
    BY DEF ExpireLease
  <1>2. Exists(w)
    BY <1>1 DEF Exists
  <1>3. Sound(d) /\ d \in Document
    BY <1>2, SoundDocuments DEF IInv
  <1>4. /\ e \in Document
        /\ e.nodeLease = Expired(d.nodeLease) /\ e.crankerLease = Expired(d.crankerLease)
        /\ e.status = d.status /\ e.version = d.version /\ e.authorization = d.authorization
        /\ e.kind = d.kind /\ e.body = d.body /\ e.verification = d.verification
        /\ e.result = d.result
    BY <1>3, LeasePassedDocument
  <1>5. /\ e.nodeLease = NoLease <=> d.nodeLease = NoLease
        /\ e.crankerLease = NoLease <=> d.crankerLease = NoLease
        /\ e.crankerLease.version = d.crankerLease.version
        /\ e.nodeLease.version = d.nodeLease.version
    BY <1>3, <1>4, ExpiredLease DEF Document
  <1>6. Eligible(w)
    BY <1>1, <1>2, StillEligible DEF IInv
  <1>7. Sound(e)
    BY <1>3, <1>4, <1>5 DEF Sound
  <1>8. Evolves(d, e)
    <2>1. Written(e) = Written(d)
      BY <1>4, <1>5 DEF Written
    <2> QED
      BY <1>1, <1>4, <1>5, <2>1 DEF Evolves, Finished, CrankerOutcome
  <1> QED
    BY <1>1, <1>2, <1>3, <1>4, <1>6, <1>7, <1>8 DEF Writes

(* Ingress adds documents and changes none.                                *)
Creates(r, kind, b) ==
  /\ r \in Ref /\ b \in Body /\ kind \in ExternalKind
  /\ Ingress(r) \in WorkId /\ SettlementOf(r, b) \in WorkId
  /\ work' \in [WorkId -> Document \cup {Absent}]
  /\ \A w \in WorkId :
       \/ work'[w] = work[w]
       \/ ~Exists(w) /\ w = Ingress(r) /\ work'[w] = NewWork(kind, b)
       \/ ~Exists(w) /\ w = SettlementOf(r, b) /\ work'[w] = NewWork("SETTLEMENT", b)
  /\ work'[SettlementOf(r, b)] # work[SettlementOf(r, b)] =>
       /\ work'[Ingress(r)].kind = "AUTHORIZED_FUNDING"
       /\ work'[Ingress(r)].body = b
       /\ Exists(Ingress(r))'

LEMMA ReceiveCreates ==
  ASSUME IInv, NEW r \in Ref, NEW kind \in Kind, NEW b \in Body, Receive(r, kind, b)
  PROVE  Creates(r, kind, b)
  <1> DEFINE i == Ingress(r)
             s == SettlementOf(r, b)
  <1>1. i \in WorkId /\ s \in WorkId /\ i # s /\ kind \in ExternalKind
    BY ReceiverAssumption DEF Ingress, SettlementOf, WorkId, Receive
  <1>2. /\ NewWork(kind, b) \in Document /\ NewWork("SETTLEMENT", b) \in Document
        /\ NewWork(kind, b).kind = kind /\ NewWork(kind, b).body = b
        /\ NewWork(kind, b).status = "RECEIVED"
    BY NewWorkDocument DEF Kind
  <1>3. work \in [WorkId -> Document \cup {Absent}]
    BY DEF IInv, TypeOK
  <1> DEFINE settlement == [work EXCEPT ![s] = NewWork("SETTLEMENT", b)]
  <1>4. CASE ~Exists(i) /\ kind = "AUTHORIZED_FUNDING"
    <2>1. work' = [settlement EXCEPT ![i] = NewWork(kind, b)]
      BY <1>4 DEF Receive
    <2>2. ~Exists(s)
      BY <1>4 DEF IInv, OneSettlementPerPayment
    <2> QED
      BY <1>1, <1>2, <1>3, <1>4, <2>1, <2>2 DEF Creates, Exists
  <1>5. CASE ~Exists(i) /\ kind # "AUTHORIZED_FUNDING"
    <2>1. work' = [work EXCEPT ![i] = NewWork(kind, b)]
      BY <1>5 DEF Receive
    <2> QED
      BY <1>1, <1>2, <1>3, <1>5, <2>1 DEF Creates, Exists
  <1>6. CASE Exists(i)
    <2>1. /\ work' = settlement
          /\ work[i].body = b /\ work[i].kind = kind /\ kind = "AUTHORIZED_FUNDING"
          /\ ~Exists(s)
      BY <1>6 DEF Receive
    <2> QED
      BY <1>1, <1>2, <1>3, <1>6, <2>1 DEF Creates, Exists
  <1> QED
    BY <1>4, <1>5, <1>6

(* Every step leaves the collection alone, adds to it, or writes one       *)
(* document of it.                                                         *)
LEMMA EveryStep ==
  ASSUME IInv, [Next]_vars
  PROVE  \/ work' = work
         \/ \E r \in Ref, kind \in Kind, b \in Body : Creates(r, kind, b)
         \/ \E w, e : Writes(w, e)
  <1>1. CASE UNCHANGED vars
    BY <1>1 DEF vars
  <1>2. CASE \E r \in Ref, kind \in Kind, b \in Body : Receive(r, kind, b)
    BY <1>2, ReceiveCreates
  <1>3. ASSUME NEW c \in Call, ServeLease(c)
        PROVE  work' = work \/ \E w, e : Writes(w, e)
    <2>1. CASE \E o \in Owner : BeginLease(c, o)
      BY <2>1 DEF BeginLease
    <2>2. CASE \E w \in call[c].todo : RequeueOne(c, w)
      BY <2>2, RequeueWrites
    <2>3. CASE ScanCandidates(c)
      BY <2>3 DEF ScanCandidates
    <2>4. CASE \E w \in call[c].todo : PickCandidate(c, w)
      BY <2>4 DEF PickCandidate
    <2>5. CASE NothingToLease(c)
      BY <2>5 DEF NothingToLease
    <2>6. CASE Claim(c)
      BY <2>6, ClaimWrites
    <2>7. CASE AttachAuthorization(c)
      BY <2>7, AttachWrites
    <2>8. CASE AuthorizationFails(c)
      BY <2>8 DEF AuthorizationFails
    <2> QED
      BY <1>3, <2>1, <2>2, <2>3, <2>4, <2>5, <2>6, <2>7, <2>8 DEF ServeLease
  <1>4. CASE \E g \in grants, verdict \in NodeVerdict : NodeReport(g, verdict)
    BY <1>4, NodeReportWrites
  <1>5. CASE \E g \in grants, outcome \in CrankerOutcome, sig \in Signature \cup {None} :
               CrankerReport(g, outcome, sig)
    BY <1>5, CrankerReportWrites
  <1>6. CASE \E w \in WorkId : ExpireLease(w)
    BY <1>6, ExpireWrites
  <1> QED
    BY <1>1, <1>2, <1>3, <1>4, <1>5, <1>6 DEF Next

-----------------------------------------------------------------------------
(* The invariants of the collection.                                       *)

(* What is stored stays, keeps what it is, and once finished is untouched. *)
Grows(w) ==
  Exists(w) =>
    /\ Exists(w)' /\ work'[w].kind = work[w].kind /\ work'[w].body = work[w].body
    /\ \/ work'[w].version > work[w].version
       \/ /\ work'[w].version = work[w].version
          /\ work'[w].crankerLease.version = work[w].crankerLease.version
    /\ work[w].status \in Finished => work'[w] = work[w]

LEMMA CollectionGrows ==
  ASSUME IInv, [Next]_vars
  PROVE  /\ work' \in [WorkId -> Document \cup {Absent}]
         /\ \A w \in WorkId : Grows(w)
  <1>1. work \in [WorkId -> Document \cup {Absent}]
    BY DEF IInv, TypeOK
  <1>2. \A w \in WorkId : Exists(w) => work[w].version \in Nat
    BY SoundDocuments DEF IInv, Document
  <1>3. CASE work' = work
    BY <1>1, <1>2, <1>3 DEF Grows, Exists
  <1>4. CASE \E r \in Ref, kind \in Kind, b \in Body : Creates(r, kind, b)
    <2>1. PICK r \in Ref, kind \in Kind, b \in Body : Creates(r, kind, b)
      BY <1>4
    <2> QED
      BY <1>2, <2>1 DEF Creates, Grows, Exists
  <1>5. CASE \E w, e : Writes(w, e)
    <2>1. PICK w, e : Writes(w, e)
      BY <1>5
    <2>2. work'[w] = e /\ \A x \in WorkId : x # w => work'[x] = work[x]
      BY <1>1, <2>1 DEF Writes
    <2>3. Grows(w)
      BY <1>2, <2>1, <2>2 DEF Writes, Evolves, Grows, Exists
    <2>4. ASSUME NEW x \in WorkId, x # w PROVE Grows(x)
      BY <1>2, <2>2, <2>4 DEF Grows, Exists
    <2>5. work' \in [WorkId -> Document \cup {Absent}]
      BY <1>1, <2>1 DEF Writes
    <2> QED
      BY <2>3, <2>4, <2>5
  <1> QED
    BY <1>3, <1>4, <1>5, EveryStep

(* Funding stays confirmed: what a request read stays true.                *)
LEMMA EligibleStays ==
  ASSUME IInv, [Next]_vars, NEW w \in WorkId, Exists(w), Eligible(w)
  PROVE  Eligible(w)'
  <1>1. Grows(w) /\ Exists(w)' /\ work'[w].kind = work[w].kind
    BY CollectionGrows DEF Grows
  <1>2. CASE work[w].kind # "SETTLEMENT"
    BY <1>1, <1>2 DEF Eligible
  <1>3. CASE work[w].kind = "SETTLEMENT"
    <2>1. FundingOf(w) \in WorkId
      BY DEF FundingOf, WorkId, Ingress
    <2>2. FundingConfirmed(w)
      BY <1>3 DEF Eligible
    <2>3. work'[FundingOf(w)] = work[FundingOf(w)]
      BY <2>1, <2>2, CollectionGrows
         DEF FundingConfirmed, Grows, Exists, Finished, CrankerOutcome
    <2> QED
      BY <2>2, <2>3 DEF Eligible, FundingConfirmed
  <1> QED
    BY <1>2, <1>3

(* Every document is sound after a step.                                   *)
LEMMA SoundAfter ==
  ASSUME IInv, [Next]_vars, NEW w \in WorkId, Exists(w)'
  PROVE  /\ Sound(work'[w]) /\ work'[w] \in Document
         /\ work'[w] = work[w] \/ work'[w].status = "RECEIVED" \/ (Eligible(w) /\ Exists(w))
         /\ (work'[w].kind = "SETTLEMENT" <=> w[2] # "ingress")
  <1>1. /\ work \in [WorkId -> Document \cup {Absent}]
        /\ work' \in [WorkId -> Document \cup {Absent}]
    BY CollectionGrows DEF IInv, TypeOK
  <1>2. CASE work'[w] = work[w]
    BY <1>2, SoundDocuments DEF IInv, KindsMatch, Exists
  <1>3. CASE (\E r \in Ref, kind \in Kind, b \in Body : Creates(r, kind, b))
             /\ work'[w] # work[w]
    <2>1. PICK r \in Ref, kind \in Kind, b \in Body : Creates(r, kind, b)
      BY <1>3
    <2>2. \/ w = Ingress(r) /\ work'[w] = NewWork(kind, b) /\ kind \in ExternalKind
          \/ w = SettlementOf(r, b) /\ work'[w] = NewWork("SETTLEMENT", b)
      BY <1>3, <2>1 DEF Creates
    <2>3. \A k \in Kind :
            /\ NewWork(k, b) \in Document /\ Sound(NewWork(k, b))
            /\ NewWork(k, b).status = "RECEIVED" /\ NewWork(k, b).kind = k
      BY NewWorkDocument DEF Sound
    <2>4. /\ "SETTLEMENT" \in Kind /\ kind \in Kind
          /\ kind \in ExternalKind => kind # "SETTLEMENT"
          /\ Ingress(r)[2] = "ingress" /\ SettlementOf(r, b)[2] # "ingress"
      BY ReceiverAssumption DEF Kind, ExternalKind, Ingress, SettlementOf
    <2>5. PICK k \in Kind : /\ work'[w] = NewWork(k, b)
                            /\ k = "SETTLEMENT" <=> w[2] # "ingress"
      BY <2>2, <2>4
    <2> QED
      BY <2>3, <2>5
  <1>4. CASE (\E x, e : Writes(x, e)) /\ work'[w] # work[w]
    <2>1. PICK x, e : Writes(x, e)
      BY <1>4
    <2>2. x = w /\ work'[w] = e
      BY <1>1, <1>4, <2>1 DEF Writes
    <2> QED
      BY <2>1, <2>2 DEF Writes, Evolves, IInv, KindsMatch
  <1> QED
    BY <1>2, <1>3, <1>4, EveryStep

LEMMA CollectionInvariants ==
  ASSUME IInv, [Next]_vars
  PROVE  /\ KindsMatch' /\ LeaseMatchesStatus' /\ AttestedBeforeExecution'
         /\ SettlementAfterFunding' /\ OneSettlementPerPayment'
  <1>1. KindsMatch'
    BY SoundAfter DEF KindsMatch
  <1>2. LeaseMatchesStatus'
    BY SoundAfter DEF LeaseMatchesStatus, Sound
  <1>3. AttestedBeforeExecution'
    BY SoundAfter DEF AttestedBeforeExecution, Sound
  <1>4. SettlementAfterFunding'
    <2> SUFFICES ASSUME NEW w \in WorkId, Exists(w)', work'[w].kind = "SETTLEMENT",
                        work'[w].status # "RECEIVED"
                 PROVE  FundingConfirmed(w)'
      BY DEF SettlementAfterFunding
    <2>1. Exists(w) /\ Eligible(w)
      <3>1. CASE work'[w] = work[w]
        BY <3>1, StillEligible DEF IInv, Exists
      <3>2. CASE work'[w] # work[w]
        BY <3>2, SoundAfter
      <3> QED
        BY <3>1, <3>2
    <2> QED
      BY <2>1, EligibleStays DEF Eligible
  <1>5. OneSettlementPerPayment'
    <2> SUFFICES ASSUME NEW r \in Ref, NEW b \in Body, Exists(SettlementOf(r, b))'
                 PROVE  /\ Exists(Ingress(r))'
                        /\ work'[Ingress(r)].kind = "AUTHORIZED_FUNDING"
                        /\ work'[Ingress(r)].body = b
      BY DEF OneSettlementPerPayment
    <2>1. Ingress(r) \in WorkId /\ SettlementOf(r, b) \in WorkId
      BY DEF Ingress, SettlementOf, WorkId
    <2>2. CASE Exists(SettlementOf(r, b))
      <3>1. /\ Exists(Ingress(r))
            /\ work[Ingress(r)].kind = "AUTHORIZED_FUNDING" /\ work[Ingress(r)].body = b
        BY <2>2 DEF IInv, OneSettlementPerPayment
      <3> QED
        BY <2>1, <3>1, CollectionGrows DEF Grows
    <2>3. CASE ~Exists(SettlementOf(r, b))
      <3>1. work'[SettlementOf(r, b)] # work[SettlementOf(r, b)]
        BY <2>3 DEF Exists
      <3>2. CASE \E q \in Ref, kind \in Kind, a \in Body : Creates(q, kind, a)
        <4>1. PICK q \in Ref, kind \in Kind, a \in Body : Creates(q, kind, a)
          BY <3>2
        <4>2. SettlementOf(r, b) # Ingress(q)
          BY ReceiverAssumption DEF SettlementOf, Ingress
        <4>3. SettlementOf(r, b) = SettlementOf(q, a)
          BY <2>1, <3>1, <4>1, <4>2 DEF Creates
        <4>4. q = r /\ a = b
          BY <4>3 DEF SettlementOf
        <4> QED
          BY <3>1, <4>1, <4>4 DEF Creates
      <3>3. CASE \E x, e : Writes(x, e)
        <4>1. PICK x, e : Writes(x, e)
          BY <3>3
        <4>2. x = SettlementOf(r, b)
          BY <2>1, <3>1, <4>1 DEF Writes, IInv, TypeOK
        <4> QED
          BY <2>3, <4>1, <4>2 DEF Writes
      <3> QED
        BY <3>1, <3>2, <3>3, EveryStep
    <2> QED
      BY <2>2, <2>3
  <1> QED
    BY <1>1, <1>2, <1>3, <1>4, <1>5

-----------------------------------------------------------------------------
(* Acknowledged reports and requests in progress.                          *)

LEMMA AcksKept ==
  ASSUME IInv, [Next]_vars
  PROVE  acks' \subseteq Ack /\ AckedReportsStand'
  <1>1. \A a \in acks : /\ a \in Ack
                        /\ work'[a.id].status = a.status
                        /\ work'[a.id].result.signature = a.signature
    <2> TAKE a \in acks
    <2>1. a \in Ack /\ a.id \in WorkId /\ a.status \in CrankerOutcome
      BY DEF IInv, TypeOK, Ack
    <2>2. work[a.id].status = a.status /\ work[a.id].result.signature = a.signature
      BY DEF IInv, AckedReportsStand
    <2>3. Exists(a.id) /\ work[a.id].status \in Finished
      BY <2>1, <2>2 DEF Exists, CrankerOutcome, Finished
    <2> QED
      BY <2>1, <2>2, <2>3, CollectionGrows DEF Grows
  <1>2. CASE acks' = acks
    BY <1>1, <1>2 DEF AckedReportsStand
  <1>3. CASE \E g \in grants, outcome \in CrankerOutcome, sig \in Signature \cup {None} :
               CrankerReport(g, outcome, sig)
    <2>1. PICK g \in grants, outcome \in CrankerOutcome, sig \in Signature \cup {None} :
                 CrankerReport(g, outcome, sig)
      BY <1>3
    <2> DEFINE ack == [id |-> g.id, status |-> outcome, signature |-> sig]
    <2>2. acks' = acks \cup {ack}
      BY <2>1 DEF CrankerReport
    <2>3. ack \in Ack
      BY <2>1, CrankerReportWrites DEF Ack, Grant
    <2>4. work'[g.id].status = outcome /\ work'[g.id].result.signature = sig
      <3>1. CASE work' = work /\ IsReplay(work[g.id], outcome, sig)
        BY <3>1 DEF IsReplay
      <3>2. CASE Writes(g.id, Reported(work[g.id], outcome, sig, g.lease))
        <4>1. work'[g.id] = Reported(work[g.id], outcome, sig, g.lease)
          BY <3>2 DEF Writes, IInv, TypeOK
        <4>2. work[g.id] \in Document
          BY <3>2 DEF Writes
        <4> QED
          BY <4>1, <4>2 DEF Reported, Document
      <3> QED
        BY <2>1, <3>1, <3>2, CrankerReportWrites
    <2> QED
      BY <1>1, <2>2, <2>3, <2>4 DEF AckedReportsStand
  <1>4. acks' = acks \/ (\E g \in grants, outcome \in CrankerOutcome,
                            sig \in Signature \cup {None} : CrankerReport(g, outcome, sig))
    BY DEF Next, vars, Receive, ServeLease, BeginLease, RequeueOne, ScanCandidates, PickCandidate,
           NothingToLease, Claim, AttachAuthorization, AuthorizationFails, NodeReport, ExpireLease
  <1> QED
    BY <1>2, <1>3, <1>4

CallOK(c) ==
  /\ call[c] \in [pc : Phase, owner : Owner \cup {None}, todo : SUBSET WorkId,
                  pick : WorkId \cup {None}, version : Nat]
  /\ call[c].pc # "idle" => call[c].owner \in Owner
  /\ \A w \in call[c].todo : Exists(w)
  /\ call[c].pc \in {"claim", "authorize"} =>
       call[c].pick \in WorkId /\ Exists(call[c].pick) /\ Eligible(call[c].pick)
  /\ call[c].pc = "authorize" =>
       /\ call[c].owner \in Cranker
       /\ work[call[c].pick].kind = "SETTLEMENT"
       /\ call[c].version <= work[call[c].pick].version
       /\ call[c].version = work[call[c].pick].version =>
            call[c].version = work[call[c].pick].crankerLease.version

LEMMA CallsAreOK ==
  ASSUME TypeOK, CallsCoherent, NEW c \in Call
  PROVE  CallOK(c)
  BY DEF TypeOK, CallsCoherent, CallOK

(* A request whose own fields did not change keeps what it relies on.      *)
LEMMA CallKept ==
  ASSUME IInv, [Next]_vars, NEW c \in Call, call'[c] = call[c]
  PROVE  CallOK(c)'
  <1>1. CallOK(c)
    BY CallsAreOK DEF IInv
  <1>2. \A w \in call[c].todo : Exists(w)'
    BY <1>1, CollectionGrows DEF CallOK, Grows
  <1>3. ASSUME call[c].pc \in {"claim", "authorize"}
        PROVE  call[c].pick \in WorkId /\ Exists(call[c].pick)' /\ Eligible(call[c].pick)'
    <2>1. call[c].pick \in WorkId /\ Exists(call[c].pick) /\ Eligible(call[c].pick)
      BY <1>1, <1>3 DEF CallOK
    <2>2. Exists(call[c].pick)'
      BY <2>1, CollectionGrows DEF Grows, Exists
    <2>3. PICK w \in WorkId : w = call[c].pick
      BY <2>1
    <2>4. Eligible(w)'
      BY <2>1, <2>3, EligibleStays
    <2> QED
      BY <2>1, <2>2, <2>3, <2>4
  <1>4. ASSUME call[c].pc = "authorize"
        PROVE  /\ call[c].owner \in Cranker
               /\ work'[call[c].pick].kind = "SETTLEMENT"
               /\ call[c].version <= work'[call[c].pick].version
               /\ call[c].version = work'[call[c].pick].version =>
                    call[c].version = work'[call[c].pick].crankerLease.version
    <2>1. /\ call[c].pick \in WorkId /\ Exists(call[c].pick) /\ call[c].owner \in Cranker
          /\ work[call[c].pick].kind = "SETTLEMENT"
          /\ call[c].version <= work[call[c].pick].version
          /\ call[c].version = work[call[c].pick].version =>
               call[c].version = work[call[c].pick].crankerLease.version
          /\ call[c].version \in Nat
      BY <1>1, <1>4 DEF CallOK
    <2>2. Grows(call[c].pick)
      BY <2>1, CollectionGrows
    <2>3. work[call[c].pick].version \in Nat
      BY <2>1, SoundDocuments DEF IInv, Document
    <2>4. work'[call[c].pick].version \in Nat
      BY <2>1, <2>2, <2>3, CollectionGrows, StoredDocument DEF Grows, Exists, Document
    <2>5. work'[call[c].pick].kind = "SETTLEMENT"
      BY <2>1, <2>2 DEF Grows
    <2> QED
      BY <2>1, <2>2, <2>3, <2>4, <2>5 DEF Grows
  <1> QED
    BY <1>1, <1>2, <1>3, <1>4 DEF CallOK

LEMMA CallsKept ==
  ASSUME IInv, [Next]_vars
  PROVE  /\ call' \in [Call -> [pc : Phase, owner : Owner \cup {None}, todo : SUBSET WorkId,
                               pick : WorkId \cup {None}, version : Nat]]
         /\ CallsCoherent'
  <1>1. call \in [Call -> [pc : Phase, owner : Owner \cup {None}, todo : SUBSET WorkId,
                          pick : WorkId \cup {None}, version : Nat]]
    BY DEF IInv, TypeOK
  <1> DEFINE Others(c) == \E m : call' = [call EXCEPT ![c] = m] /\ CallOK(c)'
  <1>2. ASSUME NEW c \in Call, ServeLease(c)
        PROVE  Others(c)
    <2>1. CallOK(c) /\ IdleCall.pc = "idle"
      BY CallsAreOK DEF IInv, IdleCall
    <2>2. ASSUME NEW m, call' = [call EXCEPT ![c] = m]
          PROVE  call'[c] = m
      BY <1>1, <2>2
    <2>3. ASSUME call' = [call EXCEPT ![c] = IdleCall]
          PROVE  Others(c)
      <3>1. call'[c] = IdleCall
        BY <2>2, <2>3
      <3>2. CallOK(c)'
        BY <3>1 DEF CallOK, IdleCall, Phase
      <3> QED
        BY <2>3, <3>2
    <2>4. CASE \E o \in Owner : BeginLease(c, o)
      <3>1. PICK o \in Owner : BeginLease(c, o)
        BY <2>4
      <3> DEFINE m == [pc |-> "requeue", owner |-> o, pick |-> None, version |-> 0,
                       todo |-> {w \in WithStatus(LeasedBy(o)) : LeaseOf(o, work[w]) # NoLease}]
      <3>2. call' = [call EXCEPT ![c] = m] /\ work' = work
        BY <3>1 DEF BeginLease
      <3>3. call'[c] = m
        BY <2>2, <3>2
      <3>4. m.todo \subseteq WorkId /\ \A w \in m.todo : Exists(w)
        BY DEF WithStatus, LeasedBy, Exists
      <3>5. CallOK(c)'
        BY <3>2, <3>3, <3>4 DEF CallOK, Phase, Exists
      <3> QED
        BY <3>2, <3>5
    <2>5. CASE \E w \in call[c].todo : RequeueOne(c, w)
      <3>1. PICK w \in call[c].todo : RequeueOne(c, w)
        BY <2>5
      <3> DEFINE m == [call[c] EXCEPT !.todo = @ \ {w}]
      <3>2. call' = [call EXCEPT ![c] = m] /\ call[c].pc = "requeue"
        BY <3>1 DEF RequeueOne
      <3>3. call'[c] = m
        BY <2>2, <3>2
      <3>4. /\ m.pc = "requeue" /\ m.owner = call[c].owner /\ m.pick = call[c].pick
            /\ m.version = call[c].version /\ m.todo \subseteq call[c].todo
            /\ m \in [pc : Phase, owner : Owner \cup {None}, todo : SUBSET WorkId,
                      pick : WorkId \cup {None}, version : Nat]
        BY <2>1, <3>2 DEF CallOK
      <3>5. \A x \in m.todo : Exists(x)'
        BY <2>1, <3>4, CollectionGrows DEF CallOK, Grows
      <3>6. CallOK(c)'
        BY <2>1, <3>2, <3>3, <3>4, <3>5 DEF CallOK
      <3> QED
        BY <3>2, <3>6
    <2>6. CASE ScanCandidates(c)
      <3> DEFINE m == [call[c] EXCEPT !.pc = "pick", !.todo = WithStatus(QueueOf(call[c].owner))]
      <3>1. call' = [call EXCEPT ![c] = m] /\ work' = work /\ call[c].pc = "requeue"
        BY <2>1, <2>6 DEF ScanCandidates, CallOK
      <3>2. call'[c] = m
        BY <2>2, <3>1
      <3>3. /\ WithStatus(QueueOf(call[c].owner)) \subseteq WorkId
            /\ \A w \in WithStatus(QueueOf(call[c].owner)) : Exists(w)
        BY DEF WithStatus, QueueOf, Exists
      <3>4. /\ m.pc = "pick" /\ m.owner = call[c].owner
            /\ m.todo = WithStatus(QueueOf(call[c].owner))
            /\ m \in [pc : Phase, owner : Owner \cup {None}, todo : SUBSET WorkId,
                      pick : WorkId \cup {None}, version : Nat]
        BY <2>1, <3>3 DEF CallOK, Phase
      <3>5. CallOK(c)'
        BY <2>1, <3>1, <3>2, <3>3, <3>4 DEF CallOK, Exists
      <3> QED
        BY <3>1, <3>5
    <2>7. CASE \E w \in call[c].todo : PickCandidate(c, w)
      <3>1. PICK w \in call[c].todo : PickCandidate(c, w)
        BY <2>7
      <3> DEFINE m == [call[c] EXCEPT !.todo = @ \ {w}, !.pc = IF Eligible(w) THEN "claim" ELSE "pick",
                                      !.pick = IF Eligible(w) THEN w ELSE None]
      <3>2. call' = [call EXCEPT ![c] = m] /\ work' = work /\ call[c].pc = "pick"
        BY <1>1, <3>1 DEF PickCandidate
      <3>3. call'[c] = m
        BY <2>2, <3>2
      <3>4. w \in WorkId /\ Exists(w)
        BY <2>1 DEF CallOK
      <3>5. /\ m.pc = (IF Eligible(w) THEN "claim" ELSE "pick")
            /\ m.pick = (IF Eligible(w) THEN w ELSE None)
            /\ m.owner = call[c].owner /\ m.todo \subseteq call[c].todo
            /\ m \in [pc : Phase, owner : Owner \cup {None}, todo : SUBSET WorkId,
                      pick : WorkId \cup {None}, version : Nat]
        BY <2>1, <3>4 DEF CallOK, Phase
      <3>6. Eligible(w) => /\ m.pc = "claim" /\ m.pick = w /\ Eligible(m.pick) /\ Exists(m.pick)
        BY <3>4, <3>5
      <3>7. ~Eligible(w) => m.pc = "pick"
        BY <3>5
      <3>8. \A x \in m.todo : Exists(x)
        BY <2>1, <3>5 DEF CallOK
      <3> HIDE DEF m
      <3>9. CallOK(c)'
        BY <2>1, <3>2, <3>3, <3>4, <3>5, <3>6, <3>7, <3>8
           DEF CallOK, Exists, Eligible, FundingConfirmed
      <3> QED
        BY <3>2, <3>9
    <2>8. CASE NothingToLease(c)
      BY <2>3, <2>8 DEF NothingToLease
    <2>9. CASE Claim(c)
      <3> DEFINE w == call[c].pick
                 o == call[c].owner
      <3>1. w \in WorkId /\ Exists(w) /\ Eligible(w) /\ o \in Owner /\ call[c].pc = "claim"
        BY <2>1, <2>9 DEF CallOK, Claim
      <3>2. work[w] \in Document /\ work[w].version + 1 \in Nat
        BY <3>1, SoundDocuments DEF IInv, Document
      <3>3. CASE call' = [call EXCEPT ![c] = IdleCall]
        BY <2>3, <3>3
      <3>4. CASE call' = [call EXCEPT ![c].pc = "pick", ![c].pick = None] /\ work' = work
        <4> DEFINE m == [call[c] EXCEPT !.pc = "pick", !.pick = None]
        <4>1. call' = [call EXCEPT ![c] = m]
          BY <1>1, <3>4
        <4>2. call'[c] = m
          BY <2>2, <4>1
        <4>3. /\ m.pc = "pick" /\ m.owner = call[c].owner /\ m.todo = call[c].todo
              /\ m \in [pc : Phase, owner : Owner \cup {None}, todo : SUBSET WorkId,
                        pick : WorkId \cup {None}, version : Nat]
          BY <2>1 DEF CallOK, Phase
        <4>4. CallOK(c)'
          BY <2>1, <3>1, <3>4, <4>2, <4>3 DEF CallOK, Exists
        <4> QED
          BY <4>1, <4>4
      <3>5. CASE /\ call' = [call EXCEPT ![c].pc = "authorize", ![c].version = work[w].version + 1]
                 /\ work' = [work EXCEPT ![w] = Leased(@, o)]
                 /\ o \in Cranker /\ work[w].kind = "SETTLEMENT"
        <4> DEFINE m == [call[c] EXCEPT !.pc = "authorize", !.version = work[w].version + 1]
        <4>1. call' = [call EXCEPT ![c] = m]
          BY <1>1, <3>5
        <4>2. call'[c] = m
          BY <2>2, <4>1
        <4>3. /\ m.pc = "authorize" /\ m.owner = o /\ m.todo = call[c].todo /\ m.pick = w
              /\ m.version = work[w].version + 1
              /\ m \in [pc : Phase, owner : Owner \cup {None}, todo : SUBSET WorkId,
                        pick : WorkId \cup {None}, version : Nat]
          BY <2>1, <3>2 DEF CallOK, Phase
        <4>4. work'[w] = Leased(work[w], o)
          BY <3>1, <3>5 DEF IInv, TypeOK
        <4>5. /\ work'[w].version = work[w].version + 1 /\ work'[w].kind = "SETTLEMENT"
              /\ work'[w].crankerLease.version = work[w].version + 1
          <5>1. o \notin Node
            BY <3>5, ReceiverAssumption
          <5> QED
            BY <3>2, <3>5, <4>4, <5>1, CrankerLeasedDocument
        <4>6. PICK x \in WorkId : x = w /\ Eligible(x)' /\ Exists(x)'
          BY <3>1, EligibleStays, CollectionGrows DEF Grows
        <4>7. \A y \in call[c].todo : Exists(y)'
          BY <2>1, CollectionGrows DEF CallOK, Grows
        <4>8. work'[x].version <= work'[x].version
          BY <3>2, <4>5, <4>6
        <4>9. call'[c].pick = x /\ Eligible(call[c].pick)' /\ Exists(call[c].pick)'
          BY <4>2, <4>3, <4>6
        <4> HIDE DEF w, o, m
        <4>10. CallOK(c)'
          BY <3>5, <4>2, <4>3, <4>5, <4>6, <4>7, <4>8, <4>9 DEF CallOK, Owner
        <4> QED
          BY <4>1, <4>10
      <3> QED
        BY <2>9, <3>3, <3>4, <3>5 DEF Claim
    <2>10. CASE AttachAuthorization(c)
      BY <2>3, <2>10 DEF AttachAuthorization
    <2>11. CASE AuthorizationFails(c)
      BY <2>3, <2>11 DEF AuthorizationFails
    <2> QED
      BY <1>2, <2>4, <2>5, <2>6, <2>7, <2>8, <2>9, <2>10, <2>11 DEF ServeLease
  <1>3. CASE call' = call
    BY <1>1, <1>3, CallKept DEF CallsCoherent, CallOK
  <1>4. CASE \E c \in Call : ServeLease(c)
    <2>1. PICK c \in Call : ServeLease(c)
      BY <1>4
    <2>2. PICK m : call' = [call EXCEPT ![c] = m] /\ CallOK(c)'
      BY <1>2, <2>1
    <2>3. \A x \in Call : CallOK(x)'
      <3> TAKE x \in Call
      <3>1. CASE x = c
        BY <2>2, <3>1
      <3>2. CASE x # c
        <4>1. call'[x] = call[x]
          BY <1>1, <2>2, <3>2
        <4> QED
          BY <4>1, CallKept
      <3> QED
        BY <3>1, <3>2
    <2>4. \A x \in Call : call'[x] \in [pc : Phase, owner : Owner \cup {None},
              todo : SUBSET WorkId, pick : WorkId \cup {None}, version : Nat]
      BY <2>3 DEF CallOK
    <2>5. call' = [x \in Call |-> call'[x]]
      BY <1>1, <2>2
    <2> QED
      BY <2>3, <2>4, <2>5 DEF CallsCoherent, CallOK
  <1>5. call' = call \/ \E c \in Call : ServeLease(c)
    BY DEF Next, vars, Receive, NodeReport, CrankerReport, ExpireLease
  <1> QED
    BY <1>3, <1>4, <1>5

-----------------------------------------------------------------------------
(* Grants: what a holder was told.                                         *)

GrantOK(g) ==
  /\ g \in Grant
  /\ Exists(g.id)
  /\ g.version <= work[g.id].version
  /\ ~g.live /\ g.version = work[g.id].version =>
       ~LeaseHeld(LeaseOf(g.owner, work[g.id]), g.owner)
  /\ g.owner \in Cranker /\ work[g.id].kind = "SETTLEMENT" => g.lease < g.version
  /\ g.live =>
       /\ work[g.id].status = LeasedBy(g.owner)
       /\ LeaseOf(g.owner, work[g.id]) = [owner |-> g.owner, version |-> g.lease, expired |-> FALSE]
       /\ work[g.id].version = g.version
  /\ g.live /\ g.owner \in Cranker /\ work[g.id].kind = "SETTLEMENT" =>
       work[g.id].authorization = g.lease

LEMMA GrantsAreOK ==
  ASSUME IInv, NEW g \in grants
  PROVE  GrantOK(g)
  BY DEF IInv, TypeOK, GrantsCoherent, HolderExclusive, AuthorizationFresh, GrantOK

(* A grant is not disturbed by what happens to other work.                 *)
LEMMA GrantUntouched ==
  ASSUME NEW g, GrantOK(g), work'[g.id] = work[g.id]
  PROVE  GrantOK(g)'
  BY DEF GrantOK, Exists

(* A grant that is no longer live is overtaken by any newer version.       *)
LEMMA GrantOvertaken ==
  ASSUME IInv, [Next]_vars, NEW g, GrantOK(g), ~g.live,
         work'[g.id].version = work[g.id].version + 1
  PROVE  GrantOK(g)'
  <1>1. g \in Grant /\ g.id \in WorkId /\ Exists(g.id) /\ g.version <= work[g.id].version
        /\ g.version \in Nat
    BY DEF GrantOK, Grant
  <1>2. work[g.id].version \in Nat
    BY <1>1, SoundDocuments DEF IInv, Document
  <1>3. Exists(g.id)' /\ work'[g.id].kind = work[g.id].kind
    BY <1>1, CollectionGrows DEF Grows
  <1>4. g.version < work'[g.id].version
    BY <1>1, <1>2
  <1> QED
    BY <1>1, <1>2, <1>3, <1>4 DEF GrantOK

(* One write, to work nobody holds, leaves every grant in order.           *)
LEMMA GrantsAfterWrite ==
  ASSUME IInv, [Next]_vars, NEW w, NEW e, Writes(w, e), e.version = work[w].version + 1,
         NEW g \in grants, g.id = w => ~g.live
  PROVE  GrantOK(g)'
  <1>1. GrantOK(g)
    BY GrantsAreOK
  <1>2. w \in WorkId /\ g.id \in WorkId /\ work' = [work EXCEPT ![w] = e]
    BY <1>1 DEF Writes, GrantOK, Grant
  <1>3. CASE g.id # w
    BY <1>1, <1>2, <1>3, GrantUntouched DEF IInv, TypeOK
  <1>4. CASE g.id = w
    <2>1. work'[g.id].version = work[g.id].version + 1
      BY <1>2, <1>4 DEF IInv, TypeOK
    <2> QED
      BY <1>1, <1>4, <2>1, GrantOvertaken
  <1> QED
    BY <1>3, <1>4

(* Whoever holds a live grant is its document's only holder.               *)
LEMMA OneHolder ==
  ASSUME IInv, NEW g \in grants, NEW h \in grants, g.live, h.live, g.id = h.id
  PROVE  g = h
  <1>1. GrantOK(g) /\ GrantOK(h)
    BY GrantsAreOK
  <1>2. g \in Grant /\ h \in Grant /\ g.version = h.version
    BY <1>1 DEF GrantOK
  <1>3. LeasedBy(g.owner) = LeasedBy(h.owner)
    BY <1>1 DEF GrantOK
  <1>4. LeaseOf(g.owner, work[g.id]) = LeaseOf(h.owner, work[g.id])
    BY <1>3 DEF LeasedBy, LeaseOf
  <1>5. /\ LeaseOf(g.owner, work[g.id]) = [owner |-> g.owner, version |-> g.lease, expired |-> FALSE]
        /\ LeaseOf(h.owner, work[g.id]) = [owner |-> h.owner, version |-> h.lease, expired |-> FALSE]
    BY <1>1 DEF GrantOK
  <1> DEFINE l == LeaseOf(g.owner, work[g.id])
             m == LeaseOf(h.owner, work[g.id])
  <1>6. /\ l.owner = g.owner /\ l.version = g.lease
        /\ m.owner = h.owner /\ m.version = h.lease
    BY <1>5
  <1>7. g.owner = h.owner /\ g.lease = h.lease
    <2> HIDE DEF l, m
    <2>1. l = m
      BY <1>4 DEF l, m
    <2> QED
      BY <1>6, <2>1
  <1> QED
    BY <1>2, <1>7 DEF Grant

LEMMA RetiredGrant ==
  ASSUME NEW g \in Grant
  PROVE  LET q == [g EXCEPT !.live = FALSE] IN
         /\ q \in Grant /\ q.id = g.id /\ q.owner = g.owner /\ q.lease = g.lease
         /\ q.version = g.version /\ ~q.live
  BY DEF Grant

(* A report retires the grant it used; no other is live.                   *)
LEMMA GrantsAfterReport ==
  ASSUME IInv, [Next]_vars, NEW g \in grants, g.live, NEW e, Writes(g.id, e),
         e.version = work[g.id].version + 1, grants' = Retire(g)
  PROVE  \A h \in grants' : GrantOK(h)'
  <1> DEFINE q == [g EXCEPT !.live = FALSE]
  <1>1. GrantOK(g) /\ g \in Grant
    BY GrantsAreOK DEF GrantOK
  <1>2. /\ q \in Grant /\ q.id = g.id /\ q.owner = g.owner /\ q.lease = g.lease
        /\ q.version = g.version /\ ~q.live
    BY <1>1, RetiredGrant
  <1>3. GrantOK(q)'
    <2>1. /\ work[g.id].version \in Nat /\ work'[g.id] = e /\ e \in Document
          /\ e.kind = work[g.id].kind /\ e.status # "ABSENT"
      BY DEF Writes, Evolves, IInv, TypeOK, Document
    <2>2. g.version \in Nat /\ g.version <= work[g.id].version
      BY <1>1 DEF GrantOK, Grant
    <2>3. g.version < e.version
      BY <2>1, <2>2
    <2>4. g.owner \in Cranker /\ work[g.id].kind = "SETTLEMENT" => g.lease < g.version
      BY <1>1 DEF GrantOK
    <2> HIDE DEF q
    <2> QED
      BY <1>2, <2>1, <2>2, <2>3, <2>4 DEF GrantOK, Exists
  <1>4. ASSUME NEW h \in grants, h # g PROVE GrantOK(h)'
    <2>1. h.id = g.id => ~h.live
      BY <1>4, OneHolder
    <2> QED
      BY <2>1, GrantsAfterWrite
  <1> QED
    BY <1>3, <1>4 DEF Retire

LEMMA ToldGrant ==
  ASSUME NEW w \in WorkId, NEW o \in Owner, NEW l \in Nat, NEW v \in Nat
  PROVE  LET t == Told(w, o, l, v) IN
         /\ t \in Grant /\ t.id = w /\ t.owner = o /\ t.lease = l /\ t.version = v /\ t.live
  BY DEF Told, Grant

LEMMA GrantsKept ==
  ASSUME IInv, [Next]_vars
  PROVE  \A g \in grants' : GrantOK(g)'
  <1> DEFINE Kept == \A g \in grants' : GrantOK(g)'
  <1>1. CASE grants' = grants /\ work' = work
    BY <1>1, GrantsAreOK, GrantUntouched
  <1>2. ASSUME NEW r \in Ref, NEW kind \in Kind, NEW b \in Body, Receive(r, kind, b)
        PROVE  Kept
    <2>1. grants' = grants /\ Creates(r, kind, b)
      BY <1>2, ReceiveCreates DEF Receive
    <2>2. ASSUME NEW g \in grants PROVE GrantOK(g)'
      <3>1. GrantOK(g) /\ g.id \in WorkId /\ Exists(g.id)
        BY GrantsAreOK DEF GrantOK, Grant
      <3>2. work'[g.id] = work[g.id]
        BY <2>1, <3>1 DEF Creates
      <3> QED
        BY <3>1, <3>2, GrantUntouched
    <2> QED
      BY <2>1, <2>2
  <1>3. ASSUME NEW c \in Call, NEW w \in call[c].todo, RequeueOne(c, w)
        PROVE  Kept
    <2> DEFINE o == call[c].owner
               e == Requeued(work[w], o)
    <2>1. grants' = grants
      BY <1>3 DEF RequeueOne
    <2>2. CASE work' = work
      BY <1>1, <2>1, <2>2
    <2>3. CASE Writes(w, e) /\ StillStale(w, o)
      <3>1. e.version = work[w].version + 1
        BY <2>3, RequeuedDocument DEF Writes, Requeued, Document
      <3>2. ASSUME NEW g \in grants, g.id = w, g.live PROVE FALSE
        <4>1. /\ work[w].status = LeasedBy(g.owner) /\ work[w].status = LeasedBy(o)
              /\ LeaseOf(g.owner, work[w]) = [owner |-> g.owner, version |-> g.lease, expired |-> FALSE]
              /\ g.owner \in Owner
          BY <2>3, <3>2, GrantsAreOK DEF GrantOK, StillStale, Grant
        <4>2. LeaseOf(g.owner, work[w]) = LeaseOf(o, work[w])
          BY <4>1 DEF LeasedBy, LeaseOf
        <4>3. LeaseOf(o, work[w]).owner # None /\ ~LeaseOf(o, work[w]).expired
          BY <4>1, <4>2, ReceiverAssumption
        <4> QED
          BY <2>3, <4>3, NoLeaseFacts DEF StillStale
      <3> QED
        BY <2>1, <2>3, <3>1, <3>2, GrantsAfterWrite
    <2> QED
      BY <1>3, <2>2, <2>3, RequeueWrites
  <1>4. ASSUME NEW c \in Call, Claim(c)
        PROVE  Kept
    <2> DEFINE w == call[c].pick
               o == call[c].owner
               e == Leased(work[w], o)
               v == work[w].version + 1
    <2>1. CASE work' = work /\ grants' = grants
      BY <1>1, <2>1
    <2>2. CASE Writes(w, e) /\ work[w].status = QueueOf(o)
      <3>1. o \in Owner /\ work[w] \in Document /\ v \in Nat /\ w \in WorkId
        BY <1>4, <2>2 DEF Writes, IInv, CallsCoherent, Claim, Document
      <3>2. e.version = v /\ e.kind = work[w].kind /\ e.status = LeasedBy(o)
            /\ LeaseOf(o, e) = [owner |-> o, version |-> v, expired |-> FALSE]
        BY <3>1, LeasedDocument
      <3>3. ASSUME NEW g \in grants PROVE GrantOK(g)'
        <4>1. g.id = w => ~g.live
          BY <2>2, GrantsAreOK DEF GrantOK, QueueOf, LeasedBy
        <4> QED
          BY <2>2, <3>2, <4>1, GrantsAfterWrite
      <3>4. CASE grants' = grants
        BY <3>3, <3>4
      <3>5. CASE grants' = grants \cup {Told(w, o, v, v)}
                 /\ ~(o \in Cranker /\ work[w].kind = "SETTLEMENT")
        <4>1. PICK t : t = Told(w, o, v, v)
          OBVIOUS
        <4>2. /\ t \in Grant /\ t.id = w /\ t.owner = o /\ t.lease = v /\ t.version = v /\ t.live
          BY <3>1, <4>1, ToldGrant
        <4>3. work'[t.id] = e /\ e.status # "ABSENT"
          BY <2>2, <4>2 DEF Writes, Evolves, IInv, TypeOK
        <4>4. v <= v
          BY <3>1
        <4>5. GrantOK(t)'
          <5> HIDE DEF v, e
          <5>1. work'[t.id].status = LeasedBy(t.owner) /\ work'[t.id].version = t.version
            BY <3>2, <4>2, <4>3
          <5>2. LeaseOf(t.owner, work'[t.id]) = [owner |-> t.owner, version |-> t.lease, expired |-> FALSE]
            BY <3>2, <4>2, <4>3
          <5>3. ~(t.owner \in Cranker /\ work'[t.id].kind = "SETTLEMENT")
            BY <3>2, <3>5, <4>2, <4>3
          <5>4. work'[t.id].status # "ABSENT" /\ t.version <= work'[t.id].version
            BY <4>2, <4>3, <4>4, <5>1
          <5> QED
            BY <4>2, <5>1, <5>2, <5>3, <5>4 DEF GrantOK, Exists
        <4> QED
          BY <3>3, <3>5, <4>1, <4>5
      <3> QED
        BY <1>4, <2>2, <3>4, <3>5 DEF Claim
    <2>3. ASSUME work' = work PROVE Kept
      <3>1. CASE grants' = grants
        BY <2>1, <2>3, <3>1
      <3>2. CASE work[w].status = QueueOf(o)
        <4>1. w \in WorkId /\ o \in Owner /\ Exists(w)
          BY <1>4 DEF IInv, CallsCoherent, Claim
        <4>2. work' = [work EXCEPT ![w] = e]
          BY <1>4, <3>2 DEF Claim
        <4>3. work[w] = e
          BY <2>3, <4>1, <4>2 DEF IInv, TypeOK
        <4>4. work[w] \in Document
          BY <4>1, SoundDocuments DEF IInv
        <4>5. e.version = work[w].version + 1 /\ work[w].version \in Nat
          BY <4>1, <4>4, LeasedDocument DEF Document
        <4> QED
          BY <4>3, <4>5
      <3> QED
        BY <1>4, <3>1, <3>2 DEF Claim
    <2>4. work' = work \/ (Writes(w, e) /\ work[w].status = QueueOf(o))
      BY <1>4, ClaimWrites
    <2> HIDE DEF Kept
    <2> QED
      BY <2>2, <2>3, <2>4

  <1>5. ASSUME NEW c \in Call, AttachAuthorization(c)
        PROVE  Kept
    <2> DEFINE w == call[c].pick
               o == call[c].owner
               d == work[w]
               e == Authorized(d, d.crankerLease.version)
    <2>1. /\ Writes(w, e) /\ d.status = "CRANKER_LEASED" /\ o \in Cranker
          /\ LeaseHeld(d.crankerLease, o)
          /\ d.crankerLease.version = d.version /\ d.kind = "SETTLEMENT"
      BY <1>5, AttachWrites
    <2>2. /\ w \in WorkId /\ o \in Owner /\ o \notin Node /\ d \in Document
          /\ d.version \in Nat /\ d.version + 1 \in Nat /\ work'[w] = e
      BY <2>1, ReceiverAssumption DEF Writes, Owner, Document, IInv, TypeOK
    <2>3. /\ e.version = d.version + 1 /\ e.authorization = d.version
          /\ e.status = d.status /\ e.crankerLease = d.crankerLease /\ e.kind = d.kind
      BY <2>1, <2>2, AuthorizedDocument
    <2>4. d.crankerLease = [owner |-> o, version |-> d.version, expired |-> FALSE]
      <3>1. d.crankerLease # NoLease
        BY <2>1, <2>2, NoLeaseFacts
      <3>2. d.crankerLease \in [owner : Owner, version : Nat, expired : BOOLEAN]
        BY <2>2, <3>1 DEF Document, Lease
      <3> QED
        BY <2>1, <3>2 DEF LeaseHeld
    <2>5. ASSUME NEW g \in grants PROVE GrantOK(g)'
      <3>1. ASSUME g.id = w, g.live PROVE FALSE
        <4>1. GrantOK(g) /\ g \in Grant
          BY GrantsAreOK DEF GrantOK
        <4>2. g.owner \in Cranker /\ g.owner \notin Node
          BY <2>1, <3>1, <4>1, ReceiverAssumption DEF GrantOK, LeasedBy, Grant, Owner
        <4>3. d.crankerLease = [owner |-> g.owner, version |-> g.lease, expired |-> FALSE]
          BY <3>1, <4>1, <4>2 DEF GrantOK, LeaseOf
        <4>4. g.lease = d.version
          BY <2>1, <4>3
        <4>5. g.version = d.version /\ g.lease < g.version
          BY <2>1, <3>1, <4>1, <4>2 DEF GrantOK
        <4> QED
          BY <2>2, <4>4, <4>5
      <3> QED
        BY <2>1, <2>3, <3>1, GrantsAfterWrite
    <2>6. grants' = grants \cup {Told(w, o, d.version, d.version + 1)}
      BY <1>5, <2>1 DEF AttachAuthorization
    <2>7. PICK t : t = Told(w, o, d.version, d.version + 1)
      OBVIOUS
    <2>8. /\ t \in Grant /\ t.id = w /\ t.owner = o /\ t.lease = d.version
          /\ t.version = d.version + 1 /\ t.live
      BY <2>2, <2>7, ToldGrant
    <2>9. d.version < d.version + 1 /\ d.version + 1 <= d.version + 1
      BY <2>2
    <2>10. GrantOK(t)'
      <3> HIDE DEF d, e
      <3> QED
        BY <2>1, <2>2, <2>3, <2>4, <2>8, <2>9 DEF GrantOK, Exists, LeasedBy, LeaseOf
    <2> QED
      BY <2>5, <2>6, <2>7, <2>10
  <1>6. ASSUME NEW g \in grants, NEW verdict \in NodeVerdict, NodeReport(g, verdict)
        PROVE  Kept
    <2> DEFINE e == Judged(work[g.id], verdict, g.lease)
    <2>1. Writes(g.id, e) /\ g.live /\ g \in Grant
      BY <1>6, NodeReportWrites
    <2>2. e.version = work[g.id].version + 1
      BY <2>1, JudgedDocument DEF Writes, Grant
    <2>3. grants' = Retire(g)
      BY <1>6 DEF NodeReport
    <2> QED
      BY <2>1, <2>2, <2>3, GrantsAfterReport
  <1>7. ASSUME NEW g \in grants, NEW outcome \in CrankerOutcome,
               NEW sig \in Signature \cup {None}, CrankerReport(g, outcome, sig)
        PROVE  Kept
    <2> DEFINE e == Reported(work[g.id], outcome, sig, g.lease)
    <2>1. CASE work' = work /\ grants' = grants
      BY <1>1, <2>1
    <2>2. CASE Writes(g.id, e) /\ g.live /\ grants' = Retire(g)
      <3>1. e.version = work[g.id].version + 1
        BY <2>2 DEF Writes, Reported, Document
      <3> QED
        BY <2>2, <3>1, GrantsAfterReport
    <2>3. \/ work' = work /\ grants' = grants
          \/ Writes(g.id, e) /\ g.live /\ grants' = Retire(g)
      BY <1>7, CrankerReportWrites
    <2> HIDE DEF Kept, e
    <2> QED
      BY <2>1, <2>2, <2>3
  <1>8. ASSUME NEW w \in WorkId, ExpireLease(w)
        PROVE  Kept
    <2> DEFINE e == LeasePassed(work[w])
               Stopped(g) == IF g.id = w THEN [g EXCEPT !.live = FALSE] ELSE g
    <2>1. Writes(w, e) /\ work'[w] = e /\ work[w] \in Document
      BY <1>8, ExpireWrites DEF Writes, IInv, TypeOK
    <2>2. /\ e.nodeLease = Expired(work[w].nodeLease)
          /\ e.crankerLease = Expired(work[w].crankerLease)
          /\ e.status = work[w].status /\ e.version = work[w].version /\ e.kind = work[w].kind
      BY <2>1, LeasePassedDocument
    <2>3. grants' = {Stopped(g) : g \in grants}
      BY <1>8 DEF ExpireLease
    <2>4. ASSUME NEW g \in grants PROVE GrantOK(Stopped(g))'
      <3>1. GrantOK(g) /\ g \in Grant /\ g.id \in WorkId /\ g.owner \in Owner
        BY GrantsAreOK DEF GrantOK, Grant
      <3>2. CASE g.id # w
        <4>1. work'[g.id] = work[g.id] /\ Stopped(g) = g
          BY <2>1, <3>1, <3>2 DEF Writes, IInv, TypeOK
        <4>2. GrantOK(g)'
          BY <3>1, <4>1, GrantUntouched
        <4> QED
          BY <4>1, <4>2
      <3>3. CASE g.id = w
        <4>1. PICK q : q = [g EXCEPT !.live = FALSE]
          OBVIOUS
        <4>2. /\ q \in Grant /\ q.id = w /\ q.owner = g.owner /\ q.lease = g.lease
              /\ q.version = g.version /\ ~q.live
          BY <3>1, <3>3, <4>1, RetiredGrant
        <4>3. ~LeaseHeld(LeaseOf(g.owner, e), g.owner)
          BY <2>1, <2>2, <3>1, ExpiredLease DEF LeaseOf, Document
        <4>4. /\ Exists(w) /\ g.version <= work[w].version
              /\ g.owner \in Cranker /\ work[w].kind = "SETTLEMENT" => g.lease < g.version
          BY <3>1, <3>3 DEF GrantOK
        <4>5. GrantOK(q)'
          <5> HIDE DEF e
          <5> QED
            BY <2>1, <2>2, <4>2, <4>3, <4>4 DEF GrantOK, Exists
        <4>6. Stopped(g) = q
          BY <3>3, <4>1
        <4> QED
          BY <4>5, <4>6
      <3> QED
        BY <3>2, <3>3
    <2> HIDE DEF Stopped
    <2> QED
      BY <2>3, <2>4
  <1>9. ASSUME NEW c \in Call, ServeLease(c)
        PROVE  Kept
    <2>1. CASE \E o \in Owner : BeginLease(c, o)
      BY <1>1, <2>1 DEF BeginLease
    <2>2. CASE \E w \in call[c].todo : RequeueOne(c, w)
      BY <1>3, <2>2
    <2>3. CASE ScanCandidates(c)
      BY <1>1, <2>3 DEF ScanCandidates
    <2>4. CASE \E w \in call[c].todo : PickCandidate(c, w)
      BY <1>1, <2>4 DEF PickCandidate
    <2>5. CASE NothingToLease(c)
      BY <1>1, <2>5 DEF NothingToLease
    <2>6. CASE AuthorizationFails(c)
      BY <1>1, <2>6 DEF AuthorizationFails
    <2> QED
      BY <1>4, <1>5, <1>9, <2>1, <2>2, <2>3, <2>4, <2>5, <2>6 DEF ServeLease
  <1>10. CASE UNCHANGED vars
    BY <1>1, <1>10 DEF vars
  <1>11. ASSUME Next PROVE Kept
    <2>1. CASE \E r \in Ref, kind \in Kind, b \in Body : Receive(r, kind, b)
      BY <1>2, <2>1
    <2>2. CASE \E c \in Call : ServeLease(c)
      BY <1>9, <2>2
    <2>3. CASE \E g \in grants, verdict \in NodeVerdict : NodeReport(g, verdict)
      BY <1>6, <2>3
    <2>4. CASE \E g \in grants, outcome \in CrankerOutcome, sig \in Signature \cup {None} :
                 CrankerReport(g, outcome, sig)
      BY <1>7, <2>4
    <2>5. CASE \E w \in WorkId : ExpireLease(w)
      BY <1>8, <2>5
    <2> QED
      BY <1>11, <2>1, <2>2, <2>3, <2>4, <2>5 DEF Next
  <1> QED
    BY <1>10, <1>11

-----------------------------------------------------------------------------
(* The theorems.                                                           *)

LEMMA InitHolds == Init => IInv
  <1> SUFFICES ASSUME Init PROVE IInv
    OBVIOUS
  <1>0. PICK stored \in SUBSET Legacy : \E b \in [stored -> Body] :
          work = [w \in WorkId |-> IF w[1] \in stored /\ w[2] = "ingress"
                                     THEN NewWork("AUTHORIZED_FUNDING", b[w[1]]) ELSE Absent]
    BY DEF Init
  <1>1. PICK b \in [stored -> Body] :
          work = [w \in WorkId |-> IF w[1] \in stored /\ w[2] = "ingress"
                                     THEN NewWork("AUTHORIZED_FUNDING", b[w[1]]) ELSE Absent]
    BY <1>0
  <1>2. grants = {} /\ acks = {} /\ call = [c \in Call |-> IdleCall]
    BY DEF Init
  <1>3. ASSUME NEW w \in WorkId, Exists(w)
        PROVE  /\ w[2] = "ingress" /\ work[w] \in Document /\ Sound(work[w])
               /\ work[w].kind = "AUTHORIZED_FUNDING" /\ work[w].status = "RECEIVED"
    <2>1. w[1] \in stored /\ w[2] = "ingress" /\ work[w] = NewWork("AUTHORIZED_FUNDING", b[w[1]])
      BY <1>1, <1>3 DEF Exists, Absent
    <2>2. b[w[1]] \in Body /\ "AUTHORIZED_FUNDING" \in Kind
      BY <2>1 DEF Kind, ExternalKind
    <2> QED
      BY <2>1, <2>2, NewWorkDocument DEF Sound
  <1>4. work \in [WorkId -> Document \cup {Absent}]
    <2>1. ASSUME NEW w \in WorkId PROVE work[w] \in Document \cup {Absent}
      <3>1. CASE Exists(w)
        BY <1>3, <3>1
      <3>2. CASE ~Exists(w)
        <4>1. CASE w[1] \in stored /\ w[2] = "ingress"
          <5>1. b[w[1]] \in Body /\ "AUTHORIZED_FUNDING" \in Kind
            BY <4>1 DEF Kind, ExternalKind
          <5> QED
            BY <1>1, <4>1, <5>1, NewWorkDocument
        <4> QED
          BY <1>1, <4>1
      <3> QED
        BY <3>1, <3>2
    <2> QED
      BY <1>1, <2>1
  <1>5. TypeOK
    BY <1>2, <1>4 DEF TypeOK, IdleCall, Phase
  <1>6. KindsMatch /\ LeaseMatchesStatus /\ AttestedBeforeExecution
    BY <1>3 DEF KindsMatch, LeaseMatchesStatus, AttestedBeforeExecution, Sound
  <1>7. SettlementAfterFunding
    BY <1>3 DEF SettlementAfterFunding
  <1>8. OneSettlementPerPayment
    <2>1. ASSUME NEW r \in Ref, NEW a \in Body PROVE ~Exists(SettlementOf(r, a))
      BY <1>3, ReceiverAssumption DEF SettlementOf, WorkId
    <2> QED
      BY <2>1 DEF OneSettlementPerPayment
  <1>9. CallsCoherent
    BY <1>2 DEF CallsCoherent, IdleCall
  <1>10. AckedReportsStand /\ GrantsCoherent /\ HolderExclusive /\ AuthorizationFresh
    BY <1>2 DEF AckedReportsStand, GrantsCoherent, HolderExclusive, AuthorizationFresh
  <1> QED
    BY <1>5, <1>6, <1>7, <1>8, <1>9, <1>10 DEF IInv

LEMMA StepHolds == IInv /\ [Next]_vars => IInv'
  <1> SUFFICES ASSUME IInv, [Next]_vars PROVE IInv'
    OBVIOUS
  <1>1. GrantsCoherent' /\ HolderExclusive' /\ AuthorizationFresh' /\ (grants \subseteq Grant)'
    BY GrantsKept DEF GrantOK, GrantsCoherent, HolderExclusive, AuthorizationFresh
  <1>2. TypeOK'
    BY <1>1, CollectionGrows, CallsKept, AcksKept DEF TypeOK
  <1> QED
    BY <1>1, <1>2, CollectionInvariants, CallsKept, AcksKept DEF IInv

(* The inductive invariant holds throughout.                               *)
THEOREM Inductive == Spec => []IInv
  BY InitHolds, StepHolds, PTL DEF Spec

(* Documents, requests and histories keep their shapes.                    *)
THEOREM TypeCorrect == Spec => []TypeOK
  <1>1. IInv => TypeOK
    BY DEF IInv
  <1> QED
    BY <1>1, Inductive, PTL

(* However many requests interleave their stale queries, no two workers    *)
(* hold the same work, and no running lease is ever taken away.            *)
THEOREM ExclusiveHolders == Spec => []HolderExclusive
  <1>1. IInv => HolderExclusive
    BY DEF IInv
  <1> QED
    BY <1>1, Inductive, PTL

(* Settlements wait for confirmed funding, though the check is not part of *)
(* the transaction that leases them.                                       *)
THEOREM SettlementsWait == Spec => []SettlementAfterFunding
  <1>1. IInv => SettlementAfterFunding
    BY DEF IInv
  <1> QED
    BY <1>1, Inductive, PTL

(* A payment never has two settlements.                                    *)
THEOREM SettledOnce == Spec => []OneSettlementPerPayment
  <1>1. IInv => OneSettlementPerPayment
    BY DEF IInv
  <1> QED
    BY <1>1, Inductive, PTL

(* Nothing is executed that a Node did not accept.                         *)
THEOREM AttestedFirst == Spec => []AttestedBeforeExecution
  <1>1. IInv => AttestedBeforeExecution
    BY DEF IInv
  <1> QED
    BY <1>1, Inductive, PTL

(* A document is leased when and only when its status says so.             *)
THEOREM LeasesMatch == Spec => []LeaseMatchesStatus
  <1>1. IInv => LeaseMatchesStatus
    BY DEF IInv
  <1> QED
    BY <1>1, Inductive, PTL

(* A holder's payout authorization is the one for its own lease.           *)
THEOREM FreshAuthorizations == Spec => []AuthorizationFresh
  <1>1. IInv => AuthorizationFresh
    BY DEF IInv
  <1> QED
    BY <1>1, Inductive, PTL

(* An acknowledged report is never contradicted by the record.             *)
THEOREM AcksStand == Spec => []AckedReportsStand
  <1>1. IInv => AckedReportsStand
    BY DEF IInv
  <1> QED
    BY <1>1, Inductive, PTL

(* Finished work is never written again.                                   *)
THEOREM FinishedForever == Spec => FinishedStays
  <1>1. IInv /\ [Next]_vars =>
          [\A w \in WorkId : work[w].status \in Finished => work'[w] = work[w]]_vars
    BY CollectionGrows DEF Grows, Exists, Finished, CrankerOutcome
  <1> QED
    BY <1>1, Inductive, PTL DEF Spec, FinishedStays

(* What one step does to one stored document, for the two action properties*)
(* that speak of its fields.                                               *)
LEMMA DocumentStep ==
  ASSUME IInv, [Next]_vars, NEW w \in WorkId, Exists(w)
  PROVE  work'[w] = work[w] \/ (Evolves(work[w], work'[w]) /\ work[w] \in Document)
  <1>1. CASE \E r \in Ref, kind \in Kind, b \in Body : Creates(r, kind, b)
    BY <1>1 DEF Creates
  <1>2. CASE \E x, e : Writes(x, e)
    BY <1>2 DEF Writes, IInv, TypeOK
  <1> QED
    BY <1>1, <1>2, EveryStep

(* An outcome or a verdict is only ever recorded for the lease running at  *)
(* that moment.                                                            *)
THEOREM OutcomesOfRunningLeases == Spec => OutcomeOfRunningLease
  <1> DEFINE A == \A w \in WorkId : Exists(w) =>
       /\ work'[w].result # work[w].result =>
            work'[w].result.lease = work[w].crankerLease.version /\ ~work[w].crankerLease.expired
       /\ work'[w].verification # work[w].verification =>
            work'[w].verification.lease = work[w].nodeLease.version /\ ~work[w].nodeLease.expired
  <1>1. IInv /\ [Next]_vars => [A]_vars
    BY DocumentStep DEF Evolves
  <1> QED
    BY <1>1, Inductive, PTL DEF Spec, OutcomeOfRunningLease

(* Nothing is written to a document without a new version.                 *)
THEOREM VersionsFence == Spec => VersionFences
  <1> DEFINE A == \A w \in WorkId : Exists(w) /\ Written(work'[w]) # Written(work[w]) =>
                    work'[w].version > work[w].version
  <1>1. ASSUME IInv, [Next]_vars, NEW w \in WorkId, Exists(w),
               Written(work'[w]) # Written(work[w])
        PROVE  work'[w].version > work[w].version
    <2>1. Evolves(work[w], work'[w]) /\ work[w].version \in Nat
      BY <1>1, DocumentStep DEF Document
    <2> QED
      BY <1>1, <2>1 DEF Evolves
  <1>2. IInv /\ [Next]_vars => [A]_vars
    BY <1>1
  <1> QED
    BY <1>2, Inductive, PTL DEF Spec, VersionFences

-----------------------------------------------------------------------------
(* The queue implements WorkLifecycle: stage and holder, as the mapping of *)
(* ReceiverLifecycle reads them off the documents.                         *)

Stages == [w \in WorkId |-> StageOf[work[w].status]]
Holders == [w \in WorkId |-> HolderOf(work[w])]

LEMMA StagesOfStatuses ==
  /\ StageOf["ABSENT"] = "none" /\ StageOf["RECEIVED"] = "queued"
  /\ StageOf["NODE_VERIFYING"] = "checking" /\ StageOf["VERIFIED"] = "accepted"
  /\ StageOf["REJECTED"] = "rejected" /\ StageOf["CRANKER_LEASED"] = "executing"
  /\ StageOf["SUBMITTED"] = "submitted" /\ StageOf["CONFIRMED"] = "confirmed"
  /\ StageOf["FAILED"] = "failed"
  BY DEF StageOf

(* A write moves the stage and the holder of the one document it is of.    *)
LEMMA WriteMoves ==
  ASSUME IInv, NEW w, NEW e, Writes(w, e)
  PROVE  /\ Stages' = [Stages EXCEPT ![w] = StageOf[e.status]]
         /\ Holders' = [Holders EXCEPT ![w] = HolderOf(e)]
         /\ w \in WorkId /\ Stages[w] = StageOf[work[w].status]
         /\ Holders[w] = HolderOf(work[w])
  BY DEF Writes, Stages, Holders, IInv, TypeOK

LEMMA UnchangedStutters ==
  ASSUME work' = work
  PROVE  Stages' = Stages /\ Holders' = Holders
  BY DEF Stages, Holders

(* What a document may wait for is confirmed once it is eligible.          *)
LEMMA EligibleNeeds ==
  ASSUME IInv, NEW w \in WorkId, Exists(w), Eligible(w)
  PROVE  \A n \in (IF w[2] = "ingress" THEN {} ELSE {FundingOf(w)}) : Stages[n] = "confirmed"
  <1>1. CASE w[2] # "ingress"
    <2>1. FundingConfirmed(w)
      BY <1>1 DEF IInv, KindsMatch, Eligible
    <2>2. FundingOf(w) \in WorkId
      BY DEF FundingOf, WorkId, Ingress
    <2> QED
      BY <1>1, <2>1, <2>2, StagesOfStatuses DEF FundingConfirmed, Stages
  <1> QED
    BY <1>1

LEMMA InitRefines == Init => Lifecycle!Init
  <1> SUFFICES ASSUME Init PROVE Lifecycle!Init
    OBVIOUS
  <1>1. \A w \in WorkId : work[w].status \in {"ABSENT", "RECEIVED"}
    BY DEF Init, NewWork, Absent
  <1> QED
    BY <1>1, StagesOfStatuses DEF Lifecycle!Init, HolderOf

LEMMA CreatesAdmits ==
  ASSUME IInv, NEW r \in Ref, NEW kind \in Kind, NEW b \in Body, Creates(r, kind, b)
  PROVE  Lifecycle!Next \/ UNCHANGED Lifecycle!lifecycle
  <1> DEFINE S == {w \in WorkId : work'[w] # work[w]}
  <1>1. ASSUME NEW w \in S
        PROVE  work[w].status = "ABSENT" /\ work'[w].status = "RECEIVED"
    <2>1. NewWork(kind, b).status = "RECEIVED" /\ NewWork("SETTLEMENT", b).status = "RECEIVED"
      BY DEF NewWork
    <2> QED
      BY <2>1 DEF Creates, Exists
  <1>2. Stages' = [w \in WorkId |-> IF w \in S THEN "queued" ELSE Stages[w]]
    BY <1>1, StagesOfStatuses DEF Stages
  <1>3. Holders' = Holders
    BY <1>1 DEF Holders, HolderOf
  <1>4. \A w \in S : Stages[w] = "none"
    BY <1>1, StagesOfStatuses DEF Stages
  <1>5. CASE S # {}
    <2>1. S \in SUBSET WorkId
      OBVIOUS
    <2>2. Lifecycle!Admit(S)
      BY <1>2, <1>3, <1>4, <1>5 DEF Lifecycle!Admit, Stages, Holders
    <2> HIDE DEF S
    <2> QED
      BY <2>1, <2>2 DEF Lifecycle!Next, Lifecycle!Admit
  <1>6. CASE S = {}
    BY <1>2, <1>3, <1>6 DEF Lifecycle!lifecycle, Stages, Holders
  <1> QED
    BY <1>5, <1>6

LEMMA RequeueGivesBack ==
  ASSUME IInv, NEW c \in Call, NEW w \in call[c].todo, RequeueOne(c, w)
  PROVE  Lifecycle!Next \/ UNCHANGED Lifecycle!lifecycle
  <1> DEFINE o == call[c].owner
             e == Requeued(work[w], o)
  <1>1. CASE work' = work
    BY <1>1, UnchangedStutters DEF Lifecycle!lifecycle, Stages, Holders
  <1>2. CASE Writes(w, e) /\ StillStale(w, o)
    <2>1. e.status = QueueOf(o) /\ work[w].status = LeasedBy(o)
      BY <1>2 DEF Writes, Requeued, StillStale, Document
    <2>2. HolderOf(e) = None
      BY <2>1 DEF HolderOf, QueueOf
    <2>3. \/ Stages[w] = "checking" /\ Stages' = [Stages EXCEPT ![w] = "queued"]
          \/ Stages[w] = "executing" /\ Stages' = [Stages EXCEPT ![w] = "accepted"]
      BY <1>2, <2>1, WriteMoves, StagesOfStatuses DEF QueueOf, LeasedBy
    <2>4. w \in WorkId /\ Holders' = [Holders EXCEPT ![w] = None]
      BY <1>2, <2>2, WriteMoves
    <2> QED
      BY <2>3, <2>4 DEF Lifecycle!Next, Lifecycle!GiveBack, Stages, Holders
  <1> QED
    BY <1>1, <1>2, RequeueWrites

LEMMA ClaimTakes ==
  ASSUME IInv, NEW c \in Call, Claim(c)
  PROVE  Lifecycle!Next \/ UNCHANGED Lifecycle!lifecycle
  <1> DEFINE o == call[c].owner
             w == call[c].pick
             e == Leased(work[w], o)
  <1>1. CASE work' = work
    BY <1>1, UnchangedStutters DEF Lifecycle!lifecycle, Stages, Holders
  <1>2. CASE Writes(w, e) /\ work[w].status = QueueOf(o)
    <2>1. o \in Owner
      BY DEF IInv, CallsCoherent, Claim
    <2> DEFINE l == [owner |-> o, version |-> work[w].version + 1, expired |-> FALSE]
    <2>2. e.status = LeasedBy(o) /\ LeaseOf(o, e).owner = o
      <3>1. work[w] \in Document
        BY <1>2 DEF Writes
      <3>2. e.status = LeasedBy(o) /\ LeaseOf(o, e) = l
        BY <2>1, <3>1, LeasedDocument
      <3>3. l.owner = o
        OBVIOUS
      <3> QED
        BY <3>2, <3>3
    <2>3. HolderOf(e) = o
      BY <2>2 DEF HolderOf, LeasedBy, LeaseOf
    <2>4. \/ o \in Node /\ Stages[w] = "queued" /\ Stages' = [Stages EXCEPT ![w] = "checking"]
          \/ o \in Cranker /\ Stages[w] = "accepted" /\ Stages' = [Stages EXCEPT ![w] = "executing"]
      BY <1>2, <2>1, <2>2, WriteMoves, StagesOfStatuses DEF QueueOf, LeasedBy, Owner
    <2>5. w \in WorkId /\ Holders' = [Holders EXCEPT ![w] = o]
      BY <1>2, <2>3, WriteMoves
    <2>6. \A n \in (IF w[2] = "ingress" THEN {} ELSE {FundingOf(w)}) : Stages[n] = "confirmed"
      BY <1>2, EligibleNeeds DEF Writes
    <2>7. Lifecycle!Take(w, o)
      BY <2>4, <2>5, <2>6 DEF Lifecycle!Take, Stages, Holders
    <2> HIDE DEF o, w
    <2>8. w \in WorkId /\ o \in Node \cup Cranker
      BY <2>1, <2>5 DEF Owner
    <2> QED
      BY <2>7, <2>8 DEF Lifecycle!Next, Lifecycle!Take
  <1> QED
    BY <1>1, <1>2, ClaimWrites

(* A write that keeps the status and the leases' owners is not seen.       *)
LEMMA QuietWrite ==
  ASSUME IInv, NEW w, NEW e, Writes(w, e), e.status = work[w].status,
         e.nodeLease.owner = work[w].nodeLease.owner,
         e.crankerLease.owner = work[w].crankerLease.owner
  PROVE  UNCHANGED Lifecycle!lifecycle
  <1>1. HolderOf(e) = HolderOf(work[w])
    BY DEF HolderOf
  <1>2. w \in WorkId /\ work' = [work EXCEPT ![w] = e]
    BY DEF Writes
  <1>3. \A x \in WorkId : work'[x].status = work[x].status /\ HolderOf(work'[x]) = HolderOf(work[x])
    BY <1>1, <1>2 DEF IInv, TypeOK
  <1>4. Stages' = Stages /\ Holders' = Holders
    BY <1>3 DEF Stages, Holders
  <1> QED
    BY <1>4 DEF Lifecycle!lifecycle, Stages, Holders

LEMMA ReportJudges ==
  ASSUME IInv, NEW g \in grants, NEW verdict \in NodeVerdict, NodeReport(g, verdict)
  PROVE  Lifecycle!Next
  <1> DEFINE e == Judged(work[g.id], verdict, g.lease)
  <1>1. Writes(g.id, e) /\ work[g.id].status = "NODE_VERIFYING"
    BY NodeReportWrites
  <1>2. e.status = verdict
    BY <1>1 DEF Writes, Judged, Document
  <1>3. HolderOf(e) = None
    BY <1>2 DEF HolderOf, NodeVerdict
  <1>4. PICK v \in {"accepted", "rejected"} : StageOf[verdict] = v
    BY StagesOfStatuses DEF NodeVerdict
  <1>5. /\ g.id \in WorkId /\ Stages[g.id] = "checking"
        /\ Stages' = [Stages EXCEPT ![g.id] = v]
        /\ Holders' = [Holders EXCEPT ![g.id] = None]
    BY <1>1, <1>2, <1>3, <1>4, WriteMoves, StagesOfStatuses
  <1> QED
    BY <1>5 DEF Lifecycle!Next, Lifecycle!Judge, Stages, Holders

LEMMA ReportFinishes ==
  ASSUME IInv, NEW g \in grants, NEW outcome \in CrankerOutcome,
         NEW sig \in Signature \cup {None}, CrankerReport(g, outcome, sig)
  PROVE  Lifecycle!Next \/ UNCHANGED Lifecycle!lifecycle
  <1> DEFINE e == Reported(work[g.id], outcome, sig, g.lease)
  <1>1. CASE work' = work
    BY <1>1, UnchangedStutters DEF Lifecycle!lifecycle, Stages, Holders
  <1>2. CASE Writes(g.id, e) /\ work[g.id].status = "CRANKER_LEASED"
    <2>1. e.status = outcome
      BY <1>2 DEF Writes, Reported, Document
    <2>2. HolderOf(e) = None
      BY <2>1 DEF HolderOf, CrankerOutcome
    <2>3. PICK v \in {"submitted", "confirmed", "failed"} : StageOf[outcome] = v
      BY StagesOfStatuses DEF CrankerOutcome
    <2>4. /\ g.id \in WorkId /\ Stages[g.id] = "executing"
          /\ Stages' = [Stages EXCEPT ![g.id] = v]
          /\ Holders' = [Holders EXCEPT ![g.id] = None]
      BY <1>2, <2>1, <2>2, <2>3, WriteMoves, StagesOfStatuses
    <2> QED
      BY <2>4 DEF Lifecycle!Next, Lifecycle!Finish, Stages, Holders
  <1> QED
    BY <1>1, <1>2, CrankerReportWrites

(* Every step of the queue is a step of the lifecycle, or is not seen.     *)
LEMMA StepRefines ==
  ASSUME IInv, [Next]_vars
  PROVE  [Lifecycle!Next]_(Lifecycle!lifecycle)
  <1>1. CASE work' = work
    BY <1>1, UnchangedStutters DEF Lifecycle!lifecycle, Stages, Holders
  <1>2. CASE \E r \in Ref, kind \in Kind, b \in Body : Receive(r, kind, b)
    BY <1>2, ReceiveCreates, CreatesAdmits
  <1>3. ASSUME NEW c \in Call, ServeLease(c)
        PROVE  [Lifecycle!Next]_(Lifecycle!lifecycle)
    <2>1. CASE work' = work
      BY <1>1, <2>1
    <2>2. CASE \E w \in call[c].todo : RequeueOne(c, w)
      BY <2>2, RequeueGivesBack
    <2>3. CASE Claim(c)
      BY <2>3, ClaimTakes
    <2>4. CASE AttachAuthorization(c)
      <3> DEFINE w == call[c].pick
                 e == Authorized(work[w], work[w].crankerLease.version)
      <3>1. Writes(w, e)
        BY <2>4, AttachWrites
      <3>2. /\ e.status = work[w].status
            /\ e.nodeLease = work[w].nodeLease /\ e.crankerLease = work[w].crankerLease
        BY <3>1 DEF Writes, Authorized, Document
      <3> QED
        BY <3>1, <3>2, QuietWrite
    <2> QED
      BY <1>3, <2>1, <2>2, <2>3, <2>4
         DEF ServeLease, BeginLease, ScanCandidates, PickCandidate, NothingToLease,
             AuthorizationFails
  <1>4. CASE \E g \in grants, verdict \in NodeVerdict : NodeReport(g, verdict)
    BY <1>4, ReportJudges
  <1>5. CASE \E g \in grants, outcome \in CrankerOutcome, sig \in Signature \cup {None} :
               CrankerReport(g, outcome, sig)
    BY <1>5, ReportFinishes
  <1>6. ASSUME NEW w \in WorkId, ExpireLease(w)
        PROVE  UNCHANGED Lifecycle!lifecycle
    <2> DEFINE d == work[w]
               e == LeasePassed(d)
    <2>1. Writes(w, e)
      BY <1>6, ExpireWrites
    <2>2. /\ e.status = d.status
          /\ e.nodeLease = Expired(d.nodeLease) /\ e.crankerLease = Expired(d.crankerLease)
      BY <2>1, LeasePassedDocument DEF Writes
    <2>3. d.nodeLease \in Lease /\ d.crankerLease \in Lease
      BY <2>1 DEF Writes, Document
    <2> QED
      BY <2>1, <2>2, <2>3, ExpiredLease, QuietWrite
  <1> QED
    BY <1>1, <1>2, <1>3, <1>4, <1>5, <1>6 DEF Next, vars

(* The queue implements the lifecycle: whatever its stale queries, leases  *)
(* and retries do, each piece of work is judged once by the one Node that  *)
(* holds it, executed once by the one Cranker that holds it, and a         *)
(* settlement is not touched before its funding is confirmed.              *)
THEOREM QueueImplementsLifecycle == Spec => ImplementsLifecycle
  <1>1. IInv /\ [Next]_vars => [Lifecycle!Next]_(Lifecycle!lifecycle)
    BY StepRefines
  <1> QED
    BY <1>1, InitRefines, Inductive, PTL DEF Spec, ImplementsLifecycle, Lifecycle!Spec

-----------------------------------------------------------------------------
(* The pipeline: its inductive invariant.                                  *)

(* Acting on a lease, and having passed every check that comes before it.  *)
Working(o) == worker[o].pc \in {"holding", "consuming", "resolving", "confirming", "reporting", "failing"}
Passing(n) == At(n, "resolving") \/ (At(n, "reporting") /\ worker[n].says = "VERIFIED")

(* Each worker runs its own loop and acts on a lease it was given.         *)
WorkersCoherent ==
  \A o \in Owner :
    /\ call[o].pc # "idle" => call[o].owner = o
    /\ o \in Node => worker[o].pc \notin {"confirming", "failing"}
    /\ o \in Cranker => worker[o].pc \notin {"asleep", "consuming", "resolving"}
    /\ Working(o) => Held(o) \in Grant /\ Held(o).owner = o /\ Exists(Held(o).id)
    /\ At(o, "reporting") /\ o \in Node => worker[o].says \in NodeVerdict
    /\ At(o, "reporting") /\ o \in Cranker => chain[Deposit(o)] = "landed"
    /\ At(o, "consuming") \/ (o \in Node /\ Passing(o)) => Held(o).id = Ingress(PaymentOf(o))

(* A nonce that is used belongs to one acceptance, recorded or under way.  *)
NoncesSpentOnce ==
  /\ \A r \in Ref : Accepted(r) => NonceOf[r] \in used
  /\ \A n \in Node : Passing(n) =>
       /\ NonceOf[PaymentOf(n)] \in used
       /\ \A m \in Node : Passing(m) /\ NonceOf[PaymentOf(m)] = NonceOf[PaymentOf(n)] => m = n
       /\ \A r \in Ref : Accepted(r) => NonceOf[r] # NonceOf[PaymentOf(n)]

(* Until something goes wrong, every worker holds what it works on, every  *)
(* used nonce is accounted for, and every refusal has its reason.          *)
Spent(q) == Accepted(q) \/ \E n \in Node : Passing(n) /\ Held(n).id = Ingress(q)
ReasonToReject(r) == r \notin Valid \/ \E q \in Ref \ {r} : NonceOf[q] = NonceOf[r] /\ Exists(Ingress(q))
NoLuckNeeded ==
  faults = Faults =>
    /\ \A o \in Owner : Working(o) => Held(o) \in grants /\ Held(o).live
    /\ \A x \in used : \E q \in Ref : NonceOf[q] = x /\ Spent(q)
    /\ \A n \in Node : At(n, "reporting") /\ worker[n].says = "REJECTED" /\ Held(n).id = Ingress(PaymentOf(n)) =>
         ReasonToReject(PaymentOf(n))
    /\ \A n \in Node : At(n, "consuming") => PaymentOf(n) \in Valid
    /\ \A c \in Cranker : At(c, "failing") => chain[Deposit(c)] = "dead"

PInv ==
  /\ IInv /\ PTypeOK
  /\ WorkersCoherent
  /\ ConfirmedLanded
  /\ NoncesSpentOnce /\ NoReplayedAuthorization
  /\ NoLuckNeeded /\ NoVerdictWithoutReason

-----------------------------------------------------------------------------
(* The Receiver's side of a step.                                          *)

LEMMA DepositsAreSignatures ==
  ASSUME NEW c \in Owner, Held(c) \in Grant
  PROVE  /\ PaymentOf(c) \in Ref /\ Deposit(c) \in Signature
         /\ NonceOf[PaymentOf(c)] \in Nonce
  <1>1. Held(c).id \in WorkId
    BY DEF Grant
  <1>2. PaymentOf(c) \in Ref
    BY <1>1 DEF PaymentOf, WorkId
  <1> QED
    BY <1>2, PipelineAssumption DEF Deposit

LEMMA VerdictIsReport ==
  ASSUME PInv, NEW n \in Node, ReportVerdict(n)
  PROVE  \/ UNCHANGED vars
         \/ /\ Held(n) \in grants /\ worker[n].says \in NodeVerdict
            /\ NodeReport(Held(n), worker[n].says)
  <1>1. n \in Owner
    BY DEF Owner
  <1>2. worker[n].says \in NodeVerdict
    BY <1>1 DEF PInv, WorkersCoherent, ReportVerdict
  <1> QED
    BY <1>2 DEF ReportVerdict, NodeReport

LEMMA ConfirmedIsReport ==
  ASSUME PInv, NEW c \in Cranker, ReportConfirmed(c)
  PROVE  \/ UNCHANGED vars
         \/ /\ Held(c) \in grants /\ Deposit(c) \in Signature
            /\ CrankerReport(Held(c), "CONFIRMED", Deposit(c))
  <1>1. c \in Owner
    BY DEF Owner
  <1>2. Held(c) \in Grant
    BY <1>1 DEF PInv, WorkersCoherent, ReportConfirmed, Working, At
  <1> QED
    BY <1>1, <1>2, DepositsAreSignatures DEF ReportConfirmed, CrankerReport

LEMMA FailedIsReport ==
  ASSUME PInv, NEW c \in Cranker, ReportFailed(c)
  PROVE  \/ UNCHANGED vars
         \/ /\ Held(c) \in grants
            /\ CrankerReport(Held(c), "FAILED", None)
  BY DEF ReportFailed, CrankerReport

(* Every step of the pipeline is a step of the queue, or leaves it alone.  *)
LEMMA StepOfQueue ==
  ASSUME PInv, [PNext]_all
  PROVE  [Next]_vars
  <1>1. CASE UNCHANGED all
    BY <1>1 DEF all, vars
  <1>2. CASE \E r \in Ref, b \in Body : Submit(r, b)
    <2>1. "AUTHORIZED_FUNDING" \in Kind
      BY DEF Kind, ExternalKind
    <2> QED
      BY <1>2, <2>1 DEF Submit, Next
  <1>3. ASSUME NEW o \in Owner, Ask(o)
        PROVE  [Next]_vars
    <2>1. CASE BeginLease(o, o)
      <3>1. o \in Call
        BY PipelineAssumption
      <3>2. ServeLease(o)
        BY <2>1 DEF ServeLease
      <3> QED
        BY <3>1, <3>2 DEF Next
    <2> QED
      BY <1>3, <2>1 DEF Ask
  <1>4. ASSUME NEW o \in Owner, ServeWorker(o)
        PROVE  [Next]_vars
    <2>1. o \in Call /\ ServeLease(o)
      BY <1>4, PipelineAssumption DEF ServeWorker
    <2> QED
      BY <2>1 DEF Next
  <1>5. ASSUME NEW n \in Node, NodeStep(n)
        PROVE  [Next]_vars
    <2>1. CASE Ask(n)
      BY <1>3, <2>1 DEF Owner
    <2>2. CASE ReportVerdict(n)
      BY <2>2, VerdictIsReport DEF Next
    <2> QED
      BY <1>5, <2>1, <2>2 DEF NodeStep, WakeUp, Check, ConsumeNonce, Resolve, vars
  <1>6. ASSUME NEW c \in Cranker, CrankerStep(c)
        PROVE  [Next]_vars
    <2>1. CASE Ask(c)
      BY <1>3, <2>1 DEF Owner
    <2>2. CASE ReportConfirmed(c)
      BY <2>2, ConfirmedIsReport DEF Next, CrankerOutcome
    <2>3. CASE ReportFailed(c)
      BY <2>3, FailedIsReport DEF Next, CrankerOutcome
    <2> QED
      BY <1>6, <2>1, <2>2, <2>3 DEF CrankerStep, Send, Confirm, vars
  <1>7. CASE \E o \in Owner : Crash(o)
    BY <1>7 DEF Crash, vars
  <1>8. CASE \E s \in Signature : Land(s)
    BY <1>8 DEF Land, vars
  <1>9. CASE \E w \in WorkId : RunOut(w)
    BY <1>9 DEF RunOut, Next
  <1> QED
    BY <1>1, <1>2, <1>4, <1>5, <1>6, <1>7, <1>8, <1>9 DEF PNext

-----------------------------------------------------------------------------
(* Types.                                                                  *)

Place == {"asleep", "rest", "asking", "holding", "consuming", "resolving",
          "confirming", "reporting", "failing"}
Statement == NodeVerdict \cup {"NONE", "CONFIRMED"}
WorkerState == [pc : Place, held : Grant \cup {NoGrant}, says : Statement, failures : 0..FailureLimit]

LEMMA RestTypes ==
  /\ Resting \in WorkerState /\ Resting.pc = "rest"
  /\ Asleep \in WorkerState /\ Asleep.pc = "asleep"
  <1>1. 0 \in 0..FailureLimit
    BY PipelineAssumption
  <1>2. Resting \in WorkerState /\ Resting.pc = "rest"
    BY <1>1 DEF Resting, WorkerState, Place, Statement
  <1>3. Asleep \in WorkerState /\ Asleep.pc = "asleep"
    BY <1>1 DEF Resting, Asleep, WorkerState, Place, Statement
  <1> QED
    BY <1>2, <1>3

LEMMA FailureTypes ==
  ASSUME NEW o \in Owner, worker[o] \in WorkerState
  PROVE  AfterFailure(o) \in WorkerState /\ AfterFailure(o).pc \in {"rest", "asleep"}
         /\ (o \in Cranker => AfterFailure(o).pc = "rest")
  <1> DEFINE n == worker[o].failures + 1
  <1>1. n \in Nat /\ FailureLimit \in Nat
    BY PipelineAssumption DEF WorkerState
  <1>2. CASE o \in Node /\ n < FailureLimit
    <2>1. n \in 0..FailureLimit
      BY <1>1, <1>2
    <2>2. AfterFailure(o) = [Resting EXCEPT !.failures = n]
      BY <1>2 DEF AfterFailure
    <2>3. [Resting EXCEPT !.failures = n] \in WorkerState /\ [Resting EXCEPT !.failures = n].pc = "rest"
      BY <2>1 DEF Resting, WorkerState, Place, Statement
    <2> QED
      BY <2>2, <2>3
  <1>3. CASE ~(o \in Node /\ n < FailureLimit)
    <2>1. AfterFailure(o) = IF o \in Node THEN Asleep ELSE Resting
      BY <1>3 DEF AfterFailure
    <2> QED
      BY <2>1, RestTypes, ReceiverAssumption
  <1> QED
    BY <1>2, <1>3

(* What the operators that change one worker leave it in.                  *)
LEMMA GoesTo ==
  ASSUME PTypeOK, NEW o \in Owner, NEW pc \in Place, Goes(o, pc)
  PROVE  /\ worker' \in [Owner -> WorkerState]
         /\ worker'[o].pc = pc /\ worker'[o].held = worker[o].held
         /\ worker'[o].says = worker[o].says
         /\ \A x \in Owner : x # o => worker'[x] = worker[x]
  <1>1. worker \in [Owner -> WorkerState]
    BY DEF PTypeOK, WorkerState, Place, Statement
  <1>2. worker[o] \in WorkerState
    BY <1>1
  <1>3. [worker[o] EXCEPT !.pc = pc] \in WorkerState
    BY <1>2 DEF WorkerState
  <1>4. /\ [worker[o] EXCEPT !.pc = pc].pc = pc
        /\ [worker[o] EXCEPT !.pc = pc].held = worker[o].held
        /\ [worker[o] EXCEPT !.pc = pc].says = worker[o].says
    BY <1>2 DEF WorkerState
  <1> QED
    BY <1>1, <1>3, <1>4 DEF Goes, Becomes

LEMMA SaysThat ==
  ASSUME PTypeOK, NEW o \in Owner, NEW v \in Statement, NEW pc \in Place, Says(o, v, pc)
  PROVE  /\ worker' \in [Owner -> WorkerState]
         /\ worker'[o].pc = pc /\ worker'[o].held = worker[o].held
         /\ worker'[o].says = v
         /\ \A x \in Owner : x # o => worker'[x] = worker[x]
  <1>1. worker \in [Owner -> WorkerState]
    BY DEF PTypeOK, WorkerState, Place, Statement
  <1>2. worker[o] \in WorkerState
    BY <1>1
  <1>3. [worker[o] EXCEPT !.pc = pc, !.says = v] \in WorkerState
    BY <1>2 DEF WorkerState
  <1>4. /\ [worker[o] EXCEPT !.pc = pc, !.says = v].pc = pc
        /\ [worker[o] EXCEPT !.pc = pc, !.says = v].held = worker[o].held
        /\ [worker[o] EXCEPT !.pc = pc, !.says = v].says = v
    BY <1>2 DEF WorkerState
  <1> QED
    BY <1>1, <1>3, <1>4 DEF Says, Becomes

LEMMA BecomesThat ==
  ASSUME PTypeOK, NEW o \in Owner, NEW w \in WorkerState, Becomes(o, w)
  PROVE  /\ worker' \in [Owner -> WorkerState]
         /\ worker'[o] = w
         /\ \A x \in Owner : x # o => worker'[x] = worker[x]
  BY DEF PTypeOK, WorkerState, Place, Statement, Becomes

-----------------------------------------------------------------------------
(* How a worker moves in a step, its own or another's.                     *)

(* It was answered with a lease.                                           *)
Receives(o) ==
  /\ At(o, "asking") /\ worker'[o].pc = "holding"
  /\ worker'[o].held \in grants' \ grants
  /\ worker'[o].held.owner = o /\ worker'[o].held.live

(* It keeps its lease and comes to a conclusion about the payment.         *)
Refuses(n) ==
  /\ n \in Node /\ worker[n].pc \in {"holding", "consuming", "resolving"}
  /\ worker'[n].pc = "reporting" /\ worker'[n].says = "REJECTED"
  /\ UNCHANGED vars
  /\ \/ Fault
     \/ At(n, "holding") /\ (work[Held(n).id].kind = "SETTLEMENT" \/ PaymentOf(n) \notin Valid)
     \/ At(n, "consuming") /\ NonceOf[PaymentOf(n)] \in used

Examines(n) ==
  /\ n \in Node /\ At(n, "holding") /\ worker'[n].pc = "consuming"
  /\ work[Held(n).id].kind # "SETTLEMENT" /\ PaymentOf(n) \in Valid

Spends(n) ==
  /\ n \in Node /\ At(n, "consuming") /\ worker'[n].pc = "resolving"
  /\ NonceOf[PaymentOf(n)] \notin used /\ used' = used \cup {NonceOf[PaymentOf(n)]}
  /\ \A x \in Owner : x # n => worker'[x] = worker[x]
  /\ UNCHANGED vars

Accepts(n) ==
  /\ n \in Node /\ At(n, "resolving")
  /\ worker'[n].pc = "reporting" /\ worker'[n].says = "VERIFIED"

Proceeds(c) ==
  /\ c \in Cranker
  /\ \/ At(c, "holding") /\ worker'[c].pc = "confirming"
     \/ /\ At(c, "confirming") /\ worker'[c].pc = "reporting"
        /\ chain[Deposit(c)] = "landed" /\ UNCHANGED chain

Fails(c) ==
  /\ c \in Cranker /\ Working(c) /\ worker'[c].pc = "failing"
  /\ \/ Fault
     \/ chain[Deposit(c)] = "dead"
     \/ At(c, "reporting") /\ ~CanReport(Held(c), "CONFIRMED", Deposit(c))

(* It reported what it found, while its lease allowed that.                *)
VerdictOf(n) ==
  /\ ReportVerdict(n) /\ At(n, "reporting")
  /\ Held(n) \in grants /\ worker[n].says \in NodeVerdict
  /\ NodeReport(Held(n), worker[n].says)

OutcomeOf(c) ==
  /\ Held(c) \in grants
  /\ \/ /\ At(c, "reporting") /\ Deposit(c) \in Signature
        /\ CrankerReport(Held(c), "CONFIRMED", Deposit(c))
     \/ At(c, "failing") /\ CrankerReport(Held(c), "FAILED", None)

(* It let go of its lease: because of a fault, because it reported, or     *)
(* because the lease was no longer running.                                *)
Leaves(o) ==
  /\ worker'[o].pc \in {"rest", "asking"} \cup (IF o \in Node THEN {"asleep"} ELSE {})
  /\ \/ ~Working(o)
     \/ Fault
     \/ o \in Node /\ VerdictOf(o)
     \/ o \in Cranker /\ OutcomeOf(o)
     \/ ~StillRunning(Held(o))

Moves(o) ==
  \/ worker'[o] = worker[o]
  \/ /\ Held(o) \in grants /\ (Held(o).live => Fault)
     /\ worker'[o] = [worker[o] EXCEPT !.held.live = FALSE]
  \/ Leaves(o)
  \/ Receives(o)
  \/ /\ worker'[o].held = worker[o].held
     /\ Refuses(o) \/ Examines(o) \/ Spends(o) \/ Accepts(o) \/ Proceeds(o) \/ Fails(o)

(* A lease that appears is the caller's, and runs.                         *)
LEMMA ServedLease ==
  ASSUME NEW o \in Owner, ServeLease(o), call[o].pc # "idle", call[o].owner = o,
         NEW g \in grants' \ grants
  PROVE  g.owner = o /\ g.live
  <1>1. CASE Claim(o)
    BY <1>1 DEF Claim, Told
  <1>2. CASE AttachAuthorization(o)
    BY <1>2 DEF AttachAuthorization, Told
  <1> QED
    BY <1>1, <1>2 DEF ServeLease, BeginLease, RequeueOne, ScanCandidates, PickCandidate,
                      NothingToLease, AuthorizationFails

Typed == worker' \in [Owner -> WorkerState] /\ \A o \in Owner : Moves(o)

LEMMA StillTyped ==
  ASSUME PTypeOK, UNCHANGED worker
  PROVE  Typed
  BY DEF Typed, Moves, PTypeOK, WorkerState, Place, Statement

LEMMA OneMoves ==
  ASSUME NEW o \in Owner, worker' \in [Owner -> WorkerState], Moves(o),
         \A x \in Owner : x # o => worker'[x] = worker[x]
  PROVE  Typed
  BY DEF Typed, Moves

LEMMA Rests ==
  ASSUME PTypeOK, NEW o \in Owner,
         \/ Becomes(o, AfterFailure(o))
         \/ Becomes(o, Resting)
         \/ Becomes(o, IF o \in Node THEN Asleep ELSE Resting),
         \/ ~Working(o)
         \/ Fault
         \/ o \in Node /\ VerdictOf(o)
         \/ o \in Cranker /\ OutcomeOf(o)
         \/ ~StillRunning(Held(o))
  PROVE  Typed /\ worker'[o].pc \in {"rest", "asleep"}
  <1>1. worker[o] \in WorkerState
    BY DEF PTypeOK, WorkerState, Place, Statement
  <1>2. PICK w \in WorkerState :
           /\ Becomes(o, w) /\ w.pc \in {"rest", "asleep"}
           /\ o \notin Node => w.pc = "rest"
    BY <1>1, FailureTypes, RestTypes DEF Owner
  <1>3. /\ worker' \in [Owner -> WorkerState]
        /\ worker'[o] = w
        /\ \A x \in Owner : x # o => worker'[x] = worker[x]
    BY <1>2, BecomesThat
  <1>4. Leaves(o)
    BY <1>2, <1>3 DEF Leaves
  <1> QED
    BY <1>2, <1>3, <1>4, OneMoves DEF Moves

LEMMA AskMoves ==
  ASSUME PInv, NEW o \in Owner, Ask(o)
  PROVE  Typed
  <1>1. PTypeOK /\ ~Working(o)
    BY DEF PInv, Ask, At, Working
  <1>2. CASE Becomes(o, AfterFailure(o))
    BY <1>1, <1>2, Rests
  <1>3. CASE Goes(o, "asking")
    <2>1. "asking" \in Place
      BY DEF Place
    <2> QED
      BY <1>1, <1>3, <2>1, GoesTo, OneMoves DEF Moves, Leaves
  <1> QED
    BY <1>2, <1>3 DEF Ask

LEMMA ServeMoves ==
  ASSUME PInv, IInv', NEW o \in Owner, ServeWorker(o)
  PROVE  Typed
  <1>1. PTypeOK /\ call[o].owner = o
    BY DEF PInv, WorkersCoherent, ServeWorker
  <1>2. CASE UNCHANGED worker
    BY <1>1, <1>2, StillTyped
  <1>3. CASE /\ At(o, "asking")
             /\ Becomes(o, AfterFailure(o)) \/ Becomes(o, IF o \in Node THEN Asleep ELSE Resting)
    <2>1. ~Working(o)
      BY <1>3 DEF At, Working
    <2> QED
      BY <1>1, <1>3, <2>1, Rests
  <1>4. ASSUME NEW g \in grants' \ grants, At(o, "asking"),
               Becomes(o, [worker[o] EXCEPT !.pc = "holding", !.held = g])
        PROVE  Typed
    <2> DEFINE w == [worker[o] EXCEPT !.pc = "holding", !.held = g]
    <2>1. worker[o] \in WorkerState
      BY <1>1 DEF PTypeOK, WorkerState, Place, Statement
    <2>2. g \in Grant
      BY DEF IInv, TypeOK
    <2>3. w \in WorkerState /\ w.pc = "holding" /\ w.held = g
      BY <2>1, <2>2 DEF WorkerState, Place
    <2>4. /\ worker' \in [Owner -> WorkerState] /\ worker'[o] = w
          /\ \A x \in Owner : x # o => worker'[x] = worker[x]
      BY <1>1, <1>4, <2>3, BecomesThat
    <2>5. g.owner = o /\ g.live
      BY <1>1, ServedLease DEF ServeWorker
    <2>6. Receives(o)
      BY <1>4, <2>3, <2>4, <2>5 DEF Receives
    <2> QED
      BY <2>4, <2>6, OneMoves DEF Moves
  <1> QED
    BY <1>2, <1>3, <1>4 DEF ServeWorker

LEMMA NodeMoves ==
  ASSUME PInv, NEW n \in Node, NodeStep(n)
  PROVE  Typed
  <1>1. PTypeOK /\ n \in Owner /\ n \notin Cranker
    BY ReceiverAssumption DEF PInv, Owner
  <1>2. /\ "rest" \in Place /\ "reporting" \in Place /\ "consuming" \in Place
        /\ "resolving" \in Place
        /\ "REJECTED" \in Statement /\ "VERIFIED" \in Statement
    BY DEF Place, Statement, NodeVerdict
  <1>3. CASE Ask(n)
    BY <1>1, <1>3, AskMoves
  <1>4. CASE WakeUp(n)
    <2>1. Goes(n, "rest") /\ ~Working(n)
      BY <1>4 DEF WakeUp, At, Working
    <2> QED
      BY <1>1, <1>2, <2>1, GoesTo, OneMoves DEF Moves, Leaves
  <1>5. CASE Check(n)
    <2>1. At(n, "holding") /\ UNCHANGED vars
      BY <1>5 DEF Check
    <2>2. CASE Says(n, "REJECTED", "reporting")
               /\ (Fault \/ work[Held(n).id].kind = "SETTLEMENT" \/ PaymentOf(n) \notin Valid)
      <3>1. /\ worker' \in [Owner -> WorkerState]
            /\ worker'[n].pc = "reporting" /\ worker'[n].held = worker[n].held
            /\ worker'[n].says = "REJECTED"
            /\ \A x \in Owner : x # n => worker'[x] = worker[x]
        BY <1>1, <1>2, <2>2, SaysThat
      <3>2. Refuses(n)
        BY <2>1, <2>2, <3>1 DEF Refuses, At
      <3> QED
        BY <1>1, <3>1, <3>2, OneMoves DEF Moves
    <2>3. CASE /\ Goes(n, "consuming")
               /\ ~(work[Held(n).id].kind = "SETTLEMENT" \/ PaymentOf(n) \notin Valid)
      <3>1. /\ worker' \in [Owner -> WorkerState]
            /\ worker'[n].pc = "consuming" /\ worker'[n].held = worker[n].held
            /\ \A x \in Owner : x # n => worker'[x] = worker[x]
        BY <1>1, <1>2, <2>3, GoesTo
      <3>2. Examines(n)
        BY <2>1, <2>3, <3>1 DEF Examines
      <3> QED
        BY <1>1, <3>1, <3>2, OneMoves DEF Moves
    <2> QED
      BY <1>5, <2>2, <2>3 DEF Check
  <1>6. CASE ConsumeNonce(n)
    <2> DEFINE nonce == NonceOf[PaymentOf(n)]
    <2>1. At(n, "consuming") /\ UNCHANGED vars /\ used' = used \cup {nonce}
      BY <1>6 DEF ConsumeNonce
    <2>2. CASE nonce \notin used /\ Goes(n, "resolving")
      <3>1. /\ worker' \in [Owner -> WorkerState]
            /\ worker'[n].pc = "resolving" /\ worker'[n].held = worker[n].held
            /\ \A x \in Owner : x # n => worker'[x] = worker[x]
        BY <1>1, <1>2, <2>2, GoesTo
      <3>2. Spends(n)
        BY <2>1, <2>2, <3>1 DEF Spends
      <3> QED
        BY <1>1, <3>1, <3>2, OneMoves DEF Moves
    <2>3. CASE Says(n, "REJECTED", "reporting") /\ (nonce \in used \/ Fault)
      <3>1. /\ worker' \in [Owner -> WorkerState]
            /\ worker'[n].pc = "reporting" /\ worker'[n].held = worker[n].held
            /\ worker'[n].says = "REJECTED"
            /\ \A x \in Owner : x # n => worker'[x] = worker[x]
        BY <1>1, <1>2, <2>3, SaysThat
      <3>2. Refuses(n)
        BY <2>1, <2>3, <3>1 DEF Refuses, At
      <3> QED
        BY <1>1, <3>1, <3>2, OneMoves DEF Moves
    <2> QED
      BY <1>6, <2>2, <2>3 DEF ConsumeNonce
  <1>7. CASE Resolve(n)
    <2>1. At(n, "resolving") /\ UNCHANGED vars
      BY <1>7 DEF Resolve
    <2>2. CASE Says(n, "VERIFIED", "reporting")
      <3>1. /\ worker' \in [Owner -> WorkerState]
            /\ worker'[n].pc = "reporting" /\ worker'[n].held = worker[n].held
            /\ worker'[n].says = "VERIFIED"
            /\ \A x \in Owner : x # n => worker'[x] = worker[x]
        BY <1>1, <1>2, <2>2, SaysThat
      <3>2. Accepts(n)
        BY <2>1, <3>1 DEF Accepts
      <3> QED
        BY <1>1, <3>1, <3>2, OneMoves DEF Moves
    <2>3. CASE Says(n, "REJECTED", "reporting") /\ Fault
      <3>1. /\ worker' \in [Owner -> WorkerState]
            /\ worker'[n].pc = "reporting" /\ worker'[n].held = worker[n].held
            /\ worker'[n].says = "REJECTED"
            /\ \A x \in Owner : x # n => worker'[x] = worker[x]
        BY <1>1, <1>2, <2>3, SaysThat
      <3>2. Refuses(n)
        BY <2>1, <2>3, <3>1 DEF Refuses, At
      <3> QED
        BY <1>1, <3>1, <3>2, OneMoves DEF Moves
    <2> QED
      BY <1>7, <2>2, <2>3 DEF Resolve
  <1>8. CASE ReportVerdict(n)
    <2>1. Becomes(n, Resting) \/ Becomes(n, AfterFailure(n))
      BY <1>8 DEF ReportVerdict
    <2>2. CASE NodeReport(Held(n), worker[n].says)
      <3>1. worker[n].says \in NodeVerdict /\ At(n, "reporting")
        BY <1>1, <1>8 DEF PInv, WorkersCoherent, ReportVerdict
      <3>2. VerdictOf(n)
        BY <1>8, <2>2, <3>1 DEF VerdictOf, NodeReport
      <3> QED
        BY <1>1, <2>1, <3>2, Rests
    <2>3. CASE Fault \/ ~StillRunning(Held(n))
      BY <1>1, <2>1, <2>3, Rests
    <2> QED
      BY <1>8, <2>2, <2>3 DEF ReportVerdict
  <1> QED
    BY <1>3, <1>4, <1>5, <1>6, <1>7, <1>8 DEF NodeStep

(* A Cranker that gives up keeps its lease for the report of the failure.  *)
LEMMA FailingMoves ==
  ASSUME PTypeOK, NEW c \in Cranker, Goes(c, "failing"), Working(c),
         \/ Fault
         \/ chain[Deposit(c)] = "dead"
         \/ At(c, "reporting") /\ ~CanReport(Held(c), "CONFIRMED", Deposit(c))
  PROVE  Typed
  <1>1. c \in Owner /\ "failing" \in Place
    BY DEF Owner, Place
  <1>2. /\ worker' \in [Owner -> WorkerState]
        /\ worker'[c].pc = "failing" /\ worker'[c].held = worker[c].held
        /\ \A x \in Owner : x # c => worker'[x] = worker[x]
    BY <1>1, GoesTo
  <1>3. Fails(c)
    BY <1>2 DEF Fails
  <1> QED
    BY <1>1, <1>2, <1>3, OneMoves DEF Moves

LEMMA CrankerMoves ==
  ASSUME PInv, NEW c \in Cranker, CrankerStep(c)
  PROVE  Typed
  <1>1. PTypeOK /\ c \in Owner /\ c \notin Node
    BY ReceiverAssumption DEF PInv, Owner
  <1>2. "confirming" \in Place /\ "reporting" \in Place /\ "CONFIRMED" \in Statement
    BY DEF Place, Statement
  <1>3. CASE Ask(c)
    BY <1>1, <1>3, AskMoves
  <1>4. CASE Send(c)
    <2>1. At(c, "holding") /\ Working(c)
      BY <1>4 DEF Send, At, Working
    <2>2. CASE Goes(c, "failing") /\ (Fault \/ chain[Deposit(c)] = "dead")
      BY <1>1, <2>1, <2>2, FailingMoves
    <2>3. CASE Goes(c, "confirming")
      <3>1. /\ worker' \in [Owner -> WorkerState]
            /\ worker'[c].pc = "confirming" /\ worker'[c].held = worker[c].held
            /\ \A x \in Owner : x # c => worker'[x] = worker[x]
        BY <1>1, <1>2, <2>3, GoesTo
      <3>2. Proceeds(c)
        BY <2>1, <3>1 DEF Proceeds
      <3> QED
        BY <1>1, <3>1, <3>2, OneMoves DEF Moves
    <2> QED
      BY <1>4, <2>2, <2>3 DEF Send
  <1>5. CASE Confirm(c)
    <2>1. At(c, "confirming") /\ Working(c) /\ UNCHANGED chain
      BY <1>5 DEF Confirm, At, Working
    <2>2. CASE Goes(c, "failing") /\ (Fault \/ chain[Deposit(c)] = "dead")
      BY <1>1, <2>1, <2>2, FailingMoves
    <2>3. CASE Says(c, "CONFIRMED", "reporting") /\ chain[Deposit(c)] = "landed"
      <3>1. /\ worker' \in [Owner -> WorkerState]
            /\ worker'[c].pc = "reporting" /\ worker'[c].held = worker[c].held
            /\ \A x \in Owner : x # c => worker'[x] = worker[x]
        BY <1>1, <1>2, <2>3, SaysThat
      <3>2. Proceeds(c)
        BY <2>1, <2>3, <3>1 DEF Proceeds
      <3> QED
        BY <1>1, <3>1, <3>2, OneMoves DEF Moves
    <2> QED
      BY <1>5, <2>2, <2>3 DEF Confirm
  <1>6. CASE ReportConfirmed(c)
    <2>1. At(c, "reporting") /\ Working(c)
      BY <1>6 DEF ReportConfirmed, At, Working
    <2>2. CASE Becomes(c, Resting) /\ CrankerReport(Held(c), "CONFIRMED", Deposit(c))
      <3>1. Held(c) \in Grant
        BY <1>1, <2>1 DEF PInv, WorkersCoherent
      <3>2. OutcomeOf(c)
        BY <1>1, <2>1, <2>2, <3>1, DepositsAreSignatures DEF OutcomeOf, CrankerReport
      <3> QED
        BY <1>1, <2>2, <3>2, Rests
    <2>3. CASE Goes(c, "failing") /\ (Fault \/ ~CanReport(Held(c), "CONFIRMED", Deposit(c)))
      BY <1>1, <2>1, <2>3, FailingMoves
    <2> QED
      BY <1>6, <2>2, <2>3 DEF ReportConfirmed
  <1>7. CASE ReportFailed(c)
    <2>1. Becomes(c, Resting) /\ At(c, "failing")
      BY <1>7 DEF ReportFailed
    <2>2. CASE CrankerReport(Held(c), "FAILED", None)
      <3>1. OutcomeOf(c)
        BY <2>1, <2>2 DEF OutcomeOf, CrankerReport
      <3> QED
        BY <1>1, <2>1, <3>1, Rests
    <2>3. CASE Fault \/ ~StillRunning(Held(c))
      BY <1>1, <2>1, <2>3, Rests
    <2> QED
      BY <1>7, <2>2, <2>3 DEF ReportFailed, CanReport
  <1> QED
    BY <1>3, <1>4, <1>5, <1>6, <1>7 DEF CrankerStep

LEMMA RunOutMoves ==
  ASSUME PInv, NEW w \in WorkId, RunOut(w)
  PROVE  Typed
  <1>1. worker \in [Owner -> WorkerState]
    BY DEF PInv, PTypeOK, WorkerState, Place, Statement
  <1>2. worker' = [o \in Owner |->
           IF Held(o) \in grants /\ Held(o).id = w
             THEN [worker[o] EXCEPT !.held.live = FALSE] ELSE worker[o]]
    BY DEF RunOut
  <1>3. ASSUME NEW o \in Owner
        PROVE  worker'[o] \in WorkerState /\ Moves(o)
    <2>1. CASE Held(o) \in grants /\ Held(o).id = w
      <3>0. Held(o).live => Fault
        BY <2>1 DEF RunOut, Busy
      <3>1. Held(o) \in Grant /\ worker[o] \in WorkerState
        BY <1>1, <2>1 DEF PInv, IInv, TypeOK
      <3>2. [worker[o].held EXCEPT !.live = FALSE] \in Grant
        BY <3>1 DEF Held, Grant
      <3>3. [worker[o] EXCEPT !.held.live = FALSE] \in WorkerState
        BY <3>1, <3>2 DEF WorkerState
      <3> QED
        BY <1>2, <2>1, <3>0, <3>3 DEF Moves
    <2>2. CASE ~(Held(o) \in grants /\ Held(o).id = w)
      BY <1>1, <1>2, <2>2 DEF Moves
    <2> QED
      BY <2>1, <2>2
  <1>4. worker' \in [Owner -> WorkerState]
    BY <1>2, <1>3
  <1> QED
    BY <1>3, <1>4 DEF Typed

LEMMA EveryoneMoves ==
  ASSUME PInv, IInv', [PNext]_all
  PROVE  Typed
  <1>1. PTypeOK
    BY DEF PInv
  <1>2. CASE UNCHANGED worker
    BY <1>1, <1>2, StillTyped
  <1>3. CASE \E o \in Owner : ServeWorker(o)
    BY <1>3, ServeMoves
  <1>4. CASE \E o \in Owner : Crash(o)
    BY <1>1, <1>4, Rests DEF Crash
  <1>5. CASE \E n \in Node : NodeStep(n)
    BY <1>5, NodeMoves
  <1>6. CASE \E c \in Cranker : CrankerStep(c)
    BY <1>6, CrankerMoves
  <1>7. CASE \E w \in WorkId : RunOut(w)
    BY <1>7, RunOutMoves
  <1> QED
    BY <1>2, <1>3, <1>4, <1>5, <1>6, <1>7 DEF PNext, Submit, Land, all, world

-----------------------------------------------------------------------------
(* The chain, the nonce store, the wake event and the faults.              *)

(* The fate of a deposit is final.                                         *)
LEMMA ChainKept ==
  ASSUME PTypeOK, [PNext]_all
  PROVE  /\ chain' \in [Signature -> {"new", "sent", "landed", "dead"}]
         /\ \A s \in Signature : chain[s] \in {"landed", "dead"} => chain'[s] = chain[s]
  <1>1. chain \in [Signature -> {"new", "sent", "landed", "dead"}]
    BY DEF PTypeOK
  <1>2. CASE UNCHANGED chain
    BY <1>1, <1>2
  <1>3. ASSUME NEW c \in Cranker, Send(c)
        PROVE  \/ UNCHANGED chain
               \/ chain[Deposit(c)] = "new" /\ chain' = [chain EXCEPT ![Deposit(c)] = "sent"]
    <2> DEFINE s == Deposit(c)
    <2>1. CASE chain[s] = "new" /\ chain' = [chain EXCEPT ![s] = "sent"]
      BY <2>1
    <2>2. CASE chain' \in {chain, [chain EXCEPT ![s] = IF @ = "new" THEN "sent" ELSE @]}
      BY <1>1, <2>2
    <2> QED
      BY <1>3, <2>1, <2>2 DEF Send
  <1>4. CASE \E c \in Cranker : Send(c)
    BY <1>1, <1>3, <1>4
  <1>5. CASE \E s \in Signature : Land(s)
    BY <1>1, <1>5 DEF Land
  <1>6. CASE \E r \in Ref, b \in Body : Submit(r, b)
    BY <1>2, <1>6 DEF Submit
  <1>7. CASE \E o \in Owner : ServeWorker(o) \/ Crash(o)
    BY <1>2, <1>7 DEF ServeWorker, Crash
  <1>8. CASE \E n \in Node : NodeStep(n)
    BY <1>2, <1>8 DEF NodeStep, Ask, WakeUp, Check, ConsumeNonce, Resolve, ReportVerdict
  <1>9. CASE \E c \in Cranker : CrankerStep(c)
    BY <1>2, <1>4, <1>9 DEF CrankerStep, Ask, Confirm, ReportConfirmed, ReportFailed
  <1>10. CASE \E w \in WorkId : RunOut(w)
    BY <1>2, <1>10 DEF RunOut
  <1> QED
    BY <1>2, <1>5, <1>6, <1>7, <1>8, <1>9, <1>10 DEF PNext, all, world

(* A nonce once used stays used, and only a Node that is consuming it uses *)
(* it.                                                                     *)
LEMMA UsedKept ==
  ASSUME PInv, IInv', [PNext]_all
  PROVE  /\ used' \subseteq Nonce
         /\ used \subseteq used'
         /\ \/ used' = used
            \/ \E n \in Node : /\ At(n, "consuming") /\ UNCHANGED vars
                               /\ used' = used \cup {NonceOf[PaymentOf(n)]}
                               /\ Fault \/ Spends(n)
  <1>1. used \subseteq Nonce /\ PTypeOK
    BY DEF PInv, PTypeOK
  <1>2. CASE UNCHANGED used
    BY <1>1, <1>2
  <1>3. ASSUME NEW n \in Node, ConsumeNonce(n)
        PROVE  /\ At(n, "consuming") /\ UNCHANGED vars
               /\ used' = used \cup {NonceOf[PaymentOf(n)]}
               /\ NonceOf[PaymentOf(n)] \in Nonce
               /\ used' = used \/ Fault \/ Spends(n)
    <2>1. At(n, "consuming") /\ used' = used \cup {NonceOf[PaymentOf(n)]} /\ UNCHANGED vars
      BY <1>3 DEF ConsumeNonce
    <2>2. n \in Owner /\ Held(n) \in Grant
      BY <2>1 DEF PInv, WorkersCoherent, Owner, Working, At
    <2>3. CASE NonceOf[PaymentOf(n)] \notin used /\ Goes(n, "resolving")
      <3>1. "resolving" \in Place
        BY DEF Place
      <3>2. worker'[n].pc = "resolving" /\ \A x \in Owner : x # n => worker'[x] = worker[x]
        BY <1>1, <2>2, <2>3, <3>1, GoesTo
      <3>3. Spends(n)
        BY <2>1, <2>3, <3>2 DEF Spends
      <3> QED
        BY <2>1, <2>2, <3>3, DepositsAreSignatures
    <2> QED
      BY <1>3, <2>1, <2>2, <2>3, DepositsAreSignatures DEF ConsumeNonce
  <1>4. CASE \E n \in Node : ConsumeNonce(n)
    BY <1>1, <1>3, <1>4
  <1>5. CASE \E n \in Node : NodeStep(n)
    BY <1>2, <1>4, <1>5 DEF NodeStep, Ask, WakeUp, Check, Resolve, ReportVerdict
  <1>6. CASE \E c \in Cranker : CrankerStep(c)
    BY <1>2, <1>6 DEF CrankerStep, Ask, Send, Confirm, ReportConfirmed, ReportFailed
  <1>7. CASE \E o \in Owner : ServeWorker(o) \/ Crash(o)
    BY <1>2, <1>7 DEF ServeWorker, Crash
  <1> QED
    BY <1>2, <1>5, <1>6, <1>7 DEF PNext, Submit, Land, RunOut, all, world

(* Faults only get fewer; a step that leaves them all is no fault.         *)
LEMMA FaultsKept ==
  ASSUME PTypeOK, [PNext]_all
  PROVE  /\ faults' \in 0..Faults
         /\ faults' = Faults => faults = Faults /\ ~Fault
  <1>1. faults \in 0..Faults /\ Faults \in Nat
    BY PipelineAssumption DEF PTypeOK
  <1>2. CASE NoFault \/ Fault
    BY <1>1, <1>2 DEF NoFault, Fault
  <1>3. CASE \E n \in Node : NodeStep(n)
    <2>1. NoFault \/ Fault
      BY <1>3 DEF NodeStep, Ask, WakeUp, Check, ConsumeNonce, Resolve, ReportVerdict, NoFault
    <2> QED
      BY <1>2, <2>1
  <1>4. CASE \E c \in Cranker : CrankerStep(c)
    <2>1. NoFault \/ Fault
      BY <1>4 DEF CrankerStep, Ask, Send, Confirm, ReportConfirmed, WakeNode, ReportFailed
    <2> QED
      BY <1>2, <2>1
  <1>5. CASE \E o \in Owner : ServeWorker(o) \/ Crash(o)
    <2>1. NoFault \/ Fault
      BY <1>5 DEF ServeWorker, Crash
    <2> QED
      BY <1>2, <2>1
  <1>6. CASE \E r \in Ref, b \in Body : Submit(r, b)
    <2>1. NoFault \/ Fault
      BY <1>6 DEF Submit, WakeNode
    <2> QED
      BY <1>2, <2>1
  <1>7. CASE \E w \in WorkId : RunOut(w)
    <2>1. NoFault \/ Fault
      BY <1>7 DEF RunOut
    <2> QED
      BY <1>2, <2>1
  <1>8. CASE UNCHANGED faults
    BY <1>2, <1>8 DEF NoFault
  <1> QED
    BY <1>3, <1>4, <1>5, <1>6, <1>7, <1>8 DEF PNext, Land, all, world

LEMMA WakeKept ==
  ASSUME PTypeOK, [PNext]_all
  PROVE  wake' \in [Node -> BOOLEAN]
  <1>1. wake \in [Node -> BOOLEAN]
    BY DEF PTypeOK
  <1>2. CASE UNCHANGED wake
    BY <1>1, <1>2
  <1>3. CASE WakeNode
    BY <1>1, <1>3 DEF WakeNode
  <1>4. CASE \E n \in Node : NodeStep(n)
    BY <1>1, <1>4 DEF NodeStep, Ask, WakeUp, Check, ConsumeNonce, Resolve, ReportVerdict
  <1>5. CASE \E c \in Cranker : CrankerStep(c)
    BY <1>2, <1>3, <1>5 DEF CrankerStep, Ask, Send, Confirm, ReportConfirmed, ReportFailed
  <1>6. CASE \E o \in Owner : Crash(o)
    BY <1>1, <1>6 DEF Crash
  <1> QED
    BY <1>2, <1>3, <1>4, <1>5, <1>6 DEF PNext, Submit, ServeWorker, Land, RunOut, all, world

LEMMA PTypeKept ==
  ASSUME PInv, IInv', [PNext]_all
  PROVE  PTypeOK'
  <1>1. PTypeOK /\ worker' \in [Owner -> WorkerState]
    BY EveryoneMoves DEF PInv, Typed
  <1> QED
    BY <1>1, ChainKept, UsedKept, FaultsKept, WakeKept DEF PTypeOK, WorkerState, Place, Statement

-----------------------------------------------------------------------------
(* Where verdicts and outcomes come from.                                  *)

(* A step that finishes no work and judges none.                           *)
Quiet ==
  \A w \in WorkId :
    /\ work'[w].status \in Finished => work'[w] = work[w]
    /\ \/ Exists(w) /\ work'[w].verification = work[w].verification
       \/ ~Exists(w) /\ (Exists(w)' => work'[w].verification = NoVerification)

LEMMA QuietUnchanged ==
  ASSUME IInv, work' = work
  PROVE  Quiet
  BY DEF Quiet, Exists

LEMMA QuietlyWritten ==
  ASSUME IInv, NEW w, NEW e, Writes(w, e), e.status \notin Finished,
         e.verification = work[w].verification
  PROVE  Quiet
  <1>1. \A x \in WorkId : x # w => work'[x] = work[x]
    BY DEF Writes, IInv, TypeOK
  <1>2. w \in WorkId /\ Exists(w) /\ work'[w] = e
    BY DEF Writes, IInv, TypeOK
  <1> QED
    BY <1>1, <1>2 DEF Quiet, Exists

LEMMA QuietReceipt ==
  ASSUME IInv, NEW r \in Ref, NEW b \in Body, Receive(r, "AUTHORIZED_FUNDING", b)
  PROVE  Quiet
  <1> DEFINE kind == "AUTHORIZED_FUNDING"
  <1>1. kind \in Kind /\ "SETTLEMENT" \in Kind
    BY DEF Kind, ExternalKind
  <1>2. Creates(r, kind, b)
    BY <1>1, ReceiveCreates
  <1>3. \A k \in Kind : /\ NewWork(k, b).status = "RECEIVED"
                        /\ NewWork(k, b).verification = NoVerification
    BY NewWorkDocument
  <1> QED
    BY <1>1, <1>2, <1>3 DEF Creates, Quiet, Exists, Finished, CrankerOutcome

LEMMA QuietService ==
  ASSUME IInv, NEW c \in Call, ServeLease(c)
  PROVE  Quiet
  <1>1. CASE work' = work
    BY <1>1, QuietUnchanged
  <1>2. ASSUME NEW w \in call[c].todo, RequeueOne(c, w)
        PROVE  Quiet
    <2> DEFINE o == call[c].owner
               e == Requeued(work[w], o)
    <2>1. CASE Writes(w, e)
      <3>1. e.status = QueueOf(o) /\ e.verification = work[w].verification
        BY <2>1 DEF Writes, Requeued, Document
      <3>2. e.status \notin Finished
        BY <3>1 DEF QueueOf, Finished, CrankerOutcome
      <3> QED
        BY <2>1, <3>1, <3>2, QuietlyWritten
    <2> QED
      BY <1>1, <1>2, <2>1, RequeueWrites
  <1>3. CASE Claim(c)
    <2> DEFINE w == call[c].pick
               o == call[c].owner
               e == Leased(work[w], o)
    <2>1. CASE Writes(w, e)
      <3>1. e.status = LeasedBy(o) /\ e.verification = work[w].verification
        BY <2>1 DEF Writes, Leased, Document
      <3>2. e.status \notin Finished
        BY <3>1 DEF LeasedBy, Finished, CrankerOutcome
      <3> QED
        BY <2>1, <3>1, <3>2, QuietlyWritten
    <2> QED
      BY <1>1, <1>3, <2>1, ClaimWrites
  <1>4. CASE AttachAuthorization(c)
    <2> DEFINE w == call[c].pick
               e == Authorized(work[w], work[w].crankerLease.version)
    <2>1. Writes(w, e) /\ work[w].status = "CRANKER_LEASED"
      BY <1>4, AttachWrites
    <2>2. e.status = work[w].status /\ e.verification = work[w].verification
      BY <2>1 DEF Writes, Authorized, Document
    <2>3. e.status \notin Finished
      BY <2>1, <2>2 DEF Finished, CrankerOutcome
    <2> QED
      BY <2>1, <2>2, <2>3, QuietlyWritten
  <1> QED
    BY <1>1, <1>2, <1>3, <1>4
       DEF ServeLease, BeginLease, ScanCandidates, PickCandidate, NothingToLease, AuthorizationFails

LEMMA QuietExpiry ==
  ASSUME IInv, NEW w \in WorkId, ExpireLease(w)
  PROVE  Quiet
  <1> DEFINE e == LeasePassed(work[w])
  <1>1. Writes(w, e) /\ work[w].status \in {"NODE_VERIFYING", "CRANKER_LEASED"}
    BY ExpireWrites DEF ExpireLease
  <1>2. e.status = work[w].status /\ e.verification = work[w].verification
    BY <1>1 DEF Writes, LeasePassed, Document
  <1>3. e.status \notin Finished
    BY <1>1, <1>2 DEF Finished, CrankerOutcome
  <1> QED
    BY <1>1, <1>2, <1>3, QuietlyWritten

(* The work a report is about, and the rest of the collection.             *)
LEMMA VerdictWritten ==
  ASSUME IInv, NEW g \in grants, NEW verdict \in NodeVerdict, NodeReport(g, verdict)
  PROVE  /\ g \in Grant /\ g.live /\ work[g.id].status = "NODE_VERIFYING"
         /\ Exists(g.id) /\ Exists(g.id)'
         /\ work'[g.id].status = verdict /\ work'[g.id].verification.decision = verdict
         /\ \A w \in WorkId : w # g.id => work'[w] = work[w]
  <1> DEFINE e == Judged(work[g.id], verdict, g.lease)
  <1>1. Writes(g.id, e) /\ g \in Grant /\ g.live /\ work[g.id].status = "NODE_VERIFYING"
    BY NodeReportWrites
  <1>2. e.status = verdict /\ e.verification.decision = verdict
    BY <1>1 DEF Writes, Judged, Document
  <1>3. work'[g.id] = e /\ \A w \in WorkId : w # g.id => work'[w] = work[w]
    BY <1>1 DEF Writes, IInv, TypeOK
  <1> QED
    BY <1>1, <1>2, <1>3 DEF Writes, Exists, NodeVerdict

LEMMA OutcomeWritten ==
  ASSUME IInv, NEW g \in grants, NEW outcome \in CrankerOutcome,
         NEW sig \in Signature \cup {None}, CrankerReport(g, outcome, sig)
  PROVE  \/ work' = work
         \/ /\ g \in Grant /\ Exists(g.id)
            /\ work'[g.id].status = outcome
            /\ work'[g.id].verification = work[g.id].verification
            /\ \A w \in WorkId : w # g.id => work'[w] = work[w]
  <1> DEFINE e == Reported(work[g.id], outcome, sig, g.lease)
  <1>1. CASE Writes(g.id, e)
    <2>1. g \in Grant
      BY CrankerReportWrites
    <2>2. e.status = outcome /\ e.verification = work[g.id].verification
      BY <1>1 DEF Writes, Reported, Document
    <2>3. work'[g.id] = e /\ \A w \in WorkId : w # g.id => work'[w] = work[w]
      BY <1>1 DEF Writes, IInv, TypeOK
    <2> QED
      BY <1>1, <2>1, <2>2, <2>3 DEF Writes
  <1> QED
    BY <1>1, CrankerReportWrites

LEMMA QuietOrReport ==
  ASSUME PInv, [PNext]_all
  PROVE  Quiet \/ (\E n \in Node : VerdictOf(n)) \/ (\E c \in Cranker : OutcomeOf(c))
  <1>1. IInv
    BY DEF PInv
  <1>2. CASE work' = work
    BY <1>1, <1>2, QuietUnchanged
  <1>3. CASE UNCHANGED vars
    BY <1>2, <1>3 DEF vars
  <1>4. CASE \E r \in Ref, b \in Body : Submit(r, b)
    BY <1>1, <1>4, QuietReceipt DEF Submit
  <1>5. CASE \E o \in Owner : Ask(o)
    BY <1>2, <1>3, <1>5 DEF Ask, BeginLease
  <1>6. CASE \E o \in Owner : ServeWorker(o)
    BY <1>1, <1>6, QuietService, PipelineAssumption DEF ServeWorker
  <1>7. CASE \E n \in Node : NodeStep(n)
    <2>1. CASE \E n \in Node : ReportVerdict(n)
      BY <1>3, <2>1, VerdictIsReport DEF VerdictOf, ReportVerdict
    <2>2. CASE \E n \in Node : Ask(n)
      BY <1>5, <2>2 DEF Owner
    <2> QED
      BY <1>3, <1>7, <2>1, <2>2 DEF NodeStep, WakeUp, Check, ConsumeNonce, Resolve
  <1>8. CASE \E c \in Cranker : CrankerStep(c)
    <2>1. CASE \E c \in Cranker : ReportConfirmed(c)
      BY <1>3, <2>1, ConfirmedIsReport DEF OutcomeOf, ReportConfirmed
    <2>2. CASE \E c \in Cranker : ReportFailed(c)
      BY <1>3, <2>2, FailedIsReport DEF OutcomeOf, ReportFailed
    <2>3. CASE \E c \in Cranker : Ask(c)
      BY <1>5, <2>3 DEF Owner
    <2> QED
      BY <1>3, <1>8, <2>1, <2>2, <2>3 DEF CrankerStep, Send, Confirm
  <1>9. CASE \E w \in WorkId : RunOut(w)
    BY <1>1, <1>9, QuietExpiry DEF RunOut
  <1> QED
    BY <1>3, <1>4, <1>6, <1>7, <1>8, <1>9 DEF PNext, Crash, Land, all

LEMMA IngressIsWork ==
  ASSUME NEW r \in Ref
  PROVE  Ingress(r) \in WorkId /\ Ingress(r)[1] = r
  BY DEF Ingress, WorkId

(* What becomes of one payment in a step.                                  *)
LEMMA PaymentStep ==
  ASSUME PInv, [PNext]_all, NEW r \in Ref
  PROVE  /\ Exists(Ingress(r)) => Exists(Ingress(r))'
         /\ Accepted(r) => Accepted(r)'
         /\ Accepted(r)' => Accepted(r) \/ \E n \in Node :
              VerdictOf(n) /\ worker[n].says = "VERIFIED" /\ Held(n).id = Ingress(r)
         /\ Reached(r, "REJECTED")' => Reached(r, "REJECTED") \/ \E n \in Node :
              VerdictOf(n) /\ worker[n].says = "REJECTED" /\ Held(n).id = Ingress(r)
         /\ Reached(r, "CONFIRMED")' => Reached(r, "CONFIRMED") \/ \E c \in Cranker :
              At(c, "reporting") /\ Held(c).id = Ingress(r)
         /\ Reached(r, "FAILED")' => Reached(r, "FAILED") \/ \E c \in Cranker :
              At(c, "failing") /\ Held(c).id = Ingress(r)
  <1> DEFINE i == Ingress(r)
  <1>1. i \in WorkId /\ IInv /\ [Next]_vars
    BY IngressIsWork, StepOfQueue DEF PInv
  <1>2. Exists(i) => Exists(i)'
    BY <1>1, CollectionGrows DEF Grows
  <1> HIDE DEF i
  <1>3. CASE Quiet
    <2>1. \A s \in Finished : Reached(r, s)' => Reached(r, s)
      BY <1>1, <1>3 DEF Quiet, Reached, Payment, Exists, i
    <2>2. Accepted(r)' <=> Accepted(r)
      BY <1>1, <1>2, <1>3 DEF Quiet, Accepted, Payment, i, NoVerification
    <2> QED
      BY <1>2, <2>1, <2>2 DEF Finished, CrankerOutcome, i
  <1>4. ASSUME NEW n \in Node, VerdictOf(n)
        PROVE  /\ Accepted(r) => Accepted(r)'
               /\ \A s \in Finished :
                    Reached(r, s)' => Reached(r, s) \/ (Held(n).id = i /\ worker[n].says = s)
               /\ Accepted(r)' => Accepted(r) \/ (Held(n).id = i /\ worker[n].says = "VERIFIED")
    <2>1. /\ work[Held(n).id].status = "NODE_VERIFYING" /\ Exists(Held(n).id)
          /\ work'[Held(n).id].status = worker[n].says
          /\ work'[Held(n).id].verification.decision = worker[n].says
          /\ \A w \in WorkId : w # Held(n).id => work'[w] = work[w]
      BY <1>1, <1>4, VerdictWritten DEF VerdictOf
    <2>2. CASE Held(n).id = i
      <3>1. work[i].verification = NoVerification
        BY <1>1, <2>1, <2>2 DEF IInv, AttestedBeforeExecution
      <3>2. ~Accepted(r)
        BY <3>1 DEF Accepted, Payment, NoVerification, i
      <3> QED
        BY <2>1, <2>2, <3>2 DEF Accepted, Reached, Payment, i
    <2>3. CASE Held(n).id # i
      BY <1>1, <2>1, <2>3 DEF Accepted, Reached, Payment, Exists, i
    <2> QED
      BY <2>2, <2>3
  <1>5. ASSUME NEW c \in Cranker, OutcomeOf(c)
        PROVE  /\ Accepted(r) <=> Accepted(r)'
               /\ Reached(r, "REJECTED")' => Reached(r, "REJECTED")
               /\ Reached(r, "CONFIRMED")' =>
                    Reached(r, "CONFIRMED") \/ (At(c, "reporting") /\ Held(c).id = i)
               /\ Reached(r, "FAILED")' =>
                    Reached(r, "FAILED") \/ (At(c, "failing") /\ Held(c).id = i)
    <2>1. CASE work' = work
      BY <2>1 DEF Accepted, Reached, Payment, Exists
    <2>2. ASSUME NEW outcome \in {"CONFIRMED", "FAILED"},
                 /\ Exists(Held(c).id)
                 /\ work'[Held(c).id].status = outcome
                 /\ work'[Held(c).id].verification = work[Held(c).id].verification
                 /\ \A w \in WorkId : w # Held(c).id => work'[w] = work[w]
          PROVE  /\ Accepted(r) <=> Accepted(r)'
                 /\ Reached(r, "REJECTED")' => Reached(r, "REJECTED")
                 /\ Reached(r, "CONFIRMED")' =>
                      Reached(r, "CONFIRMED") \/ (outcome = "CONFIRMED" /\ Held(c).id = i)
                 /\ Reached(r, "FAILED")' =>
                      Reached(r, "FAILED") \/ (outcome = "FAILED" /\ Held(c).id = i)
      <3>1. CASE Held(c).id = i
        BY <1>2, <2>2, <3>1 DEF Accepted, Reached, Payment, i
      <3>2. CASE Held(c).id # i
        BY <1>1, <2>2, <3>2 DEF Accepted, Reached, Payment, Exists, i
      <3> QED
        BY <3>1, <3>2
    <2>3. CASE At(c, "reporting") /\ Held(c) \in grants /\ Deposit(c) \in Signature
               /\ CrankerReport(Held(c), "CONFIRMED", Deposit(c))
      <3>1. \/ work' = work
            \/ /\ Exists(Held(c).id)
               /\ work'[Held(c).id].status = "CONFIRMED"
               /\ work'[Held(c).id].verification = work[Held(c).id].verification
               /\ \A w \in WorkId : w # Held(c).id => work'[w] = work[w]
        BY <1>1, <2>3, OutcomeWritten DEF CrankerOutcome
      <3> QED
        BY <2>1, <2>2, <2>3, <3>1
    <2>4. CASE At(c, "failing") /\ Held(c) \in grants /\ CrankerReport(Held(c), "FAILED", None)
      <3>1. \/ work' = work
            \/ /\ Exists(Held(c).id)
               /\ work'[Held(c).id].status = "FAILED"
               /\ work'[Held(c).id].verification = work[Held(c).id].verification
               /\ \A w \in WorkId : w # Held(c).id => work'[w] = work[w]
        BY <1>1, <2>4, OutcomeWritten DEF CrankerOutcome
      <3> QED
        BY <2>1, <2>2, <2>4, <3>1
    <2> QED
      BY <1>5, <2>3, <2>4 DEF OutcomeOf
  <1>6. CASE \E n \in Node : VerdictOf(n)
    <2>1. PICK n \in Node : VerdictOf(n)
      BY <1>6
    <2>2. worker[n].says \in NodeVerdict
      BY <2>1 DEF VerdictOf
    <2> QED
      BY <1>2, <1>4, <2>1, <2>2 DEF Finished, CrankerOutcome, NodeVerdict, i
  <1>7. CASE \E c \in Cranker : OutcomeOf(c)
    BY <1>2, <1>5, <1>7 DEF i
  <1> QED
    BY <1>3, <1>6, <1>7, QuietOrReport

-----------------------------------------------------------------------------
(* Each part of the invariant is kept.                                     *)

LEMMA CallersKept ==
  ASSUME PInv, [PNext]_all, NEW o \in Owner, call'[o].pc # "idle"
  PROVE  call'[o].owner = o
  <1>1. /\ call[o].pc # "idle" => call[o].owner = o
        /\ DOMAIN call = Owner
    BY PipelineAssumption DEF PInv, WorkersCoherent, IInv, TypeOK
  <1>2. CASE UNCHANGED call
    BY <1>1, <1>2
  <1>3. CASE \E x \in Owner : Ask(x)
    BY <1>1, <1>2, <1>3 DEF Ask, BeginLease, vars
  <1>4. ASSUME NEW x \in Owner, ServeLease(x), call[x].pc # "idle"
        PROVE  call'[o].owner = o
    <2>1. x \in Call /\ o \in Call
      BY PipelineAssumption
    <2>2. call \in [Call -> [pc : Phase, owner : Owner \cup {None}, todo : SUBSET WorkId,
                            pick : WorkId \cup {None}, version : Nat]]
      BY DEF PInv, IInv, TypeOK
    <2>3. call'[o].pc = "idle" \/ call'[o].owner = call[o].owner
      <3>1. CASE \E w \in call[x].todo : RequeueOne(x, w)
        BY <2>1, <2>2, <3>1 DEF RequeueOne
      <3>2. CASE ScanCandidates(x)
        BY <2>1, <2>2, <3>2 DEF ScanCandidates
      <3>3. CASE \E w \in call[x].todo : PickCandidate(x, w)
        BY <2>1, <2>2, <3>3 DEF PickCandidate
      <3>4. CASE NothingToLease(x) \/ AttachAuthorization(x) \/ AuthorizationFails(x)
        BY <2>1, <2>2, <3>4 DEF NothingToLease, AttachAuthorization, AuthorizationFails, IdleCall
      <3>5. CASE Claim(x)
        BY <2>1, <2>2, <3>5 DEF Claim, IdleCall
      <3> QED
        BY <1>4, <3>1, <3>2, <3>3, <3>4, <3>5 DEF ServeLease, BeginLease
    <2>4. call[o].pc = "idle" => call'[o].pc = "idle"
      <3>1. CASE o = x
        BY <1>4, <3>1
      <3>2. CASE o # x
        BY <1>4, <2>1, <2>2, <3>2
           DEF ServeLease, BeginLease, RequeueOne, ScanCandidates, PickCandidate,
               NothingToLease, Claim, AttachAuthorization, AuthorizationFails
      <3> QED
        BY <3>1, <3>2
    <2> QED
      BY <1>1, <2>3, <2>4
  <1>5. CASE \E x \in Owner : ServeWorker(x)
    BY <1>4, <1>5 DEF ServeWorker
  <1>6. CASE \E n \in Node : NodeStep(n)
    BY <1>2, <1>3, <1>6 DEF NodeStep, WakeUp, Check, ConsumeNonce, Resolve, ReportVerdict,
                            NodeReport, vars, Owner
  <1>7. CASE \E c \in Cranker : CrankerStep(c)
    BY <1>2, <1>3, <1>7 DEF CrankerStep, Send, Confirm, ReportConfirmed, ReportFailed,
                            CrankerReport, vars, Owner
  <1> QED
    BY <1>2, <1>5, <1>6, <1>7 DEF PNext, Submit, Receive, Crash, Land, RunOut, ExpireLease, vars, all

LEMMA StoredStays ==
  ASSUME PInv, [PNext]_all, NEW w \in WorkId, Exists(w)
  PROVE  Exists(w)'
  BY StepOfQueue, CollectionGrows DEF PInv, Grows

LEMMA WorkersKept ==
  ASSUME PInv, IInv', [PNext]_all
  PROVE  WorkersCoherent'
  <1> DEFINE Right(o) ==
        /\ o \in Node => worker[o].pc \notin {"confirming", "failing"}
        /\ o \in Cranker => worker[o].pc \notin {"asleep", "consuming", "resolving"}
        /\ Working(o) => Held(o) \in Grant /\ Held(o).owner = o /\ Exists(Held(o).id)
        /\ At(o, "reporting") /\ o \in Node => worker[o].says \in NodeVerdict
        /\ At(o, "reporting") /\ o \in Cranker => chain[Deposit(o)] = "landed"
        /\ At(o, "consuming") \/ (o \in Node /\ Passing(o)) => Held(o).id = Ingress(PaymentOf(o))
  <1>1. ASSUME NEW o \in Owner
        PROVE  Right(o)'
    <2>1. Right(o) /\ worker[o] \in WorkerState
      BY DEF PInv, WorkersCoherent, PTypeOK, WorkerState, Place, Statement
    <2>2. Moves(o)
      BY EveryoneMoves DEF Typed
    <2>3. Held(o) \in Grant => Held(o).id \in WorkId /\ Deposit(o) \in Signature
      BY DepositsAreSignatures DEF Grant
    <2>4. /\ Working(o) => work'[Held(o).id].status # "ABSENT"
          /\ At(o, "reporting") /\ o \in Cranker => chain'[Deposit(o)] = "landed"
      <3>1. PTypeOK
        BY DEF PInv
      <3>2. ASSUME Working(o) PROVE work'[Held(o).id].status # "ABSENT"
        BY <2>1, <2>3, <3>2, StoredStays DEF Exists
      <3>3. ASSUME At(o, "reporting") /\ o \in Cranker PROVE chain'[Deposit(o)] = "landed"
        BY <2>1, <2>3, <3>1, <3>3, ChainKept DEF Working, At
      <3> QED
        BY <3>2, <3>3
    <2>5. o \in Node <=> o \notin Cranker
      BY ReceiverAssumption DEF Owner
    <2>6. ASSUME Working(o), worker'[o].held.id = worker[o].held.id,
                 worker'[o].held.owner = worker[o].held.owner,
                 worker[o].held \in Grant => worker'[o].held \in Grant
          PROVE  /\ Held(o)' \in Grant /\ Held(o)'.owner = o /\ Exists(Held(o).id)'
                 /\ Held(o)'.id = Held(o).id /\ PaymentOf(o)' = PaymentOf(o)
                 /\ Deposit(o)' = Deposit(o)
      <3>1. Held(o) \in Grant /\ Held(o).owner = o /\ Exists(Held(o).id)
        BY <2>1, <2>6
      <3>2. Held(o)' \in Grant /\ Held(o)'.owner = o /\ Held(o)'.id = Held(o).id
        BY <2>6, <3>1 DEF Held
      <3>3. PaymentOf(o)' = PaymentOf(o)
        BY <3>2 DEF PaymentOf
      <3>4. Deposit(o)' = Deposit(o)
        BY <3>3 DEF Deposit
      <3>5. work'[Held(o).id].status # "ABSENT"
        BY <2>4, <2>6
      <3>6. Exists(Held(o).id)'
        BY <3>2, <3>5 DEF Exists
      <3> QED
        BY <3>2, <3>3, <3>4, <3>6
    <2>7. ASSUME worker'[o].pc = worker[o].pc, worker'[o].says = worker[o].says,
                 worker'[o].held.id = worker[o].held.id,
                 worker'[o].held.owner = worker[o].held.owner,
                 worker[o].held \in Grant => worker'[o].held \in Grant
          PROVE  Right(o)'
      <3>1. Working(o)' <=> Working(o)
        BY <2>7 DEF Working
      <3>2. CASE Working(o)
        BY <2>1, <2>4, <2>6, <2>7, <3>2 DEF Working, At, Passing
      <3>3. CASE ~Working(o)
        BY <2>1, <2>7, <3>1, <3>3 DEF Working, At, Passing
      <3> QED
        BY <3>2, <3>3
    <2>8. CASE worker'[o] = worker[o]
      BY <2>7, <2>8
    <2>9. CASE Held(o) \in grants /\ worker'[o] = [worker[o] EXCEPT !.held.live = FALSE]
      <3>1. Held(o) \in Grant
        BY <2>9 DEF PInv, IInv, TypeOK
      <3>2. /\ worker'[o].pc = worker[o].pc /\ worker'[o].says = worker[o].says
            /\ worker'[o].held = [worker[o].held EXCEPT !.live = FALSE]
        BY <2>1, <2>9 DEF WorkerState
      <3>3. /\ worker'[o].held \in Grant /\ worker'[o].held.id = worker[o].held.id
            /\ worker'[o].held.owner = worker[o].held.owner
        BY <3>1, <3>2 DEF Held, Grant
      <3> QED
        BY <2>7, <3>2, <3>3
    <2>10. CASE Leaves(o)
      BY <2>5, <2>10 DEF Leaves, Working, At, Passing
    <2>11. CASE Receives(o)
      <3>1. worker'[o].held \in Grant /\ work'[worker'[o].held.id].status # "ABSENT"
        BY <2>11 DEF Receives, IInv, TypeOK, GrantsCoherent, Exists
      <3> QED
        BY <2>11, <3>1 DEF Receives, Working, At, Passing, Held, Exists
    <2>12. CASE worker'[o].held = worker[o].held /\ Examines(o)
      <3>1. Held(o).id \in WorkId /\ Exists(Held(o).id) /\ Working(o)
        BY <2>1, <2>3, <2>12 DEF Examines, At, Working
      <3>2. Held(o).id[2] = "ingress"
        BY <2>12, <3>1 DEF Examines, PInv, IInv, KindsMatch
      <3>3. Held(o).id = Ingress(PaymentOf(o))
        BY <3>1, <3>2 DEF PaymentOf, Ingress, WorkId
      <3>4. (Held(o).id = Ingress(PaymentOf(o)))'
        BY <2>6, <2>12, <3>1, <3>3 DEF Ingress
      <3> QED
        BY <2>5, <2>6, <2>12, <3>1, <3>4 DEF Examines, Working, At, Passing
    <2>13. CASE worker'[o].held = worker[o].held /\ Refuses(o)
      <3>1. Working(o)
        BY <2>13 DEF Refuses, Working
      <3> QED
        BY <2>5, <2>6, <2>13, <3>1 DEF Refuses, Working, At, Passing, NodeVerdict
    <2>14. CASE worker'[o].held = worker[o].held /\ (Spends(o) \/ Accepts(o))
      <3>1. Working(o) /\ Held(o).id = Ingress(PaymentOf(o)) /\ o \in Node
        BY <2>1, <2>14 DEF Spends, Accepts, Working, At, Passing
      <3>2. (Held(o).id = Ingress(PaymentOf(o)))'
        BY <2>6, <2>14, <3>1 DEF Ingress
      <3>3. /\ worker'[o].pc \in {"resolving", "reporting"}
            /\ worker'[o].pc = "reporting" => worker'[o].says = "VERIFIED"
        BY <2>14 DEF Spends, Accepts
      <3> QED
        BY <2>5, <2>6, <2>14, <3>1, <3>2, <3>3 DEF Working, At, Passing, NodeVerdict
    <2>15. CASE worker'[o].held = worker[o].held /\ Proceeds(o)
      <3>1. Working(o) /\ o \in Cranker
        BY <2>15 DEF Proceeds, Working, At
      <3>2. /\ worker'[o].pc \in {"confirming", "reporting"}
            /\ worker'[o].pc = "reporting" => chain'[Deposit(o)] = "landed"
        BY <2>15 DEF Proceeds
      <3> QED
        BY <2>5, <2>6, <2>15, <3>1, <3>2 DEF Working, At, Passing
    <2>16. CASE worker'[o].held = worker[o].held /\ Fails(o)
      BY <2>5, <2>6, <2>16 DEF Fails, Working, At, Passing
    <2> QED
      BY <2>2, <2>8, <2>9, <2>10, <2>11, <2>12, <2>13, <2>14, <2>15, <2>16 DEF Moves
  <1> QED
    BY <1>1, CallersKept DEF WorkersCoherent

LEMMA LandedKept ==
  ASSUME PInv, [PNext]_all
  PROVE  ConfirmedLanded'
  <1> SUFFICES ASSUME NEW r \in Ref, Reached(r, "CONFIRMED")'
               PROVE  chain'[DepositOf[r]] = "landed"
    BY DEF ConfirmedLanded
  <1>1. DepositOf[r] \in Signature /\ PTypeOK
    BY PipelineAssumption DEF PInv
  <1>2. CASE Reached(r, "CONFIRMED")
    BY <1>1, <1>2, ChainKept DEF PInv, ConfirmedLanded
  <1>3. ASSUME NEW c \in Cranker, At(c, "reporting"), Held(c).id = Ingress(r)
        PROVE  chain'[DepositOf[r]] = "landed"
    <2>1. Deposit(c) = DepositOf[r]
      BY <1>3, IngressIsWork DEF Deposit, PaymentOf
    <2>2. chain[Deposit(c)] = "landed"
      BY <1>3 DEF PInv, WorkersCoherent, Owner
    <2> QED
      BY <1>1, <2>1, <2>2, ChainKept
  <1> QED
    BY <1>2, <1>3, PaymentStep

(* A Node passes because it passed before, or because it just spent the    *)
(* nonce.                                                                  *)
LEMMA StillPassing ==
  ASSUME PInv, IInv', [PNext]_all, NEW n \in Node, Passing(n)'
  PROVE  /\ Passing(n) \/ Spends(n)
         /\ Held(n)'.id = Held(n).id
         /\ PaymentOf(n)' = PaymentOf(n)
         /\ ~VerdictOf(n)
  <1>1. n \in Owner /\ n \notin Cranker /\ worker[n] \in WorkerState
    BY ReceiverAssumption DEF PInv, Owner, PTypeOK, WorkerState, Place, Statement
  <1>2. Moves(n)
    BY <1>1, EveryoneMoves DEF Typed
  <1>3. ASSUME worker'[n] = worker[n]
        PROVE  Passing(n) /\ Held(n)'.id = Held(n).id /\ PaymentOf(n)' = PaymentOf(n)
    BY <1>3 DEF Passing, At, Held, PaymentOf
  <1>4. ASSUME Held(n) \in grants, worker'[n] = [worker[n] EXCEPT !.held.live = FALSE]
        PROVE  Passing(n) /\ Held(n)'.id = Held(n).id /\ PaymentOf(n)' = PaymentOf(n)
    <2>1. Held(n) \in Grant
      BY <1>4 DEF PInv, IInv, TypeOK
    <2>2. /\ worker'[n].pc = worker[n].pc /\ worker'[n].says = worker[n].says
          /\ worker'[n].held = [worker[n].held EXCEPT !.live = FALSE]
      BY <1>1, <1>4 DEF WorkerState
    <2>3. worker'[n].held.id = worker[n].held.id
      BY <2>1, <2>2 DEF Held, Grant
    <2> QED
      BY <2>2, <2>3 DEF Passing, At, Held, PaymentOf
  <1>5. Passing(n) \/ Spends(n)
    BY <1>1, <1>2, <1>3, <1>4
       DEF Moves, Leaves, Receives, Refuses, Examines, Accepts, Proceeds, Fails, Passing, At
  <1>6. worker'[n].pc \in {"resolving", "reporting"}
    BY DEF Passing, At
  <1>7. ASSUME worker'[n].held = worker[n].held
        PROVE  Held(n)'.id = Held(n).id /\ PaymentOf(n)' = PaymentOf(n)
    BY <1>7 DEF Held, PaymentOf
  <1>8. Held(n)'.id = Held(n).id /\ PaymentOf(n)' = PaymentOf(n)
    BY <1>1, <1>2, <1>3, <1>4, <1>6, <1>7 DEF Moves, Leaves, Receives
  <1>9. ASSUME ReportVerdict(n)
        PROVE  FALSE
    <2>1. worker[n] \in WorkerState /\ worker \in [Owner -> WorkerState]
      BY <1>1 DEF PInv, PTypeOK, WorkerState, Place, Statement
    <2>2. PICK w : Becomes(n, w) /\ w.pc \in {"rest", "asleep"}
      BY <1>1, <1>9, <2>1, RestTypes, FailureTypes DEF ReportVerdict
    <2>3. worker'[n].pc \in {"rest", "asleep"}
      BY <1>1, <2>1, <2>2 DEF Becomes
    <2> QED
      BY <1>6, <2>3
  <1> QED
    BY <1>5, <1>8, <1>9 DEF VerdictOf

(* Whose acceptance is recorded in this step had passed.                   *)
LEMMA NewlyAccepted ==
  ASSUME PInv, [PNext]_all, NEW r \in Ref, Accepted(r)'
  PROVE  \/ Accepted(r)
         \/ \E m \in Node : VerdictOf(m) /\ Passing(m) /\ PaymentOf(m) = r
  <1>1. ASSUME NEW m \in Node, VerdictOf(m), worker[m].says = "VERIFIED", Held(m).id = Ingress(r)
        PROVE  Passing(m) /\ PaymentOf(m) = r
    BY <1>1, IngressIsWork DEF VerdictOf, Passing, PaymentOf
  <1> QED
    BY <1>1, PaymentStep

LEMMA NoncesKept ==
  ASSUME PInv, IInv', [PNext]_all
  PROVE  NoncesSpentOnce' /\ NoReplayedAuthorization'
  <1>1. NoncesSpentOnce /\ NoReplayedAuthorization /\ used \subseteq used'
    BY UsedKept DEF PInv
  <1>2. ASSUME NEW r \in Ref, Accepted(r)'
        PROVE  NonceOf[r] \in used
    BY <1>1, <1>2, NewlyAccepted DEF NoncesSpentOnce
  <1>3. ASSUME NEW n \in Node, Passing(n)'
        PROVE  /\ NonceOf[PaymentOf(n)] \in used'
               /\ \A m \in Node : Passing(m)' /\ NonceOf[PaymentOf(m)] = NonceOf[PaymentOf(n)] => m = n
               /\ \A r \in Ref : Accepted(r)' => NonceOf[r] # NonceOf[PaymentOf(n)]
    <2>1. Passing(n) \/ Spends(n)
      BY <1>3, StillPassing
    <2>2. NonceOf[PaymentOf(n)] \in used'
      BY <1>1, <2>1 DEF NoncesSpentOnce, Spends
    <2>3. ASSUME NEW m \in Node, Passing(m)', NonceOf[PaymentOf(m)] = NonceOf[PaymentOf(n)], m # n
          PROVE  FALSE
      <3>1. Passing(m) \/ Spends(m)
        BY <2>3, StillPassing
      <3>2. CASE Passing(m) /\ Passing(n)
        BY <1>1, <2>3, <3>2 DEF NoncesSpentOnce
      <3>3. CASE Spends(m) /\ Passing(n)
        BY <1>1, <2>3, <3>3 DEF NoncesSpentOnce, Spends
      <3>4. CASE Passing(m) /\ Spends(n)
        BY <1>1, <2>3, <3>4 DEF NoncesSpentOnce, Spends
      <3>5. CASE Spends(m) /\ Spends(n)
        BY <2>3, <3>5 DEF Spends, At, Owner
      <3> QED
        BY <2>1, <3>1, <3>2, <3>3, <3>4, <3>5
    <2>4. ASSUME NEW r \in Ref, Accepted(r)', NonceOf[r] = NonceOf[PaymentOf(n)]
          PROVE  FALSE
      <3>1. Passing(n)
        BY <1>2, <2>1, <2>4 DEF Spends
      <3>2. ~VerdictOf(n)
        BY <1>3, StillPassing
      <3> QED
        BY <1>1, <2>4, <3>1, <3>2, NewlyAccepted DEF NoncesSpentOnce
    <2> QED
      BY <2>2, <2>3, <2>4
  <1>4. ASSUME NEW n \in Node, Passing(n)'
        PROVE  PaymentOf(n)' = PaymentOf(n)
    BY <1>4, StillPassing
  <1>5. NoncesSpentOnce'
    BY <1>1, <1>2, <1>3, <1>4 DEF NoncesSpentOnce
  <1>6. ASSUME NEW r \in Ref, NEW q \in Ref, Accepted(r)', Accepted(q)', NonceOf[r] = NonceOf[q]
        PROVE  r = q
    <2>1. CASE Accepted(r) /\ Accepted(q)
      BY <1>1, <1>6, <2>1 DEF NoReplayedAuthorization
    <2>2. CASE ~Accepted(r) \/ ~Accepted(q)
      BY <1>1, <1>6, <2>2, NewlyAccepted DEF NoncesSpentOnce
    <2> QED
      BY <2>1, <2>2
  <1> QED
    BY <1>5, <1>6 DEF NoReplayedAuthorization

-----------------------------------------------------------------------------
(* Until something goes wrong.                                             *)

(* A worker's lease is still running.                                      *)
LEMMA HeldRuns ==
  ASSUME PInv, faults = Faults, NEW o \in Owner, Working(o)
  PROVE  /\ Held(o) \in grants /\ Held(o).live /\ Held(o).owner = o
         /\ Held(o).id \in WorkId /\ Exists(Held(o).id)
         /\ StillRunning(Held(o))
         /\ work[Held(o).id].status = LeasedBy(o)
         /\ LeaseOf(o, work[Held(o).id]).owner = o
  <1>1. Held(o) \in grants /\ Held(o).live
    BY DEF PInv, NoLuckNeeded
  <1>2. Held(o) \in Grant /\ Held(o).owner = o /\ Exists(Held(o).id)
    BY DEF PInv, WorkersCoherent
  <1>3. /\ work[Held(o).id].status = LeasedBy(o)
        /\ LeaseOf(o, work[Held(o).id]) = [owner |-> o, version |-> Held(o).lease, expired |-> FALSE]
        /\ work[Held(o).id].version = Held(o).version
    BY <1>1, <1>2 DEF PInv, IInv, HolderExclusive
  <1> QED
    BY <1>1, <1>2, <1>3 DEF StillRunning, LeaseHeld, Grant

LEMMA RetiredAlone ==
  ASSUME NEW g, NEW h \in grants, g # h, grants' = Retire(g)
  PROVE  h \in grants'
  BY DEF Retire

(* Nobody else's report, and no request, takes it out of the history.      *)
LEMMA GrantStays ==
  ASSUME PInv, [PNext]_all, faults = Faults, ~Fault,
         NEW o \in Owner, Working(o), Working(o)'
  PROVE  Held(o) \in grants'
  <1>1. Held(o) \in grants /\ Held(o).live /\ Held(o).owner = o
    BY HeldRuns
  <1>2. CASE UNCHANGED grants
    BY <1>1, <1>2
  <1>3. worker \in [Owner -> WorkerState]
    BY DEF PInv, PTypeOK, WorkerState, Place, Statement
  <1>4. ASSUME NEW x \in Owner, Becomes(x, Resting) \/ Becomes(x, AfterFailure(x)), x = o
        PROVE  FALSE
    <2>1. PICK w : Becomes(x, w) /\ w.pc \in {"rest", "asleep"}
      BY <1>3, <1>4, RestTypes, FailureTypes
    <2>2. worker'[x].pc \in {"rest", "asleep"}
      BY <1>3, <2>1 DEF Becomes
    <2> QED
      BY <1>4, <2>2 DEF Working
  <1>5. ASSUME NEW x \in Owner, Working(x), grants' = Retire(Held(x)), x # o
        PROVE  Held(o) \in grants'
    <2>1. Held(x).owner = x
      BY <1>5 DEF PInv, WorkersCoherent
    <2> QED
      BY <1>1, <1>5, <2>1, RetiredAlone
  <1>6. CASE \E x \in Owner : ServeLease(x)
    BY <1>1, <1>6 DEF ServeLease, BeginLease, RequeueOne, ScanCandidates, PickCandidate,
                      NothingToLease, Claim, AttachAuthorization, AuthorizationFails
  <1>7. ASSUME NEW n \in Node, ReportVerdict(n)
        PROVE  Held(o) \in grants'
    <2>1. Working(n) /\ n \in Owner
      BY <1>7 DEF ReportVerdict, Working, At, Owner
    <2>2. UNCHANGED vars \/ grants' = Retire(Held(n))
      BY <1>7 DEF ReportVerdict, NodeReport
    <2>3. n # o
      BY <1>4, <1>7, <2>1 DEF ReportVerdict
    <2> QED
      BY <1>2, <1>5, <2>1, <2>2, <2>3 DEF vars
  <1>8. ASSUME NEW c \in Cranker, ReportConfirmed(c) \/ ReportFailed(c)
        PROVE  Held(o) \in grants'
    <2>1. Working(c) /\ c \in Owner
      BY <1>8 DEF ReportConfirmed, ReportFailed, Working, At, Owner
    <2>2. UNCHANGED grants \/ grants' = Retire(Held(c))
      BY <1>8 DEF ReportConfirmed, ReportFailed, CrankerReport, vars
    <2>3. c # o \/ UNCHANGED grants
      BY <1>4, <1>8, <2>1 DEF ReportConfirmed, ReportFailed, vars
    <2> QED
      BY <1>2, <1>5, <2>1, <2>2, <2>3
  <1>9. ASSUME NEW w \in WorkId, RunOut(w)
        PROVE  Held(o) \in grants'
    <2>1. grants' = {IF g.id = w THEN [g EXCEPT !.live = FALSE] ELSE g : g \in grants}
      BY <1>9 DEF RunOut, ExpireLease
    <2>2. Held(o).id # w
      BY <1>1, <1>9 DEF RunOut, Busy
    <2> QED
      BY <1>1, <2>1, <2>2
  <1>10. CASE \E x \in Owner : Ask(x)
    BY <1>2, <1>10 DEF Ask, BeginLease, vars
  <1>11. CASE \E n \in Node : NodeStep(n)
    BY <1>2, <1>7, <1>10, <1>11 DEF NodeStep, WakeUp, Check, ConsumeNonce, Resolve, vars, Owner
  <1>12. CASE \E c \in Cranker : CrankerStep(c)
    BY <1>2, <1>8, <1>10, <1>12 DEF CrankerStep, Send, Confirm, vars, Owner
  <1> QED
    BY <1>2, <1>6, <1>9, <1>11, <1>12
       DEF PNext, Submit, Receive, ServeWorker, Crash, Land, vars, all

(* A worker lets go of its lease only to report.                           *)
LEMMA LuckyMoves ==
  ASSUME PInv, IInv', [PNext]_all, faults = Faults, ~Fault, NEW o \in Owner
  PROVE  \/ worker'[o] = worker[o]
         \/ /\ ~Working(o)'
            /\ Working(o) => \/ o \in Node /\ VerdictOf(o)
                             \/ o \in Cranker /\ OutcomeOf(o)
         \/ Receives(o)
         \/ /\ worker'[o].held = worker[o].held
            /\ Refuses(o) \/ Examines(o) \/ Spends(o) \/ Accepts(o) \/ Proceeds(o) \/ Fails(o)
  <1>1. Moves(o) /\ worker[o] \in WorkerState
    BY EveryoneMoves DEF Typed, PInv, PTypeOK, WorkerState, Place, Statement
  <1>2. ASSUME Held(o) \in grants, Held(o).live => Fault,
               worker'[o] = [worker[o] EXCEPT !.held.live = FALSE]
        PROVE  ~Working(o) /\ ~Working(o)'
    <2>1. ~Working(o)
      BY <1>2, HeldRuns
    <2>2. worker'[o].pc = worker[o].pc
      BY <1>1, <1>2 DEF WorkerState
    <2> QED
      BY <2>1, <2>2 DEF Working
  <1>3. ASSUME Leaves(o)
        PROVE  /\ ~Working(o)'
               /\ Working(o) => \/ o \in Node /\ VerdictOf(o)
                                \/ o \in Cranker /\ OutcomeOf(o)
    <2>1. ~Working(o)'
      BY <1>3 DEF Leaves, Working
    <2>2. ASSUME Working(o) PROVE StillRunning(Held(o))
      BY <2>2, HeldRuns
    <2> QED
      BY <1>3, <2>1, <2>2 DEF Leaves
  <1> QED
    BY <1>1, <1>2, <1>3 DEF Moves

LEMMA LeasesStay ==
  ASSUME PInv, IInv', [PNext]_all, faults = Faults, ~Fault, NEW o \in Owner, Working(o)'
  PROVE  worker'[o].held \in grants' /\ worker'[o].held.live
  <1>1. CASE Receives(o)
    BY <1>1 DEF Receives
  <1>2. CASE Working(o) /\ worker'[o].held = worker[o].held
    BY <1>2, HeldRuns, GrantStays DEF Held
  <1>3. CASE worker'[o] = worker[o]
    <2>1. Working(o)
      BY <1>3 DEF Working
    <2> QED
      BY <1>2, <1>3, <2>1
  <1>4. ASSUME Refuses(o) \/ Examines(o) \/ Spends(o) \/ Accepts(o) \/ Proceeds(o) \/ Fails(o)
        PROVE  Working(o)
    BY <1>4 DEF Refuses, Examines, Spends, Accepts, Proceeds, Fails, Working, At
  <1> QED
    BY <1>1, <1>2, <1>3, <1>4, LuckyMoves

(* An accepted nonce does not get lost: the Node that passed still does,   *)
(* or its verdict is recorded.                                             *)
LEMMA SpentStays ==
  ASSUME PInv, IInv', [PNext]_all, faults = Faults, ~Fault, NEW q \in Ref, Spent(q)
  PROVE  Spent(q)'
  <1>1. CASE Accepted(q)
    BY <1>1, PaymentStep DEF Spent
  <1>2. ASSUME NEW n \in Node, Passing(n), Held(n).id = Ingress(q)
        PROVE  Accepted(q)' \/ (Passing(n)' /\ worker'[n].held.id = Ingress(q))
    <2>1. n \in Owner /\ n \notin Cranker /\ Working(n)
      BY <1>2, ReceiverAssumption DEF Owner, Passing, Working, At
    <2>2. CASE worker'[n] = worker[n]
      BY <1>2, <2>2 DEF Passing, At, Held
    <2>3. CASE VerdictOf(n)
      <3>1. worker[n].says = "VERIFIED" /\ IInv
        BY <1>2, <2>3 DEF VerdictOf, Passing, At, PInv
      <3>2. /\ work'[Held(n).id].verification.decision = "VERIFIED"
            /\ Exists(Held(n).id) /\ work'[Held(n).id].status # "ABSENT"
        BY <2>3, <3>1, VerdictWritten DEF VerdictOf, Exists
      <3> QED
        BY <1>2, <3>2 DEF Accepted, Payment, Exists
    <2>4. CASE worker'[n].held = worker[n].held /\ Accepts(n)
      BY <1>2, <2>4 DEF Accepts, Passing, At, Held
    <2>5. ~Receives(n) /\ ~Refuses(n) /\ ~Examines(n) /\ ~Spends(n) /\ ~Proceeds(n) /\ ~Fails(n)
      BY <1>2, <2>1 DEF Passing, Receives, Refuses, Examines, Spends, Proceeds, Fails, At
    <2> QED
      BY <2>1, <2>2, <2>3, <2>4, <2>5, LuckyMoves
  <1> QED
    BY <1>1, <1>2 DEF Spent, Held

(* A nonce it finds used was spent on another payment.                     *)
LEMMA UsedByAnother ==
  ASSUME PInv, faults = Faults, NEW n \in Node, At(n, "consuming"),
         NonceOf[PaymentOf(n)] \in used
  PROVE  ReasonToReject(PaymentOf(n))
  <1> DEFINE r == PaymentOf(n)
  <1>1. n \in Owner /\ Working(n)
    BY DEF Owner, Working, At
  <1>2. PICK q \in Ref : NonceOf[q] = NonceOf[r] /\ Spent(q)
    BY DEF PInv, NoLuckNeeded
  <1>3. Held(n).id = Ingress(r)
    BY <1>1 DEF PInv, WorkersCoherent
  <1>4. ASSUME NEW m \in Node, Passing(m), Held(m).id = Ingress(q)
        PROVE  Exists(Ingress(q)) /\ q # r
    <2>1. m \in Owner /\ Working(m)
      BY <1>4 DEF Owner, Passing, Working, At
    <2>2. ASSUME q = r PROVE FALSE
      <3>1. m = n
        BY <1>1, <1>3, <1>4, <2>1, <2>2, HeldRuns DEF LeaseOf
      <3> QED
        BY <1>4, <3>1 DEF Passing, At
    <2> QED
      BY <1>4, <2>1, <2>2, HeldRuns
  <1>5. ASSUME Accepted(q)
        PROVE  Exists(Ingress(q)) /\ q # r
    <2>1. work[Held(n).id].verification = NoVerification
      BY <1>1, HeldRuns DEF LeasedBy, PInv, IInv, AttestedBeforeExecution
    <2> QED
      BY <1>3, <1>5, <2>1 DEF Accepted, Payment, NoVerification
  <1> QED
    BY <1>2, <1>4, <1>5 DEF Spent, ReasonToReject

LEMMA ReasonStays ==
  ASSUME PInv, [PNext]_all, NEW r \in Ref, ReasonToReject(r)
  PROVE  ReasonToReject(r)'
  BY PaymentStep DEF ReasonToReject

LEMMA SpentAccounted ==
  ASSUME PInv, IInv', [PNext]_all, faults = Faults, ~Fault, NEW x \in used'
  PROVE  \E q \in Ref : NonceOf[q] = x /\ Spent(q)'
  <1>1. CASE x \in used
    BY <1>1, SpentStays DEF PInv, NoLuckNeeded
  <1>2. CASE x \notin used
    <2>1. PICK n \in Node : Spends(n) /\ x = NonceOf[PaymentOf(n)]
      BY <1>2, UsedKept
    <2>2. n \in Owner /\ Held(n) \in Grant /\ Held(n).id = Ingress(PaymentOf(n))
      BY <2>1 DEF Spends, PInv, WorkersCoherent, Owner, Working, At
    <2>3. Passing(n)' /\ PaymentOf(n) \in Ref
      BY <2>1, <2>2, DepositsAreSignatures DEF Spends, Passing, At
    <2>4. Held(n)'.id = Ingress(PaymentOf(n))
      BY <2>2, <2>3, StillPassing
    <2> QED
      BY <2>1, <2>3, <2>4 DEF Spent
  <1> QED
    BY <1>1, <1>2

LEMMA RefusalKept ==
  ASSUME PInv, IInv', [PNext]_all, faults = Faults, ~Fault, NEW n \in Node,
         At(n, "reporting")', worker'[n].says = "REJECTED",
         NEW r, r = PaymentOf(n)', worker'[n].held.id = Ingress(r)
  PROVE  ReasonToReject(r)'
  <1>1. n \in Owner /\ n \notin Cranker
    BY ReceiverAssumption DEF Owner
  <1>2. ASSUME worker'[n].held = worker[n].held
        PROVE  PaymentOf(n) = r /\ Held(n).id = Ingress(r)
    BY <1>2 DEF PaymentOf, Held
  <1>3. CASE worker'[n] = worker[n]
    <2>1. At(n, "reporting") /\ worker[n].says = "REJECTED" /\ Held(n) \in Grant
      BY <1>1, <1>3 DEF At, PInv, WorkersCoherent, Working
    <2>2. ReasonToReject(PaymentOf(n))
      BY <1>2, <1>3, <2>1 DEF PInv, NoLuckNeeded
    <2> QED
      BY <1>1, <1>2, <1>3, <2>1, <2>2, DepositsAreSignatures, ReasonStays
  <1>4. CASE worker'[n].held = worker[n].held /\ Refuses(n)
    <2>1. Working(n) /\ ~Fault
      BY <1>4 DEF Refuses, Working
    <2>2. Held(n) \in Grant /\ Held(n).id \in WorkId /\ Exists(Held(n).id)
      BY <1>1, <2>1, HeldRuns DEF PInv, WorkersCoherent
    <2>3. CASE At(n, "consuming") /\ NonceOf[PaymentOf(n)] \in used
      BY <1>1, <1>2, <1>4, <2>2, <2>3, DepositsAreSignatures, UsedByAnother, ReasonStays
    <2>4. CASE work[Held(n).id].kind = "SETTLEMENT" \/ PaymentOf(n) \notin Valid
      <3>1. Held(n).id[2] = "ingress"
        BY <1>2, <1>4 DEF Ingress
      <3>2. PaymentOf(n) \notin Valid
        BY <2>2, <2>4, <3>1 DEF PInv, IInv, KindsMatch
      <3> QED
        BY <1>2, <1>4, <3>2 DEF ReasonToReject
    <2> QED
      BY <1>4, <2>1, <2>3, <2>4 DEF Refuses
  <1>5. Working(n)' /\ ~Receives(n) /\ ~Examines(n) /\ ~Spends(n) /\ ~Accepts(n)
        /\ ~Proceeds(n) /\ ~Fails(n)
    BY <1>1 DEF Working, At, Receives, Examines, Spends, Accepts, Proceeds, Fails
  <1> QED
    BY <1>1, <1>3, <1>4, <1>5, LuckyMoves

LEMMA ConsumingKept ==
  ASSUME PInv, IInv', [PNext]_all, faults = Faults, ~Fault, NEW n \in Node,
         At(n, "consuming")'
  PROVE  PaymentOf(n)' \in Valid
  <1>1. n \in Owner /\ n \notin Cranker
    BY ReceiverAssumption DEF Owner
  <1>2. CASE worker'[n] = worker[n]
    BY <1>2 DEF At, PaymentOf, Held, PInv, NoLuckNeeded
  <1>3. CASE worker'[n].held = worker[n].held /\ Examines(n)
    BY <1>3 DEF Examines, PaymentOf, Held
  <1>4. Working(n)' /\ ~Receives(n) /\ ~Refuses(n) /\ ~Spends(n) /\ ~Accepts(n)
        /\ ~Proceeds(n) /\ ~Fails(n)
    BY <1>1 DEF Working, At, Receives, Refuses, Spends, Accepts, Proceeds, Fails
  <1> QED
    BY <1>1, <1>2, <1>3, <1>4, LuckyMoves

LEMMA FailingKept ==
  ASSUME PInv, IInv', [PNext]_all, faults = Faults, ~Fault, NEW c \in Cranker,
         At(c, "failing")'
  PROVE  chain'[Deposit(c)'] = "dead"
  <1>1. c \in Owner /\ c \notin Node /\ PTypeOK
    BY ReceiverAssumption DEF Owner, PInv
  <1>2. ASSUME worker'[c].held = worker[c].held
        PROVE  Deposit(c)' = Deposit(c)
    BY <1>2 DEF Deposit, PaymentOf, Held
  <1>3. ASSUME Working(c)
        PROVE  Deposit(c) \in Signature /\ StillRunning(Held(c))
    BY <1>1, <1>3, DepositsAreSignatures, HeldRuns DEF PInv, WorkersCoherent
  <1>4. CASE worker'[c] = worker[c]
    <2>1. At(c, "failing") /\ Working(c)
      BY <1>4 DEF At, Working
    <2> QED
      BY <1>1, <1>2, <1>3, <1>4, <2>1, ChainKept DEF PInv, NoLuckNeeded
  <1>5. CASE worker'[c].held = worker[c].held /\ Fails(c)
    <2>1. chain[Deposit(c)] = "dead" /\ Working(c)
      BY <1>3, <1>5 DEF Fails, CanReport
    <2> QED
      BY <1>1, <1>2, <1>3, <1>5, <2>1, ChainKept
  <1>6. Working(c)' /\ ~Receives(c) /\ ~Refuses(c) /\ ~Examines(c) /\ ~Spends(c) /\ ~Accepts(c)
        /\ ~Proceeds(c)
    BY <1>1 DEF Working, At, Receives, Refuses, Examines, Spends, Accepts, Proceeds
  <1> QED
    BY <1>1, <1>4, <1>5, <1>6, LuckyMoves

LEMMA LuckKept ==
  ASSUME PInv, IInv', [PNext]_all
  PROVE  NoLuckNeeded' /\ NoVerdictWithoutReason'
  <1>1. PTypeOK
    BY DEF PInv
  <1>2. SUFFICES ASSUME faults' = Faults
                 PROVE  NoLuckNeeded' /\ NoVerdictWithoutReason'
    BY DEF NoLuckNeeded, NoVerdictWithoutReason
  <1>3. faults = Faults /\ ~Fault
    BY <1>1, <1>2, FaultsKept
  <1>4. \A o \in Owner : Working(o)' => Held(o)' \in grants' /\ Held(o)'.live
    BY <1>3, LeasesStay DEF Held
  <1>5. \A x \in used' : \E q \in Ref : NonceOf[q] = x /\ Spent(q)'
    BY <1>3, SpentAccounted
  <1>6. \A n \in Node : (At(n, "reporting") /\ worker[n].says = "REJECTED" /\ Held(n).id = Ingress(PaymentOf(n)))' =>
          ReasonToReject(PaymentOf(n))'
    <2> SUFFICES ASSUME NEW n \in Node, NEW r, r = PaymentOf(n)', At(n, "reporting")',
                        worker'[n].says = "REJECTED", worker'[n].held.id = Ingress(r)
                 PROVE  ReasonToReject(r)'
      BY DEF Held, Ingress, ReasonToReject
    <2> QED
      BY <1>3, RefusalKept
  <1>7. \A n \in Node : At(n, "consuming")' => PaymentOf(n)' \in Valid
    BY <1>3, ConsumingKept
  <1>8. \A c \in Cranker : At(c, "failing")' => chain'[Deposit(c)'] = "dead"
    BY <1>3, FailingKept
  <1>9. NoLuckNeeded'
    BY <1>4, <1>5, <1>6, <1>7, <1>8 DEF NoLuckNeeded
  <1>10. ASSUME NEW r \in Ref, Reached(r, "REJECTED")'
         PROVE  ReasonToReject(r)'
    <2>1. CASE Reached(r, "REJECTED")
      BY <1>3, <2>1, ReasonStays DEF PInv, NoVerdictWithoutReason, ReasonToReject
    <2>2. ASSUME NEW n \in Node, VerdictOf(n), worker[n].says = "REJECTED", Held(n).id = Ingress(r)
          PROVE  ReasonToReject(r)'
      <3>1. PaymentOf(n) = r /\ At(n, "reporting")
        BY <2>2, IngressIsWork DEF PaymentOf, VerdictOf
      <3>2. ReasonToReject(r)
        BY <1>3, <2>2, <3>1 DEF PInv, NoLuckNeeded
      <3> QED
        BY <3>2, ReasonStays
    <2> QED
      BY <1>10, <2>1, <2>2, PaymentStep
  <1>11. ASSUME NEW r \in Ref, Reached(r, "FAILED")'
         PROVE  chain'[DepositOf[r]] = "dead"
    <2>1. DepositOf[r] \in Signature
      BY PipelineAssumption
    <2>2. CASE Reached(r, "FAILED")
      BY <1>1, <1>3, <2>1, <2>2, ChainKept DEF PInv, NoVerdictWithoutReason
    <2>3. ASSUME NEW c \in Cranker, At(c, "failing"), Held(c).id = Ingress(r)
          PROVE  chain'[DepositOf[r]] = "dead"
      <3>1. Deposit(c) = DepositOf[r]
        BY <2>3, IngressIsWork DEF Deposit, PaymentOf
      <3>2. chain[Deposit(c)] = "dead"
        BY <1>3, <2>3 DEF PInv, NoLuckNeeded
      <3> QED
        BY <1>1, <2>1, <3>1, <3>2, ChainKept
    <2> QED
      BY <1>11, <2>2, <2>3, PaymentStep
  <1> QED
    BY <1>9, <1>10, <1>11 DEF NoVerdictWithoutReason, ReasonToReject

-----------------------------------------------------------------------------
(* The theorems.                                                           *)

LEMMA PipelineStarts ==
  PInit => PInv
  <1> SUFFICES ASSUME PInit PROVE PInv
    OBVIOUS
  <1>1. Init /\ IInv
    BY InitHolds DEF PInit
  <1>2. \A w \in WorkId : ~Exists(w) \/ (work[w].status = "RECEIVED" /\ work[w].verification = NoVerification)
    BY <1>1, NewWorkDocument DEF Init, Exists, Absent, IInv, AttestedBeforeExecution, Kind, ExternalKind
  <1>3. \A r \in Ref : Ingress(r) \in WorkId
    BY IngressIsWork
  <1>4. \A r \in Ref : ~Accepted(r) /\ ~Reached(r, "CONFIRMED") /\ ~Reached(r, "REJECTED") /\ ~Reached(r, "FAILED")
    BY <1>2, <1>3 DEF Accepted, Reached, Payment, NoVerification
  <1>5. worker \in [Owner -> WorkerState]
    BY RestTypes DEF PInit
  <1>6. \A o \in Owner : worker[o].pc \in {"rest", "asleep"} /\ (o \in Cranker => worker[o].pc = "rest")
    BY RestTypes, ReceiverAssumption DEF PInit
  <1>7. PTypeOK
    BY <1>5, PipelineAssumption DEF PInit, PTypeOK, WorkerState, Place, Statement
  <1>8. \A o \in Owner : call[o].pc = "idle"
    BY <1>1, PipelineAssumption DEF Init, IdleCall
  <1>9. WorkersCoherent
    BY <1>6, <1>8 DEF WorkersCoherent, Working, At, Passing
  <1>10. \A n \in Node : ~Passing(n) /\ ~At(n, "reporting") /\ ~At(n, "consuming")
    BY <1>6 DEF Passing, At, Owner
  <1>11. NoncesSpentOnce /\ NoReplayedAuthorization /\ ConfirmedLanded /\ NoVerdictWithoutReason
    BY <1>4, <1>10 DEF NoncesSpentOnce, NoReplayedAuthorization, ConfirmedLanded, NoVerdictWithoutReason
  <1>12. used = {} /\ \A c \in Cranker : ~At(c, "failing")
    BY <1>6 DEF PInit, At, Owner
  <1>13. NoLuckNeeded
    BY <1>6, <1>10, <1>12 DEF NoLuckNeeded, Working
  <1> QED
    BY <1>1, <1>7, <1>9, <1>11, <1>13 DEF PInv

LEMMA PipelineSteps ==
  PInv /\ [PNext]_all => PInv'
  <1> SUFFICES ASSUME PInv, [PNext]_all PROVE PInv'
    OBVIOUS
  <1>1. IInv'
    BY StepOfQueue, StepHolds DEF PInv
  <1> QED
    BY <1>1, PTypeKept, WorkersKept, LandedKept, NoncesKept, LuckKept DEF PInv

(* PInv is inductive, so it holds of every reachable state.                *)
THEOREM PipelineInductive == PSpec => []PInv
  BY PipelineStarts, PipelineSteps, PTL DEF PSpec

(* The workers and the chain only ever drive the Receiver's queue the way  *)
(* its specification allows: every behaviour of the pipeline is one of     *)
(* the queue, and has every property ReceiverProofs shows of it.           *)
THEOREM PipelineIsQueue == PSpec => Spec
  <1>1. PInit => Init
    BY DEF PInit
  <1>2. PInv /\ [PNext]_all => [Next]_vars
    BY StepOfQueue
  <1> QED
    BY <1>1, <1>2, PipelineInductive, PTL DEF PSpec, Spec

(* Workers, wake events, nonces and the chain keep their shapes.           *)
THEOREM PipelineTypes == PSpec => []PTypeOK
  <1>1. PInv => PTypeOK
    BY DEF PInv
  <1> QED
    BY <1>1, PipelineInductive, PTL

(* CONFIRMED is recorded only of a payment whose deposit is on chain:      *)
(* whatever reports get lost, repeated or refused, and whoever sent it.    *)
THEOREM ConfirmedOnlyIfLanded == PSpec => []ConfirmedLanded
  <1>1. PInv => ConfirmedLanded
    BY DEF PInv
  <1> QED
    BY <1>1, PipelineInductive, PTL

(* A signed authorization is accepted once, by however many Nodes, under   *)
(* however many payment ids, through crashes and lost answers.             *)
THEOREM NoAuthorizationReplayed == PSpec => []NoReplayedAuthorization
  <1>1. PInv => NoReplayedAuthorization
    BY DEF PInv
  <1> QED
    BY <1>1, PipelineInductive, PTL

(* As long as nothing went wrong, a payment is rejected or fails only for  *)
(* its own fault, a nonce another payment spent, or a dead deposit - never *)
(* because of how the workers were interleaved.                            *)
THEOREM VerdictsHaveReasons == PSpec => []NoVerdictWithoutReason
  <1>1. PInv => NoVerdictWithoutReason
    BY DEF PInv
  <1> QED
    BY <1>1, PipelineInductive, PTL

(* No two workers of the pipeline ever hold the same work.                 *)
THEOREM PipelineExclusive == PSpec => []HolderExclusive
  <1>1. PInv => HolderExclusive
    BY DEF PInv, IInv
  <1> QED
    BY <1>1, PipelineInductive, PTL
=============================================================================
