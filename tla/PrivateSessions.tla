----------------------------- MODULE PrivateSessions -----------------------------
(***************************************************************************)
(* How the backend lets a device of a TIN's owner read private receipts    *)
(* (backend/app/api/tsn/privacy, app/db/tsn-privacy and the verifiers of   *)
(* the SDK): the owner's authorization registers the device's key, the     *)
(* device opens a session, and every read is proved with the key again.    *)
(*                                                                         *)
(* Requests are served concurrently, and each reads and writes its rows    *)
(* with statements of its own: what it read may be gone when it goes on,   *)
(* and a crash may fall between two statements.  Anybody may send any      *)
(* proof, and send it again.  A signature is the key that made it, and a   *)
(* session's token is the session; the network and the audience are one.   *)
(***************************************************************************)
EXTENDS Naturals

CONSTANTS
  Tin, Device, Key,  \* a device's signing and encryption keys are one key
  PrivateSession,
  OwnerNonce,        \* nonces of registration challenges, never drawn twice
  RequestNonce,      \* nonces devices put into their proofs
  Handler,           \* HTTP requests the backend serves at a time
  Scope, CreateScope, ReadScope  \* permissions, and the two that routes ask for

ASSUME PrivateAssumption ==
  CreateScope \in Scope /\ ReadScope \in Scope /\ CreateScope # ReadScope

VARIABLES
  issued,    \* rows of registration challenges
  spent,     \* challenges consumed, or past their expiry
  devices,   \* rows of authorized devices
  sessions,  \* rows of private sessions
  over,      \* sessions past their expiry
  consumed,  \* rows of proof nonces
  revoking,  \* devices revoked whose sessions are still to be
  serving,   \* what each handler is doing
  granted,   \* history: authorizations whose challenge was consumed for them
  opened,    \* history: proofs that opened a session
  served,    \* history: reads that were answered
  runs       \* history: how often a proof's nonce got a request through

rows == <<issued, spent, devices, sessions, over, consumed, revoking>>
history == <<granted, opened, served, runs>>
privateVars == <<rows, serving, history>>

(* What an owner signs for a device, and what a device signs: a read, or a *)
(* session with the permissions it asks for.                               *)
Authorization == [nonce : OwnerNonce, tin : Tin, key : Key, scopes : SUBSET Scope]

ProofOf(scope, askable) ==
  [scope : {scope}, nonce : RequestNonce, key : Key, device : Device,
   session : PrivateSession, asked : askable]

CreateProof == ProofOf(CreateScope, SUBSET Scope)
ReadProof == ProofOf(ReadScope, {{}})
Proof == CreateProof \cup ReadProof

DeviceRow ==
  [device : Device, tin : Tin, key : Key, scopes : SUBSET Scope, nonce : OwnerNonce,
   active : BOOLEAN]

SessionRow ==
  [session : PrivateSession, device : Device, tin : Tin, scopes : SUBSET Scope,
   active : BOOLEAN]

Idle == [at |-> "idle"]

PrivateInit ==
  /\ issued = {} /\ spent = {} /\ devices = {} /\ sessions = {} /\ over = {}
  /\ consumed = {} /\ revoking = {}
  /\ serving = [h \in Handler |-> Idle]
  /\ granted = {} /\ opened = {} /\ served = {}
  /\ runs = [n \in RequestNonce |-> 0]

(* Handler h goes on to do what.                                           *)
Goes(h, what) == serving' = [serving EXCEPT ![h] = what]

-----------------------------------------------------------------------------
(* The owner's side: a challenge, the owner's authorization of it sent for *)
(* some device id, which it does not name, and the row of the device.  A   *)
(* registration touches no row before it consumes its challenge.           *)
IssueChallenge(n, t) ==
  /\ \A c \in issued : c.nonce # n
  /\ issued' = issued \cup {[nonce |-> n, tin |-> t]}
  /\ UNCHANGED <<spent, devices, sessions, over, consumed, revoking, serving, history>>

ChallengeExpires(c) ==
  /\ spent' = spent \cup {c.nonce}
  /\ UNCHANGED <<issued, devices, sessions, over, consumed, revoking, serving, history>>

StillOpen(a) == [nonce |-> a.nonce, tin |-> a.tin] \in issued /\ a.nonce \notin spent

ConsumeOwnerChallenge(h, d, a) ==
  /\ serving[h] = Idle
  /\ a.scopes # {}
  /\ StillOpen(a)
  /\ spent' = spent \cup {a.nonce}
  /\ granted' = granted \cup {a}
  /\ Goes(h, [at |-> "authorized", device |-> d, authorization |-> a])
  /\ UNCHANGED <<issued, devices, sessions, over, consumed, revoking, opened, served, runs>>

(* A row of its own, as no other has the device's id or its key.  For an   *)
(* id that is taken the row stays, and must be active with the same key.   *)
InsertDevice(h) ==
  /\ serving[h].at = "authorized"
  /\ LET a == serving[h].authorization
         id == serving[h].device
     IN  \/ /\ \A r \in devices : r.device # id /\ r.key # a.key
            /\ devices' = devices \cup
                 {[device |-> id, tin |-> a.tin, key |-> a.key, scopes |-> a.scopes,
                   nonce |-> a.nonce, active |-> TRUE]}
         \/ /\ \E r \in devices :
                 r.device = id /\ r.tin = a.tin /\ r.key = a.key /\ r.active
            /\ UNCHANGED devices
  /\ Goes(h, Idle)
  /\ UNCHANGED <<issued, spent, sessions, over, consumed, revoking, history>>

(* revokeAuthorizedDevice: the device first, its sessions after it.        *)
Revoke(r) ==
  /\ r.active
  /\ devices' = (devices \ {r}) \cup {[r EXCEPT !.active = FALSE]}
  /\ revoking' = revoking \cup {r.device}
  /\ UNCHANGED <<issued, spent, sessions, over, consumed, serving, history>>

RevokeSessions(d) ==
  /\ sessions' = {IF s.device = d THEN [s EXCEPT !.active = FALSE] ELSE s : s \in sessions}
  /\ revoking' = revoking \ {d}
  /\ UNCHANGED <<issued, spent, devices, over, consumed, serving, history>>

RevokeFails(d) ==
  /\ revoking' = revoking \ {d}
  /\ UNCHANGED <<issued, spent, devices, sessions, over, consumed, serving, history>>

-----------------------------------------------------------------------------
(* The device's side.  A session is asked for with a proof; the device's   *)
(* row is read once, and everything is checked against what was read.      *)
MayCreate(r, q) ==
  /\ r.active
  /\ CreateScope \in r.scopes
  /\ q.device = r.device /\ q.key = r.key
  /\ q.asked # {} /\ q.asked \subseteq r.scopes
  /\ q.session \notin over

BeginCreate(h, r, q) ==
  /\ serving[h] = Idle
  /\ MayCreate(r, q)
  /\ Goes(h, [at |-> "verified", proof |-> q, tin |-> r.tin, late |-> FALSE])
  /\ UNCHANGED <<rows, history>>

InsertSession(h) ==
  /\ serving[h].at = "through"
  /\ LET q == serving[h].proof IN
       /\ q.scope = CreateScope
       /\ \A s \in sessions : s.session # q.session
       /\ sessions' = sessions \cup
            {[session |-> q.session, device |-> q.device, tin |-> serving[h].tin,
              scopes |-> q.asked, active |-> TRUE]}
       /\ opened' = opened \cup {q}
  /\ Goes(h, Idle)
  /\ UNCHANGED <<issued, spent, devices, over, consumed, revoking, granted, served, runs>>

SessionExpires(s) ==
  /\ over' = over \cup {s.session}
  /\ UNCHANGED <<issued, spent, devices, sessions, consumed, revoking, serving, history>>

(* A read: the session of the token, then that session's device, then the  *)
(* proof's nonce, then the receipts of the session's TIN.  late: the key   *)
(* of the proof had been revoked before the read began.                    *)
BeginRead(h, s, q) ==
  /\ serving[h] = Idle
  /\ s.active /\ s.session \notin over
  /\ ReadScope \in s.scopes
  /\ Goes(h, [at |-> "session", proof |-> q, session |-> s,
              late |-> \E r \in devices : r.key = q.key /\ ~r.active])
  /\ UNCHANGED <<rows, history>>

(* Slip: the session is taken to end with its device.                      *)
MayReadOnSession(s, r, q) ==
  /\ r.device = s.device /\ r.tin = s.tin
  /\ ReadScope \in r.scopes
  /\ q.key = r.key /\ q.device = r.device
  /\ q.session = s.session /\ s.session \notin over

(* Slip: the device is looked up by the proof, not by the session.         *)
MayReadAsProved(s, r, q) ==
  MayReadOnSession([s EXCEPT !.device = q.device], r, q) /\ r.active

MayRead(s, r, q) == MayReadOnSession(s, r, q) /\ r.active

ReadDevice(h) ==
  /\ serving[h].at = "session"
  /\ \E r \in devices : MayRead(serving[h].session, r, serving[h].proof)
  /\ Goes(h, [at |-> "verified", proof |-> serving[h].proof, tin |-> serving[h].session.tin,
              late |-> serving[h].late])
  /\ UNCHANGED <<rows, history>>

NewNonce(n) == n \in RequestNonce /\ n \notin consumed

ConsumeNonce(h) ==
  /\ serving[h].at = "verified"
  /\ LET n == serving[h].proof.nonce IN
       /\ NewNonce(n)
       /\ consumed' = consumed \cup {n}
       /\ runs' = [runs EXCEPT ![n] = @ + 1]
  /\ Goes(h, [serving[h] EXCEPT !.at = "through"])
  /\ UNCHANGED <<issued, spent, devices, sessions, over, revoking, granted, opened, served>>

Serve(h) ==
  /\ serving[h].at = "through"
  /\ serving[h].proof.scope = ReadScope
  /\ served' = served \cup
       {[proof |-> serving[h].proof, tin |-> serving[h].tin, late |-> serving[h].late]}
  /\ Goes(h, Idle)
  /\ UNCHANGED <<rows, granted, opened, runs>>

(* A check that fails, a statement that fails, a crash: the request ends.  *)
Refuse(h) ==
  /\ serving[h] # Idle
  /\ Goes(h, Idle)
  /\ UNCHANGED <<rows, history>>

-----------------------------------------------------------------------------
PrivateNext ==
  \/ \E n \in OwnerNonce, t \in Tin : IssueChallenge(n, t)
  \/ \E c \in issued : ChallengeExpires(c)
  \/ \E r \in devices : Revoke(r)
  \/ \E d \in revoking : RevokeSessions(d) \/ RevokeFails(d)
  \/ \E s \in sessions : SessionExpires(s)
  \/ \E h \in Handler :
       \/ \E d \in Device, a \in Authorization : ConsumeOwnerChallenge(h, d, a)
       \/ \E r \in devices, q \in CreateProof : BeginCreate(h, r, q)
       \/ \E s \in sessions, q \in ReadProof : BeginRead(h, s, q)
       \/ InsertDevice(h) \/ InsertSession(h)
       \/ ReadDevice(h) \/ ConsumeNonce(h) \/ Serve(h) \/ Refuse(h)

PrivateSpec == PrivateInit /\ [][PrivateNext]_privateVars

-----------------------------------------------------------------------------
(* A challenge of registration registers one device, however often the     *)
(* owner's authorizations of it arrive and whatever they say.              *)
OneDevicePerChallenge ==
  \A r1, r2 \in devices : r1.nonce = r2.nonce => r1 = r2

(* Once a key was revoked no read that begins later is answered for it:    *)
(* not on a session that its revocation missed, as one opened meanwhile or *)
(* left by a crash, and not after the key was sent for registration again. *)
RevokedIsRefused == \A a \in served : ~a.late

(* Whatever is answered was allowed twice over to the key that asked: the  *)
(* owner of that TIN authorized the key to read, and the session was       *)
(* opened with a proof of the same key that asked to read.                 *)
ServedAsGranted ==
  \A a \in served :
    /\ \E g \in granted : g.tin = a.tin /\ g.key = a.proof.key /\ ReadScope \in g.scopes
    /\ \E q \in opened :
         q.session = a.proof.session /\ q.key = a.proof.key /\ ReadScope \in q.asked

(* A proof gets at most one request through, when copies of it are served  *)
(* at the same time as well, and for a read as for a session.              *)
ProofsRunOnce == \A n \in RequestNonce : runs[n] <= 1
=============================================================================
