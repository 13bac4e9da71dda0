------------------------------ MODULE CrankerAuth ------------------------------
(***************************************************************************)
(* How a Cranker authenticates to the Receiver (tsn-receiver/lib/          *)
(* cranker-auth.ts and receiverRequest of the daemon): a challenge is      *)
(* exchanged for a session, and every request carries the next number of   *)
(* its session.  One Cranker key and one daemon, which restarts.           *)
(*                                                                         *)
(* Requests and answers may be lost or late, and requests repeated; one    *)
(* that the daemon gave up on may still arrive.  Signatures, tokens        *)
(* and the look-up of the Cranker's accounts are taken to succeed: what    *)
(* fails there reaches nothing below, and the daemon gives up the call.    *)
(* Time only shows in challenges and sessions that lapse.                  *)
(***************************************************************************)
EXTENDS Naturals, Sequences

CONSTANTS
  Nonce,       \* challenge nonces, random and never drawn twice
  Session,     \* session ids, likewise
  Call,        \* what the daemon asks for: a lease or a report
  RepeatBound, \* bound: how often the network repeats something
  None

ASSUME AuthAssumption ==
  /\ None \notin Session \cup Nonce \cup Call
  /\ Session \cap Nonce = {}
  /\ RepeatBound \in Nat

VARIABLES
  challenge,  \* nonce -> where its challenge document stands
  doomed,     \* nonce -> documents its request for a challenge found stale
  session,    \* session -> its document
  minting,    \* nonces consumed whose session is not created yet
  daemon,     \* the daemon's current call and its cached session
  made,       \* calls made so far
  proofs,     \* nonces sent back, signed, for a session
  requests,   \* requests in the network
  handlers,   \* requests the Receiver is authenticating
  answers,    \* answers in the network
  lapsed,     \* history: sessions that lapsed
  repeated,   \* history: how often the network repeated something
  ran         \* history: the requests that were let through, in order

vars == <<challenge, doomed, session, minting, daemon, made, proofs, requests,
          handlers, answers, lapsed, repeated, ran>>
receiver == <<challenge, doomed, session, minting, handlers, lapsed, repeated, ran>>

Request == [session : Session, counter : Nat \ {0}, call : Call]

SessionRecord ==
  [state : {"absent", "live", "stale", "gone"}, counter : Nat, from : Nonce \cup {None}]

DaemonRecord ==
  [at : {"idle", "session", "challenge", "proof", "request"}, call : Call \cup {None},
   retried : BOOLEAN, nonce : Nonce \cup {None}, session : Session \cup {None},
   next : Nat \ {0}, sent : Nat]

NewDaemon == [at |-> "idle", call |-> None, retried |-> FALSE, nonce |-> None,
              session |-> None, next |-> 1, sent |-> 0]

Init ==
  /\ challenge = [n \in Nonce |-> "absent"]
  /\ doomed = [n \in Nonce |-> {}]
  /\ session = [s \in Session |-> [state |-> "absent", counter |-> 0, from |-> None]]
  /\ minting = {} /\ made = {} /\ proofs = {} /\ requests = {} /\ handlers = {}
  /\ answers = {} /\ lapsed = {} /\ repeated = 0 /\ ran = <<>>
  /\ daemon = NewDaemon

(* What the network delivers leaves it, or stays to be delivered again.    *)
Taken(network, message) ==
  \/ network' = network \ {message} /\ UNCHANGED repeated
  \/ UNCHANGED network /\ repeated < RepeatBound /\ repeated' = repeated + 1

-----------------------------------------------------------------------------
(* The daemon: receiverRequest, getSession and establishSession.           *)
StartCall(c) ==
  /\ daemon.at = "idle"
  /\ c \notin made
  /\ made' = made \cup {c}
  /\ daemon' = [daemon EXCEPT !.at = "session", !.call = c, !.retried = FALSE]
  /\ UNCHANGED <<receiver, proofs, requests, answers>>

(* The cached session seems valid still, by the daemon's own clock.        *)
Send ==
  /\ daemon.at = "session"
  /\ daemon.session # None
  /\ requests' = requests \cup
       {[session |-> daemon.session, counter |-> daemon.next, call |-> daemon.call]}
  /\ daemon' = [daemon EXCEPT !.at = "request", !.next = @ + 1, !.sent = daemon.next]
  /\ UNCHANGED <<receiver, made, proofs, answers>>

SendProof ==
  /\ daemon.at = "challenge"
  /\ challenge[daemon.nonce] # "pruning"
  /\ proofs' = proofs \cup {daemon.nonce}
  /\ daemon' = [daemon EXCEPT !.at = "proof"]
  /\ UNCHANGED <<receiver, made, requests, answers>>

Establish(s) ==
  /\ daemon.at = "proof"
  /\ session[s].from = daemon.nonce
  /\ daemon' = [daemon EXCEPT !.at = "session", !.session = s, !.next = 1, !.nonce = None]
  /\ UNCHANGED <<receiver, made, proofs, requests, answers>>

Sent == [session |-> daemon.session, counter |-> daemon.sent, call |-> daemon.call]

(* Slip: the call is tried again after any error.                          *)
RenewAlways(kind) == daemon.at = "request" /\ ~daemon.retried

(* A call is tried again, once, when its session was refused.              *)
Renew(kind) == daemon.at = "request" /\ ~daemon.retried /\ kind = "session"

Hear(kind) ==
  /\ daemon.at = "request"
  /\ kind # "lost" => [to |-> Sent, kind |-> kind] \in answers
  /\ daemon' = IF Renew(kind)
               THEN [daemon EXCEPT !.at = "session", !.retried = TRUE, !.session = None]
               ELSE [daemon EXCEPT !.at = "idle"]
  /\ UNCHANGED <<receiver, made, proofs, requests, answers>>

(* A challenge or a session was refused, or no answer came.                *)
GiveUp ==
  /\ daemon.at \in {"challenge", "proof"}
  /\ daemon' = [daemon EXCEPT !.at = "idle"]
  /\ UNCHANGED <<receiver, made, proofs, requests, answers>>

Restart ==
  /\ daemon # NewDaemon
  /\ daemon' = NewDaemon
  /\ UNCHANGED <<receiver, made, proofs, requests, answers>>

-----------------------------------------------------------------------------
(* issueCrankerChallenge: find what is stale, delete it, create.           *)
(* Slip: every session of the key is pruned.                               *)
StaleAny == {n \in Nonce : challenge[n] \in {"used", "lapsed"}}
            \cup {s \in Session : session[s].state \in {"live", "stale"}}

Stale == {n \in Nonce : challenge[n] \in {"used", "lapsed"}}
         \cup {s \in Session : session[s].state = "stale"}

RequestChallenge(n) ==
  /\ daemon.at = "session"
  /\ challenge[n] = "absent"
  /\ daemon' = [daemon EXCEPT !.at = "challenge", !.nonce = n]
  /\ challenge' = [challenge EXCEPT ![n] = "pruning"]
  /\ doomed' = [doomed EXCEPT ![n] = Stale]
  /\ UNCHANGED <<session, minting, made, proofs, requests, handlers, answers, lapsed, repeated, ran>>

Prune(n, d) ==
  /\ d \in doomed[n]
  /\ doomed' = [doomed EXCEPT ![n] = @ \ {d}]
  /\ challenge' = [m \in Nonce |-> IF m = d THEN "gone" ELSE challenge[m]]
  /\ session' = [s \in Session |-> IF s = d THEN [session[s] EXCEPT !.state = "gone"] ELSE session[s]]
  /\ UNCHANGED <<minting, daemon, made, proofs, requests, handlers, answers, lapsed, repeated, ran>>

CreateChallenge(n) ==
  /\ challenge[n] = "pruning"
  /\ doomed[n] = {}
  /\ challenge' = [challenge EXCEPT ![n] = "open"]
  /\ UNCHANGED <<doomed, session, minting, daemon, made, proofs, requests, handlers, answers, lapsed, repeated, ran>>

-----------------------------------------------------------------------------
(* issueCrankerSession: a transaction, then a document of its own.         *)
(* Slip: whether the challenge was used is not looked at.                  *)
ConsumableAgain(n) == challenge[n] \in {"open", "used"}

Consumable(n) == challenge[n] = "open"

ConsumeChallenge(n) ==
  /\ n \in proofs
  /\ Taken(proofs, n)
  /\ Consumable(n)
  /\ challenge' = [challenge EXCEPT ![n] = "used"]
  /\ minting' = minting \cup {n}
  /\ UNCHANGED <<doomed, session, daemon, made, requests, handlers, answers, lapsed, ran>>

CreateSession(n, s) ==
  /\ n \in minting
  /\ session[s].state = "absent"
  /\ minting' = minting \ {n}
  /\ session' = [session EXCEPT ![s] = [state |-> "live", counter |-> 0, from |-> n]]
  /\ UNCHANGED <<challenge, doomed, daemon, made, proofs, requests, handlers, answers, lapsed, repeated, ran>>

-----------------------------------------------------------------------------
(* authenticateCrankerRequest: the clock is read before the transaction.   *)
Arrive(r) ==
  /\ r \in requests
  /\ Taken(requests, r)
  /\ handlers' = handlers \cup {[request |-> r, early |-> session[r.session].state = "live"]}
  /\ UNCHANGED <<challenge, doomed, session, minting, daemon, made, proofs, answers, lapsed, ran>>

(* Slip: the last number may be used again.                                *)
CountsAgain(r) == r.counter >= session[r.session].counter

Counts(r) == r.counter > session[r.session].counter

Verdict(h) ==
  LET s == session[h.request.session]
  IN CASE s.state \in {"absent", "gone"} \/ (s.state = "stale" /\ ~h.early) -> "session"
       [] OTHER -> IF Counts(h.request) THEN "ok" ELSE "replayed"

(* A session used just before it lapsed lives on, unless it is too old.    *)
Authenticate(h) ==
  LET s == h.request.session
  IN /\ h \in handlers
     /\ handlers' = handlers \ {h}
     /\ answers' = answers \cup {[to |-> h.request, kind |-> Verdict(h)]}
     /\ IF Verdict(h) = "ok"
        THEN /\ \E state \in {"live", session[s].state} :
                  session' = [session EXCEPT ![s].counter = h.request.counter, ![s].state = state]
             /\ ran' = Append(ran, h.request)
        ELSE UNCHANGED <<session, ran>>
     /\ UNCHANGED <<challenge, doomed, minting, daemon, made, proofs, requests, lapsed, repeated>>

-----------------------------------------------------------------------------
Lapse ==
  /\ \/ \E n \in Nonce : /\ challenge[n] = "open"
                         /\ challenge' = [challenge EXCEPT ![n] = "lapsed"]
                         /\ UNCHANGED <<session, lapsed>>
     \/ \E s \in Session : /\ session[s].state = "live"
                           /\ session' = [session EXCEPT ![s].state = "stale"]
                           /\ lapsed' = lapsed \cup {s}
                           /\ UNCHANGED challenge
  /\ UNCHANGED <<doomed, minting, daemon, made, proofs, requests, handlers, answers, repeated, ran>>

Next ==
  \/ \E c \in Call : StartCall(c)
  \/ \E n \in Nonce :
       \/ RequestChallenge(n)
       \/ CreateChallenge(n)
       \/ ConsumeChallenge(n)
       \/ \E d \in Nonce \cup Session : Prune(n, d)
       \/ \E s \in Session : CreateSession(n, s)
  \/ \E s \in Session : Establish(s)
  \/ \E kind \in {"ok", "session", "replayed", "lost"} : Hear(kind)
  \/ Send \/ SendProof \/ GiveUp \/ Restart
  \/ \E r \in requests : Arrive(r)
  \/ \E h \in handlers : Authenticate(h)
  \/ Lapse

Spec == Init /\ [][Next]_vars

-----------------------------------------------------------------------------
(* Properties.                                                             *)

(* The variables hold what the daemon and the documents can hold, and a    *)
(* daemon that waits knows what for.                                       *)
AuthTypeOK ==
  /\ challenge \in [Nonce -> {"absent", "pruning", "open", "lapsed", "used", "gone"}]
  /\ doomed \in [Nonce -> SUBSET (Nonce \cup Session)]
  /\ session \in [Session -> SessionRecord]
  /\ minting \subseteq Nonce /\ proofs \subseteq Nonce /\ made \subseteq Call
  /\ daemon \in DaemonRecord
  /\ daemon.at # "idle" => daemon.call \in Call
  /\ daemon.at \in {"challenge", "proof"} => daemon.nonce \in Nonce
  /\ requests \subseteq Request
  /\ \A h \in handlers : h.request \in Request /\ h.early \in BOOLEAN
  /\ \A a \in answers : a.to \in Request
  /\ lapsed \subseteq Session /\ repeated \in Nat
  /\ ran \in Seq(Request)

(* The requests of one session are let through in the order in which the   *)
(* daemon sent them, each at most once, also when they are delayed,        *)
(* repeated, or authenticated by two handlers at the same time.            *)
RunsInOrder ==
  \A i, j \in DOMAIN ran :
    i < j /\ ran[i].session = ran[j].session => ran[i].counter < ran[j].counter

(* A challenge is good for one session, however often its proof arrives.   *)
OneSessionPerChallenge ==
  \A s, t \in Session : session[s].from = session[t].from /\ s # t => session[s].from = None

(* A call is let through at most once, although the daemon sends it twice  *)
(* when its session was refused: what was refused never gets through.  A   *)
(* network that repeats a request can have one copy refused and another,   *)
(* which arrived before the session lapsed, let through.                   *)
CallRunsOnce ==
  repeated = 0 => \A i, j \in DOMAIN ran : ran[i].call = ran[j].call => i = j

(* A session is refused only if it lapsed at some time: pruning, which     *)
(* queries first and deletes later, never takes a fresh one, so a call     *)
(* that renewed its session is not refused again.                          *)
OnlyLapsedIsRefused ==
  \A a \in answers : a.kind = "session" => a.to.session \in lapsed
=============================================================================
