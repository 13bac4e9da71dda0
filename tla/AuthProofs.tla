------------------------------- MODULE AuthProofs -------------------------------
(***************************************************************************)
(* Proofs about the two ways of authenticating: a Cranker to the Receiver  *)
(* (CrankerAuth), for any numbers of challenges, sessions, calls and       *)
(* repeated messages, and an owner's device to the backend                 *)
(* (PrivateSessions, after the first part).  The inductive invariant of    *)
(* the first part ties what was let through to the numbers the sessions    *)
(* keep, and the sessions to the challenges they were made from; a second  *)
(* one follows each call from request to answer.                           *)
(***************************************************************************)
EXTENDS CrankerAuth, PrivateSessions, TLAPS

(* What a session let through is within the number it keeps.               *)
RanIsCounted ==
  \A i \in DOMAIN ran :
    /\ session[ran[i].session].state # "absent"
    /\ ran[i].counter <= session[ran[i].session].counter

(* Challenges behind sessions, made or being made, are spent for good.     *)
Spent(n) == challenge[n] \in {"used", "gone"}

MintedIsSpent ==
  /\ \A n \in minting : Spent(n) /\ \A s \in Session : session[s].from # n
  /\ \A s \in Session : session[s].from # None => Spent(session[s].from)
  /\ \A n \in Nonce : \A d \in doomed[n] \cap Nonce : challenge[d] \in {"lapsed", "used", "gone"}

AuthInv == AuthTypeOK /\ RanIsCounted /\ RunsInOrder /\ MintedIsSpent /\ OneSessionPerChallenge

(* What was let through are requests.                                      *)
LEMMA RanAreRequests ==
  ASSUME AuthTypeOK
  PROVE  \A i \in DOMAIN ran :
           ran[i] \in Request /\ ran[i].session \in Session /\ ran[i].counter \in Nat \ {0}
<1>1. \A i \in DOMAIN ran : ran[i] \in Request
  BY DEF AuthTypeOK
<1>2. \A r \in Request : r.session \in Session /\ r.counter \in Nat \ {0}
  BY DEF Request
<1>. QED BY <1>1, <1>2

LEMMA InitAuth == Init => AuthInv
<1>. SUFFICES ASSUME Init PROVE AuthInv
  OBVIOUS
<1>. USE AuthAssumption
<1>1. AuthTypeOK
  BY DEF Init, AuthTypeOK, SessionRecord, Request, NewDaemon, DaemonRecord
<1>2. RanIsCounted /\ RunsInOrder
  BY DEF Init, RanIsCounted, RunsInOrder
<1>3. MintedIsSpent /\ OneSessionPerChallenge
  BY DEF Init, MintedIsSpent, OneSessionPerChallenge
<1>. QED BY <1>1, <1>2, <1>3 DEF AuthInv

(* The daemon's record, as the type invariant has it.                      *)
DaemonOK(d) ==
  /\ d \in DaemonRecord
  /\ d.at # "idle" => d.call \in Call
  /\ d.at \in {"challenge", "proof"} => d.nonce \in Nonce

(* The daemon's steps keep its record well formed and touch no document.   *)
LEMMA DaemonTyped ==
  ASSUME AuthTypeOK,
         \/ \E c \in Call : StartCall(c)
         \/ \E s \in Session : Establish(s)
         \/ \E kind \in {"ok", "session", "replayed", "lost"} : Hear(kind)
         \/ Send \/ SendProof \/ GiveUp \/ Restart
  PROVE  AuthTypeOK' /\ UNCHANGED receiver
<1>. USE AuthAssumption
<1>0. DaemonOK(daemon)
  BY DEF AuthTypeOK, DaemonOK
<1>1. UNCHANGED receiver
  BY DEF StartCall, Establish, Hear, Send, SendProof, GiveUp, Restart
<1>3. DaemonOK(daemon')
  <2>. USE DEF DaemonOK, DaemonRecord
  <2>1. CASE \E c \in Call : StartCall(c)
    <3>1. PICK c \in Call : daemon' = [daemon EXCEPT !.at = "session", !.call = c, !.retried = FALSE]
      BY <2>1 DEF StartCall
    <3>. QED BY <1>0, <3>1
  <2>2. CASE \E s \in Session : Establish(s)
    <3>1. PICK s \in Session : Establish(s)
      BY <2>2
    <3>2. /\ daemon.at = "proof"
          /\ daemon' = [daemon EXCEPT !.at = "session", !.session = s, !.next = 1, !.nonce = None]
      BY <3>1 DEF Establish
    <3>3. daemon' \in DaemonRecord
      <4>1. PICK one \in Nat \ {0} : one = 1
        OBVIOUS
      <4>2. daemon' = [daemon EXCEPT !.at = "session", !.session = s, !.next = one, !.nonce = None]
        BY <3>2, <4>1
      <4>. QED BY <1>0, <4>2
    <3>4. daemon'.at = "session" /\ daemon'.call = daemon.call /\ daemon.call \in Call
      BY <1>0, <3>2
    <3>. QED BY <3>3, <3>4
  <2>3. CASE \E kind \in {"ok", "session", "replayed", "lost"} : Hear(kind)
    <3>1. /\ daemon.at = "request"
          /\ \/ daemon' = [daemon EXCEPT !.at = "session", !.retried = TRUE, !.session = None]
             \/ daemon' = [daemon EXCEPT !.at = "idle"]
      BY <2>3 DEF Hear
    <3>. QED BY <1>0, <3>1
  <2>4. CASE Send
    <3>1. /\ daemon.at = "session"
          /\ daemon' = [daemon EXCEPT !.at = "request", !.next = @ + 1, !.sent = daemon.next]
      BY <2>4 DEF Send
    <3>2. daemon.next \in Nat \ {0} /\ daemon.next + 1 \in Nat \ {0}
      BY <1>0
    <3>. QED BY <1>0, <3>1, <3>2
  <2>5. CASE SendProof
    <3>1. daemon.at = "challenge" /\ daemon' = [daemon EXCEPT !.at = "proof"]
      BY <2>5 DEF SendProof
    <3>. QED BY <1>0, <3>1
  <2>6. CASE GiveUp
    <3>1. daemon' = [daemon EXCEPT !.at = "idle"]
      BY <2>6 DEF GiveUp
    <3>. QED BY <1>0, <3>1
  <2>7. CASE Restart
    BY <2>7 DEF Restart, NewDaemon
  <2>. QED BY <2>1, <2>2, <2>3, <2>4, <2>5, <2>6, <2>7
<1>2. made' \subseteq Call /\ proofs' \subseteq Nonce /\ requests' \subseteq Request /\ answers' = answers
  <2>1. CASE Send
    <3>1. daemon.session \in Session /\ daemon.next \in Nat \ {0} /\ daemon.call \in Call
      BY <1>0, <2>1 DEF Send, DaemonRecord, DaemonOK
    <3>. QED BY <2>1, <3>1 DEF Send, AuthTypeOK, Request
  <2>2. CASE SendProof
    BY <1>0, <2>2 DEF SendProof, AuthTypeOK, DaemonOK
  <2>3. CASE ~Send /\ ~SendProof
    BY <2>3 DEF AuthTypeOK, StartCall, Establish, Hear, GiveUp, Restart
  <2>. QED BY <2>1, <2>2, <2>3
<1>. QED BY <1>1, <1>2, <1>3 DEF AuthTypeOK, DaemonOK, receiver

(* A step of the daemon alone keeps the invariant.                         *)
LEMMA DaemonKeeps ==
  ASSUME AuthInv, UNCHANGED receiver, AuthTypeOK'
  PROVE  AuthInv'
<1>1. RanIsCounted' /\ RunsInOrder'
  BY DEF AuthInv, receiver, RanIsCounted, RunsInOrder
<1>2. MintedIsSpent' /\ OneSessionPerChallenge'
  BY DEF AuthInv, receiver, MintedIsSpent, OneSessionPerChallenge, Spent
<1>. QED BY <1>1, <1>2 DEF AuthInv

(* Steps that leave sessions and history alone keep what was let through   *)
(* in order and counted.                                                   *)
LEMMA HistoryKept ==
  ASSUME AuthInv, UNCHANGED <<session, ran>>
  PROVE  RanIsCounted' /\ RunsInOrder' /\ OneSessionPerChallenge'
BY DEF AuthInv, RanIsCounted, RunsInOrder, OneSessionPerChallenge

(* Asking for a challenge opens a nonce never used before.                 *)
LEMMA RequestChallengeKeeps ==
  ASSUME AuthInv, NEW n \in Nonce, RequestChallenge(n)
  PROVE  AuthInv'
<1>. USE AuthAssumption
<1>1. Stale \subseteq Nonce \cup Session
      /\ \A d \in Stale \cap Nonce : challenge[d] \in {"used", "lapsed"}
  BY DEF Stale
<1>2. AuthTypeOK'
  <2>1. daemon' \in DaemonRecord /\ daemon'.at = "challenge" /\ daemon'.nonce = n /\ daemon'.call \in Call
    BY DEF AuthInv, AuthTypeOK, RequestChallenge, DaemonRecord
  <2>. QED BY <1>1, <2>1 DEF AuthInv, AuthTypeOK, RequestChallenge
<1>3. MintedIsSpent'
  <2>1. challenge \in [Nonce -> {"absent", "pruning", "open", "lapsed", "used", "gone"}]
        /\ minting \subseteq Nonce
        /\ doomed \in [Nonce -> SUBSET (Nonce \cup Session)]
        /\ session \in [Session -> SessionRecord]
    BY DEF AuthInv, AuthTypeOK
  <2>2. challenge[n] = "absent" /\ challenge' = [challenge EXCEPT ![n] = "pruning"]
        /\ doomed' = [doomed EXCEPT ![n] = Stale] /\ UNCHANGED <<session, minting>>
    BY DEF RequestChallenge
  <2>3. \A m \in Nonce : challenge[m] \in {"lapsed", "used", "gone"} => challenge'[m] = challenge[m]
    BY <2>1, <2>2
  <2>4. \A m \in Nonce : Spent(m) => Spent(m)'
    BY <2>3 DEF Spent
  <2>5. /\ \A m \in minting' : Spent(m)' /\ \A s \in Session : session'[s].from # m
        /\ \A s \in Session : session'[s].from # None => challenge'[session'[s].from] \in {"used", "gone"}
    BY <2>1, <2>2, <2>4 DEF AuthInv, MintedIsSpent, SessionRecord, Spent
  <2>6. \A m \in Nonce : \A d \in doomed'[m] \cap Nonce : challenge'[d] \in {"lapsed", "used", "gone"}
    BY <1>1, <2>1, <2>2, <2>3 DEF AuthInv, MintedIsSpent
  <2>. QED BY <2>5, <2>6 DEF MintedIsSpent, Spent
<1>. QED BY <1>2, <1>3, HistoryKept DEF AuthInv, RequestChallenge

(* Challenges only move forward: what is spent or lapsed stays so.         *)
LEMMA SpentStays ==
  ASSUME AuthInv, AuthTypeOK',
         UNCHANGED <<session, minting>>,
         \A m \in Nonce : doomed'[m] \subseteq doomed[m],
         \A m \in Nonce : Spent(m) => challenge'[m] \in {"used", "gone"},
         \A m \in Nonce : challenge[m] = "lapsed" => challenge'[m] \in {"lapsed", "used", "gone"}
  PROVE  MintedIsSpent'
<1>. USE AuthAssumption
<1>1. minting \subseteq Nonce /\ session \in [Session -> SessionRecord]
  BY DEF AuthInv, AuthTypeOK
<1>2. /\ \A m \in minting' : challenge'[m] \in {"used", "gone"} /\ \A s \in Session : session'[s].from # m
      /\ \A s \in Session : session'[s].from # None => challenge'[session'[s].from] \in {"used", "gone"}
  BY <1>1 DEF AuthInv, MintedIsSpent, SessionRecord
<1>3. \A m \in Nonce : \A d \in doomed'[m] \cap Nonce : challenge'[d] \in {"lapsed", "used", "gone"}
  BY DEF AuthInv, MintedIsSpent, Spent
<1>. QED BY <1>2, <1>3 DEF MintedIsSpent, Spent

(* Creating a challenge, and time passing for one.                         *)
LEMMA ChallengeKeeps ==
  ASSUME AuthInv, NEW n \in Nonce,
         \/ CreateChallenge(n)
         \/ /\ challenge[n] = "open"
            /\ challenge' = [challenge EXCEPT ![n] = "lapsed"]
            /\ UNCHANGED <<session, lapsed, doomed, minting, daemon, made, proofs, requests,
                           handlers, answers, repeated, ran>>
  PROVE  AuthInv'
<1>1. PICK state \in {"open", "lapsed"} :
        challenge[n] \in {"pruning", "open"} /\ challenge' = [challenge EXCEPT ![n] = state]
  BY DEF CreateChallenge
<1>2. UNCHANGED <<session, lapsed, doomed, minting, daemon, made, proofs, requests, handlers, answers, repeated, ran>>
  BY DEF CreateChallenge
<1>3. challenge \in [Nonce -> {"absent", "pruning", "open", "lapsed", "used", "gone"}]
  BY DEF AuthInv, AuthTypeOK
<1>4. AuthTypeOK'
  BY <1>1, <1>2, <1>3 DEF AuthInv, AuthTypeOK
<1>5. MintedIsSpent'
  BY <1>1, <1>2, <1>3, <1>4, SpentStays DEF Spent
<1>. QED BY <1>2, <1>4, <1>5, HistoryKept DEF AuthInv

(* Consuming makes an open challenge a spent one.                          *)
LEMMA ConsumeKeeps ==
  ASSUME AuthInv, NEW n \in Nonce, ConsumeChallenge(n)
  PROVE  AuthInv'
<1>. USE AuthAssumption
<1>1. /\ challenge[n] = "open" /\ challenge' = [challenge EXCEPT ![n] = "used"]
      /\ minting' = minting \cup {n} /\ proofs' \subseteq proofs /\ repeated' \in Nat
      /\ UNCHANGED <<doomed, session, daemon, made, requests, handlers, answers, lapsed, ran>>
  BY DEF AuthInv, AuthTypeOK, ConsumeChallenge, Consumable, Taken
<1>2. /\ challenge \in [Nonce -> {"absent", "pruning", "open", "lapsed", "used", "gone"}]
      /\ session \in [Session -> SessionRecord] /\ minting \subseteq Nonce
  BY DEF AuthInv, AuthTypeOK
<1>3. AuthTypeOK'
  BY <1>1, <1>2 DEF AuthInv, AuthTypeOK
<1>4. MintedIsSpent'
  <2>1. \A m \in Nonce : Spent(m) => m # n /\ challenge'[m] \in {"used", "gone"}
    BY <1>1, <1>2 DEF Spent
  <2>2. \A s \in Session : session[s].from # n
    BY <1>1, <1>2 DEF AuthInv, MintedIsSpent, Spent, SessionRecord
  <2>3. \A m \in minting' : challenge'[m] \in {"used", "gone"} /\ \A s \in Session : session'[s].from # m
    BY <1>1, <1>2, <2>1, <2>2 DEF AuthInv, MintedIsSpent
  <2>4. \A s \in Session : session'[s].from # None => challenge'[session'[s].from] \in {"used", "gone"}
    BY <1>1, <1>2, <2>1 DEF AuthInv, MintedIsSpent, SessionRecord
  <2>5. \A m \in Nonce : \A d \in doomed'[m] \cap Nonce : challenge'[d] \in {"lapsed", "used", "gone"}
    BY <1>1, <1>2 DEF AuthInv, MintedIsSpent
  <2>. QED BY <2>3, <2>4, <2>5 DEF MintedIsSpent, Spent
<1>. QED BY <1>1, <1>3, <1>4, HistoryKept DEF AuthInv

(* Deleting takes only what is spent or lapsed; a session keeps its number *)
(* and its challenge.                                                      *)
LEMMA PruneKeeps ==
  ASSUME AuthInv, NEW n \in Nonce, NEW d \in Nonce \cup Session, Prune(n, d)
  PROVE  AuthInv'
<1>. USE AuthAssumption
<1>1. /\ d \in doomed[n]
      /\ doomed' = [doomed EXCEPT ![n] = @ \ {d}]
      /\ challenge' = [m \in Nonce |-> IF m = d THEN "gone" ELSE challenge[m]]
      /\ session' = [s \in Session |-> IF s = d THEN [session[s] EXCEPT !.state = "gone"] ELSE session[s]]
      /\ UNCHANGED <<minting, daemon, made, proofs, requests, handlers, answers, lapsed, repeated, ran>>
  BY DEF Prune
<1>2. /\ challenge \in [Nonce -> {"absent", "pruning", "open", "lapsed", "used", "gone"}]
      /\ doomed \in [Nonce -> SUBSET (Nonce \cup Session)]
      /\ session \in [Session -> SessionRecord] /\ minting \subseteq Nonce
      /\ ran \in Seq(Request)
  BY DEF AuthInv, AuthTypeOK
<1>3. \A s \in Session :
        /\ session'[s] \in SessionRecord
        /\ session'[s].from = session[s].from /\ session'[s].counter = session[s].counter
        /\ session[s].state # "absent" => session'[s].state # "absent"
  <2>. TAKE s \in Session
  <2>. DEFINE deleted == [session[s] EXCEPT !.state = "gone"]
  <2>1. /\ deleted \in SessionRecord /\ deleted.state = "gone"
        /\ deleted.from = session[s].from /\ deleted.counter = session[s].counter
    BY <1>2 DEF SessionRecord
  <2>2. session'[s] = IF s = d THEN deleted ELSE session[s]
    BY <1>1
  <2>. HIDE DEF deleted
  <2>. QED BY <1>2, <2>1, <2>2
<1>4. session' \in [Session -> SessionRecord]
  BY <1>1, <1>3
<1>5. AuthTypeOK'
  BY <1>1, <1>2, <1>4 DEF AuthInv, AuthTypeOK
<1>6. RanIsCounted' /\ RunsInOrder'
  <2>1. \A i \in DOMAIN ran : ran[i] \in Request /\ ran[i].session \in Session
    BY RanAreRequests DEF AuthInv
  <2>. QED BY <1>1, <1>3, <2>1 DEF AuthInv, RanIsCounted, RunsInOrder
<1>7. MintedIsSpent'
  <2>1. /\ \A m \in Nonce : Spent(m) => challenge'[m] \in {"used", "gone"}
        /\ \A m \in Nonce : challenge[m] \in {"lapsed", "used", "gone"} => challenge'[m] \in {"lapsed", "used", "gone"}
    BY <1>1 DEF Spent
  <2>2. \A m \in minting' : challenge'[m] \in {"used", "gone"} /\ \A s \in Session : session'[s].from # m
    BY <1>1, <1>2, <1>3, <2>1 DEF AuthInv, MintedIsSpent
  <2>3. \A s \in Session : session'[s].from # None => challenge'[session'[s].from] \in {"used", "gone"}
    BY <1>2, <1>3, <2>1 DEF AuthInv, MintedIsSpent, SessionRecord
  <2>4. \A m \in Nonce : \A e \in doomed'[m] \cap Nonce : challenge'[e] \in {"lapsed", "used", "gone"}
    BY <1>1, <1>2, <2>1 DEF AuthInv, MintedIsSpent
  <2>. QED BY <2>2, <2>3, <2>4 DEF MintedIsSpent, Spent
<1>8. OneSessionPerChallenge'
  BY <1>3, <1>4 DEF AuthInv, OneSessionPerChallenge
<1>. QED BY <1>5, <1>6, <1>7, <1>8 DEF AuthInv

(* A session is made from a challenge no session was made from.            *)
LEMMA CreateSessionKeeps ==
  ASSUME AuthInv, NEW n \in Nonce, NEW s \in Session, CreateSession(n, s)
  PROVE  AuthInv'
<1>. USE AuthAssumption
<1>. DEFINE created == [state |-> "live", counter |-> 0, from |-> n]
<1>1. /\ n \in minting /\ session[s].state = "absent"
      /\ minting' = minting \ {n}
      /\ session' = [session EXCEPT ![s] = created]
      /\ UNCHANGED <<challenge, doomed, daemon, made, proofs, requests, handlers, answers, lapsed, repeated, ran>>
  BY DEF CreateSession
<1>2. /\ session \in [Session -> SessionRecord] /\ minting \subseteq Nonce /\ ran \in Seq(Request)
  BY DEF AuthInv, AuthTypeOK
<1>3. created \in SessionRecord /\ created.from = n /\ n # None
  BY DEF SessionRecord
<1>4. \A t \in Session : session'[t] = IF t = s THEN created ELSE session[t]
  BY <1>1, <1>2
<1>. HIDE DEF created
<1>5. AuthTypeOK'
  BY <1>1, <1>2, <1>3 DEF AuthInv, AuthTypeOK
<1>6. RanIsCounted' /\ RunsInOrder'
  <2>1. \A i \in DOMAIN ran : ran[i] \in Request /\ ran[i].session \in Session
    BY RanAreRequests DEF AuthInv
  <2>2. \A i \in DOMAIN ran : ran[i].session # s
    BY <1>1 DEF AuthInv, RanIsCounted
  <2>. QED BY <1>1, <1>4, <2>1, <2>2 DEF AuthInv, RanIsCounted, RunsInOrder
<1>7. MintedIsSpent'
  <2>1. \A m \in minting' : Spent(m)' /\ \A t \in Session : session'[t].from # m
    BY <1>1, <1>3, <1>4 DEF AuthInv, MintedIsSpent, Spent
  <2>2. \A t \in Session : session'[t].from # None => challenge'[session'[t].from] \in {"used", "gone"}
    BY <1>1, <1>3, <1>4 DEF AuthInv, MintedIsSpent, Spent
  <2>3. \A m \in Nonce : \A e \in doomed'[m] \cap Nonce : challenge'[e] \in {"lapsed", "used", "gone"}
    BY <1>1 DEF AuthInv, MintedIsSpent
  <2>. QED BY <2>1, <2>2, <2>3 DEF MintedIsSpent, Spent
<1>8. OneSessionPerChallenge'
  <2>1. \A t \in Session : session[t].from # n
    BY <1>1 DEF AuthInv, MintedIsSpent
  <2>. QED BY <1>3, <1>4, <2>1 DEF AuthInv, OneSessionPerChallenge
<1>. QED BY <1>5, <1>6, <1>7, <1>8 DEF AuthInv

(* A request arriving reads the clock and changes no document.             *)
LEMMA ArriveKeeps ==
  ASSUME AuthInv, NEW r \in requests, Arrive(r)
  PROVE  AuthInv'
<1>1. /\ requests' \subseteq requests /\ repeated' \in Nat
      /\ UNCHANGED <<challenge, doomed, session, minting, daemon, made, proofs, answers, lapsed, ran>>
  BY DEF AuthInv, AuthTypeOK, Arrive, Taken
<1>2. \A h \in handlers' : h.request \in Request /\ h.early \in BOOLEAN
  <2>. DEFINE early == session[r.session].state = "live"
  <2>1. handlers' = handlers \cup {[request |-> r, early |-> early]}
    BY DEF Arrive
  <2>2. r \in Request /\ \A h \in handlers : h.request \in Request /\ h.early \in BOOLEAN
    BY DEF AuthInv, AuthTypeOK
  <2>3. early \in BOOLEAN
    OBVIOUS
  <2>. HIDE DEF early
  <2>4. [request |-> r, early |-> early].request = r /\ [request |-> r, early |-> early].early \in BOOLEAN
    BY <2>3
  <2>. QED BY <2>1, <2>2, <2>4, Zenon
<1>3. AuthTypeOK'
  BY <1>1, <1>2 DEF AuthInv, AuthTypeOK
<1>4. MintedIsSpent'
  BY <1>1 DEF AuthInv, MintedIsSpent, Spent
<1>. QED BY <1>1, <1>3, <1>4, HistoryKept DEF AuthInv

(* Updating one session's number and state keeps what it is made from.     *)
LEMMA SessionMoves ==
  ASSUME AuthInv, NEW s \in Session,
         UNCHANGED <<challenge, doomed, minting>>,
         session' \in [Session -> SessionRecord],
         \A t \in Session : session'[t].from = session[t].from
  PROVE  MintedIsSpent' /\ OneSessionPerChallenge'
<1>1. minting \subseteq Nonce
  BY DEF AuthInv, AuthTypeOK
<1>2. \A m \in minting' : Spent(m)' /\ \A t \in Session : session'[t].from # m
  BY <1>1 DEF AuthInv, MintedIsSpent, Spent
<1>3. \A t \in Session : session'[t].from # None => challenge'[session'[t].from] \in {"used", "gone"}
  BY DEF AuthInv, MintedIsSpent, Spent
<1>4. \A m \in Nonce : \A e \in doomed'[m] \cap Nonce : challenge'[e] \in {"lapsed", "used", "gone"}
  BY DEF AuthInv, MintedIsSpent
<1>. QED BY <1>2, <1>3, <1>4 DEF AuthInv, MintedIsSpent, OneSessionPerChallenge, Spent

(* A request that is refused changes no document.                          *)
LEMMA RefuseKeeps ==
  ASSUME AuthInv, NEW h \in handlers, Authenticate(h), Verdict(h) # "ok"
  PROVE  AuthInv'
<1>1. /\ handlers' \subseteq handlers
      /\ answers' = answers \cup {[to |-> h.request, kind |-> Verdict(h)]}
      /\ UNCHANGED <<session, ran, challenge, doomed, minting, daemon, made, proofs, requests, lapsed, repeated>>
  BY DEF Authenticate
<1>2. \A a \in answers' : a.to \in Request
  BY <1>1 DEF AuthInv, AuthTypeOK
<1>3. AuthTypeOK'
  BY <1>1, <1>2 DEF AuthInv, AuthTypeOK
<1>4. MintedIsSpent'
  BY <1>1 DEF AuthInv, MintedIsSpent, Spent
<1>. QED BY <1>1, <1>3, <1>4, HistoryKept DEF AuthInv

(* A request let through is counted by its session, after all before it.   *)
LEMMA AcceptKeeps ==
  ASSUME AuthInv, NEW h \in handlers, Authenticate(h), Verdict(h) = "ok"
  PROVE  AuthInv'
<1>. DEFINE r == h.request
            s == h.request.session
<1>1. /\ handlers' \subseteq handlers
      /\ answers' = answers \cup {[to |-> r, kind |-> "ok"]}
      /\ ran' = Append(ran, r)
      /\ UNCHANGED <<challenge, doomed, minting, daemon, made, proofs, requests, lapsed, repeated>>
  BY DEF Authenticate
<1>2. r \in Request /\ s \in Session /\ r.counter \in Nat \ {0}
      /\ session \in [Session -> SessionRecord] /\ ran \in Seq(Request)
  BY DEF AuthInv, AuthTypeOK, Request
<1>3. session[s].state \in {"live", "stale"} /\ r.counter > session[s].counter
  BY <1>2 DEF Verdict, Counts, SessionRecord
<1>4. PICK state \in {"live", "stale"} :
        session' = [session EXCEPT ![s].counter = r.counter, ![s].state = state]
  <2>1. \E state \in {"live", session[s].state} :
          session' = [session EXCEPT ![s].counter = r.counter, ![s].state = state]
    BY DEF Authenticate
  <2>. QED BY <1>3, <2>1
<1>. DEFINE after == [session[s] EXCEPT !.counter = r.counter, !.state = state]
<1>5. /\ after \in SessionRecord /\ after.counter = r.counter
      /\ after.state # "absent" /\ after.from = session[s].from
  BY <1>2 DEF SessionRecord
<1>6. session' = [session EXCEPT ![s] = after]
  BY <1>2, <1>4
<1>7. \A t \in Session : session'[t] = IF t = s THEN after ELSE session[t]
  BY <1>2, <1>6
<1>8. session' \in [Session -> SessionRecord]
  BY <1>2, <1>5, <1>6
<1>. HIDE DEF after, r, s
<1>9. AuthTypeOK'
  <2>1. \A a \in answers' : a.to \in Request
    BY <1>1, <1>2 DEF AuthInv, AuthTypeOK
  <2>2. ran' \in Seq(Request)
    BY <1>1, <1>2
  <2>. QED BY <1>1, <1>8, <2>1, <2>2 DEF AuthInv, AuthTypeOK
<1>10. /\ Len(ran) \in Nat /\ DOMAIN ran = 1 .. Len(ran) /\ DOMAIN ran' = 1 .. Len(ran) + 1
       /\ \A i \in DOMAIN ran : ran'[i] = ran[i]
       /\ ran'[Len(ran) + 1] = r
  BY <1>1, <1>2
<1>11. \A i \in DOMAIN ran : ran[i].session = s => ran[i].counter < r.counter
  BY <1>2, <1>3, RanAreRequests DEF AuthInv, RanIsCounted, SessionRecord
<1>12. RanIsCounted'
  <2>. SUFFICES ASSUME NEW i \in DOMAIN ran'
                PROVE  /\ session'[ran'[i].session].state # "absent"
                       /\ ran'[i].counter <= session'[ran'[i].session].counter
    BY DEF RanIsCounted
  <2>1. CASE i = Len(ran) + 1
    BY <1>2, <1>5, <1>7, <1>10, <2>1 DEF r, s
  <2>2. CASE i \in DOMAIN ran
    <3>1. ran[i].session \in Session /\ ran[i].counter \in Nat
      BY <2>2, RanAreRequests DEF AuthInv
    <3>2. session[ran[i].session].state # "absent" /\ ran[i].counter <= session[ran[i].session].counter
      BY <2>2 DEF AuthInv, RanIsCounted
    <3>. QED BY <1>2, <1>5, <1>7, <1>10, <1>11, <2>2, <3>1, <3>2
  <2>. QED BY <1>10, <2>1, <2>2
<1>13. RunsInOrder'
  <2>. SUFFICES ASSUME NEW i \in DOMAIN ran', NEW j \in DOMAIN ran', i < j,
                       ran'[i].session = ran'[j].session
                PROVE  ran'[i].counter < ran'[j].counter
    BY DEF RunsInOrder
  <2>1. i \in DOMAIN ran
    BY <1>10
  <2>2. CASE j = Len(ran) + 1
    BY <1>10, <1>11, <2>1, <2>2 DEF r, s
  <2>3. CASE j \in DOMAIN ran
    BY <1>10, <2>1, <2>3 DEF AuthInv, RunsInOrder
  <2>. QED BY <1>10, <2>2, <2>3
<1>14. MintedIsSpent' /\ OneSessionPerChallenge'
  BY <1>1, <1>2, <1>5, <1>7, <1>8, SessionMoves
<1>. QED BY <1>9, <1>12, <1>13, <1>14 DEF AuthInv

(* A session that lapses keeps its number and its challenge.               *)
LEMMA SessionLapses ==
  ASSUME AuthInv, NEW s \in Session, session[s].state = "live",
         session' = [session EXCEPT ![s].state = "stale"],
         lapsed' = lapsed \cup {s},
         UNCHANGED <<challenge, doomed, minting, daemon, made, proofs, requests, handlers, answers, repeated, ran>>
  PROVE  AuthInv'
<1>. DEFINE after == [session[s] EXCEPT !.state = "stale"]
<1>1. session \in [Session -> SessionRecord]
  BY DEF AuthInv, AuthTypeOK
<1>2. /\ after \in SessionRecord /\ after.counter = session[s].counter
      /\ after.state # "absent" /\ after.from = session[s].from
  BY <1>1 DEF SessionRecord
<1>3. session' = [session EXCEPT ![s] = after]
  BY <1>1
<1>4. \A t \in Session : session'[t] = IF t = s THEN after ELSE session[t]
  BY <1>1, <1>3
<1>5. session' \in [Session -> SessionRecord]
  BY <1>1, <1>2, <1>3
<1>. HIDE DEF after
<1>6. AuthTypeOK'
  BY <1>5 DEF AuthInv, AuthTypeOK
<1>7. RanIsCounted' /\ RunsInOrder'
  BY <1>2, <1>4, RanAreRequests DEF AuthInv, RanIsCounted, RunsInOrder
<1>8. MintedIsSpent' /\ OneSessionPerChallenge'
  BY <1>2, <1>4, <1>5, SessionMoves
<1>. QED BY <1>6, <1>7, <1>8 DEF AuthInv

(* Every step keeps the invariant.                                         *)
LEMMA NextKeepsAuth == AuthInv /\ [Next]_vars => AuthInv'
<1>. SUFFICES ASSUME AuthInv, [Next]_vars PROVE AuthInv'
  OBVIOUS
<1>. DEFINE DaemonSteps ==
       \/ \E c \in Call : StartCall(c)
       \/ \E s \in Session : Establish(s)
       \/ \E kind \in {"ok", "session", "replayed", "lost"} : Hear(kind)
       \/ Send \/ SendProof \/ GiveUp \/ Restart
<1>1. CASE DaemonSteps
  BY <1>1, DaemonTyped, DaemonKeeps DEF AuthInv
<1>2. CASE \E n \in Nonce : RequestChallenge(n)
  BY <1>2, RequestChallengeKeeps
<1>3. CASE \E n \in Nonce : CreateChallenge(n)
  BY <1>3, ChallengeKeeps
<1>4. CASE \E n \in Nonce : ConsumeChallenge(n)
  BY <1>4, ConsumeKeeps
<1>5. CASE \E n \in Nonce : \E d \in Nonce \cup Session : Prune(n, d)
  BY <1>5, PruneKeeps
<1>6. CASE \E n \in Nonce : \E s \in Session : CreateSession(n, s)
  BY <1>6, CreateSessionKeeps
<1>7. CASE \E r \in requests : Arrive(r)
  BY <1>7, ArriveKeeps
<1>8. CASE \E h \in handlers : Authenticate(h)
  BY <1>8, RefuseKeeps, AcceptKeeps
<1>9. CASE Lapse
  <2>1. CASE \E n \in Nonce : /\ challenge[n] = "open"
                             /\ challenge' = [challenge EXCEPT ![n] = "lapsed"]
                             /\ UNCHANGED <<session, lapsed>>
    BY <1>9, <2>1, ChallengeKeeps DEF Lapse
  <2>2. CASE \E s \in Session : /\ session[s].state = "live"
                               /\ session' = [session EXCEPT ![s].state = "stale"]
                               /\ lapsed' = lapsed \cup {s}
                               /\ UNCHANGED challenge
    BY <1>9, <2>2, SessionLapses DEF Lapse
  <2>. QED BY <1>9, <2>1, <2>2 DEF Lapse
<1>10. CASE UNCHANGED vars
  <2>1. AuthTypeOK' /\ MintedIsSpent'
    BY <1>10 DEF vars, AuthInv, AuthTypeOK, MintedIsSpent, Spent
  <2>. QED BY <1>10, <2>1, HistoryKept DEF vars, AuthInv
<1>. QED BY <1>1, <1>2, <1>3, <1>4, <1>5, <1>6, <1>7, <1>8, <1>9, <1>10 DEF Next

(* The inductive invariant holds throughout.                               *)
THEOREM AuthInductive == Spec => []AuthInv
BY InitAuth, NextKeepsAuth, PTL DEF Spec

(* The daemon's record and every document stay well formed.                *)
THEOREM AuthTypeCorrect == Spec => []AuthTypeOK
<1>1. AuthInv => AuthTypeOK
  BY DEF AuthInv
<1>. QED BY <1>1, AuthInductive, PTL

(* The requests of a session run in the order they were sent, each at most *)
(* once, however they are delayed and repeated.                            *)
THEOREM SessionsRunInOrder == Spec => []RunsInOrder
<1>1. AuthInv => RunsInOrder
  BY DEF AuthInv
<1>. QED BY <1>1, AuthInductive, PTL

(* A challenge makes at most one session.                                  *)
THEOREM ChallengesAreSpent == Spec => []OneSessionPerChallenge
<1>1. AuthInv => OneSessionPerChallenge
  BY DEF AuthInv
<1>. QED BY <1>1, AuthInductive, PTL

-----------------------------------------------------------------------------
(***************************************************************************)
(* What becomes of a call.  A request is seen from when it is sent: it is  *)
(* in the network, with a handler, or answered.                            *)
(***************************************************************************)
Seen == requests \cup {h.request : h \in handlers} \cup {a.to : a \in answers}
Refused(r) == [to |-> r, kind |-> "session"] \in answers

(* The daemon's number is ahead of all requests of its session, and the    *)
(* session it is about to establish carried none.                          *)
SeenAreSent ==
  /\ \A r \in Seen : r.call \in made /\ session[r.session].from # None
  /\ daemon.at # "idle" => daemon.call \in made
  /\ daemon.session # None =>
       /\ session[daemon.session].from # None
       /\ \A r \in Seen : r.session = daemon.session => r.counter < daemon.next
  /\ daemon.at \in {"challenge", "proof"} => \A r \in Seen : session[r.session].from # daemon.nonce

(* Of two requests of a call one was refused, and what the daemon tries    *)
(* again was refused before.                                               *)
RetriedWhenRefused ==
  /\ daemon.at # "idle" =>
       \A r \in Seen : r.call = daemon.call =>
         Refused(r) \/ (daemon.at = "request" /\ r = Sent)
  /\ \A r, q \in Seen : r.call = q.call => r = q \/ Refused(r) \/ Refused(q)

(* Unless the network repeats something, a request is at one place.        *)
DeliveredOnce ==
  repeated = 0 =>
    /\ \A r \in requests : \A h \in handlers : h.request # r
    /\ \A r \in requests : \A a \in answers : a.to # r
    /\ \A h \in handlers : \A a \in answers : a.to # h.request
    /\ \A g, h \in handlers : g.request = h.request => g = h
    /\ \A a, b \in answers : a.to = b.to => a = b

RanIsAnswered == \A i \in DOMAIN ran : [to |-> ran[i], kind |-> "ok"] \in answers

LapsedIsKnown ==
  /\ \A s \in Session : session[s].from # None => session[s].state # "absent"
  /\ \A s \in Session : session[s].state \in {"stale", "gone"} => s \in lapsed
  /\ \A n \in Nonce : doomed[n] \cap Session \subseteq lapsed

CallInv ==
  SeenAreSent /\ RetriedWhenRefused /\ DeliveredOnce /\ RanIsAnswered /\ LapsedIsKnown
  /\ OnlyLapsedIsRefused

traffic == <<requests, handlers, answers, made, ran>>

LEMMA SeenTypes ==
  ASSUME AuthTypeOK
  PROVE  /\ \A r \in Seen : /\ r \in Request /\ r.session \in Session /\ r.counter \in Nat
                            /\ r.call \in Call
         /\ daemon \in DaemonRecord
<1>1. \A r \in Seen : r \in Request
  BY DEF AuthTypeOK, Seen
<1> QED
  BY <1>1 DEF Request, AuthTypeOK

LEMMA CallInit == Init => CallInv
BY AuthAssumption
   DEF Init, CallInv, Seen, Refused, SeenAreSent, RetriedWhenRefused, DeliveredOnce, RanIsAnswered,
       LapsedIsKnown, OnlyLapsedIsRefused, NewDaemon

(* Steps that concern documents alone: a session once made keeps its       *)
(* challenge, and the network may only repeat more.                        *)
LEMMA DocumentsKeepCalls ==
  ASSUME AuthTypeOK, CallInv, UNCHANGED <<traffic, daemon>>,
         repeated' = 0 => repeated = 0,
         \A s \in Session : session[s].from # None => session'[s].from = session[s].from
  PROVE  SeenAreSent' /\ RetriedWhenRefused' /\ DeliveredOnce' /\ RanIsAnswered'
<1>1. Seen' = Seen /\ \A r : Refused(r)' = Refused(r)
  BY DEF traffic, Seen, Refused
<1>2. RetriedWhenRefused'
  BY <1>1 DEF CallInv, RetriedWhenRefused, Sent
<1>3. DeliveredOnce' /\ RanIsAnswered'
  BY DEF CallInv, DeliveredOnce, RanIsAnswered, traffic
<1>4. SeenAreSent'
  <2>1. \A r \in Seen : r.session \in Session
    BY SeenTypes
  <2>2. daemon.session # None => daemon.session \in Session
    BY SeenTypes DEF DaemonRecord
  <2> QED
    BY <1>1, <2>1, <2>2 DEF CallInv, SeenAreSent, traffic
<1> QED
  BY <1>2, <1>3, <1>4

(* Which sessions lapsed is known to the documents.                        *)
LEMMA PruneKeepsLapsed ==
  ASSUME AuthInv, CallInv, NEW n \in Nonce, NEW d \in Nonce \cup Session, Prune(n, d)
  PROVE  CallInv'
<1>0. session \in [Session -> SessionRecord] /\ doomed \in [Nonce -> SUBSET (Nonce \cup Session)]
  BY DEF AuthInv, AuthTypeOK
<1>1. /\ d \in doomed[n] /\ doomed' = [doomed EXCEPT ![n] = @ \ {d}]
      /\ session' = [s \in Session |-> IF s = d THEN [session[s] EXCEPT !.state = "gone"] ELSE session[s]]
      /\ UNCHANGED <<traffic, daemon, lapsed, repeated>>
  BY DEF Prune, traffic
<1>2. \A s \in Session : /\ session'[s].from = session[s].from
                         /\ session'[s].state = IF s = d THEN "gone" ELSE session[s].state
  BY <1>0, <1>1 DEF SessionRecord
<1>3. LapsedIsKnown' /\ OnlyLapsedIsRefused'
  BY <1>0, <1>1, <1>2 DEF CallInv, LapsedIsKnown, OnlyLapsedIsRefused, traffic
<1> QED
  BY <1>1, <1>2, <1>3, DocumentsKeepCalls DEF CallInv, AuthInv

LEMMA CreateSessionKeepsCalls ==
  ASSUME AuthInv, CallInv, NEW n \in Nonce, NEW s \in Session, CreateSession(n, s)
  PROVE  CallInv'
<1>0. session \in [Session -> SessionRecord]
  BY DEF AuthInv, AuthTypeOK
<1>1. /\ session[s].state = "absent"
      /\ session' = [session EXCEPT ![s] = [state |-> "live", counter |-> 0, from |-> n]]
      /\ UNCHANGED <<traffic, daemon, lapsed, repeated, doomed>>
  BY DEF CreateSession, traffic
<1>2. session'[s].state = "live" /\ \A t \in Session : t # s => session'[t] = session[t]
  BY <1>0, <1>1
<1>3. session[s].from = None
  BY <1>1 DEF CallInv, LapsedIsKnown
<1>4. LapsedIsKnown' /\ OnlyLapsedIsRefused'
  BY <1>1, <1>2 DEF CallInv, LapsedIsKnown, OnlyLapsedIsRefused, traffic
<1> QED
  BY <1>1, <1>2, <1>3, <1>4, DocumentsKeepCalls DEF CallInv, AuthInv

LEMMA ChallengesKeepCalls ==
  ASSUME AuthInv, CallInv, NEW n \in Nonce, CreateChallenge(n) \/ ConsumeChallenge(n)
  PROVE  CallInv'
<1>1. UNCHANGED <<traffic, daemon, lapsed, session, doomed>>
  BY DEF CreateChallenge, ConsumeChallenge, traffic
<1>2. repeated' = 0 => repeated = 0
  BY DEF CreateChallenge, ConsumeChallenge, Taken, AuthInv, AuthTypeOK
<1>3. LapsedIsKnown' /\ OnlyLapsedIsRefused'
  BY <1>1 DEF CallInv, LapsedIsKnown, OnlyLapsedIsRefused, traffic
<1> QED
  BY <1>1, <1>2, <1>3, DocumentsKeepCalls DEF CallInv, AuthInv

LEMMA LapseKeepsCalls ==
  ASSUME AuthInv, CallInv, Lapse
  PROVE  CallInv'
<1>0. session \in [Session -> SessionRecord]
  BY DEF AuthInv, AuthTypeOK
<1>1. UNCHANGED <<traffic, daemon, repeated, doomed>> /\ lapsed \subseteq lapsed'
  BY DEF Lapse, traffic
<1>2. \A s \in Session : /\ session'[s].from = session[s].from
                         /\ \/ session'[s].state = session[s].state
                            \/ session'[s].state = "stale" /\ s \in lapsed'
  BY <1>0 DEF Lapse, SessionRecord
<1>3. LapsedIsKnown' /\ OnlyLapsedIsRefused'
  BY <1>1, <1>2 DEF CallInv, LapsedIsKnown, OnlyLapsedIsRefused, traffic
<1> QED
  BY <1>1, <1>2, <1>3, DocumentsKeepCalls DEF CallInv, AuthInv

(* Steps of the daemon that send nothing.                                  *)
LEMMA DaemonKeepsRest ==
  ASSUME AuthTypeOK, CallInv, UNCHANGED <<receiver, requests, answers>>
  PROVE  /\ Seen' = Seen /\ \A r : Refused(r)' = Refused(r)
         /\ \A r, q \in Seen : r.call = q.call => r = q \/ Refused(r) \/ Refused(q)
         /\ DeliveredOnce' /\ RanIsAnswered' /\ LapsedIsKnown' /\ OnlyLapsedIsRefused'
BY DEF receiver, Seen, Refused, CallInv, RetriedWhenRefused, DeliveredOnce, RanIsAnswered, LapsedIsKnown,
       OnlyLapsedIsRefused

LEMMA DaemonKeepsCalls ==
  ASSUME AuthInv, CallInv,
         \/ \E c \in Call : StartCall(c)
         \/ \E s \in Session : Establish(s)
         \/ \E kind \in {"ok", "session", "replayed", "lost"} : Hear(kind)
         \/ SendProof \/ GiveUp \/ Restart
  PROVE  CallInv'
<1>0. /\ AuthTypeOK /\ daemon \in DaemonRecord
      /\ \A r \in Seen : r.session \in Session /\ r.counter \in Nat
  BY SeenTypes DEF AuthInv
<1>1. UNCHANGED <<receiver, requests, answers>>
  BY DEF StartCall, Establish, Hear, SendProof, GiveUp, Restart
<1>2. Seen' = Seen /\ (\A r : Refused(r)' = Refused(r)) /\ UNCHANGED session
  BY <1>0, <1>1, DaemonKeepsRest DEF receiver
<1>3. SeenAreSent'
  <2>1. ASSUME NEW c \in Call, StartCall(c)
        PROVE  SeenAreSent'
    BY <1>0, <1>2, <2>1 DEF StartCall, CallInv, SeenAreSent, DaemonRecord
  <2>2. ASSUME NEW s \in Session, Establish(s)
        PROVE  SeenAreSent'
    <3>1. /\ daemon.at = "proof" /\ session[s].from = daemon.nonce /\ UNCHANGED made
          /\ daemon' = [daemon EXCEPT !.at = "session", !.session = s, !.next = 1, !.nonce = None]
      BY <2>2 DEF Establish
    <3>2. daemon.nonce # None
      BY <1>0, <3>1, AuthAssumption DEF AuthTypeOK
    <3>3. \A r \in Seen : r.session # s
      BY <3>1 DEF CallInv, SeenAreSent
    <3>4. daemon'.at = "session" /\ daemon'.session = s /\ daemon'.call = daemon.call
      BY <1>0, <3>1 DEF DaemonRecord
    <3> QED
      BY <1>2, <3>1, <3>2, <3>3, <3>4 DEF CallInv, SeenAreSent
  <2>3. ASSUME NEW kind, Hear(kind)
        PROVE  SeenAreSent'
    <3>1. /\ daemon.at = "request" /\ UNCHANGED made
          /\ \/ daemon' = [daemon EXCEPT !.at = "session", !.retried = TRUE, !.session = None]
             \/ daemon' = [daemon EXCEPT !.at = "idle"]
      BY <2>3 DEF Hear
    <3> QED
      BY <1>0, <1>2, <3>1 DEF CallInv, SeenAreSent, DaemonRecord
  <2>4. CASE SendProof \/ GiveUp
    BY <1>0, <1>2, <2>4 DEF SendProof, GiveUp, CallInv, SeenAreSent, DaemonRecord
  <2>5. CASE Restart
    BY <1>2, <2>5 DEF Restart, NewDaemon, CallInv, SeenAreSent
  <2> QED
    BY <2>1, <2>2, <2>3, <2>4, <2>5
<1>4. daemon'.at # "idle" =>
        \A r \in Seen : r.call = daemon'.call => Refused(r) \/ (daemon'.at = "request" /\ r = Sent')
  <2>1. ASSUME NEW c \in Call, StartCall(c)
        PROVE  \A r \in Seen : r.call # daemon'.call
    BY <1>0, <2>1 DEF StartCall, CallInv, SeenAreSent, DaemonRecord
  <2>2. ASSUME NEW s \in Session, Establish(s)
        PROVE  \A r \in Seen : r.call = daemon'.call => Refused(r)
    BY <1>0, <2>2 DEF Establish, CallInv, RetriedWhenRefused, DaemonRecord
  <2>3. ASSUME NEW kind, Hear(kind), daemon'.at # "idle"
        PROVE  \A r \in Seen : r.call = daemon'.call => Refused(r)
    <3>1. /\ daemon.at = "request" /\ Renew(kind)
          /\ daemon' = [daemon EXCEPT !.at = "session", !.retried = TRUE, !.session = None]
      BY <1>0, <2>3 DEF Hear, DaemonRecord
    <3>2. Refused(Sent)
      BY <2>3, <3>1 DEF Hear, Renew, Refused
    <3> QED
      BY <1>0, <3>1, <3>2 DEF CallInv, RetriedWhenRefused, DaemonRecord
  <2>4. CASE SendProof
    BY <1>0, <2>4 DEF SendProof, CallInv, RetriedWhenRefused, DaemonRecord
  <2>5. CASE GiveUp \/ Restart
    BY <1>0, <2>5 DEF GiveUp, Restart, NewDaemon, DaemonRecord
  <2> QED
    BY <2>1, <2>2, <2>3, <2>4, <2>5
<1>5. RetriedWhenRefused'
  BY <1>0, <1>1, <1>2, <1>4, DaemonKeepsRest DEF RetriedWhenRefused
<1> QED
  BY <1>0, <1>1, <1>3, <1>5, DaemonKeepsRest DEF CallInv

(* A request is sent under a number that no other request of the session   *)
(* has.                                                                    *)
LEMMA SendKeepsCalls ==
  ASSUME AuthInv, CallInv, Send
  PROVE  CallInv'
<1> DEFINE new == [session |-> daemon.session, counter |-> daemon.next, call |-> daemon.call]
<1>0. /\ AuthTypeOK /\ daemon \in DaemonRecord
      /\ \A r \in Seen : r.session \in Session /\ r.counter \in Nat
  BY SeenTypes DEF AuthInv
<1>1. /\ daemon.at = "session" /\ daemon.session # None
      /\ requests' = requests \cup {new} /\ UNCHANGED <<receiver, made, answers>>
      /\ daemon' = [daemon EXCEPT !.at = "request", !.next = @ + 1, !.sent = daemon.next]
  BY DEF Send
<1>2. /\ daemon'.at = "request" /\ daemon'.next = daemon.next + 1 /\ daemon'.sent = daemon.next
      /\ daemon'.session = daemon.session /\ daemon'.call = daemon.call /\ daemon.next \in Nat
      /\ Sent' = new
  BY <1>0, <1>1 DEF DaemonRecord, Sent
<1>3. new.session = daemon.session /\ new.counter = daemon.next /\ new.call = daemon.call
  OBVIOUS
<1> HIDE DEF new
<1>4. Seen' = Seen \cup {new} /\ \A r : Refused(r)' = Refused(r)
  BY <1>1 DEF receiver, Seen, Refused
<1>5. new \notin Seen
  BY <1>0, <1>1, <1>2, <1>3 DEF CallInv, SeenAreSent
<1>6. UNCHANGED <<session, handlers, ran, repeated, lapsed, doomed, made, answers>>
  BY <1>1 DEF receiver
<1>7. SeenAreSent'
  <2>1. \A r \in Seen' : r.call \in made' /\ session'[r.session].from # None
    BY <1>1, <1>3, <1>4, <1>6 DEF CallInv, SeenAreSent
  <2>2. \A r \in Seen' : r.session = daemon'.session => r.counter < daemon'.next
    BY <1>0, <1>1, <1>2, <1>3, <1>4 DEF CallInv, SeenAreSent
  <2> QED
    BY <1>1, <1>2, <1>6, <2>1, <2>2 DEF CallInv, SeenAreSent
<1>8. RetriedWhenRefused'
  <2>1. \A r \in Seen : r.call = new.call => Refused(r)
    BY <1>1, <1>3 DEF CallInv, RetriedWhenRefused
  <2> QED
    BY <1>2, <1>3, <1>4, <2>1 DEF CallInv, RetriedWhenRefused
<1>9. DeliveredOnce'
  <2>1. (\A h \in handlers : h.request # new) /\ (\A a \in answers : a.to # new)
    BY <1>5 DEF Seen
  <2> QED
    BY <1>1, <1>6, <2>1 DEF CallInv, DeliveredOnce
<1>10. RanIsAnswered' /\ LapsedIsKnown' /\ OnlyLapsedIsRefused'
  BY <1>6 DEF CallInv, RanIsAnswered, LapsedIsKnown, OnlyLapsedIsRefused
<1> QED
  BY <1>7, <1>8, <1>9, <1>10 DEF CallInv

(* The nonce of a new challenge made no session.                           *)
LEMMA RequestChallengeKeepsCalls ==
  ASSUME AuthInv, CallInv, NEW n \in Nonce, RequestChallenge(n)
  PROVE  CallInv'
<1>0. /\ AuthTypeOK /\ daemon \in DaemonRecord
      /\ \A r \in Seen : r.session \in Session /\ r.counter \in Nat
  BY SeenTypes DEF AuthInv
<1>1. /\ daemon.at = "session" /\ challenge[n] = "absent"
      /\ daemon' = [daemon EXCEPT !.at = "challenge", !.nonce = n]
      /\ doomed' = [doomed EXCEPT ![n] = Stale]
      /\ UNCHANGED <<traffic, session, lapsed, repeated>>
  BY DEF RequestChallenge, traffic
<1>2. /\ daemon'.at = "challenge" /\ daemon'.nonce = n /\ daemon'.call = daemon.call
      /\ daemon'.session = daemon.session /\ daemon'.next = daemon.next
  BY <1>0, <1>1 DEF DaemonRecord
<1>3. Seen' = Seen /\ \A r : Refused(r)' = Refused(r)
  BY <1>1 DEF traffic, Seen, Refused
<1>4. \A s \in Session : session[s].from # n
  BY <1>1, AuthAssumption DEF AuthInv, MintedIsSpent, Spent
<1>5. SeenAreSent'
  BY <1>0, <1>1, <1>2, <1>3, <1>4 DEF CallInv, SeenAreSent, traffic
<1>6. RetriedWhenRefused'
  BY <1>1, <1>2, <1>3 DEF CallInv, RetriedWhenRefused
<1>7. DeliveredOnce' /\ RanIsAnswered' /\ OnlyLapsedIsRefused'
  BY <1>1 DEF CallInv, DeliveredOnce, RanIsAnswered, OnlyLapsedIsRefused, traffic
<1>8. LapsedIsKnown'
  <2>1. Stale \cap Session \subseteq lapsed
    BY AuthAssumption DEF Stale, CallInv, LapsedIsKnown
  <2> QED
    BY <1>0, <1>1, <2>1 DEF CallInv, LapsedIsKnown, AuthTypeOK
<1> QED
  BY <1>5, <1>6, <1>7, <1>8 DEF CallInv

LEMMA ArriveKeepsCalls ==
  ASSUME AuthInv, CallInv, NEW r \in requests, Arrive(r)
  PROVE  CallInv'
<1> DEFINE new == [request |-> r, early |-> session[r.session].state = "live"]
<1>1. /\ handlers' = handlers \cup {new}
      /\ UNCHANGED <<daemon, made, answers, ran, session, doomed, lapsed>>
      /\ \/ requests' = requests \ {r} /\ repeated' = repeated
         \/ requests' = requests /\ repeated' = repeated + 1
  BY DEF Arrive, Taken
<1>2. new.request = r
  OBVIOUS
<1> HIDE DEF new
<1>3. Seen' = Seen /\ \A q : Refused(q)' = Refused(q)
  BY <1>1, <1>2 DEF Seen, Refused
<1>4. SeenAreSent' /\ RetriedWhenRefused'
  BY <1>1, <1>3 DEF CallInv, SeenAreSent, RetriedWhenRefused, Sent
<1>5. DeliveredOnce'
  <2> SUFFICES ASSUME repeated' = 0
               PROVE  DeliveredOnce'
    BY DEF DeliveredOnce
  <2>1. repeated = 0 /\ requests' = requests \ {r}
    BY <1>1 DEF AuthInv, AuthTypeOK
  <2>2. (\A h \in handlers : h.request # r) /\ (\A a \in answers : a.to # r)
    BY <2>1 DEF CallInv, DeliveredOnce
  <2> QED
    BY <1>1, <1>2, <2>1, <2>2 DEF CallInv, DeliveredOnce
<1>6. RanIsAnswered' /\ LapsedIsKnown' /\ OnlyLapsedIsRefused'
  BY <1>1 DEF CallInv, RanIsAnswered, LapsedIsKnown, OnlyLapsedIsRefused
<1> QED
  BY <1>4, <1>5, <1>6 DEF CallInv

(* A session refused is one that was deleted or is stale.                  *)
LEMMA AuthenticateKeepsCalls ==
  ASSUME AuthInv, CallInv, NEW h \in handlers, Authenticate(h)
  PROVE  CallInv'
<1> DEFINE r == h.request
           new == [to |-> r, kind |-> Verdict(h)]
<1>0. /\ session \in [Session -> SessionRecord] /\ ran \in Seq(Request)
      /\ r \in Seen /\ r \in Request /\ r.session \in Session
  BY SeenTypes DEF AuthInv, AuthTypeOK, Seen
<1>1. /\ handlers' = handlers \ {h} /\ answers' = answers \cup {new}
      /\ UNCHANGED <<daemon, made, requests, doomed, lapsed, repeated>>
  BY DEF Authenticate
<1>2. new.to = r /\ new.kind = Verdict(h)
  OBVIOUS
<1>3. \A s \in Session : /\ session'[s].from = session[s].from
                         /\ session'[s].state \in {"live", session[s].state}
  <2>1. CASE UNCHANGED session
    BY <2>1
  <2>2. ASSUME NEW state \in {"live", session[r.session].state},
               session' = [session EXCEPT ![r.session].counter = r.counter, ![r.session].state = state]
        PROVE  \A s \in Session : /\ session'[s].from = session[s].from
                                  /\ session'[s].state \in {"live", session[s].state}
    <3> DEFINE after == [session[r.session] EXCEPT !.counter = r.counter, !.state = state]
    <3>1. after.from = session[r.session].from /\ after.state = state
      BY <1>0 DEF SessionRecord
    <3>2. session' = [session EXCEPT ![r.session] = after]
      BY <1>0, <2>2
    <3> HIDE DEF after
    <3> QED
      BY <1>0, <2>2, <3>1, <3>2
  <2> QED
    BY <2>1, <2>2 DEF Authenticate
<1>4. session[r.session].state # "absent"
  BY <1>0 DEF CallInv, SeenAreSent, LapsedIsKnown
<1>5. new.kind = "session" => r.session \in lapsed
  BY <1>0, <1>2, <1>4 DEF Verdict, CallInv, LapsedIsKnown
<1>6. \/ ran' = Append(ran, r) /\ new = [to |-> r, kind |-> "ok"]
      \/ ran' = ran
  BY DEF Authenticate
<1> HIDE DEF r, new
<1>7. Seen' = Seen /\ \A q : Refused(q) => Refused(q)'
  BY <1>1, <1>2 DEF Seen, Refused, r
<1>8. SeenAreSent'
  <2>1. \A q \in Seen : q.session \in Session
    BY SeenTypes DEF AuthInv
  <2>2. daemon.session # None => daemon.session \in Session
    BY SeenTypes DEF AuthInv, DaemonRecord
  <2> QED
    BY <1>1, <1>3, <1>7, <2>1, <2>2 DEF CallInv, SeenAreSent
<1>9. RetriedWhenRefused'
  BY <1>1, <1>7 DEF CallInv, RetriedWhenRefused, Sent
<1>10. DeliveredOnce'
  <2> SUFFICES ASSUME repeated = 0
               PROVE  DeliveredOnce'
    BY <1>1 DEF DeliveredOnce
  <2>1. /\ \A q \in requests : r # q
        /\ \A g \in handlers : g # h => g.request # r
        /\ \A a \in answers : a.to # r
    BY DEF CallInv, DeliveredOnce, r
  <2> QED
    BY <1>1, <1>2, <2>1 DEF CallInv, DeliveredOnce
<1>11. RanIsAnswered'
  <2>1. CASE ran' = Append(ran, r) /\ new = [to |-> r, kind |-> "ok"]
    <3>1. \A i \in DOMAIN ran' : ran'[i] = r \/ (i \in DOMAIN ran /\ ran'[i] = ran[i])
      BY <1>0, <2>1
    <3> QED
      BY <1>1, <2>1, <3>1 DEF CallInv, RanIsAnswered
  <2>2. CASE ran' = ran
    BY <1>1, <2>2 DEF CallInv, RanIsAnswered
  <2> QED
    BY <1>6, <2>1, <2>2
<1>12. LapsedIsKnown'
  BY <1>1, <1>3 DEF CallInv, LapsedIsKnown
<1>13. OnlyLapsedIsRefused'
  BY <1>1, <1>2, <1>5 DEF CallInv, OnlyLapsedIsRefused
<1> QED
  BY <1>8, <1>9, <1>10, <1>11, <1>12, <1>13 DEF CallInv

LEMMA NextKeepsCalls == AuthInv /\ CallInv /\ [Next]_vars => CallInv'
<1> SUFFICES ASSUME AuthInv, CallInv, [Next]_vars PROVE CallInv'
  OBVIOUS
<1>1. CASE UNCHANGED vars
  <2>1. UNCHANGED <<traffic, daemon, repeated, session, doomed, lapsed>>
    BY <1>1 DEF vars, traffic
  <2>2. LapsedIsKnown' /\ OnlyLapsedIsRefused'
    BY <2>1 DEF CallInv, LapsedIsKnown, OnlyLapsedIsRefused, traffic
  <2> QED
    BY <2>1, <2>2, DocumentsKeepCalls DEF CallInv, AuthInv
<1>2. CASE \/ \E c \in Call : StartCall(c)
           \/ \E s \in Session : Establish(s)
           \/ \E kind \in {"ok", "session", "replayed", "lost"} : Hear(kind)
           \/ SendProof \/ GiveUp \/ Restart
  BY <1>2, DaemonKeepsCalls
<1>3. CASE Send
  BY <1>3, SendKeepsCalls
<1>4. CASE \E n \in Nonce : RequestChallenge(n)
  BY <1>4, RequestChallengeKeepsCalls
<1>5. CASE \E n \in Nonce : CreateChallenge(n) \/ ConsumeChallenge(n)
  BY <1>5, ChallengesKeepCalls
<1>6. CASE \E n \in Nonce : \E d \in Nonce \cup Session : Prune(n, d)
  BY <1>6, PruneKeepsLapsed
<1>7. CASE \E n \in Nonce : \E s \in Session : CreateSession(n, s)
  BY <1>7, CreateSessionKeepsCalls
<1>8. CASE \E r \in requests : Arrive(r)
  BY <1>8, ArriveKeepsCalls
<1>9. CASE \E h \in handlers : Authenticate(h)
  BY <1>9, AuthenticateKeepsCalls
<1>10. CASE Lapse
  BY <1>10, LapseKeepsCalls
<1> QED
  BY <1>1, <1>2, <1>3, <1>4, <1>5, <1>6, <1>7, <1>8, <1>9, <1>10 DEF Next

(* Where requests are, what was refused and what lapsed stay related.      *)
THEOREM CallInductive == Spec => []CallInv
BY AuthInductive, CallInit, NextKeepsCalls, PTL DEF Spec

(* Pruning never takes a fresh session: what is refused for its session    *)
(* had one that lapsed.                                                    *)
THEOREM RefusedHadLapsed == Spec => []OnlyLapsedIsRefused
<1>1. CallInv => OnlyLapsedIsRefused
  BY DEF CallInv
<1> QED
  BY <1>1, CallInductive, PTL

(* While the network repeats nothing, a call that was let through is not   *)
(* let through again, although the daemon sends it twice.                  *)
THEOREM CallsRunAtMostOnce == Spec => []CallRunsOnce
<1>1. AuthInv /\ CallInv => CallRunsOnce
  <2> SUFFICES ASSUME AuthInv, CallInv, repeated = 0,
                      NEW i \in DOMAIN ran, NEW j \in DOMAIN ran, ran[i].call = ran[j].call
               PROVE  i = j
    BY DEF CallRunsOnce
  <2>1. /\ [to |-> ran[i], kind |-> "ok"] \in answers
        /\ [to |-> ran[j], kind |-> "ok"] \in answers
    BY DEF CallInv, RanIsAnswered
  <2>2. ran[i] \in Seen /\ ran[j] \in Seen
    BY <2>1 DEF Seen
  <2>3. ~Refused(ran[i]) /\ ~Refused(ran[j])
    <3>1. ASSUME NEW r, [to |-> r, kind |-> "ok"] \in answers, Refused(r)
          PROVE  FALSE
      BY <3>1 DEF Refused, CallInv, DeliveredOnce
    <3> QED
      BY <2>1, <3>1
  <2>4. ran[i] = ran[j]
    BY <2>2, <2>3 DEF CallInv, RetriedWhenRefused
  <2>5. i \in Nat /\ j \in Nat /\ ran[i].counter \in Nat
    BY RanAreRequests DEF AuthInv, AuthTypeOK
  <2> QED
    BY <2>4, <2>5 DEF AuthInv, RunsInOrder
<1> QED
  BY <1>1, AuthInductive, CallInductive, PTL

-----------------------------------------------------------------------------
(***************************************************************************)
(* PrivateSessions, for any numbers of TINs, devices, keys, sessions,      *)
(* nonces and concurrent requests.  The inductive invariant says of every  *)
(* request under way what it has read that can no longer change.           *)
(***************************************************************************)
Doing ==
  {Idle}
  \cup [at : {"authorized"}, device : Device, authorization : Authorization]
  \cup [at : {"session"}, proof : ReadProof, session : SessionRow, late : BOOLEAN]
  \cup [at : {"verified", "through"}, proof : Proof, tin : Tin, late : BOOLEAN]

PrivateTypeOK ==
  /\ issued \subseteq [nonce : OwnerNonce, tin : Tin]
  /\ spent \subseteq OwnerNonce
  /\ devices \subseteq DeviceRow
  /\ sessions \subseteq SessionRow
  /\ over \subseteq PrivateSession
  /\ consumed \subseteq RequestNonce
  /\ revoking \subseteq Device
  /\ serving \in [Handler -> Doing]
  /\ granted \subseteq Authorization
  /\ opened \subseteq CreateProof
  /\ served \subseteq [proof : ReadProof, tin : Tin, late : BOOLEAN]
  /\ runs \in [RequestNonce -> Nat]

(* No two devices share an id or a key.                                    *)
KeysOnce == \A r1, r2 \in devices : r1.device = r2.device \/ r1.key = r2.key => r1 = r2

(* Every device is what the authorization says that its challenge was      *)
(* consumed for; the challenge is on its way to one device at most.        *)
DevicesGranted ==
  /\ \A g \in granted : g.nonce \in spent
  /\ \A r \in devices : \E g \in granted :
       g.nonce = r.nonce /\ g.tin = r.tin /\ g.key = r.key /\ g.scopes = r.scopes
  /\ \A h \in Handler : serving[h].at = "authorized" =>
       /\ serving[h].authorization \in granted
       /\ \A r \in devices : r.nonce # serving[h].authorization.nonce
  /\ \A h, i \in Handler :
       /\ serving[h].at = "authorized" /\ serving[i].at = "authorized"
       /\ serving[h].authorization.nonce = serving[i].authorization.nonce
       => h = i

NoncesCounted == \A n \in RequestNonce : runs[n] = IF n \in consumed THEN 1 ELSE 0

HasKey(d, k) == \E r \in devices : r.device = d /\ r.key = k
KeyRevoked(k) == \E r \in devices : r.key = k /\ ~r.active

(* Every session was opened with the key of its device.                    *)
OpenedAs(s) ==
  \E q \in opened : q.session = s.session /\ q.device = s.device /\ q.asked = s.scopes

SessionsOpened ==
  /\ \A s \in sessions : OpenedAs(s)
  /\ \A q \in opened : HasKey(q.device, q.key)

Allowed(t, q) ==
  /\ \E g \in granted : g.tin = t /\ g.key = q.key /\ ReadScope \in g.scopes
  /\ \E o \in opened : o.session = q.session /\ o.key = q.key /\ ReadScope \in o.asked

DoingOK(w) ==
  /\ w.at = "session" =>
       /\ OpenedAs(w.session) /\ ReadScope \in w.session.scopes
       /\ w.late => KeyRevoked(w.proof.key)
  /\ w.at \in {"verified", "through"} =>
       IF w.proof.scope = ReadScope
         THEN ~w.late /\ Allowed(w.tin, w.proof)
         ELSE HasKey(w.proof.device, w.proof.key)

HandlersOK == \A h \in Handler : DoingOK(serving[h])

PrivateInv ==
  /\ PrivateTypeOK /\ KeysOnce /\ DevicesGranted /\ OneDevicePerChallenge /\ NoncesCounted
  /\ SessionsOpened /\ HandlersOK /\ ServedAsGranted /\ RevokedIsRefused

(* What requests rely on stays: authorizations and proofs are only added,  *)
(* and a device's row changes in nothing but that it may be revoked.       *)
RowsStay ==
  /\ granted \subseteq granted' /\ opened \subseteq opened'
  /\ \A r \in devices : \E r2 \in devices' :
       r2.device = r.device /\ r2.key = r.key /\ (~r.active => ~r2.active)

LEMMA ReliedOnStays ==
  ASSUME RowsStay
  PROVE  /\ \A t, q : Allowed(t, q) => Allowed(t, q)'
         /\ \A s : OpenedAs(s) => OpenedAs(s)'
         /\ \A d, k : HasKey(d, k) => HasKey(d, k)'
         /\ \A k : KeyRevoked(k) => KeyRevoked(k)'
BY DEF RowsStay, Allowed, OpenedAs, HasKey, KeyRevoked

LEMMA RequestsStay ==
  ASSUME RowsStay, NEW w
  PROVE  DoingOK(w) => DoingOK(w)'
BY ReliedOnStays DEF DoingOK

LEMMA InitPrivate == PrivateInit => PrivateInv
<1>. SUFFICES ASSUME PrivateInit PROVE PrivateInv
  OBVIOUS
<1>1. PrivateTypeOK
  BY DEF PrivateInit, PrivateTypeOK, Doing
<1>2. \A h \in Handler : serving[h].at = "idle"
  BY DEF PrivateInit, Idle
<1>3. KeysOnce /\ DevicesGranted /\ OneDevicePerChallenge
  BY <1>2 DEF PrivateInit, KeysOnce, DevicesGranted, OneDevicePerChallenge
<1>4. NoncesCounted /\ SessionsOpened /\ ServedAsGranted /\ RevokedIsRefused
  BY DEF PrivateInit, NoncesCounted, SessionsOpened, ServedAsGranted, RevokedIsRefused
<1>5. HandlersOK
  BY <1>2 DEF HandlersOK, DoingOK
<1>. QED BY <1>1, <1>3, <1>4, <1>5 DEF PrivateInv

(* Steps that no request under way can see: challenges and expiry, and     *)
(* what follows a revocation.                                              *)
LEMMA UnseenKeeps ==
  ASSUME PrivateInv, UNCHANGED <<devices, consumed, serving, history>>,
         issued' \subseteq [nonce : OwnerNonce, tin : Tin],
         spent \subseteq spent', spent' \subseteq OwnerNonce,
         over' \subseteq PrivateSession, revoking' \subseteq Device,
         sessions' \subseteq SessionRow,
         \A s \in sessions' : OpenedAs(s)
  PROVE  PrivateInv'
<1>1. PrivateTypeOK'
  BY DEF PrivateInv, PrivateTypeOK, history
<1>2. KeysOnce' /\ OneDevicePerChallenge' /\ DevicesGranted'
  BY DEF PrivateInv, KeysOnce, OneDevicePerChallenge, DevicesGranted, history
<1>3. NoncesCounted' /\ ServedAsGranted' /\ RevokedIsRefused'
  BY DEF PrivateInv, NoncesCounted, ServedAsGranted, RevokedIsRefused, history
<1>4. RowsStay
  BY DEF RowsStay, history
<1>5. SessionsOpened'
  BY <1>4, ReliedOnStays DEF PrivateInv, SessionsOpened, history
<1>6. HandlersOK'
  BY <1>4, RequestsStay DEF PrivateInv, HandlersOK
<1>. QED BY <1>1, <1>2, <1>3, <1>5, <1>6 DEF PrivateInv

(* A handler goes on with something that its rows allow.                   *)
LEMMA HandlerGoes ==
  ASSUME PrivateTypeOK, HandlersOK, RowsStay, NEW h \in Handler, NEW w \in Doing,
         Goes(h, w), DoingOK(w)'
  PROVE  HandlersOK' /\ serving' \in [Handler -> Doing]
<1>1. serving' = [serving EXCEPT ![h] = w] /\ serving \in [Handler -> Doing]
  BY DEF Goes, PrivateTypeOK
<1>2. \A i \in Handler : serving'[i] = IF i = h THEN w ELSE serving[i]
  BY <1>1
<1>3. \A i \in Handler : DoingOK(serving[i]) => DoingOK(serving[i])'
  <2>1. SUFFICES ASSUME NEW i \in Handler, NEW v, v = serving[i], DoingOK(v)
                 PROVE  i = h \/ DoingOK(serving[i])'
    BY <1>2
  <2>. QED BY <1>2, <2>1, RequestsStay
<1>. QED BY <1>1, <1>2, <1>3 DEF HandlersOK

(* What a handler does between its rows: it reads, counts a nonce, answers *)
(* or ends.                                                                *)
LEMMA BetweenRowsKeeps ==
  ASSUME PrivateInv, NEW h \in Handler, NEW w \in Doing, w.at # "authorized",
         Goes(h, w), DoingOK(w),
         UNCHANGED <<issued, spent, devices, sessions, over, revoking, granted, opened>>,
         consumed' \subseteq RequestNonce, runs' \in [RequestNonce -> Nat], NoncesCounted',
         served' \subseteq [proof : ReadProof, tin : Tin, late : BOOLEAN],
         \A a \in served' : ~a.late /\ Allowed(a.tin, a.proof)
  PROVE  PrivateInv'
<1>1. RowsStay
  BY DEF RowsStay
<1>2. HandlersOK' /\ serving' \in [Handler -> Doing]
  <2>1. DoingOK(w)'
    BY <1>1, RequestsStay
  <2>. QED BY <1>1, <2>1, HandlerGoes DEF PrivateInv
<1>3. PrivateTypeOK'
  BY <1>2 DEF PrivateInv, PrivateTypeOK
<1>4. KeysOnce' /\ OneDevicePerChallenge' /\ SessionsOpened'
  <2>1. SessionsOpened'
    BY <1>1, ReliedOnStays DEF PrivateInv, SessionsOpened
  <2>. QED BY <2>1 DEF PrivateInv, KeysOnce, OneDevicePerChallenge
<1>5. DevicesGranted'
  <2>1. \A i \in Handler : serving'[i].at = "authorized" => serving'[i] = serving[i]
    BY DEF Goes, PrivateInv, PrivateTypeOK
  <2>. QED BY <2>1 DEF PrivateInv, DevicesGranted
<1>6. ServedAsGranted' /\ RevokedIsRefused'
  <2>1. \A a \in served' : Allowed(a.tin, a.proof)'
    BY DEF Allowed
  <2>. QED BY <2>1 DEF Allowed, ServedAsGranted, RevokedIsRefused
<1>. QED BY <1>2, <1>3, <1>4, <1>5, <1>6 DEF PrivateInv

(* What was answered before stays as it is.                                *)
LEMMA AnsweredBefore ==
  ASSUME PrivateInv
  PROVE  /\ \A a \in served : ~a.late /\ Allowed(a.tin, a.proof)
         /\ served \subseteq [proof : ReadProof, tin : Tin, late : BOOLEAN]
         /\ consumed \subseteq RequestNonce /\ runs \in [RequestNonce -> Nat] /\ NoncesCounted
BY DEF PrivateInv, PrivateTypeOK, ServedAsGranted, RevokedIsRefused, Allowed

LEMMA ScopesDiffer ==
  /\ \A q \in CreateProof : q.scope = CreateScope /\ q.scope # ReadScope
  /\ \A q \in ReadProof : q.scope = ReadScope
BY PrivateAssumption DEF CreateProof, ReadProof, ProofOf

LEMMA BeginCreateKeeps ==
  ASSUME PrivateInv, NEW h \in Handler, NEW r \in devices, NEW q \in CreateProof,
         BeginCreate(h, r, q)
  PROVE  PrivateInv'
<1>1. PICK w : w = [at |-> "verified", proof |-> q, tin |-> r.tin, late |-> FALSE]
  OBVIOUS
<1>2. w \in Doing /\ w.at = "verified" /\ w.proof = q
  BY <1>1 DEF Doing, Proof, PrivateInv, PrivateTypeOK, DeviceRow
<1>3. HasKey(q.device, q.key)
  BY DEF BeginCreate, MayCreate, HasKey
<1>4. DoingOK(w)
  BY <1>2, <1>3, ScopesDiffer DEF DoingOK
<1>5. Goes(h, w) /\ UNCHANGED <<rows, history>>
  BY <1>1 DEF BeginCreate
<1>6. NoncesCounted'
  BY <1>5, AnsweredBefore DEF NoncesCounted, rows, history
<1>. QED BY <1>2, <1>4, <1>5, <1>6, AnsweredBefore, BetweenRowsKeeps DEF rows, history

LEMMA BeginReadKeeps ==
  ASSUME PrivateInv, NEW h \in Handler, NEW s \in sessions, NEW q \in ReadProof,
         BeginRead(h, s, q)
  PROVE  PrivateInv'
<1>1. PICK w : w = [at |-> "session", proof |-> q, session |-> s,
                    late |-> \E r \in devices : r.key = q.key /\ ~r.active]
  OBVIOUS
<1>2. w \in Doing /\ w.at = "session" /\ w.proof = q /\ w.session = s
  <2>1. PICK l \in BOOLEAN : l = \E r \in devices : r.key = q.key /\ ~r.active
    OBVIOUS
  <2>2. w = [at |-> "session", proof |-> q, session |-> s, late |-> l]
    BY <1>1, <2>1
  <2>. QED BY <2>2 DEF Doing, PrivateInv, PrivateTypeOK
<1>3. w.late => KeyRevoked(q.key)
  BY <1>1 DEF KeyRevoked
<1>4. DoingOK(w)
  BY <1>2, <1>3 DEF DoingOK, BeginRead, PrivateInv, SessionsOpened
<1>5. Goes(h, w) /\ UNCHANGED <<rows, history>>
  BY <1>1 DEF BeginRead
<1>6. NoncesCounted'
  BY <1>5, AnsweredBefore DEF NoncesCounted, rows, history
<1>. QED BY <1>2, <1>4, <1>5, <1>6, AnsweredBefore, BetweenRowsKeeps DEF rows, history

(* The device read is the one whose key opened the session, as no key and  *)
(* no id has two rows; being active, it was not revoked before.            *)
LEMMA ReadDeviceKeeps ==
  ASSUME PrivateInv, NEW h \in Handler, ReadDevice(h)
  PROVE  PrivateInv'
<1>1. PICK v \in Doing : v = serving[h] /\ v.at = "session" /\ DoingOK(v)
  BY DEF ReadDevice, PrivateInv, PrivateTypeOK, HandlersOK
<1>2. v \in [at : {"session"}, proof : ReadProof, session : SessionRow, late : BOOLEAN]
  BY <1>1 DEF Doing, Idle
<1>3. PICK r \in devices : MayRead(v.session, r, v.proof)
  BY <1>1 DEF ReadDevice
<1>4. PICK w : w = [at |-> "verified", proof |-> v.proof, tin |-> v.session.tin, late |-> v.late]
  OBVIOUS
<1>5. w \in Doing /\ w.at = "verified" /\ w.proof = v.proof /\ w.late = v.late /\ w.tin = v.session.tin
  BY <1>2, <1>4 DEF Doing, Proof, SessionRow
<1>6. ~v.late
  BY <1>1, <1>3 DEF DoingOK, KeyRevoked, KeysOnce, MayRead, MayReadOnSession, PrivateInv
<1>7. Allowed(w.tin, w.proof)
  <2>1. \E g \in granted : g.tin = r.tin /\ g.key = r.key /\ ReadScope \in g.scopes
    BY <1>3 DEF PrivateInv, DevicesGranted, MayRead, MayReadOnSession
  <2>2. PICK o \in opened :
          o.session = v.session.session /\ o.device = v.session.device /\ o.asked = v.session.scopes
    BY <1>1 DEF DoingOK, OpenedAs
  <2>3. PICK d \in devices : d.device = o.device /\ d.key = o.key
    BY DEF PrivateInv, SessionsOpened, HasKey
  <2>4. d = r
    BY <1>3, <2>2, <2>3 DEF PrivateInv, KeysOnce, MayRead, MayReadOnSession
  <2>5. ReadScope \in v.session.scopes
    BY <1>1 DEF DoingOK
  <2>. QED BY <1>3, <1>5, <2>1, <2>2, <2>3, <2>4, <2>5 DEF Allowed, MayRead, MayReadOnSession
<1>8. DoingOK(w)
  BY <1>2, <1>5, <1>6, <1>7, ScopesDiffer DEF DoingOK
<1>9. Goes(h, w) /\ UNCHANGED <<rows, history>>
  BY <1>1, <1>4 DEF ReadDevice
<1>10. NoncesCounted'
  BY <1>9, AnsweredBefore DEF NoncesCounted, rows, history
<1>. QED BY <1>5, <1>8, <1>9, <1>10, AnsweredBefore, BetweenRowsKeeps DEF rows, history

LEMMA ConsumeNonceKeeps ==
  ASSUME PrivateInv, NEW h \in Handler, ConsumeNonce(h)
  PROVE  PrivateInv'
<1>1. PICK v \in Doing : v = serving[h] /\ v.at = "verified" /\ DoingOK(v)
  BY DEF ConsumeNonce, PrivateInv, PrivateTypeOK, HandlersOK
<1>2. v \in [at : {"verified", "through"}, proof : Proof, tin : Tin, late : BOOLEAN]
  BY <1>1 DEF Doing, Idle
<1>3. PICK w : w = [v EXCEPT !.at = "through"]
  OBVIOUS
<1>4. /\ w \in Doing /\ w.at = "through"
      /\ w.proof = v.proof /\ w.tin = v.tin /\ w.late = v.late
  BY <1>2, <1>3 DEF Doing
<1>5. DoingOK(w)
  BY <1>1, <1>4 DEF DoingOK
<1>6. PICK n \in RequestNonce : /\ n \notin consumed
                               /\ consumed' = consumed \cup {n}
                               /\ runs' = [runs EXCEPT ![n] = @ + 1]
  BY DEF ConsumeNonce, NewNonce
<1>7. runs' \in [RequestNonce -> Nat] /\ NoncesCounted'
  BY <1>6, AnsweredBefore DEF NoncesCounted
<1>8. /\ Goes(h, w) /\ served' = served
      /\ UNCHANGED <<issued, spent, devices, sessions, over, revoking, granted, opened>>
  BY <1>1, <1>3 DEF ConsumeNonce
<1>. QED BY <1>4, <1>5, <1>6, <1>7, <1>8, AnsweredBefore, BetweenRowsKeeps

LEMMA ServeKeeps ==
  ASSUME PrivateInv, NEW h \in Handler, Serve(h)
  PROVE  PrivateInv'
<1>1. PICK v \in Doing : v = serving[h] /\ v.at = "through" /\ DoingOK(v)
  BY DEF Serve, PrivateInv, PrivateTypeOK, HandlersOK
<1>2. v \in [at : {"verified", "through"}, proof : Proof, tin : Tin, late : BOOLEAN]
  BY <1>1 DEF Doing, Idle
<1>3. v.proof.scope = ReadScope
  BY <1>1 DEF Serve
<1>4. v.proof \in ReadProof /\ ~v.late /\ Allowed(v.tin, v.proof)
  BY <1>1, <1>2, <1>3, ScopesDiffer DEF DoingOK, Proof
<1>5. PICK a : a = [proof |-> v.proof, tin |-> v.tin, late |-> v.late]
  OBVIOUS
<1>6. a \in [proof : ReadProof, tin : Tin, late : BOOLEAN] /\ ~a.late /\ Allowed(a.tin, a.proof)
  BY <1>2, <1>4, <1>5
<1>7. served' = served \cup {a}
  BY <1>1, <1>5 DEF Serve
<1>8. Goes(h, Idle) /\ UNCHANGED <<rows, granted, opened, runs>>
  BY DEF Serve
<1>9. NoncesCounted'
  BY <1>8, AnsweredBefore DEF NoncesCounted, rows
<1>10. Idle \in Doing /\ Idle.at # "authorized" /\ DoingOK(Idle)
  BY DEF Doing, Idle, DoingOK
<1>. QED BY <1>6, <1>7, <1>8, <1>9, <1>10, AnsweredBefore, BetweenRowsKeeps DEF rows

LEMMA RefusalKeeps ==
  ASSUME PrivateInv, NEW h \in Handler, Refuse(h)
  PROVE  PrivateInv'
<1>1. Goes(h, Idle) /\ UNCHANGED <<rows, history>>
  BY DEF Refuse
<1>2. Idle \in Doing /\ Idle.at # "authorized" /\ DoingOK(Idle)
  BY DEF Doing, Idle, DoingOK
<1>3. NoncesCounted'
  BY <1>1, AnsweredBefore DEF NoncesCounted, rows, history
<1>. QED BY <1>1, <1>2, <1>3, AnsweredBefore, BetweenRowsKeeps DEF rows, history

(* The challenge is spent and one authorization of it on its way: nobody   *)
(* else had it, as it was not spent before.                                *)
LEMMA ConsumeOwnerChallengeKeeps ==
  ASSUME PrivateInv, NEW h \in Handler, NEW d \in Device, NEW a \in Authorization,
         ConsumeOwnerChallenge(h, d, a)
  PROVE  PrivateInv'
<1>1. PICK w : w = [at |-> "authorized", device |-> d, authorization |-> a]
  OBVIOUS
<1>2. w \in Doing /\ w.at = "authorized" /\ w.authorization = a
  BY <1>1 DEF Doing
<1>3. /\ a.nonce \notin spent
      /\ spent' = spent \cup {a.nonce} /\ granted' = granted \cup {a}
      /\ UNCHANGED <<issued, devices, sessions, over, consumed, revoking, opened, served, runs>>
  BY DEF ConsumeOwnerChallenge, StillOpen
<1>4. Goes(h, w)
  BY <1>1 DEF ConsumeOwnerChallenge
<1>5. RowsStay
  BY <1>3 DEF RowsStay
<1>6. HandlersOK' /\ serving' \in [Handler -> Doing]
  <2>1. DoingOK(w)
    BY <1>2 DEF DoingOK
  <2>. QED BY <1>2, <1>4, <1>5, <2>1, RequestsStay, HandlerGoes DEF PrivateInv
<1>7. PrivateTypeOK'
  BY <1>3, <1>6 DEF PrivateInv, PrivateTypeOK, Authorization
<1>8. DevicesGranted'
  <2>1. \A i \in Handler : serving'[i] = IF i = h THEN w ELSE serving[i]
    BY <1>4 DEF Goes, PrivateInv, PrivateTypeOK
  <2>2. \A r \in devices : r.nonce \in spent
    BY DEF PrivateInv, DevicesGranted
  <2>3. \A i \in Handler : serving[i].at = "authorized" => serving[i].authorization.nonce \in spent
    BY DEF PrivateInv, DevicesGranted
  <2>4. \A g \in granted' : g.nonce \in spent'
    BY <1>3 DEF PrivateInv, DevicesGranted
  <2>5. \A r \in devices' : \E g \in granted' :
          g.nonce = r.nonce /\ g.tin = r.tin /\ g.key = r.key /\ g.scopes = r.scopes
    BY <1>3 DEF PrivateInv, DevicesGranted
  <2>6. \A i \in Handler : serving'[i].at = "authorized" =>
          /\ serving'[i].authorization \in granted'
          /\ \A r \in devices' : r.nonce # serving'[i].authorization.nonce
    BY <1>2, <1>3, <2>1, <2>2 DEF PrivateInv, DevicesGranted
  <2>7. \A i, j \in Handler :
          /\ serving'[i].at = "authorized" /\ serving'[j].at = "authorized"
          /\ serving'[i].authorization.nonce = serving'[j].authorization.nonce
          => i = j
    BY <1>2, <1>3, <2>1, <2>3 DEF PrivateInv, DevicesGranted
  <2>. QED BY <2>4, <2>5, <2>6, <2>7 DEF DevicesGranted
<1>9. KeysOnce' /\ OneDevicePerChallenge' /\ NoncesCounted' /\ RevokedIsRefused'
  BY <1>3 DEF PrivateInv, KeysOnce, OneDevicePerChallenge, NoncesCounted, RevokedIsRefused
<1>10. SessionsOpened' /\ ServedAsGranted'
  <2>1. SessionsOpened'
    BY <1>3, <1>5, ReliedOnStays DEF PrivateInv, SessionsOpened
  <2>. QED BY <1>3, <2>1 DEF PrivateInv, ServedAsGranted
<1>. QED BY <1>6, <1>7, <1>8, <1>9, <1>10 DEF PrivateInv

(* Devices change and authorizations do not: what does not depend on how.  *)
LEMMA DevicesMove ==
  ASSUME PrivateInv, RowsStay, devices' \subseteq DeviceRow, revoking' \subseteq Device,
         serving' \in [Handler -> Doing], HandlersOK',
         UNCHANGED <<issued, spent, sessions, over, consumed, history>>
  PROVE  /\ PrivateTypeOK' /\ NoncesCounted' /\ SessionsOpened'
         /\ ServedAsGranted' /\ RevokedIsRefused'
<1>1. PrivateTypeOK' /\ NoncesCounted'
  BY DEF PrivateInv, PrivateTypeOK, NoncesCounted, history
<1>2. SessionsOpened'
  BY ReliedOnStays DEF PrivateInv, SessionsOpened, history
<1>3. ServedAsGranted' /\ RevokedIsRefused'
  BY DEF PrivateInv, ServedAsGranted, RevokedIsRefused, history
<1>. QED BY <1>1, <1>2, <1>3

LEMMA InsertDeviceKeeps ==
  ASSUME PrivateInv, NEW h \in Handler, InsertDevice(h)
  PROVE  PrivateInv'
<1>1. PICK v \in Doing : v = serving[h] /\ v.at = "authorized"
  BY DEF InsertDevice, PrivateInv, PrivateTypeOK
<1>2. v \in [at : {"authorized"}, device : Device, authorization : Authorization]
  BY <1>1 DEF Doing, Idle
<1>3. PICK row : row = [device |-> v.device, tin |-> v.authorization.tin,
                        key |-> v.authorization.key, scopes |-> v.authorization.scopes,
                        nonce |-> v.authorization.nonce, active |-> TRUE]
  OBVIOUS
<1>4. row \in DeviceRow
  BY <1>2, <1>3 DEF DeviceRow, Authorization
<1>5. \/ /\ \A r \in devices : r.device # row.device /\ r.key # row.key
         /\ devices' = devices \cup {row}
      \/ devices' = devices
  BY <1>1, <1>3 DEF InsertDevice
<1>6. Goes(h, Idle) /\ UNCHANGED <<issued, spent, sessions, over, consumed, revoking, history>>
  BY DEF InsertDevice
<1>7. RowsStay
  BY <1>5, <1>6 DEF RowsStay, history
<1>8. HandlersOK' /\ serving' \in [Handler -> Doing]
  <2>1. Idle \in Doing /\ DoingOK(Idle)'
    BY DEF Doing, Idle, DoingOK
  <2>. QED BY <1>6, <1>7, <2>1, HandlerGoes DEF PrivateInv
<1>9. PrivateTypeOK' /\ NoncesCounted' /\ SessionsOpened' /\ ServedAsGranted' /\ RevokedIsRefused'
  <2>1. devices' \subseteq DeviceRow /\ revoking' \subseteq Device
    BY <1>4, <1>5, <1>6 DEF PrivateInv, PrivateTypeOK
  <2>. QED BY <1>6, <1>7, <1>8, <2>1, DevicesMove
<1>10. KeysOnce'
  BY <1>5 DEF PrivateInv, KeysOnce
<1>11. /\ v.authorization \in granted
       /\ \A r \in devices : r.nonce # row.nonce
       /\ \A i \in Handler \ {h} : serving[i].at = "authorized" =>
            serving[i].authorization.nonce # row.nonce
  BY <1>1, <1>3 DEF PrivateInv, DevicesGranted
<1>12. OneDevicePerChallenge'
  BY <1>5, <1>11 DEF PrivateInv, OneDevicePerChallenge
<1>13. DevicesGranted'
  <2>1. \A i \in Handler : serving'[i] = IF i = h THEN Idle ELSE serving[i]
    BY <1>6 DEF Goes, PrivateInv, PrivateTypeOK
  <2>2. \A i \in Handler : serving'[i].at = "authorized" => i # h /\ serving'[i] = serving[i]
    BY <2>1 DEF Idle
  <2>3. \A r \in devices' : \E g \in granted :
          g.nonce = r.nonce /\ g.tin = r.tin /\ g.key = r.key /\ g.scopes = r.scopes
    BY <1>3, <1>5, <1>11 DEF PrivateInv, DevicesGranted
  <2>4. \A i \in Handler : serving'[i].at = "authorized" =>
          /\ serving'[i].authorization \in granted
          /\ \A r \in devices' : r.nonce # serving'[i].authorization.nonce
    BY <1>5, <1>11, <2>2 DEF PrivateInv, DevicesGranted
  <2>. QED BY <1>6, <2>2, <2>3, <2>4 DEF PrivateInv, DevicesGranted, history
<1>. QED BY <1>8, <1>9, <1>10, <1>12, <1>13 DEF PrivateInv

LEMMA RevokeKeeps ==
  ASSUME PrivateInv, NEW r \in devices, Revoke(r)
  PROVE  PrivateInv'
<1>1. PICK row : row = [r EXCEPT !.active = FALSE]
  OBVIOUS
<1>2. /\ row \in DeviceRow /\ ~row.active
      /\ row.device = r.device /\ row.key = r.key /\ row.nonce = r.nonce
      /\ row.tin = r.tin /\ row.scopes = r.scopes
  BY <1>1 DEF PrivateInv, PrivateTypeOK, DeviceRow
<1>3. devices' = (devices \ {r}) \cup {row}
  BY <1>1 DEF Revoke
<1>4. /\ UNCHANGED <<issued, spent, sessions, over, consumed, serving, history>>
      /\ revoking' \subseteq Device
  BY DEF Revoke, PrivateInv, PrivateTypeOK, DeviceRow
<1>5. RowsStay
  BY <1>2, <1>3, <1>4 DEF RowsStay, history
<1>6. HandlersOK' /\ serving' \in [Handler -> Doing]
  BY <1>4, <1>5, RequestsStay DEF PrivateInv, PrivateTypeOK, HandlersOK
<1>7. PrivateTypeOK' /\ NoncesCounted' /\ SessionsOpened' /\ ServedAsGranted' /\ RevokedIsRefused'
  <2>1. devices' \subseteq DeviceRow
    BY <1>2, <1>3 DEF PrivateInv, PrivateTypeOK
  <2>. QED BY <1>4, <1>5, <1>6, <2>1, DevicesMove
<1>8. KeysOnce' /\ OneDevicePerChallenge'
  BY <1>2, <1>3 DEF PrivateInv, KeysOnce, OneDevicePerChallenge
<1>9. DevicesGranted'
  BY <1>2, <1>3, <1>4 DEF PrivateInv, DevicesGranted, history
<1>. QED BY <1>6, <1>7, <1>8, <1>9 DEF PrivateInv

LEMMA InsertSessionKeeps ==
  ASSUME PrivateInv, NEW h \in Handler, InsertSession(h)
  PROVE  PrivateInv'
<1>1. PICK v \in Doing : v = serving[h] /\ v.at = "through" /\ DoingOK(v)
  BY DEF InsertSession, PrivateInv, PrivateTypeOK, HandlersOK
<1>2. v \in [at : {"verified", "through"}, proof : Proof, tin : Tin, late : BOOLEAN]
  BY <1>1 DEF Doing, Idle
<1>3. PICK q : q = v.proof
  OBVIOUS
<1>4. q.scope = CreateScope
  BY <1>1, <1>3 DEF InsertSession
<1>5. q \in CreateProof /\ HasKey(q.device, q.key)
  BY <1>1, <1>2, <1>3, <1>4, ScopesDiffer, PrivateAssumption DEF DoingOK, Proof
<1>6. PICK row : row = [session |-> q.session, device |-> q.device, tin |-> v.tin,
                        scopes |-> q.asked, active |-> TRUE]
  OBVIOUS
<1>7. row \in SessionRow
  BY <1>2, <1>5, <1>6 DEF SessionRow, CreateProof, ProofOf
<1>8. sessions' = sessions \cup {row} /\ opened' = opened \cup {q}
  BY <1>1, <1>3, <1>6 DEF InsertSession
<1>9. /\ Goes(h, Idle)
      /\ UNCHANGED <<issued, spent, devices, over, consumed, revoking, granted, served, runs>>
  BY DEF InsertSession
<1>10. RowsStay
  BY <1>8, <1>9 DEF RowsStay
<1>11. HandlersOK' /\ serving' \in [Handler -> Doing]
  <2>1. Idle \in Doing /\ DoingOK(Idle)'
    BY DEF Doing, Idle, DoingOK
  <2>. QED BY <1>9, <1>10, <2>1, HandlerGoes DEF PrivateInv
<1>12. PrivateTypeOK'
  BY <1>5, <1>7, <1>8, <1>9, <1>11 DEF PrivateInv, PrivateTypeOK
<1>13. KeysOnce' /\ OneDevicePerChallenge' /\ NoncesCounted' /\ RevokedIsRefused'
  BY <1>9 DEF PrivateInv, KeysOnce, OneDevicePerChallenge, NoncesCounted, RevokedIsRefused
<1>14. DevicesGranted'
  <2>1. \A i \in Handler : serving'[i].at = "authorized" => serving'[i] = serving[i]
    BY <1>9 DEF Goes, Idle, PrivateInv, PrivateTypeOK
  <2>. QED BY <1>9, <2>1 DEF PrivateInv, DevicesGranted
<1>15. SessionsOpened'
  <2>1. OpenedAs(row)'
    BY <1>6, <1>8 DEF OpenedAs
  <2>2. \A s \in sessions : OpenedAs(s)'
    BY <1>10, ReliedOnStays DEF PrivateInv, SessionsOpened
  <2>3. \A p \in opened' : HasKey(p.device, p.key)'
    BY <1>5, <1>8, <1>10, ReliedOnStays DEF PrivateInv, SessionsOpened
  <2>. QED BY <1>8, <2>1, <2>2, <2>3 DEF SessionsOpened
<1>16. ServedAsGranted'
  BY <1>8, <1>9 DEF PrivateInv, ServedAsGranted
<1>. QED BY <1>11, <1>12, <1>13, <1>14, <1>15, <1>16 DEF PrivateInv

LEMMA RevokeSessionsKeeps ==
  ASSUME PrivateInv, NEW d \in revoking, RevokeSessions(d)
  PROVE  PrivateInv'
<1>1. \A s \in sessions' : \E p \in sessions :
        s = IF p.device = d THEN [p EXCEPT !.active = FALSE] ELSE p
  BY DEF RevokeSessions
<1>2. \A s \in sessions' : \E p \in sessions :
        /\ s \in SessionRow
        /\ s.session = p.session /\ s.device = p.device /\ s.scopes = p.scopes
  BY <1>1 DEF PrivateInv, PrivateTypeOK, SessionRow
<1>3. sessions' \subseteq SessionRow /\ \A s \in sessions' : OpenedAs(s)
  BY <1>2 DEF PrivateInv, SessionsOpened, OpenedAs
<1>4. /\ UNCHANGED <<issued, spent, devices, over, consumed, serving, history>>
      /\ revoking' \subseteq revoking
  BY DEF RevokeSessions
<1>. QED BY <1>3, <1>4, UnseenKeeps DEF PrivateInv, PrivateTypeOK

(* Every step keeps the invariant.                                         *)
LEMMA NextKeepsPrivate == PrivateInv /\ [PrivateNext]_privateVars => PrivateInv'
<1>. SUFFICES ASSUME PrivateInv, [PrivateNext]_privateVars PROVE PrivateInv'
  OBVIOUS
<1>0. PrivateTypeOK /\ \A s \in sessions : OpenedAs(s)
  BY DEF PrivateInv, SessionsOpened
<1>1. CASE \E n \in OwnerNonce, t \in Tin : IssueChallenge(n, t)
  BY <1>0, <1>1, UnseenKeeps DEF IssueChallenge, PrivateTypeOK
<1>2. CASE \E c \in issued : ChallengeExpires(c)
  BY <1>0, <1>2, UnseenKeeps DEF ChallengeExpires, PrivateTypeOK
<1>3. CASE \E r \in devices : Revoke(r)
  BY <1>3, RevokeKeeps
<1>4. CASE \E d \in revoking : RevokeSessions(d)
  BY <1>4, RevokeSessionsKeeps
<1>5. CASE \E d \in revoking : RevokeFails(d)
  BY <1>0, <1>5, UnseenKeeps DEF RevokeFails, PrivateTypeOK
<1>6. CASE \E s \in sessions : SessionExpires(s)
  <2>1. PICK s \in sessions : SessionExpires(s)
    BY <1>6
  <2>2. s.session \in PrivateSession
    BY <1>0 DEF PrivateTypeOK, SessionRow
  <2>. QED BY <1>0, <2>1, <2>2, UnseenKeeps DEF SessionExpires, PrivateTypeOK
<1>7. CASE \E h \in Handler : \E d \in Device, a \in Authorization : ConsumeOwnerChallenge(h, d, a)
  BY <1>7, ConsumeOwnerChallengeKeeps
<1>8. CASE \E h \in Handler : \E r \in devices, q \in CreateProof : BeginCreate(h, r, q)
  BY <1>8, BeginCreateKeeps
<1>9. CASE \E h \in Handler : \E s \in sessions, q \in ReadProof : BeginRead(h, s, q)
  BY <1>9, BeginReadKeeps
<1>10. CASE \E h \in Handler : InsertDevice(h) \/ InsertSession(h)
  BY <1>10, InsertDeviceKeeps, InsertSessionKeeps
<1>11. CASE \E h \in Handler : ReadDevice(h) \/ ConsumeNonce(h) \/ Serve(h) \/ Refuse(h)
  BY <1>11, ReadDeviceKeeps, ConsumeNonceKeeps, ServeKeeps, RefusalKeeps
<1>12. CASE UNCHANGED privateVars
  BY <1>0, <1>12, UnseenKeeps DEF privateVars, rows, PrivateTypeOK
<1>. QED BY <1>1, <1>2, <1>3, <1>4, <1>5, <1>6, <1>7, <1>8, <1>9, <1>10, <1>11, <1>12
     DEF PrivateNext

(* The inductive invariant holds throughout.                               *)
THEOREM PrivateInductive == PrivateSpec => []PrivateInv
BY InitPrivate, NextKeepsPrivate, PTL DEF PrivateSpec

(* Rows, requests under way and histories stay well formed.                *)
THEOREM PrivateTypeCorrect == PrivateSpec => []PrivateTypeOK
<1>1. PrivateInv => PrivateTypeOK
  BY DEF PrivateInv
<1>. QED BY <1>1, PrivateInductive, PTL

(* A challenge registers at most one device.                               *)
THEOREM ChallengesRegisterOnce == PrivateSpec => []OneDevicePerChallenge
<1>1. PrivateInv => OneDevicePerChallenge
  BY DEF PrivateInv
<1>. QED BY <1>1, PrivateInductive, PTL

(* No read that begins after its key was revoked is answered, whatever is  *)
(* left of its sessions.                                                   *)
THEOREM RevokedAreRefused == PrivateSpec => []RevokedIsRefused
<1>1. PrivateInv => RevokedIsRefused
  BY DEF PrivateInv
<1>. QED BY <1>1, PrivateInductive, PTL

(* What is answered was granted by the owner and asked for by the key.     *)
THEOREM ReadsAreGranted == PrivateSpec => []ServedAsGranted
<1>1. PrivateInv => ServedAsGranted
  BY DEF PrivateInv
<1>. QED BY <1>1, PrivateInductive, PTL

(* Copies of a proof get one request through.                              *)
THEOREM ProofsRunAtMostOnce == PrivateSpec => []ProofsRunOnce
<1>1. PrivateInv => ProofsRunOnce
  BY DEF PrivateInv, NoncesCounted, ProofsRunOnce
<1>. QED BY <1>1, PrivateInductive, PTL
=============================================================================
