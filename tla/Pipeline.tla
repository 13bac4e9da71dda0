------------------------------ MODULE Pipeline ------------------------------
(***************************************************************************)
(* A payment on its way through the TSN services: the Receiver's queue     *)
(* with the workers that drain it - the Node's verification worker         *)
(* (services/tsn-node, server.py), which sleeps until it is woken, and the *)
(* Cranker daemon (services/tsn-cranker-op-daemon, cranker.ts), which      *)
(* polls - and the chain the Cranker submits deposits to.                  *)
(*                                                                         *)
(* Each worker is sequential and has at most one lease request open.  What *)
(* the environment may do to them (lose a request or an answer, fail a     *)
(* look-up, stop a process, delay a holder past its lease) costs one of    *)
(* Faults; everything else is what the code does.                          *)
(***************************************************************************)
EXTENDS Receiver

CONSTANTS
  Nonce, NonceOf,   \* the authorization nonce a payment's message signs
  DepositOf,        \* the signature of a payment's presigned deposit
  Valid,            \* the payments whose message and deposit are in order
  FailureLimit,     \* failures in a row after which the Node sleeps (6)
  Faults            \* bound: how many faults a behaviour may have

ASSUME PipelineAssumption ==
  /\ Call = Owner          \* the request of each worker
  /\ NonceOf \in [Ref -> Nonce]
  /\ DepositOf \in [Ref -> Signature]
  /\ Valid \subseteq Ref
  /\ FailureLimit \in Nat \ {0}
  /\ Faults \in Nat

VARIABLES
  worker,   \* Owner -> where its loop is, the lease it acts on, its decision
  wake,     \* the Node's wake event
  used,     \* nonces in the Node's durable store
  chain,    \* Signature -> "new", "sent", "landed" or "dead"
  faults    \* faults still to come

world == <<worker, wake, used, chain, faults>>
all == <<vars, world>>

NoGrant == [id |-> None]
Resting == [pc |-> "rest", held |-> NoGrant, says |-> "NONE", failures |-> 0]
Asleep == [Resting EXCEPT !.pc = "asleep"]

PInit ==
  /\ Init
  /\ worker = [o \in Owner |-> IF o \in Node THEN Asleep ELSE Resting]
  /\ wake = [n \in Node |-> TRUE]       \* set at startup
  /\ used = {}
  /\ chain = [s \in Signature |-> "new"]
  /\ faults = Faults

Fault == faults > 0 /\ faults' = faults - 1
NoFault == UNCHANGED faults

At(o, pc) == worker[o].pc = pc
Becomes(o, w) == worker' = [worker EXCEPT ![o] = w]
Goes(o, pc) == Becomes(o, [worker[o] EXCEPT !.pc = pc])
Says(o, verdict, pc) == Becomes(o, [worker[o] EXCEPT !.pc = pc, !.says = verdict])
Held(o) == worker[o].held
PaymentOf(o) == Held(o).id[1]

(* The Receiver tells one Node to look; the request may be lost.           *)
WakeNode ==
  \/ \E n \in Node : wake' = [wake EXCEPT ![n] = TRUE] /\ NoFault
  \/ UNCHANGED wake /\ Fault

-----------------------------------------------------------------------------
(* A sender submits a payment.                                             *)
Submit(r, b) ==
  /\ ~Exists(Ingress(r))
  /\ Receive(r, "AUTHORIZED_FUNDING", b)
  /\ WakeNode
  /\ UNCHANGED <<worker, used, chain>>

(* What a worker does with an unusable answer: the Node counts failures    *)
(* and gives up at the limit; the Cranker just polls again.                *)
AfterFailure(o) ==
  LET n == worker[o].failures + 1
  IN IF o \in Node /\ n < FailureLimit THEN [Resting EXCEPT !.failures = n]
     ELSE IF o \in Node THEN Asleep ELSE Resting

(* A worker asks for work; the Receiver may be out of reach.               *)
Ask(o) ==
  /\ At(o, "rest")
  /\ \/ BeginLease(o, o) /\ Goes(o, "asking") /\ NoFault
     \/ UNCHANGED vars /\ Becomes(o, AfterFailure(o)) /\ Fault
  /\ UNCHANGED <<wake, used, chain>>

(* The Receiver works on the request.  When it is done the worker gets the *)
(* answer, unless it was lost or nobody waits for it any more.             *)
ServeWorker(o) ==
  /\ ServeLease(o) /\ call[o].pc # "idle"
  /\ IF call'[o].pc # "idle" \/ ~At(o, "asking")
       THEN UNCHANGED worker /\ NoFault
       ELSE \/ \E g \in grants' \ grants :
                 /\ Becomes(o, [worker[o] EXCEPT !.pc = "holding", !.held = g])
                 /\ NoFault
            \/ /\ call[o].pc = "pick"
               /\ Becomes(o, IF o \in Node THEN Asleep ELSE Resting)
               /\ NoFault
            \/ /\ Becomes(o, AfterFailure(o))
               /\ Fault
  /\ UNCHANGED <<wake, used, chain>>

-----------------------------------------------------------------------------
(* The Node's worker.                                                      *)

(* The event is cleared before the queue is looked at.                     *)
WakeUp(n) ==
  /\ At(n, "asleep") /\ wake[n]
  /\ wake' = [wake EXCEPT ![n] = FALSE]
  /\ Goes(n, "rest")
  /\ UNCHANGED <<vars, used, chain, faults>>

(* Everything checked before the nonce.  Any exception rejects the work,   *)
(* a failed look-up as much as a bad signature; a settlement always does,  *)
(* as long as no prover for it is configured.                              *)
Check(n) ==
  /\ At(n, "holding")
  /\ IF work[Held(n).id].kind = "SETTLEMENT" \/ PaymentOf(n) \notin Valid
       THEN Says(n, "REJECTED", "reporting") /\ NoFault
       ELSE \/ Goes(n, "consuming") /\ NoFault
            \/ Says(n, "REJECTED", "reporting") /\ Fault
  /\ UNCHANGED <<vars, wake, used, chain>>

(* Slips: a used nonce is not refused; the nonce is recorded before it is  *)
(* looked up.                                                              *)
ConsumeNonceBlindly(n) ==
  /\ At(n, "consuming")
  /\ Goes(n, "resolving")
  /\ used' = used \cup {NonceOf[PaymentOf(n)]}
  /\ UNCHANGED <<vars, wake, chain, faults>>

ConsumeNonceFirst(n) ==
  /\ At(n, "consuming")
  /\ used' = used \cup {NonceOf[PaymentOf(n)]}
  /\ IF NonceOf[PaymentOf(n)] \in used'
       THEN Says(n, "REJECTED", "reporting") ELSE Goes(n, "resolving")
  /\ UNCHANGED <<vars, wake, chain, faults>>

(* The nonce is consumed once and for all.  A retry of a request whose     *)
(* answer was lost is told that the nonce is used.                         *)
ConsumeNonce(n) ==
  LET nonce == NonceOf[PaymentOf(n)]
  IN /\ At(n, "consuming")
     /\ \/ nonce \notin used /\ Goes(n, "resolving") /\ NoFault
        \/ nonce \in used /\ Says(n, "REJECTED", "reporting") /\ NoFault
        \/ nonce \notin used /\ Says(n, "REJECTED", "reporting") /\ Fault
     /\ used' = used \cup {nonce}
     /\ UNCHANGED <<vars, wake, chain>>

(* The recipient's route and the simulation of the deposit come after it.  *)
Resolve(n) ==
  /\ At(n, "resolving")
  /\ \/ Says(n, "VERIFIED", "reporting") /\ NoFault
     \/ Says(n, "REJECTED", "reporting") /\ Fault
  /\ UNCHANGED <<vars, wake, used, chain>>

StillRunning(g) ==
  /\ LeaseHeld(LeaseOf(g.owner, work[g.id]), g.owner)
  /\ work[g.id].version = g.version

ReportVerdict(n) ==
  /\ At(n, "reporting") /\ n \in Node
  /\ \/ /\ NodeReport(Held(n), worker[n].says)
        /\ \/ Becomes(n, Resting) /\ NoFault
           \/ Becomes(n, AfterFailure(n)) /\ Fault
     \/ /\ UNCHANGED vars
        /\ Becomes(n, AfterFailure(n))
        /\ IF StillRunning(Held(n)) THEN Fault ELSE NoFault
  /\ UNCHANGED <<wake, used, chain>>

-----------------------------------------------------------------------------
(* The Cranker daemon.                                                     *)

Deposit(c) == DepositOf[PaymentOf(c)]

(* The presigned deposit is sent unchanged; the daemon goes on to confirm  *)
(* it also when it was processed before.  An error may hide a deposit that *)
(* reached the network all the same.                                       *)
Send(c) ==
  LET s == Deposit(c)
  IN /\ At(c, "holding") /\ c \in Cranker
     /\ \/ /\ chain[s] = "new" /\ chain' = [chain EXCEPT ![s] = "sent"]
           /\ Goes(c, "confirming") /\ NoFault
        \/ /\ chain[s] \in {"sent", "landed"} /\ UNCHANGED chain
           /\ Goes(c, "confirming") /\ NoFault
        \/ /\ chain[s] = "dead" /\ UNCHANGED chain
           /\ Goes(c, "failing") /\ NoFault
        \/ /\ chain' \in {chain, [chain EXCEPT ![s] = IF @ = "new" THEN "sent" ELSE @]}
           /\ Goes(c, "failing") /\ Fault
     /\ UNCHANGED <<vars, wake, used>>

(* Slip: a deposit that was sent passes for one that landed.               *)
ConfirmSent(c) ==
  /\ At(c, "confirming")
  /\ \/ chain[Deposit(c)] \in {"sent", "landed"} /\ Says(c, "CONFIRMED", "reporting") /\ NoFault
     \/ chain[Deposit(c)] = "dead" /\ Goes(c, "failing") /\ NoFault
     \/ chain[Deposit(c)] # "dead" /\ Goes(c, "failing") /\ Fault
  /\ UNCHANGED <<vars, wake, used, chain>>

(* It polls for confirmation, longer than its lease runs.                  *)
Confirm(c) ==
  /\ At(c, "confirming")
  /\ \/ chain[Deposit(c)] = "landed" /\ Says(c, "CONFIRMED", "reporting") /\ NoFault
     \/ chain[Deposit(c)] = "dead" /\ Goes(c, "failing") /\ NoFault
     \/ chain[Deposit(c)] # "dead" /\ Goes(c, "failing") /\ Fault
  /\ UNCHANGED <<vars, wake, used, chain>>

CanReport(g, outcome, sig) == IsReplay(work[g.id], outcome, sig) \/ StillRunning(g)

(* Confirmed funding is what the settlement waits for: the Node is woken.  *)
ReportConfirmed(c) ==
  /\ At(c, "reporting") /\ c \in Cranker
  /\ \/ /\ CrankerReport(Held(c), "CONFIRMED", Deposit(c))
        /\ \/ /\ Becomes(c, Resting)
              /\ IF work' = work THEN UNCHANGED wake /\ NoFault ELSE WakeNode
           \/ /\ Goes(c, "failing") /\ Fault     \* the answer was lost
              /\ UNCHANGED wake
     \/ /\ UNCHANGED <<vars, wake>>              \* refused, or never arrived
        /\ Goes(c, "failing")
        /\ IF CanReport(Held(c), "CONFIRMED", Deposit(c)) THEN Fault ELSE NoFault
  /\ UNCHANGED <<used, chain>>

(* Whatever went wrong, the lost report of a success included, the daemon  *)
(* reports a failure, once, and ignores what becomes of that.              *)
ReportFailed(c) ==
  /\ At(c, "failing")
  /\ Becomes(c, Resting)
  /\ \/ CrankerReport(Held(c), "FAILED", None) /\ NoFault
     \/ /\ UNCHANGED vars
        /\ IF CanReport(Held(c), "FAILED", None) THEN Fault ELSE NoFault
  /\ UNCHANGED <<wake, used, chain>>

-----------------------------------------------------------------------------
(* The environment.                                                        *)

(* A deposit in the network lands, or its blockhash expires first.         *)
Land(s) ==
  /\ chain[s] = "sent"
  /\ \E fate \in {"landed", "dead"} : chain' = [chain EXCEPT ![s] = fate]
  /\ UNCHANGED <<vars, worker, wake, used, faults>>

(* A lease runs out.  It costs a fault when its holder is still at work.   *)
Busy(w) == \E o \in Owner : Held(o) \in grants /\ Held(o).id = w /\ Held(o).live
RunOut(w) ==
  /\ ExpireLease(w)
  /\ \E o \in Owner : LeaseHeld(LeaseOf(o, work[w]), o)
  /\ IF Busy(w) THEN Fault ELSE NoFault
  /\ worker' = [o \in Owner |->
       IF Held(o) \in grants /\ Held(o).id = w
         THEN [worker[o] EXCEPT !.held.live = FALSE] ELSE worker[o]]
  /\ UNCHANGED <<wake, used, chain>>

(* Slip: a Node that starts waits for the next wake.                       *)
CrashUnwoken(o) ==
  /\ Fault
  /\ Becomes(o, IF o \in Node THEN Asleep ELSE Resting)
  /\ UNCHANGED <<vars, wake, used, chain>>

(* A worker stops and is started again.  The Node starts awake.            *)
Crash(o) ==
  /\ Fault
  /\ Becomes(o, IF o \in Node THEN Asleep ELSE Resting)
  /\ wake' = IF o \in Node THEN [wake EXCEPT ![o] = TRUE] ELSE wake
  /\ UNCHANGED <<vars, used, chain>>

-----------------------------------------------------------------------------
NodeStep(n) == Ask(n) \/ WakeUp(n) \/ Check(n) \/ ConsumeNonce(n) \/ Resolve(n) \/ ReportVerdict(n)
CrankerStep(c) == Ask(c) \/ Send(c) \/ Confirm(c) \/ ReportConfirmed(c) \/ ReportFailed(c)

PNext ==
  \/ \E r \in Ref, b \in Body : Submit(r, b)
  \/ \E n \in Node : NodeStep(n)
  \/ \E c \in Cranker : CrankerStep(c)
  \/ \E o \in Owner : ServeWorker(o) \/ Crash(o)
  \/ \E s \in Signature : Land(s)
  \/ \E w \in WorkId : RunOut(w)

PSpec == PInit /\ [][PNext]_all

(* Every service keeps running: a request that reached the Receiver is     *)
(* served, a worker's loop goes on, a deposit's fate is decided within its *)
(* blockhash's life, and a lease nobody works under runs out.  Nobody is   *)
(* obliged to submit, and no fault has to happen.                          *)
FairPSpec ==
  /\ PSpec
  /\ \A n \in Node : WF_all(NodeStep(n))
  /\ \A c \in Cranker : WF_all(CrankerStep(c))
  /\ \A o \in Owner : WF_all(ServeWorker(o))
  /\ \A s \in Signature : WF_all(Land(s))
  /\ \A w \in WorkId : WF_all(RunOut(w))

-----------------------------------------------------------------------------
(* Properties                                                              *)

PTypeOK ==
  /\ worker \in [Owner -> [pc : {"asleep", "rest", "asking", "holding", "consuming", "resolving",
                                "confirming", "reporting", "failing"},
                           held : Grant \cup {NoGrant},
                           says : NodeVerdict \cup {"NONE", "CONFIRMED"}, failures : 0..FailureLimit]]
  /\ wake \in [Node -> BOOLEAN]
  /\ used \subseteq Nonce
  /\ chain \in [Signature -> {"new", "sent", "landed", "dead"}]
  /\ faults \in 0..Faults

Payment(r) == work[Ingress(r)]
Reached(r, status) == Exists(Ingress(r)) /\ Payment(r).status = status
Accepted(r) == Exists(Ingress(r)) /\ Payment(r).verification.decision = "VERIFIED"

(* The Receiver says CONFIRMED only of a payment whose deposit is on chain *)
(* - whoever else sent it, and whatever became of earlier attempts.        *)
ConfirmedLanded ==
  \A r \in Ref : Reached(r, "CONFIRMED") => chain[DepositOf[r]] = "landed"

(* One signed authorization is accepted once, by however many Nodes and    *)
(* under however many payment ids it is submitted.                         *)
NoReplayedAuthorization ==
  \A r, q \in Ref : Accepted(r) /\ Accepted(q) /\ NonceOf[r] = NonceOf[q] => r = q

(* A payment that had no bad luck is refused or fails only for a reason:   *)
(* its message is bad, its nonce was spent by another, its deposit died.   *)
NoVerdictWithoutReason ==
  faults = Faults => \A r \in Ref :
    /\ Reached(r, "REJECTED") =>
         r \notin Valid \/ \E q \in Ref \ {r} : NonceOf[q] = NonceOf[r] /\ Exists(Ingress(q))
    /\ Reached(r, "FAILED") => chain[DepositOf[r]] = "dead"

(* What a Node has accepted is executed or reported as failed: an          *)
(* abandoned Cranker lease is taken back and tried again.                  *)
AcceptedIsFinished ==
  \A r \in Ref : Accepted(r) ~> Accepted(r) /\ Payment(r).status \in CrankerOutcome

(* A wake that arrives while the Node drains is not lost: work that is     *)
(* there when the event is set is taken on, as long as the Node does not   *)
(* give up first.                                                          *)
WakeIsHeeded ==
  \A r \in Ref : Reached(r, "RECEIVED") /\ (\E n \in Node : wake[n]) ~> ~Reached(r, "RECEIVED")

(* A deposit the Cranker has seen confirmed is not recorded as a failure.  *)
NoFalseFailure ==
  [][\A c \in Cranker, r \in Ref :
       worker[c].says = "CONFIRMED" /\ Held(c).id = Ingress(r) /\ Reached(r, "FAILED")' =>
         Reached(r, "FAILED")]_all
=============================================================================
