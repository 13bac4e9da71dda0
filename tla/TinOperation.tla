----------------------------- MODULE TinOperation -----------------------------
(***************************************************************************)
(* Crankers that carry out TIN work (processTinOperation of cranker.ts) on *)
(* the program of TinRegistrar.  A creation that fits a packet is sent as  *)
(* one transaction; a larger one as a plan of transactions, each confirmed *)
(* before the next.  The simulation before a transaction is sent and its   *)
(* execution are apart: what other callers do may come between.  A Cranker *)
(* stops waiting after a time, or with its process; what it sent may still *)
(* be executed.                                                            *)
(*                                                                         *)
(* Leases, attestations and what becomes of a report are in Receiver; here *)
(* any Cranker may hold work that has no final report, as leases lapse.    *)
(***************************************************************************)
EXTENDS TinRegistrar

CONSTANTS
  Cranker,
  Oversize,    \* intents whose creation exceeds a packet
  AdriftBound  \* bound: transactions under way that no Cranker waits for

VARIABLES
  crank,       \* Cranker -> the work it does, and the state of its transaction
  adrift,      \* transactions under way that no Cranker waits for
  report       \* intent -> the Cranker's report

vars == <<chain, crank, adrift, report>>

ASSUME OperationAssumption ==
  /\ Oversize \subseteq Intent /\ AdriftBound \in Nat
  /\ None \notin {"CONFIRMED", "FAILED"}

(* The instructions of one creation, in the order they are sent.           *)
ChunkPlan ==
  FlattenSeq([b \in DOMAIN Blob |->
                [n \in 1..ChunksOf[Blob[b]] |->
                   [op |-> "chunk", blob |-> Blob[b], offset |-> n - 1]]])
LastStep(i) == IF i \in Oversize THEN Len(ChunkPlan) + 2 ELSE 1
Plan(i, n) ==
  IF n = LastStep(i) THEN [op |-> IF i \in Oversize THEN "finalize" ELSE "create"]
  ELSE IF n = 1 THEN [op |-> "stage"]
  ELSE ChunkPlan[n - 1]

Init ==
  /\ RInit
  /\ crank = [c \in Cranker |-> None]
  /\ adrift = {}
  /\ report = [i \in Intent |-> None]

-----------------------------------------------------------------------------
(* A transaction of a Cranker on the chain.                                *)

Succeeds(i, n) ==
  LET instruction == Plan(i, n)
  IN CASE instruction.op = "stage" -> StageAllowed(i, "approved")
       [] instruction.op = "chunk" ->
            ChunkAllowed(i, instruction.blob, instruction.offset, "approved")
       [] instruction.op = "finalize" -> FinalizeAllowed(i)
       [] instruction.op = "create" -> CreateAllowed(i, "approved", Approved)

Execute(i, n) ==
  LET instruction == Plan(i, n)
  IN \/ instruction.op = "stage" /\ stage(i, "approved")
     \/ instruction.op = "chunk" /\ append_chunk(i, instruction.blob, instruction.offset, "approved")
     \/ instruction.op = "finalize" /\ finalize(i)
     \/ instruction.op = "create" /\ CreateTinV1(i)
     \/ ~Succeeds(i, n) /\ UNCHANGED chain

-----------------------------------------------------------------------------
(* A Cranker.                                                              *)

Lease(c, i) ==
  /\ crank[c] = None /\ report[i] = None
  /\ crank' = [crank EXCEPT ![c] = [intent |-> i, step |-> 1, tx |-> "none"]]
  /\ UNCHANGED <<chain, adrift, report>>

Report(i, status) == report' = [report EXCEPT ![i] = IF @ = None THEN status ELSE @]

(* A transaction that its simulation refuses is not sent.                  *)
sendTransaction(c) ==
  /\ crank[c] # None /\ crank[c].tx = "none"
  /\ LET i == crank[c].intent
     IN \/ /\ Succeeds(i, crank[c].step)
           /\ crank' = [crank EXCEPT ![c].tx = "sent"]
           /\ UNCHANGED report
        \/ /\ ~Succeeds(i, crank[c].step)
           /\ crank' = [crank EXCEPT ![c] = None]
           /\ Report(i, "FAILED")
  /\ UNCHANGED <<chain, adrift>>

Land(c) ==
  /\ crank[c] # None /\ crank[c].tx = "sent"
  /\ Execute(crank[c].intent, crank[c].step)
  /\ crank' = [crank EXCEPT ![c].tx =
                 IF Succeeds(crank[c].intent, crank[c].step) THEN "ok" ELSE "err"]
  /\ UNCHANGED <<adrift, report>>

(* Slip: an error of the chain passes for a confirmation on both paths.    *)
ConfirmsAnyway(i, tx) == tx \in {"ok", "err"}

(* What confirms a transaction: confirmSignatureViaRpc throws on an error  *)
(* of the chain; the library's confirmTransaction, which the one-packet    *)
(* path uses, returns it.                                                  *)
Confirms(i, tx) == tx = "ok" \/ (tx = "err" /\ i \notin Oversize)

NextStep(c) ==
  /\ crank[c] # None
  /\ Confirms(crank[c].intent, crank[c].tx)
  /\ crank[c].step # LastStep(crank[c].intent)
  /\ crank' = [crank EXCEPT ![c].step = @ + 1, ![c].tx = "none"]
  /\ UNCHANGED <<chain, adrift, report>>

(* After the last transaction the registry account is looked up: that it   *)
(* is the lookup commitment's, whoever's intent created it.                *)
Finish(c) ==
  /\ crank[c] # None
  /\ Confirms(crank[c].intent, crank[c].tx)
  /\ crank[c].step = LastStep(crank[c].intent)
  /\ Report(crank[c].intent,
            IF registry[LookupOf[crank[c].intent]] # None THEN "CONFIRMED" ELSE "FAILED")
  /\ crank' = [crank EXCEPT ![c] = None]
  /\ UNCHANGED <<chain, adrift>>

SetAdrift(c) ==
  /\ adrift' = adrift \cup IF crank[c].tx = "sent" THEN {<<crank[c].intent, crank[c].step>>} ELSE {}
  /\ Cardinality(adrift') <= AdriftBound

(* It sees the error, or its wait ends first.                              *)
GiveUp(c) ==
  /\ crank[c] # None
  /\ \/ crank[c].tx = "sent"
     \/ crank[c].tx = "err" /\ ~Confirms(crank[c].intent, crank[c].tx)
  /\ SetAdrift(c)
  /\ Report(crank[c].intent, "FAILED")
  /\ crank' = [crank EXCEPT ![c] = None]
  /\ UNCHANGED chain

Crash(c) ==
  /\ crank[c] # None
  /\ SetAdrift(c)
  /\ crank' = [crank EXCEPT ![c] = None]
  /\ UNCHANGED <<chain, report>>

(* A transaction nobody waits for is executed late, or its blockhash runs  *)
(* out.                                                                    *)
LandLate(i, n) ==
  /\ <<i, n>> \in adrift
  /\ Execute(i, n)
  /\ adrift' = adrift \ {<<i, n>>}
  /\ UNCHANGED <<crank, report>>

Expire(i, n) ==
  /\ <<i, n>> \in adrift
  /\ adrift' = adrift \ {<<i, n>>}
  /\ UNCHANGED <<chain, crank, report>>

-----------------------------------------------------------------------------
(* Time and other callers of the program.                                  *)
Others(i) ==
  /\ \/ close_expired(i)
     \/ i \in Oversize /\
          \/ stage(i, "other") \/ finalize(i)
          \/ \E k \in Kind : \E offset \in 0..(ChunksOf[k] - 1) : append_chunk(i, k, offset, "other")
  /\ UNCHANGED <<crank, adrift, report>>

Next ==
  \/ \E c \in Cranker :
       \/ \E i \in Intent : Lease(c, i)
       \/ sendTransaction(c) \/ Land(c) \/ NextStep(c) \/ Finish(c) \/ GiveUp(c) \/ Crash(c)
  \/ \E transaction \in adrift :
       LandLate(transaction[1], transaction[2]) \/ Expire(transaction[1], transaction[2])
  \/ \E i \in Intent : Others(i)
  \/ Tick /\ UNCHANGED <<crank, adrift, report>>

Spec == Init /\ [][Next]_vars

-----------------------------------------------------------------------------
(* Properties, beside those of TinRegistrar.                               *)

TinTypeOK ==
  /\ RTypeOK
  /\ \A c \in Cranker : crank[c] # None =>
       /\ crank[c].intent \in Intent
       /\ crank[c].step \in 1..LastStep(crank[c].intent)
       /\ crank[c].tx \in {"none", "sent", "ok", "err"}
  /\ \A tx \in adrift : tx[1] \in Intent /\ tx[2] \in 1..LastStep(tx[1])
  /\ report \in [Intent -> {None, "CONFIRMED", "FAILED"}]

(* A creation reported as confirmed is in the registry; one that was       *)
(* staged is there as its owner signed it, not another's under the same    *)
(* lookup commitment.                                                      *)
ConfirmedIsCreated ==
  \A i \in Intent : report[i] = "CONFIRMED" =>
    /\ registry[LookupOf[i]] # None
    /\ i \in Oversize => registry[LookupOf[i]].intent = i
=============================================================================
